------------------------------ MODULE BlockPrep ------------------------------
(***************************************************************************)
(* How one block reaches the chain while several goroutines of the node    *)
(* hold it (core/blockchain.go).  A block first arrives without its        *)
(* validator's signature and is only prepared: executed, and the result    *)
(* kept in resultProcess.  The same block with the signature is inserted:  *)
(* InsertBlock takes the kept result, or stops the preparation under way   *)
(* and executes the block itself.  The validator does both, one after the  *)
(* other, in one goroutine of the fetcher.  The downloader may import the  *)
(* same block through insertChain.                                         *)
(*                                                                         *)
(* The caches are keyed by the hash without the validator's signature,     *)
(* which is the same for both forms of the block; they are larger than one *)
(* block, so nothing is evicted.  The block is valid and its parent is the *)
(* head, with its state: the other verdicts are those of BlockChain.  The  *)
(* flag CalculatedBlock.stop is written and read without a lock or an      *)
(* atomic operation, so a read may miss a write.                           *)
(***************************************************************************)
EXTENDS Naturals, Sequences

CONSTANTS
    Thread,      \* the goroutines that hold the block
    Works,       \* each element: what every goroutine does, in order
    MaxStarts,   \* how often the block is handed to each goroutine
    MayInterrupt \* whether the node may be stopped meanwhile

VARIABLES
    work,        \* the element of Works this behaviour follows
    starts,      \* how often each goroutine has been given the block
    todo,        \* the operations each goroutine has still to do
    pc,          \* where each goroutine is in its operation
    stop,        \* the stop flag of the CalculatedBlock each one made last
    calculating, \* calculatingBlock: whose CalculatedBlock is kept, or none
    cached,      \* resultProcess holds a result
    downloading, \* downloadingBlock holds the block
    chainmu,     \* who holds the chain's lock
    has,         \* HasBlockAndState
    writes,      \* how often WriteBlockWithState stored the block
    posted,      \* how many ChainHeadEvents were posted for it
    success,     \* the goroutines whose InsertBlock returned no error
    interrupted  \* procInterrupt

vars == <<work, starts, todo, pc, stop, calculating, cached, downloading,
          chainmu, has, writes, posted, success, interrupted>>

caches == <<calculating, cached, downloading>>
chain == <<chainmu, has, writes>>
given == <<work, starts>>

None == "none"

Init ==
    /\ work \in Works
    /\ starts = [t \in Thread |-> 0]
    /\ todo = [t \in Thread |-> <<>>]
    /\ pc = [t \in Thread |-> "idle"]
    /\ stop = [t \in Thread |-> FALSE]
    /\ calculating = None
    /\ cached = FALSE
    /\ downloading = FALSE
    /\ chainmu = None
    /\ has = FALSE
    /\ writes = 0
    /\ posted = 0
    /\ success = {}
    /\ interrupted = FALSE

(* The fetcher or the downloader is handed the block. *)
Start(t) ==
    /\ pc[t] = "idle"
    /\ todo[t] = <<>>
    /\ starts[t] < MaxStarts
    /\ starts' = [starts EXCEPT ![t] = @ + 1]
    /\ todo' = [todo EXCEPT ![t] = work[t]]
    /\ UNCHANGED <<work, pc, stop, caches, chain, posted, success, interrupted>>

inserting(t) == Head(todo[t]) = "insert"

(* The operation of t is over, and with it the ones after it when it fails. *)
returns(t, failed) ==
    /\ pc' = [pc EXCEPT ![t] = "idle"]
    /\ todo' = [todo EXCEPT ![t] = IF failed THEN <<>> ELSE Tail(@)]

-----------------------------------------------------------------------------
(* PrepareBlock. *)

(* A prepared block, and one that anybody is or was executing, is left alone. *)
prepared == cached \/ calculating # None

PrepareBlock(t) ==
    /\ pc[t] = "idle"
    /\ todo[t] # <<>>
    /\ Head(todo[t]) = "prepare"
    /\ \/ /\ prepared
          /\ returns(t, FALSE)
       \/ /\ ~ prepared
          /\ pc' = [pc EXCEPT ![t] = "add"]
          /\ UNCHANGED todo
    /\ UNCHANGED <<given, stop, caches, chain, posted, success, interrupted>>

-----------------------------------------------------------------------------
(* insertBlock, up to getResultBlock. *)

(* A block the downloader was given is not inserted, which is no error. *)
InsertBlock(t) ==
    /\ pc[t] = "idle"
    /\ todo[t] # <<>>
    /\ inserting(t)
    /\ \/ /\ downloading
          /\ returns(t, FALSE)
          /\ success' = success \union {t}
       \/ /\ ~ downloading
          /\ pc' = [pc EXCEPT ![t] = "lookup"]
          /\ UNCHANGED <<todo, success>>
    /\ UNCHANGED <<given, stop, caches, chain, posted, interrupted>>

(* getResultBlock with verifiedM2: the kept result is used, ... *)
FindResult(t) ==
    /\ pc[t] = "lookup"
    /\ pc' = [pc EXCEPT ![t] = IF cached THEN "result" ELSE "stop"]
    /\ UNCHANGED <<given, todo, stop, caches, chain, posted, success,
                   interrupted>>

(* ... or else whoever executes the block is told to stop.  (Between the look
   and the write another may take its place; the write then is a stop nobody
   sees, which Process allows anyway.) *)
stopped == IF calculating = None THEN stop
           ELSE [stop EXCEPT ![calculating] = TRUE]

StopOther(t) ==
    /\ pc[t] = "stop"
    /\ stop' = stopped
    /\ pc' = [pc EXCEPT ![t] = "add"]
    /\ UNCHANGED <<given, todo, caches, chain, posted, success, interrupted>>

-----------------------------------------------------------------------------
(* getResultBlock, for both. *)

(* The CalculatedBlock is made with stop = false and kept. *)
AddCalculating(t) ==
    /\ pc[t] = "add"
    /\ calculating' = t
    /\ stop' = [stop EXCEPT ![t] = FALSE]
    /\ pc' = [pc EXCEPT ![t] = "validate"]
    /\ UNCHANGED <<given, todo, cached, downloading, chain, posted, success,
                   interrupted>>

(* The node may be stopping, or the block known in the meantime, which
   PrepareBlock does not report. *)
ValidateBody(t) ==
    /\ pc[t] = "validate"
    /\ \/ /\ interrupted
          /\ returns(t, TRUE)
       \/ /\ ~ interrupted
          /\ has
          /\ returns(t, inserting(t))
       \/ /\ ~ interrupted
          /\ ~ has
          /\ pc' = [pc EXCEPT ![t] = "process"]
          /\ UNCHANGED todo
    /\ UNCHANGED <<given, stop, caches, chain, posted, success, interrupted>>

(* ProcessBlockNoValidator looks at stop before and after every transaction.
   A preparation that was stopped is no error, an insertion is. *)
Stopped(t) ==
    /\ pc[t] \in {"process", "processed"}
    /\ stop[t]
    /\ returns(t, inserting(t))
    /\ UNCHANGED <<given, stop, caches, chain, posted, success, interrupted>>

(* A stop that was set since may not be seen. *)
Process(t) ==
    /\ pc[t] = "process"
    /\ pc' = [pc EXCEPT ![t] = "processed"]
    /\ UNCHANGED <<given, todo, stop, caches, chain, posted, success,
                   interrupted>>

(* The last look at stop is past: the preparer keeps its result, the inserter
   goes on with it. *)
Processed(t) ==
    /\ pc[t] = "processed"
    /\ IF inserting(t)
       THEN /\ pc' = [pc EXCEPT ![t] = "result"]
            /\ UNCHANGED <<todo, cached>>
       ELSE /\ cached' = TRUE
            /\ returns(t, FALSE)
    /\ UNCHANGED <<given, stop, calculating, downloading, chain, posted,
                   success, interrupted>>

-----------------------------------------------------------------------------
(* insertBlock, with the result: under the lock the block is written unless it
   is there by now. *)

writableAlways == TRUE     \* slip: the second look is left out

writable == ~ has

WriteBlock(t) ==
    /\ pc[t] = "result"
    /\ chainmu = None
    /\ \/ /\ writable
          /\ has' = TRUE
          /\ writes' = writes + 1
          /\ chainmu' = t
          /\ pc' = [pc EXCEPT ![t] = "written"]
          /\ UNCHANGED <<todo, cached, success>>
       \/ /\ ~ writable
          /\ cached' = FALSE
          /\ returns(t, FALSE)
          /\ success' = success \union {t}
          /\ UNCHANGED chain
    /\ UNCHANGED <<given, stop, calculating, downloading, posted, interrupted>>

(* The lock is released, then the result is dropped (the deferred calls). *)
Unlock(t) ==
    /\ pc[t] = "written"
    /\ chainmu' = None
    /\ pc' = [pc EXCEPT ![t] = IF inserting(t) THEN "remove" ELSE "post"]
    /\ UNCHANGED <<given, todo, stop, caches, has, writes, posted, success,
                   interrupted>>

RemoveResult(t) ==
    /\ pc[t] = "remove"
    /\ cached' = FALSE
    /\ pc' = [pc EXCEPT ![t] = "post"]
    /\ UNCHANGED <<given, todo, stop, calculating, downloading, chain, posted,
                   success, interrupted>>

(* PostChainEvents, in both InsertBlock and InsertChain. *)
PostChainEvents(t) ==
    /\ pc[t] = "post"
    /\ posted' = posted + 1
    /\ success' = IF inserting(t) THEN success \union {t} ELSE success
    /\ returns(t, FALSE)
    /\ UNCHANGED <<given, stop, caches, chain, interrupted>>

-----------------------------------------------------------------------------
(* insertChain of a batch that contains the block. *)

InsertChain(t) ==
    /\ pc[t] = "idle"
    /\ todo[t] # <<>>
    /\ Head(todo[t]) = "download"
    /\ chainmu = None
    /\ chainmu' = t
    /\ downloading' = TRUE
    /\ pc' = [pc EXCEPT ![t] = "batch"]
    /\ UNCHANGED <<given, todo, stop, calculating, cached, has, writes, posted,
                   success, interrupted>>

(* An earlier block of the batch is refused, or the node is stopping. *)
BatchEnds(t) ==
    /\ pc[t] = "batch"
    /\ chainmu' = None
    /\ returns(t, TRUE)
    /\ UNCHANGED <<given, stop, caches, has, writes, posted, success,
                   interrupted>>

(* The block's turn has come: a known block is skipped, another is executed
   and written, all under the lock. *)
BatchReaches(t) ==
    /\ pc[t] = "batch"
    /\ ~ interrupted
    /\ \/ /\ writable
          /\ has' = TRUE
          /\ writes' = writes + 1
          /\ pc' = [pc EXCEPT ![t] = "written"]
          /\ UNCHANGED <<todo, chainmu>>
       \/ /\ ~ writable
          /\ chainmu' = None
          /\ returns(t, FALSE)
          /\ UNCHANGED <<has, writes>>
    /\ UNCHANGED <<given, stop, caches, posted, success, interrupted>>

-----------------------------------------------------------------------------
(* Stop sets procInterrupt. *)
StopChain ==
    /\ MayInterrupt
    /\ ~ interrupted
    /\ interrupted' = TRUE
    /\ UNCHANGED <<given, todo, pc, stop, caches, chain, posted, success>>

(* What the goroutines do once they hold the block. *)
Step(t) ==
    \/ PrepareBlock(t) \/ InsertBlock(t) \/ FindResult(t) \/ StopOther(t)
    \/ AddCalculating(t) \/ ValidateBody(t) \/ Stopped(t) \/ Process(t)
    \/ Processed(t) \/ WriteBlock(t) \/ Unlock(t) \/ RemoveResult(t)
    \/ PostChainEvents(t) \/ InsertChain(t) \/ BatchEnds(t) \/ BatchReaches(t)

Next ==
    \/ \E t \in Thread : Start(t) \/ Step(t)
    \/ StopChain

Spec == Init /\ [][Next]_vars

(* A goroutine that can go on is scheduled again. *)
FairSpec == Spec /\ \A t \in Thread : WF_vars(Step(t))

-----------------------------------------------------------------------------
(* However the preparation, the insertions and the downloader's import of one
   block overlap, it is written once and its head event is posted once: the
   miner and the pool see every head once (insertBlock looks for the block
   again under the lock). *)
WrittenOnce == writes <= 1 /\ posted <= writes

Inserting == \E t \in Thread : pc[t] = "lookup"
Inserted == has \/ interrupted

(* Insertions that stop each other's execution never leave the block out:
   when one has got past the downloader's mark, the block is in the chain in
   the end, unless the node is stopped (getResultBlock sets stop on the
   CalculatedBlock it finds before it adds its own). *)
SomeInsertionWins == Inserting ~> Inserted

(* An insertion without an error means that the block is in the chain: the
   fetcher then signs "the imported block" and broadcasts it "If import
   succeeded". *)
SuccessIsImported == success # {} => has
=============================================================================
