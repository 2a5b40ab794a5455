----------------------------- MODULE BlockChain -----------------------------
(***************************************************************************)
(* The canonical chain (core/blockchain.go): blocks are imported under     *)
(* chainmu or written by the miner, each by a series of database writes    *)
(* under mu; the process may stop between any two of them, and start again *)
(* from what the database holds.                                           *)
(*                                                                         *)
(* A block is named by its position in blocks and carries a transaction or *)
(* NoTx.  Its total difficulty is in the database whenever the block is,   *)
(* so it is not a variable.  The state of a block is in the cache of tries *)
(* or on disk; collecting a trie removes it from the cache.  The head of   *)
(* fast sync moves with the header's here and is left out, and so is the   *)
(* archive mode, in which every state goes to disk.                        *)
(***************************************************************************)
EXTENDS Integers, Sequences, FiniteSets

CONSTANTS
    Tx, NoTx,       \* transactions; a block without any
    Difficulties,   \* difficulties a block can have
    TriesInMemory,  \* states kept in the cache (triesInMemory, 128)
    Worlds          \* the bounds of a behaviour (Init chooses one): txs, and the
                    \* numbers of blocks, of stops and crashes, and of rewinds

ASSUME ChainAssumption ==
    /\ NoTx \notin Tx
    /\ Difficulties \subseteq Nat \ {0}
    /\ TriesInMemory \in Nat \ {0}
    /\ Worlds \subseteq [txs: SUBSET Tx, blocks: Nat, stops: Nat, rewinds: Nat]

VARIABLES
    blocks,         \* every block there is: [number, parent, td, tx]
    stored,         \* blocks in the database
    canonical,      \* number -> block, 0 if there is none
    headBlock, headHeader,      \* head hashes in the database
    lookup,         \* transaction -> block, 0 if there is none
    onDisk,         \* blocks whose state is in the database
    inMemory,       \* blocks whose state is in the cache
    currentBlock, currentHeader,
    importing,      \* blocks insertChain still has to write (chainmu)
    writes,         \* database writes WriteBlockWithState has to do (mu)
    status,         \* "running", "down", or how the node failed
    stops, rewinds,
    world,
    keep,           \* history: head at the last clean stop, 0 after a crash
    crashed         \* history: the node crashed

database == <<stored, canonical, headBlock, headHeader, lookup, onDisk>>
bounds == <<stops, rewinds, world>>
memory == <<inMemory, currentBlock, currentHeader>>
history == <<keep, crashed>>
vars == <<blocks, database, memory, importing, writes, status, bounds, history>>

Last(s) == s[Len(s)]
ToSet(s) == {s[n] : n \in DOMAIN s}

Ids == 1 .. Len(blocks)
number(b) == blocks[b].number
parent(b) == blocks[b].parent
td(b) == blocks[b].td

\* b and its ancestors; a parent comes before its children.
Path(b) ==
    LET up[x \in 1 .. b] == {x} \cup (IF x = 1 THEN {} ELSE up[parent(x)])
    IN  up[b]

highest(B) == CHOOSE x \in B : \A y \in B : number(y) <= number(x)

\* The blocks between b and its ancestor a, a excluded, in the order of their
\* numbers.
Above(b, a) == [i \in 1 .. number(b) - number(a) |->
                   CHOOSE x \in Path(b) : number(x) = number(a) + i]

TxOf(B) == {blocks[b].tx : b \in B} \ {NoTx}

HasState(b) == b \in inMemory \cup onDisk

Init ==
    /\ world \in Worlds
    /\ blocks = <<[number |-> 0, parent |-> 0, td |-> 0, tx |-> NoTx]>>
    /\ stored = {1} /\ onDisk = {1} /\ inMemory = {}
    /\ canonical = [n \in 0 .. world.blocks |-> IF n = 0 THEN 1 ELSE 0]
    /\ headBlock = 1 /\ headHeader = 1
    /\ lookup = [t \in Tx |-> 0]
    /\ currentBlock = 1 /\ currentHeader = 1
    /\ importing = <<>> /\ writes = <<>>
    /\ status = "running" /\ stops = 0 /\ rewinds = 0 /\ keep = 0
    /\ crashed = FALSE

\* Other nodes create blocks; a transaction is on a branch at most once.  A block
\* the node has not seen changes nothing, so that all may be created before the
\* first is imported, and in the order of their parents.
CreateBlock(p, d, t) ==
    /\ stored = {1} /\ importing = <<>> /\ writes = <<>> /\ stops = 0 /\ rewinds = 0
    /\ Len(blocks) < world.blocks /\ p >= Last(blocks).parent
    /\ t = NoTx \/ t \in world.txs \ TxOf(Path(p))
    /\ blocks' = Append(blocks, [number |-> number(p) + 1, parent |-> p,
                                 td |-> td(p) + d, tx |-> t])
    /\ UNCHANGED <<database, memory, importing, writes, status, bounds, history>>

-----------------------------------------------------------------------------
(* insertChain for one block that VerifyHeaders accepts, so that its parent's
   header is in the database. *)

Idle == status = "running" /\ importing = <<>> /\ writes = <<>>

\* ErrKnownBlock and ErrPrunedAncestor of ValidateBody.
known(b) == b \in stored /\ HasState(b)
pruned(b) == ~known(b) /\ ~HasState(parent(b))

\* The closest ancestor of b, b excluded, that has its state, and the blocks
\* between them, with which the branch is executed again.
lastExecuted(b) == highest({x \in Path(b) : x # b /\ HasState(x)})
winner(b) == Above(b, lastExecuted(b))

\* A block of the walk from b to the ancestor last is not in the database.
broken(b, last) == \E x \in Path(b) : x # b /\ number(x) >= number(last) /\ x \notin stored

\* A known block is ignored unless it is above the head.  If the parent's
\* state was collected, a lighter block is only stored, otherwise the branch
\* is executed again from the last block that has its state; a missing block on
\* the way there is a nil pointer.
InsertChain(b) ==
    /\ Idle
    /\ b # 1 /\ parent(b) \in stored
    /\ ~(known(b) /\ number(currentBlock) >= number(b))
    /\ \/ /\ ~pruned(b)
          /\ importing' = <<b>>
          /\ UNCHANGED <<stored, status>>
       \/ /\ pruned(b) /\ td(currentBlock) > td(b)
          /\ stored' = stored \cup {b}
          /\ UNCHANGED <<importing, status>>
       \/ /\ pruned(b) /\ td(currentBlock) <= td(b) /\ ~broken(b, lastExecuted(b))
          /\ importing' = winner(b)
          /\ UNCHANGED <<stored, status>>
       \/ /\ pruned(b) /\ td(currentBlock) <= td(b) /\ broken(b, lastExecuted(b))
          /\ status' = "lost"
          /\ UNCHANGED <<stored, importing>>
    /\ UNCHANGED <<blocks, canonical, headBlock, headHeader, lookup, onDisk, memory,
                   writes, bounds, history>>

-----------------------------------------------------------------------------
(* WriteBlockWithState, as the list of the database writes it makes; the batch
   that WriteBlock stands for also has the lookup entries of a new head. *)

writeTxs(op, b, txs) == [op |-> op, block |-> b, txs |-> txs]
write(op, b) == writeTxs(op, b, {})
lookupWrite(b) == writeTxs("WriteTxLookupEntries", b, TxOf({b}))

\* insert(b): the canonical number and the head, and the head header if b was
\* not canonical before.
insertWrites(b, updateHeads) ==
    <<write("WriteCanonicalHash", b), write("WriteHeadBlockHash", b)>>
        \o (IF updateHeads THEN <<write("WriteHeadHeaderHash", b)>> ELSE <<>>)

commonBlock(b) == highest(Path(b) \cap Path(currentBlock))
newChain(b) == Above(b, commonBlock(b))
oldChain(b) == Above(currentBlock, commonBlock(b))

insertNewChain(b) ==
    LET chain == newChain(b)
        insert[i \in 0 .. Len(chain)] ==
            IF i = 0 THEN <<>>
            ELSE insert[i - 1] \o insertWrites(chain[i], canonical[number(chain[i])] # chain[i])
                               \o <<lookupWrite(chain[i])>>
    IN  insert[Len(chain)]

\* Transactions that are only on the old branch.
deletedTxs(b) == TxOf(ToSet(oldChain(b))) \ TxOf(ToSet(newChain(b)))

\* Slip: the transactions of the old branch are not forgotten.
reorgWritesNoDelete(b) == insertNewChain(b)

\* reorg: the new branch is inserted from the common ancestor up, b included,
\* then the transactions of the old branch are forgotten.
reorgWrites(b) ==
    insertNewChain(b) \o <<writeTxs("DeleteTxLookupEntries", b, deletedTxs(b))>>

\* Slip: the later block wins a tie.
isBetterLater(b) == td(b) >= td(currentBlock)

isBetter(b) ==
    \/ td(b) > td(currentBlock)
    \/ td(b) = td(currentBlock) /\ number(b) > number(currentBlock)

isReorg(b) == isBetter(b) /\ parent(b) # currentBlock

blockWrites(b) ==
    IF ~isBetter(b) THEN <<write("WriteBlock", b)>>
    ELSE (IF isReorg(b) THEN reorgWrites(b) ELSE <<>>)
         \o <<writeTxs("WriteBlock", b, TxOf({b}))>>
         \o insertWrites(b, ~isReorg(b) /\ canonical[number(b)] # b)

\* reorg does not find the blocks down to the common ancestor.
reorgFails(b) ==
    isReorg(b) /\ (broken(b, commonBlock(b)) \/ broken(currentBlock, commonBlock(b)))

\* GetHeaderByNumber finds no header TriesInMemory below b: the branch of b is
\* lighter than the canonical one and that much longer.
headerMissing(b) ==
    number(b) > TriesInMemory /\ canonical[number(b) - TriesInMemory] \notin stored

\* Slip: the cache keeps one state less.
collectTriesTooMany(b, flush) ==
    LET chosen == number(b) - TriesInMemory + 1
        header == canonical[chosen]
        states == inMemory \cup {b}
    IN  IF chosen <= 0 THEN ~flush /\ inMemory' = states /\ UNCHANGED onDisk
        ELSE /\ onDisk' = IF flush THEN onDisk \cup ({header} \cap states) ELSE onDisk
             /\ inMemory' = {x \in states : number(x) > chosen}

\* The state of b goes to the cache.  The state of the canonical block
\* TriesInMemory below is committed when the cache is large or old (flush),
\* and what is not above it is collected.
collectTries(b, flush) ==
    LET chosen == number(b) - TriesInMemory
        header == canonical[chosen]
        states == inMemory \cup {b}
    IN  IF chosen <= 0 THEN ~flush /\ inMemory' = states /\ UNCHANGED onDisk
        ELSE /\ onDisk' = IF flush THEN onDisk \cup ({header} \cap states) ELSE onDisk
             /\ inMemory' = {x \in states : number(x) > chosen}

\* The missing header is a nil pointer: the process ends before any write.  If
\* reorg fails, only the state is kept and an error returned; rest and failed are
\* what the importer has left to do then.
WriteBlockWithState(b, rest, failed, flush) ==
    /\ \/ /\ ~headerMissing(b) /\ ~reorgFails(b)
          /\ writes' = blockWrites(b) /\ importing' = rest
          /\ collectTries(b, flush)
          /\ UNCHANGED status
       \/ /\ ~headerMissing(b) /\ reorgFails(b)
          /\ importing' = failed
          /\ collectTries(b, flush)
          /\ UNCHANGED <<writes, status>>
       \/ /\ headerMissing(b) /\ ~flush
          /\ status' = "panic" /\ importing' = rest
          /\ UNCHANGED <<writes, onDisk, inMemory>>
    /\ UNCHANGED <<blocks, stored, canonical, headBlock, headHeader, lookup,
                   currentBlock, currentHeader, bounds, history>>

\* The next block of insertChain; without its parent's state or total
\* difficulty the import ends.
ImportBlock(flush) ==
    LET b == Head(importing)
    IN  /\ status = "running" /\ importing # <<>> /\ writes = <<>>
        /\ HasState(parent(b)) /\ parent(b) \in stored
        /\ WriteBlockWithState(b, Tail(importing), <<>>, flush)

ImportFails ==
    /\ status = "running" /\ importing # <<>> /\ writes = <<>>
    /\ LET p == parent(Head(importing)) IN ~HasState(p) \/ p \notin stored
    /\ importing' = <<>>
    /\ UNCHANGED <<blocks, database, memory, writes, status, bounds, history>>

\* worker.wait writes the node's own block, made on top of the head, without
\* chainmu.
WriteMinedBlock(b, flush) ==
    /\ status = "running" /\ writes = <<>>
    /\ b \notin stored /\ b # 1 /\ parent(b) \in stored /\ HasState(parent(b))
    /\ WriteBlockWithState(b, importing, importing, flush)

\* One database write, with the field of BlockChain that is set after it.
Write ==
    LET w == Head(writes)
        b == w.block
        is(op) == w.op = op
    IN  /\ status = "running" /\ writes # <<>>
        /\ writes' = Tail(writes)
        /\ stored' = IF is("WriteBlock") THEN stored \cup {b} ELSE stored
        /\ canonical' = IF is("WriteCanonicalHash")
                        THEN [canonical EXCEPT ![number(b)] = b] ELSE canonical
        /\ IF is("WriteHeadBlockHash") THEN headBlock' = b /\ currentBlock' = b
           ELSE UNCHANGED <<headBlock, currentBlock>>
        /\ IF is("WriteHeadHeaderHash") THEN headHeader' = b /\ currentHeader' = b
           ELSE UNCHANGED <<headHeader, currentHeader>>
        /\ lookup' = [t \in Tx |->
               IF t \notin w.txs THEN lookup[t]
               ELSE IF is("DeleteTxLookupEntries") THEN 0 ELSE b]
        /\ UNCHANGED <<blocks, onDisk, inMemory, importing, status, bounds, history>>

-----------------------------------------------------------------------------
(* Stopping and starting. *)

\* Slip: only the states below the head are committed.
recentStatesNoHead == {canonical[number(currentBlock) - i] :
    i \in {o \in {1, TriesInMemory - 1} \ {0} : number(currentBlock) > o}}

\* The states of the head, its parent and the oldest one in the cache.
recentStates == {canonical[number(currentBlock) - i] :
    i \in {o \in {0, 1, TriesInMemory - 1} : number(currentBlock) > o}}

Down ==
    /\ stops < world.stops /\ stops' = stops + 1
    /\ status' = "down" /\ UNCHANGED <<rewinds, world>>
    /\ importing' = <<>> /\ writes' = <<>> /\ inMemory' = {}

\* Stop waits for the writer; insertChain ends before its next block.
Stop ==
    /\ status = "running" /\ writes = <<>>
    /\ onDisk' = onDisk \cup (recentStates \cap inMemory)
    /\ Down
    /\ keep' = (IF HasState(currentBlock) THEN currentBlock ELSE 0) /\ UNCHANGED crashed
    /\ UNCHANGED <<blocks, stored, canonical, headBlock, headHeader, lookup,
                   currentBlock, currentHeader>>

Crash ==
    /\ status = "running"
    /\ Down /\ keep' = 0 /\ crashed' = TRUE
    /\ UNCHANGED <<blocks, database, currentBlock, currentHeader>>

\* repair: the closest ancestor that has its state.
repair(b) == highest(Path(b) \cap onDisk)

\* NewHeaderChain and loadLastState.  Without the head block the header chain
\* starts at genesis; Reset calls SetHead(0), which writes that head header,
\* then asks for the current block before any was set, and panics.
Start ==
    /\ status = "down"
    /\ IF headBlock \in stored
       THEN /\ status' = "running"
            /\ currentBlock' = repair(headBlock)
            /\ currentHeader' = IF headHeader \in stored THEN headHeader ELSE currentBlock'
       ELSE /\ status' = "dead"
            /\ currentHeader' = 1
            /\ UNCHANGED currentBlock
    /\ headHeader' = currentHeader'
    /\ UNCHANGED <<blocks, stored, canonical, headBlock, lookup, onDisk, inMemory,
                   importing, writes, bounds, history>>

-----------------------------------------------------------------------------
(* SetHead rewinds the chain to a number, under mu. *)

\* The head block is moved down to the new head header if it is above it, and to
\* genesis if its state is gone.
rewoundBlock(header) ==
    LET b == IF number(header) < number(currentBlock) THEN header ELSE currentBlock
    IN  IF HasState(b) THEN b ELSE 1

\* The blocks of the head header's branch above n are deleted with the numbers
\* up to it.  Finally loadLastState reads the heads again; it would call SetHead,
\* which waits for mu, if the head block were not in the database.
SetHead(n) ==
    LET deleted == {x \in Path(currentHeader) : number(x) > n}
        header  == highest(Path(currentHeader) \ deleted)
    IN  /\ status = "running" /\ writes = <<>>
        /\ rewinds < world.rewinds /\ rewinds' = rewinds + 1
        /\ stored' = stored \ deleted
        /\ canonical' = [i \in DOMAIN canonical |->
               IF i > n /\ i <= number(currentHeader) THEN 0 ELSE canonical[i]]
        /\ currentHeader' = header /\ headHeader' = header
        /\ currentBlock' = rewoundBlock(header) /\ headBlock' = currentBlock'
        /\ status' = IF headBlock' \in stored' THEN status ELSE "locked"
        /\ UNCHANGED <<blocks, lookup, onDisk, inMemory, importing, writes, stops, world, history>>

Next ==
    \/ \E p \in Ids, d \in Difficulties, t \in Tx \cup {NoTx} : CreateBlock(p, d, t)
    \/ \E b \in Ids : InsertChain(b)
    \/ \E flush \in BOOLEAN : ImportBlock(flush)
    \/ ImportFails
    \/ \E b \in Ids, flush \in BOOLEAN : WriteMinedBlock(b, flush)
    \/ Write
    \/ Stop \/ Crash \/ Start
    \/ \E n \in 0 .. world.blocks : SetHead(n)

Spec == Init /\ [][Next]_vars

-----------------------------------------------------------------------------
\* What the database holds names blocks, and a stored block's parent is stored,
\* unless SetHead deleted it and left a side branch behind.
TypeOK ==
    /\ stored \subseteq Ids /\ onDisk \subseteq Ids /\ inMemory \subseteq Ids
    /\ \A n \in DOMAIN canonical : canonical[n] \in Ids \cup {0}
    /\ {headBlock, headHeader, currentBlock, currentHeader} \subseteq Ids
    /\ \A t \in Tx : lookup[t] \in Ids \cup {0}
    /\ rewinds = 0 => \A b \in stored \ {1} : parent(b) \in stored
    /\ status \in {"running", "down", "panic", "dead", "lost", "locked"}
    /\ stops \in 0 .. world.stops /\ rewinds \in 0 .. world.rewinds

(* GetBlockByNumber walks the chain of the head: between two imports the
   numbers up to the head are assigned to its ancestors, whatever was
   reorganised, rewound or stopped before; only a crash breaks it. *)
CanonicalIsAncestry ==
    Idle /\ ~crashed => \A b \in Path(currentBlock) : canonical[number(b)] = b

(* "It will also reset the head header ... to this very same block if they are
   older or if they are on a different side chain": numbers above a shorter head
   stay assigned to the old branch, and insert compares with them, yet between
   two imports the head header is the head block, until the node is rewound. *)
HeaderIsBlock == Idle /\ stops = 0 /\ rewinds = 0 => currentHeader = currentBlock

(* A transaction is found exactly in the canonical block that contains it,
   after any reorganisation, until the node is stopped or rewound. *)
LookupIsCanonical ==
    Idle /\ stops = 0 /\ rewinds = 0 => \A t \in Tx : \A b \in stored :
        lookup[t] = b <=> b \in Path(currentBlock) /\ blocks[b].tx = t

(* What the RPC layer reads by number, as the head header and by transaction
   hash is one and the same chain. *)
ViewsAgree == TypeOK /\ CanonicalIsAncestry /\ HeaderIsBlock /\ LookupIsCanonical

(* The garbage collection of tries spares the state of the head, unless a
   lighter branch is TriesInMemory blocks longer.  The last block of that branch
   may be one that reorg refused, because SetHead deleted one of its ancestors:
   then only its parent is in the database. *)
HeadHasState ==
    status = "running" /\ writes = <<>> =>
        \/ HasState(currentBlock)
        \/ \E b \in stored : number(b) >= number(currentBlock) + TriesInMemory
                                            - (IF rewinds = 0 THEN 0 ELSE 1)

(* SetHead returns: the head block it leaves in the database is there, so that
   loadLastState does not call SetHead again, which would wait for mu for ever. *)
SetHeadReturns == status # "locked"

(* Imports, rewinds and starts leave the node a head it can work from. *)
HeadUsable == HeadHasState /\ SetHeadReturns

(* "HEAD: So we don't need to reprocess any blocks in the general case": the
   node comes up with the head it was stopped at, however often it was stopped
   and rewound.  Stop finds the states to commit by number, so that a crash,
   which breaks the numbering, breaks this too. *)
StopKeepsHead ==
    [][status = "down" /\ status' # "down" /\ keep # 0 /\ ~crashed =>
           status' = "running" /\ currentBlock' = keep]_vars

(* "If the total difficulty is higher than our known, add it to the canonical
   chain": the chain implements ForkChoice.  A block competes for the head when
   WriteBlockWithState decides about it; until its writes are done the head is
   the one they lead to. *)
heads == {i \in DOMAIN writes : writes[i].op = "WriteHeadBlockHash"}
F == INSTANCE ForkChoice WITH
        tree   <- blocks,
        held   <- stored \cup {writes[i].block : i \in DOMAIN writes},
        head   <- IF heads = {} THEN currentBlock ELSE Last(writes).block,
        faults <- stops + rewinds,
        down   <- status \in {"down", "dead"}
ImplementsForkChoice == F!ASpec

(* "Head block missing, resetting chain": whatever a crash left in the
   database, the node starts. *)
StartsAgain == status # "dead"

(* "Find the next state trie we need to commit": there is one, whatever branch
   the written block is on. *)
TrieToCommitExists == status # "panic"
=============================================================================
