------------------------------ MODULE Staking ------------------------------
(***************************************************************************)
(* Starting and stopping the staking of a node.  At every checkpoint       *)
(* CheckpointCh hands main a token, and main starts or stops the miner     *)
(* according to whether the node is a masternode (startNode).  Meanwhile   *)
(* Miner.update stops it while the downloader is at work.  The worker and  *)
(* its agent follow (worker.start, worker.stop, CpuAgent).                 *)
(*                                                                         *)
(* A thread's pc is the next atomic operation, lock or channel operation   *)
(* it performs.  Threads: "main"; "update" of the miner; "head", the       *)
(* worker's loop; and goroutines for miner.Start.                          *)
(***************************************************************************)
EXTENDS Integers, FiniteSets

CONSTANTS
    Goroutine,      \* bound: goroutines of StartStaking
    MaxSyncs        \* bound on synchronisations

Threads == Goroutine \union {"main", "update", "head"}

VARIABLES
    pc,
    started,        \* of main
    checkpoint,     \* the chain waits to hand over a checkpoint, holding chainmu
    syncing, syncs, \* of the downloader
    canStart, shouldStart, mining,      \* of the miner
    should,         \* shouldStart as update has read it
    mu,             \* holder of worker.mu, or "free"
    workerMining,   \* worker.mining
    isMining,       \* of the agent
    loops,          \* goroutines in CpuAgent.update
    stop, workCh    \* elements in the agent's channels, of capacity 1

miner == <<canStart, shouldStart, mining, should>>
worker == <<mu, workerMining, isMining, loops, stop, workCh>>
outside == <<started, checkpoint, syncing, syncs>>
vars == <<pc, outside, miner, worker>>

Init ==
    /\ pc = [t \in Threads |-> IF t = "main" THEN "recv" ELSE "idle"]
    /\ started = FALSE /\ checkpoint = FALSE /\ syncing = FALSE /\ syncs = 0
    /\ canStart = TRUE /\ shouldStart = FALSE /\ mining = FALSE /\ should = FALSE
    /\ mu = "free" /\ workerMining = FALSE /\ isMining = FALSE
    /\ loops = 0 /\ stop = 0 /\ workCh = 0

Goto(t, to) == pc' = [pc EXCEPT ![t] = to]

-----------------------------------------------------------------------------
(* main: for range core.CheckpointCh. *)

\* insertChain, insertBlock or worker.wait with the first block of an epoch.
Checkpoint ==
    /\ ~checkpoint /\ checkpoint' = TRUE
    /\ UNCHANGED <<pc, started, syncing, syncs, miner, worker>>

\* main takes the token and looks whether it is a masternode.
Receive(ok) ==
    /\ pc["main"] = "recv" /\ checkpoint /\ checkpoint' = FALSE
    /\ CASE ok /\ ~started ->
                \E g \in Goroutine : /\ pc[g] = "idle" /\ Goto(g, "start")
                                     /\ started' = TRUE
         [] ~ok /\ started -> Goto("main", "stop") /\ UNCHANGED started
         [] OTHER -> UNCHANGED <<pc, started>>
    /\ UNCHANGED <<syncing, syncs, miner, worker>>

-----------------------------------------------------------------------------
(* Miner.update: the downloader's events, one at a time. *)

StartEvent ==
    /\ pc["update"] = "idle" /\ ~syncing /\ syncs < MaxSyncs
    /\ syncing' = TRUE /\ syncs' = syncs + 1 /\ canStart' = FALSE
    /\ Goto("update", "aborting")
    /\ UNCHANGED <<started, checkpoint, shouldStart, mining, should, worker>>

Aborting ==
    /\ pc["update"] = "aborting"
    /\ Goto("update", IF mining THEN "stop" ELSE "idle")
    /\ UNCHANGED <<outside, miner, worker>>

Aborted ==
    /\ pc["update"] = "aborted" /\ shouldStart' = TRUE /\ Goto("update", "idle")
    /\ UNCHANGED <<outside, canStart, mining, should, worker>>

\* DoneEvent or FailedEvent.
DoneEvent ==
    /\ pc["update"] = "idle" /\ syncing /\ syncing' = FALSE
    /\ should' = shouldStart /\ Goto("update", "allow")
    /\ UNCHANGED <<started, checkpoint, syncs, canStart, shouldStart, mining, worker>>

Allow ==
    /\ pc["update"] = "allow" /\ canStart' = TRUE /\ Goto("update", "clear")
    /\ UNCHANGED <<outside, shouldStart, mining, should, worker>>

Clear ==
    /\ pc["update"] = "clear" /\ shouldStart' = FALSE
    /\ Goto("update", IF should THEN "start" ELSE "idle")
    /\ UNCHANGED <<outside, canStart, mining, should, worker>>

-----------------------------------------------------------------------------
(* Miner.Start and Miner.Stop, in whichever thread. *)

Start(t) ==
    /\ pc[t] = "start" /\ shouldStart' = TRUE /\ Goto(t, "etherbase")
    /\ UNCHANGED <<outside, canStart, mining, should, worker>>

\* setEtherbase takes the worker's lock and returns it.
SetEtherbase(t) ==
    /\ pc[t] = "etherbase" /\ mu = "free" /\ Goto(t, "may start")
    /\ UNCHANGED <<outside, miner, worker>>

MayStart(t) ==
    /\ pc[t] = "may start" /\ Goto(t, IF canStart THEN "set mining" ELSE "idle")
    /\ UNCHANGED <<outside, miner, worker>>

SetMining(t) ==
    /\ pc[t] = "set mining" /\ mining' = TRUE /\ Goto(t, "worker start")
    /\ UNCHANGED <<outside, canStart, shouldStart, should, worker>>

AgentStart == isMining' = TRUE /\ loops' = IF isMining THEN loops ELSE loops + 1

WorkerStart(t) ==
    /\ pc[t] = "worker start" /\ mu = "free"
    /\ workerMining' = TRUE /\ AgentStart /\ Goto(t, "commit")
    /\ UNCHANGED <<outside, miner, mu, stop, workCh>>

\* Where a thread goes on after Miner.Stop.
afterStop(t) == IF t = "main" THEN "recv" ELSE "aborted"

\* Slip: the agent is told to stop in any case.
agentRunsAlways == TRUE

agentRuns == workerMining /\ isMining

\* worker.stop: the lock, and the flag of the agent.
Stop(t) ==
    /\ pc[t] = "stop" /\ mu = "free"
    /\ IF agentRuns
       THEN mu' = t /\ isMining' = FALSE /\ Goto(t, "stop agent") /\ UNCHANGED workerMining
       ELSE workerMining' = FALSE /\ Goto(t, "stopped") /\ UNCHANGED <<mu, isMining>>
    /\ UNCHANGED <<outside, miner, loops, stop, workCh>>

\* Slip: workCh is not emptied.
drainedNot == workCh

drained == 0

\* CpuAgent.Stop sends on stop and empties workCh.
StopAgent(t) ==
    /\ pc[t] = "stop agent" /\ stop = 0 /\ stop' = 1 /\ workCh' = drained
    /\ workerMining' = FALSE /\ mu' = "free" /\ Goto(t, "stopped")
    /\ UNCHANGED <<outside, miner, isMining, loops>>

Stopped(t) ==
    /\ pc[t] = "stopped" /\ mining' = FALSE /\ Goto(t, "clear start")
    /\ UNCHANGED <<outside, canStart, shouldStart, should, worker>>

ClearStart(t) ==
    /\ pc[t] = "clear start" /\ shouldStart' = FALSE /\ Goto(t, afterStop(t))
    /\ started' = (started /\ t # "main")
    /\ UNCHANGED <<checkpoint, syncing, syncs, canStart, mining, should, worker>>

-----------------------------------------------------------------------------
(* The worker and its agent. *)

\* A head of the chain or the timer.
Head ==
    /\ pc["head"] = "idle" /\ Goto("head", "commit")
    /\ UNCHANGED <<outside, miner, worker>>

\* commitNewWork takes the lock, and returns at once unless mining.
Commit(t) ==
    /\ pc[t] = "commit" /\ mu = "free"
    /\ IF workerMining THEN mu' = t /\ Goto(t, "push") ELSE UNCHANGED mu /\ Goto(t, "idle")
    /\ UNCHANGED <<outside, miner, workerMining, isMining, loops, stop, workCh>>

Push(t) ==
    /\ pc[t] = "push" /\ workCh = 0 /\ workCh' = 1 /\ mu' = "free" /\ Goto(t, "idle")
    /\ UNCHANGED <<outside, miner, workerMining, isMining, loops, stop>>

\* CpuAgent.update: work, which a goroutine of its own seals, and the order to stop.
TakeWork ==
    /\ loops > 0 /\ workCh = 1 /\ workCh' = 0
    /\ UNCHANGED <<pc, outside, miner, mu, workerMining, isMining, loops, stop>>

TakeStop ==
    /\ loops > 0 /\ stop = 1 /\ stop' = 0 /\ loops' = loops - 1
    /\ UNCHANGED <<pc, outside, miner, mu, workerMining, isMining, workCh>>

-----------------------------------------------------------------------------
Step(t) ==
    \/ Start(t) \/ SetEtherbase(t) \/ MayStart(t) \/ SetMining(t) \/ WorkerStart(t)
    \/ Stop(t) \/ StopAgent(t) \/ Stopped(t) \/ ClearStart(t) \/ Commit(t) \/ Push(t)

Main == (\E ok \in BOOLEAN : Receive(ok)) \/ Step("main")

Update == Aborting \/ Aborted \/ Allow \/ Clear \/ Step("update")

Next ==
    \/ Checkpoint \/ Main \/ StartEvent \/ DoneEvent \/ Update \/ Head
    \/ (\E t \in Goroutine \union {"head"} : Step(t)) \/ TakeWork \/ TakeStop

\* Goroutines run, a mutex is handed to whoever waits for it, and a ready channel of a
\* select is chosen after a while.
Fairness ==
    /\ SF_vars(Main) /\ WF_vars(Update)
    /\ \A t \in Goroutine \union {"head"} : WF_vars(Step(t))
    /\ WF_vars(TakeWork) /\ WF_vars(TakeStop)

Spec == Init /\ [][Next]_vars
FairSpec == Spec /\ Fairness

-----------------------------------------------------------------------------
Ending == Cardinality({t \in Threads : pc[t] = "stop agent"})

(* However starting and stopping overlap, one loop of the agent is left over exactly if
   the agent is on: the loop that takes an order to stop need not be the one it was
   meant for, and a new one may start before. *)
OneAgentLoop == loops = stop + Ending + (IF isMining THEN 1 ELSE 0)

(* Work is left in the agent's channel only for an agent that is on: work that was
   committed before the stop is not what the agent finds in its channel at the next
   start. *)
NoStaleWork == workCh = 1 /\ mu = "free" => isMining

Offered == checkpoint

(* A checkpoint is handed over sooner or later, so the chain, which holds its lock
   meanwhile, is not blocked by the starting and stopping it leads to. *)
CheckpointServed == Offered ~> ~Offered

Quiet ==
    /\ ~checkpoint /\ ~syncing
    /\ \A t \in Threads : pc[t] \in {"idle", "recv"}

(* "Network syncing, will start miner afterwards": when synchronisation is over and
   nothing is under way, a node that main started is mining. *)
StartsAfterSync == Quiet /\ started => workerMining
=============================================================================
