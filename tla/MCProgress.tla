----------------------------- MODULE MCProgress -----------------------------
(* What the goroutines of a node must get done: the event feed, the chain  *)
(* indexer, the staking, and the import of one block.  A behaviour is one  *)
(* of a single component, mode; v1, v2, ...  are that component's          *)
(* variables, and those it has no use for are 0.                           *)
EXTENDS Integers, Sequences, FiniteSets

VARIABLES mode, v1, v2, v3, v4, v5, v6, v7, v8, v9, v10, v11, v12, v13, v14, v15,
          v16, v17, v18

MCSub == {1, 2}
MCChan == <<"c", "d">>
MCThread == {"propagated", "fetched", "download"}
MCWorks == {[t \in MCThread |->
                CASE t = "propagated" -> <<"prepare", "insert">>
                  [] t = "fetched" -> <<"insert">>
                  [] OTHER -> <<t>>]}

Fd == INSTANCE Feed WITH
    Sub <- MCSub, Chan <- MCChan, Value <- {"v", "w"}, Capacity <- 1,
    sub <- v1, inbox <- v2, sendCases <- v3, active <- v4, stage <- v5,
    value <- v6, i <- v7, nsent <- v8, left <- v9, got <- v10, read <- v11,
    must <- v12, may <- v13
Ci == INSTANCE ChainIndexer WITH
    sectionSize <- 2, confirmsReq <- 1, MaxNumber <- 5, MaxReorgs <- 1,
    MaxFailures <- 1, EventBuffer <- 2, head <- v1, canonical <- v2,
    version <- v3, events <- v4, prev <- v5, reorged <- v6, known <- v7,
    stored <- v8, sectionHead <- v9, update <- v10, timer <- v11,
    section <- v12, oldHead <- v13, lastHead <- v14, number <- v15,
    stage <- v16, failures <- v17, raced <- v18
St == INSTANCE Staking WITH
    Goroutine <- {"g"}, MaxSyncs <- 1, pc <- v1, started <- v2,
    checkpoint <- v3, syncing <- v4, syncs <- v5, canStart <- v6,
    shouldStart <- v7, mining <- v8, should <- v9, mu <- v10,
    workerMining <- v11, isMining <- v12, loops <- v13, stop <- v14,
    workCh <- v15
Bp == INSTANCE BlockPrep WITH
    Thread <- MCThread, Works <- MCWorks, MaxStarts <- 1, MayInterrupt <- TRUE,
    work <- v1, starts <- v2, todo <- v3, pc <- v4, stop <- v5,
    calculating <- v6, cached <- v7, downloading <- v8, chainmu <- v9,
    has <- v10, writes <- v11, posted <- v12, success <- v13,
    interrupted <- v14

vars == <<mode, v1, v2, v3, v4, v5, v6, v7, v8, v9, v10, v11, v12, v13, v14, v15, v16,
         v17, v18>>

Init ==
    \/ /\ mode = "feed" /\ Fd!Init
       /\ v14 = 0 /\ v15 = 0 /\ v16 = 0 /\ v17 = 0 /\ v18 = 0
    \/ /\ mode = "indexer" /\ Ci!Init
    \/ /\ mode = "staking" /\ St!Init
       /\ v16 = 0 /\ v17 = 0 /\ v18 = 0
    \/ /\ mode = "block" /\ Bp!Init
       /\ v15 = 0 /\ v16 = 0 /\ v17 = 0 /\ v18 = 0

Next ==
    \/ /\ mode = "feed" /\ Fd!Next
       /\ UNCHANGED <<mode, v14, v15, v16, v17, v18>>
    \/ /\ mode = "indexer" /\ Ci!Next
       /\ UNCHANGED <<mode>>
    \/ /\ mode = "staking" /\ St!Next
       /\ UNCHANGED <<mode, v16, v17, v18>>
    \/ /\ mode = "block" /\ Bp!Next
       /\ UNCHANGED <<mode, v15, v16, v17, v18>>

Spec == Init /\ [][Next]_vars

\* The fairness that each component states.
Fairness ==
    /\ WF_<<Fd!vars>>(mode = "feed" /\ Fd!SendStep)
    /\ \A s \in MCSub :
         /\ WF_<<Fd!vars>>(mode = "feed" /\ Fd!RemoveStep(s))
         /\ WF_<<Fd!vars>>(mode = "feed" /\ s \in Fd!On /\ Fd!Receive(MCChan[s]))
    /\ WF_<<Ci!vars>>(mode = "indexer" /\ Ci!EventLoop)
    /\ WF_<<Ci!vars>>(mode = "indexer" /\ Ci!UpdateLoop)
    /\ WF_<<Ci!vars>>(mode = "indexer" /\ Ci!Reschedule)
    /\ SF_<<St!vars>>(mode = "staking" /\ St!Main)
    /\ WF_<<St!vars>>(mode = "staking" /\ St!Update)
    /\ \A t \in {"g", "head"} : WF_<<St!vars>>(mode = "staking" /\ St!Step(t))
    /\ WF_<<St!vars>>(mode = "staking" /\ St!TakeWork)
    /\ WF_<<St!vars>>(mode = "staking" /\ St!TakeStop)
    /\ \A t \in MCThread : WF_<<Bp!vars>>(mode = "block" /\ Bp!Step(t))

FairSpec == Spec /\ Fairness

-----------------------------------------------------------------------------
\* Feed.remove and Feed.Send: Unsubscribe returns although nobody reads, and
\* Send as the subscribers read or leave.
FeedReturns ==
    /\ \A s \in MCSub :
          (mode = "feed" /\ Fd!Waits(s)) ~> (mode = "feed" /\ ~Fd!Waits(s))
    /\ (mode = "feed" /\ Fd!Sending) ~> (mode = "feed" /\ ~Fd!Sending)

\* ChainIndexer: a section that is known to be confirmed is indexed, while
\* neither the chain is reorganised nor the backend fails: no notification is
\* lost.
SectionsIndexed ==
    \A n \in 1 .. 3 :
        (mode = "indexer" /\ Ci!Due(n)) ~> (mode = "indexer" /\ Ci!Indexed(n))

\* CpuAgent: one update loop runs while the agent is on and none after, and no
\* work from before a stop is left for the next start.
AgentObeys == mode = "staking" => St!OneAgentLoop /\ St!NoStaleWork

\* startNode: a checkpoint offered on the channel is taken, so that imports go
\* on.
CheckpointServed ==
    (mode = "staking" /\ St!Offered) ~> (mode = "staking" /\ ~St!Offered)

\* insertBlock: goroutines that stop each other's work on a block still get it
\* into the chain, and write it once.
InsertedOnce ==
    /\ [](mode = "block" => Bp!WrittenOnce)
    /\ (mode = "block" /\ Bp!Inserting) ~> (mode = "block" /\ Bp!Inserted)
=============================================================================
