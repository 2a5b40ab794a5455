----------------------------- MODULE MCNetwork ------------------------------
(* How blocks and states reach a node and are kept: the fetcher, the queue *)
(* of the downloader, the state synchronisation and the cache of trie      *)
(* nodes.  A behaviour is one of a single component, mode; v1, v2, ...     *)
(* are that component's variables, and those it has no use for are 0.      *)
EXTENDS Integers, Sequences, FiniteSets, TLC

CONSTANTS Nobody, GenesisBlock, blockA, blockB

VARIABLES mode, v1, v2, v3, v4, v5, v6, v7, v8, v9, v10, v11, v12, v13, v14, v15,
          v16, v17, v18, v19

\* A block and its child.  Either both are valid with the same body, or the first
\* is signed by this node and the child is empty, or the first is invalid, signed
\* or not yet, or from the future.
MCNumber == (blockA :> 1) @@ (blockB :> 2)
MCParent == (blockA :> GenesisBlock) @@ (blockB :> blockA)
offer(ka, unsigned, empty, mine, n, e) ==
    [kind |-> (blockA :> ka) @@ (blockB :> "valid"), unsigned |-> unsigned, empty |-> empty,
     mine |-> mine, notify |-> n, external |-> e]
MCBlocks == {offer("valid", {}, {}, {}, 2, 0),
             offer("valid", {blockA}, {blockB}, {blockA}, 1, 1),
             offer("invalid", {blockB}, {blockA}, {}, 1, 1),
             offer("invalid", {blockA}, {}, {blockA}, 0, 0),
             offer("future", {}, {}, {}, 0, 1)}

\* Full sync, with a peer that leaves out items, fast sync, and two syncs.
download(ks, ps, skip, body, receipt, height, sent, syncs) ==
    [kinds |-> ks, peers |-> ps, skip |-> skip, noop |-> [body |-> body, receipt |-> receipt],
     height |-> height, sent |-> sent, syncs |-> syncs]
MCDownloads == {download({"body"}, {"p", "q"}, {"q"}, {3}, {}, 4, 2, 1),
                download({"body", "receipt"}, {"p", "q"}, {}, {}, {1}, 2, 2, 1),
                download({"body"}, {"p"}, {}, {}, {}, 3, 2, 2)}

\* A state with a node twice, and the next one, which shares a subtrie.  A genesis
\* state, and two that share subtries with each other and not with it.
MCState == [r |-> <<"a", "a", "c">>, s |-> <<"c">>, c |-> <<"a">>, a |-> <<>>]
MCTries == [g |-> {}, r |-> {"x"}, s |-> {"x", "y"}, x |-> {"z"}, y |-> {"z"}, z |-> {}]

Ft == INSTANCE Fetcher WITH
    None <- Nobody, Peers <- {"p", "q"}, Blocks <- {blockA, blockB},
    Root <- GenesisBlock, Number <- MCNumber, Parent <- MCParent,
    Worlds <- MCBlocks, Honest <- {"p"}, hashLimit <- 1, blockLimit <- 1,
    maxUncleDist <- 0, maxQueueDist <- 2, pc <- v1, announces <- v2,
    announced <- v3, fetching <- v4, fetched <- v5, completing <- v6,
    fetchTimer <- v7, completeTimer <- v8, queue <- v9, queues <- v10,
    queued <- v11, knowns <- v12, importing <- v13, chain <- v14,
    chainHeight <- v15, dropped <- v16, notified <- v17, external <- v18,
    world <- v19
Dq == INSTANCE DownloadQueue WITH
    Peers <- {"p", "q"}, Worlds <- MCDownloads, Size <- 3, Limits <- {1, 3},
    Counts <- {2}, MaxResults <- 2, MinFails <- 1, scheduled <- v1,
    taskPool <- v2, taskQueue <- v3, pendPool <- v4, donePool <- v5,
    result <- v6, resultOffset <- v7, limit <- v8, idle <- v9, lacking <- v10,
    registered <- v11, sent <- v12, dropping <- v13, failed <- v14,
    syncs <- v15, world <- v16
Ss == INSTANCE StateSync WITH
    Children <- MCState, Roots <- <<"r", "s">>, Peer <- {"p"}, Capacity <- 2,
    MaxRequests <- 3, MaxDisruptions <- 2, db <- v1, sched <- v2, root <- v3,
    tasks <- v4, pc <- v5, todo <- v6, conn <- v7, connected <- v8,
    arrived <- v9, idle <- v10, active <- v11, finished <- v12, drops <- v13,
    asked <- v14, requested <- v15, disruptions <- v16, switches <- v17
Sp == INSTANCE StateSync WITH
    Children <- MCState, Roots <- <<"r", "s">>, Peer <- {"p", "q"},
    Capacity <- 2, MaxRequests <- 2, MaxDisruptions <- 1, db <- v1,
    sched <- v2, root <- v3, tasks <- v4, pc <- v5, todo <- v6, conn <- v7,
    connected <- v8, arrived <- v9, idle <- v10, active <- v11,
    finished <- v12, drops <- v13, asked <- v14, requested <- v15,
    disruptions <- v16, switches <- v17
Td == INSTANCE TrieDatabase WITH
    Children <- MCTries, Roots <- {"r", "s"}, Genesis <- "g",
    triesInMemory <- 2, MaxBlocks <- 4, nodes <- v1, disk <- v2, triegc <- v3,
    blocks <- v4, status <- v5

vars == <<mode, v1, v2, v3, v4, v5, v6, v7, v8, v9, v10, v11, v12, v13, v14, v15, v16,
         v17, v18, v19>>

Init ==
    \/ /\ mode = "fetcher" /\ Ft!Init
    \/ /\ mode = "queue" /\ Dq!Init
       /\ v17 = 0 /\ v18 = 0 /\ v19 = 0
    \/ /\ mode = "statesync" /\ Ss!Init
       /\ v18 = 0 /\ v19 = 0
    \/ /\ mode = "two peers" /\ Sp!Init
       /\ v18 = 0 /\ v19 = 0
    \/ /\ mode = "tries" /\ Td!Init
       /\ v6 = 0 /\ v7 = 0 /\ v8 = 0 /\ v9 = 0 /\ v10 = 0 /\ v11 = 0 /\ v12 = 0
       /\ v13 = 0 /\ v14 = 0 /\ v15 = 0 /\ v16 = 0 /\ v17 = 0 /\ v18 = 0 /\ v19 = 0

Next ==
    \/ /\ mode = "fetcher" /\ Ft!Next
       /\ UNCHANGED <<mode>>
    \/ /\ mode = "queue" /\ Dq!Next
       /\ UNCHANGED <<mode, v17, v18, v19>>
    \/ /\ mode = "statesync" /\ Ss!Next
       /\ UNCHANGED <<mode, v18, v19>>
    \/ /\ mode = "two peers" /\ Sp!Next
       /\ UNCHANGED <<mode, v18, v19>>
    \/ /\ mode = "tries" /\ Td!Next
       /\ UNCHANGED <<mode, v6, v7, v8, v9, v10, v11, v12, v13, v14, v15,
                        v16, v17, v18, v19>>

Spec == Init /\ [][Next]_vars

-----------------------------------------------------------------------------
\* Fetcher: a block is queued or imported once at a time and a hash retrieved
\* from one peer; the counts of a peer are right, what waits has its timer
\* running, and no peer is dropped for a valid block.
FetcherExact ==
    mode = "fetcher" =>
        /\ Ft!TypeOK /\ Ft!QueuedOnce /\ Ft!QueuesExact /\ Ft!AnnouncesNotOverstated
        /\ Ft!RetrievedOnce /\ Ft!TimerRuns /\ Ft!HonestStays

\* queue: a task is queued or asked of one peer and nothing is lost between; a
\* result counts down to the parts it misses, an idle queue has handed over
\* everything, and a busy peer owes an answer unless it skips what it is asked
\* first.
TaskInOnePlace ==
    mode = "queue" =>
        /\ Dq!TypeOK /\ Dq!TaskInOnePlace /\ Dq!PendingExact
        /\ Dq!IdleWhenImported /\ Dq!BusyOwesAnswer

\* queue.Results: the results taken are complete and in order, and no task is
\* reserved for which the cache has no slot.
TakesComplete == [][mode = "queue" => Dq!TakesCompleteStep /\ Dq!SlotsSuffice']_vars

\* TrieSync: a node in the database has all its children there.
StoredIsComplete ==
    (mode = "statesync" => Ss!StoredIsComplete) /\ (mode = "two peers" => Sp!StoredIsComplete)

\* stateSync: a hash the scheduler waits for is queued, a task, or in a
\* request, and a fetching connection has a request that will set it to idle.
NothingForgotten ==
    /\ mode = "statesync" => Ss!NothingForgotten /\ Ss!BusyIsTracked
    /\ mode = "two peers" => Sp!NothingForgotten /\ Sp!BusyIsTracked

\* trie.Database: every state in the window is complete in memory and on disk,
\* and a node on disk has its children there, after a crash too.
StatesReadable == mode = "tries" => Td!KeptIsReadable /\ Td!DiskIsComplete
=============================================================================
