----------------------------- MODULE StateSync -----------------------------
(***************************************************************************)
(* The download of a state trie: the scheduler (trie/sync.go), the state   *)
(* synchronisation that assigns its tasks to peers and the goroutine that  *)
(* tracks the requests (eth/downloader/statesync.go).                      *)
(*                                                                         *)
(* A node is its hash.  Children gives the hashes a node refers to, with   *)
(* repetition: subtries, and for an account also its storage trie and its  *)
(* code, which has no children.  A node is stored only when everything     *)
(* below it is: the rest of the node (AddSubTrie, children, fast sync after*)
(* a restart) takes a stored hash for a complete subtrie.                  *)
(*                                                                         *)
(* The root to synchronise to moves with the pivot block.  Peers come, go  *)
(* and return, answer with any part of what was asked, in any order, late  *)
(* or never.  No hash is both code and trie node.                          *)
(***************************************************************************)
EXTENDS Naturals, Sequences, FiniteSets, SequencesExt, TLC

CONSTANTS
    Children,   \* node -> the sequence of hashes it refers to
    Roots,      \* the roots, in the order the pivot takes them
    Peer,
    Capacity,   \* NodeDataCapacity, at most
    MaxRequests,    \* how many requests one synchronisation sends, at most
    MaxDisruptions  \* how often a peer leaves, the pivot moves or the
                    \* synchronisation starts again, at most

VARIABLES
    db,         \* the nodes in the database
    sched,      \* TrieSync: requests, queue, membatch
    root,       \* the index of the root in Roots
    tasks,      \* stateSync.tasks: hash -> the peers tried
    pc,         \* where stateSync.loop is
    todo,       \* the idle connections assignTasks has still to serve
    conn,       \* the number of the peer's connection; 0: none yet
    connected,  \* the registered peers
    arrived,    \* the newPeer channel is not empty
    idle,       \* the peers whose connection is not fetching node data
    active,     \* runStateSync's active: the requests in flight
    finished,   \* runStateSync's finished
    drops,      \* the peers in the peerDrop channel
    asked,      \* what a peer was asked for on its connection, unanswered
    requested,  \* how many requests were sent for this root
    disruptions, \* how many of them there were
    switches    \* how often the pivot moved under a running one

vars == <<db, sched, root, tasks, pc, todo, conn, connected, idle, arrived,
          active, finished, drops, asked, requested, disruptions, switches>>

peerVars == <<conn, connected, idle, arrived>>
trackVars == <<active, finished, drops>>
counts == <<requested, disruptions, switches>>

None == <<>>   \* no request; a request is in a sequence of one

-----------------------------------------------------------------------------
(* trie/sync.go.  A request: whether its data has come, the parents that wait
   for it, with repetition, and how many of its own children it waits for. *)

missing(d, s, h) == SelectSeq(Children[h], LAMBDA c : c \notin d \union s.mem)

(* schedule: a hash that is requested already only gets another parent. *)
schedule(s, h, parents) ==
    IF h \in DOMAIN s.requests
    THEN [s EXCEPT !.requests[h].parents = @ \o parents]
    ELSE [s EXCEPT !.queue = @ \union {h},
                   !.requests = (h :> [data |-> FALSE, parents |-> parents,
                                       deps |-> 0]) @@ @]

empty == [requests |-> <<>>, queue |-> {}, mem |-> {}]

(* NewTrieSync. *)
newSync(d, r) == IF r \in d THEN empty ELSE schedule(empty, r, <<>>)

without(f, h) == [x \in DOMAIN f \ {h} |-> f[x]]

(* commit: the node is ready, and with it every parent that waited only for
   it (a parent that is gone would not notice). *)
RECURSIVE commit(_, _)
commit(s, h) ==
    FoldLeft(LAMBDA t, p :
               LET u == [t EXCEPT !.requests[p].deps = @ - 1] IN
               IF p \notin DOMAIN t.requests THEN t
               ELSE IF u.requests[p].deps = 0 THEN commit(u, p) ELSE u,
             [s EXCEPT !.mem = @ \union {h}, !.requests = without(@, h)],
             s.requests[h].parents)

(* Slip: a child counts once, however often the node refers to it. *)
childrenOnce(d, s, h) ==
    LET new == missing(d, s, h) IN
    FoldLeft(LAMBDA t, c : schedule(t, c, <<h>>),
             [s EXCEPT !.requests[h].deps = @ + Cardinality(Range(new))], new)

(* children, and what Process does with them. *)
children(d, s, h) ==
    LET new == missing(d, s, h) IN
    FoldLeft(LAMBDA t, c : schedule(t, c, <<h>>),
             [s EXCEPT !.requests[h].deps = @ + Len(new)], new)

(* Process of one item: not requested, already processed, or taken. *)
Process(d, s, h) ==
    IF h \notin DOMAIN s.requests \/ s.requests[h].data THEN s
    ELSE LET t == [s EXCEPT !.requests[h].data = TRUE] IN
         IF missing(d, t, h) = <<>> THEN commit(t, h) ELSE children(d, t, h)

-----------------------------------------------------------------------------
Init ==
    /\ db = {}
    /\ root = 1
    /\ sched = newSync({}, Roots[1])
    /\ tasks = <<>>
    /\ pc = "loop"
    /\ todo = {}
    /\ conn = [p \in Peer |-> 1]
    /\ connected = Peer
    /\ idle = Peer
    /\ arrived = FALSE
    /\ active = [p \in Peer |-> None]
    /\ finished = <<>>
    /\ drops = {}
    /\ asked = [p \in Peer |-> {}]
    /\ requested = 0
    /\ disruptions = 0
    /\ switches = 0

(* A new stateSync for root r, which runStateSync tracks from nothing: its
   subscription to dropped peers is a new one. *)
begin(d, r) ==
    /\ root' = r
    /\ sched' = newSync(d, Roots[r])
    /\ tasks' = <<>>
    /\ pc' = "loop"
    /\ todo' = {}
    /\ active' = [p \in Peer |-> None]
    /\ finished' = <<>>
    /\ drops' = {}
    /\ arrived' = FALSE
    /\ requested' = 0

-----------------------------------------------------------------------------
(* stateSync.loop. *)

(* A full batch is written in one; at the end whatever is left.  Then the idle
   peers are served. *)
Loop ==
    /\ pc = "loop"
    /\ \E flush \in BOOLEAN :
         /\ DOMAIN sched.requests = {} => flush
         /\ db' = IF flush THEN db \union sched.mem ELSE db
         /\ sched' = IF flush THEN [sched EXCEPT !.mem = {}] ELSE sched
    /\ IF DOMAIN sched.requests = {}
       THEN pc' = "done" /\ todo' = {}
       ELSE pc' = "assign" /\ todo' = {[peer |-> p, conn |-> conn[p]] : p \in idle}
    /\ UNCHANGED <<root, tasks, peerVars, trackVars, asked, counts>>

(* fillTasks takes at most n tasks this peer was not tried for, refilled with
   at most n from the scheduler. *)
refill(n) ==
    { new \in SUBSET sched.queue :
        \/ Cardinality(DOMAIN tasks) >= n /\ new = {}
        \/ /\ Cardinality(DOMAIN tasks) < n
           /\ \/ Cardinality(new) = n - Cardinality(DOMAIN tasks)
              \/ /\ new = sched.queue
                 /\ Cardinality(new) < n - Cardinality(DOMAIN tasks) }

untried(ts, p) == {h \in DOMAIN ts : p \notin ts[h]}

chosen(ts, p, n) ==
    { items \in SUBSET untried(ts, p) :
        \/ Cardinality(items) = n
        \/ items = untried(ts, p) /\ Cardinality(items) < n }

restrict(f, S) == [x \in S |-> f[x]]

displacedLost(p) == None   \* slip: it is overwritten

(* The earlier request of a peer that is given a new one is not lost. *)
displaced(p) ==
    IF active[p] = None THEN None
    ELSE << [active[p][1] EXCEPT !.dropped = TRUE] >>

(* assignTasks for one connection: the request is handed to runStateSync, then
   sent.  The peer may have left and returned on another connection since
   NodeDataIdlePeers listed it; then nobody is asked. *)
AssignTask(c) ==
    /\ pc = "assign"
    /\ c \in todo
    /\ requested < MaxRequests
    /\ \E n \in 1..Capacity : \E new \in refill(n) :
         LET p == c.peer
             current == c.conn = conn[p]
             ts == [h \in new |-> {}] @@ tasks IN
         \E items \in chosen(ts, p, n) :
           LET tried == [h \in items |-> ts[h] \union {p}] IN
           /\ sched' = [sched EXCEPT !.queue = @ \ new]
           /\ tasks' = restrict(ts, DOMAIN ts \ items)
           /\ IF items = {}
              THEN UNCHANGED <<active, finished, idle, asked, requested>>
              ELSE /\ active' = [active EXCEPT ![p] =
                        <<[peer |-> p, conn |-> c.conn, tasks |-> tried,
                           response |-> <<>>, dropped |-> FALSE,
                           timedOut |-> TRUE]>>]
                   /\ finished' = finished \o displaced(p)
                   /\ requested' = requested + 1
                   /\ idle' = IF current THEN idle \ {p} ELSE idle
                   /\ asked' = [asked EXCEPT ![p] =
                        IF p \in connected /\ current THEN @ \union {items} ELSE @]
    /\ todo' = todo \ {c}
    /\ UNCHANGED <<db, root, pc, conn, connected, arrived, drops, disruptions,
                   switches>>

AssignEnds ==
    /\ pc = "assign"
    /\ todo = {}
    /\ pc' = "wait"
    /\ UNCHANGED <<db, sched, root, tasks, todo, peerVars, trackVars, asked,
                   counts>>

(* process: every blob goes to the scheduler, what was not delivered is tried
   again, unless every peer was tried. *)
delivered(r) == FoldLeft(LAMBDA s, h : Process(db, s, h), sched, r.response)

retried(r) ==
    LET left == DOMAIN r.tasks \ Range(r.response) IN
    [h \in left |-> IF r.response # <<>> \/ r.timedOut
                    THEN r.tasks[h] \ {r.peer} ELSE r.tasks[h]]

(* SetNodeDataIdle acts on the connection the request was sent on. *)
idleAfter(r) == IF conn[r.peer] = r.conn THEN {r.peer} ELSE {}

(* A peer that lets a request of at most two items time out is dropped. *)
stalling(r) ==
    /\ Cardinality(DOMAIN r.tasks) <= 2
    /\ ~ r.dropped
    /\ r.timedOut

unregistered(r) ==
    IF stalling(r) THEN connected \intersect {r.peer} ELSE {}

exhausted(r) ==
    \E h \in DOMAIN retried(r) :
      Cardinality(retried(r)[h]) >= Cardinality(connected \ unregistered(r))

Deliver ==
    /\ pc = "wait"
    /\ finished # <<>>
    /\ finished' = Tail(finished)
    /\ LET r == Head(finished) IN
         /\ connected' = connected \ unregistered(r)
         /\ drops' = drops \union unregistered(r)
         /\ asked' = [p \in Peer |->
                        IF p \in unregistered(r) THEN {} ELSE asked[p]]
         /\ sched' = delivered(r)
         /\ IF exhausted(r)
            THEN /\ pc' = "failed"
                 /\ idle' = idle \ unregistered(r)
                 /\ UNCHANGED tasks
            ELSE /\ pc' = "loop"
                 /\ tasks' = retried(r) @@ tasks
                 /\ idle' = (idle \union idleAfter(r)) \ unregistered(r)
    /\ UNCHANGED <<db, root, todo, conn, arrived, active, counts>>

NewPeer ==
    /\ pc = "wait"
    /\ arrived
    /\ arrived' = FALSE
    /\ pc' = "loop"
    /\ UNCHANGED <<db, sched, root, tasks, todo, conn, connected, idle,
                   trackVars, asked, counts>>

-----------------------------------------------------------------------------
(* runStateSync. *)

finish(p, r) ==
    /\ finished' = Append(finished, r)
    /\ active' = [active EXCEPT ![p] = None]

(* A pack counts for the request in flight, be it the answer to an earlier
   one; without one it is discarded. *)
Answer(p) ==
    /\ \E items \in asked[p] :
         /\ asked' = [asked EXCEPT ![p] = @ \ {items}]
         /\ IF active[p] = None THEN UNCHANGED <<active, finished>>
            ELSE \E blobs \in SetToAllKPermutations(items) :
                   finish(p, [active[p][1] EXCEPT !.response = blobs,
                                               !.timedOut = FALSE])
    /\ UNCHANGED <<db, sched, root, tasks, pc, todo, peerVars, drops, counts>>

Timeout(p) ==
    /\ active[p] # None
    /\ finish(p, active[p][1])
    /\ UNCHANGED <<db, sched, root, tasks, pc, todo, peerVars, drops, asked,
                   counts>>

PeerDrop(p) ==
    /\ p \in drops
    /\ drops' = drops \ {p}
    /\ IF active[p] = None THEN UNCHANGED <<active, finished>>
       ELSE finish(p, [active[p][1] EXCEPT !.dropped = TRUE])
    /\ UNCHANGED <<db, sched, root, tasks, pc, todo, peerVars, asked, counts>>

-----------------------------------------------------------------------------
disrupted ==
    /\ disruptions < MaxDisruptions
    /\ disruptions' = disruptions + 1

(* The peers. *)

Disconnect(p) ==
    /\ p \in connected
    /\ disrupted
    /\ connected' = connected \ {p}
    /\ idle' = idle \ {p}
    /\ drops' = drops \union {p}
    /\ asked' = [asked EXCEPT ![p] = {}]
    /\ UNCHANGED <<db, sched, root, tasks, pc, todo, conn, arrived, active,
                   finished, requested, switches>>

Reconnect(p) ==
    /\ p \notin connected
    /\ conn' = [conn EXCEPT ![p] = @ + 1]
    /\ connected' = connected \union {p}
    /\ idle' = idle \union {p}
    /\ arrived' = TRUE
    /\ UNCHANGED <<db, sched, root, tasks, pc, todo, trackVars, asked, counts>>

-----------------------------------------------------------------------------
(* The downloader. *)

(* What the deferred call of runStateSync sets to idle. *)
released == {p \in Peer : active[p] # None /\ active[p][1].conn = conn[p]}

(* The pivot moved, or its state is there: the synchronisation is cancelled,
   what it had not written is lost, and the next one starts. *)
Switch ==
    /\ pc \in {"wait", "assign", "done"}
    /\ root < Len(Roots)
    /\ disrupted
    /\ begin(db, root + 1)
    /\ idle' = idle \union (released \intersect connected)
    /\ switches' = switches + 1
    /\ UNCHANGED <<db, conn, connected, asked>>

(* The synchronisation failed or was aborted, or the node was restarted; the
   next one resets the peers (peerSet.Reset). *)
Restart ==
    /\ disrupted
    /\ begin(db, root)
    /\ idle' = connected
    /\ UNCHANGED <<db, conn, connected, asked, switches>>

Next ==
    \/ Loop \/ AssignEnds \/ Deliver \/ NewPeer \/ Switch \/ Restart
    \/ \E c \in todo : AssignTask(c)
    \/ \E p \in Peer : \/ Answer(p) \/ Timeout(p) \/ PeerDrop(p)
                       \/ Disconnect(p) \/ Reconnect(p)

Spec == Init /\ [][Next]_vars

-----------------------------------------------------------------------------
(* Everything below a stored node is stored, whatever was cancelled, retried
   or delivered twice: later synchronisations skip what they find in the
   database, and the chain opens a state by its root alone. *)
StoredIsComplete == \A h \in db : Range(Children[h]) \subseteq db

running == pc \notin {"done", "failed"}

holds(rs) == UNION {DOMAIN rs[k].tasks : k \in 1..Len(rs)}

(* A hash that is still to be fetched is queued, waits for a peer or is in a
   request: "valid requests to go missing" would leave the sync stuck. *)
NothingForgotten ==
    running =>
      \A h \in DOMAIN sched.requests :
        \/ sched.requests[h].data
        \/ h \in sched.queue \union DOMAIN tasks
        \/ \E p \in Peer : h \in holds(active[p])
        \/ h \in holds(finished)

(* A connection that is fetching has a request that will set it to idle
   again, as long as no synchronisation was cancelled (SetNodeDataIdle). *)
BusyIsTracked ==
    running /\ switches = 0 =>
      \A p \in connected \ idle :
        \/ active[p] # None /\ active[p][1].conn = conn[p]
        \/ \E k \in 1..Len(finished) :
             finished[k].peer = p /\ finished[k].conn = conn[p]

(* When a synchronisation starts every peer is free for it: runStateSync
   means to "set peers to idle so they're available for the next sync". *)
AvailableForNext ==
    pc = "loop" /\ requested = 0 => connected \subseteq idle
=============================================================================
