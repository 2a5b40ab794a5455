---------------------------- MODULE DownloadQueue ----------------------------
(***************************************************************************)
(* How a sync distributes the retrieval of block bodies and receipts over  *)
(* its peers (eth/downloader: queue.go, fetchParts in downloader.go and    *)
(* the idle flags in peer.go).  Headers are scheduled in chain order; for  *)
(* each kind of content a goroutine reserves batches for idle peers, takes *)
(* their answers and expires what takes too long; the importer takes       *)
(* complete results in chain order.  Peers answer late, partly or never,   *)
(* and leave.  All operations of the queue run under its lock.             *)
(*                                                                         *)
(* A header is its number: Schedule takes only a chain of them.  The       *)
(* content of an answer fits the header it was asked for and no other.     *)
(***************************************************************************)
EXTENDS Integers, Sequences, SequencesExt, FiniteSets, FiniteSetsExt

CONSTANTS
    Peers,
    Worlds,             \* [kinds, noop, peers, skip, height, sent, syncs]: what is
                        \* retrieved ("receipt" too in fast sync), the headers
                        \* without that content per kind, the peers and those
                        \* whose answers leave out items, and the bounds:
                        \* headers, unanswered requests per peer and kind, syncs
    Size,               \* len(resultCache), blockCacheItems
    Limits,             \* values of the memory limit, at most Size
    Counts,             \* capacities of a peer
    MaxResults,         \* maxResultsProcess
    MinFails            \* a peer whose larger request expired is kept (2)

VARIABLES
    scheduled,          \* headerHead
    taskPool,           \* kind -> headers to retrieve
    taskQueue,          \* kind -> sequence of those not asked for, ascending
    pendPool,           \* kind -> peer -> headers of its request, <<>> if none
    donePool,           \* kind -> headers retrieved and not imported
    result,             \* resultCache: header -> Pending
    resultOffset,
    limit,              \* resultCache entries that fit blockCacheMemory
    idle,               \* kind -> peer -> whether it may be asked
    lacking,            \* peer -> headers it has no content for
    registered,         \* the peer set
    sent,               \* kind -> peer -> requests it has not answered
    dropping,           \* kind -> peers its goroutine is about to drop
    failed,             \* errInvalidChain
    syncs,
    world               \* chosen at the start

queue == <<scheduled, taskPool, taskQueue, pendPool, donePool, result, resultOffset>>
peers == <<idle, lacking, registered, sent, dropping>>
vars == <<queue, limit, peers, failed, syncs, world>>

kinds == world.kinds
noop(k, n) == n \in world.noop[k]

Kinds == {"body", "receipt"}

\* A new sync from an origin: synchronise, Reset and Prepare.
Reset(origin) ==
    /\ scheduled' = origin
    /\ taskPool' = [k \in Kinds |-> {}] /\ taskQueue' = [k \in Kinds |-> <<>>]
    /\ pendPool' = [k \in Kinds |-> [p \in Peers |-> <<>>]]
    /\ donePool' = [k \in Kinds |-> {}]
    /\ result' = [n \in {} |-> 0] /\ resultOffset' = origin + 1
    /\ idle' = [k \in Kinds |-> [p \in Peers |-> TRUE]]
    /\ lacking' = [p \in Peers |-> {}]

Init ==
    /\ scheduled = 0
    /\ taskPool = [k \in Kinds |-> {}] /\ taskQueue = [k \in Kinds |-> <<>>]
    /\ pendPool = [k \in Kinds |-> [p \in Peers |-> <<>>]]
    /\ donePool = [k \in Kinds |-> {}]
    /\ result = [n \in {} |-> 0] /\ resultOffset = 1
    /\ idle = [k \in Kinds |-> [p \in Peers |-> TRUE]]
    /\ lacking = [p \in Peers |-> {}]
    /\ world \in Worlds
    /\ registered = world.peers /\ sent = [k \in Kinds |-> [p \in Peers |-> <<>>]]
    /\ dropping = [k \in Kinds |-> {}]
    /\ failed = FALSE /\ syncs = 1 /\ limit = Size

\* The peers keep working on what an earlier sync asked of them.
Synchronise(origin) ==
    /\ syncs < world.syncs /\ syncs' = syncs + 1
    /\ origin < resultOffset /\ \A k \in Kinds : dropping[k] = {}
    /\ Reset(origin)
    /\ failed' = FALSE
    /\ UNCHANGED <<limit, registered, sent, dropping, world>>

push(q, ns) == SortSeq(q \o ns, <)

\* processHeaders: the next count headers.
Schedule(count) ==
    LET ns == [j \in 1 .. count |-> scheduled + j]
    IN  /\ ~failed /\ scheduled + count <= world.height
        /\ scheduled' = scheduled + count
        /\ taskPool' = [k \in Kinds |->
               IF k \in kinds THEN taskPool[k] \cup ToSet(ns) ELSE taskPool[k]]
        /\ taskQueue' = [k \in Kinds |->
               IF k \in kinds THEN push(taskQueue[k], ns) ELSE taskQueue[k]]
        /\ UNCHANGED <<pendPool, donePool, result, resultOffset, limit, peers, failed, syncs, world>>

-----------------------------------------------------------------------------
(* Reserving. *)

\* Free slots within the memory limit: neither finished, counted up to the first
\* one not allocated, nor being downloaded.
resultSlots(k) ==
    LET window   == resultOffset .. resultOffset + limit - 1
        finished == {n \in window \cap donePool[k] :
                        \A m \in resultOffset .. n : m \in DOMAIN result}
        inWindow(p) == Len(SelectSeq(pendPool[k][p], LAMBDA n : n < resultOffset + limit))
    IN  limit - Cardinality(finished) - MapThenSumSet(inWindow, Peers)

\* The headers reserveHeaders takes off the queue for peer p, and those it sends:
\* a header without content takes a slot and is done at once.
sendable(k, p, ns) == SelectSeq(ns, LAMBDA n : ~noop(k, n) /\ n \notin lacking[p])
taken(k, p, count) ==
    LET q    == taskQueue[k]
        ends == {l \in 0 .. Len(q) : \/ l = Len(q) \/ l >= resultSlots(k)
                                     \/ Len(sendable(k, p, SubSeq(q, 1, l))) = count}
    IN  SubSeq(q, 1, Min(ends))

inCache(n) == n >= resultOffset /\ n < resultOffset + Size

\* Result containers are allocated by whoever takes a header first.
finishNoops(k, ns) ==
    LET done == {n \in ToSet(ns) : noop(k, n)}
    IN  /\ donePool' = [donePool EXCEPT ![k] = @ \cup done]
        /\ taskPool' = [taskPool EXCEPT ![k] = @ \ done]
        /\ result' = [n \in DOMAIN result \cup ToSet(ns) |->
               (IF n \in DOMAIN result THEN result[n] ELSE Cardinality(kinds))
                   - (IF n \in done THEN 1 ELSE 0)]

\* reserveHeaders and the request, for a peer of the list of idle ones, which
\* may have left since that list was made.
Reserve(k, p, count) ==
    LET q    == taskQueue[k]
        ns   == taken(k, p, count)
        send == sendable(k, p, ns)
        skip == SelectSeq(ns, LAMBDA n : ~noop(k, n) /\ n \in lacking[p])
    IN  /\ ~failed /\ k \in kinds /\ dropping[k] = {}
        /\ idle[k][p] /\ pendPool[k][p] = <<>>
        /\ q # <<>> /\ resultSlots(k) > 0 /\ Len(sent[k][p]) < world.sent
        /\ IF \A n \in ToSet(ns) : inCache(n)
           THEN /\ finishNoops(k, ns)
                /\ taskQueue' = [taskQueue EXCEPT ![k] = push(SubSeq(q, Len(ns) + 1, Len(q)), skip)]
                /\ pendPool' = [pendPool EXCEPT ![k][p] = send]
                /\ idle' = [idle EXCEPT ![k][p] = send = <<>>]
                /\ sent' = [sent EXCEPT ![k][p] =
                       IF send # <<>> /\ p \in registered THEN Append(@, send) ELSE @]
                /\ UNCHANGED failed
           ELSE failed' = TRUE /\ UNCHANGED <<taskPool, taskQueue, pendPool, donePool, result, idle, sent>>
        /\ UNCHANGED <<scheduled, resultOffset, limit, lacking, registered, dropping, syncs, world>>

-----------------------------------------------------------------------------
(* Answers. *)

\* Header n still has a place for what arrives for it.
placed(n) == inCache(n) /\ n \in DOMAIN result

\* The number of leading items of an answer that fit what the queue expects of
\* the peer now.
fitting(answer, expected) ==
    LET n == Min({Len(answer), Len(expected)})
    IN  Max({g \in 0 .. n : \A j \in 1 .. g : placed(expected[j]) /\ answer[j] = expected[j]})

\* The headers that go back to the queue.
returned(expected, accepted) == SubSeq(expected, accepted + 1, Len(expected))

\* errStaleDelivery: nothing fits what was asked for last.
stale(expected, accepted, answer) == accepted = 0 /\ answer # <<>> /\ expected # <<>>

\* Answers to a request: its first items, or, as a peer leaves out what it does
\* not have and the handler what the fetcher asked for, any of them in order.
Answers(p, asked) ==
    {answer \in {SelectSeq(asked, LAMBDA n : n \in S) : S \in SUBSET ToSet(asked)} :
        p \in world.skip \/ IsPrefix(answer, asked)}

\* The oldest request is answered.  After a stale delivery the peer is not set to
\* idle, although the queue has forgotten its request.
Deliver(k, p) ==
    \E answer \in Answers(p, Head(sent[k][p])) :
        LET expected == pendPool[k][p]
            accepted == IF expected = <<>> THEN 0 ELSE fitting(answer, expected)
            done     == ToSet(SubSeq(expected, 1, accepted))
            invalid  == /\ accepted < Min({Len(answer), Len(expected)})
                        /\ ~ placed(expected[accepted + 1])
        IN  /\ ~failed /\ k \in kinds /\ dropping[k] = {} /\ p \in registered
            /\ sent' = [sent EXCEPT ![k][p] = Tail(@)]
            /\ pendPool' = [pendPool EXCEPT ![k][p] = <<>>]
            /\ lacking' = IF answer = <<>> THEN [lacking EXCEPT ![p] = @ \cup ToSet(expected)] ELSE lacking
            /\ donePool' = [donePool EXCEPT ![k] = @ \cup done]
            /\ taskPool' = [taskPool EXCEPT ![k] = @ \ done]
            /\ result' = [n \in DOMAIN result |-> IF n \in done THEN result[n] - 1 ELSE result[n]]
            /\ taskQueue' = [taskQueue EXCEPT ![k] = push(@, returned(expected, accepted))]
            /\ idle' = IF stale(expected, accepted, answer) \/ invalid THEN idle
                       ELSE [idle EXCEPT ![k][p] = TRUE]
            /\ failed' = invalid
            /\ UNCHANGED <<scheduled, resultOffset, limit, registered, dropping, syncs, world>>

giveBack(k, ps) ==
    LET all == FoldSet(LAMBDA p, q : q \o pendPool[k][p], <<>>, ps)
    IN  push(taskQueue[k], all)

\* The requests of some peers take too long; a peer that had a small one is dropped.
Expire(k, ps) ==
    /\ ~failed /\ k \in kinds /\ dropping[k] = {}
    /\ ps # {} /\ \A p \in ps : pendPool[k][p] # <<>>
    /\ taskQueue' = [taskQueue EXCEPT ![k] = giveBack(k, ps)]
    /\ pendPool' = [pendPool EXCEPT ![k] = [p \in Peers |-> IF p \in ps THEN <<>> ELSE @[p]]]
    /\ idle' = [idle EXCEPT ![k] = [p \in Peers |->
           IF p \in ps \cap registered /\ Len(pendPool[k][p]) > MinFails THEN TRUE ELSE @[p]]]
    /\ dropping' = [dropping EXCEPT ![k] = {p \in ps \cap registered : Len(pendPool[k][p]) <= MinFails}]
    /\ UNCHANGED <<scheduled, taskPool, donePool, result, resultOffset, limit, lacking,
                   registered, sent, failed, syncs, world>>

\* Slip: only the bodies asked of the peer are given back.
RevokeBodies(p) ==
    /\ taskQueue' = [taskQueue EXCEPT !["body"] = giveBack("body", {p})]
    /\ pendPool' = [k \in Kinds |-> [pendPool[k] EXCEPT ![p] = <<>>]]

Revoke(p) ==
    /\ taskQueue' = [k \in Kinds |-> giveBack(k, {p})]
    /\ pendPool' = [k \in Kinds |-> [pendPool[k] EXCEPT ![p] = <<>>]]

\* UnregisterPeer: the peer leaves or is dropped.
Unregister(p) ==
    /\ p \in registered
    /\ registered' = registered \ {p}
    /\ Revoke(p)
    /\ sent' = [k \in Kinds |-> [sent[k] EXCEPT ![p] = <<>>]]
    /\ dropping' = [k \in Kinds |-> dropping[k] \ {p}]
    /\ UNCHANGED <<scheduled, taskPool, donePool, result, resultOffset, limit, idle, lacking,
                   failed, syncs, world>>

-----------------------------------------------------------------------------
(* Importing. *)

\* Slip: a result without its receipts is good enough.
processableBodies ==
    LET ready(n) == n \in DOMAIN result /\ n \in donePool["body"]
    IN  {n \in 1 .. world.height : n >= resultOffset /\ \A m \in resultOffset .. n : ready(m)}

\* The results before the first one that is missing or incomplete.
processable ==
    LET ready(n) == n \in DOMAIN result /\ result[n] <= 0
    IN  {n \in 1 .. world.height : n >= resultOffset /\ \A m \in resultOffset .. n : ready(m)}

batch == Min({Cardinality(processable), MaxResults})

\* The sizes of what is taken change the memory limit.
Results(l) ==
    LET gone == resultOffset .. resultOffset + batch - 1
    IN  /\ ~failed /\ processable # {}
        /\ donePool' = [k \in Kinds |-> donePool[k] \ gone]
        /\ result' = [x \in DOMAIN result \ gone |-> result[x]]
        /\ resultOffset' = resultOffset + batch
        /\ limit' = l
        /\ UNCHANGED <<scheduled, taskPool, taskQueue, pendPool, peers, failed, syncs, world>>

Next ==
    \/ \E origin \in 0 .. world.height : Synchronise(origin)
    \/ \E c \in 1 .. world.height : Schedule(c)
    \/ \E k \in Kinds, p \in Peers, c \in Counts : Reserve(k, p, c)
    \/ \E k \in Kinds, p \in Peers : sent[k][p] # <<>> /\ Deliver(k, p)
    \/ \E k \in Kinds, ps \in SUBSET Peers : Expire(k, ps)
    \/ \E p \in Peers : Unregister(p)
    \/ \E l \in Limits : Results(l)

Spec == Init /\ [][Next]_vars

-----------------------------------------------------------------------------
Occurrences(q, n) == Cardinality({j \in DOMAIN q : q[j] = n})

\* At most one request per peer and kind is known to the queue, for headers that
\* were scheduled.
TypeOK ==
    /\ scheduled \in 0 .. world.height /\ resultOffset \in 1 .. scheduled + 1 /\ limit \in 1 .. Size
    /\ \A k \in Kinds :
        /\ taskPool[k] \cup donePool[k] \subseteq 1 .. scheduled
        /\ ToSet(taskQueue[k]) \subseteq 1 .. scheduled
        /\ \A p \in Peers : ToSet(pendPool[k][p]) \subseteq 1 .. scheduled
    /\ DOMAIN result \subseteq {n \in 1 .. scheduled : inCache(n)}
    /\ registered \subseteq Peers

(* No retrieval is lost and none is done twice: a header whose content is
   missing is in exactly one place, the queue or the request of one peer, and
   one whose content is there is in none; after any timeouts, short, late and
   stale answers and lost peers. *)
TaskInOnePlace ==
    \A k \in kinds, n \in 1 .. scheduled :
        Occurrences(taskQueue[k], n) + MapThenSumSet(LAMBDA p : Occurrences(pendPool[k][p], n), Peers)
            = IF n \in taskPool[k] THEN 1 ELSE 0

(* "Number of data fetches still pending": the count kept in a result is the
   number of kinds of content that it lacks. *)
PendingExact ==
    \A n \in DOMAIN result :
        result[n] = Cardinality({k \in kinds : n \notin donePool[k]})

(* "index allocation went beyond available resultCache space" is never
   reported, and no answer is refused as errInvalidChain: the throttling leaves
   a slot for every header that is asked for, with the memory limit moving. *)
SlotsSuffice == ~failed

(* What the importer takes is complete and in chain order. *)
TakesCompleteStep ==
    resultOffset' > resultOffset /\ syncs' = syncs =>
        \A n \in resultOffset .. resultOffset' - 1, k \in kinds : n \in donePool[k]
TakesComplete == [][TakesCompleteStep]_vars

(* Idle: once nothing is queued, pending or cached, every scheduled header was
   handed to the importer. *)
Idle ==
    \A k \in kinds : taskQueue[k] = <<>> /\ donePool[k] = {} /\ \A p \in Peers : pendPool[k][p] = <<>>
IdleWhenImported == Idle => resultOffset = scheduled + 1

(* "If the delivery's stale, the peer should have already been idled": a peer
   that counts as busy owes an answer, by which it becomes idle, if not by a
   timeout, and is used again.  This is so of peers that answer the first items
   of a request.  A peer that leaves out the first one answers what it was asked
   for last with a stale delivery and stays busy for the rest of the sync. *)
BusyOwesAnswer ==
    \A k \in kinds, p \in registered \ world.skip : ~idle[k][p] => sent[k][p] # <<>>
=============================================================================
