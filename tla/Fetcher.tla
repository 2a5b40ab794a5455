------------------------------ MODULE Fetcher ------------------------------
(***************************************************************************)
(* The block fetcher (eth/fetcher): blocks announced by hash or propagated *)
(* by peers are retrieved, queued by number and imported.                  *)
(*                                                                         *)
(* One goroutine runs Fetcher.loop: it cleans up and starts imports, then  *)
(* waits for an event: a peer announces or propagates a block, delivers a  *)
(* header or a body, a timer fires, or an import goroutine reports that it *)
(* is done.  Import goroutines run concurrently with the loop, and blocks  *)
(* also reach the chain by other means (downloader, miner).                *)
(***************************************************************************)
EXTENDS Integers, Sequences, FiniteSets
LOCAL INSTANCE FiniteSetsExt

CONSTANTS
    Peers, Blocks,
    None,           \* no announcement, no origin
    Number,         \* Block.NumberU64, by block
    Parent,         \* Block.ParentHash, by block: a block or Root
    Root,           \* the block the chain starts from, number 0
    Worlds,         \* [kind, unsigned, empty, mine, notify, external]: what
                    \* verifyHeader says of each block once it is signed, which
                    \* ones lack the second validator's signature, which ones
                    \* are empty (the others have the same body), which ones
                    \* this node signs as second validator; bounds on the
                    \* announcements received and on the blocks imported by
                    \* other means
    Honest,         \* peers that verified what they send
    hashLimit, blockLimit, maxUncleDist, maxQueueDist

\* "future": the time of the block is still to come; "never": it never comes.
Kinds == {"valid", "invalid", "future", "never"}

ASSUME FetcherAssumption ==
    /\ Root \notin Blocks /\ None \notin Peers /\ IsFiniteSet(Blocks)
    /\ Number \in [Blocks -> Nat \ {0}] /\ Parent \in [Blocks -> Blocks \cup {Root}]
    /\ \A w \in Worlds :
         /\ w.kind \in [Blocks -> Kinds]
         /\ w.unsigned \subseteq Blocks /\ w.empty \subseteq Blocks /\ w.mine \subseteq Blocks
         /\ w.notify \in Nat /\ w.external \in Nat
    /\ hashLimit \in Nat /\ blockLimit \in Nat /\ maxUncleDist \in Nat /\ maxQueueDist \in Nat

VARIABLES
    pc,             \* the loop: "top" (clean up and import) or "select"
    announces,      \* announcements counted per peer
    announced,      \* hash -> sequence of announcements waiting to be fetched
    fetching, fetched, completing,  \* hash -> announcement, or None
    fetchTimer, completeTimer,      \* the timer is running
    queue,          \* blocks in the import queue
    queues,         \* blocks counted per peer
    queued,         \* hash -> origin of the queued block, or None
    knowns,         \* hashes queued lately (an ARC cache)
    importing,      \* hash -> where its import goroutine is, or None
    chain,          \* blocks that getBlock finds
    chainHeight,
    dropped,        \* peers dropped for misbehaving
    notified, external,
    world           \* chosen at the start

annVars == <<announces, announced, fetching, fetched, completing>>
queueVars == <<queue, queues, queued, knowns, importing>>
timers == <<fetchTimer, completeTimer>>
chainVars == <<chain, chainHeight>>
vars == <<pc, annVars, timers, queueVars, chainVars, dropped, notified, external, world>>

\* An announcement, and whether it comes with the number of the block.
Announces == [origin : Peers, right : BOOLEAN]

NoBlock == [h \in Blocks |-> None]

Init ==
    /\ pc = "top"
    /\ announces = [p \in Peers |-> 0] /\ announced = [h \in Blocks |-> <<>>]
    /\ fetching = NoBlock /\ fetched = NoBlock /\ completing = NoBlock
    /\ fetchTimer = TRUE /\ completeTimer = TRUE
    /\ queue = {} /\ queues = [p \in Peers |-> 0] /\ queued = NoBlock
    /\ knowns = {} /\ importing = NoBlock
    /\ chain = {Root} /\ chainHeight = 0 /\ dropped = {}
    /\ notified = 0 /\ external = 0
    /\ world \in Worlds

In(f) == {h \in Blocks : f[h] # None}
Announced == {h \in Blocks : announced[h] # <<>>}

kind(h) == world.kind[h]

\* The block with the second validator's signature, which has a hash of its own.
signed(h) == [unsigned |-> h]
Signed == {signed(h) : h \in Blocks}

\* A block is built on a signed one.
parent(h) ==
    IF Parent[h] \in world.unsigned THEN signed(Parent[h]) ELSE Parent[h]

distant(h) ==
    LET dist == Number[h] - chainHeight IN dist < -maxUncleDist \/ dist > maxQueueDist

-----------------------------------------------------------------------------
(* The announcement states as a record, so that steps of a handler compose. *)
ann == [announces |-> announces, announced |-> announced, fetching |-> fetching,
        fetched |-> fetched, completing |-> completing]

annBecomes(a) ==
    /\ announces' = a.announces /\ announced' = a.announced
    /\ fetching' = a.fetching /\ fetched' = a.fetched /\ completing' = a.completing

\* How often p is counted down when h is forgotten.
held(a, h, p) ==
    LET one(x) == IF x # None /\ x.origin = p THEN 1 ELSE 0
    IN  Cardinality({i \in DOMAIN a.announced[h] : a.announced[h][i].origin = p})
          + one(a.fetching[h]) + one(a.fetched[h]) + one(a.completing[h])

clear(f, S) == [h \in Blocks |-> IF h \in S THEN None ELSE f[h]]

\* forgetHash for every hash of S: counters may become negative, as only
\* Notify counts up.
forgetHash(a, S) ==
    [announces  |-> [p \in Peers |-> a.announces[p] - MapThenSumSet(LAMBDA h : held(a, h, p), S)],
     announced  |-> [h \in Blocks |-> IF h \in S THEN <<>> ELSE a.announced[h]],
     fetching   |-> clear(a.fetching, S),
     fetched    |-> clear(a.fetched, S),
     completing |-> clear(a.completing, S)]

\* Fetcher.enqueue for every block of M, all from peer p, in any order: the
\* set A is queued.
enqueue(a, p, M) ==
    LET room == blockLimit - queues[p]
        new  == M \ knowns
        cand == {h \in new : ~distant(h) /\ queued[h] = None}
    IN  \E A \in SUBSET cand :
          /\ A = cand \/ Cardinality(A) = room
          /\ Cardinality(A) <= room
          /\ queues' = [queues EXCEPT ![p] = @ + Cardinality(A)]
          /\ queued' = [h \in Blocks |-> IF h \in A THEN p ELSE queued[h]]
          /\ knowns' = knowns \cup A
          /\ queue' = queue \cup A
          /\ annBecomes(forgetHash(a,
                 {h \in new \ A : distant(h) \/ queued[h] = None \/ room = 0}))

\* Fetcher.forgetBlock for every hash of S.
forgetBlock(S) ==
    /\ queues' = [p \in Peers |-> queues[p] - Cardinality({h \in S : queued[h] = p})]
    /\ queued' = clear(queued, S)

-----------------------------------------------------------------------------
(* The loop. *)

\* Blocks that the pass over the queue takes out.
fit(h) == Number[h] <= chainHeight + 1

stale(h) == Number[h] + maxUncleDist < chainHeight \/ h \in chain

\* Expired fetches are forgotten, and every queued block that fits is imported
\* or, if it is too old or known by now, forgotten.
Top(expired) ==
    LET popped == {h \in queue : fit(h)}
        old    == {h \in popped : stale(h)}
    IN  /\ pc = "top" /\ pc' = "select"
        /\ annBecomes(forgetHash(ann, expired))
        /\ queue' = queue \ popped
        /\ importing' = [h \in Blocks |-> IF h \in popped \ old THEN "start" ELSE importing[h]]
        /\ forgetBlock(old)
        /\ UNCHANGED <<timers, knowns, chainVars, dropped, notified, external, world>>

event == pc = "select" /\ pc' = "top"

\* The timer is started when announced got its first hash; otherwise it runs.
startFetchTimer == fetchTimer' = (fetchTimer \/ Cardinality({h \in Blocks : announced'[h] # <<>>}) = 1)

\* Slip: what is being completed may be announced again.
wantedWhileCompleting(h) == fetching[h] = None

wanted(h) == fetching[h] = None /\ completing[h] = None

\* A node passes on the blocks it verified, and unsigned ones, of which nothing
\* is verified.
passesOn(p, h) == p \in Honest => kind(h) # "invalid" \/ h \in world.unsigned

\* case <-f.notify.  With a wrong number the distance can be anything.
Notify(p, h, right) ==
    LET ok == /\ announces[p] + 1 <= hashLimit
              /\ right => ~distant(h)
              /\ wanted(h)
    IN  /\ event /\ p \notin dropped /\ notified < world.notify
        /\ h \notin chain
        /\ passesOn(p, h) /\ (p \in Honest => right)
        /\ notified' = notified + 1
        /\ announces' = IF ok THEN [announces EXCEPT ![p] = @ + 1] ELSE announces
        /\ announced' = IF ok THEN [announced EXCEPT ![h] = Append(@, [origin |-> p, right |-> right])]
                        ELSE announced
        /\ IF ok THEN startFetchTimer ELSE UNCHANGED fetchTimer
        /\ UNCHANGED <<fetching, fetched, completing, completeTimer, queueVars, chainVars, dropped, external, world>>

\* case <-f.inject: a peer propagates a block.
Enqueue(p, h) ==
    /\ event /\ p \notin dropped
    /\ passesOn(p, h)
    /\ enqueue(ann, p, {h})
    /\ UNCHANGED <<timers, importing, chainVars, dropped, notified, external, world>>

\* Slip: the loop waits again without a look at the queue.
DoneNoPass(h) ==
    /\ pc = "select" /\ pc' = "select"
    /\ importing[h] = "done"
    /\ importing' = [importing EXCEPT ![h] = None]
    /\ annBecomes(forgetHash(ann, {h}))
    /\ forgetBlock({h})
    /\ UNCHANGED <<timers, queue, knowns, chainVars, dropped, notified, external, world>>

\* case <-f.done.
Done(h) ==
    /\ event
    /\ importing[h] = "done"
    /\ importing' = [importing EXCEPT ![h] = None]
    /\ annBecomes(forgetHash(ann, {h}))
    /\ forgetBlock({h})
    /\ UNCHANGED <<timers, queue, knowns, chainVars, dropped, notified, external, world>>

\* The hashes of S, forgotten, are marked as requested from the announcer picked.
request(f, S, pick) == [h \in Blocks |-> IF h \in S \ chain THEN pick[h] ELSE f[h]]

\* case <-fetchTimer.C: the announcements in S are old enough; for each one
\* announcer is picked.
FetchTimer(S) ==
    \E pick \in [S -> 1 .. hashLimit * Cardinality(Peers)] :
        LET from == [h \in S |-> announced[h][pick[h]]]
            a    == forgetHash(ann, S)
        IN  /\ event /\ fetchTimer
            /\ S \subseteq Announced
            /\ \A h \in S : pick[h] \in DOMAIN announced[h]
            /\ annBecomes([a EXCEPT !.fetching = request(@, S, from)])
            /\ fetchTimer' = (Announced \ S # {})
            /\ UNCHANGED <<completeTimer, queueVars, chainVars, dropped, notified, external, world>>

\* case <-completeTimer.C: the bodies of everything fetched are requested.
CompleteTimer ==
    LET S == In(fetched)
        a == forgetHash(ann, S)
    IN  /\ event /\ completeTimer
        /\ annBecomes([a EXCEPT !.completing = request(@, S, fetched)])
        /\ completeTimer' = FALSE
        /\ UNCHANGED <<fetchTimer, queueVars, chainVars, dropped, notified, external, world>>

\* The timer is started when fetched got its first hash; otherwise it runs.
startCompleteTimer == completeTimer' = (completeTimer \/ In(fetched) = {})

\* case <-f.headerFilter: p delivers the header of h (the handler filters
\* answers of one header).  What the fetcher did not ask p for is passed on to
\* the downloader.  A header is fetched once: fetched holds no second one.
FilterHeaders(p, h) ==
    LET announce == fetching[h]
        asked == /\ announce # None /\ announce.origin = p
                 /\ fetched[h] = None /\ completing[h] = None /\ queued[h] = None
    IN  /\ event /\ p \notin dropped
        /\ UNCHANGED <<importing, fetchTimer, chainVars, notified, external, world>>
        /\ \/ /\ ~asked
              /\ UNCHANGED <<annVars, completeTimer, queue, queues, queued, knowns, dropped>>
           \/ /\ asked /\ (~announce.right \/ h \in chain)
              /\ dropped' = IF announce.right THEN dropped ELSE dropped \cup {p}
              /\ annBecomes(forgetHash(ann, {h}))
              /\ UNCHANGED <<completeTimer, queue, queues, queued, knowns>>
           \/ /\ asked /\ announce.right /\ h \notin chain /\ h \in world.empty
              /\ enqueue([ann EXCEPT !.completing[h] = announce], p, {h})
              /\ UNCHANGED <<completeTimer, dropped>>
           \/ /\ asked /\ announce.right /\ h \notin chain /\ h \notin world.empty
              /\ fetched' = [fetched EXCEPT ![h] = announce]
              /\ startCompleteTimer
              /\ UNCHANGED <<announces, announced, fetching, completing, queue, queues,
                             queued, knowns, dropped>>

\* case <-f.bodyFilter: p delivers the empty body, or that of the other blocks,
\* which completes every header with that body that was asked from p.
FilterBodies(p, empty) ==
    LET matched == {h \in In(completing) : /\ h \in world.empty <=> empty
                                           /\ queued[h] = None /\ completing[h].origin = p}
    IN  /\ event /\ p \notin dropped
        /\ enqueue(forgetHash(ann, matched \cap chain), p, matched \ chain)
        /\ UNCHANGED <<importing, timers, chainVars, dropped, notified, external, world>>

-----------------------------------------------------------------------------
(* Import goroutines (Fetcher.insert), and what else happens. *)

\* verifyHeader on a header with both signatures, and what is done about it.
verifyHeader(h) ==
    /\ importing' = [importing EXCEPT ![h] = CASE kind(h) = "valid" -> "insert"
                                             [] kind(h) = "invalid" -> "done"
                                             [] OTHER -> "sleep"]
    /\ dropped' = IF kind(h) = "invalid" THEN dropped \cup {queued[h]} ELSE dropped

\* The parent is looked up and the header verified.  verifyHeader looks for the
\* second validator's signature before anything else: a block that lacks it is
\* signed if this node is that validator, which may fail, and otherwise only
\* prepared.
Verify(h) ==
    /\ importing[h] = "start"
    /\ \/ /\ parent(h) \notin chain \/ h \in world.unsigned
          /\ importing' = [importing EXCEPT ![h] = "done"]
          /\ UNCHANGED dropped
       \/ /\ parent(h) \in chain /\ h \in world.unsigned \cap world.mine
          /\ importing' = [importing EXCEPT ![h] = "signed"]
          /\ UNCHANGED dropped
       \/ /\ parent(h) \in chain /\ h \notin world.unsigned
          /\ verifyHeader(h)
    /\ UNCHANGED <<pc, annVars, timers, queue, queues, queued, knowns, chainVars, notified, external, world>>

\* goto again: the block that this node signed is verified like any other.
VerifySigned(h) ==
    /\ importing[h] = "signed"
    /\ verifyHeader(h)
    /\ UNCHANGED <<pc, annVars, timers, queue, queues, queued, knowns, chainVars, notified, external, world>>

\* time.Sleep and goto again: the time of the block has come.  If it never does,
\* the goroutine sleeps on, or verifies for ever where Int64 makes the delay
\* negative.
Wake(h) ==
    /\ importing[h] = "sleep" /\ kind(h) = "future"
    /\ importing' = [importing EXCEPT ![h] = "insert"]
    /\ UNCHANGED <<pc, annVars, timers, queue, queues, queued, knowns, chainVars, dropped, notified, external, world>>

extend(b, n) ==
    /\ chain' = chain \cup {b}
    /\ chainHeight' = IF n > chainHeight THEN n ELSE chainHeight

\* insertBlock may fail; a signed block is imported under its own hash.
Insert(h) ==
    /\ importing[h] = "insert"
    /\ importing' = [importing EXCEPT ![h] = "done"]
    /\ \/ extend(IF h \in world.unsigned THEN signed(h) ELSE h, Number[h])
       \/ UNCHANGED chainVars
    /\ UNCHANGED <<pc, annVars, timers, queue, queues, queued, knowns, dropped, notified, external, world>>

\* The downloader or the miner extends the chain, by a block that peers
\* announce as well or by another one.
OtherImport(h) ==
    /\ external < world.external /\ external' = external + 1
    /\ \/ kind(h) = "valid" /\ h \notin world.unsigned /\ parent(h) \in chain /\ extend(h, Number[h])
       \/ chainHeight' = chainHeight + 1 /\ chain' = chain
    /\ UNCHANGED <<pc, annVars, timers, queueVars, dropped, notified, world>>

\* The ARC cache drops an entry.
Evict(h) ==
    /\ h \in knowns
    /\ knowns' = knowns \ {h}
    /\ UNCHANGED <<pc, annVars, timers, queue, queues, queued, importing, chainVars, dropped, notified, external, world>>

Next ==
    \/ \E S \in SUBSET In(fetching) : Top(S)
    \/ \E p \in Peers, h \in Blocks, right \in BOOLEAN : Notify(p, h, right)
    \/ \E p \in Peers, h \in Blocks : Enqueue(p, h)
    \/ \E h \in Blocks : Done(h)
    \/ \E S \in SUBSET Announced : FetchTimer(S)
    \/ CompleteTimer
    \/ \E p \in Peers, h \in Blocks : FilterHeaders(p, h)
    \/ \E p \in Peers, empty \in BOOLEAN : FilterBodies(p, empty)
    \/ \E h \in Blocks : Verify(h)
    \/ \E h \in Blocks : VerifySigned(h)
    \/ \E h \in Blocks : Wake(h)
    \/ \E h \in Blocks : Insert(h)
    \/ \E h \in Blocks : OtherImport(h)
    \/ \E h \in Blocks : Evict(h)

\* Go runs every goroutine, a timer that runs fires, select takes a ready case
\* at random, and an announcement is old enough after arriveTimeout.
Fairness ==
    /\ WF_vars(\E S \in SUBSET In(fetching) : Top(S))
    /\ SF_vars(CompleteTimer)
    /\ \A h \in Blocks :
         /\ WF_vars(Verify(h)) /\ WF_vars(VerifySigned(h)) /\ WF_vars(Wake(h))
         /\ WF_vars(Insert(h)) /\ SF_vars(Done(h))
         /\ SF_vars(\E S \in SUBSET Announced : h \in S /\ FetchTimer(S))

Spec == Init /\ [][Next]_vars
FairSpec == Spec /\ Fairness

-----------------------------------------------------------------------------
TypeOK ==
    /\ pc \in {"top", "select"}
    /\ announces \in [Peers -> Int] /\ announced \in [Blocks -> Seq(Announces)]
    /\ fetching \in [Blocks -> Announces \cup {None}]
    /\ fetched \in [Blocks -> Announces \cup {None}]
    /\ completing \in [Blocks -> Announces \cup {None}]
    /\ fetchTimer \in BOOLEAN /\ completeTimer \in BOOLEAN
    /\ queue \subseteq Blocks /\ queues \in [Peers -> Nat]
    /\ queued \in [Blocks -> Peers \cup {None}] /\ knowns \subseteq Blocks
    /\ importing \in [Blocks -> {"start", "signed", "sleep", "insert", "done", None}]
    /\ chain \subseteq Blocks \cup Signed \cup {Root} /\ chainHeight \in Nat /\ dropped \subseteq Peers
    /\ notified \in Nat /\ external \in Nat /\ world \in Worlds

(* "Set of already queued blocks (to dedup imports)": a queued block waits in
   the queue or is being imported by exactly one goroutine, never both and
   never neither, so that no block is imported twice at a time and none is
   forgotten by the queue while its peer is still charged for it. *)
QueuedOnce ==
    \A h \in Blocks :
        /\ queued[h] # None <=> h \in queue \/ importing[h] # None
        /\ ~(h \in queue /\ importing[h] # None)

(* "Per peer block counts to prevent memory exhaustion": the count is exactly
   the number of blocks queued for the peer and within blockLimit, although
   blocks of one peer are queued, forgotten and imported in any order. *)
QueuesExact ==
    \A p \in Peers :
        /\ queues[p] = Cardinality({h \in Blocks : queued[h] = p})
        /\ queues[p] <= blockLimit

(* The announcement counter of a peer is never above the announcements it is
   waiting for, so that a peer is never refused for announcements that were
   fetched or forgotten long ago. *)
AnnouncesNotOverstated ==
    \A p \in Peers :
        announces[p] <= MapThenSumSet(
            LAMBDA h : Cardinality({i \in DOMAIN announced[h] : announced[h][i].origin = p}), Blocks)

(* A hash waits to be fetched, or is retrieved, never both: what is fetched is
   still marked as fetching, and nothing on its way is requested again. *)
RetrievedOnce ==
    /\ \A h \in Announced : fetching[h] = None /\ completing[h] = None /\ fetched[h] = None
    /\ In(fetched) \subseteq In(fetching)

(* No announcement and no fetched header waits without a timer that will
   serve it: rescheduleFetch and rescheduleComplete are called often enough. *)
TimerRuns ==
    /\ Announced # {} => fetchTimer
    /\ In(fetched) # {} => completeTimer

(* dropPeer is called on a peer that announced a wrong number or sent an
   invalid block, not on one whose blocks came early, twice or late.  A peer
   that verifies what it can is dropped only for a block that nobody verifies
   before the second validator, which this node is, has signed it. *)
HonestStays ==
    dropped \cap Honest # {} => \E h \in world.unsigned \cap world.mine : kind(h) = "invalid"

(* Every import ends, unless the time of the block never comes: the block
   leaves the set of queued blocks. *)
ImportsEnd ==
    \A h \in Blocks : importing[h] # None /\ kind(h) # "never" ~> queued[h] = None

(* A queued block whose turn has come leaves the queue: the loop looks at the
   queue again after every import.  (An import by other means does not wake
   the loop.) *)
QueueMoves ==
    \A h \in Blocks :
        h \in queue /\ fit(h) /\ external = 0 ~> h \notin queue \/ external > 0

(* Every announcement is fetched or dropped, every fetched header moves on. *)
AnnouncementsServed ==
    \A h \in Blocks :
        /\ announced[h] # <<>> ~> announced[h] = <<>>
        /\ fetched[h] # None ~> fetched[h] = None

(* What is announced is requested, what is fetched has its body requested, what
   is queued is imported when its turn comes, and imports end, also of a block
   from the future, while another import never ends.  (A body that was requested
   is waited for without a limit.) *)
FetcherMoves == ImportsEnd /\ QueueMoves /\ AnnouncementsServed
=============================================================================
