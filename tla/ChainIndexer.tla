---------------------------- MODULE ChainIndexer ----------------------------
(***************************************************************************)
(* The background index over sections of the canonical chain               *)
(* (core/chain_indexer.go), here one without children.  The event loop     *)
(* learns of heads and reorganisations from the chain's feed; the update   *)
(* loop processes a section without holding the lock, reading the chain by *)
(* number while it moves on, and then decides whether the section counts.  *)
(*                                                                         *)
(* A block is the sequence of the versions of its ancestors and itself: a  *)
(* reorganisation creates blocks of a new version on top of an old one.    *)
(***************************************************************************)
EXTENDS Integers, Sequences, SequencesExt

CONSTANTS
    sectionSize, confirmsReq,
    MaxNumber,      \* bound: highest block
    MaxReorgs,      \* bound: reorganisations
    MaxFailures,    \* bound: failures of the backend
    EventBuffer     \* buffer of the subscription (10)

None == <<>>

VARIABLES
    head,           \* head of the canonical chain
    canonical,      \* number -> block, GetCanonicalHash, None if there is none
    version,
    events,         \* heads posted and not yet seen by the event loop
    prev,           \* the last head the event loop has seen
    reorged,        \* a head whose reorganisation was reported, not the head itself
    known, stored,  \* knownSections, storedSections
    sectionHead,    \* section -> block, None if there is none
    update,         \* a token in the channel update
    timer,          \* AfterFunc will put one there
    section, oldHead, lastHead, number,  \* locals of the update loop
    stage,          \* "idle", "process", "done", "error" or "failed"
    failures,       \* of the backend
    raced           \* history: a section was reorganised while it was in work

chain == <<head, canonical, version>>
listener == <<events, prev, reorged>>
index == <<known, stored, sectionHead>>
locals == <<section, oldHead, lastHead, number>>
vars == <<chain, listener, index, update, timer, locals, stage, failures, raced>>

Number(b) == Len(b) - 1
Sections == 0 .. (MaxNumber + 1) \div sectionSize

Init ==
    /\ head = <<0>> /\ version = 0
    /\ canonical = [n \in 0 .. MaxNumber |-> IF n = 0 THEN head ELSE None]
    /\ events = <<>> /\ prev = <<0>> /\ reorged = None
    /\ known = 0 /\ stored = 0 /\ sectionHead = [s \in Sections |-> None]
    /\ update = FALSE /\ timer = FALSE
    /\ section = 0 /\ oldHead = None /\ lastHead = None /\ number = 0
    /\ stage = "idle" /\ failures = 0 /\ raced = FALSE

-----------------------------------------------------------------------------
(* The chain. *)

\* The head moves to h.  Above it the numbers of a longer branch keep their blocks.
post(h) ==
    /\ Len(events) < EventBuffer
    /\ head' = h /\ events' = Append(events, h)
    /\ canonical' = [n \in 0 .. MaxNumber |-> IF n < Len(h) THEN SubSeq(h, 1, n + 1) ELSE canonical[n]]

Extend ==
    /\ Number(head) < MaxNumber
    /\ post(Append(head, version))
    /\ UNCHANGED <<version, prev, reorged, index, update, timer, locals, stage, failures, raced>>

\* The new branch leaves the old one above c blocks and has l blocks of its own:
\* it is heavier and may be shorter.
Reorganise(c, l) ==
    /\ version < MaxReorgs /\ version' = version + 1
    /\ c < Len(head) /\ c + l <= Len(head) + 1 /\ c + l <= MaxNumber + 1
    /\ post(SubSeq(head, 1, c) \o [j \in 1 .. l |-> version'])
    /\ UNCHANGED <<prev, reorged, index, update, timer, locals, stage, failures, raced>>

-----------------------------------------------------------------------------
(* The event loop. *)

setValidSections(n) ==
    /\ stored' = n
    /\ sectionHead' = [s \in Sections |-> IF s >= n /\ s < stored THEN None ELSE sectionHead[s]]

common(a, b) ==
    CHOOSE n \in 1 .. Len(a) : /\ SubSeq(a, 1, n) = SubSeq(b, 1, n)
                               /\ n = Len(a) \/ n = Len(b) \/ a[n + 1] # b[n + 1]

\* Slip: the section of the common ancestor is kept.
changedAbove(ancestor) == ancestor \div sectionSize + 1

changed(ancestor) == ancestor \div sectionSize

\* newHead(ancestor, true), if the event's block does not extend the last one.
ReorgEvent ==
    LET h == Head(events)
        c == changed(common(prev, h) - 1)
    IN  /\ events # <<>> /\ reorged = None /\ Front(h) # prev
        /\ reorged' = h
        /\ known' = IF c < known THEN c ELSE known
        /\ IF c < stored THEN setValidSections(c) ELSE UNCHANGED <<stored, sectionHead>>
        /\ raced' = (raced \/ (stage # "idle" /\ c = section))
        /\ UNCHANGED <<chain, events, prev, update, timer, locals, stage, failures>>

sections(n) == IF n >= confirmsReq THEN (n + 1 - confirmsReq) \div sectionSize ELSE 0

\* newHead(number, false).
HeadEvent ==
    LET h == Head(events)
        s == sections(Number(h))
    IN  /\ events # <<>>
        /\ reorged = h \/ Front(h) = prev
        /\ events' = Tail(events) /\ prev' = h /\ reorged' = None
        /\ IF s > known THEN known' = s /\ update' = TRUE ELSE UNCHANGED <<known, update>>
        /\ UNCHANGED <<chain, stored, sectionHead, timer, locals, stage, failures, raced>>

-----------------------------------------------------------------------------
(* The update loop. *)

\* The section is fixed under the lock, which is then released.
StartSection ==
    /\ stage = "idle" /\ update /\ update' = FALSE
    /\ IF known > stored
       THEN /\ stage' = "process" /\ section' = stored /\ number' = stored * sectionSize
            /\ oldHead' = IF stored > 0 THEN sectionHead[stored - 1] ELSE None
            /\ lastHead' = oldHead'
       ELSE UNCHANGED <<stage, locals>>
    /\ UNCHANGED <<chain, listener, index, timer, failures, raced>>

isChild(b) == Front(b) = lastHead

\* processSection: the next block by number, if there is one and it links.
ProcessBlock ==
    LET b == canonical[number]
    IN  /\ stage = "process"
        /\ IF b = None \/ ~isChild(b)
           THEN stage' = "error" /\ UNCHANGED <<number, lastHead>>
           ELSE /\ lastHead' = b /\ number' = number + 1
                /\ stage' = IF number + 1 = (section + 1) * sectionSize THEN "done" ELSE stage
        /\ UNCHANGED <<chain, listener, index, update, timer, section, oldHead, failures, raced>>

fail == failures < MaxFailures /\ failures' = failures + 1 /\ stage' = "failed"

\* backend.Reset fails, before the first block: all sections are given up, and
\* the lock is not held.
ResetFails ==
    /\ stage = "process" /\ number = section * sectionSize
    /\ fail
    /\ setValidSections(0)
    /\ UNCHANGED <<chain, listener, known, update, timer, locals, raced>>

\* backend.Commit fails, after the last block.
CommitFails ==
    /\ stage = "done"
    /\ fail
    /\ UNCHANGED <<chain, listener, index, update, timer, locals, raced>>

SectionHead(s) == IF s \in Sections THEN sectionHead[s] ELSE None

unchangedSoFar == oldHead = SectionHead(section - 1)

\* Slip: one section per notification.
againNot(k, n) == FALSE

again(k, n) == k > n

\* The lock is taken again.  If nothing below the section changed, it counts;
\* otherwise nothing is tried again until further notification.
EndSection ==
    /\ stage \in {"done", "error", "failed"} /\ stage' = "idle"
    /\ IF stage = "done" /\ unchangedSoFar
       THEN /\ sectionHead' = [s \in Sections |->
                   IF s = section THEN lastHead
                   ELSE IF s > section /\ s < stored THEN None ELSE sectionHead[s]]
            /\ stored' = section + 1 /\ UNCHANGED known
       ELSE known' = stored /\ UNCHANGED <<stored, sectionHead>>
    /\ timer' = (timer \/ again(known', stored'))
    /\ UNCHANGED <<chain, listener, update, locals, failures, raced>>

\* AfterFunc(throttling).
Reschedule ==
    /\ timer /\ timer' = FALSE /\ update' = TRUE
    /\ UNCHANGED <<chain, listener, index, locals, stage, failures, raced>>

EventLoop == ReorgEvent \/ HeadEvent

UpdateLoop == StartSection \/ ProcessBlock \/ ResetFails \/ CommitFails \/ EndSection

Next ==
    \/ Extend
    \/ \E c, l \in 1 .. MaxNumber : Reorganise(c, l)
    \/ EventLoop \/ UpdateLoop \/ Reschedule

\* Both loops and the timer go on.
Fairness == WF_vars(EventLoop) /\ WF_vars(UpdateLoop) /\ WF_vars(Reschedule)

Spec == Init /\ [][Next]_vars
FairSpec == Spec /\ Fairness

-----------------------------------------------------------------------------
\* Heads are recorded for the stored sections and no others, and each is the last
\* block of its section.
TypeOK ==
    /\ known \in Sections /\ stored \in Sections
    /\ \A s \in Sections :
        /\ s < stored <=> sectionHead[s] # None
        /\ s < stored => Number(sectionHead[s]) = (s + 1) * sectionSize - 1

(* The sections form a chain: the head of a section descends from the head of
   the one before, with reorganisations at any moment. *)
SectionsLinked ==
    \A s \in 1 .. stored - 1 : IsPrefix(sectionHead[s - 1], sectionHead[s])

\* Nothing is on its way to either loop.
Quiet == events = <<>> /\ stage = "idle" /\ ~update /\ ~timer

(* "If processing succeeded and no reorgs occcurred, mark the section
   completed": when both loops have seen everything, the stored sections are
   those of the canonical chain. *)
StoredIsCanonical ==
    Quiet => \A s \in 0 .. stored - 1 : IsPrefix(sectionHead[s], head)

(* It holds as long as no section was reorganised while it was in work, the
   section below it unchanged. *)
StoredIsCanonicalUnlessRaced ==
    raced \/ StoredIsCanonical

\* What the event loop has seen, what is stored and what is in work agree with
\* the chain, and the backend has not failed.
Agrees ==
    /\ IsPrefix(prev, head) /\ reorged = None
    /\ \A s \in 0 .. stored - 1 : IsPrefix(sectionHead[s], head)
    /\ stage # "idle" => stage # "failed" /\ IsPrefix(lastHead, head) /\ unchangedSoFar

Due(n) == known >= n /\ Agrees
Indexed(n) == stored >= n \/ ~Agrees

(* A section with enough confirmations is indexed, while neither the chain is
   reorganised nor the backend fails: with one place in the channel and a section
   at a time, no notification is lost.  (When a section is given up, one that came
   while it was in work is: the next head brings it again.) *)
SectionsIndexed ==
    \A n \in Sections \ {0} : Due(n) ~> Indexed(n)
=============================================================================
