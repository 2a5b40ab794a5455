-------------------------- MODULE PosvEngineProofs --------------------------
(***************************************************************************)
(* Proofs about the snapshots behind the verification of a checkpoint      *)
(* header.  To the parts of the inductive invariant in PosvEngineLemmas    *)
(* this module adds CalmChain, which needs calm behaviours (no race, no    *)
(* restart, one branch up to the gap block), and draws the theorems.       *)
(***************************************************************************)
EXTENDS PosvEngineLemmas

-----------------------------------------------------------------------------
(* The inductive invariant. *)

\* The snapshot of gap block g holds its election.
Holds(g) == IF g \in DOMAIN recents THEN recents[g] = cand(g)
            ELSE g \in DOMAIN disk /\ disk[g] = cand(g)

\* There is one block of each number up to the gap block's, and all of them
\* that are written are on the head's branch.
OneBelowGap == \A b, c \in Ids : number(b) <= GapNumber /\ number(c) = number(b) => b = c

OnHeadsPath == \A b \in db : number(b) <= GapNumber => b \in Ancestors(head)

\* Once UpdateM1 is done the election is in the snapshot of the gap block, on
\* disk before another block is on top, and in every snapshot of a descendant.
ElectionHeld == ~InUpdate => \A g \in db : atGap(g) => Holds(g)

Stored(g) == g \in DOMAIN disk /\ disk[g] = cand(g)

ElectionStored == \A b \in db \cup verified : \A g \in GapAncestors(b) : b # g => Stored(g)

ElectionCached ==
    \A b \in DOMAIN recents : \A g \in GapAncestors(b) : b # g => recents[b] = cand(g)

ElectionLookedUp ==
    \A v \in verifying : \A g \in GapAncestors(parent(v.block)) : v.signers = cand(g)

CalmChain ==
    /\ OneBelowGap /\ OnHeadsPath /\ ElectsHead(updating) /\ ElectsHead(mining)
    /\ ElectionHeld /\ ElectionStored /\ ElectionCached /\ ElectionLookedUp
    /\ refused = {}

EngineInv ==
    /\ Base /\ RefusedOnlyIfFallbackFails /\ panicked \in BOOLEAN
    /\ Quiet => OwnBranch
    /\ Calm => CalmChain
-----------------------------------------------------------------------------
(* OwnBranch is kept by evictions, verifications and installations. *)

\* An eviction keeps OwnBranch, for the same reason.
LEMMA QuietEvict ==
    ASSUME Base, Base', TreeStep, OwnBranch, Rests, Forgets, NEW b, Evict(b)
    PROVE  OwnBranch'
<1>1. /\ UNCHANGED <<blocks, db, head, disk, verifying, verified, refused, updating, mining, restarts, scenario>>
      /\ recents' = [x \in DOMAIN recents \ {b} |-> recents[x]]
      /\ \A v \in verifying : b # parent(v.block)
  BY Zenon DEF Evict
<1>2. ElectsHead(updating)'
  BY <1>1, Zenon DEF OwnBranch, ElectsHead, atGap, isGapBlock, number, Gap, Ids, cand, Ancestors
<1>3. \A v \in verifying' : \A g : g = parent(v.block) /\ g \in DOMAIN recents => g \in DOMAIN recents'
  BY <1>1, Zenon
<1> QED BY <1>2, <1>3, QuietForgets, Zenon

\* Verifying a header keeps OwnBranch: the first child of a gap block stores
\* the cached snapshot, later ones store it again unchanged.
LEMMA QuietVerify ==
    ASSUME Base, Base', TreeStep, OwnBranch, NEW v \in verifying, NEW b, NEW p, NEW ss, Checks(v, b, p, ss)
    PROVE  OwnBranch'
<1>1. Kept /\ Tree /\ Store /\ Headers
  BY TreeKept, Zenon DEF Base
<1>2. \A x \in Ids : Stays(x) /\ GapFacts(x)
  BY <1>1, KeptBlocks, GapFactsHold, Zenon
<1>3. /\ b = v.block /\ b \in Ids \ {1} /\ b \notin db /\ p = parent(b) /\ p \in db /\ p \in Ids
      /\ Stores(p, ss, ss) /\ verifying' = verifying \ {v}
      /\ UNCHANGED <<blocks, db, head, updating, mining, restarts, scenario>>
  BY <1>1, Zenon DEF Checks, Tree
<1>4. Believes(p, ss)
  <2>1. CASE ss = v.signers
    BY <1>3, <2>1, Zenon DEF OwnBranch, VerifiersBelieve
  <2>2. CASE p \in DOMAIN recents /\ ss = recents[p]
    BY <2>2, Zenon DEF OwnBranch, CacheBelieves
  <2> QED BY <2>1, <2>2, Zenon DEF Checks
<1>5. \A g : atGap(g) /\ g # p => /\ disk'[g] = disk[g] \/ g \notin DOMAIN disk
                                  /\ g \in DOMAIN disk' <=> g \in DOMAIN disk
                                  /\ g \in DOMAIN recents' <=> g \in DOMAIN recents
                                  /\ g \in DOMAIN recents => recents'[g] = recents[g]
  BY <1>3, SMTT(20) DEF Stores, Puts
<1>6. atGap(p) => /\ p \in GapAncestors(p) /\ ss = Current(p)
                  /\ p \in DOMAIN disk' /\ disk'[p] = ss /\ p \in DOMAIN recents' /\ recents'[p] = ss
  BY <1>2, <1>3, <1>4, SMTT(20) DEF Stores, Puts, GapFacts, Believes
<1>7. \A g : atGap(g) /\ Sealed(g) => Sealed(g)' /\ disk'[g] = disk[g]
  BY <1>5, <1>6, Zenon DEF Sealed, Current
<1>8. \A g : atGap(g) => Current(g)' = Current(g)
  BY <1>5, <1>6, Zenon DEF Current
<1>9. ASSUME NEW x \in db, NEW t, Believes(x, t) PROVE Believes(x, t)'
  <2>1. x \in Ids /\ x \in Passed
    BY <1>1, Zenon DEF Tree, Passed
  <2>2. ASSUME NEW g \in GapAncestors(x) PROVE IF x = g THEN Current(g)' = Current(g) ELSE disk'[g] = disk[g]
    <3>1. atGap(g)
      BY <1>2, <2>1, Zenon DEF GapFacts
    <3>2. x # g => Sealed(g)
      BY <2>1, Zenon DEF OwnBranch, SealedBelow
    <3> QED BY <1>7, <1>8, <3>1, <3>2
  <2> QED BY <1>1, <1>9, <2>1, <2>2, BeliefStays, Zenon
<1>10. Believes(p, ss)'
  BY <1>3, <1>4, <1>9, Zenon
<1>11. ASSUME NEW x \in DOMAIN recents', NEW t, t = recents'[x] PROVE Believes(x, t)'
  <2>1. CASE x = p
    <3>1. t = ss
      BY <1>3, <1>11, <2>1, Zenon DEF Stores, Puts
    <3> QED BY <1>10, <2>1, <3>1, Zenon
  <2>2. CASE x # p
    <3>1. x \in DOMAIN recents /\ t = recents[x]
      BY <1>3, <1>11, <2>2, Zenon DEF Stores, Puts
    <3>2. x \in db /\ Believes(x, t)
      BY <1>1, <3>1, Zenon DEF Store, OwnBranch, CacheBelieves
    <3> QED BY <1>9, <3>2, Zenon
  <2> QED BY <2>1, <2>2, Zenon
<1>12. ASSUME NEW w \in verifying', NEW q, NEW t, q = parent(w.block)', t = w.signers
       PROVE  Believes(q, t)'
  <2>1. PICK c : c = w.block
    BY Zenon
  <2>2. c \in Ids \ {1} /\ w \in verifying
    BY <1>1, <1>3, <2>1, Zenon DEF Headers, Tree
  <2>3. parent(c) \in db /\ q = parent(c)
    BY <1>1, <1>2, <1>12, <2>1, <2>2 DEF Tree, Parents, Stays
  <2>4. q \in db /\ Believes(q, t)
    BY <1>12, <2>1, <2>2, <2>3 DEF OwnBranch, VerifiersBelieve
  <2> QED BY <1>9, <2>4, Zenon
<1>13. Ancestors(b) = Ancestors(p) \cup {b}
  BY <1>1, <1>3, Zenon DEF Tree, Parents
<1>14. \A g \in GapAncestors(b) : b # g => g \in GapAncestors(p)
  BY <1>13, Zenon DEF GapAncestors
<1>15. Passed' \subseteq Passed \cup {b}
  <2>1. verified' \subseteq verified \cup {b} /\ \A r \in refused' : r \in refused \/ r.block = b
    BY DEF Checks
  <2> QED BY <1>3, <2>1, Zenon DEF Passed
<1>16. ASSUME NEW x \in Passed', NEW g \in GapAncestors(x)', x # g PROVE Sealed(g)'
  <2>1. x \in Ids
    BY <1>1, <1>3, <1>15, PassedAreBlocks
  <2>2. g \in GapAncestors(x) /\ atGap(g)
    BY <1>2, <2>1, GapBlockKept, Zenon
  <2>3. CASE x \in Passed
    BY <1>7, <1>16, <2>2, <2>3, Zenon DEF OwnBranch, SealedBelow
  <2>4. CASE x = b
    <3>1. g \in GapAncestors(p)
      BY <1>14, <1>16, <2>2, <2>4, Zenon
    <3>2. CASE g = p
      BY <1>6, <2>2, <3>2, Zenon DEF Sealed
    <3>3. CASE g # p
      <4>1. p \in Passed
        BY <1>3, Zenon DEF Passed
      <4> QED BY <1>7, <2>2, <3>1, <3>3, <4>1 DEF OwnBranch, SealedBelow
    <3> QED BY <3>2, <3>3, Zenon
  <2> QED BY <1>15, <2>3, <2>4
<1>17. DOMAIN recents' \cup DOMAIN disk' \subseteq Ids
  BY <1>1, <1>3 DEF Store, Tree, Stores, Puts
<1>18. \A g \in Ids : atGap(g) /\ (g \in DOMAIN recents \/ g \in DOMAIN disk) => Current(g) \in {Genesis, cand(g)}
  BY Zenon DEF Current, OwnBranch, OwnValues
<1>19. atGap(p) => ss \in {Genesis, cand(p)}
  BY <1>3, <1>6, <1>18 DEF Current
<1>20. /\ \A g \in DOMAIN recents' : atGap(g) => recents'[g] \in {Genesis, cand(g)}
       /\ \A g \in DOMAIN disk' : atGap(g) => disk'[g] \in {Genesis, cand(g)}
  BY <1>5, <1>6, <1>19 DEF OwnBranch, OwnValues
<1>21. ElectsHead(updating)'
  BY <1>3, Zenon DEF OwnBranch, ElectsHead, atGap, isGapBlock, number, Gap, Ids, cand, Ancestors
<1>22. \A r \in refused' : r.block \in Ids
  BY <1>1, <1>3 DEF Headers, Checks
<1>23. ASSUME NEW r \in refused', NEW c, NEW g \in GapAncestors(c), c = r.block
       PROVE  disk'[g] = Genesis /\ cand(g) # Genesis
  <2>1. c \in Ids /\ atGap(g)
    BY <1>2, <1>22, <1>23 DEF GapFacts
  <2>2. CASE r \in refused
    <3>1. c \in Passed /\ disk[g] = Genesis /\ cand(g) # Genesis /\ c \in Ids \ {1} /\ isCheckpoint(number(c))
      BY <1>1, <1>23, <2>2, Zenon DEF OwnBranch, RefusedStale, Passed, Headers
    <3>2. c # g
      BY <1>1, <2>1, <3>1, BelowCheckpoint
    <3>3. Sealed(g)
      BY <3>1, <3>2, Zenon DEF OwnBranch, SealedBelow
    <3> QED BY <1>7, <2>1, <3>1, <3>3, Zenon
  <2>3. CASE r \notin refused
    <3>1. /\ r = [block |-> b, signers |-> ss, head |-> head]
          /\ isCheckpoint(number(b)) /\ ~validCheckpoint(correctHeader(p), p, ss)
      BY <2>3, Zenon DEF Checks
    <3>2. c = b
      BY <1>23, <3>1, Zenon
    <3>3. number(p) + 1 = Epoch /\ g \in GapAncestors(p)
      BY <1>1, <1>3, <1>23, <3>1, <3>2, BelowCheckpoint
    <3>4. ss # cand(g)
      <4>1. p \in Ids /\ Tree
        BY <1>1, <1>3, Zenon DEF Tree
      <4>2. startGapBlock(p) = g /\ g \in Ids
        BY <3>3, <4>1, StartIsGapBlock, Zenon
      <4> QED BY <3>1, <4>1, <4>2, RefusedHeader, Zenon
    <3>5. CASE g = p
      BY <1>6, <1>19, <2>1, <3>4, <3>5, Zenon
    <3>6. CASE g # p
      <4>1. ss = disk[g]
        BY <1>4, <3>3, <3>6, Zenon DEF Believes
      <4>2. Sealed(g)
        BY <1>3, <3>3, <3>6, SMTT(20) DEF OwnBranch, SealedBelow, Passed
      <4>3. disk[g] \in {Genesis, cand(g)} /\ disk'[g] = disk[g]
        BY <1>7, <2>1, <4>2, SMTT(20) DEF OwnBranch, OwnValues, Sealed
      <4> QED BY <3>4, <4>1, <4>3, Zenon
    <3> QED BY <3>5, <3>6, SMTT(20)
  <2> QED BY <2>2, <2>3, Zenon
<1> QED BY <1>1, <1>11, <1>12, <1>16, <1>17, <1>20, <1>21, <1>22, <1>23, OwnBranchAfter

\* UpdateMasternodes keeps OwnBranch: it changes the snapshot of the head,
\* which no belief about another block rests on yet.
LEMMA QuietInstall ==
    ASSUME Base, Base', TreeStep, OwnBranch, UpdateM1Install, NEW h, NEW ds,
           Installs(h, updating.elected, ds)
    PROVE  OwnBranch'
<1>1. Kept /\ Tree /\ Store /\ Headers
  BY TreeKept, Zenon DEF Base
<1>2. \A x \in Ids : Stays(x) /\ GapFacts(x)
  BY <1>1, KeptBlocks, GapFactsHold, Zenon
<1>3. /\ h = head /\ h \in db /\ h \in Ids /\ ds = signersAt(h) /\ Stores(h, updating.elected, ds)
      /\ UNCHANGED <<blocks, db, head, refused, scenario, verifying, verified>>
  BY <1>1, Zenon DEF Installs, Rests, Tree
<1>4. /\ atGap(h) /\ updating.elected = cand(h)
      /\ \A b \in Ids : h \in Ancestors(b) => b = h
  BY <1>3, Zenon DEF OwnBranch, ElectsHead, UpdateM1Install
<1>5. Puts(recents, recents', h, cand(h)) /\ Puts(disk, disk', h, ds)
  BY <1>3, <1>4, Zenon DEF Stores
<1>6. Believes(h, ds)
  BY <1>3, QuietLookup, Zenon
<1>7. ds \in {Genesis, cand(h)}
  <2>1. ds = Current(h)
    BY <1>2, <1>3, <1>4, <1>6, SMTT(20) DEF GapFacts, Believes
  <2> QED BY <1>4, <2>1, Zenon DEF Current, OwnBranch, OwnValues
<1>8. ASSUME NEW g, g # h
      PROVE  /\ Sealed(g) => Sealed(g)' /\ disk'[g] = disk[g]
             /\ Current(g)' = Current(g)
  BY <1>5, <1>8, Zenon DEF Puts, Sealed, Current
<1>9. ASSUME NEW b \in Ids, b # h, NEW g \in GapAncestors(b) PROVE g # h
  BY <1>2, <1>4, <1>9, SMTT(20) DEF GapFacts
<1>10. ASSUME NEW x \in db, x # h, NEW t, Believes(x, t) PROVE Believes(x, t)'
  <2>1. x \in Ids /\ x \in Passed
    BY <1>1, Zenon DEF Tree, Passed
  <2>2. ASSUME NEW g \in GapAncestors(x) PROVE IF x = g THEN Current(g)' = Current(g) ELSE disk'[g] = disk[g]
    <3>1. g # h
      BY <1>9, <1>10, <2>1, Zenon
    <3>2. x # g => Sealed(g)
      BY <2>1, Zenon DEF OwnBranch, SealedBelow
    <3> QED BY <1>8, <3>1, <3>2, Zenon
  <2> QED BY <1>1, <1>10, <2>1, <2>2, BeliefStays, Zenon
<1>11. ASSUME NEW x \in DOMAIN recents', NEW t, t = recents'[x] PROVE Believes(x, t)'
  <2>1. CASE x = h
    <3>1. Current(h)' = recents'[h]
      BY <1>5, Zenon DEF Puts, Current
    <3>2. GapAncestors(h)' # {} /\ \A g \in GapAncestors(h)' : g = h
      BY <1>2, <1>3, <1>4 DEF Stays, GapFacts
    <3> QED BY <1>11, <2>1, <3>1, <3>2 DEF Believes
  <2>2. CASE x # h
    <3>1. x \in DOMAIN recents /\ t = recents[x]
      BY <1>5, <1>11, <2>2 DEF Puts
    <3>2. x \in db /\ Believes(x, t)
      BY <1>1, <3>1 DEF Store, OwnBranch, CacheBelieves
    <3> QED BY <1>10, <2>2, <3>2
  <2> QED BY <2>1, <2>2, Zenon
<1>12. ASSUME NEW w \in verifying', NEW q, NEW t, q = parent(w.block)', t = w.signers
       PROVE  Believes(q, t)'
  <2>1. PICK c : c = w.block
    OBVIOUS
  <2>2. c \in Ids \ {1} /\ c \notin db /\ w \in verifying
    BY <1>1, <1>3, <2>1 DEF Headers, Tree
  <2>3. q \in db /\ q = parent(c) /\ q \in Ancestors(c)
    <3>1. parent(c) \in db /\ parent(c)' = parent(c) /\ Ancestors(c) = Ancestors(parent(c)) \cup {c}
      BY <1>1, <1>2, <2>2 DEF Tree, Parents, Stays
    <3>2. q = parent(c) /\ q \in Ids
      BY <1>1, <1>12, <2>1, <3>1 DEF Tree
    <3> QED BY <1>1, <3>1, <3>2 DEF Tree, Paths
  <2>4. Believes(q, t)
    BY <1>12, <2>1, <2>2, <2>3 DEF OwnBranch, VerifiersBelieve
  <2>5. q # h
    BY <1>3, <1>4, <2>2, <2>3
  <2> QED BY <1>10, <2>3, <2>4, <2>5
<1>13. ASSUME NEW x \in Passed', NEW g \in GapAncestors(x)', x # g PROVE Sealed(g)'
  <2>1. x \in Passed /\ x \in Ids
    BY <1>1, <1>3, Zenon DEF Passed, Tree, Headers
  <2>2. g \in GapAncestors(x)
    BY <1>2, <2>1, Zenon DEF Stays
  <2>3. Sealed(g)
    BY <1>13, <2>1, <2>2 DEF OwnBranch, SealedBelow
  <2>4. g # h
    BY <1>2, <1>4, <1>13, <2>1, <2>2 DEF GapFacts
  <2> QED BY <1>8, <2>3, <2>4
<1>14. DOMAIN recents' \cup DOMAIN disk' \subseteq Ids
  BY <1>1, <1>3, <1>5, Zenon DEF Store, Tree, Puts
<1>15. /\ \A g \in DOMAIN recents' : atGap(g) => recents'[g] \in {Genesis, cand(g)}
       /\ \A g \in DOMAIN disk' : atGap(g) => disk'[g] \in {Genesis, cand(g)}
  BY <1>5, <1>7, Zenon DEF OwnBranch, OwnValues, Puts
<1>16. ElectsHead(updating)'
  BY Zenon DEF UpdateM1Install, Idle, ElectsHead
<1>17. \A r \in refused' : r.block \in Ids
  BY <1>1, <1>3, Zenon DEF Headers
<1>18. ASSUME NEW r \in refused', NEW c, NEW g \in GapAncestors(c), c = r.block
       PROVE  disk'[g] = Genesis /\ cand(g) # Genesis
  <2>1. /\ r \in refused /\ c \in Passed /\ disk[g] = Genesis /\ cand(g) # Genesis
        /\ c \in Ids \ {1} /\ isCheckpoint(number(c))
    BY <1>1, <1>3, <1>18 DEF OwnBranch, RefusedStale, Passed, Headers
  <2>2. c # g
    <3>1. atGap(g)
      BY <1>2, <1>18, <2>1, Zenon DEF GapFacts
    <3> QED BY <1>1, <2>1, <3>1, BelowCheckpoint
  <2>3. Sealed(g) /\ g # h
    BY <1>2, <1>4, <2>1, <2>2 DEF OwnBranch, SealedBelow, GapFacts
  <2> QED BY <1>8, <2>1, <2>3, Zenon
<1> QED BY <1>1, <1>11, <1>12, <1>13, <1>14, <1>15, <1>16, <1>17, <1>18, OwnBranchAfter, Zenon
-----------------------------------------------------------------------------
(* CalmChain is kept by calm behaviours. *)

\* There is one gap block.
LEMMA OneGapBlock ==
    ASSUME Base, CalmChain, NEW g \in Ids, NEW h \in Ids, atGap(g), atGap(h)
    PROVE  g = h
<1>1. number(g) = GapNumber /\ number(h) = GapNumber /\ GapNumber <= GapNumber
  <2>1. number(g) = GapNumber /\ number(h) = GapNumber /\ number(g) \in Nat
    BY GapFactsHold, BlockType DEF GapFacts, Base
  <2> QED BY <2>1
<1> QED BY <1>1 DEF CalmChain, OneBelowGap

\* UpdateM1 is done when there is a block on top of the gap block.
LEMMA DoneBelow ==
    ASSUME Base, CalmChain, NEW b \in Ids, NEW g \in GapAncestors(b), b # g
    PROVE  ~InUpdate
<1>1. g \in Ids /\ atGap(g) /\ g \in Ancestors(b)
  BY GapFactsHold DEF GapFacts, Base
<1>2. SUFFICES ASSUME InUpdate PROVE FALSE
  OBVIOUS
<1>3. atGap(head) /\ \A c \in Ids : head \in Ancestors(c) => c = head
  BY <1>2, Zenon DEF InUpdate, CalmChain, ElectsHead
<1>4. g = head
  BY <1>1, <1>3, OneGapBlock DEF Base, Tree
<1> QED BY <1>1, <1>3, <1>4, Zenon

\* A lookup gives the election.
LEMMA CalmLookup ==
    ASSUME Base, CalmChain, ~InUpdate, NEW p \in db, NEW g \in GapAncestors(p)
    PROVE  signersAt(p) = cand(g)
<1>1. PICK x : x = closest(p)
  OBVIOUS
<1>2. Tree /\ Store /\ p \in Ids
  BY DEF Base, Tree
<1>3. IsClosest(p, x)
  BY <1>1, <1>2, ClosestExists, Zenon
<1>4. GapFacts(p) /\ x \in Ancestors(p) /\ x \in Ids
  BY <1>2, <1>3, GapFactsHold, Zenon DEF IsClosest, GapFacts
<1>5. GapFacts(x) /\ number(x) \in Nat
  BY <1>2, <1>4, GapFactsHold, BlockType
<1>6. signersAt(p) = IF x \in DOMAIN recents THEN recents[x] ELSE disk[x]
  BY <1>1 DEF signersAt, found
<1>7. x \in DOMAIN recents \/ (x \in DOMAIN disk /\ (atGap(x) \/ x = 1))
  BY <1>3 DEF IsClosest, Known, atGap
<1>8. g \in Ancestors(p) /\ atGap(g) /\ g \in db /\ g \in Ids /\ number(g) \in Nat
  BY <1>2, <1>4, BlockType DEF GapFacts
<1>9. Holds(g)
  BY <1>8 DEF CalmChain, ElectionHeld
<1>10. Known(g)
  BY <1>8, <1>9 DEF Known, Holds, atGap
<1>11. number(g) <= number(x)
  BY <1>3, <1>8, <1>10 DEF IsClosest
<1>12. g \in GapAncestors(x)
  BY <1>4, <1>11 DEF GapFacts
<1>13. CASE x = g
  BY <1>6, <1>9, <1>13 DEF Holds
<1>14. CASE x # g
  <2>1. ~atGap(x) /\ number(g) < number(x)
    BY <1>5, <1>12, <1>14 DEF GapFacts
  <2>2. x # 1
    BY <1>2, <1>5, <1>8, <2>1 DEF Tree
  <2>3. x \in DOMAIN recents
    BY <1>7, <2>1, <2>2
  <2> QED BY <1>6, <1>12, <1>14, <2>3 DEF CalmChain, ElectionCached
<1> QED BY <1>13, <1>14

\* Steps that change the snapshots of blocks below the gap block only.
LEMMA CalmRests ==
    ASSUME Base, Base', CalmChain, TreeStep, disk' = disk, refused' = refused,
           \A x \in DOMAIN recents' : \/ x \in DOMAIN recents /\ recents'[x] = recents[x]
                                      \/ GapAncestors(x) = {},
           \A g \in DOMAIN recents : atGap(g) => g \in DOMAIN recents' /\ recents'[g] = recents[g],
           DOMAIN recents' \subseteq Ids,
           OneBelowGap', OnHeadsPath', ElectsHead(updating)', ElectsHead(mining)',
           ~InUpdate' => ~InUpdate /\ \A g \in db' : atGap(g)' => g \in db,
           \A b \in db' \cup verified' : b \in db \cup verified \/ \A g \in GapAncestors(b)' : b = g,
           \A v \in verifying' : v \in verifying
               \/ \E b, p, ss : /\ b = v.block /\ ss = v.signers /\ p = parent(b)'
                                /\ p \in Ids /\ \A g \in GapAncestors(p) : ss = cand(g)
    PROVE  CalmChain'
<1>1. Kept /\ Tree /\ Store /\ Headers
  BY TreeKept DEF Base
<1>2. \A x \in Ids : Stays(x) /\ GapFacts(x)
  BY <1>1, KeptBlocks, GapFactsHold, Zenon
<1>3. ElectionHeld'
  <2> SUFFICES ASSUME ~InUpdate', NEW g \in db', atGap(g)' PROVE Holds(g)'
    BY DEF ElectionHeld
  <2>1. g \in db /\ g \in Ids /\ ~InUpdate
    BY <1>1, Zenon DEF Tree
  <2>2. atGap(g) /\ cand(g)' = cand(g) /\ g \in GapAncestors(g)
    BY <1>2, <2>1, Zenon DEF Stays, GapFacts
  <2>3. Holds(g)
    BY <2>1, <2>2, Zenon DEF CalmChain, ElectionHeld
  <2> QED BY <2>2, <2>3, Zenon DEF Holds
<1>4. ElectionStored'
  <2> SUFFICES ASSUME NEW b \in db' \cup verified', NEW g \in GapAncestors(b)', b # g PROVE Stored(g)'
    BY Zenon DEF ElectionStored
  <2>1. b \in db \cup verified /\ b \in Ids
    BY <1>1, Zenon DEF Headers, Tree
  <2>2. g \in GapAncestors(b) /\ g \in Ids /\ cand(g)' = cand(g)
    BY <1>2, <2>1, GapBlockKept, Zenon
  <2> QED BY <2>1, <2>2, Zenon DEF CalmChain, ElectionStored, Stored
<1>5. ElectionCached'
  <2> SUFFICES ASSUME NEW b \in DOMAIN recents', NEW g \in GapAncestors(b)', b # g
               PROVE  recents'[b] = cand(g)'
    BY Zenon DEF ElectionCached
  <2>1. b \in Ids /\ g \in GapAncestors(b) /\ g \in Ids /\ cand(g)' = cand(g)
    BY <1>2, GapBlockKept, Zenon
  <2>2. b \in DOMAIN recents /\ recents'[b] = recents[b]
    BY <2>1, Zenon
  <2> QED BY <2>1, <2>2, Zenon DEF CalmChain, ElectionCached
<1>6. ElectionLookedUp'
  <2>1. ASSUME NEW v \in verifying', NEW p, p = parent(v.block)', NEW g \in GapAncestors(p)'
        PROVE  v.signers = cand(g)'
    <3>1. CASE v \in verifying
      <4>1. PICK b : b = v.block
        BY Zenon
      <4>2. b \in Ids \ {1}
        BY <1>1, <3>1, <4>1, Zenon DEF Headers, Tree
      <4>3. p = parent(b) /\ p \in Ids
        BY <1>1, <1>2, <2>1, <4>1, <4>2, SMTT(20) DEF Tree, Parents, Stays
      <4>4. g \in GapAncestors(p) /\ cand(g)' = cand(g)
        BY <1>2, <4>3, GapBlockKept, Zenon
      <4> QED BY <3>1, <4>1, <4>3, <4>4, Zenon DEF CalmChain, ElectionLookedUp
    <3>2. CASE v \notin verifying
      <4>1. PICK b, q, ss : /\ b = v.block /\ ss = v.signers /\ q = parent(b)'
                            /\ q \in Ids /\ \A x \in GapAncestors(q) : ss = cand(x)
        BY <3>2, Zenon
      <4>2. q = p
        BY <2>1, <4>1, Zenon
      <4>3. g \in GapAncestors(p) /\ cand(g)' = cand(g)
        BY <1>2, <4>1, <4>2, GapBlockKept, Zenon
      <4> QED BY <4>1, <4>2, <4>3, Zenon
    <3> QED BY <3>1, <3>2, Zenon
  <2> QED BY <2>1, Zenon DEF ElectionLookedUp, GapAncestors, Ancestors, isGapBlock, number, Gap, parent
<1>7. refused' = {}
  BY Zenon DEF CalmChain
<1> QED BY <1>3, <1>4, <1>5, <1>6, <1>7, Zenon DEF CalmChain

\* A new block leaves one block of each number up to the gap block.
LEMMA OneBelowGapGrows ==
    ASSUME Base, CalmChain, Calm, NEW p, NEW n, Grown(p, n), mayArrive(p)
    PROVE  OneBelowGap'
<1>1. Tree /\ Kept /\ p \in Ids /\ n \notin Ids /\ Ids' = Ids \cup {n} /\ number(n)' = number(p) + 1
      /\ GapNumber' = GapNumber
  BY KeptScenario, Zenon DEF Base, Grown, Tree
<1>2. \A x \in Ids : number(x)' = number(x) /\ number(x) \in Nat
  BY <1>1, KeptBlocks, BlockType, Zenon DEF Stays
<1>3. GapNumber \in Nat
  <2>1. number(p) \in 0 .. Epoch
    BY <1>1, BlockType, Zenon
  <2>2. GapNumber \in 1 .. Epoch - 1 /\ Epoch \in Nat
    BY <1>1, <2>1, Numbers, Zenon DEF Tree
  <2> QED BY <2>2
<1>4. number(n)' <= GapNumber => \A x \in Ids : number(x) # number(n)'
  <2>1. "fork" \notin faults
    BY DEF Calm
  <2>2. number(p) >= GapNumber \/ \A x \in Ids : number(x) # number(p) + 1
    BY <2>1 DEF mayArrive, GapNumber
  <2> QED BY <1>1, <1>2, <1>3, <2>2
<1>5. \A b, c \in Ids : number(b) <= GapNumber /\ number(c) = number(b) => b = c
  BY Zenon DEF CalmChain, OneBelowGap
<1>6. \A b, c \in Ids' : number(b)' <= GapNumber /\ number(c)' = number(b)' => b = c
  BY <1>1, <1>2, <1>4, <1>5
<1> QED BY <1>1, <1>6, Zenon DEF OneBelowGap

\* Nor does a step that leaves the tree alone.
LEMMA OneBelowGapRests ==
    ASSUME CalmChain, UNCHANGED <<blocks, scenario>>
    PROVE  OneBelowGap'
BY Zenon DEF CalmChain, OneBelowGap, Ids, number, GapNumber, Gap

\* A lookup for a new header on top of the gap block returns the election.
LEMMA CalmLoad ==
    ASSUME Base, Base', TreeStep, Calm, CalmChain, NEW p, NEW n, Loads(p, n)
    PROVE  CalmChain'
<1>1. Tree /\ Store /\ Kept /\ Grown(p, n) /\ mayArrive(p) /\ p \in db /\ p \in Ids
  BY TreeKept, Zenon DEF Base, Loads, Grown, Tree
<1>2. UNCHANGED <<db, head, recents, disk, verified, refused, updating, mining, restarts, scenario>>
  BY Zenon DEF Loads
<1>3. PICK v : /\ v = [block |-> n, signers |-> signersAt(p), fresh |-> p \notin DOMAIN recents]
               /\ verifying' = verifying \cup {v}
  BY DEF Loads
<1>4. \A x \in Ids : Stays(x) /\ GapFacts(x)
  BY <1>1, KeptBlocks, GapFactsHold, Zenon
<1>5. ASSUME NEW g \in GapAncestors(p) PROVE signersAt(p) = cand(g)
  <2>1. ~InUpdate
    <3>1. CASE p = g
      <4>1. atGap(p) /\ "race" \notin faults
        BY <1>1, <1>4, <3>1, Zenon DEF GapFacts, Calm
      <4> QED BY <1>1, <4>1, Zenon DEF mayArrive, atGap
    <3>2. CASE p # g
      BY <1>1, <3>2, DoneBelow, Zenon
    <3> QED BY <3>1, <3>2, Zenon
  <2> QED BY <1>1, <2>1, CalmLookup, Zenon
<1>6. ASSUME NEW w \in verifying', w \notin verifying
      PROVE  \E b, q, ss : /\ b = w.block /\ ss = w.signers /\ q = parent(b)'
                           /\ q \in Ids /\ \A g \in GapAncestors(q) : ss = cand(g)
  <2>1. w = v
    BY <1>3, <1>6, Zenon
  <2>2. w.block = n /\ w.signers = signersAt(p)
    BY <1>3, <2>1, Zenon
  <2>3. parent(n)' = p
    BY <1>1, Zenon DEF Grown
  <2>4. PICK ss : ss = signersAt(p)
    BY Zenon
  <2> QED BY <1>1, <1>5, <2>2, <2>3, <2>4, Zenon
<1>7. ElectsHead(updating)' /\ ElectsHead(mining)'
  <2>1. PICK u, m : u = updating /\ m = mining
    BY Zenon
  <2>2. /\ ElectsHead(u) /\ (u.stage # "idle" => InUpdate)
        /\ ElectsHead(m) /\ (m.stage # "idle" => InUpdate)
        /\ "race" \notin faults /\ head' = head
    BY <1>2, <2>1, Zenon DEF CalmChain, InUpdate, Calm
  <2>3. ElectsHead(u)' /\ ElectsHead(m)'
    BY <1>1, <2>2, ElectsHeadGrows, Zenon
  <2> QED BY <1>2, <2>1, <2>3, Zenon DEF ElectsHead
<1>8. OneBelowGap'
  BY <1>1, OneBelowGapGrows, Zenon
<1>9. OnHeadsPath'
  <2> SUFFICES ASSUME NEW b \in db', number(b)' <= GapNumber' PROVE b \in Ancestors(head)'
    BY DEF OnHeadsPath
  <2>1. PICK h : h = head
    BY Zenon
  <2>2. b \in db /\ b \in Ids /\ h \in Ids /\ GapNumber' = GapNumber
    BY <1>1, <1>2, <2>1, KeptScenario, Zenon DEF Tree
  <2>3. number(b)' = number(b) /\ Ancestors(h)' = Ancestors(h)
    BY <1>4, <2>2, Zenon DEF Stays
  <2>4. b \in Ancestors(h)
    BY <2>1, <2>2, <2>3, Zenon DEF CalmChain, OnHeadsPath
  <2> QED BY <1>2, <2>1, <2>3, <2>4, Zenon DEF Ancestors
<1>10. ~InUpdate' => ~InUpdate /\ \A g \in db' : atGap(g)' => g \in db
  BY <1>2, Zenon DEF InUpdate
<1>11. /\ DOMAIN recents' \subseteq Ids
       /\ \A b \in db' \cup verified' : b \in db \cup verified
  BY <1>1, <1>2, Zenon DEF Store, Tree
<1> QED BY <1>2, <1>6, <1>7, <1>8, <1>9, <1>10, <1>11, CalmRests, Zenon

\* Where the head is when a block up to the gap block is missing.
LEMMA NextBlockOnHead ==
    ASSUME Base, CalmChain, NEW p \in db, number(p) + 1 <= GapNumber,
           \A x \in Ancestors(head) : number(x) # number(p) + 1
    PROVE  head = p
<1>1. Tree /\ head \in Ids /\ p \in Ids
  BY Zenon DEF Base, Tree
<1>2. number(head) \in Nat /\ number(p) \in Nat
  BY <1>1, BlockType, Zenon
<1>3. GapNumber \in Nat
  <2>1. number(p) \in 0 .. Epoch
    BY <1>1, BlockType, Zenon
  <2>2. GapNumber \in 1 .. Epoch - 1 /\ Epoch \in Nat
    BY <1>1, <2>1, Numbers, Zenon DEF Tree
  <2> QED BY <2>2
<1>4. p \in Ancestors(head)
  <2>1. number(p) <= GapNumber
    BY <1>2, <1>3
  <2> QED BY <2>1, Zenon DEF CalmChain, OnHeadsPath
<1>5. number(p) <= number(head)
  BY <1>1, <1>4, Zenon DEF Tree, Paths
<1>6. ~(number(p) + 1 <= number(head))
  <2>1. \A k \in 0 .. number(head) : \E x \in Ancestors(head) : number(x) = k
    BY <1>1, Zenon DEF Tree, Paths
  <2> QED BY <1>2, <2>1
<1>7. number(head) = number(p)
  BY <1>2, <1>5, <1>6, SMTT(20)
<1> QED BY <1>1, <1>4, <1>7, Zenon DEF Tree, Paths

\* Inserting a block keeps CalmChain: up to the gap number it extends the
\* head, so a gap block becomes the head and is elected.
LEMMA CalmWrite ==
    ASSUME Base, Base', TreeStep, Calm, CalmChain, NEW b \in Ids \ db, b # 1, WriteBlock(b)
    PROVE  CalmChain'
<1>1. Tree /\ Store /\ Headers /\ Kept /\ head \in Ids /\ head \in db
  BY TreeKept, Zenon DEF Base, Tree
<1>2. /\ UNCHANGED <<blocks, recents, disk, verifying, refused, mining, restarts, scenario>>
      /\ verified' = verified \ {b} /\ db' = db \cup {b} /\ b \in verified /\ updating.stage = "idle"
  BY Zenon DEF WriteBlock
<1>3. \A x \in Ids : Stays(x) /\ GapFacts(x) /\ number(x) \in Nat /\ td(x) \in Nat
  BY <1>1, KeptBlocks, GapFactsHold, BlockType, Zenon
<1>4. Ids' = Ids /\ GapNumber' = GapNumber /\ GapNumber \in Nat
  <2>1. number(b) \in 0 .. Epoch
    BY <1>1, BlockType, Zenon
  <2>2. GapNumber \in 1 .. Epoch - 1 /\ Epoch \in Nat
    BY <1>1, <2>1, Numbers, Zenon DEF Tree
  <2> QED BY <1>1, <1>2, <2>2, KeptScenario DEF Ids
<1>5. \A x \in Ancestors(head) : x \in db /\ x \in Ids /\ number(x) <= number(head)
  BY <1>1, Zenon DEF Tree, Paths
<1>6. PICK p : p = parent(b) /\ p \in db /\ number(b) = number(p) + 1 /\ td(p) < td(b)
               /\ Ancestors(b) = Ancestors(p) \cup {b}
  BY <1>1, Zenon DEF Tree, Parents
<1>7. ASSUME number(b) <= GapNumber PROVE head = p /\ canonical(b)
  <2>1. \A x \in Ancestors(head) : number(x) # number(b)
    BY <1>5, <1>7, Zenon DEF CalmChain, OneBelowGap
  <2>2. head = p
    BY <1>6, <1>7, <2>1, NextBlockOnHead, Zenon
  <2> QED BY <1>1, <1>3, <1>6, <2>2, Zenon DEF canonical, td
<1>8. mining.stage = "idle"
  <2> SUFFICES ASSUME mining.stage # "idle" PROVE FALSE
    BY Zenon
  <2>1. atGap(head) /\ \A c \in Ids : head \in Ancestors(c) => c = head
    BY Zenon DEF CalmChain, ElectsHead
  <2>2. number(head) = GapNumber
    BY <1>1, <1>3, <2>1, Zenon DEF GapFacts
  <2>3. CASE number(b) <= GapNumber
    <3>1. head = p
      BY <1>7, <2>3, Zenon
    <3>2. p \in Ancestors(b)
      BY <1>1, <1>6, <3>1, Zenon DEF Tree, Paths
    <3> QED BY <1>1, <2>1, <3>1, <3>2, Zenon
  <2>4. CASE GapNumber <= number(b)
    <3>1. PICK g \in GapAncestors(b) : g \in Ids /\ atGap(g) /\ g \in Ancestors(b)
      BY <1>3, <2>4 DEF GapFacts
    <3>2. g = head
      BY <1>1, <2>1, <3>1, OneGapBlock, Zenon
    <3> QED BY <1>1, <2>1, <3>1, <3>2, Zenon
  <2> QED BY <1>3, <1>4, <2>3, <2>4
<1>9. head' = IF canonical(b) THEN b ELSE head
  BY Zenon DEF WriteBlock
<1>10. OnHeadsPath'
  <2> SUFFICES ASSUME NEW c \in db', number(c)' <= GapNumber' PROVE c \in Ancestors(head)'
    BY Zenon DEF OnHeadsPath
  <2>1. PICK h : h = head'
    BY Zenon
  <2>2. c \in Ids /\ number(c) <= GapNumber /\ h \in Ids /\ Ancestors(h)' = Ancestors(h)
    BY <1>1, <1>2, <1>3, <1>4, <1>9, <2>1, Zenon DEF Tree, Stays
  <2>3. c \in Ancestors(h)
    <3>1. CASE h = b
      <4>1. CASE number(c) <= number(b)
        <5>1. number(c) \in 0 .. number(b)
          BY <1>3, <2>2, <4>1
        <5>2. PICK x \in Ancestors(b) : number(x) = number(c)
          BY <1>1, <5>1, Zenon DEF Tree, Paths
        <5>3. x \in Ids
          BY <1>1, <5>2, Zenon DEF Tree, Paths
        <5> QED BY <2>2, <3>1, <5>2, <5>3, Zenon DEF CalmChain, OneBelowGap
      <4>2. CASE number(b) < number(c)
        <5>1. head = p /\ number(head) < number(b)
          BY <1>3, <1>1, <1>4, <1>6, <1>7, <2>2, <4>2
        <5>2. c \in db
          BY <1>2, <1>3, <2>2, <4>2
        <5>3. c \in Ancestors(head)
          BY <2>2, <5>2, Zenon DEF CalmChain, OnHeadsPath
        <5> QED BY <1>1, <1>3, <1>5, <2>2, <4>2, <5>1, <5>3
      <4> QED BY <1>3, <2>2, <4>1, <4>2
    <3>2. CASE h # b
      <4>1. h = head /\ ~canonical(b)
        BY <1>9, <2>1, <3>2, Zenon
      <4>2. c # b
        BY <1>7, <2>2, <4>1, Zenon
      <4> QED BY <1>2, <2>2, <4>1, <4>2, Zenon DEF CalmChain, OnHeadsPath
    <3> QED BY <3>1, <3>2, Zenon
  <2> QED BY <2>1, <2>2, <2>3, Zenon DEF Ancestors
<1>11. ElectsHead(updating)'
  <2>1. CASE canonical(b) /\ isGapBlock(number(b))
    <3>1. head' = b /\ updating' = [updating EXCEPT !.stage = "elect"]
      BY <2>1 DEF WriteBlock
    <3>2. updating'.stage = "elect"
      BY <3>1, Zenon DEF Base, Writers, Writer
    <3>3. \A c \in Ids : b \in Ancestors(c) => c = b
      BY NothingOnTop, Zenon
    <3>4. (\A c \in Ids : Ancestors(c)' = Ancestors(c)) /\ isGapBlock(number(b))'
      BY <1>2, <2>1, Zenon DEF Ancestors, isGapBlock, number, Gap
    <3> QED BY <1>4, <3>1, <3>2, <3>3, <3>4, Zenon DEF ElectsHead, atGap, isGapBlock, number
  <2>2. CASE ~(canonical(b) /\ isGapBlock(number(b)))
    <3>1. updating'.stage = "idle"
      BY <2>2, Zenon DEF WriteBlock
    <3> QED BY <3>1, Zenon DEF ElectsHead
  <2> QED BY <2>1, <2>2, Zenon
<1>12. ElectsHead(mining)'
  BY <1>2, <1>8, Zenon DEF ElectsHead
<1>13. ~InUpdate' => ~InUpdate /\ \A g \in db' : atGap(g)' => g \in db
  <2>1. ~InUpdate
    BY <1>2, <1>8, Zenon DEF InUpdate
  <2>2. ASSUME atGap(b)' PROVE InUpdate'
    <3>1. isGapBlock(number(b)) /\ number(b) <= GapNumber
      BY <1>3, <1>4, <2>2 DEF Stays, GapFacts, atGap
    <3>2. updating' = [updating EXCEPT !.stage = "elect"]
      BY <1>7, <3>1, Zenon DEF WriteBlock
    <3>3. updating'.stage = "elect"
      BY <3>2, Zenon DEF Base, Writers, Writer
    <3> QED BY <3>3, Zenon DEF InUpdate
  <2> QED BY <1>2, <2>1, <2>2, Zenon
<1>14. /\ DOMAIN recents' \subseteq Ids
       /\ \A c \in db' \cup verified' : c \in db \cup verified
  BY <1>1, <1>2, Zenon DEF Store, Tree
<1>15. OneBelowGap'
  BY <1>2, OneBelowGapRests, Zenon
<1> QED BY <1>2, <1>10, <1>11, <1>12, <1>13, <1>14, <1>15, CalmRests, Zenon

\* The miner's own gap block extends the head too, and is elected.
LEMMA CalmMine ==
    ASSUME Base, Base', TreeStep, Calm, CalmChain, NEW p, NEW n, Mines(p, n)
    PROVE  CalmChain'
<1>1. Tree /\ Store /\ Kept /\ Grown(p, n) /\ mayArrive(p) /\ p \in db /\ p \in Ids /\ head \in Ids
  BY TreeKept, Zenon DEF Base, Mines, Grown, Tree
<1>2. /\ UNCHANGED <<verifying, verified, refused, updating, restarts, scenario>>
      /\ db' = db \cup {n} /\ head' \in {head, n} /\ mining' = [mining EXCEPT !.stage = "elect"]
      /\ Stores(p, signersAt(p), signersAt(p))
  BY Zenon DEF Mines
<1>3. /\ n \notin Ids /\ Ids' = Ids \cup {n} /\ number(n)' = number(p) + 1
      /\ Ancestors(n)' = Ancestors(p) \cup {n} /\ td(p) < td(n)' /\ GapNumber' = GapNumber
  BY <1>1, KeptScenario, Zenon DEF Grown
<1>4. \A x \in Ids : Stays(x) /\ GapFacts(x) /\ number(x) \in Nat /\ td(x) \in Nat
  BY <1>1, KeptBlocks, GapFactsHold, BlockType, Zenon
<1>5. number(p) + 1 = GapNumber /\ GapNumber \in Nat
  <2>1. number(p) \in 0 .. Epoch
    BY <1>1, BlockType, Zenon
  <2>2. GapNumber \in 1 .. Epoch - 1 /\ Epoch \in Nat /\ number(p) # Epoch
    BY <1>1, <2>1, Numbers, Zenon DEF Tree, Grown
  <2>3. number(p) + 1 \in 0 .. Epoch
    BY <2>1, <2>2
  <2> QED BY <1>1, <2>2, <2>3, Numbers DEF Tree, Mines
<1>6. \A x \in Ids : number(x) # number(p) + 1
  <2>1. "fork" \notin faults
    BY Zenon DEF Calm
  <2>2. number(p) >= GapNumber \/ \A x \in Ids : number(x) # number(p) + 1
    BY <1>1, <2>1, Zenon DEF mayArrive, GapNumber
  <2> QED BY <1>1, <1>4, <1>5, <2>2
<1>7. head = p
  <2>1. \A x \in Ancestors(head) : number(x) # number(p) + 1
    BY <1>1, <1>6, Zenon DEF Tree, Paths
  <2>2. number(p) + 1 <= GapNumber
    BY <1>5
  <2> QED BY <1>1, <2>1, <2>2, NextBlockOnHead, Zenon
<1>8. head' = n
  <2>1. blocks'[n] \in BlockRec
    BY <1>1, <1>3 DEF Grown, Ids
  <2>2. td(n)' \in Nat
    BY <2>1, Zenon DEF td, BlockRec
  <2> QED BY <1>1, <1>3, <1>4, <1>7, <2>2, Zenon DEF Mines
<1>9. updating.stage = "idle"
  <2>1. ~atGap(head)
    BY <1>1, <1>4, <1>5, <1>6, Zenon DEF GapFacts
  <2> QED BY <2>1, Zenon DEF CalmChain, ElectsHead
<1>10. OneBelowGap'
  BY <1>1, OneBelowGapGrows, Zenon
<1>11. OnHeadsPath'
  <2> SUFFICES ASSUME NEW c \in db', number(c)' <= GapNumber' PROVE c \in Ancestors(head)'
    BY DEF OnHeadsPath
  <2>1. c \in Ancestors(n)'
    <3>1. CASE c = n
      BY <1>3, <3>1, Zenon
    <3>2. CASE c # n
      <4>1. c \in db /\ c \in Ids /\ number(c) <= GapNumber
        BY <1>1, <1>2, <1>3, <1>4, <3>2, Zenon DEF Tree, Stays
      <4>2. c \in Ancestors(p)
        BY <1>7, <4>1, Zenon DEF CalmChain, OnHeadsPath
      <4> QED BY <1>3, <4>2, Zenon
    <3> QED BY <3>1, <3>2, Zenon
  <2> QED BY <1>8, <2>1, Zenon DEF Ancestors
<1>12. ElectsHead(updating)'
  BY <1>2, <1>9, Zenon DEF ElectsHead
<1>13. mining'.stage = "elect"
  BY <1>2, Zenon DEF Base, Writers, Writer
<1>14. ElectsHead(mining)'
  <2>1. isGapBlock(number(p) + 1)
    BY Zenon DEF Mines
  <2>2. atGap(n)'
    BY <1>1, <1>2, <1>3, <2>1, Zenon DEF atGap, isGapBlock, Gap, Kept
  <2>3. \A b \in Ids : n \notin Ancestors(b)'
    BY <1>1, <1>3, <1>4 DEF Tree, Paths, Stays
  <2>4. \A b \in Ids' : n \in Ancestors(b)' => b = n
    BY <1>3, <2>3
  <2> QED BY <1>8, <1>13, <2>2, <2>4, Zenon DEF ElectsHead, atGap, isGapBlock, number, Ancestors
<1>15. InUpdate'
  BY <1>13 DEF InUpdate
<1>16. GapAncestors(p) = {} /\ ~atGap(p)
  BY <1>1, <1>4, <1>5 DEF GapFacts
<1>17. disk' = disk /\ Puts(recents, recents', p, signersAt(p))
  BY <1>2, <1>16 DEF Stores
<1>18. /\ \A x \in DOMAIN recents' : (x \in DOMAIN recents /\ recents'[x] = recents[x]) \/ GapAncestors(x) = {}
       /\ \A g \in DOMAIN recents : atGap(g) => g \in DOMAIN recents' /\ recents'[g] = recents[g]
       /\ DOMAIN recents' \subseteq Ids
  BY <1>1, <1>16, <1>17, Zenon DEF Puts, Store, Tree
<1>19. \A b \in db' \cup verified' : b \in db \cup verified \/ \A g \in GapAncestors(b)' : b = g
  <2>1. GapAncestors(n)' \subseteq GapAncestors(p)' \cup {n}
    <3>1. \A x \in Ancestors(n)' : x = n \/ x \in Ancestors(p)'
      BY <1>1, <1>3, <1>4, Zenon DEF Stays
    <3> QED BY <3>1, Zenon DEF GapAncestors
  <2>2. GapAncestors(p)' = {}
    BY <1>1, <1>4, <1>16, Zenon DEF Stays
  <2> QED BY <1>2, <2>1, <2>2, Zenon
<1> QED BY <1>2, <1>10, <1>11, <1>12, <1>14, <1>15, <1>17, <1>18, <1>19, CalmRests, Zenon

\* Reading the candidates keeps CalmChain: they are those of the head, the gap
\* block.
LEMMA CalmElect ==
    ASSUME Base, Base', TreeStep, CalmChain, UpdateM1Elect \/ MinerElect
    PROVE  CalmChain'
<1>1. UNCHANGED <<blocks, db, head, recents, disk, verifying, verified, refused, restarts, scenario>>
  BY Zenon DEF UpdateM1Elect, MinerElect
<1>2. ElectsHead(updating)' /\ ElectsHead(mining)'
  <2>1. PICK u, u2, m, m2 : u = updating /\ u2 = updating' /\ m = mining /\ m2 = mining'
    BY Zenon
  <2>2. ElectsHead(u) /\ ElectsHead(m)
    BY <2>1, Zenon DEF CalmChain
  <2>3. (u2 = u \/ (u.stage # "idle" /\ u2 = elect(u))) /\ (m2 = m \/ (m.stage # "idle" /\ m2 = elect(m)))
    BY <2>1, Zenon DEF UpdateM1Elect, MinerElect, elect
  <2>4. ASSUME NEW w, ElectsHead(w) PROVE ElectsHead(w)'
    BY <1>1, <2>4, Zenon DEF ElectsHead, atGap, isGapBlock, number, Gap, Ids, cand, Ancestors
  <2>5. ElectsHead(u2)' /\ ElectsHead(m2)'
    BY <1>1, <2>2, <2>3, <2>4, ElectsOnHead, Zenon
  <2> QED BY <2>1, <2>5, Zenon DEF ElectsHead
<1>3. InUpdate'
  BY DEF InUpdate, UpdateM1Elect, MinerElect, elect
<1>4. OneBelowGap' /\ OnHeadsPath'
  BY <1>1, OneBelowGapRests, Zenon DEF CalmChain, OnHeadsPath, number, GapNumber, Gap, Ancestors
<1>5. DOMAIN recents' \subseteq Ids
  BY <1>1, Zenon DEF Base, Store, Tree
<1> QED BY <1>1, <1>2, <1>3, <1>4, <1>5, CalmRests, Zenon

\* Verifying a header keeps CalmChain: on top of the gap block it uses the
\* election, so it stores it and refuses no correct checkpoint.
LEMMA CalmVerify ==
    ASSUME Base, Base', TreeStep, CalmChain, NEW v \in verifying, NEW b, NEW p, NEW ss, Checks(v, b, p, ss)
    PROVE  CalmChain'
<1>1. Kept /\ Tree /\ Store /\ Headers
  BY TreeKept, Zenon DEF Base
<1>2. \A x \in Ids : Stays(x) /\ GapFacts(x)
  BY <1>1, KeptBlocks, GapFactsHold, Zenon
<1>3. /\ b = v.block /\ b \in Ids \ {1} /\ b \notin db /\ p = parent(b) /\ p \in db /\ p \in Ids
      /\ Stores(p, ss, ss) /\ verifying' = verifying \ {v}
      /\ UNCHANGED <<blocks, db, head, updating, mining, restarts, scenario>>
  BY <1>1, Zenon DEF Checks, Tree
<1>4. Ancestors(b) = Ancestors(p) \cup {b} /\ b # p
  BY <1>1, <1>3, Zenon DEF Tree, Parents
<1>5. \A g \in GapAncestors(p) : g \in GapAncestors(b) /\ g # b
  BY <1>1, <1>2, <1>3, <1>4, SMTT(20) DEF GapAncestors, GapFacts, Tree, Paths
<1>6. \A g \in GapAncestors(p) : ss = cand(g)
  <2> TAKE g \in GapAncestors(p)
  <2>1. CASE ss = v.signers
    BY <1>3, <2>1, Zenon DEF CalmChain, ElectionLookedUp
  <2>2. CASE p \in DOMAIN recents /\ ss = recents[p]
    <3>1. CASE p # g
      BY <2>2, <3>1, Zenon DEF CalmChain, ElectionCached
    <3>2. CASE p = g
      <4>1. ~InUpdate
        BY <1>3, <1>5, DoneBelow, Zenon
      <4>2. atGap(p)
        BY <1>2, <1>3, <3>2, Zenon DEF GapFacts
      <4> QED BY <1>3, <2>2, <3>2, <4>1, <4>2, Zenon DEF CalmChain, ElectionHeld, Holds
    <3> QED BY <3>1, <3>2, Zenon
  <2> QED BY <2>1, <2>2, Zenon DEF Checks
<1>7. \A g : g # p => /\ disk'[g] = disk[g] \/ g \notin DOMAIN disk
                      /\ g \in DOMAIN disk' <=> g \in DOMAIN disk
                      /\ g \in DOMAIN recents' <=> g \in DOMAIN recents
                      /\ g \in DOMAIN recents => recents'[g] = recents[g]
  BY <1>3, Zenon DEF Stores, Puts
<1>8. p \in DOMAIN recents' /\ recents'[p] = ss
  BY <1>3, Zenon DEF Stores, Puts
<1>9. atGap(p) => p \in GapAncestors(p) /\ ss = cand(p) /\ p \in DOMAIN disk' /\ disk'[p] = ss
  BY <1>2, <1>3, <1>6 DEF Stores, Puts, GapFacts
<1>10. ASSUME NEW g \in Ids, atGap(g)
       PROVE  (Holds(g) => Holds(g)') /\ (Stored(g) => Stored(g)')
  <2>1. cand(g)' = cand(g)
    BY <1>2 DEF Stays
  <2>2. CASE g = p
    BY <1>8, <1>9, <1>10, <2>1, <2>2, Zenon DEF Holds, Stored
  <2>3. CASE g # p
    BY <1>7, <2>1, <2>3, Zenon DEF Holds, Stored
  <2> QED BY <2>2, <2>3
<1>11. verified' \subseteq verified \cup {b} /\ refused' = {}
  <2>1. refused = {}
    BY Zenon DEF CalmChain
  <2>2. ASSUME isCheckpoint(number(b)) PROVE validCheckpoint(correctHeader(p), p, ss)
    <3>1. number(p) + 1 = Epoch
      BY <1>1, <1>3, <2>2, BelowCheckpoint, Zenon
    <3>2. PICK g \in GapAncestors(p) : startGapBlock(p) = g /\ g \in Ids
      BY <1>1, <1>3, <3>1, StartIsGapBlock, Zenon
    <3>3. ss = cand(g)
      BY <1>6, <3>2, Zenon
    <3> QED BY <1>1, <3>2, <3>3, RefusedHeader, Zenon
  <2> QED BY <2>1, <2>2, Zenon DEF Checks
<1>12. OneBelowGap' /\ OnHeadsPath'
  BY <1>3, OneBelowGapRests, Zenon DEF CalmChain, OnHeadsPath, number, GapNumber, Gap, Ancestors
<1>13. ElectsHead(updating)' /\ ElectsHead(mining)'
  BY <1>3, Zenon DEF CalmChain, ElectsHead, atGap, isGapBlock, number, Gap, Ids, cand, Ancestors
<1>14. ElectionHeld'
  <2> SUFFICES ASSUME ~InUpdate', NEW g \in db', atGap(g)' PROVE Holds(g)'
    BY Zenon DEF ElectionHeld
  <2>1. g \in db /\ g \in Ids /\ ~InUpdate
    BY <1>1, <1>3, Zenon DEF Tree, InUpdate
  <2>2. atGap(g)
    BY <1>2, <2>1, Zenon DEF Stays
  <2> QED BY <1>10, <2>1, <2>2, Zenon DEF CalmChain, ElectionHeld
<1>15. ElectionStored'
  <2> SUFFICES ASSUME NEW x \in db' \cup verified', NEW g \in GapAncestors(x)', x # g PROVE Stored(g)'
    BY Zenon DEF ElectionStored
  <2>1. x \in db \cup verified \cup {b} /\ x \in Ids
    BY <1>1, <1>3, <1>11, Zenon DEF Headers, Tree
  <2>2. g \in GapAncestors(x) /\ g \in Ids /\ atGap(g)
    BY <1>2, <2>1, GapBlockKept, Zenon
  <2>3. CASE x \in db \cup verified
    BY <1>10, <2>2, <2>3 DEF CalmChain, ElectionStored
  <2>4. CASE x = b
    <3>1. g \in GapAncestors(p)
      BY <1>4, <2>2, <2>4, Zenon DEF GapAncestors
    <3>2. CASE g = p
      <4>1. cand(p)' = cand(p)
        BY <1>2, <1>3, Zenon DEF Stays
      <4> QED BY <1>9, <2>2, <3>2, <4>1, Zenon DEF Stored
    <3>3. CASE g # p
      BY <1>3, <1>10, <2>2, <3>1, <3>3, Zenon DEF CalmChain, ElectionStored
    <3> QED BY <3>2, <3>3
  <2> QED BY <2>1, <2>3, <2>4, Zenon
<1>16. ElectionCached'
  <2> SUFFICES ASSUME NEW x \in DOMAIN recents', NEW g \in GapAncestors(x)', x # g
               PROVE  recents'[x] = cand(g)'
    BY Zenon DEF ElectionCached
  <2>1. x \in Ids
    BY <1>1, <1>3, <1>7, Zenon DEF Store, Tree
  <2>2. g \in GapAncestors(x) /\ cand(g)' = cand(g)
    BY <1>2, <2>1, GapBlockKept, Zenon
  <2>3. CASE x = p
    BY <1>6, <1>8, <2>2, <2>3
  <2>4. CASE x # p
    BY <1>7, <2>2, <2>4, Zenon DEF CalmChain, ElectionCached
  <2> QED BY <2>3, <2>4, Zenon
<1>17. ElectionLookedUp'
  <2>1. ASSUME NEW w \in verifying', NEW q, q = parent(w.block)', NEW g \in GapAncestors(q)'
        PROVE  w.signers = cand(g)'
    <3>1. PICK c : c = w.block
      BY Zenon
    <3>2. c \in Ids \ {1} /\ w \in verifying
      BY <1>1, <1>3, <3>1, Zenon DEF Headers, Tree
    <3>3. q = parent(c) /\ q \in Ids
      BY <1>1, <1>2, <2>1, <3>1, <3>2, Zenon DEF Tree, Parents, Stays
    <3>4. g \in GapAncestors(q) /\ cand(g)' = cand(g)
      BY <1>2, <3>3, GapBlockKept, Zenon
    <3> QED BY <3>1, <3>2, <3>3, <3>4, Zenon DEF CalmChain, ElectionLookedUp
  <2> QED BY <2>1, Zenon DEF ElectionLookedUp, GapAncestors, Ancestors, isGapBlock, number, Gap, parent
<1> QED BY <1>11, <1>12, <1>13, <1>14, <1>15, <1>16, <1>17, Zenon DEF CalmChain

\* UpdateMasternodes puts the election of the head, the only gap block, into
\* its snapshot; no block is on top of it yet.
LEMMA CalmInstall ==
    ASSUME Base, Base', TreeStep, CalmChain, NEW h, NEW el, NEW ds, Installs(h, el, ds),
           \/ UpdateM1Install /\ el = updating.elected
           \/ MinerInstall /\ el = mining.elected
    PROVE  CalmChain'
<1>1. Kept /\ Tree /\ Store /\ Headers
  BY TreeKept, Zenon DEF Base
<1>2. \A x \in Ids : Stays(x) /\ GapFacts(x)
  BY <1>1, KeptBlocks, GapFactsHold, Zenon
<1>3. /\ h = head /\ h \in db /\ h \in Ids /\ Stores(h, el, ds)
      /\ UNCHANGED <<blocks, db, head, refused, scenario, verifying, verified>>
  BY <1>1, Zenon DEF Installs, Rests, Tree
<1>4. /\ atGap(h) /\ el = cand(h)
      /\ \A b \in Ids : h \in Ancestors(b) => b = h
  BY <1>3, Zenon DEF CalmChain, ElectsHead, UpdateM1Install, MinerInstall
<1>5. Puts(recents, recents', h, cand(h))
  BY <1>3, <1>4, Zenon DEF Stores
<1>6. ElectsHead(updating)' /\ ElectsHead(mining)'
  <2>1. PICK u, u2, m, m2 : u = updating /\ u2 = updating' /\ m = mining /\ m2 = mining'
    BY Zenon
  <2>2. ElectsHead(u) /\ ElectsHead(m)
    BY <2>1, Zenon DEF CalmChain
  <2>3. (u2 = u \/ u2.stage = "idle") /\ (m2 = m \/ m2.stage = "idle")
    BY <2>1 DEF UpdateM1Install, MinerInstall, Idle
  <2>4. ASSUME NEW w, ElectsHead(w) \/ w.stage = "idle" PROVE ElectsHead(w)'
    BY <1>3, <2>4, Zenon DEF ElectsHead, atGap, isGapBlock, number, Gap, Ids, cand, Ancestors
  <2>5. ElectsHead(u2)' /\ ElectsHead(m2)'
    BY <2>2, <2>3, <2>4, Zenon
  <2> QED BY <2>1, <2>5, Zenon DEF ElectsHead
<1>7. OneBelowGap' /\ OnHeadsPath'
  BY <1>3, OneBelowGapRests, Zenon DEF CalmChain, OnHeadsPath, number, GapNumber, Gap, Ancestors
<1>8. ElectionHeld'
  <2> SUFFICES ASSUME NEW g \in db', atGap(g)' PROVE Holds(g)'
    BY Zenon DEF ElectionHeld
  <2>1. g \in Ids /\ atGap(g) /\ cand(g)' = cand(g)
    BY <1>1, <1>2, <1>3, Zenon DEF Tree, Stays
  <2>2. g = h
    BY <1>3, <1>4, <2>1, OneGapBlock, Zenon
  <2> QED BY <1>5, <2>1, <2>2, Zenon DEF Holds, Puts
<1>9. ElectionStored'
  <2> SUFFICES ASSUME NEW x \in db' \cup verified', NEW g \in GapAncestors(x)', x # g PROVE FALSE
    BY Zenon DEF ElectionStored
  <2>1. x \in Ids
    BY <1>1, <1>3, Zenon DEF Tree, Headers
  <2>2. g \in Ids /\ atGap(g) /\ g \in Ancestors(x)
    BY <1>2, <2>1, GapBlockKept, Zenon
  <2>3. g = h
    BY <1>3, <1>4, <2>2, OneGapBlock, Zenon
  <2> QED BY <1>4, <2>1, <2>2, <2>3, Zenon
<1>10. ElectionCached'
  <2> SUFFICES ASSUME NEW x \in DOMAIN recents', NEW g \in GapAncestors(x)', x # g
               PROVE  recents'[x] = cand(g)'
    BY Zenon DEF ElectionCached
  <2>1. x \in Ids
    BY <1>1, <1>3, <1>5, Zenon DEF Puts, Store, Tree
  <2>2. g \in GapAncestors(x) /\ cand(g)' = cand(g) /\ g \in Ids /\ atGap(g) /\ g \in Ancestors(x)
    BY <1>2, <2>1, GapBlockKept, Zenon
  <2>3. g = h
    BY <1>3, <1>4, <2>2, OneGapBlock, Zenon
  <2>4. x = h
    BY <1>4, <2>1, <2>2, <2>3, Zenon
  <2> QED BY <2>3, <2>4, Zenon
<1>11. ElectionLookedUp'
  BY <1>3, Zenon DEF CalmChain, ElectionLookedUp, GapAncestors, Ancestors, isGapBlock, number, Gap, parent, cand
<1>12. refused' = {}
  BY <1>3 DEF CalmChain
<1> QED BY <1>6, <1>7, <1>8, <1>9, <1>10, <1>11, <1>12, Zenon DEF CalmChain

\* An evicted snapshot of the gap block is on disk: the block is below the
\* head, so a block on top of it has passed.
LEMMA CalmEvict ==
    ASSUME Base, Base', TreeStep, CalmChain, NEW b, Evict(b)
    PROVE  CalmChain'
<1>1. Kept /\ Tree /\ Store /\ Headers
  BY TreeKept, Zenon DEF Base
<1>2. \A x \in Ids : Stays(x) /\ GapFacts(x)
  BY <1>1, KeptBlocks, GapFactsHold, Zenon
<1>3. /\ UNCHANGED <<blocks, db, head, disk, verifying, verified, refused, updating, mining, restarts, scenario>>
      /\ DOMAIN recents' = DOMAIN recents \ {b}
      /\ \A x \in DOMAIN recents' : recents'[x] = recents[x]
      /\ b \in DOMAIN recents /\ b # head /\ head \in db /\ head \in Ids
  BY <1>1, Zenon DEF Evict, Tree
<1>4. OneBelowGap' /\ OnHeadsPath'
  BY <1>3, OneBelowGapRests, Zenon DEF CalmChain, OnHeadsPath, number, GapNumber, Gap, Ancestors
<1>5. ElectsHead(updating)' /\ ElectsHead(mining)'
  BY <1>3, Zenon DEF CalmChain, ElectsHead, atGap, isGapBlock, number, Gap, Ids, cand, Ancestors
<1>6. ElectionHeld'
  <2> SUFFICES ASSUME ~InUpdate', NEW g \in db', atGap(g)' PROVE Holds(g)'
    BY Zenon DEF ElectionHeld
  <2>1. g \in db /\ g \in Ids /\ ~InUpdate
    BY <1>1, <1>3, Zenon DEF Tree, InUpdate
  <2>2. atGap(g) /\ cand(g)' = cand(g)
    BY <1>2, <2>1, Zenon DEF Stays
  <2>3. Holds(g)
    BY <2>1, <2>2, Zenon DEF CalmChain, ElectionHeld
  <2>4. CASE g # b
    BY <1>3, <2>2, <2>3, <2>4, Zenon DEF Holds
  <2>5. CASE g = b
    <3>1. number(g) <= GapNumber
      <4>1. number(g) = GapNumber /\ number(g) \in Nat
        BY <1>1, <1>2, <2>1, <2>2, BlockType, Zenon DEF GapFacts
      <4> QED BY <4>1
    <3>2. g \in Ancestors(head)
      BY <2>1, <3>1, Zenon DEF CalmChain, OnHeadsPath
    <3>3. g \in GapAncestors(head)
      BY <2>2, <3>2, Zenon DEF GapAncestors, atGap
    <3>4. Stored(g)
      BY <1>3, <2>5, <3>3, Zenon DEF CalmChain, ElectionStored
    <3> QED BY <1>3, <2>2, <2>5, <3>4, Zenon DEF Stored, Holds
  <2> QED BY <2>4, <2>5, Zenon
<1>7. ElectionStored'
  BY <1>3, Zenon DEF CalmChain, ElectionStored, Stored, GapAncestors, Ancestors, isGapBlock, number, Gap, cand
<1>8. ElectionCached'
  BY <1>3, Zenon DEF CalmChain, ElectionCached, GapAncestors, Ancestors, isGapBlock, number, Gap, cand
<1>9. ElectionLookedUp'
  BY <1>3 DEF CalmChain, ElectionLookedUp, GapAncestors, Ancestors, isGapBlock, number, Gap, parent, cand
<1>10. refused' = {}
  BY <1>3, Zenon DEF CalmChain
<1> QED BY <1>4, <1>5, <1>6, <1>7, <1>8, <1>9, <1>10, Zenon DEF CalmChain
-----------------------------------------------------------------------------
(* The inductive invariant holds, and the properties follow. *)

\* A step that changes nothing keeps the invariant.
LEMMA StutterKeeps ==
    ASSUME EngineInv, UNCHANGED vars
    PROVE  /\ Base' /\ TreeStep /\ Rests
           /\ Quiet => OwnBranch'
           /\ Calm => CalmChain'
<1>1. /\ Base /\ UNCHANGED <<blocks, db, head, recents, disk, verifying, verified, refused,
                             updating, mining, restarts, scenario>>
  BY Zenon DEF EngineInv, vars
<1>2. Rests /\ Forgets
  BY <1>1, Zenon DEF Rests, Forgets
<1>3. Tree' /\ Headers' /\ TreeStep /\ Signers' = Signers /\ faults' = faults
  BY <1>1, <1>2, RestingBase, Zenon
<1>4. Store'
  <2>1. recents' = [x \in DOMAIN recents' |-> recents[x]] /\ DOMAIN recents' \subseteq DOMAIN recents
    BY <1>1, Zenon DEF Base, Store
  <2> QED BY <1>1, <1>3, <2>1, StoreShrinks, Zenon DEF Base
<1>5. Writers'
  BY <1>1, <1>3, Zenon DEF Base, Writers, Writer
<1>6. Base'
  BY <1>3, <1>4, <1>5, Zenon DEF Base
<1>7. ASSUME ElectsHead(updating) PROVE ElectsHead(updating)'
  BY <1>1, <1>7, Zenon DEF ElectsHead, atGap, isGapBlock, number, Gap, Ids, cand, Ancestors
<1>8. ASSUME ElectsHead(mining) PROVE ElectsHead(mining)'
  BY <1>1, <1>8, Zenon DEF ElectsHead, atGap, isGapBlock, number, Gap, Ids, cand, Ancestors
<1>9. ASSUME Quiet PROVE OwnBranch'
  <2>1. OwnBranch /\ ElectsHead(updating)'
    BY <1>7, <1>9, Zenon DEF EngineInv, OwnBranch
  <2>2. \A v \in verifying' : \A g : g = parent(v.block) /\ g \in DOMAIN recents => g \in DOMAIN recents'
    BY <1>1, Zenon
  <2> QED BY <1>1, <1>2, <1>3, <1>6, <2>1, <2>2, QuietForgets, Zenon
<1>10. ASSUME Calm PROVE CalmChain'
  <2>1. CalmChain /\ ElectsHead(updating)' /\ ElectsHead(mining)'
    BY <1>7, <1>8, <1>10, Zenon DEF EngineInv, CalmChain
  <2>2. OneBelowGap' /\ OnHeadsPath'
    BY <1>1, <2>1, OneBelowGapRests, Zenon DEF CalmChain, OnHeadsPath, number, GapNumber, Gap, Ancestors
  <2>3. ~InUpdate' => ~InUpdate /\ \A g \in db' : atGap(g)' => g \in db
    BY <1>1, Zenon DEF InUpdate
  <2>4. /\ \A x \in DOMAIN recents' : x \in DOMAIN recents /\ recents'[x] = recents[x]
        /\ DOMAIN recents' \subseteq Ids
        /\ \A b \in db' \cup verified' : b \in db \cup verified
        /\ \A v \in verifying' : v \in verifying
        /\ \A g \in DOMAIN recents : g \in DOMAIN recents' /\ recents'[g] = recents[g]
    BY <1>1, Zenon DEF Base, Store, Tree
  <2> QED BY <1>1, <1>3, <1>6, <2>1, <2>2, <2>3, <2>4, CalmRests, Zenon
<1> QED BY <1>2, <1>3, <1>6, <1>9, <1>10, Zenon

\* The invariant holds of the genesis block alone.
LEMMA EngineInit == Init => EngineInv
<1> SUFFICES ASSUME Init PROVE EngineInv
  OBVIOUS
<1>1. Base /\ panicked \in BOOLEAN
  BY BaseInit, Zenon DEF Init
<1>2. /\ Ids = {1} /\ db = {1} /\ head = 1 /\ DOMAIN recents = {} /\ DOMAIN disk = {1}
      /\ verifying = {} /\ verified = {} /\ refused = {}
      /\ updating.stage = "idle" /\ mining.stage = "idle" /\ number(1) = 0
  BY DEF Init, Ids, Idle, number
<1>3. ~atGap(1) /\ GapAncestors(1) = {}
  <2>1. Tree /\ 1 \in Ids
    BY <1>1, Zenon DEF Base, Tree
  <2>2. GapNumber \in 1 .. Epoch - 1 /\ GapFacts(1) /\ 0 \in 0 .. Epoch /\ Epoch \in Nat
    BY <1>2, <2>1, Numbers, GapFactsHold, BlockType, Zenon DEF Tree
  <2> QED BY <1>2, <2>2 DEF GapFacts
<1>4. RefusedOnlyIfFallbackFails
  BY <1>2, Zenon DEF RefusedOnlyIfFallbackFails
<1>5. OwnBranch
  BY <1>2, <1>3, Zenon DEF OwnBranch, CacheBelieves, VerifiersBelieve, SealedBelow, Passed, OwnValues,
     ElectsHead, RefusedStale
<1>6. CalmChain
  <2>1. OneBelowGap /\ OnHeadsPath
    BY <1>1, <1>2, Zenon DEF OneBelowGap, OnHeadsPath, Base, Tree
  <2>2. ElectsHead(updating) /\ ElectsHead(mining)
    BY <1>2, Zenon DEF ElectsHead
  <2>3. ElectionHeld /\ ElectionStored /\ ElectionCached /\ ElectionLookedUp
    BY <1>2, <1>3, Zenon DEF ElectionHeld, ElectionStored, ElectionCached, ElectionLookedUp
  <2> QED BY <1>2, <2>1, <2>2, <2>3, Zenon DEF CalmChain
<1> QED BY <1>1, <1>4, <1>5, <1>6, Zenon DEF EngineInv

\* What every step has to show: the shape, that nothing is refused except by a
\* verification, and the two histories in the behaviours they are about.
Preserves ==
    /\ Base' /\ TreeStep
    /\ refused' \subseteq refused \/ \E v, b, p, ss : Checks(v, b, p, ss)
    /\ Quiet => OwnBranch'
    /\ Calm => CalmChain'

\* Verification, insertion and the miner's own blocks keep the invariant.
LEMMA BlocksPreserve ==
    ASSUME EngineInv,
           \/ \E p \in Ids, d \in scenario.difficulties : \E c \in candidates(p) : LoadSnapshot(p, d, c)
           \/ \E p \in Ids, d \in scenario.difficulties : \E c \in candidates(p) : WriteMinedBlock(p, d, c)
           \/ \E v \in verifying : VerifyHeader(v)
           \/ \E b \in Ids : WriteBlock(b)
    PROVE  Preserves
<1>1. Base /\ (Quiet => OwnBranch) /\ (Calm => CalmChain)
  BY Zenon DEF EngineInv
<1>2. ASSUME NEW p \in Ids, NEW d \in scenario.difficulties, NEW c \in candidates(p), LoadSnapshot(p, d, c)
      PROVE  Preserves
  <2>1. Base' /\ TreeStep
    BY <1>1, <1>2, LoadBase, Zenon
  <2>2. PICK n : Loads(p, n)
    BY <1>1, <1>2, LoadBase, Zenon
  <2>3. refused' = refused
    BY <2>2, Zenon DEF Loads
  <2> QED BY <1>1, <2>1, <2>2, <2>3, QuietLoad, CalmLoad, Zenon DEF Preserves
<1>3. ASSUME NEW p \in Ids, NEW d \in scenario.difficulties, NEW c \in candidates(p), WriteMinedBlock(p, d, c)
      PROVE  Preserves
  <2>1. Base' /\ TreeStep
    BY <1>1, <1>3, MineBase, Zenon
  <2>2. PICK n : Mines(p, n)
    BY <1>1, <1>3, MineBase, Zenon
  <2>3. refused' = refused /\ ~Quiet
    BY <2>2, Zenon DEF Mines, Quiet
  <2> QED BY <1>1, <2>1, <2>2, <2>3, CalmMine, Zenon DEF Preserves
<1>4. ASSUME NEW v \in verifying, VerifyHeader(v) PROVE Preserves
  <2>1. Base' /\ TreeStep
    BY <1>1, <1>4, VerifyBase, Zenon
  <2>2. PICK b, p, ss : Checks(v, b, p, ss)
    BY <1>1, <1>4, VerifyBase, Zenon
  <2> QED BY <1>1, <2>1, <2>2, QuietVerify, CalmVerify, Zenon DEF Preserves
<1>5. ASSUME NEW b \in Ids, WriteBlock(b) PROVE Preserves
  <2>1. Base' /\ TreeStep /\ b \in Ids \ db /\ b # 1
    BY <1>1, <1>5, WriteBase, Zenon
  <2>2. refused' = refused
    BY <1>5, Zenon DEF WriteBlock
  <2> QED BY <1>1, <1>5, <2>1, <2>2, QuietWrite, CalmWrite, Zenon DEF Preserves
<1> QED BY <1>2, <1>3, <1>4, <1>5, Zenon

\* UpdateM1, the miner's update, a restart and an eviction keep the invariant.
LEMMA UpdatesPreserve ==
    ASSUME EngineInv,
           \/ UpdateM1Elect \/ UpdateM1Install \/ MinerElect \/ MinerInstall
           \/ Restart
           \/ \E b \in Ids : Evict(b)
    PROVE  Preserves
<1>1. Base /\ (Quiet => OwnBranch) /\ (Calm => CalmChain)
  BY Zenon DEF EngineInv
<1>2. Quiet => mining.stage = "idle"
  BY <1>1, Zenon DEF Base, Writers, Quiet
<1>3. CASE UpdateM1Elect \/ MinerElect
  <2>1. Base' /\ TreeStep /\ refused' = refused
    BY <1>1, <1>3, ElectBase, Zenon DEF Rests
  <2>2. Quiet => UpdateM1Elect
    BY <1>2, <1>3, Zenon DEF MinerElect
  <2> QED BY <1>1, <1>3, <2>1, <2>2, QuietElect, CalmElect, Zenon DEF Preserves
<1>4. CASE UpdateM1Install
  <2>1. Base' /\ TreeStep /\ refused' = refused
    BY <1>1, <1>4, InstallsBase, Zenon DEF UpdateM1Install
  <2>2. PICK h, ds : Installs(h, updating.elected, ds)
    BY <1>1, <1>4, InstallsBase, Zenon
  <2>3. PICK el : el = updating.elected
    BY Zenon
  <2>4. Installs(h, el, ds)
    BY <2>2, <2>3, Zenon
  <2>5. Calm => CalmChain'
    BY <1>1, <1>4, <2>1, <2>3, <2>4, CalmInstall, Zenon
  <2> QED BY <1>1, <1>4, <2>1, <2>2, <2>5, QuietInstall, Zenon DEF Preserves
<1>5. CASE MinerInstall
  <2>1. Base' /\ TreeStep /\ refused' = refused /\ ~Quiet
    BY <1>1, <1>2, <1>5, MinerInstallsBase, Zenon DEF MinerInstall
  <2>2. PICK h, ds : Installs(h, mining.elected, ds)
    BY <1>1, <1>5, MinerInstallsBase, Zenon
  <2>3. PICK el : el = mining.elected
    OBVIOUS
  <2>4. Installs(h, el, ds)
    BY <2>2, <2>3
  <2>5. Calm => CalmChain'
    BY <1>1, <1>5, <2>1, <2>3, <2>4, CalmInstall, Zenon
  <2> QED BY <2>1, <2>5, Zenon DEF Preserves
<1>6. CASE Restart
  <2>1. Base' /\ TreeStep /\ Rests /\ Forgets /\ refused' = refused
    BY <1>1, <1>6, RestartBase, Zenon DEF Rests
  <2>2. ~Calm
    BY <1>6, Zenon DEF Restart, Calm
  <2> QED BY <1>1, <1>6, <2>1, <2>2, QuietRestart, Zenon DEF Preserves
<1>7. ASSUME NEW b \in Ids, Evict(b) PROVE Preserves
  <2>1. Base' /\ TreeStep /\ Rests /\ Forgets /\ refused' = refused
    BY <1>1, <1>7, EvictBase, Zenon DEF Rests
  <2> QED BY <1>1, <1>7, <2>1, QuietEvict, CalmEvict, Zenon DEF Preserves
<1> QED BY <1>3, <1>4, <1>5, <1>6, <1>7, Zenon

\* The process runs or has panicked.
LEMMA PanickedType ==
    ASSUME panicked \in BOOLEAN, [Next]_vars
    PROVE  panicked' \in BOOLEAN
<1>1. panicked' = panicked \/ panicked' = FALSE \/ \E v \in verifying : VerifyHeader(v)
  BY Zenon DEF Next, vars, LoadSnapshot, WriteMinedBlock, WriteBlock, UpdateM1Elect, UpdateM1Install,
     MinerElect, MinerInstall, Restart, Evict
<1>2. ASSUME NEW v \in verifying, VerifyHeader(v) PROVE panicked' \in BOOLEAN
  BY <1>2, Zenon DEF VerifyHeader
<1> QED BY <1>1, <1>2, Zenon

\* The invariant is inductive.
LEMMA EngineStep == EngineInv /\ [Next]_vars => EngineInv'
<1> SUFFICES ASSUME EngineInv, [Next]_vars PROVE EngineInv'
  OBVIOUS
<1>1. Preserves
  <2>1. CASE Next
    BY <2>1, BlocksPreserve, UpdatesPreserve, Zenon DEF Next
  <2>2. CASE UNCHANGED vars
    BY <2>2, StutterKeeps, Zenon DEF Rests, Preserves
  <2> QED BY <2>1, <2>2, Zenon
<1>2. Base' /\ TreeStep /\ Base /\ RefusedOnlyIfFallbackFails
  BY <1>1, Zenon DEF Preserves, EngineInv
<1>3. RefusedOnlyIfFallbackFails'
  BY <1>1, <1>2, FallbackStep, Zenon DEF Preserves
<1>4. (Quiet' <=> Quiet) /\ (Calm' <=> Calm)
  BY <1>2, TreeKept, KeptScenario, Zenon DEF Base
<1>5. panicked' \in BOOLEAN
  BY PanickedType, Zenon DEF EngineInv
<1> QED BY <1>1, <1>2, <1>3, <1>4, <1>5, Zenon DEF EngineInv, Preserves

\* The invariant holds in every behaviour of the engine.
THEOREM EngineInvariant == Spec => []EngineInv
<1>1. QED BY EngineInit, EngineStep, PTL DEF Spec

\* Without a race, a restart or a second branch up to the gap block,
\* verifyCascadingFields accepts every checkpoint header that lists the
\* masternodes elected at its gap block, whatever is evicted and whoever
\* mines.
THEOREM CorrectCheckpointAccepted == Spec => []AcceptedUnlessFaulty
<1>1. EngineInv => AcceptedUnlessFaulty
  BY Zenon DEF EngineInv, AcceptedUnlessFaulty, CheckpointAccepted, Calm, CalmChain
<1> QED BY <1>1, EngineInvariant, PTL

\* However verification, insertion, UpdateM1, forks, restarts and evictions
\* interleave, a cached snapshot from the gap block on holds the genesis
\* signers or those elected at the gap block it descends from.
THEOREM SnapshotsKeepToTheirBranch == Spec => []ElectionFromOwnBranch
<1>1. EngineInv => ElectionFromOwnBranch
  <2> SUFFICES ASSUME EngineInv, Quiet, NEW b \in DOMAIN recents, NEW g \in GapAncestors(b)
               PROVE  recents[b] \in {Genesis, blocks[g].cand}
    BY Zenon DEF ElectionFromOwnBranch, Quiet
  <2>1. Base /\ OwnBranch /\ b \in Ids /\ b \in db
    BY Zenon DEF EngineInv, Base, Store, Tree
  <2>2. atGap(g) /\ cand(g) = blocks[g].cand /\ (b # g => g \in db)
    BY <2>1, GapFactsHold, Zenon DEF GapFacts, Base, cand
  <2>3. CASE b = g
    BY <2>1, <2>2, <2>3, Zenon DEF OwnBranch, OwnValues
  <2>4. CASE b # g
    <3>1. recents[b] = disk[g]
      BY <2>1, <2>4, Zenon DEF OwnBranch, CacheBelieves, Believes
    <3>2. g \in DOMAIN disk
      BY <2>1, <2>4, Zenon DEF OwnBranch, SealedBelow, Sealed, Passed
    <3> QED BY <2>1, <2>2, <3>1, <3>2, Zenon DEF OwnBranch, OwnValues
  <2> QED BY <2>3, <2>4, Zenon
<1> QED BY <1>1, EngineInvariant, PTL

\* verifyCascadingFields refuses a correct checkpoint only if its signers are
\* not those elected at the gap block and the fallback fails: the penalties
\* do not give the wrong signers away, or stakes have moved since the gap block,
\* or there are too few candidates for the cut; and, but for races and mining,
\* only if the stored snapshot of the gap block is the one from before the
\* election.
THEOREM RefusalNeedsBothSourcesWrong == Spec => []RefusedOnlyIfBothFail
<1>1. EngineInv => RefusedOnlyIfBothFail
  <2> SUFFICES ASSUME EngineInv PROVE RefusedOnlyIfBothFail
    OBVIOUS
  <2>1. Tree /\ Store /\ Headers /\ Writers
    BY Zenon DEF EngineInv, Base
  <2>2. TypeOK
    <3>1. \A b \in Ids \ {1} : parent(b) \in db /\ number(b) = number(parent(b)) + 1
      BY <2>1, Zenon DEF Tree, Parents
    <3>2. /\ \A b \in DOMAIN recents : recents[b] \in electable
          /\ \A b \in DOMAIN disk : disk[b] \in electable
      BY <2>1, Zenon DEF Store, Signers, electable
    <3>3. {v.block : v \in verifying} \cup verified \subseteq Ids \ db
      BY <2>1, Zenon DEF Headers
    <3> QED BY <2>1, <3>1, <3>2, <3>3, Zenon DEF TypeOK, Tree, Store, Writers, EngineInv
  <2>3. RefusedOnlyIfDiskStale
    BY DEF EngineInv, RefusedOnlyIfDiskStale, Quiet, OwnBranch, RefusedStale, cand
  <2> QED BY <2>2, <2>3, Zenon DEF RefusedOnlyIfBothFail, EngineInv
<1> QED BY <1>1, EngineInvariant, PTL
=============================================================================
