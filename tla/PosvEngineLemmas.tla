-------------------------- MODULE PosvEngineLemmas --------------------------
(***************************************************************************)
(* What the engine's snapshots satisfy, for every set of accounts, epoch   *)
(* length, gap, tree of blocks, number of verifiers and restarts, and      *)
(* every interleaving of verification, insertion, mining, UpdateM1,        *)
(* evictions and restarts.                                                 *)
(*                                                                         *)
(* Base holds whatever happens: the tree of blocks, where snapshots can    *)
(* lie, which headers are under way.  OwnBranch is the part that needs     *)
(* quiet behaviours (no race, no miner).  PosvEngineProofs adds the part   *)
(* for calm behaviours and the theorems.                                   *)
(***************************************************************************)
EXTENDS PosvEngine, WellFoundedInduction, TLAPS

-----------------------------------------------------------------------------
(* Two parts of the inductive invariant. *)

Signers == {Elected[s] : s \in elections} \cup {Genesis}
GapNumber == Epoch - Gap
td(b) == blocks[b].td
cand(b) == blocks[b].cand
atGap(b) == isGapBlock(number(b))

\* The paths are those of a tree whose inner nodes are written.
Paths ==
    \A b \in Ids :
        /\ b \in Ancestors(b) /\ 1 \in Ancestors(b)
        /\ \A x \in Ancestors(b) : /\ x \in Ids /\ number(x) <= number(b) /\ (x = b \/ x \in db)
                                   /\ Ancestors(x) \subseteq Ancestors(b)
        /\ \A x, y \in Ancestors(b) : number(y) <= number(x) => y \in Ancestors(x)
        /\ \A x, y \in Ancestors(b) : number(y) = number(x) => y = x
        /\ \A n \in 0 .. number(b) : \E x \in Ancestors(b) : number(x) = n

Parents ==
    \A b \in Ids \ {1} :
        /\ parent(b) \in db /\ ~isCheckpoint(number(parent(b)))
        /\ number(b) = number(parent(b)) + 1 /\ td(parent(b)) < td(b)
        /\ Ancestors(b) = Ancestors(parent(b)) \cup {b}

BlockRec ==
    {r \in [number : 0 .. Epoch, parent : Nat, td : Nat, stakes : DOMAIN Contract, cand : Signers,
            path : SUBSET Nat] : r.cand = Elected[r.stakes]}

Tree ==
    /\ scenario \in Scenarios
    /\ blocks \in Seq(BlockRec)
    /\ 1 \in Ids /\ number(1) = 0 /\ Ancestors(1) = {1}
    /\ db \subseteq Ids /\ 1 \in db /\ head \in db
    /\ Parents /\ Paths

Store ==
    /\ DOMAIN recents \subseteq db /\ recents \in [DOMAIN recents -> Signers]
    /\ DOMAIN disk \subseteq db /\ disk \in [DOMAIN disk -> Signers]
    /\ 1 \in DOMAIN disk /\ disk[1] = Genesis

Headers ==
    /\ verifying \subseteq [block : Nat, signers : Signers, fresh : BOOLEAN]
    /\ verified \subseteq Ids \ db
    /\ \A v \in verifying : v.block \in Ids \ db /\ v.block \notin verified
    /\ \A v, w \in verifying : v.block = w.block => v = w
    /\ refused \subseteq [block : Nat, signers : Signers, head : Nat]
    /\ \A r \in refused : r.block \in Ids \ {1} /\ isCheckpoint(number(r.block)) /\ r.head \in Ids

Writer == [stage : {"idle", "elect", "install"}, elected : Signers \cup {{}}]

Writers ==
    /\ updating \in Writer /\ (updating.stage = "install" => updating.elected \in Signers)
    /\ mining \in Writer /\ (mining.stage = "install" => mining.elected \in Signers)
    /\ "mine" \notin faults => mining.stage = "idle"
    /\ restarts \in 0 .. MaxRestarts

Base == Tree /\ Store /\ Headers /\ Writers

\* Behaviours without a race and without the node's own gap blocks.
Quiet == faults \subseteq {"restart", "fork", "evict"}

\* What a lookup of a gap block g gives.
Current(g) == IF g \in DOMAIN recents THEN recents[g]
              ELSE IF g \in DOMAIN disk THEN disk[g] ELSE Genesis

\* Blocks whose header has been looked at to the end.
Passed == db \cup verified \cup {r.block : r \in refused}

\* What a lookup of b gives: ss.
Believes(b, ss) ==
    /\ GapAncestors(b) = {} => ss = Genesis
    /\ \A g \in GapAncestors(b) : ss = IF b = g THEN Current(g) ELSE disk[g]

\* A writer in UpdateM1 works on the head, a gap block nobody builds on yet.
ElectsHead(u) ==
    u.stage # "idle" =>
        /\ atGap(head)
        /\ \A b \in Ids : head \in Ancestors(b) => b = head
        /\ u.stage = "install" => u.elected = cand(head)

CacheBelieves == \A b \in DOMAIN recents : Believes(b, recents[b])

VerifiersBelieve == \A v \in verifying : Believes(parent(v.block), v.signers)

\* Once a block on top of gap block g has passed, the snapshot stored for g is
\* the one in the cache.
Sealed(g) == g \in DOMAIN disk /\ (g \in DOMAIN recents => recents[g] = disk[g])

SealedBelow == \A b \in Passed : \A g \in GapAncestors(b) : b # g => Sealed(g)

OwnValues ==
    /\ \A g \in DOMAIN recents : atGap(g) => recents[g] \in {Genesis, cand(g)}
    /\ \A g \in DOMAIN disk : atGap(g) => disk[g] \in {Genesis, cand(g)}

RefusedStale ==
    \A r \in refused : \A g \in GapAncestors(r.block) : disk[g] = Genesis /\ cand(g) # Genesis

OwnBranch ==
    /\ CacheBelieves /\ VerifiersBelieve /\ SealedBelow /\ OwnValues
    /\ ElectsHead(updating) /\ RefusedStale

\* Behaviours without a race, a restart or a second branch below the gap block.
Calm == faults \subseteq {"evict", "mine"}
-----------------------------------------------------------------------------
(* Numbers, paths and lookups. *)

\* A nonempty set of naturals has a smallest element.
LEMMA SmallestNumber ==
    ASSUME NEW T \in SUBSET Nat, T # {}
    PROVE  \E n \in T : \A m \in T : n <= m
<1>1. PICK n \in T : \A m \in T : ~(<<m, n>> \in OpToRel(<, Nat))
  BY NatLessThanWellFounded, WFMin, Zenon
<1>2. ASSUME NEW m \in T PROVE n <= m
  <2>1. <<m, n>> \in Nat \X Nat /\ <<m, n>>[1] = m /\ <<m, n>>[2] = n
    OBVIOUS
  <2>2. ~(m < n)
    BY <1>1, <2>1 DEF OpToRel
  <2> QED BY <2>2
<1> QED BY <1>2

\* Up to the checkpoint there is one number of a gap block.
LEMMA Numbers ==
    ASSUME scenario \in Scenarios, NEW n \in 0 .. Epoch
    PROVE  /\ Epoch \in Nat /\ Gap \in 1 .. Epoch - 1
           /\ GapNumber \in 1 .. Epoch - 1
           /\ isGapBlock(n) <=> n = GapNumber
           /\ isCheckpoint(n) <=> n = Epoch
<1>1. Epoch \in Nat /\ Gap \in 1 .. Epoch - 1
  BY EngineAssumption DEF Gap
<1>2. Epoch \in Nat \ {0}
  BY <1>1
<1>3. GapNumber \in 1 .. Epoch - 1
  BY <1>1 DEF GapNumber
<1>4. CASE n < Epoch
  <2>1. n % Epoch = n
    BY <1>2, <1>4
  <2> QED BY <1>1, <1>3, <1>4, <2>1 DEF isGapBlock, isCheckpoint, GapNumber
<1>5. CASE n = Epoch
  <2>1. n % Epoch = 0
    BY <1>2, <1>5
  <2> QED BY <1>1, <1>3, <1>5, <2>1 DEF isGapBlock, isCheckpoint, GapNumber
<1> QED BY <1>2, <1>4, <1>5

\* The type of a block.
LEMMA BlockType ==
    ASSUME Tree, NEW b \in Ids
    PROVE  /\ number(b) \in 0 .. Epoch /\ number(b) \in Nat /\ Epoch \in Nat
           /\ parent(b) \in Nat /\ td(b) \in Nat
           /\ cand(b) \in Signers /\ Ancestors(b) \subseteq Nat
           /\ blocks[b].stakes \in DOMAIN Contract /\ cand(b) = Elected[blocks[b].stakes]
<1>1. blocks[b] \in BlockRec
  <2>1. blocks \in Seq(BlockRec)
    BY DEF Tree
  <2> QED BY <2>1 DEF Ids
<1>2. Epoch \in Nat
  BY EngineAssumption, Zenon
<1> QED BY <1>1, <1>2 DEF BlockRec, number, parent, td, cand, Ancestors

\* Where the gap block below a block is.
GapFacts(b) ==
    /\ \A g \in GapAncestors(b) :
          /\ g \in Ancestors(b) /\ g \in Ids /\ atGap(g) /\ number(g) = GapNumber
          /\ g \in GapAncestors(g)
          /\ number(g) <= number(b) /\ GapNumber <= number(b)
          /\ b # g => g \in db /\ ~atGap(b) /\ number(g) < number(b)
    /\ \A g, h \in GapAncestors(b) : g = h
    /\ atGap(b) <=> b \in GapAncestors(b)
    /\ atGap(b) <=> number(b) = GapNumber
    /\ GapNumber <= number(b) <=> GapAncestors(b) # {}
    /\ \A x \in Ancestors(b) : x \in Ids /\ GapAncestors(x) \subseteq GapAncestors(b)
    /\ \A x \in Ancestors(b) : \A g \in GapAncestors(b) :
          number(g) <= number(x) => g \in GapAncestors(x)

\* In a tree the gap blocks on a branch are what GapFacts says: at most one,
\* at the gap number.
LEMMA GapFactsHold ==
    ASSUME Tree, NEW b \in Ids
    PROVE  GapFacts(b)
<1>1. \A x \in Ids : /\ number(x) \in 0 .. Epoch /\ number(x) \in Nat
                     /\ atGap(x) <=> number(x) = GapNumber
  <2> TAKE x \in Ids
  <2>1. number(x) \in 0 .. Epoch /\ number(x) \in Nat
    BY BlockType
  <2> QED BY <2>1, Numbers DEF Tree, atGap
<1>2. GapNumber \in Nat
  <2>1. number(b) \in 0 .. Epoch
    BY <1>1
  <2>2. GapNumber \in 1 .. Epoch - 1
    BY <2>1, Numbers DEF Tree
  <2> QED BY <2>2, EngineAssumption
<1>3. \A x \in Ancestors(b) : x \in Ids /\ number(x) <= number(b) /\ (x = b \/ x \in db)
  BY DEF Tree, Paths
<1>4. b \in Ancestors(b)
  BY DEF Tree, Paths
<1>5. \A x \in Ids : x \in Ancestors(x)
  BY DEF Tree, Paths
<1>6. \A x, y \in Ancestors(b) : number(y) <= number(x) => y \in Ancestors(x)
  BY DEF Tree, Paths
<1>7. \A x, y \in Ancestors(b) : number(y) = number(x) => y = x
  BY DEF Tree, Paths
<1>8. \A n \in 0 .. number(b) : \E x \in Ancestors(b) : number(x) = n
  BY DEF Tree, Paths
<1>9. \A x : \A g : g \in GapAncestors(x) <=> g \in Ancestors(x) /\ atGap(g)
  BY DEF GapAncestors, atGap
<1>10. ASSUME NEW g \in GapAncestors(b)
       PROVE  /\ g \in Ancestors(b) /\ g \in Ids /\ atGap(g) /\ number(g) = GapNumber
              /\ g \in GapAncestors(g)
              /\ number(g) <= number(b) /\ GapNumber <= number(b)
              /\ b # g => g \in db /\ ~atGap(b) /\ number(g) < number(b)
  <2>1. g \in Ancestors(b) /\ atGap(g)
    BY <1>9
  <2>2. g \in Ids /\ number(g) <= number(b) /\ (g = b \/ g \in db)
    BY <1>3, <2>1
  <2>3. number(g) = GapNumber /\ g \in GapAncestors(g)
    BY <1>1, <1>5, <1>9, <2>1, <2>2
  <2>4. b # g => number(g) # number(b)
    BY <1>4, <1>7, <2>1
  <2> QED BY <1>1, <2>1, <2>2, <2>3, <2>4
<1>11. GapNumber <= number(b) => GapAncestors(b) # {}
  <2> HAVE GapNumber <= number(b)
  <2>1. GapNumber \in 0 .. number(b)
    BY <1>1, <1>2
  <2>2. PICK x \in Ancestors(b) : number(x) = GapNumber
    BY <1>8, <2>1, Zenon
  <2> QED BY <1>1, <1>3, <1>9, <2>2
<1>12. ASSUME NEW x \in Ancestors(b)
       PROVE  /\ x \in Ids /\ GapAncestors(x) \subseteq GapAncestors(b)
              /\ \A g \in GapAncestors(b) : number(g) <= number(x) => g \in GapAncestors(x)
  <2>1. x \in Ids
    BY <1>3
  <2>2. Ancestors(x) \subseteq Ancestors(b)
    BY DEF Tree, Paths
  <2> QED BY <1>6, <1>9, <1>10, <2>1, <2>2
<1>13. \A g, h \in GapAncestors(b) : g = h
  BY <1>7, <1>10
<1>14. (atGap(b) <=> b \in GapAncestors(b)) /\ (atGap(b) <=> number(b) = GapNumber)
  BY <1>1, <1>4, <1>9, Zenon
<1> QED BY <1>10, <1>11, <1>12, <1>13, <1>14, Zenon DEF GapFacts

\* x is where a lookup of b ends.
IsClosest(b, x) ==
    /\ x \in Ancestors(b) /\ Known(x)
    /\ \A y \in Ancestors(b) : Known(y) => number(y) <= number(x)

\* snapshot() always finds a closest known ancestor: the genesis block's
\* snapshot is stored.
LEMMA ClosestExists ==
    ASSUME Tree, Store, NEW b \in Ids
    PROVE  IsClosest(b, closest(b))
<1> DEFINE ks == {x \in Ancestors(b) : Known(x)}
           T  == {Epoch - number(x) : x \in ks}
<1>1. \A x \in ks : number(x) \in 0 .. Epoch
  <2> TAKE x \in ks
  <2>1. x \in Ids
    BY DEF Tree, Paths
  <2> QED BY <2>1, BlockType
<1>2. T \subseteq Nat
  BY <1>1, EngineAssumption
<1>3. 1 \in ks
  BY DEF Tree, Paths, Store, Known
<1>4. Epoch - number(1) \in T
  BY <1>3
<1>5. PICK n \in T : \A m \in T : n <= m
  BY <1>2, <1>4, SmallestNumber, Zenon
<1>6. PICK x \in ks : n = Epoch - number(x)
  BY <1>5
<1>7. \A y \in ks : number(y) <= number(x)
  <2> TAKE y \in ks
  <2>1. Epoch - number(x) <= Epoch - number(y)
    BY <1>5, <1>6
  <2>2. number(x) \in 0 .. Epoch /\ number(y) \in 0 .. Epoch /\ Epoch \in Nat
    BY <1>1, EngineAssumption
  <2> QED BY <2>1, <2>2
<1>8. closest(b) = CHOOSE z \in ks : \A y \in ks : number(y) <= number(z)
  BY DEF closest
<1> HIDE DEF ks
<1>9. closest(b) \in ks /\ \A y \in ks : number(y) <= number(closest(b))
  BY <1>7, <1>8
<1> QED BY <1>9 DEF ks, IsClosest

\* A lookup gives signers.
LEMMA SignersAtType ==
    ASSUME Tree, Store, NEW b \in Ids
    PROVE  signersAt(b) \in Signers
<1>1. Known(closest(b))
  BY ClosestExists DEF IsClosest
<1> QED BY <1>1 DEF Known, signersAt, found, Store

\* verifyCascadingFields walks back to the gap block below.
LEMMA StartIsGapBlock ==
    ASSUME Tree, NEW p \in Ids, number(p) + 1 = Epoch
    PROVE  /\ GapAncestors(p) # {}
           /\ \A g \in GapAncestors(p) : startGapBlock(p) = g /\ g \in Ids
<1>1. number(p) \in 0 .. Epoch /\ number(p) \in Nat
  BY BlockType
<1>2. GapNumber \in 1 .. Epoch - 1 /\ Gap \in 1 .. Epoch - 1 /\ Epoch \in Nat
  BY <1>1, Numbers DEF Tree
<1>3. number(p) + 1 - Gap = GapNumber /\ GapNumber <= number(p)
  BY <1>1, <1>2 DEF GapNumber
<1>4. GapAncestors(p) # {}
  BY <1>3, GapFactsHold DEF GapFacts
<1>5. ASSUME NEW g \in GapAncestors(p) PROVE startGapBlock(p) = g /\ g \in Ids
  <2>1. g \in Ancestors(p) /\ number(g) = GapNumber /\ g \in Ids
    BY GapFactsHold DEF GapFacts
  <2>2. \A x, y \in Ancestors(p) : number(y) = number(x) => y = x
    BY DEF Tree, Paths
  <2> QED BY <1>3, <2>1, <2>2 DEF startGapBlock
<1> QED BY <1>4, <1>5

\* Why the fallback does not help: gap block g, head h, signers ss.
FallbackFails(g, h, ss) ==
    \/ HookPenalty(ss) = HookPenalty(cand(g))
    \/ capsAt(h) # capsAt(g)
    \/ Cardinality(candsAt(g)) < MaxMasternodes

\* What a correct header lists, in terms of its gap block.
LEMMA HeaderOfGapBlock ==
    ASSUME NEW p, NEW g, g = startGapBlock(p)
    PROVE  /\ correctHeader(p).penalties = HookPenalty(cand(g))
           /\ correctHeader(p).masternodes = cand(g) \ HookPenalty(cand(g))
BY DEF correctHeader, cand

\* With enough candidates, and the caps of the gap block still the latest
\* ones, the contract gives those elected at the gap block.
LEMMA ContractAnswers ==
    ASSUME Tree, NEW p, NEW g \in Ids, g = startGapBlock(p),
           capsAt(head) = capsAt(g), ~(Cardinality(candsAt(g)) < MaxMasternodes)
    PROVE  HookGetSignersFromContract(p) = cand(g) /\ ~cutPanics(p)
<1>1. PICK s \in DOMAIN Contract : s = blocks[g].stakes
  BY BlockType
<1>2. cand(g) = largest(Contract[s].cands, Contract[s].caps)
  <2>1. Elected[s] = largest(Contract[s].cands, Contract[s].caps)
    BY Zenon DEF Elected
  <2> QED BY <1>1, <2>1, BlockType, Zenon
<1>3. candsAt(g) = Contract[s].cands /\ capsAt(g) = Contract[s].caps
  BY <1>1 DEF candsAt, capsAt
<1>4. Cardinality(candsAt(g)) \in Nat /\ MaxMasternodes \in Nat /\ SliceRoom \in 0 .. MaxMasternodes
  BY <1>3, EngineAssumption
<1>5. ~(Cardinality(candsAt(g)) < SliceRoom)
  BY <1>4
<1>6. HookGetSignersFromContract(p) = largest(candsAt(g), capsAt(head))
  BY Zenon DEF HookGetSignersFromContract
<1> QED BY <1>2, <1>3, <1>5, <1>6, Zenon DEF cutPanics

\* A correct header on top of p is refused only because of other signers than
\* those elected at gap block g, and only if the fallback fails.
LEMMA RefusedHeader ==
    ASSUME Tree, NEW p, NEW g \in Ids, g = startGapBlock(p),
           NEW ss, ~validCheckpoint(correctHeader(p), p, ss)
    PROVE  ss # cand(g) /\ FallbackFails(g, head, ss)
<1>1. PICK h : h = correctHeader(p)
  OBVIOUS
<1>2. h.penalties = HookPenalty(cand(g)) /\ h.masternodes = cand(g) \ HookPenalty(cand(g))
  BY <1>1, HeaderOfGapBlock, Zenon
<1>3. ss # cand(g)
  BY <1>1, <1>2, Zenon DEF validCheckpoint, asksContract
<1>4. ASSUME ~FallbackFails(g, head, ss) PROVE FALSE
  <2>1. HookGetSignersFromContract(p) = cand(g) /\ ~cutPanics(p)
    BY <1>4, ContractAnswers, Zenon DEF FallbackFails
  <2>2. asksContract(h, ss)
    BY <1>2, <1>4, Zenon DEF FallbackFails, asksContract
  <2> QED BY <1>1, <1>2, <2>1, <2>2, Zenon DEF validCheckpoint
<1> QED BY <1>3, <1>4, Zenon
-----------------------------------------------------------------------------
(* The tree only grows. *)

\* Blocks seen before the step are seen, unchanged, after it.
Kept == scenario' = scenario /\ Ids \subseteq Ids' /\ \A b \in Ids : blocks'[b] = blocks[b]

Stays(b) ==
    /\ number(b)' = number(b) /\ parent(b)' = parent(b) /\ td(b)' = td(b)
    /\ cand(b)' = cand(b) /\ Ancestors(b)' = Ancestors(b)
    /\ GapAncestors(b)' = GapAncestors(b) /\ (atGap(b)' <=> atGap(b))

\* A step that keeps the blocks keeps everything read off an old block.
LEMMA KeptBlocks ==
    ASSUME Tree, Kept, NEW b \in Ids
    PROVE  Stays(b)
<1>1. \A x \in Ids : /\ number(x)' = number(x) /\ parent(x)' = parent(x) /\ td(x)' = td(x)
                     /\ cand(x)' = cand(x) /\ Ancestors(x)' = Ancestors(x)
  BY DEF Kept, number, parent, td, cand, Ancestors
<1>2. \A x \in Ids : isGapBlock(number(x))' <=> isGapBlock(number(x))
  BY <1>1 DEF Kept, isGapBlock, Gap
<1>3. Ancestors(b) \subseteq Ids
  BY DEF Tree, Paths
<1>4. GapAncestors(b)' = GapAncestors(b)
  BY <1>1, <1>2, <1>3 DEF GapAncestors
<1> QED BY <1>1, <1>2, <1>4 DEF Stays, atGap

\* A step that keeps the scenario keeps the faults and all that is read off
\* the scenario.
LEMMA KeptScenario ==
    ASSUME Kept
    PROVE  /\ faults' = faults /\ Signers' = Signers /\ BlockRec' = BlockRec
           /\ GapNumber' = GapNumber /\ (Quiet' <=> Quiet) /\ (Calm' <=> Calm)
<1>1. faults' = faults /\ Signers' = Signers /\ Gap' = Gap
  BY DEF Kept, faults, Signers, elections, Gap
<1> QED BY <1>1 DEF BlockRec, GapNumber, Quiet, Calm

\* A new block n with parent p.
Grown(p, n) ==
    /\ Kept /\ n \in Nat \ Ids /\ Ids' = Ids \cup {n} /\ p \in db
    /\ ~isCheckpoint(number(p))
    /\ parent(n)' = p /\ number(n)' = number(p) + 1 /\ td(p) < td(n)'
    /\ Ancestors(n)' = Ancestors(p) \cup {n}
    /\ blocks' \in Seq(BlockRec)

\* Appending a new block to a written one that may get a child adds one leaf
\* to the tree.
LEMMA BlocksGrow ==
    ASSUME Tree, NEW p \in db, mayArrive(p), NEW d \in scenario.difficulties, NEW c \in candidates(p),
           blocks' = Append(blocks, newBlock(p, d, c)), scenario' = scenario
    PROVE  \E n : n = Len(blocks) + 1 /\ Grown(p, n)
<1>n. PICK n : n = Len(blocks) + 1
  OBVIOUS
<1>b. PICK nb : nb = newBlock(p, d, c)
  OBVIOUS
<1>1. blocks \in Seq(BlockRec) /\ Len(blocks) \in Nat /\ p \in Ids /\ scenario \in Scenarios
  BY DEF Tree, Ids
<1>2. d \in Nat \ {0}
  BY <1>1, EngineAssumption, Zenon
<1>3. number(p) \in 0 .. Epoch /\ number(p) \in Nat /\ td(p) \in Nat /\ cand(p) \in Signers
      /\ Ancestors(p) \subseteq Nat /\ Epoch \in Nat
  BY <1>1, BlockType, Zenon
<1>4. ~isCheckpoint(number(p)) /\ number(p) + 1 \in 0 .. Epoch
  BY <1>1, <1>3, Numbers DEF mayArrive
<1>5. c \in DOMAIN Contract /\ Elected[c] \in Signers
  <2>1. CASE c \in elections
    BY <1>1, <2>1, EngineAssumption DEF elections, Signers
  <2>2. CASE c = blocks[p].stakes
    BY <1>1, <2>2, BlockType, Zenon
  <2> QED BY <2>1, <2>2 DEF candidates
<1>a. /\ nb = [number |-> number(p) + 1, parent |-> p, td |-> td(p) + d, stakes |-> c,
               cand |-> Elected[c], path |-> Ancestors(p) \cup {n}]
      /\ blocks' = Append(blocks, nb)
  BY <1>n, <1>b, Zenon DEF newBlock, td, Ancestors
<1>6. nb \in BlockRec
  <2>2. p \in Nat /\ td(p) + d \in Nat /\ Ancestors(p) \cup {n} \in SUBSET Nat
    BY <1>1, <1>2, <1>3, <1>n DEF Ids
  <2> QED BY <1>4, <1>5, <1>a, <2>2 DEF BlockRec
<1>7. blocks' \in Seq(BlockRec) /\ Len(blocks') = n /\ blocks'[n] = nb
      /\ \A b \in 1 .. Len(blocks) : blocks'[b] = blocks[b]
  BY <1>1, <1>6, <1>a, <1>n
<1>8. Ids' = Ids \cup {n} /\ n \in Nat \ Ids
  BY <1>1, <1>7, <1>n DEF Ids
<1>9. Kept
  BY <1>7, <1>8, Zenon DEF Kept, Ids
<1>10. /\ parent(n)' = p /\ number(n)' = number(p) + 1 /\ td(n)' = td(p) + d
       /\ Ancestors(n)' = Ancestors(p) \cup {n}
  <2>1. /\ nb.parent = p /\ nb.number = number(p) + 1 /\ nb.td = td(p) + d
        /\ nb.path = Ancestors(p) \cup {n}
    BY <1>a
  <2>2. /\ parent(n)' = nb.parent /\ number(n)' = nb.number /\ td(n)' = nb.td
        /\ Ancestors(n)' = nb.path
    BY <1>7, Zenon DEF parent, number, td, Ancestors
  <2> QED BY <2>1, <2>2, Zenon
<1>11. td(p) < td(n)'
  BY <1>2, <1>3, <1>10
<1>12. Grown(p, n)
  BY <1>4, <1>7, <1>8, <1>9, <1>10, <1>11, Zenon DEF Grown
<1> QED BY <1>12, <1>n

\* Blocks are appended, written blocks stay written.
TreeStep ==
    /\ (blocks' = blocks /\ scenario' = scenario) \/ \E p, n : Grown(p, n)
    /\ db \subseteq db' /\ db' \subseteq Ids' /\ head' \in db'

\* A step that adds at most one leaf and only adds to the database keeps the
\* tree, and the old blocks in it.
LEMMA TreeKept ==
    ASSUME Tree, TreeStep
    PROVE  Tree' /\ Kept
<1>1. Kept
  BY DEF TreeStep, Grown, Kept, Ids
<1>2. \A b \in Ids : Stays(b)
  BY <1>1, KeptBlocks, Zenon
<1>3. scenario' \in Scenarios /\ blocks' \in Seq(BlockRec')
  <2>1. BlockRec' = BlockRec
    BY <1>1, KeptScenario
  <2> QED BY <1>1, <2>1 DEF Kept, TreeStep, Tree, Grown
<1>4. 1 \in Ids' /\ number(1)' = 0 /\ Ancestors(1)' = {1} /\ 1 \in db'
  BY <1>1, <1>2 DEF Kept, Stays, Tree, TreeStep
<1>a. db' \subseteq Ids' /\ head' \in db'
  BY Zenon DEF TreeStep
<1>5. ASSUME NEW b \in Ids' \ {1}, b \in Ids
      PROVE  /\ (parent(b) \in db /\ ~isCheckpoint(number(parent(b))))'
             /\ (number(b) = number(parent(b)) + 1 /\ td(parent(b)) < td(b))'
             /\ (Ancestors(b) = Ancestors(parent(b)) \cup {b})'
  <2>1. /\ parent(b) \in db /\ ~isCheckpoint(number(parent(b)))
        /\ number(b) = number(parent(b)) + 1 /\ td(parent(b)) < td(b)
        /\ Ancestors(b) = Ancestors(parent(b)) \cup {b}
    BY <1>5 DEF Tree, Parents
  <2>2. PICK q : q = parent(b)
    OBVIOUS
  <2>3. q \in Ids /\ Stays(q) /\ Stays(b)
    BY <1>2, <1>5, <2>1, <2>2, Zenon DEF Tree
  <2>4. parent(b)' = q
    BY <2>2, <2>3, Zenon DEF Stays
  <2> QED BY <2>1, <2>2, <2>3, <2>4, Zenon DEF Stays, TreeStep, number, td, Ancestors
<1>6. ASSUME NEW b \in Ids PROVE
        /\ (b \in Ancestors(b) /\ 1 \in Ancestors(b))'
        /\ \A x \in Ancestors(b)' : /\ x \in Ids' /\ number(x)' <= number(b)' /\ (x = b \/ x \in db')
                                    /\ Ancestors(x)' \subseteq Ancestors(b)'
        /\ \A x, y \in Ancestors(b)' : number(y)' <= number(x)' => y \in Ancestors(x)'
        /\ \A x, y \in Ancestors(b)' : number(y)' = number(x)' => y = x
        /\ \A n \in 0 .. number(b)' : \E x \in Ancestors(b)' : number(x)' = n
  <2>1. Stays(b) /\ \A x \in Ancestors(b) : Stays(x) /\ x \in Ids
    BY <1>2 DEF Tree, Paths
  <2>2. db \subseteq db' /\ Ids \subseteq Ids'
    BY <1>1 DEF TreeStep, Kept
  <2> QED BY <2>1, <2>2 DEF Stays, Tree, Paths
<1>7. CASE Ids' = Ids
  <2>1. Parents'
    BY <1>5, <1>7, Zenon DEF Parents
  <2>2. Paths'
    BY <1>6, <1>7 DEF Paths
  <2>3. Tree'
    BY <1>3, <1>4, <1>a, <2>1, <2>2, Zenon DEF Tree
  <2> QED BY <1>1, <2>3, Zenon
<1>8. CASE \E p, n : Grown(p, n)
  <2>1. PICK p, n : Grown(p, n)
    BY <1>8, Zenon
  <2>2. p \in Ids /\ Stays(p) /\ p \in db' /\ Ids' = Ids \cup {n} /\ n \notin Ids
    BY <1>2, <2>1, Zenon DEF Grown, Tree, TreeStep
  <2>3. Parents'
    <3> SUFFICES ASSUME NEW b \in Ids' \ {1}
                 PROVE  /\ (parent(b) \in db /\ ~isCheckpoint(number(parent(b))))'
                        /\ (number(b) = number(parent(b)) + 1 /\ td(parent(b)) < td(b))'
                        /\ (Ancestors(b) = Ancestors(parent(b)) \cup {b})'
      BY DEF Parents
    <3>1. CASE b \in Ids
      BY <1>5, <3>1, Zenon
    <3>2. CASE b = n
      <4>1. parent(n)' = p
        BY <2>1, Zenon DEF Grown
      <4> QED BY <2>1, <2>2, <3>2, <4>1, Zenon DEF Grown, Stays, number, td, Ancestors
    <3> QED BY <2>2, <3>1, <3>2, Zenon
  <2>4. /\ number(n)' = number(p) + 1 /\ Ancestors(n)' = Ancestors(p) \cup {n}
        /\ number(p) \in Nat
    BY <2>1, <2>2, BlockType, Zenon DEF Grown
  <2>5. /\ p \in Ancestors(p) /\ 1 \in Ancestors(p)
        /\ \A x \in Ancestors(p) : /\ x \in Ids /\ x \in db /\ number(x) <= number(p)
                                   /\ Ancestors(x) \subseteq Ancestors(p) /\ Stays(x)
                                   /\ number(x) \in Nat
        /\ \A x, y \in Ancestors(p) : number(y) <= number(x) => y \in Ancestors(x)
        /\ \A x, y \in Ancestors(p) : number(y) = number(x) => y = x
        /\ \A k \in 0 .. number(p) : \E x \in Ancestors(p) : number(x) = k
    <3>1. p \in db
      BY <2>1 DEF Grown
    <3>2. \A x \in Ids : Stays(x) /\ number(x) \in Nat
      BY <1>2, BlockType, Zenon
    <3> QED BY <2>2, <3>1, <3>2, Zenon DEF Tree, Paths
  <2>6. Paths'
    <3> SUFFICES ASSUME NEW b \in Ids' PROVE
            /\ (b \in Ancestors(b) /\ 1 \in Ancestors(b))'
            /\ \A x \in Ancestors(b)' : /\ x \in Ids' /\ number(x)' <= number(b)' /\ (x = b \/ x \in db')
                                        /\ Ancestors(x)' \subseteq Ancestors(b)'
            /\ \A x, y \in Ancestors(b)' : number(y)' <= number(x)' => y \in Ancestors(x)'
            /\ \A x, y \in Ancestors(b)' : number(y)' = number(x)' => y = x
            /\ \A k \in 0 .. number(b)' : \E x \in Ancestors(b)' : number(x)' = k
      BY Zenon DEF Paths
    <3>1. CASE b \in Ids
      BY <1>6, <3>1, Zenon
    <3>2. CASE b = n
      <4>1. \A x \in Ancestors(p) : /\ number(x)' = number(x) /\ Ancestors(x)' = Ancestors(x)
                                    /\ number(x)' < number(n)' /\ x # n /\ x \in db'
        BY <2>2, <2>4, <2>5 DEF Stays, TreeStep
      <4>2. n \in Ancestors(n)' /\ 1 \in Ancestors(n)'
        BY <2>4, <2>5, Zenon
      <4>3. \A x \in Ancestors(n)' : /\ x \in Ids' /\ number(x)' <= number(n)' /\ (x = n \/ x \in db')
                                     /\ Ancestors(x)' \subseteq Ancestors(n)'
        BY <2>2, <2>4, <2>5, <4>1
      <4>4. \A x, y \in Ancestors(n)' : number(y)' <= number(x)' => y \in Ancestors(x)'
        BY <2>4, <2>5, <4>1
      <4>5. \A x, y \in Ancestors(n)' : number(y)' = number(x)' => y = x
        BY <2>4, <2>5, <4>1
      <4>6. ASSUME NEW k \in 0 .. number(n)' PROVE \E x \in Ancestors(n)' : number(x)' = k
        <5>1. CASE k = number(n)'
          BY <4>2, <5>1, Zenon
        <5>2. CASE k \in 0 .. number(p)
          BY <2>4, <2>5, <4>1, <5>2, Zenon
        <5> QED BY <2>4, <5>1, <5>2
      <4> QED BY <3>2, <4>2, <4>3, <4>4, <4>5, <4>6, Zenon
    <3> QED BY <2>2, <3>1, <3>2, Zenon
  <2>7. Tree'
    BY <1>3, <1>4, <1>a, <2>3, <2>6, Zenon DEF Tree
  <2> QED BY <1>1, <2>7
<1>9. blocks' = blocks => Ids' = Ids
  BY DEF Ids
<1> QED BY <1>1, <1>7, <1>8, <1>9, Zenon DEF TreeStep
-----------------------------------------------------------------------------
(* Base is invariant. *)

\* g is f with b -> ss put in.
Puts(f, g, b, ss) ==
    /\ DOMAIN g = DOMAIN f \cup {b} /\ g[b] = ss
    /\ \A x \in DOMAIN f : x # b => g[x] = f[x]

\* put changes one entry of a function.
LEMMA PutFacts ==
    ASSUME NEW f, NEW b, NEW ss, NEW S, f \in [DOMAIN f -> S], ss \in S
    PROVE  Puts(f, put(f, b, ss), b, ss) /\ put(f, b, ss) \in [DOMAIN f \cup {b} -> S]
BY DEF Puts, put

\* Signers rs are cached for p and ds stored for it if it is a gap block.
Stores(p, rs, ds) ==
    /\ Puts(recents, recents', p, rs)
    /\ IF atGap(p) THEN Puts(disk, disk', p, ds) ELSE disk' = disk

\* Caching and storing a snapshot of a written block keeps the shape of cache
\* and database.
LEMMA StoreKept ==
    ASSUME Tree, Store, TreeStep, NEW p \in db, NEW rs \in Signers, NEW ds \in Signers,
           recents' = put(recents, p, rs),
           disk' = IF isGapBlock(number(p)) THEN put(disk, p, ds) ELSE disk
    PROVE  Store' /\ Stores(p, rs, ds)
<1>1. Signers' = Signers
  BY TreeKept, KeptScenario
<1>2. db \subseteq db'
  BY DEF TreeStep
<1>3. Puts(recents, recents', p, rs) /\ recents' \in [DOMAIN recents \cup {p} -> Signers]
  BY PutFacts, Zenon DEF Store
<1>4. DOMAIN recents' \subseteq db' /\ recents' \in [DOMAIN recents' -> Signers']
  BY <1>1, <1>2, <1>3 DEF Puts, Store
<1>5. CASE isGapBlock(number(p))
  <2>1. Puts(disk, disk', p, ds) /\ disk' \in [DOMAIN disk \cup {p} -> Signers]
    BY <1>5, PutFacts, Zenon DEF Store
  <2>2. p # 1
    <3>1. 1 \in Ids /\ number(1) = 0 /\ number(1) \in 0 .. Epoch
      BY BlockType, Zenon DEF Tree
    <3>2. ~isGapBlock(number(1))
      BY <3>1, Numbers, EngineAssumption DEF Tree
    <3> QED BY <1>5, <3>2, Zenon
  <2>3. DOMAIN disk' \subseteq db' /\ disk' \in [DOMAIN disk' -> Signers']
        /\ 1 \in DOMAIN disk' /\ disk'[1] = Genesis
    BY <1>1, <1>2, <2>1, <2>2, Zenon DEF Puts, Store
  <2>4. Store'
    BY <1>4, <2>3, Zenon DEF Store
  <2> QED BY <1>3, <1>5, <2>1, <2>4 DEF Stores, atGap
<1>6. CASE ~isGapBlock(number(p))
  <2>1. disk' = disk
    BY <1>6, Zenon
  <2>2. DOMAIN disk' \subseteq db' /\ disk' \in [DOMAIN disk' -> Signers']
        /\ 1 \in DOMAIN disk' /\ disk'[1] = Genesis
    BY <1>1, <1>2, <2>1, Zenon DEF Store
  <2>3. Store'
    BY <1>4, <2>2, Zenon DEF Store
  <2> QED BY <1>3, <1>6, <2>1, <2>3 DEF Stores, atGap
<1> QED BY <1>5, <1>6

\* Evictions and restarts only take from the cache.
LEMMA StoreShrinks ==
    ASSUME Store, TreeStep, Tree, disk' = disk, DOMAIN recents' \subseteq DOMAIN recents,
           recents' = [x \in DOMAIN recents' |-> recents[x]]
    PROVE  Store'
<1>1. Signers' = Signers /\ db \subseteq db'
  BY TreeKept, KeptScenario DEF TreeStep
<1>2. DOMAIN recents' \subseteq db' /\ recents' \in [DOMAIN recents' -> Signers']
  BY <1>1 DEF Store
<1>3. DOMAIN disk' \subseteq db' /\ disk' \in [DOMAIN disk' -> Signers']
      /\ 1 \in DOMAIN disk' /\ disk'[1] = Genesis
  BY <1>1 DEF Store
<1> QED BY <1>2, <1>3, Zenon DEF Store

\* The headers at rest stay what they were when the tree grows.
LEMMA HeadersKept ==
    ASSUME Tree, Headers, TreeStep, db' \cap verified' = {}, verified' \subseteq Ids',
           NEW new, verifying' \subseteq verifying \cup new,
           new \subseteq [block : Nat, signers : Signers, fresh : BOOLEAN],
           \A v \in new : v.block \in Ids' \ Ids,
           \A v, w \in new : v = w,
           \A v \in verifying' : v.block \notin db' /\ v.block \notin verified',
           NEW late, refused' \subseteq refused \cup late,
           late \subseteq [block : Nat, signers : Signers, head : Nat],
           \A r \in late : r.block \in Ids \ {1} /\ isCheckpoint(number(r.block)) /\ r.head \in Ids
    PROVE  Headers'
<1>1. Kept /\ Signers' = Signers /\ \A b \in Ids : Stays(b)
  BY TreeKept, KeptScenario, KeptBlocks, Zenon
<1>2. verifying' \subseteq [block : Nat, signers : Signers', fresh : BOOLEAN]
  BY <1>1 DEF Headers
<1>3. verified' \subseteq Ids' \ db'
  BY Zenon
<1>4. \A v \in verifying' : v.block \in Ids' \ db' /\ v.block \notin verified'
  BY <1>1 DEF Headers, Kept
<1>5. \A v, w \in verifying' : v.block = w.block => v = w
  BY Zenon DEF Headers
<1>6. refused' \subseteq [block : Nat, signers : Signers', head : Nat]
  BY <1>1, Zenon DEF Headers
<1>7. ASSUME NEW r \in refused'
      PROVE  r.block \in Ids' \ {1} /\ isCheckpoint(number(r.block)') /\ r.head \in Ids'
  <2>1. PICK b : b = r.block
    BY Zenon
  <2>2. b \in Ids \ {1} /\ isCheckpoint(number(b)) /\ r.head \in Ids
    BY <2>1, Zenon DEF Headers
  <2>3. number(b)' = number(b) /\ b \in Ids' /\ r.head \in Ids'
    BY <1>1, <2>2, Zenon DEF Stays, Kept
  <2> QED BY <2>1, <2>2, <2>3, Zenon
<1>8. \A r \in refused' : r.block \in Ids' \ {1} /\ isCheckpoint(number(r.block))' /\ r.head \in Ids'
  BY <1>7, Zenon DEF isCheckpoint
<1> QED BY <1>2, <1>3, <1>4, <1>5, <1>6, <1>8, Zenon DEF Headers

\* LoadSnapshot: block n on top of p is under verification.
Loads(p, n) ==
    /\ Grown(p, n) /\ mayArrive(p)
    /\ \E v : /\ v = [block |-> n, signers |-> signersAt(p), fresh |-> p \notin DOMAIN recents]
              /\ verifying' = verifying \cup {v}
    /\ UNCHANGED <<db, head, recents, disk, verified, refused, updating, mining, restarts, scenario>>

\* Looking up the snapshot of a new header's parent keeps the shape.
LEMMA LoadBase ==
    ASSUME Base, NEW p \in Ids, NEW d \in scenario.difficulties, NEW c \in candidates(p),
           LoadSnapshot(p, d, c)
    PROVE  Base' /\ TreeStep /\ \E n : Loads(p, n)
<1>1. PICK n : n = Len(blocks) + 1 /\ Grown(p, n)
  <2>1. p \in db /\ mayArrive(p) /\ blocks' = Append(blocks, newBlock(p, d, c)) /\ scenario' = scenario
    BY DEF LoadSnapshot
  <2> QED BY <2>1, BlocksGrow, Zenon DEF Base
<1>2. Loads(p, n)
  BY <1>1, Zenon DEF LoadSnapshot, Loads
<1>3. PICK v : /\ v = [block |-> n, signers |-> signersAt(p), fresh |-> p \notin DOMAIN recents]
               /\ verifying' = verifying \cup {v}
  BY <1>2, Zenon DEF Loads
<1>4. db' = db /\ head' = head /\ UNCHANGED <<recents, disk, verified, refused>>
  BY <1>2, Zenon DEF Loads
<1>5. TreeStep
  BY <1>1, <1>4, Zenon DEF TreeStep, Grown, Base, Tree
<1>6. Tree' /\ Signers' = Signers /\ faults' = faults
  BY <1>5, TreeKept, KeptScenario, Zenon DEF Base
<1>7. Store'
  <2>1. Store
    BY DEF Base
  <2>2. recents' = [x \in DOMAIN recents' |-> recents[x]]
    BY <1>4, <2>1 DEF Store
  <2> QED BY <1>4, <1>5, <2>1, <2>2, StoreShrinks, Zenon DEF Base
<1>8. Headers'
  <2>1. v \in [block : Nat, signers : Signers, fresh : BOOLEAN]
    BY <1>1, <1>3, SignersAtType, Zenon DEF Grown, Base
  <2>2. v.block \in Ids' \ Ids
    BY <1>1, <1>3, Zenon DEF Grown
  <2>3. verified' \subseteq Ids' /\ db' \cap verified' = {} /\ db \subseteq Ids /\ verified \subseteq Ids
    BY <1>1, <1>4, Zenon DEF Base, Headers, Grown, Tree
  <2>4. \A w \in verifying' : w.block \notin db' /\ w.block \notin verified'
    BY <1>3, <1>4, <2>2, <2>3, Zenon DEF Base, Headers
  <2>5. PICK new, late : new = {v} /\ late = {}
    BY Zenon
  <2>6. new \subseteq [block : Nat, signers : Signers, fresh : BOOLEAN]
        /\ (\A w \in new : w.block \in Ids' \ Ids) /\ \A w, x \in new : w = x
    BY <2>1, <2>2, <2>5, Zenon
  <2>7. late \subseteq [block : Nat, signers : Signers, head : Nat] /\ refused' \subseteq refused \cup late
        /\ \A r \in late : r.block \in Ids \ {1} /\ isCheckpoint(number(r.block)) /\ r.head \in Ids
    BY <1>4, <2>5, Zenon
  <2>8. verifying' \subseteq verifying \cup new
    BY <1>3, <2>5, Zenon
  <2> QED BY <1>5, <2>3, <2>4, <2>6, <2>7, <2>8, HeadersKept, Zenon DEF Base
<1>9. Writers'
  <2>1. UNCHANGED <<updating, mining, restarts>>
    BY <1>2 DEF Loads
  <2> QED BY <1>6, <2>1, Zenon DEF Base, Writers, Writer
<1> QED BY <1>2, <1>5, <1>6, <1>7, <1>8, <1>9, Zenon DEF Base

\* VerifyHeader: signers ss of p decide on b.
Checks(v, b, p, ss) ==
    /\ b = v.block /\ b \in Ids \ {1} /\ b \notin db /\ p = parent(b) /\ p \in db
    /\ ss \in Signers
    /\ ss = IF v.fresh \/ p \notin DOMAIN recents THEN v.signers ELSE recents[p]
    /\ Stores(p, ss, ss)
    /\ verifying' = verifying \ {v}
    /\ \/ /\ isCheckpoint(number(b)) => validCheckpoint(correctHeader(p), p, ss)
          /\ verified' = verified \cup {b} /\ refused' = refused
       \/ /\ isCheckpoint(number(b)) /\ ~validCheckpoint(correctHeader(p), p, ss)
          /\ verified' = verified /\ refused' = refused \cup {[block |-> b, signers |-> ss, head |-> head]}
    /\ UNCHANGED <<blocks, db, head, updating, mining, restarts, scenario>>

\* Verifying a header keeps the shape; Checks is what it does in one step.
LEMMA VerifyBase ==
    ASSUME Base, NEW v \in verifying, VerifyHeader(v)
    PROVE  Base' /\ TreeStep /\ \E b, p, ss : Checks(v, b, p, ss)
<1>1. PICK b : b = v.block
  OBVIOUS
<1>2. PICK p : p = parent(b)
  OBVIOUS
<1>3. PICK ss : ss = IF v.fresh \/ p \notin DOMAIN recents THEN v.signers ELSE recents[p]
  BY Zenon
<1>4. b \in Ids \ {1} /\ b \notin db /\ p \in db /\ b \in Nat /\ head \in Ids /\ head \in Nat
  <2>1. b \in Ids \ {1} /\ b \notin db /\ p \in db /\ head \in Ids
    BY <1>1, <1>2, Zenon DEF Base, Headers, Tree, Parents
  <2>2. Ids \subseteq Nat
    BY DEF Ids
  <2> QED BY <2>1, <2>2, Zenon
<1>5. ss \in Signers
  BY <1>3, Zenon DEF Base, Headers, Store
<1>6. /\ recents' = put(recents, p, ss)
      /\ disk' = IF isGapBlock(number(p)) THEN put(disk, p, ss) ELSE disk
  BY <1>1, <1>2, <1>3, Zenon DEF VerifyHeader, addAndStore
<1>7. UNCHANGED <<blocks, db, head, updating, mining, restarts, scenario>> /\ verifying' = verifying \ {v}
  BY Zenon DEF VerifyHeader
<1>8. TreeStep
  BY <1>7, Zenon DEF TreeStep, Base, Tree, Ids
<1>9. Tree' /\ Signers' = Signers /\ faults' = faults
  BY <1>8, TreeKept, KeptScenario, Zenon DEF Base
<1>10. Store' /\ Stores(p, ss, ss)
  BY <1>4, <1>5, <1>6, <1>8, StoreKept, Zenon DEF Base
<1>11. \/ /\ isCheckpoint(number(b)) => validCheckpoint(correctHeader(p), p, ss)
          /\ verified' = verified \cup {b} /\ refused' = refused
       \/ /\ isCheckpoint(number(b)) /\ ~validCheckpoint(correctHeader(p), p, ss)
          /\ verified' = verified /\ refused' = refused \cup {[block |-> b, signers |-> ss, head |-> head]}
  BY <1>1, <1>2, <1>3, Zenon DEF VerifyHeader
<1>12. Checks(v, b, p, ss)
  BY <1>1, <1>2, <1>3, <1>4, <1>5, <1>7, <1>10, <1>11, Zenon DEF Checks
<1>13. Headers'
  <2>1. PICK late : late = IF refused' = refused THEN {} ELSE {[block |-> b, signers |-> ss, head |-> head]}
    BY Zenon
  <2>2. /\ refused' \subseteq refused \cup late
        /\ late \subseteq [block : Nat, signers : Signers, head : Nat]
        /\ \A r \in late : r.block \in Ids \ {1} /\ isCheckpoint(number(r.block)) /\ r.head \in Ids
    BY <1>4, <1>5, <1>11, <2>1
  <2>3. Ids' = Ids /\ verified \subseteq verified' /\ verified' \subseteq verified \cup {b}
    BY <1>7, <1>11 DEF Ids
  <2>4. verified' \subseteq Ids' /\ db' \cap verified' = {}
    BY <1>4, <1>7, <2>3, Zenon DEF Base, Headers
  <2>5. \A w \in verifying' : w.block \notin db' /\ w.block \notin verified'
    BY <1>1, <1>7, <2>3 DEF Base, Headers
  <2>6. PICK new : new = {}
    BY Zenon
  <2>7. new \subseteq [block : Nat, signers : Signers, fresh : BOOLEAN]
        /\ (\A w \in new : w.block \in Ids' \ Ids) /\ (\A w, x \in new : w = x)
        /\ verifying' \subseteq verifying \cup new
    BY <1>7, <2>6, Zenon
  <2> QED BY <1>8, <2>2, <2>4, <2>5, <2>7, HeadersKept, Zenon DEF Base
<1>14. Writers'
  BY <1>7, <1>9 DEF Base, Writers, Writer
<1> QED BY <1>8, <1>9, <1>10, <1>12, <1>13, <1>14, Zenon DEF Base

\* The header lists only lose entries, and what they lose is not verified.
LEMMA HeadersShrink ==
    ASSUME Tree, Headers, TreeStep, verifying' \subseteq verifying, verified' \subseteq verified,
           refused' = refused, db' \cap verified' = {}, \A v \in verifying' : v.block \notin db'
    PROVE  Headers'
<1>1. PICK new, late : new = {} /\ late = {}
  BY Zenon
<1>2. new \subseteq [block : Nat, signers : Signers, fresh : BOOLEAN]
      /\ (\A w \in new : w.block \in Ids' \ Ids) /\ (\A w, x \in new : w = x)
      /\ verifying' \subseteq verifying \cup new
  BY <1>1, Zenon
<1>3. late \subseteq [block : Nat, signers : Signers, head : Nat] /\ refused' \subseteq refused \cup late
      /\ \A r \in late : r.block \in Ids \ {1} /\ isCheckpoint(number(r.block)) /\ r.head \in Ids
  BY <1>1, Zenon
<1>4. verified' \subseteq Ids' /\ \A v \in verifying' : v.block \notin verified'
  BY TreeKept, Zenon DEF Headers, Kept
<1> QED BY <1>2, <1>3, <1>4, HeadersKept, Zenon

\* Inserting a verified block keeps the shape.
LEMMA WriteBase ==
    ASSUME Base, NEW b \in Ids, WriteBlock(b)
    PROVE  Base' /\ TreeStep /\ b \in Ids \ db /\ b \in Ids \ {1}
<1>1. b \in verified /\ b \in Ids \ db /\ b \in Ids \ {1}
  BY DEF WriteBlock, Base, Headers, Tree
<1>2. /\ UNCHANGED <<blocks, recents, disk, verifying, refused, mining, restarts, scenario>>
      /\ verified' = verified \ {b} /\ db' = db \cup {b} /\ head' \in {b, head}
      /\ updating' \in {updating, [updating EXCEPT !.stage = "elect"]}
  BY DEF WriteBlock
<1>3. TreeStep
  BY <1>1, <1>2, Zenon DEF TreeStep, Base, Tree, Ids
<1>4. Tree' /\ Signers' = Signers /\ faults' = faults
  BY <1>3, TreeKept, KeptScenario DEF Base
<1>5. Store'
  <2>1. recents' = [x \in DOMAIN recents' |-> recents[x]]
    BY <1>2, Zenon DEF Base, Store
  <2> QED BY <1>2, <1>3, <2>1, StoreShrinks, Zenon DEF Base
<1>6. Headers'
  <2>1. verifying' \subseteq verifying /\ verified' \subseteq verified /\ refused' = refused
    BY <1>2
  <2>2. db' \cap verified' = {} /\ \A v \in verifying' : v.block \notin db'
    BY <1>1, <1>2, Zenon DEF Base, Headers
  <2> QED BY <1>3, <2>1, <2>2, HeadersShrink, Zenon DEF Base
<1>7. Writers'
  <2>1. updating' \in Writer /\ (updating'.stage = "install" => updating'.elected \in Signers)
    BY <1>2, Zenon DEF Base, Writers, Writer
  <2> QED BY <1>2, <1>4, <2>1, Zenon DEF Base, Writers, Writer
<1> QED BY <1>1, <1>3, <1>4, <1>5, <1>6, <1>7, Zenon DEF Base

\* WriteMinedBlock: block n on top of p is written without a lock.
Mines(p, n) ==
    /\ Grown(p, n) /\ mayArrive(p) /\ "mine" \in faults
    /\ isGapBlock(number(p) + 1) /\ db' = db \cup {n}
    /\ head' \in {head, n} /\ (td(n)' > td(head) => head' = n)
    /\ Stores(p, signersAt(p), signersAt(p)) /\ signersAt(p) \in Signers
    /\ mining' = [mining EXCEPT !.stage = "elect"]
    /\ UNCHANGED <<verifying, verified, refused, updating, restarts, scenario>>

\* Writing the node's own block keeps the shape; Mines is what it does in one
\* step.
LEMMA MineBase ==
    ASSUME Base, NEW p \in Ids, NEW d \in scenario.difficulties, NEW c \in candidates(p),
           WriteMinedBlock(p, d, c)
    PROVE  Base' /\ TreeStep /\ \E n : Mines(p, n)
<1>1. PICK n : n = Len(blocks) + 1 /\ Grown(p, n)
  <2>1. p \in db /\ mayArrive(p) /\ blocks' = Append(blocks, newBlock(p, d, c)) /\ scenario' = scenario
    BY Zenon DEF WriteMinedBlock
  <2> QED BY <2>1, BlocksGrow DEF Base
<1>2. /\ p \in db /\ mayArrive(p) /\ "mine" \in faults /\ db' = db \cup {n} /\ head' \in {head, n}
      /\ isGapBlock(number(p) + 1)
      /\ mining' = [mining EXCEPT !.stage = "elect"]
      /\ UNCHANGED <<verifying, verified, refused, updating, restarts, scenario>>
  BY <1>1, Zenon DEF WriteMinedBlock, newBlock
<1>3. td(n)' > td(head) => head' = n
  <2>1. td(n)' = newBlock(p, d, c).td
    <3>1. blocks'[n] = newBlock(p, d, c)
      <4>1. blocks' = Append(blocks, newBlock(p, d, c)) /\ Len(blocks) \in Nat
        BY DEF WriteMinedBlock, Base, Tree
      <4>2. blocks \in Seq(BlockRec)
        BY DEF Base, Tree
      <4> QED BY <1>1, <4>1, <4>2
    <3> QED BY <3>1, Zenon DEF td
  <2> QED BY <1>1, <2>1, Zenon DEF WriteMinedBlock, td
<1>4. TreeStep
  BY <1>1, <1>2, Zenon DEF TreeStep, Grown, Base, Tree
<1>5. Tree' /\ Signers' = Signers /\ faults' = faults
  BY <1>4, TreeKept, KeptScenario DEF Base
<1>6. PICK ss : ss = signersAt(p)
  OBVIOUS
<1>7. ss \in Signers
  BY <1>6, SignersAtType, Zenon DEF Base
<1>8. Store' /\ Stores(p, ss, ss)
  <2>1. /\ recents' = put(recents, p, ss)
        /\ disk' = IF isGapBlock(number(p)) THEN put(disk, p, ss) ELSE disk
    BY <1>6, Zenon DEF WriteMinedBlock, addAndStore
  <2> QED BY <1>2, <1>4, <1>7, <2>1, StoreKept, Zenon DEF Base
<1>9. Mines(p, n)
  BY <1>1, <1>2, <1>3, <1>6, <1>7, <1>8, Zenon DEF Mines
<1>10. Headers'
  <2>1. verifying' \subseteq verifying /\ verified' \subseteq verified /\ refused' = refused
    BY <1>2, Zenon
  <2>2. db' \cap verified' = {} /\ \A v \in verifying' : v.block \notin db'
    BY <1>1, <1>2 DEF Base, Headers, Grown
  <2> QED BY <1>4, <2>1, <2>2, HeadersShrink, Zenon DEF Base
<1>11. Writers'
  <2>1. mining' \in Writer /\ (mining'.stage = "install" => mining'.elected \in Signers)
    BY <1>2 DEF Base, Writers, Writer
  <2> QED BY <1>2, <1>5, <2>1, Zenon DEF Base, Writers, Writer
<1> QED BY <1>4, <1>5, <1>8, <1>9, <1>10, <1>11, Zenon DEF Base

\* Blocks, headers and the head are left alone.
Rests == UNCHANGED <<blocks, db, head, refused, scenario>>
         /\ verifying' \subseteq verifying /\ verified' \subseteq verified

\* A step that neither adds nor writes blocks keeps the tree and the headers
\* under way.
LEMMA RestingBase ==
    ASSUME Base, Rests
    PROVE  Tree' /\ Headers' /\ TreeStep /\ Signers' = Signers /\ faults' = faults
<1>1. TreeStep
  BY DEF Rests, TreeStep, Base, Tree, Ids
<1>2. Tree' /\ Signers' = Signers /\ faults' = faults
  BY <1>1, TreeKept, KeptScenario, Zenon DEF Base
<1>3. db' \cap verified' = {} /\ \A v \in verifying' : v.block \notin db'
  BY Zenon DEF Rests, Base, Headers
<1>4. Headers'
  BY <1>1, <1>3, HeadersShrink, Zenon DEF Base, Rests
<1> QED BY <1>1, <1>2, <1>4, Zenon

\* UpdateMasternodes: el is cached for the head h, what was there is stored.
Installs(h, el, ds) ==
    /\ h = head /\ h \in db /\ el \in Signers /\ ds = signersAt(h)
    /\ Stores(h, el, ds)
    /\ Rests /\ verifying' = verifying /\ verified' = verified

\* UpdateMasternodes changes the snapshot of the head alone.
LEMMA InstallBase ==
    ASSUME Base, NEW el \in Signers, UpdateMasternodes(el),
           UNCHANGED <<blocks, db, head, verifying, verified, refused, scenario>>
    PROVE  Store' /\ \E h, ds : Installs(h, el, ds)
<1>1. Rests /\ verifying' = verifying /\ verified' = verified
  BY DEF Rests
<1>2. TreeStep
  BY <1>1, RestingBase, Zenon
<1>3. PICK h : h = head
  OBVIOUS
<1>4. PICK ds : ds = signersAt(h)
  BY Zenon
<1>5. h \in db /\ h \in Ids /\ ds \in Signers
  BY <1>3, <1>4, SignersAtType, Zenon DEF Base, Tree
<1>6. /\ recents' = put(recents, h, el)
      /\ disk' = IF isGapBlock(number(h)) THEN put(disk, h, ds) ELSE disk
  BY <1>3, <1>4, Zenon DEF UpdateMasternodes
<1>7. Store' /\ Stores(h, el, ds)
  BY <1>2, <1>5, <1>6, StoreKept, Zenon DEF Base
<1> QED BY <1>1, <1>3, <1>4, <1>5, <1>7, Zenon DEF Installs

\* The end of the importer's UpdateM1 keeps the shape.
LEMMA InstallsBase ==
    ASSUME Base, UpdateM1Install
    PROVE  Base' /\ TreeStep /\ \E h, ds : Installs(h, updating.elected, ds)
<1>1. updating.elected \in Signers /\ UpdateMasternodes(updating.elected) /\ updating' = Idle
      /\ UNCHANGED <<blocks, db, head, verifying, verified, refused, mining, restarts, scenario>>
  BY DEF UpdateM1Install, Base, Writers
<1>2. Rests
  BY <1>1 DEF Rests
<1>3. Store' /\ \E h, ds : Installs(h, updating.elected, ds)
  BY <1>1, InstallBase, Zenon
<1>4. Writers'
  BY <1>1, <1>2, RestingBase, Zenon DEF Base, Writers, Writer, Idle
<1> QED BY <1>2, <1>3, <1>4, RestingBase DEF Base

\* The end of the miner's UpdateM1 keeps the shape.
LEMMA MinerInstallsBase ==
    ASSUME Base, MinerInstall
    PROVE  Base' /\ TreeStep /\ \E h, ds : Installs(h, mining.elected, ds)
<1>1. mining.elected \in Signers /\ UpdateMasternodes(mining.elected) /\ mining' = Idle
      /\ UNCHANGED <<blocks, db, head, verifying, verified, refused, updating, restarts, scenario>>
  BY Zenon DEF MinerInstall, Base, Writers
<1>2. Rests
  BY <1>1 DEF Rests
<1>3. Store' /\ \E h, ds : Installs(h, mining.elected, ds)
  BY <1>1, InstallBase
<1>4. Writers'
  BY <1>1, <1>2, RestingBase DEF Base, Writers, Writer, Idle
<1> QED BY <1>2, <1>3, <1>4, RestingBase DEF Base

\* The snapshots stay, or the cache loses some of its entries.
Forgets == DOMAIN recents' \subseteq DOMAIN recents /\ disk' = disk
           /\ \A b \in DOMAIN recents' : recents'[b] = recents[b]

\* Reading the candidates keeps the shape.
LEMMA ElectBase ==
    ASSUME Base, UpdateM1Elect \/ MinerElect
    PROVE  Base' /\ TreeStep /\ Rests /\ Forgets
<1>1. UNCHANGED <<blocks, db, head, recents, disk, verifying, verified, refused, restarts, scenario>>
  BY DEF UpdateM1Elect, MinerElect
<1>2. Rests /\ Forgets
  BY <1>1 DEF Rests, Forgets
<1>3. Store'
  <2>1. recents' = [x \in DOMAIN recents' |-> recents[x]] /\ DOMAIN recents' \subseteq DOMAIN recents
    BY <1>1 DEF Base, Store
  <2> QED BY <1>1, <1>2, <2>1, RestingBase, StoreShrinks DEF Base
<1>4. cand(head) \in Signers
  BY BlockType DEF Base, Tree
<1>5. Writers'
  <2>1. Signers' = Signers /\ faults' = faults
    BY <1>2, RestingBase
  <2>2. elect(updating) \in Writer /\ elect(mining) \in Writer
        /\ elect(updating).elected \in Signers /\ elect(mining).elected \in Signers
    BY <1>4, Zenon DEF elect, cand, Writer
  <2>3. CASE UpdateM1Elect
    BY <1>1, <2>1, <2>2, <2>3, Zenon DEF UpdateM1Elect, Base, Writers, Writer
  <2>4. CASE MinerElect
    BY <1>1, <2>1, <2>2, <2>4 DEF MinerElect, Base, Writers, Writer
  <2> QED BY <2>3, <2>4
<1> QED BY <1>2, <1>3, <1>5, RestingBase, Zenon DEF Base

\* A restart keeps the shape: the cache is lost and the database is not.
LEMMA RestartBase ==
    ASSUME Base, Restart
    PROVE  Base' /\ TreeStep /\ Rests /\ Forgets
<1>1. /\ UNCHANGED <<blocks, db, head, disk, refused, scenario>> /\ recents' = [b \in {} |-> {}]
      /\ verifying' = {} /\ verified' = {} /\ updating' = Idle /\ mining' = Idle
      /\ restarts < MaxRestarts /\ restarts' = restarts + 1
  BY DEF Restart
<1>2. Rests /\ Forgets
  BY <1>1, Zenon DEF Rests, Forgets
<1>3. Store'
  <2>1. recents' = [x \in DOMAIN recents' |-> recents[x]] /\ DOMAIN recents' \subseteq DOMAIN recents
    BY <1>1
  <2> QED BY <1>1, <1>2, <2>1, RestingBase, StoreShrinks, Zenon DEF Base
<1>4. Writers'
  <2>1. restarts' \in 0 .. MaxRestarts
    BY <1>1, EngineAssumption DEF Base, Writers
  <2> QED BY <1>1, <2>1, Zenon DEF Writers, Writer, Idle
<1> QED BY <1>2, <1>3, <1>4, RestingBase, Zenon DEF Base

\* An eviction keeps the shape.
LEMMA EvictBase ==
    ASSUME Base, NEW b, Evict(b)
    PROVE  Base' /\ TreeStep /\ Rests /\ Forgets
<1>1. /\ UNCHANGED <<blocks, db, head, disk, verifying, verified, refused, updating, mining, restarts, scenario>>
      /\ recents' = [x \in DOMAIN recents \ {b} |-> recents[x]]
  BY DEF Evict
<1>2. Rests /\ Forgets
  BY <1>1 DEF Rests, Forgets
<1>3. Store'
  <2>1. recents' = [x \in DOMAIN recents' |-> recents[x]] /\ DOMAIN recents' \subseteq DOMAIN recents
    BY <1>1
  <2> QED BY <1>1, <1>2, <2>1, RestingBase, StoreShrinks DEF Base
<1>4. Writers'
  <2>1. Signers' = Signers /\ faults' = faults
    BY <1>2, RestingBase
  <2> QED BY <1>1, <2>1 DEF Base, Writers, Writer
<1> QED BY <1>2, <1>3, <1>4, RestingBase, Zenon DEF Base

\* The shape holds of the genesis block alone.
LEMMA BaseInit == Init => Base
<1> SUFFICES ASSUME Init PROVE Base
  OBVIOUS
<1>1. /\ Len(blocks) = 1 /\ scenario \in Scenarios /\ Ids = {1} /\ db = {1} /\ head = 1
      /\ blocks[1] = [number |-> 0, parent |-> 0, td |-> 0, stakes |-> GenesisStakes,
                      cand |-> Genesis, path |-> {1}]
  BY DEF Init, Ids
<1>2. /\ number(1) = 0 /\ parent(1) = 0 /\ td(1) = 0 /\ cand(1) = Genesis /\ Ancestors(1) = {1}
  BY <1>1 DEF number, parent, td, cand, Ancestors
<1>3. Epoch \in Nat
  BY EngineAssumption
<1>4. blocks \in Seq(BlockRec)
  <2>1. blocks[1] \in BlockRec
    BY <1>1, <1>3, EngineAssumption DEF BlockRec, Signers, Genesis
  <2>2. PICK r \in BlockRec : r = blocks[1]
    BY <2>1, Zenon
  <2>3. blocks = <<r>>
    BY <2>2, Zenon DEF Init
  <2> QED BY <2>3
<1>5. Parents /\ Paths
  BY <1>1, <1>2 DEF Parents, Paths
<1>6. Tree
  BY <1>1, <1>2, <1>4, <1>5, Zenon DEF Tree
<1>7. Store
  BY Zenon DEF Init, Store, Signers
<1>8. Headers
  BY Zenon DEF Init, Headers
<1>9. Writers
  BY EngineAssumption DEF Init, Writers, Writer, Idle
<1> QED BY <1>6, <1>7, <1>8, <1>9 DEF Base
-----------------------------------------------------------------------------
(* RefusedOnlyIfFallbackFails. *)

\* The gap block below a block does not change.
LEMMA StartStays ==
    ASSUME Tree, Kept, NEW p \in Ids, number(p) + 1 = Epoch
    PROVE  startGapBlock(p)' = startGapBlock(p) /\ startGapBlock(p) \in Ids
<1>1. PICK g \in GapAncestors(p) : startGapBlock(p) = g
  BY StartIsGapBlock, Zenon
<1>2. g \in Ancestors(p) /\ g \in Ids /\ number(g) = GapNumber
  BY GapFactsHold, Zenon DEF GapFacts
<1>3. number(p) \in 0 .. Epoch /\ Gap \in 1 .. Epoch - 1 /\ Epoch \in Nat
  BY BlockType, Numbers, Zenon DEF Tree
<1>4. number(g) = number(p) + 1 - Gap
  BY <1>2, <1>3 DEF GapNumber
<1>5. \A x, y \in Ancestors(p) : number(y) = number(x) => y = x
  BY DEF Tree, Paths
<1>6. \A x \in Ids : Stays(x)
  BY KeptBlocks, Zenon
<1>7. Ancestors(p)' = Ancestors(p) /\ number(p)' = number(p) /\ Gap' = Gap
      /\ \A x \in Ancestors(p) : number(x)' = number(x)
  BY <1>2, <1>6 DEF Stays, Kept, Gap, Tree, Paths
<1>8. g = CHOOSE x \in Ancestors(p)' : number(x)' = number(p)' + 1 - Gap'
  BY <1>2, <1>4, <1>5, <1>7
<1> QED BY <1>1, <1>2, <1>8, Zenon DEF startGapBlock

\* Why the fallback failed is a fact about old blocks.
LEMMA FallbackStays ==
    ASSUME Kept, NEW g \in Ids, NEW h \in Ids, NEW ss, FallbackFails(g, h, ss)
    PROVE  FallbackFails(g, h, ss)'
<1>1. blocks'[g] = blocks[g] /\ blocks'[h] = blocks[h]
  BY Zenon DEF Kept
<1>2. /\ candsAt(g)' = candsAt(g) /\ cand(g)' = cand(g)
      /\ capsAt(g)' = capsAt(g) /\ capsAt(h)' = capsAt(h)
  BY <1>1, Zenon DEF candsAt, capsAt, cand
<1> QED BY <1>2, Zenon DEF FallbackFails, HookPenalty

\* The parent of a checkpoint.
LEMMA BelowCheckpoint ==
    ASSUME Tree, NEW b \in Ids \ {1}, isCheckpoint(number(b))
    PROVE  /\ parent(b) \in Ids /\ parent(b) \in db /\ number(parent(b)) + 1 = Epoch
           /\ ~atGap(b) /\ GapAncestors(b) = GapAncestors(parent(b))
<1>1. PICK p : p = parent(b)
  OBVIOUS
<1>2. p \in db /\ p \in Ids /\ number(b) = number(p) + 1 /\ Ancestors(b) = Ancestors(p) \cup {b}
  BY <1>1 DEF Tree, Parents
<1>3. number(b) \in 0 .. Epoch
  BY BlockType
<1>4. number(b) = Epoch /\ GapNumber \in 1 .. Epoch - 1 /\ ~isGapBlock(number(b))
  BY <1>3, Numbers, EngineAssumption DEF Tree
<1> QED BY <1>1, <1>2, <1>4 DEF GapAncestors, atGap

\* A refused header, in terms of its gap block g.
RefusedFor(r, g) ==
    /\ g = startGapBlock(parent(r.block))
    /\ r.signers # cand(g) /\ FallbackFails(g, r.head, r.signers)

\* The property is about each refused header and its gap block.
LEMMA FallbackPerHeader ==
    RefusedOnlyIfFallbackFails <=> \A r \in refused : \E g : RefusedFor(r, g)
BY Zenon DEF RefusedOnlyIfFallbackFails, RefusedFor, FallbackFails, cand

\* A header is refused only when the fallback fails, and why it failed does
\* not change afterwards.
LEMMA FallbackStep ==
    ASSUME Base, Base', RefusedOnlyIfFallbackFails, TreeStep,
           refused' \subseteq refused \/ \E v, b, p, ss : Checks(v, b, p, ss)
    PROVE  RefusedOnlyIfFallbackFails'
<1>1. Kept /\ Tree /\ Headers
  BY TreeKept, Zenon DEF Base
<1>2. ASSUME NEW r, NEW g, r.block \in Ids \ {1}, isCheckpoint(number(r.block)), r.head \in Ids,
             RefusedFor(r, g)
      PROVE  RefusedFor(r, g)'
  <2>1. PICK b, p : b = r.block /\ p = parent(b)
    OBVIOUS
  <2>2. p \in Ids /\ number(p) + 1 = Epoch
    BY <1>1, <1>2, <2>1, BelowCheckpoint, Zenon
  <2>3. g = startGapBlock(p) /\ g \in Ids /\ startGapBlock(p)' = g
    BY <1>1, <1>2, <2>1, <2>2, StartStays, Zenon DEF RefusedFor
  <2>4. parent(b)' = p /\ cand(g)' = cand(g)
    BY <1>1, <1>2, <2>1, <2>3, KeptBlocks, Zenon DEF Stays
  <2>5. FallbackFails(g, r.head, r.signers)'
    BY <1>1, <1>2, <2>3, FallbackStays, Zenon DEF RefusedFor
  <2>6. r.signers # cand(g)
    BY <1>2, Zenon DEF RefusedFor
  <2>7. startGapBlock(parent(r.block))' = g
    BY <2>1, <2>3, <2>4, Zenon DEF startGapBlock, Ancestors, number, parent
  <2> QED BY <2>4, <2>5, <2>6, <2>7, Zenon DEF RefusedFor
<1>3. ASSUME NEW r \in refused PROVE \E g : RefusedFor(r, g)'
  <2>1. r.block \in Ids \ {1} /\ isCheckpoint(number(r.block)) /\ r.head \in Ids
    BY <1>1, Zenon DEF Headers
  <2>2. PICK g : RefusedFor(r, g)
    BY FallbackPerHeader, Zenon
  <2> QED BY <1>2, <2>1, <2>2, Zenon
<1>4. ASSUME NEW r \in refused', r \notin refused PROVE \E g : RefusedFor(r, g)'
  <2>1. PICK v, b, p, ss : Checks(v, b, p, ss)
    BY <1>4, Zenon
  <2>2. /\ r = [block |-> b, signers |-> ss, head |-> head] /\ p = parent(b) /\ b \in Ids \ {1}
        /\ isCheckpoint(number(b)) /\ ~validCheckpoint(correctHeader(p), p, ss)
    BY <1>4, <2>1, Zenon DEF Checks
  <2>3. r.block = b /\ r.signers = ss /\ r.head = head /\ head \in Ids
    BY <1>1, <2>2 DEF Tree
  <2>4. PICK g : g = startGapBlock(p)
    OBVIOUS
  <2>5. p \in Ids /\ number(p) + 1 = Epoch
    BY <1>1, <2>2, BelowCheckpoint, Zenon
  <2>6. g \in Ids
    BY <1>1, <2>4, <2>5, StartStays, Zenon
  <2>7. RefusedFor(r, g)
    BY <1>1, <2>2, <2>3, <2>4, <2>6, RefusedHeader, Zenon DEF RefusedFor
  <2> QED BY <1>2, <2>2, <2>3, <2>7, Zenon
<1>5. \A r \in refused' : \E g : RefusedFor(r, g)'
  BY <1>3, <1>4, Zenon
<1> QED BY <1>5, Zenon DEF RefusedOnlyIfFallbackFails, RefusedFor, FallbackFails, cand
-----------------------------------------------------------------------------
(* OwnBranch is kept by quiet behaviours. *)

\* A lookup gives what the cache and the database hold.
LEMMA QuietLookup ==
    ASSUME Base, OwnBranch, NEW p \in db, NEW ss, ss = signersAt(p)
    PROVE  Believes(p, ss)
<1>1. PICK x : x = closest(p)
  OBVIOUS
<1>2. Tree /\ Store /\ p \in Ids
  BY DEF Base, Tree
<1>3. IsClosest(p, x)
  BY <1>1, <1>2, ClosestExists, Zenon
<1>4. GapFacts(p) /\ x \in Ancestors(p) /\ x \in Ids
  BY <1>2, <1>3, GapFactsHold, Zenon DEF IsClosest, GapFacts
<1>5. GapFacts(x) /\ number(x) \in Nat /\ number(p) \in Nat
  BY <1>2, <1>4, GapFactsHold, BlockType, Zenon
<1>6. ss = IF x \in DOMAIN recents THEN recents[x] ELSE disk[x]
  BY <1>1, Zenon DEF signersAt, found
<1>7. x \in DOMAIN recents \/ (x \in DOMAIN disk /\ (atGap(x) \/ x = 1))
  BY <1>3 DEF IsClosest, Known, atGap
<1>8. ASSUME GapAncestors(x) = {} PROVE ss = Genesis
  <2>1. CASE x \in DOMAIN recents
    BY <1>6, <1>8, <2>1, Zenon DEF OwnBranch, CacheBelieves, Believes
  <2>2. CASE x \notin DOMAIN recents
    <3>1. x = 1
      BY <1>5, <1>7, <1>8, <2>2, Zenon DEF GapFacts
    <3> QED BY <1>2, <1>6, <2>2, <3>1, Zenon DEF Store
  <2> QED BY <2>1, <2>2, Zenon
<1>9. GapAncestors(p) = {} => ss = Genesis
  BY <1>4, <1>8, Zenon DEF GapFacts
<1>10. ASSUME NEW g \in GapAncestors(p), p = g PROVE ss = Current(g)
  <2>1. CASE x = g
    BY <1>6, <1>7, <2>1, Zenon DEF Current
  <2>2. CASE x # g
    <3>1. number(x) <= number(p) /\ number(x) # number(p)
      BY <1>2, <1>4, <1>10, <2>2, Zenon DEF Tree, Paths
    <3>2. number(p) = GapNumber /\ atGap(g) /\ number(g) = number(p) /\ g \in Ancestors(p)
      BY <1>4, <1>10, Zenon DEF GapFacts
    <3>3. GapAncestors(x) = {}
      BY <1>5, <3>1, <3>2 DEF GapFacts
    <3>4. ~Known(g)
      BY <1>3, <1>5, <3>1, <3>2 DEF IsClosest
    <3>5. g \notin DOMAIN recents /\ g \notin DOMAIN disk
      BY <3>2, <3>4, Zenon DEF Known, atGap
    <3> QED BY <1>8, <3>3, <3>5, Zenon DEF Current
  <2> QED BY <2>1, <2>2, Zenon
<1>11. ASSUME NEW g \in GapAncestors(p), p # g PROVE ss = disk[g]
  <2>1. Sealed(g)
    BY <1>11, Zenon DEF OwnBranch, SealedBelow, Passed
  <2>2. g \in Ancestors(p) /\ atGap(g) /\ number(g) = GapNumber
    BY <1>4, Zenon DEF GapFacts
  <2>3. number(g) <= number(x)
    BY <1>3, <2>1, <2>2, Zenon DEF IsClosest, Known, Sealed, atGap
  <2>4. g \in GapAncestors(x)
    BY <1>4, <2>3, Zenon DEF GapFacts
  <2>5. CASE x = g
    BY <1>6, <2>1, <2>5, Zenon DEF Sealed
  <2>6. CASE x # g
    <3>1. ~atGap(x) /\ number(g) < number(x)
      BY <1>5, <2>4, <2>6, Zenon DEF GapFacts
    <3>2. g \in Ids /\ number(g) \in Nat
      BY <1>2, <1>4, BlockType, Zenon DEF GapFacts
    <3>3. x # 1
      BY <1>2, <1>5, <3>1, <3>2 DEF Tree
    <3>4. x \in DOMAIN recents
      BY <1>7, <3>1, <3>3, Zenon
    <3> QED BY <1>6, <2>4, <2>6, <3>4, Zenon DEF OwnBranch, CacheBelieves, Believes
  <2> QED BY <2>5, <2>6, Zenon
<1> QED BY <1>9, <1>10, <1>11 DEF Believes

\* The same snapshots are believed after the step.
LEMMA BeliefStays ==
    ASSUME Tree, Kept, NEW b \in Ids, NEW ss, Believes(b, ss),
           \A g \in GapAncestors(b) : IF b = g THEN Current(g)' = Current(g) ELSE disk'[g] = disk[g]
    PROVE  Believes(b, ss)'
<1>1. GapAncestors(b)' = GapAncestors(b)
  BY KeptBlocks DEF Stays
<1> QED BY <1>1, Zenon DEF Believes

\* A gap block below a block after a step that keeps the tree was below it
\* before, and its election is the same.
LEMMA GapBlockKept ==
    ASSUME \A y \in Ids : Stays(y) /\ GapFacts(y), NEW x \in Ids, NEW g, g \in GapAncestors(x)'
    PROVE  /\ g \in GapAncestors(x) /\ g \in Ids /\ atGap(g) /\ g \in Ancestors(x)
           /\ cand(g)' = cand(g)
<1>1. g \in GapAncestors(x)
  BY Zenon DEF Stays
<1>2. g \in Ids /\ atGap(g) /\ g \in Ancestors(x)
  BY <1>1, Zenon DEF GapFacts
<1>3. cand(g)' = cand(g)
  BY <1>2, Zenon DEF Stays
<1> QED BY <1>1, <1>2, <1>3, Zenon

\* The belief of a verifier in the signers it looked up, from its parts.
LEMMA VerifiersBelieveAfter ==
    ASSUME \A v \in verifying' : \A p, ss : p = parent(v.block)' /\ ss = v.signers => Believes(p, ss)'
    PROVE  VerifiersBelieve'
BY DEF VerifiersBelieve, Believes, GapAncestors, Ancestors, Current, number, isGapBlock, Gap, parent

\* The belief in what the cache holds, from its parts.
LEMMA CacheBelievesAfter ==
    ASSUME \A b \in DOMAIN recents' : \A ss : ss = recents'[b] => Believes(b, ss)'
    PROVE  CacheBelieves'
BY DEF CacheBelieves, Believes, GapAncestors, Ancestors, Current, number, isGapBlock, Gap

\* A block that passed is in the tree.
LEMMA PassedAreBlocks ==
    ASSUME Tree, Headers
    PROVE  Passed \subseteq Ids
BY DEF Passed, Tree, Headers

\* OwnBranch after the step, from its parts for blocks and records of before.
LEMMA OwnBranchAfter ==
    ASSUME Base, Base', Kept,
           \A b \in DOMAIN recents' : \A ss : ss = recents'[b] => Believes(b, ss)',
           \A v \in verifying' : \A p, ss : p = parent(v.block)' /\ ss = v.signers => Believes(p, ss)',
           \A b \in Passed' : \A g \in GapAncestors(b)' : b # g => Sealed(g)',
           \A g \in DOMAIN recents' : atGap(g) => recents'[g] \in {Genesis, cand(g)},
           \A g \in DOMAIN disk' : atGap(g) => disk'[g] \in {Genesis, cand(g)},
           DOMAIN recents' \cup DOMAIN disk' \subseteq Ids,
           ElectsHead(updating)',
           \A r \in refused' : \A b : \A g \in GapAncestors(b) :
               b = r.block => disk'[g] = Genesis /\ cand(g) # Genesis,
           \A r \in refused' : r.block \in Ids
    PROVE  OwnBranch'
<1>1. \A b \in Ids : Stays(b)
  BY KeptBlocks, Zenon DEF Base
<1>2. CacheBelieves'
  BY CacheBelievesAfter, Zenon
<1>3. VerifiersBelieve'
  BY VerifiersBelieveAfter, Zenon
<1>4. SealedBelow'
  BY Zenon DEF SealedBelow
<1>5. OwnValues'
  BY <1>1, Zenon DEF OwnValues, Stays
<1>6. RefusedStale'
  <2> SUFFICES ASSUME NEW r \in refused', NEW g \in GapAncestors(r.block)'
               PROVE  (disk[g] = Genesis /\ cand(g) # Genesis)'
    BY Zenon DEF RefusedStale
  <2>1. PICK b : b = r.block
    BY Zenon
  <2>2. g \in GapAncestors(b)' /\ b \in Ids
    BY <2>1, Zenon
  <2>3. g \in GapAncestors(b) /\ g \in Ids
    <3>1. GapAncestors(b)' = GapAncestors(b)
      BY <1>1, <2>2, Zenon DEF Stays
    <3>2. GapFacts(b)
      BY <2>2, GapFactsHold, Zenon DEF Base
    <3> QED BY <2>2, <3>1, <3>2, Zenon DEF GapFacts
  <2>4. disk'[g] = Genesis /\ cand(g) # Genesis /\ cand(g)' = cand(g)
    <3>1. cand(g)' = cand(g)
      BY <1>1, <2>3, Zenon DEF Stays
    <3>2. disk'[g] = Genesis /\ cand(g) # Genesis
      BY <2>1, <2>3, Zenon
    <3> QED BY <3>1, <3>2, Zenon
  <2> QED BY <2>4, Zenon
<1> QED BY <1>2, <1>3, <1>4, <1>5, <1>6, Zenon DEF OwnBranch

\* Nothing is looked up or stored: the cache, the database and the lists of
\* headers keep what they have, some of it.
LEMMA QuietRests ==
    ASSUME Base, Base', OwnBranch, TreeStep, recents' = recents, disk' = disk,
           \A v \in verifying' : v \in verifying
               \/ \E b, p, ss : /\ b = v.block /\ ss = v.signers /\ p = parent(b)'
                                /\ p \in Ids /\ Believes(p, ss),
           Passed' \subseteq Passed, refused' \subseteq refused, ElectsHead(updating)'
    PROVE  OwnBranch'
<1>1. Kept /\ Tree /\ Store /\ Headers
  BY TreeKept, Zenon DEF Base
<1>2. \A b \in Ids : Stays(b)
  BY <1>1, KeptBlocks, Zenon
<1>3. \A g : Current(g)' = Current(g)
  BY Zenon DEF Current
<1>4. ASSUME NEW b \in Ids, NEW ss, Believes(b, ss) PROVE Believes(b, ss)'
  BY <1>1, <1>3, <1>4, BeliefStays, Zenon
<1>5. ASSUME NEW b \in DOMAIN recents', NEW ss, ss = recents'[b] PROVE Believes(b, ss)'
  <2>1. b \in Ids /\ Believes(b, ss)
    BY <1>1, <1>5, Zenon DEF Store, Tree, OwnBranch, CacheBelieves
  <2> QED BY <1>4, <2>1, Zenon
<1>6. ASSUME NEW v \in verifying', NEW p, NEW ss, p = parent(v.block)', ss = v.signers
      PROVE  Believes(p, ss)'
  <2>1. CASE v \in verifying
    <3>1. PICK b : b = v.block
      BY Zenon
    <3>2. b \in Ids \ {1}
      BY <1>1, <2>1, <3>1, Zenon DEF Headers, Tree
    <3>3. parent(b) \in Ids /\ parent(b)' = parent(b)
      BY <1>1, <1>2, <3>2, Zenon DEF Tree, Parents, Stays
    <3>4. p = parent(b)
      BY <1>6, <3>1, <3>3, Zenon
    <3>5. p \in Ids /\ Believes(p, ss)
      BY <1>6, <2>1, <3>1, <3>3, <3>4, Zenon DEF OwnBranch, VerifiersBelieve
    <3> QED BY <1>4, <3>5, Zenon
  <2>2. CASE v \notin verifying
    <3>1. PICK b, q, s2 : b = v.block /\ s2 = v.signers /\ q = parent(b)' /\ q \in Ids /\ Believes(q, s2)
      BY <2>2, Zenon
    <3>2. q = p /\ s2 = ss
      BY <1>6, <3>1, Zenon
    <3> QED BY <1>4, <3>1, <3>2, Zenon
  <2> QED BY <2>1, <2>2, Zenon
<1>7. ASSUME NEW b \in Passed', NEW g \in GapAncestors(b)', b # g PROVE Sealed(g)'
  <2>1. b \in Passed /\ b \in Ids
    BY <1>1, PassedAreBlocks, Zenon
  <2>2. g \in GapAncestors(b)
    BY <1>2, <2>1, Zenon DEF Stays
  <2>3. Sealed(g)
    BY <1>7, <2>1, <2>2, Zenon DEF OwnBranch, SealedBelow
  <2> QED BY <2>3, Zenon DEF Sealed
<1>8. DOMAIN recents' \cup DOMAIN disk' \subseteq Ids
  BY <1>1, Zenon DEF Store, Tree
<1>9. /\ \A g \in DOMAIN recents' : atGap(g) => recents'[g] \in {Genesis, cand(g)}
      /\ \A g \in DOMAIN disk' : atGap(g) => disk'[g] \in {Genesis, cand(g)}
  BY Zenon DEF OwnBranch, OwnValues
<1>10. /\ \A r \in refused' : \A b : \A g \in GapAncestors(b) :
              b = r.block => disk'[g] = Genesis /\ cand(g) # Genesis
       /\ \A r \in refused' : r.block \in Ids
  BY <1>1, Zenon DEF OwnBranch, RefusedStale, Headers
<1> QED BY <1>1, <1>5, <1>6, <1>7, <1>8, <1>9, <1>10, OwnBranchAfter, Zenon

\* Nobody builds on the head while UpdateM1 works on it.
LEMMA ElectsHeadGrows ==
    ASSUME Tree, NEW p, NEW n, Grown(p, n), mayArrive(p), "race" \notin faults, head' = head,
           NEW u, u.stage # "idle" => InUpdate, ElectsHead(u)
    PROVE  ElectsHead(u)'
<1>1. CASE u.stage = "idle"
  BY <1>1, Zenon DEF ElectsHead
<1>2. CASE u.stage # "idle"
  <2>1. PICK h : h = head
    BY Zenon
  <2>2. /\ atGap(h) /\ h \in Ids /\ (\A b \in Ids : h \in Ancestors(b) => b = h)
        /\ (u.stage = "install" => u.elected = cand(h))
    BY <1>2, <2>1, Zenon DEF ElectsHead, Tree
  <2>3. Kept /\ p \in Ids /\ n \notin Ids
    BY Zenon DEF Grown, Tree
  <2>4. ~atGap(p)
    BY <1>2, Zenon DEF mayArrive, atGap
  <2>5. h \notin Ancestors(p)
    BY <2>2, <2>3, <2>4, Zenon
  <2>6. h \notin Ancestors(n)' /\ Ids' = Ids \cup {n}
    BY <2>2, <2>3, <2>5, Zenon DEF Grown
  <2>7. \A b \in Ids : Ancestors(b)' = Ancestors(b)
    BY <2>3, KeptBlocks, Zenon DEF Stays
  <2>8. \A b \in Ids' : h \in Ancestors(b)' => b = h
    BY <2>2, <2>6, <2>7, Zenon
  <2>9. atGap(h)' /\ cand(h)' = cand(h) /\ head' = h
    BY <2>1, <2>2, <2>3, KeptBlocks, Zenon DEF Stays
  <2> QED BY <2>2, <2>8, <2>9, Zenon DEF ElectsHead, atGap, number, isGapBlock, cand
<1> QED BY <1>1, <1>2, Zenon

\* A lookup for a new header returns what a lookup of its parent gives.
LEMMA QuietLoad ==
    ASSUME Base, Base', TreeStep, Quiet, OwnBranch, NEW p, NEW n, Loads(p, n)
    PROVE  OwnBranch'
<1>1. Tree /\ Headers /\ Kept /\ Grown(p, n) /\ mayArrive(p) /\ p \in db /\ p \in Ids
  BY TreeKept, Zenon DEF Base, Loads, Grown, Tree
<1>2. UNCHANGED <<db, head, recents, disk, verified, refused, updating, mining, restarts, scenario>>
  BY Zenon DEF Loads
<1>3. PICK v : /\ v = [block |-> n, signers |-> signersAt(p), fresh |-> p \notin DOMAIN recents]
               /\ verifying' = verifying \cup {v}
  BY Zenon DEF Loads
<1>4. Believes(p, signersAt(p))
  <2>1. PICK ss : ss = signersAt(p)
    BY Zenon
  <2> QED BY <1>1, <2>1, QuietLookup, Zenon
<1>5. ASSUME NEW w \in verifying', w \notin verifying
      PROVE  \E b, q, ss : b = w.block /\ ss = w.signers /\ q = parent(b)' /\ q \in Ids /\ Believes(q, ss)
  <2>1. w = v
    BY <1>3, <1>5, Zenon
  <2>2. w.block = n /\ w.signers = signersAt(p)
    BY <1>3, <2>1, Zenon
  <2>3. parent(n)' = p
    BY <1>1, Zenon DEF Grown
  <2>4. PICK ss : ss = signersAt(p)
    BY Zenon
  <2> QED BY <1>1, <1>4, <2>2, <2>3, <2>4, Zenon
<1>6. ElectsHead(updating)'
  <2>1. PICK u : u = updating
    BY Zenon
  <2>2. ElectsHead(u) /\ (u.stage # "idle" => InUpdate) /\ "race" \notin faults /\ head' = head
    BY <1>2, <2>1, Zenon DEF OwnBranch, InUpdate, Quiet
  <2>3. ElectsHead(u)'
    BY <1>1, <2>2, ElectsHeadGrows, Zenon
  <2> QED BY <1>2, <2>1, <2>3, Zenon DEF ElectsHead
<1>7. Passed' = Passed /\ refused' = refused
  BY <1>2, Zenon DEF Passed
<1> QED BY <1>2, <1>5, <1>6, <1>7, QuietRests

\* A block just written has no descendants.
LEMMA NothingOnTop ==
    ASSUME Base, NEW b \in Ids \ db, NEW c \in Ids, b \in Ancestors(c)
    PROVE  c = b
BY Zenon DEF Base, Tree, Paths

\* Inserting a block keeps OwnBranch; a new head at the gap starts UpdateM1 on
\* it with nothing on top.
LEMMA QuietWrite ==
    ASSUME Base, Base', TreeStep, OwnBranch, NEW b \in Ids \ db, WriteBlock(b)
    PROVE  OwnBranch'
<1>1. /\ UNCHANGED <<blocks, recents, disk, verifying, refused, mining, restarts, scenario>>
      /\ verified' = verified \ {b} /\ db' = db \cup {b} /\ b \in verified
  BY Zenon DEF WriteBlock
<1>2. Passed' \subseteq Passed
  BY <1>1, Zenon DEF Passed
<1>3. ElectsHead(updating)'
  <2>1. CASE canonical(b) /\ isGapBlock(number(b))
    <3>1. head' = b /\ updating' = [updating EXCEPT !.stage = "elect"]
      BY <2>1, Zenon DEF WriteBlock
    <3>2. updating'.stage = "elect"
      BY <3>1, Zenon DEF Base, Writers, Writer
    <3>3. \A c \in Ids : b \in Ancestors(c) => c = b
      BY NothingOnTop, Zenon
    <3>4. Ids' = Ids /\ (\A c \in Ids : Ancestors(c)' = Ancestors(c)) /\ isGapBlock(number(b))'
      BY <1>1, <2>1, Zenon DEF Ids, Ancestors, isGapBlock, number, Gap
    <3> QED BY <3>1, <3>2, <3>3, <3>4 DEF ElectsHead, atGap, isGapBlock, number
  <2>2. CASE ~(canonical(b) /\ isGapBlock(number(b)))
    <3>1. updating'.stage = "idle"
      BY <2>2, Zenon DEF WriteBlock
    <3> QED BY <3>1, Zenon DEF ElectsHead
  <2> QED BY <2>1, <2>2, Zenon
<1> QED BY <1>1, <1>2, <1>3, QuietRests, Zenon

\* The candidates are those of the head.
LEMMA ElectsOnHead ==
    ASSUME NEW u, NEW u2, ElectsHead(u), u.stage # "idle", u2 = elect(u), UNCHANGED <<blocks, head, scenario>>
    PROVE  ElectsHead(u2)'
<1>1. u2.elected = cand(head) /\ u2.stage = "install"
  BY Zenon DEF elect, cand
<1>2. (atGap(head)' <=> atGap(head)) /\ Ids' = Ids /\ cand(head)' = cand(head)
  BY Zenon DEF atGap, isGapBlock, number, Gap, Ids, cand
<1>3. \A b \in Ids : head \in Ancestors(b)' => b = head
  BY Zenon DEF ElectsHead, Ancestors
<1> QED BY <1>1, <1>2, <1>3, Zenon DEF ElectsHead, atGap, isGapBlock, number, Gap, Ids, cand, Ancestors

\* Reading the candidates at the head keeps OwnBranch: no block arrives on a
\* gap block while UpdateM1 runs.
LEMMA QuietElect ==
    ASSUME Base, Base', TreeStep, OwnBranch, UpdateM1Elect
    PROVE  OwnBranch'
<1>1. /\ UNCHANGED <<blocks, db, head, recents, disk, verifying, verified, refused, mining, restarts, scenario>>
      /\ updating.stage = "elect" /\ updating' = elect(updating)
  BY Zenon DEF UpdateM1Elect
<1>2. PICK u, u2 : u = updating /\ u2 = updating'
  BY Zenon
<1>3. ElectsHead(u) /\ u.stage # "idle" /\ u2 = elect(u)
  BY <1>1, <1>2, Zenon DEF OwnBranch, elect
<1>4. ElectsHead(u2)'
  BY <1>1, <1>3, ElectsOnHead, Zenon
<1>5. ElectsHead(updating)'
  BY <1>2, <1>4, Zenon DEF ElectsHead
<1>6. Passed' = Passed
  BY <1>1, Zenon DEF Passed
<1> QED BY <1>1, <1>5, <1>6, QuietRests, Zenon

\* The cache is gone, and with it whoever looked at it.
LEMMA QuietForgets ==
    ASSUME Base, Base', TreeStep, OwnBranch, Rests, Forgets,
           \A v \in verifying' : \A g : g = parent(v.block) /\ g \in DOMAIN recents => g \in DOMAIN recents',
           ElectsHead(updating)'
    PROVE  OwnBranch'
<1>1. Kept /\ Tree /\ Store /\ Headers
  BY TreeKept, Zenon DEF Base
<1>2. \A b \in Ids : Stays(b)
  BY <1>1, KeptBlocks, Zenon
<1>3. ASSUME NEW b \in Ids, NEW ss, Believes(b, ss), b \in DOMAIN recents => b \in DOMAIN recents'
      PROVE  Believes(b, ss)'
  <2>1. Current(b)' = Current(b)
    BY <1>3, Zenon DEF Current, Forgets
  <2>2. \A g \in GapAncestors(b) : IF b = g THEN Current(g)' = Current(g) ELSE disk'[g] = disk[g]
    BY <2>1, Zenon DEF Forgets
  <2> QED BY <1>1, <1>3, <2>2, BeliefStays, Zenon
<1>5. ASSUME NEW b \in DOMAIN recents', NEW ss, ss = recents'[b] PROVE Believes(b, ss)'
  <2>1. b \in Ids /\ Believes(b, ss)
    BY <1>1, <1>5, Zenon DEF Store, Tree, OwnBranch, CacheBelieves, Forgets
  <2> QED BY <1>3, <2>1, Zenon
<1>6. ASSUME NEW v \in verifying', NEW p, NEW ss, p = parent(v.block)', ss = v.signers
      PROVE  Believes(p, ss)'
  <2>1. PICK b : b = v.block
    BY Zenon
  <2>2. b \in Ids \ {1} /\ v \in verifying
    BY <1>1, <2>1, Zenon DEF Headers, Tree, Rests
  <2>3. parent(b) \in Ids /\ p = parent(b)
    BY <1>1, <1>2, <1>6, <2>1, <2>2 DEF Tree, Parents, Stays
  <2>4. p \in Ids /\ Believes(p, ss)
    BY <1>6, <2>1, <2>2, <2>3 DEF OwnBranch, VerifiersBelieve
  <2>5. p \in DOMAIN recents => p \in DOMAIN recents'
    BY <2>1, <2>3, Zenon
  <2> QED BY <1>3, <2>4, <2>5, Zenon
<1>7. ASSUME NEW b \in Passed', NEW g \in GapAncestors(b)', b # g PROVE Sealed(g)'
  <2>1. b \in Passed /\ b \in Ids
    BY <1>1, Zenon DEF Passed, Tree, Headers, Rests
  <2>2. g \in GapAncestors(b)
    BY <1>2, <2>1, Zenon DEF Stays
  <2>3. Sealed(g)
    BY <1>7, <2>1, <2>2, Zenon DEF OwnBranch, SealedBelow
  <2> QED BY <2>3, Zenon DEF Sealed, Forgets
<1>8. DOMAIN recents' \cup DOMAIN disk' \subseteq Ids
  BY <1>1, Zenon DEF Store, Tree, Forgets
<1>9. /\ \A g \in DOMAIN recents' : atGap(g) => recents'[g] \in {Genesis, cand(g)}
      /\ \A g \in DOMAIN disk' : atGap(g) => disk'[g] \in {Genesis, cand(g)}
  BY Zenon DEF OwnBranch, OwnValues, Forgets
<1>10. /\ \A r \in refused' : \A b : \A g \in GapAncestors(b) :
              b = r.block => disk'[g] = Genesis /\ cand(g) # Genesis
       /\ \A r \in refused' : r.block \in Ids
  BY <1>1, Zenon DEF OwnBranch, RefusedStale, Headers, Rests, Forgets
<1> QED BY <1>1, <1>5, <1>6, <1>7, <1>8, <1>9, <1>10, OwnBranchAfter

\* A restart keeps OwnBranch: what the cache held of a gap block with
\* descendants is on disk.
LEMMA QuietRestart ==
    ASSUME Base, Base', TreeStep, OwnBranch, Rests, Forgets, Restart
    PROVE  OwnBranch'
<1>1. verifying' = {} /\ updating'.stage = "idle"
  BY Zenon DEF Restart, Idle
<1>2. ElectsHead(updating)'
  BY <1>1, Zenon DEF ElectsHead
<1> QED BY <1>1, <1>2, QuietForgets, Zenon

=============================================================================
