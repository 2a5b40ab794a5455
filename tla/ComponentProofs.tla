-------------------------- MODULE ComponentProofs --------------------------
(***************************************************************************)
(* Proofs about parts of the node that act on their own.  First the rounds *)
(* of PosvRound: the order of the masternodes and the pairing of creators  *)
(* and validators, for lists and epochs of any length, any number of       *)
(* masternodes that are down and any sequence of elections.  Then the      *)
(* shuffle of the validators (M2Shuffle), the batches of a synchronising   *)
(* node (FullSync), and the goroutines that prepare and insert one block   *)
(* (BlockPrep).  Each of these is an instance with constants and variables *)
(* of this module that have the same names; only the index of M2Shuffle's  *)
(* loop is called drawing here.                                            *)
(***************************************************************************)
EXTENDS PosvRound, FiniteSetTheorems, TLAPS

\* A checkpoint carries a list without repetitions (UpdateM1 takes the candidates of
\* the snapshot, a map) and the validators GenM2FromRandomize draws for it, which are
\* a permutation of its indices (proved below).
ElectionsOK ==
    /\ Epoch \in Nat \ {0}
    /\ \A e \in Elections :
        /\ e.list \in Seq(Accounts) /\ Len(e.list) > 0
        /\ \A i, j \in DOMAIN e.list : e.list[i] = e.list[j] => i = j
        /\ e.m2 \in [1 .. Len(e.list) -> 0 .. Len(e.list) - 1]
        /\ \A i, j \in 1 .. Len(e.list) : e.m2[i] = e.m2[j] => i = j

\* The inductive invariant.
Placed ==
    /\ pos \in Nat /\ elected \in Elections /\ next \in Elections
    /\ creator \in Range(elected.list)
    /\ IsFiniteSet(down)

-----------------------------------------------------------------------------
\* Positions start at 0, sequences at 1.
LEMMA FromZero ==
    ASSUME NEW n \in Nat, NEW x \in 1 .. n
    PROVE  x - 1 \in 0 .. n - 1 /\ (x - 1) + 1 = x
OBVIOUS

\* The index of a member of a list without repetitions.
LEMMA PositionOfMember ==
    ASSUME ElectionsOK, NEW e \in Elections, NEW m \in Range(e.list)
    PROVE  /\ position(e.list, m) \in 0 .. Len(e.list) - 1
           /\ e.list[position(e.list, m) + 1] = m
<1> DEFINE l == e.list
           i == CHOOSE k \in DOMAIN l : l[k] = m
<1>1. l \in Seq(Accounts)
    BY DEF ElectionsOK
<1>2. PICK k \in DOMAIN l : l[k] = m
    BY DEF Range
<1>3. i \in DOMAIN l /\ l[i] = m
    BY <1>2
<1>4. DOMAIN l = 1 .. Len(l) /\ Len(l) \in Nat
    BY <1>1
<1>5. position(l, m) = i - 1
    BY DEF position
<1>6. i \in 1 .. Len(l)
    BY <1>3, <1>4
<1> HIDE DEF i, l
<1>7. i - 1 \in 0 .. Len(l) - 1 /\ (i - 1) + 1 = i
    BY <1>4, <1>6, FromZero
<1> USE DEF i, l
<1> QED
    BY <1>3, <1>5, <1>7

\* Different members have different indices.
LEMMA PositionTellsApart ==
    ASSUME ElectionsOK, NEW e \in Elections,
           NEW m \in Range(e.list), NEW o \in Range(e.list),
           position(e.list, m) = position(e.list, o)
    PROVE  m = o
BY PositionOfMember

\* Hop counts the turns between two masternodes of a list of n.
LEMMA HopRange ==
    ASSUME NEW n \in Nat, NEW p \in 0 .. n - 1, NEW c \in 0 .. n - 1
    PROVE  Hop(n, p, c) \in 0 .. n - 1
BY DEF Hop

\* It tells all successors of a masternode apart.
LEMMA HopInjective ==
    ASSUME NEW n \in Nat, NEW p \in 0 .. n - 1, NEW c \in 0 .. n - 1, NEW d \in 0 .. n - 1,
           Hop(n, p, c) = Hop(n, p, d)
    PROVE  c = d
BY DEF Hop

\* No turn lies in between exactly for the masternode in turn.
LEMMA HopZero ==
    ASSUME NEW n \in Nat \ {0}, NEW p \in 0 .. n - 1, NEW c \in 0 .. n - 1
    PROVE  Hop(n, p, c) = 0 <=> (p + 1) % n = c
<1>1. CASE p + 1 < n
    <2>1. (p + 1) % n = p + 1
        BY <1>1
    <2> QED
        BY <1>1, <2>1 DEF Hop
<1>2. CASE p + 1 = n
    <2>1. (p + 1) % n = 0
        BY <1>2
    <2> QED
        BY <1>2, <2>1 DEF Hop
<1> QED
    BY <1>1, <1>2

\* Moving all indices of a list on by the same number keeps them apart.
LEMMA M2IndexInjective ==
    ASSUME NEW n \in Nat \ {0}, NEW v \in 0 .. n - 1, NEW w \in 0 .. n - 1,
           NEW k \in 0 .. n - 1, m2Index(n, v, k) = m2Index(n, w, k)
    PROVE  v = w
<1>1. v % n = v /\ w % n = w
    OBVIOUS
<1>2. ASSUME NEW x \in 0 .. n - 1
      PROVE  (x + k) % n = IF x + k < n THEN x + k ELSE x + k - n
    <2>1. CASE x + k < n
        BY <2>1
    <2>2. CASE x + k >= n
        <3>1. x + k \in n .. (2 * n - 1)
            BY <2>2
        <3> QED
            BY <2>2, <3>1
    <2> QED
        BY <2>1, <2>2
<1>3. (v + k) % n = (w + k) % n
    BY <1>1 DEF m2Index
<1> QED
    BY <1>2, <1>3

\* An index of the list again.
LEMMA M2IndexRange ==
    ASSUME NEW n \in Nat \ {0}, NEW v \in 0 .. n - 1, NEW k \in 0 .. n - 1
    PROVE  m2Index(n, v, k) \in 0 .. n - 1
BY DEF m2Index

-----------------------------------------------------------------------------
\* Placed holds of the genesis block.
LEMMA InitPlaced == ElectionsOK /\ Init => Placed
BY FS_EmptySet DEF Init, Placed

\* coming is one of the elections, and its checkpoint keeps pos a number.
LEMMA ComingPlaced == Placed => coming \in Elections
BY DEF Placed, coming

\* Every step keeps it.
LEMMA StepPlaced == ElectionsOK /\ Placed /\ [Next]_vars => Placed'
<1> SUFFICES ASSUME ElectionsOK, Placed, [Next]_vars PROVE Placed'
    OBVIOUS
<1>1. CASE Tick
    BY <1>1 DEF Tick, Placed
<1>2. ASSUME NEW m \in Accounts, Fail(m) PROVE Placed'
    <2>1. IsFiniteSet(down')
        BY <1>2, FS_AddElement DEF Fail, Placed
    <2> QED
        BY <1>2, <2>1 DEF Fail, Placed
<1>3. ASSUME NEW m \in Accounts, Commit(m) PROVE Placed'
    BY <1>3 DEF Commit, Placed
<1>4. ASSUME NEW m \in Accounts, Accept(m) PROVE Placed'
    <2>1. elected' \in Elections
        BY <1>4, ComingPlaced DEF Accept
    <2>2. next' \in Elections
        BY <1>4 DEF Accept, Placed
    <2>3. creator' \in Range(elected'.list)
        BY <1>4 DEF Accept, validated, hasValidator
    <2>4. pos' \in Nat
        BY <1>4 DEF Accept, Placed, ElectionsOK
    <2> QED
        BY <1>4, <2>1, <2>2, <2>3, <2>4 DEF Accept, Placed
<1>5. CASE UNCHANGED vars
    BY <1>5 DEF vars, Placed
<1> QED
    BY <1>1, <1>2, <1>3, <1>4, <1>5 DEF Next

\* So it always holds.
LEMMA AlwaysPlaced == ASSUME ElectionsOK PROVE Spec => []Placed
BY InitPlaced, StepPlaced, PTL DEF Spec

\* The creator of every head is in the list that is in force: commitNewWork gives up
\* for an unknown predecessor only on the genesis block.
THEOREM CreatorIsListed == ASSUME ElectionsOK PROVE Spec => []CreatorListed
<1>1. Placed => CreatorListed
    BY DEF Placed, CreatorListed, list
<1> QED
    BY <1>1, AlwaysPlaced, PTL

\* Competing blocks on one parent never tie, and the one in turn is the heaviest.
THEOREM DifficultiesDiffer == ASSUME ElectionsOK PROVE Spec => []DifficultyTellsApart
<1>1. ASSUME Placed PROVE DifficultyTellsApart
    <2> DEFINE n == Len(elected.list)
               P(m) == position(elected.list, m)
    <2>1. n \in Nat \ {0} /\ elected \in Elections /\ creator \in Range(elected.list)
        BY <1>1 DEF Placed, ElectionsOK
    <2>2. P(creator) \in 0 .. n - 1
        BY <2>1, PositionOfMember
    <2>3. \A m \in Range(elected.list) : P(m) \in 0 .. n - 1
        BY <2>1, PositionOfMember
    <2>4. \A m \in Range(elected.list) : Hop(n, P(creator), P(m)) \in 0 .. n - 1
        BY <2>1, <2>2, <2>3, HopRange
    <2>5. \A m : calcDifficulty(m) = n - Hop(n, P(creator), P(m))
        BY DEF calcDifficulty, len, list
    <2> HIDE DEF P, n
    <2>6. \A m \in Range(elected.list) : calcDifficulty(m) \in 1 .. n
        BY <2>1, <2>4, <2>5
    <2>7. ASSUME NEW m \in Range(elected.list), NEW o \in Range(elected.list),
                 calcDifficulty(m) = calcDifficulty(o)
          PROVE  m = o
        <3>1. Hop(n, P(creator), P(m)) = Hop(n, P(creator), P(o))
            BY <2>1, <2>4, <2>5, <2>7
        <3>2. P(m) = P(o)
            BY <2>1, <2>2, <2>3, <3>1, HopInjective
        <3> QED
            BY <2>1, <3>2, PositionTellsApart DEF P
    <2>8. ASSUME NEW m \in Range(elected.list)
          PROVE  calcDifficulty(m) = n <=> (P(creator) + 1) % n = P(m)
        <3>1. calcDifficulty(m) = n <=> Hop(n, P(creator), P(m)) = 0
            BY <2>1, <2>4, <2>5
        <3>2. Hop(n, P(creator), P(m)) = 0 <=> (P(creator) + 1) % n = P(m)
            BY <2>1, <2>2, <2>3, HopZero
        <3> QED
            BY <3>1, <3>2
    <2> QED
        BY <2>6, <2>7, <2>8 DEF DifficultyTellsApart, len, list, P, n
<1> QED
    BY <1>1, AlwaysPlaced, PTL

-----------------------------------------------------------------------------
\* The validator of a masternode of the coming list is one of that list, and no two
\* masternodes share theirs.
LEMMA ValidatorPairs ==
    ASSUME ElectionsOK, Placed
    PROVE  /\ \A m \in Range(coming.list) : GetValidator(m) \in Range(coming.list)
           /\ \A m, o \in Range(coming.list) : GetValidator(m) = GetValidator(o) => m = o
<1> DEFINE l == coming.list
           n == Len(l)
           P(m) == position(l, m)
           v == coming.m2
           I(m) == m2Index(n, v[P(m) + 1], moveM2(n))
<1>1. coming \in Elections
    BY ComingPlaced
<1>2. n \in Nat \ {0} /\ DOMAIN l = 1 .. n
    BY <1>1 DEF ElectionsOK
<1>3. \A i, j \in 1 .. n : l[i] = l[j] => i = j
    BY <1>1, <1>2 DEF ElectionsOK
<1>4. v \in [1 .. n -> 0 .. n - 1] /\ \A i, j \in 1 .. n : v[i] = v[j] => i = j
    BY <1>1 DEF ElectionsOK
<1>5. \A m \in Range(l) : P(m) \in 0 .. n - 1
    BY <1>1, PositionOfMember
<1>6. moveM2(n) \in 0 .. n - 1
    <2>1. pos \in Nat /\ Epoch \in Nat \ {0}
        BY DEF Placed, ElectionsOK
    <2>2. (pos + 1) % Epoch \in Nat
        BY <2>1
    <2>3. ((pos + 1) % Epoch) \div n \in Nat
        BY <1>2, <2>2
    <2> QED
        BY <1>2, <2>3 DEF moveM2
<1>7. \A m : GetValidator(m) = l[I(m) + 1]
    BY DEF GetValidator
<1> HIDE DEF P, v, n, l
<1>8. \A m \in Range(l) : P(m) + 1 \in 1 .. n
    BY <1>2, <1>5
<1>9. \A m \in Range(l) : v[P(m) + 1] \in 0 .. n - 1
    BY <1>4, <1>8
<1>10. \A m \in Range(l) : I(m) \in 0 .. n - 1
    BY <1>2, <1>6, <1>9, M2IndexRange
<1>11. \A m \in Range(l) : I(m) + 1 \in 1 .. n
    BY <1>2, <1>10
<1>12. ASSUME NEW m \in Range(l) PROVE GetValidator(m) \in Range(l)
    BY <1>2, <1>7, <1>11 DEF Range
<1>13. ASSUME NEW m \in Range(l), NEW o \in Range(l), GetValidator(m) = GetValidator(o)
       PROVE  m = o
    <2>1. I(m) + 1 = I(o) + 1
        BY <1>3, <1>7, <1>11, <1>13
    <2>2. I(m) = I(o)
        BY <1>2, <1>10, <2>1
    <2>3. v[P(m) + 1] = v[P(o) + 1]
        BY <1>2, <1>6, <1>9, <2>2, M2IndexInjective
    <2>4. P(m) + 1 = P(o) + 1
        BY <1>4, <1>8, <2>3
    <2>5. P(m) = P(o)
        BY <1>2, <1>5, <2>4
    <2> QED
        BY <1>1, <2>5, PositionTellsApart DEF P, l
<1> QED
    BY <1>12, <1>13 DEF l

\* Every masternode validates the blocks of exactly one, however far moveM2 has moved
\* the pairs in the epoch.
THEOREM ValidatorsAreDistinct == ASSUME ElectionsOK PROVE Spec => []ValidatorsDistinct
<1>1. Placed => ValidatorsDistinct
    BY ValidatorPairs DEF ValidatorsDistinct
<1> QED
    BY <1>1, AlwaysPlaced, PTL

\* A list without repetitions has as many members as entries.
LEMMA MembersCounted ==
    ASSUME ElectionsOK, NEW e \in Elections
    PROVE  IsFiniteSet(Range(e.list)) /\ Cardinality(Range(e.list)) = Len(e.list)
<1> DEFINE l == e.list
           f == [i \in 1 .. Len(l) |-> l[i]]
<1>1. Len(l) \in Nat /\ DOMAIN l = 1 .. Len(l)
    BY DEF ElectionsOK
<1>2. \A i, j \in 1 .. Len(l) : l[i] = l[j] => i = j
    BY <1>1 DEF ElectionsOK
<1>3. f \in Bijection(1 .. Len(l), Range(l))
    BY <1>1, <1>2 DEF Bijection, Injection, Surjection, IsInjective, Range
<1>4. ExistsBijection(1 .. Len(l), Range(l))
    BY <1>3 DEF ExistsBijection
<1> QED
    BY <1>1, <1>4, FS_CountingElements, FS_NatBijection

\* Three finite sets cover at most the sum of their sizes.
LEMMA CoverBound ==
    ASSUME NEW A, NEW B, NEW C, NEW S, IsFiniteSet(A), IsFiniteSet(B), IsFiniteSet(C),
           S \subseteq A \union B \union C
    PROVE  Cardinality(S) <= Cardinality(A) + Cardinality(B) + Cardinality(C)
<1>1. /\ IsFiniteSet(A \union B)
      /\ Cardinality(A \union B) <= Cardinality(A) + Cardinality(B)
    <2>1. Cardinality(A \union B) = Cardinality(A) + Cardinality(B) - Cardinality(A \cap B)
        BY FS_Union
    <2>2. IsFiniteSet(A \union B) /\ IsFiniteSet(A \cap B)
        BY FS_Union, FS_Intersection
    <2> QED
        BY <2>1, <2>2, FS_CardinalityType
<1>2. /\ IsFiniteSet(A \union B \union C)
      /\ Cardinality(A \union B \union C) <= Cardinality(A \union B) + Cardinality(C)
    <2>1. Cardinality((A \union B) \union C)
            = Cardinality(A \union B) + Cardinality(C) - Cardinality((A \union B) \cap C)
        BY <1>1, FS_Union
    <2>2. IsFiniteSet((A \union B) \union C) /\ IsFiniteSet((A \union B) \cap C)
        BY <1>1, FS_Union, FS_Intersection
    <2> QED
        BY <1>1, <2>1, <2>2, FS_CardinalityType
<1>3. IsFiniteSet(S) /\ Cardinality(S) <= Cardinality(A \union B \union C)
    BY <1>2, FS_Subset
<1> QED
    BY <1>1, <1>2, <1>3, FS_CardinalityType

\* As long as each masternode that is down can be charged with one creator and one
\* validator, some masternode that is up, may seal and has a validator that is up
\* remains for the next block.
THEOREM PairsAlwaysSurvive == ASSUME ElectionsOK PROVE Spec => []PairsSurvive
<1>1. ASSUME Placed, EnoughUp PROVE Viable
    <2> DEFINE L == Range(coming.list)
               Orphans == {m \in L : GetValidator(m) \in down}
               X == IF isCheckpoint THEN Newcomers ELSE {creator}
    <2>1. coming \in Elections /\ elected \in Elections /\ IsFiniteSet(down)
        BY <1>1, ComingPlaced DEF Placed
    <2>2. IsFiniteSet(L) /\ Cardinality(L) = Len(coming.list)
        BY <2>1, MembersCounted
    <2>3. IsFiniteSet(Orphans) /\ Cardinality(Orphans) <= Cardinality(down)
        <3> DEFINE g == [m \in Orphans |-> GetValidator(m)]
        <3>1. g \in Injection(Orphans, down)
            BY <1>1, ValidatorPairs DEF Injection, IsInjective
        <3> QED
            BY <2>1, <3>1, FS_Injection
    <2>4. IsFiniteSet(X)
          /\ Cardinality(X) = IF isCheckpoint THEN Cardinality(Newcomers) ELSE 1
        <3>1. IsFiniteSet(Newcomers)
            BY <2>2, FS_Subset DEF Newcomers
        <3> QED
            BY <3>1, FS_Singleton
    <2>5. ~(L \subseteq down \union Orphans \union X)
        <3>1. SUFFICES ASSUME L \subseteq down \union Orphans \union X PROVE FALSE
            OBVIOUS
        <3>2. Cardinality(L) <= Cardinality(down) + Cardinality(Orphans) + Cardinality(X)
            BY <2>1, <2>3, <2>4, <3>1, CoverBound
        <3>3. Cardinality(L) > 2 * Cardinality(down) + Cardinality(X)
            BY <1>1, <2>2, <2>4 DEF EnoughUp
        <3>4. /\ Cardinality(L) \in Nat /\ Cardinality(down) \in Nat
              /\ Cardinality(Orphans) \in Nat /\ Cardinality(X) \in Nat
            BY <2>1, <2>2, <2>3, <2>4, FS_CardinalityType
        <3> HIDE DEF L, Orphans, X
        <3> QED
            BY <2>3, <3>2, <3>3, <3>4
    <2>6. PICK m \in L : m \notin down /\ m \notin Orphans /\ m \notin X
        BY <2>5
    <2>7. validated(m)
        BY <2>6 DEF validated, hasValidator
    <2>8. m \in Range(list) /\ maySeal(m)
        BY <2>6 DEF maySeal, Newcomers, coming, list
    <2>9. m \in Accounts
        BY <2>1, <2>6 DEF Accounts
    <2> QED
        BY <2>6, <2>7, <2>8, <2>9 DEF Viable, CanExtend
<1>2. Placed => PairsSurvive
    BY <1>1 DEF PairsSurvive
<1> QED
    BY <1>2, AlwaysPlaced, PTL
-----------------------------------------------------------------------------
CONSTANTS MaxSigners, Gap, MaxResults, MaxNumber,
          Thread, Works, MaxStarts, MayInterrupt

VARIABLES lenSigners, blockValidator, randIndexs, drawing

Sh == INSTANCE M2Shuffle WITH i <- drawing

VARIABLES head, results, i, inserts, verified, status

Fs == INSTANCE FullSync

VARIABLES work, starts, todo, pc, stop, calculating, cached, downloading,
          chainmu, has, writes, posted, success, interrupted

Bp == INSTANCE BlockPrep

-----------------------------------------------------------------------------
(* What GenM2FromRandomize returns, for any number of masternodes and any
   random numbers. *)

\* What stands at an index: a number of the result, or one still in the urn.
at(k) == IF k > drawing THEN randIndexs[k] ELSE blockValidator[k]

UrnTyped ==
    /\ lenSigners \in Nat \ {0}
    /\ drawing \in -1 .. lenSigners - 1
    /\ blockValidator \in [0 .. drawing -> Sh!Indices(lenSigners)]
    /\ randIndexs \in [Sh!Indices(lenSigners) -> Sh!Indices(lenSigners)]

\* The urn and the result never hold a number twice.
Distinct == \A k, l \in Sh!Indices(lenSigners) : at(k) = at(l) => k = l

\* In the urn a number is at its own place or is larger than all places left, and in
\* the result no number is at its own place.
Displaced ==
    /\ \A k \in 0 .. drawing : blockValidator[k] = k \/ blockValidator[k] > drawing
    /\ \A k \in Sh!Indices(lenSigners) : k > drawing /\ k > 0 => randIndexs[k] # k
    /\ drawing = 0 /\ lenSigners > 1 => blockValidator[0] # 0
    /\ drawing = -1 /\ lenSigners > 1 => randIndexs[0] # 0

ShuffleInv == UrnTyped /\ Distinct /\ Displaced

SignersOK == MaxSigners \in Nat

\* The invariant of the shuffle holds before the first draw.
LEMMA InitShuffle == SignersOK /\ Sh!Init => ShuffleInv
BY DEF SignersOK, Sh!Init, ShuffleInv, UrnTyped, Distinct, Displaced, at, Sh!Indices

\* A draw of GenM2FromRandomize keeps it.
LEMMA DrawShuffle ==
    ASSUME ShuffleInv, NEW j \in 0 .. Sh!blockLength - 1, Sh!Draw(j)
    PROVE  ShuffleInv'
<1> DEFINE n == lenSigners
<1>1. n \in Nat \ {0} /\ drawing \in 0 .. n - 1 /\ drawing' = drawing - 1 /\ n' = n
    BY DEF ShuffleInv, UrnTyped, Sh!Draw
<1>2. j \in 0 .. drawing /\ (drawing > 0 => j < drawing)
    BY <1>1 DEF Sh!blockLength
<1>3. blockValidator \in [0 .. drawing -> Sh!Indices(n)] /\ randIndexs \in [Sh!Indices(n) -> Sh!Indices(n)]
    BY DEF ShuffleInv, UrnTyped
<1>4. \A k \in 0 .. drawing - 1 :
        blockValidator'[k] = IF k = j THEN blockValidator[drawing] ELSE blockValidator[k]
    BY DEF Sh!Draw, Sh!urn
<1>5. \A k \in Sh!Indices(n) :
        randIndexs'[k] = IF k = drawing THEN blockValidator[j] ELSE randIndexs[k]
    BY <1>3 DEF Sh!Draw
<1>6. UrnTyped'
    <2>1. blockValidator' \in [0 .. drawing - 1 -> Sh!Indices(n)]
        BY <1>1, <1>3 DEF Sh!Draw, Sh!urn
    <2>2. randIndexs' \in [Sh!Indices(n) -> Sh!Indices(n)]
        BY <1>2, <1>3, Zenon DEF Sh!Draw
    <2>3. /\ lenSigners' \in Nat \ {0} /\ drawing' \in -1 .. lenSigners' - 1
          /\ 0 .. drawing' = 0 .. drawing - 1
        BY <1>1
    <2>4. Sh!Indices(lenSigners') = Sh!Indices(n)
        BY <1>1
    <2>5. /\ blockValidator' \in [0 .. drawing' -> Sh!Indices(lenSigners')]
          /\ randIndexs' \in [Sh!Indices(lenSigners') -> Sh!Indices(lenSigners')]
        BY <2>1, <2>2, <2>3, <2>4, Zenon
    <2> QED
        BY <2>3, <2>5, Zenon DEF UrnTyped
<1>7. Distinct'
    <2>1. \A k, l \in Sh!Indices(n) : at(k) = at(l) => k = l
        BY DEF ShuffleInv, Distinct
    <2>2. \A k \in Sh!Indices(n) : at(k)' = IF k = drawing THEN at(j)
                                          ELSE IF k = j THEN at(drawing) ELSE at(k)
        BY <1>1, <1>2, <1>4, <1>5 DEF at, Sh!Indices
    <2>3. j \in Sh!Indices(n) /\ drawing \in Sh!Indices(n)
        BY <1>1, <1>2 DEF Sh!Indices
    <2> QED
        BY <1>1, <2>1, <2>2, <2>3 DEF Distinct
<1>8. Displaced'
    <2>1. \A k \in 0 .. drawing : blockValidator[k] = k \/ blockValidator[k] > drawing
        BY DEF ShuffleInv, Displaced
    <2>2. /\ \A k \in 0 .. drawing : blockValidator[k] \in Int
          /\ \A k \in Sh!Indices(n) : randIndexs[k] \in Int
        <3>1. Sh!Indices(n) \subseteq Int
            BY <1>1 DEF Sh!Indices
        <3> QED
            BY <1>3, <3>1
    <2>3. \A k \in 0 .. n - 1 :
            randIndexs'[k] = IF k = drawing THEN blockValidator[j] ELSE randIndexs[k]
        BY <1>5 DEF Sh!Indices
    <2> HIDE DEF n
    <2>4. \A k \in 0 .. drawing - 1 : blockValidator'[k] = k \/ blockValidator'[k] > drawing - 1
        <3> SUFFICES ASSUME NEW k \in 0 .. drawing - 1
                     PROVE  blockValidator'[k] = k \/ blockValidator'[k] > drawing - 1
            OBVIOUS
        <3>1. k \in 0 .. drawing /\ drawing \in 0 .. drawing
            BY <1>1
        <3>2. CASE k = j
            <4>1. blockValidator'[k] = blockValidator[drawing]
                BY <1>4, <3>2
            <4> QED
                BY <1>1, <2>1, <2>2, <3>1, <4>1
        <3>3. CASE k # j
            <4>1. blockValidator'[k] = blockValidator[k]
                BY <1>4, <3>3
            <4> QED
                BY <1>1, <2>1, <2>2, <3>1, <4>1
        <3> QED
            BY <3>2, <3>3
    <2>5. ASSUME NEW k \in 0 .. n - 1, k > drawing - 1, k > 0 PROVE randIndexs'[k] # k
        <3>1. CASE k = drawing
            <4>1. randIndexs'[k] = blockValidator[j]
                BY <2>3, <3>1
            <4> QED
                BY <1>1, <1>2, <2>1, <2>2, <2>5, <3>1, <4>1
        <3>2. CASE k # drawing
            <4>1. k > drawing
                BY <1>1, <2>5, <3>2
            <4>2. randIndexs[k] # k
                BY <2>5, <4>1 DEF ShuffleInv, Displaced, Sh!Indices, n
            <4> QED
                BY <2>3, <3>2, <4>2
        <3> QED
            BY <3>1, <3>2
    <2>6. ASSUME drawing - 1 = 0 PROVE blockValidator'[0] # 0
        <3>1. drawing = 1 /\ j = 0
            BY <1>1, <1>2, <2>6
        <3>2. blockValidator'[0] = blockValidator[1]
            BY <1>4, <3>1
        <3> QED
            BY <2>1, <2>2, <3>1, <3>2
    <2>7. ASSUME drawing - 1 = -1, n > 1 PROVE randIndexs'[0] # 0
        <3>1. drawing = 0 /\ j = 0
            BY <1>1, <1>2, <2>7
        <3>2. randIndexs'[0] = blockValidator[0]
            BY <1>1, <2>3, <3>1
        <3>3. blockValidator[0] # 0
            BY <2>7, <3>1 DEF ShuffleInv, Displaced, n
        <3> QED
            BY <3>2, <3>3
    <2>8. \A k \in 0 .. drawing' : blockValidator'[k] = k \/ blockValidator'[k] > drawing'
        BY <1>1, <2>4
    <2>9. \A k \in Sh!Indices(lenSigners') : k > drawing' /\ k > 0 => randIndexs'[k] # k
        BY <1>1, <2>5 DEF Sh!Indices, n
    <2> QED
        BY <1>1, <2>6, <2>7, <2>8, <2>9 DEF Displaced, n
<1> QED
    BY <1>6, <1>7, <1>8 DEF ShuffleInv

\* Every step keeps it.
LEMMA StepShuffle == ShuffleInv /\ [Sh!Next]_(Sh!vars) => ShuffleInv'
<1>1. ShuffleInv /\ UNCHANGED Sh!vars => ShuffleInv'
    BY DEF Sh!vars, ShuffleInv, UrnTyped, Distinct, Displaced, at
<1> QED
    BY <1>1, DrawShuffle DEF Sh!Next

\* So it holds throughout the shuffle.
LEMMA AlwaysShuffle == ASSUME SignersOK PROVE Sh!Spec => []ShuffleInv
BY InitShuffle, StepShuffle, PTL DEF Sh!Spec

\* GenM2FromRandomize returns a permutation of the masternodes' indices.
THEOREM DrawnExactlyOnce == ASSUME SignersOK PROVE Sh!Spec => []Sh!DrawnOnce
<1>1. ShuffleInv => Sh!DrawnOnce
    BY DEF ShuffleInv, UrnTyped, Distinct, at, Sh!DrawnOnce, Sh!Indices
<1> QED
    BY <1>1, AlwaysShuffle, PTL

\* And one without a fixed point, when there is more than one masternode.
THEOREM NobodyForItself == ASSUME SignersOK PROVE Sh!Spec => []Sh!NoneForItself
<1>1. ShuffleInv => Sh!NoneForItself
    BY DEF ShuffleInv, UrnTyped, Displaced, Sh!NoneForItself, Sh!Indices
<1> QED
    BY <1>1, AlwaysShuffle, PTL

-----------------------------------------------------------------------------
(* The batches of processFullSyncContent, for every epoch length, gap and
   every list the queue may return. *)

(* An epoch has at least two blocks, and its gap block is not its checkpoint:
   what the chain configurations of the repository give (900 and 5). *)
EpochOK ==
    /\ Epoch \in Nat /\ Epoch > 1
    /\ Gap \in 1..(Epoch - 1)
    /\ MaxResults \in Nat /\ MaxNumber \in Nat

(* The block before a checkpoint is the last of its epoch. *)
LEMMA BeforeCheckpoint ==
    ASSUME NEW n \in Nat, NEW E \in Nat, E > 1, (n + 1) % E = 0
    PROVE  n % E = E - 1
<1> DEFINE q == n \div E
           r == n % E
           p == (n + 1) \div E
<1>1. q \in Int /\ r \in 0..(E - 1) /\ n = E * q + r
  OBVIOUS
<1>2. p \in Int /\ n + 1 = E * p
  OBVIOUS
<1> HIDE DEF q, r, p
<1>3. r + 1 = E * (p - q)
  BY <1>1, <1>2
<1>4. p - q >= 1
  BY <1>1, <1>2, <1>3
<1>5. p - q < 2
  BY <1>1, <1>2, <1>3
<1> QED
  BY <1>1, <1>2, <1>3, <1>4, <1>5 DEF r

(* A batch on a head: the blocks that follow it, cut at its last one at the
   latest. *)
Batch(batch, h) ==
    /\ batch \in Seq(Nat)
    /\ \A k \in 1..Len(batch) : batch[k] = h + k
    /\ \A k \in 1..(Len(batch) - 1) : ~ Fs!cutsHere(batch[k])

Uncut(batch) == \A k \in 1..Len(batch) : ~ Fs!cutsHere(batch[k])

(* What is collected follows the head without a cut, and the rest of the list
   follows it.  The last batch that was verified was such a batch. *)
Collected ==
    /\ head \in Nat
    /\ verified.head \in Nat
    /\ Batch(verified.batch, verified.head)
    /\ status = "loop" =>
         /\ results \in Seq(Nat)
         /\ i \in 1..(Len(results) + 1)
         /\ inserts \in Seq(Nat)
         /\ \A k \in 1..Len(inserts) : inserts[k] = head + k
         /\ Uncut(inserts)
         /\ \A k \in i..Len(results) :
              results[k] = head + Len(inserts) + 1 + (k - i)

\* Collected holds before the first results.
LEMMA InitCollected ==
    ASSUME EpochOK, Fs!Init
    PROVE  Collected
BY DEF EpochOK, Fs!Init, Collected, Batch

(* Importing a batch leaves the head inside it. *)
LEMMA ImportHead ==
    ASSUME NEW batch, head \in Nat, Batch(batch, head), Len(batch) > 0,
           Fs!import(batch, TRUE) \/ Fs!import(batch, FALSE)
    PROVE  /\ head' \in Nat
           /\ Fs!import(batch, TRUE) => head' = head + Len(batch)
           /\ verified'.head \in Nat
           /\ Batch(verified.batch, verified.head)'
<1>1. Len(batch) \in 1..Len(batch)
  BY DEF Batch
<1>2. verified' = [batch |-> batch, head |-> head]
  BY DEF Fs!import
<1>3. head' \in Nat
  <2>1. CASE Fs!import(batch, TRUE)
    BY <1>1, <2>1 DEF Fs!import, Batch
  <2>2. CASE Fs!import(batch, FALSE)
    <3>1. PICK k \in 0..(Len(batch) - 1) : head' = head + k
      BY <2>2 DEF Fs!import
    <3> QED
      BY <3>1, <1>1
  <2> QED
    BY <2>1, <2>2, Zenon
<1>4. Fs!import(batch, TRUE) => head' = head + Len(batch)
  BY <1>1 DEF Fs!import, Batch
<1>5. Batch(verified.batch, verified.head)'
  BY <1>2 DEF Batch, Fs!cutsHere
<1> QED
  BY <1>2, <1>3, <1>4, <1>5, Zenon

\* Every step of the loop in processFullSyncContent keeps it.
LEMMA StepCollected ==
    ASSUME EpochOK, Collected, [Fs!Next]_(Fs!vars)
    PROVE  Collected'
<1>1. CASE Fs!Results
  <2>1. PICK n \in 1..MaxResults : results' = [k \in 1..n |-> head + k]
    BY <1>1 DEF Fs!Results
  <2>2. /\ head' = head /\ verified' = verified
        /\ i' = 1 /\ inserts' = <<>> /\ status' = "loop"
    BY <1>1 DEF Fs!Results
  <2>3. results' \in Seq(Nat) /\ Len(results') = n /\ n \in Nat
    BY <2>1 DEF Collected, EpochOK
  <2>4. \A k \in 1..n : results'[k] = head + 0 + 1 + (k - 1)
    BY <2>1, <2>3 DEF Collected, EpochOK
  <2>5. inserts' \in Seq(Nat) /\ Len(inserts') = 0
    BY <2>2
  <2>6. Uncut(inserts)'
    BY <2>5 DEF Uncut
  <2>7. Batch(verified.batch, verified.head)'
    BY <2>2 DEF Collected, Batch, Fs!cutsHere
  <2> QED
    BY <2>2, <2>3, <2>4, <2>5, <2>6, <2>7 DEF Collected
<1>2. CASE Fs!Loop
  <2> DEFINE batch == Append(inserts, results[i])
  <2>1. /\ status = "loop" /\ i \in 1..Len(results) /\ head \in Nat
        /\ results \in Seq(Nat) /\ inserts \in Seq(Nat)
        /\ results' = results
    BY <1>2 DEF Fs!Loop, Collected
  <2>2. results[i] = head + Len(inserts) + 1
    BY <2>1 DEF Collected
  <2>3. /\ batch \in Seq(Nat) /\ Len(batch) = Len(inserts) + 1
        /\ Len(inserts) \in Nat
    BY <2>1
  <2>4. \A k \in 1..Len(batch) : batch[k] = head + k
    <3>1. \A k \in 1..Len(inserts) : inserts[k] = head + k
      BY <2>1 DEF Collected
    <3>2. batch[Len(inserts) + 1] = head + (Len(inserts) + 1)
      BY <2>1, <2>2, <2>3
    <3>3. \A k \in 1..Len(inserts) : batch[k] = inserts[k]
      BY <2>1, <2>3
    <3> SUFFICES ASSUME NEW k \in 1..(Len(inserts) + 1)
                 PROVE  batch[k] = head + k
      BY <2>3
    <3>4. CASE k = Len(inserts) + 1
      BY <3>2, <3>4
    <3>5. CASE k # Len(inserts) + 1
      <4>1. k \in 1..Len(inserts)
        BY <2>3, <3>5
      <4> QED
        BY <3>1, <3>3, <4>1
    <3> QED
      BY <3>4, <3>5
  <2>5. \A k \in 1..Len(inserts) : batch[k] = inserts[k]
    BY <2>1, <2>3
  <2>6. \A k \in 1..(Len(batch) - 1) : ~ Fs!cutsHere(batch[k])
    BY <2>1, <2>3, <2>5 DEF Collected, Uncut
  <2>7. Batch(batch, head)
    BY <2>3, <2>4, <2>6 DEF Batch
  <2> HIDE DEF batch
  <2>8. CASE /\ Fs!import(batch, TRUE) /\ inserts' = <<>> /\ i' = i + 1
             /\ status' = status
    <3>1. /\ head' = head + Len(batch) /\ head' \in Nat
          /\ verified'.head \in Nat /\ Batch(verified.batch, verified.head)'
      <4>1. Fs!import(batch, TRUE)
        BY ONLY <2>8, Zenon
      <4>2. Len(batch) > 0
        BY <2>3
      <4> QED
        BY <2>1, <2>7, <4>1, <4>2, ImportHead, Zenon
    <3>2. \A k \in i'..Len(results') :
            results'[k] = head' + Len(inserts') + 1 + (k - i')
      <4> SUFFICES ASSUME NEW k \in (i + 1)..Len(results)
                   PROVE  results[k] = head' + 0 + 1 + (k - (i + 1))
        BY <2>1, <2>8
      <4>1. k \in i..Len(results)
        BY <2>1
      <4>2. results[k] = head + Len(inserts) + 1 + (k - i)
        BY <2>1, <4>1 DEF Collected
      <4> QED
        BY <2>1, <2>3, <3>1, <4>1, <4>2
    <3>3. Uncut(inserts)' /\ inserts' \in Seq(Nat) /\ Len(inserts') = 0
      BY <2>8 DEF Uncut
    <3>4. i' \in 1..(Len(results') + 1)
      BY <2>1, <2>8
    <3> QED
      BY <2>1, <2>8, <3>1, <3>2, <3>3, <3>4 DEF Collected
  <2>9. CASE Fs!import(batch, FALSE) /\ status' = "idle"
    <3>1. /\ head' \in Nat
          /\ verified'.head \in Nat /\ Batch(verified.batch, verified.head)'
      <4>1. Fs!import(batch, FALSE)
        BY ONLY <2>9, Zenon
      <4>2. Len(batch) > 0
        BY <2>3
      <4> QED
        BY <2>1, <2>7, <4>1, <4>2, ImportHead, Zenon
    <3> QED
      BY <2>9, <3>1 DEF Collected
  <2>10. CASE /\ ~ Fs!cutsHere(results[i]) /\ inserts' = batch /\ i' = i + 1
              /\ UNCHANGED <<head, verified, status>>
    <3>1. Uncut(inserts)'
      <4> SUFFICES ASSUME NEW k \in 1..Len(inserts')
                   PROVE  ~ Fs!cutsHere(inserts[k])'
        BY DEF Uncut
      <4>1. ~ Fs!cutsHere(batch[k])
        BY <2>1, <2>3, <2>6, <2>10, SMTT(20) DEF batch
      <4> QED
        BY <4>1, <2>10 DEF Fs!cutsHere
    <3>2. \A k \in i'..Len(results') :
            results'[k] = head' + Len(inserts') + 1 + (k - i')
      <4> SUFFICES ASSUME NEW k \in (i + 1)..Len(results)
                   PROVE  results[k]
                            = head + (Len(inserts) + 1) + 1 + (k - (i + 1))
        BY <2>1, <2>3, <2>10, Zenon
      <4>1. k \in i..Len(results)
        BY <2>1
      <4>2. results[k] = head + Len(inserts) + 1 + (k - i)
        BY <2>1, <4>1 DEF Collected
      <4> QED
        BY <2>1, <2>3, <4>1, <4>2
    <3>3. /\ inserts' \in Seq(Nat)
          /\ \A k \in 1..Len(inserts') : inserts'[k] = head' + k
      BY <2>3, <2>4, <2>10
    <3>4. Batch(verified.batch, verified.head)'
      BY <2>10 DEF Collected, Batch, Fs!cutsHere
    <3>5. i' \in 1..(Len(results') + 1)
      BY <2>1, <2>10
    <3> QED
      BY <2>1, <2>10, <3>1, <3>2, <3>3, <3>4, <3>5 DEF Collected
  <2> QED
    BY <1>2, <2>8, <2>9, <2>10, Zenon DEF Fs!Loop, batch
<1>3. CASE Fs!Rest
  <2>1. /\ status = "loop" /\ status' = "idle" /\ head \in Nat
        /\ inserts \in Seq(Nat)
    BY <1>3 DEF Fs!Rest, Collected
  <2>2. CASE inserts # <<>> /\ \E ok \in BOOLEAN : Fs!import(inserts, ok)
    <3>1. Fs!import(inserts, TRUE) \/ Fs!import(inserts, FALSE)
      BY <2>2, Zenon
    <3>2. Batch(inserts, head) /\ Len(inserts) > 0
      BY <2>1, <2>2 DEF Collected, Batch, Uncut
    <3>3. /\ head' \in Nat
          /\ verified'.head \in Nat /\ Batch(verified.batch, verified.head)'
      BY <2>1, <3>1, <3>2, ImportHead, Zenon
    <3> QED
      BY <2>1, <3>3 DEF Collected
  <2>3. CASE UNCHANGED <<head, verified>>
    BY <2>1, <2>3 DEF Collected, Batch, Fs!cutsHere
  <2> QED
    BY <1>3, <2>2, <2>3 DEF Fs!Rest
<1>4. CASE UNCHANGED Fs!vars
  BY <1>4 DEF Fs!vars, Collected, Batch, Uncut, Fs!cutsHere
<1> QED
  BY <1>1, <1>2, <1>3, <1>4 DEF Fs!Next

\* So it holds throughout.
LEMMA AlwaysCollected ==
    ASSUME EpochOK
    PROVE  Fs!Spec => []Collected
<1>1. Fs!Init => Collected
  BY InitCollected
<1>2. Collected /\ [Fs!Next]_(Fs!vars) => Collected'
  BY StepCollected
<1> QED
  BY <1>1, <1>2, PTL DEF Fs!Spec

(* A checkpoint is the only block of its batch, so it is verified on the state
   of its parent, for every epoch, gap and list of results. *)
THEOREM CheckpointsOnParents ==
    ASSUME EpochOK
    PROVE  Fs!Spec => []Fs!CheckpointOnParent
<1>1. Collected => Fs!CheckpointOnParent
  <2> SUFFICES ASSUME Collected, NEW n \in Fs!blocks(verified.batch),
                      n % Epoch = 0, n # verified.head + 1
               PROVE  FALSE
    BY DEF Fs!CheckpointOnParent
  <2> DEFINE b == verified.batch
  <2>1. Batch(b, verified.head) /\ verified.head \in Nat
    BY DEF Collected
  <2>2. PICK k \in 1..Len(b) : n = b[k]
    BY DEF Fs!blocks
  <2>a. b \in Seq(Nat) /\ \A j \in 1..Len(b) : b[j] = verified.head + j
    BY <2>1 DEF Batch
  <2> HIDE DEF b
  <2>b. n = verified.head + k /\ k > 1 /\ Len(b) \in Nat
    BY <2>1, <2>2, <2>a
  <2>3. /\ k - 1 \in 1..(Len(b) - 1) /\ k - 1 \in 1..Len(b)
        /\ n - 1 \in Nat /\ n = (n - 1) + 1
    BY <2>1, <2>b
  <2>c. b[k - 1] = n - 1
    <3>1. b[k - 1] = verified.head + (k - 1)
      BY <2>3, <2>a, SMTT(20)
    <3> QED
      BY <2>1, <2>b, <3>1
  <2>4. (n - 1) % Epoch = Epoch - 1
    BY <2>3, BeforeCheckpoint DEF EpochOK
  <2>5. Fs!cutsHere(b[k - 1])
    BY <2>c, <2>4 DEF Fs!cutsHere
  <2> QED
    BY <2>1, <2>3, <2>5 DEF Batch
<1> QED
  BY <1>1, AlwaysCollected, PTL

(* A checkpoint or a gap block is the last of its batch, so what it stores is
   there before a later header is verified. *)
THEOREM DependenciesWritten ==
    ASSUME EpochOK
    PROVE  Fs!Spec => []Fs!DependsOnWritten
<1>1. Collected => Fs!DependsOnWritten
  <2> SUFFICES ASSUME Collected,
                      NEW m \in Fs!blocks(verified.batch),
                      NEW n \in Fs!blocks(verified.batch),
                      m < n, m % Epoch \in {0, Epoch - Gap}
               PROVE  FALSE
    BY DEF Fs!DependsOnWritten
  <2> DEFINE b == verified.batch
  <2>1. Batch(b, verified.head) /\ verified.head \in Nat
    BY DEF Collected
  <2>2. PICK j \in 1..Len(b) : m = b[j]
    BY DEF Fs!blocks
  <2>3. PICK k \in 1..Len(b) : n = b[k]
    BY DEF Fs!blocks
  <2>4. j < k
    BY <2>1, <2>2, <2>3 DEF Batch
  <2>5. j \in 1..(Len(b) - 1)
    BY <2>1, <2>2, <2>3, <2>4 DEF Batch
  <2>6. Fs!cutsHere(b[j])
    BY <2>2 DEF Fs!cutsHere
  <2> QED
    BY <2>1, <2>5, <2>6 DEF Batch
<1> QED
  BY <1>1, AlwaysCollected, PTL

-----------------------------------------------------------------------------
(* One block is written once, for every number of goroutines that prepare,
   insert or download it, whatever each of them does. *)

(* Where a goroutine can be. *)
Owing == {"written", "remove", "post"}
Free == {"idle", "add", "lookup", "stop", "validate", "process", "processed",
         "result", "batch"}

(* A goroutine that has written the block and has not posted its event. *)
Owes(t) == pc[t] \in Owing

(* Only the goroutine that wrote the block owes its event, until it is
   posted. *)
OneOwes ==
    /\ pc \in [Thread -> Owing \union Free]
    /\ has \in BOOLEAN
    /\ has => writes = 1
    /\ ~ has => writes = 0 /\ posted = 0 /\ \A t \in Thread : ~ Owes(t)
    /\ posted \in {0, 1}
    /\ posted = 1 => \A t \in Thread : ~ Owes(t)
    /\ \A t, u \in Thread : Owes(t) /\ Owes(u) => t = u

\* Nobody owes an event at the start.
LEMMA InitOneOwes == Bp!Init => OneOwes
<1> SUFFICES ASSUME Bp!Init
             PROVE  OneOwes
  OBVIOUS
<1>1. pc \in [Thread -> Owing \union Free]
  BY DEF Bp!Init, Free
<1>2. \A t \in Thread : ~ Owes(t)
  BY DEF Bp!Init, Owes, Owing
<1>3. has = FALSE /\ writes = 0 /\ posted = 0
  BY DEF Bp!Init
<1> QED
  BY <1>1, <1>2, <1>3, Zenon DEF OneOwes

(* A step that writes and posts nothing, and after which the same goroutines
   owe an event. *)
LEMMA QuietStep ==
    ASSUME OneOwes, UNCHANGED <<has, writes, posted>>,
           pc' \in [Thread -> Owing \union Free],
           \A u \in Thread : pc'[u] \in Owing <=> pc[u] \in Owing
    PROVE  OneOwes'
<1>1. \A u \in Thread : Owes(u)' <=> Owes(u)
  BY DEF Owes
<1> QED
  BY <1>1 DEF OneOwes

\* A goroutine that owes no event moves on without owing one.
LEMMA FreeStep ==
    ASSUME OneOwes, NEW t \in Thread, NEW w \in Free, pc[t] \in Free,
           pc' = [pc EXCEPT ![t] = w], UNCHANGED <<has, writes, posted>>
    PROVE  OneOwes'
<1>1. w \notin Owing /\ pc[t] \notin Owing
  BY DEF Free, Owing
<1>2. pc' \in [Thread -> Owing \union Free]
  BY DEF OneOwes
<1>3. \A u \in Thread : pc'[u] \in Owing <=> pc[u] \in Owing
  BY <1>1 DEF OneOwes
<1> QED
  BY <1>2, <1>3, QuietStep

\* A goroutine that owes an event moves on still owing it.
LEMMA OwingStep ==
    ASSUME OneOwes, NEW t \in Thread, NEW w \in Owing, pc[t] \in Owing,
           pc' = [pc EXCEPT ![t] = w], UNCHANGED <<has, writes, posted>>
    PROVE  OneOwes'
<1>1. pc' \in [Thread -> Owing \union Free]
  BY DEF OneOwes
<1>2. \A u \in Thread : pc'[u] \in Owing <=> pc[u] \in Owing
  BY DEF OneOwes
<1> QED
  BY <1>1, <1>2, QuietStep

(* A step that writes the block. *)
LEMMA WritingStep ==
    ASSUME OneOwes, NEW t \in Thread, ~ has,
           pc' = [pc EXCEPT ![t] = "written"],
           has' = TRUE, writes' = writes + 1, posted' = posted
    PROVE  OneOwes'
<1>1. pc' \in [Thread -> Owing \union Free]
  BY DEF OneOwes, Owing
<1>2. \A u \in Thread : Owes(u)' => u = t
  BY <1>1 DEF Owes, OneOwes
<1>3. writes' = 1 /\ posted' = 0
  BY DEF OneOwes
<1> QED
  BY <1>1, <1>2, <1>3 DEF OneOwes

\* Every step leaves at most one goroutine owing the event.
LEMMA StepOneOwes ==
    ASSUME OneOwes, [Bp!Next]_(Bp!vars)
    PROVE  OneOwes'
<1>1. ASSUME NEW t \in Thread, Bp!Step(t)
      PROVE  OneOwes'
  <2>1. CASE Bp!PrepareBlock(t)
    <3>1. PICK w \in {"idle", "add"} : pc' = [pc EXCEPT ![t] = w]
      BY <2>1 DEF Bp!PrepareBlock, Bp!returns
    <3>2. pc[t] \in Free /\ UNCHANGED <<has, writes, posted>>
      BY <2>1 DEF Bp!PrepareBlock, Bp!chain, Free
    <3> QED
      BY <3>1, <3>2, FreeStep, Zenon DEF Free
  <2>2. CASE Bp!InsertBlock(t)
    <3>1. PICK w \in {"idle", "lookup"} : pc' = [pc EXCEPT ![t] = w]
      BY <2>2 DEF Bp!InsertBlock, Bp!returns
    <3>2. pc[t] \in Free /\ UNCHANGED <<has, writes, posted>>
      BY <2>2 DEF Bp!InsertBlock, Bp!chain, Free
    <3> QED
      BY <3>1, <3>2, FreeStep, Zenon DEF Free
  <2>3. CASE Bp!FindResult(t)
    <3>1. PICK w \in {"result", "stop"} : pc' = [pc EXCEPT ![t] = w]
      BY <2>3, Zenon DEF Bp!FindResult
    <3>2. pc[t] \in Free /\ UNCHANGED <<has, writes, posted>>
      BY <2>3 DEF Bp!FindResult, Bp!chain, Free
    <3> QED
      BY <3>1, <3>2, FreeStep, Zenon DEF Free
  <2>4. CASE Bp!StopOther(t)
    <3>1. PICK w \in {"add"} : pc' = [pc EXCEPT ![t] = w]
      BY <2>4 DEF Bp!StopOther
    <3>2. pc[t] \in Free /\ UNCHANGED <<has, writes, posted>>
      BY <2>4 DEF Bp!StopOther, Bp!chain, Free
    <3> QED
      BY <3>1, <3>2, FreeStep, Zenon DEF Free
  <2>5. CASE Bp!AddCalculating(t)
    <3>1. PICK w \in {"validate"} : pc' = [pc EXCEPT ![t] = w]
      BY <2>5 DEF Bp!AddCalculating
    <3>2. pc[t] \in Free /\ UNCHANGED <<has, writes, posted>>
      BY <2>5 DEF Bp!AddCalculating, Bp!chain, Free
    <3> QED
      BY <3>1, <3>2, FreeStep, Zenon DEF Free
  <2>6. CASE Bp!ValidateBody(t)
    <3>1. PICK w \in {"idle", "process"} : pc' = [pc EXCEPT ![t] = w]
      BY <2>6 DEF Bp!ValidateBody, Bp!returns
    <3>2. pc[t] \in Free /\ UNCHANGED <<has, writes, posted>>
      BY <2>6 DEF Bp!ValidateBody, Bp!chain, Free
    <3> QED
      BY <3>1, <3>2, FreeStep, Zenon DEF Free
  <2>7. CASE Bp!Stopped(t)
    <3>1. PICK w \in {"idle"} : pc' = [pc EXCEPT ![t] = w]
      BY <2>7 DEF Bp!Stopped, Bp!returns
    <3>2. pc[t] \in Free /\ UNCHANGED <<has, writes, posted>>
      BY <2>7 DEF Bp!Stopped, Bp!chain, Free
    <3> QED
      BY <3>1, <3>2, FreeStep, Zenon DEF Free
  <2>8. CASE Bp!Process(t)
    <3>1. PICK w \in {"processed"} : pc' = [pc EXCEPT ![t] = w]
      BY <2>8 DEF Bp!Process
    <3>2. pc[t] \in Free /\ UNCHANGED <<has, writes, posted>>
      BY <2>8 DEF Bp!Process, Bp!chain, Free
    <3> QED
      BY <3>1, <3>2, FreeStep, Zenon DEF Free
  <2>9. CASE Bp!Processed(t)
    <3>1. PICK w \in {"idle", "result"} : pc' = [pc EXCEPT ![t] = w]
      BY <2>9 DEF Bp!Processed, Bp!returns
    <3>2. pc[t] \in Free /\ UNCHANGED <<has, writes, posted>>
      BY <2>9 DEF Bp!Processed, Bp!chain, Free
    <3> QED
      BY <3>1, <3>2, FreeStep, Zenon DEF Free
  <2>10. CASE Bp!WriteBlock(t)
    <3>1. CASE Bp!writable
      BY <2>10, <3>1, WritingStep, Zenon DEF Bp!WriteBlock, Bp!writable
    <3>2. CASE ~ Bp!writable
      <4>1. pc[t] \in Free /\ pc' = [pc EXCEPT ![t] = "idle"]
        BY <2>10, <3>2 DEF Bp!WriteBlock, Bp!returns, Free
      <4>2. UNCHANGED <<has, writes, posted>>
        BY <2>10, <3>2, Zenon DEF Bp!WriteBlock, Bp!chain
      <4> QED
        BY <4>1, <4>2, FreeStep, Zenon DEF Free
    <3> QED
      BY <3>1, <3>2
  <2>11. CASE Bp!Unlock(t)
    <3>1. PICK w \in {"remove", "post"} : pc' = [pc EXCEPT ![t] = w]
      BY <2>11, Zenon DEF Bp!Unlock
    <3>2. pc[t] \in Owing /\ UNCHANGED <<has, writes, posted>>
      BY <2>11 DEF Bp!Unlock, Owing
    <3> QED
      BY <3>1, <3>2, OwingStep, Zenon DEF Owing
  <2>12. CASE Bp!RemoveResult(t)
    <3>1. pc[t] \in Owing /\ pc' = [pc EXCEPT ![t] = "post"]
      BY <2>12 DEF Bp!RemoveResult, Owing
    <3>2. UNCHANGED <<has, writes, posted>>
      BY <2>12 DEF Bp!RemoveResult, Bp!chain
    <3> QED
      BY <3>1, <3>2, OwingStep, Zenon DEF Owing
  <2>13. CASE Bp!PostChainEvents(t)
    <3>1. /\ Owes(t) /\ pc' = [pc EXCEPT ![t] = "idle"]
          /\ posted' = posted + 1 /\ has' = has /\ writes' = writes
      BY <2>13 DEF Bp!PostChainEvents, Bp!returns, Bp!chain, Owes, Owing
    <3>2. pc' \in [Thread -> Owing \union Free]
      BY <3>1 DEF OneOwes, Free
    <3>4. posted = 0 /\ has
      BY <3>1 DEF OneOwes
    <3>3. \A u \in Thread : ~ Owes(u)'
      <4> TAKE u \in Thread
      <4>1. CASE u = t
        BY <3>1, <3>2, <4>1 DEF Owes, OneOwes, Owing
      <4>2. CASE u # t
        BY <3>1, <3>2, <4>2 DEF Owes, OneOwes
      <4> QED
        BY <4>1, <4>2
    <3> QED
      BY <3>1, <3>2, <3>3, <3>4 DEF OneOwes
  <2>14. CASE Bp!InsertChain(t)
    <3>1. PICK w \in {"batch"} : pc' = [pc EXCEPT ![t] = w]
      BY <2>14 DEF Bp!InsertChain
    <3>2. pc[t] \in Free /\ UNCHANGED <<has, writes, posted>>
      BY <2>14 DEF Bp!InsertChain, Bp!chain, Free
    <3> QED
      BY <3>1, <3>2, FreeStep, Zenon DEF Free
  <2>15. CASE Bp!BatchEnds(t)
    <3>1. PICK w \in {"idle"} : pc' = [pc EXCEPT ![t] = w]
      BY <2>15 DEF Bp!BatchEnds, Bp!returns
    <3>2. pc[t] \in Free /\ UNCHANGED <<has, writes, posted>>
      BY <2>15 DEF Bp!BatchEnds, Bp!chain, Free
    <3> QED
      BY <3>1, <3>2, FreeStep, Zenon DEF Free
  <2>16. CASE Bp!BatchReaches(t)
    <3>1. CASE Bp!writable
      BY <2>16, <3>1, WritingStep, Zenon DEF Bp!BatchReaches, Bp!writable
    <3>2. CASE ~ Bp!writable
      <4>1. pc[t] \in Free /\ pc' = [pc EXCEPT ![t] = "idle"]
        BY <2>16, <3>2 DEF Bp!BatchReaches, Bp!returns, Free
      <4>2. UNCHANGED <<has, writes, posted>>
        BY <2>16, <3>2, Zenon DEF Bp!BatchReaches
      <4> QED
        BY <4>1, <4>2, FreeStep, Zenon DEF Free
    <3> QED
      BY <3>1, <3>2
  <2> QED
    BY <1>1, <2>1, <2>2, <2>3, <2>4, <2>5, <2>6, <2>7, <2>8, <2>9, <2>10,
       <2>11, <2>12, <2>13, <2>14, <2>15, <2>16 DEF Bp!Step
<1>2. ASSUME UNCHANGED <<pc, has, writes, posted>>
      PROVE  OneOwes'
  BY <1>2 DEF OneOwes, Owes
<1>3. ASSUME NEW t \in Thread, Bp!Start(t)
      PROVE  OneOwes'
  BY <1>3, <1>2 DEF Bp!Start, Bp!chain
<1>4. CASE Bp!StopChain
  BY <1>4, <1>2 DEF Bp!StopChain, Bp!chain
<1>5. CASE UNCHANGED Bp!vars
  BY <1>5, <1>2 DEF Bp!vars
<1> QED
  BY <1>1, <1>3, <1>4, <1>5 DEF Bp!Next

(* However many goroutines hold the block, and however their steps interleave,
   it is written at most once and its head event is posted at most once. *)
THEOREM BlockWrittenOnce == Bp!Spec => []Bp!WrittenOnce
<1>1. OneOwes => Bp!WrittenOnce
  BY DEF OneOwes, Bp!WrittenOnce
<1> QED
  BY <1>1, InitOneOwes, StepOneOwes, PTL DEF Bp!Spec
=============================================================================
