------------------------ MODULE TomoValidatorProofs ------------------------
(***************************************************************************)
(* Proofs about the staking contract for any accounts, candidates, caps    *)
(* and delays: the stake of an owner, the entries that withdraw needs, the *)
(* lists of voters and of candidates, and the books: what the contract     *)
(* holds is what it owes.  The sums of the books are taken by              *)
(* SumFunction, so the first part is about that operator: an induction     *)
(* over the subsets of its domain takes a smallest counterexample, since   *)
(* the library's rules of induction need the property as an operator.      *)
(***************************************************************************)
EXTENDS TomoValidator, FiniteSetTheorems, TLAPS

\* A set of subsets of a finite set has a member none of whose proper subsets
\* is in it.
LEMMA SmallestSubset ==
    ASSUME NEW D, IsFiniteSet(D), NEW B \in SUBSET SUBSET D, B # {}
    PROVE  \E s \in B : \A t \in B : t \subseteq s => t = s
<1>1. IsWellFoundedOn(StrictSubsetOrdering(D), FiniteSubsetsOf(D))
  BY FS_StrictSubsetOrderingWellFounded
<1>2. B \subseteq FiniteSubsetsOf(D)
  BY FS_FiniteSubsetsOfFinite
<1>3. PICK s \in B : \A t \in B : ~(<<t, s>> \in StrictSubsetOrdering(D))
  BY <1>1, <1>2, WFMin
<1>4. ASSUME NEW t \in B, t \subseteq s, t # s PROVE FALSE
  <2>1. <<t, s>> \in StrictSubsetOrdering(D)
    BY <1>4 DEF StrictSubsetOrdering
  <2> QED BY <1>3, <2>1
<1> QED BY <1>4

(* A set of natural numbers has a least one. *)
LEMMA SmallestNumber ==
    ASSUME NEW T \in SUBSET Nat, T # {}
    PROVE  \E n \in T : \A m \in T : n <= m
<1>1. PICK k \in T : TRUE
  BY Zenon
<1> DEFINE B == {0 .. m : m \in {i \in T : i <= k}}
<1>2. B \in SUBSET SUBSET (0 .. k) /\ B # {}
  <2>1. ASSUME NEW m \in T, m <= k PROVE 0 .. m \subseteq 0 .. k
    BY <1>1, <2>1
  <2>2. 0 .. k \in B
    BY <1>1
  <2> QED BY <2>1, <2>2
<1>3. IsFiniteSet(0 .. k)
  BY <1>1, FS_Interval
<1>4. \E s \in B : \A t \in B : t \subseteq s => t = s
  <2> DEFINE D == 0 .. k
  <2>1. IsFiniteSet(D) /\ B \in SUBSET SUBSET D /\ B # {}
    BY <1>2, <1>3
  <2> HIDE DEF B, D
  <2> QED BY <2>1, SmallestSubset
<1>5. PICK n \in T : n <= k /\ \A t \in B : t \subseteq 0 .. n => t = 0 .. n
  BY <1>4, Zenon
<1>6. ASSUME NEW m \in T PROVE n <= m
  <2>1. CASE m <= k /\ m < n
    <3>1. 0 .. m \in B /\ 0 .. m \subseteq 0 .. n
      BY <2>1
    <3>2. 0 .. m = 0 .. n
      BY <1>5, <3>1, Zenon
    <3>3. n \in 0 .. n /\ n \notin 0 .. m
      BY <2>1
    <3> QED BY <3>2, <3>3
  <2> QED BY <1>1, <1>5, <2>1
<1> QED BY <1>6

-----------------------------------------------------------------------------
(* The sum of a function: SumFunction adds its values in the order in which
   CHOOSE takes them from the domain. *)

pick(s) == CHOOSE x \in s : TRUE

\* The recursion that defines the sums of f over the subsets of D.
SumOn(f, iter, D) ==
    iter = [s \in SUBSET D |-> IF s = {} THEN 0 ELSE f[pick(s)] + iter[s \ {pick(s)}]]

(* The community module's definition, unfolded. *)
LEMMA SumDef ==
    ASSUME NEW f
    PROVE  SumFunction(f) = (CHOOSE iter : SumOn(f, iter, DOMAIN f))[DOMAIN f]
  BY DEF SumFunction, SumFunctionOnSet, FoldFunctionOnSet, MapThenFoldSet, SumOn, pick

(* What is picked from a set is in it. *)
LEMMA PickIn ==
    ASSUME NEW s, s # {}
    PROVE  pick(s) \in s
  BY DEF pick

(* The recursion leaves no choice. *)
LEMMA SumUnique ==
    ASSUME NEW D, IsFiniteSet(D), NEW f, NEW a \in SUBSET D, NEW b \in SUBSET D,
           NEW g, SumOn(f, g, a), NEW h, SumOn(f, h, b), NEW s, s \subseteq a, s \subseteq b
    PROVE  g[s] = h[s]
<1> DEFINE B == {t \in SUBSET s : g[t] # h[t]}
<1>1. SUFFICES ASSUME B # {} PROVE FALSE
  <2>1. s \in SUBSET s OBVIOUS
  <2> QED BY <2>1
<1>2. IsFiniteSet(s)
  BY FS_Subset
<1>3. B \in SUBSET SUBSET s
  OBVIOUS
<1>4. PICK t \in B : \A u \in B : u \subseteq t => u = t
  <2> HIDE DEF B
  <2> QED BY <1>1, <1>2, <1>3, SmallestSubset
<1> DEFINE u == t \ {pick(t)}
<1>5. t \subseteq a /\ t \subseteq b /\ t \subseteq s
  OBVIOUS
<1>6. g[t] = IF t = {} THEN 0 ELSE f[pick(t)] + g[u]
  BY <1>5, Zenon DEF SumOn
<1>7. h[t] = IF t = {} THEN 0 ELSE f[pick(t)] + h[u]
  BY <1>5, Zenon DEF SumOn
<1>8. t # {}
  BY <1>6, <1>7
<1>9. u \notin B
  BY <1>4, <1>8, PickIn
<1> QED BY <1>5, <1>6, <1>7, <1>8, <1>9

(* And it has a solution. *)
LEMMA SumExists ==
    ASSUME NEW D, IsFiniteSet(D), NEW f
    PROVE  \E g : SumOn(f, g, D)
<1> DEFINE B == {s \in SUBSET D : ~ \E g : SumOn(f, g, s)}
<1>1. SUFFICES ASSUME B # {} PROVE FALSE
  <2>1. D \in SUBSET D OBVIOUS
  <2> QED BY <2>1
<1>3. B \in SUBSET SUBSET D
  OBVIOUS
<1>4. PICK s \in B : \A u \in B : u \subseteq s => u = s
  <2> HIDE DEF B
  <2> QED BY <1>1, <1>3, SmallestSubset
<1> DEFINE it(t) == CHOOSE g : SumOn(f, g, t)
<1>5. ASSUME NEW t \in SUBSET s, t # s PROVE SumOn(f, it(t), t)
  <2>1. t \in SUBSET D /\ t \notin B
    BY <1>4, <1>5
  <2>2. \E g : SumOn(f, g, t)
    BY <2>1
  <2> QED BY <2>2
<1> DEFINE val(t) == it(t)[t]
           g == [t \in SUBSET s |-> IF t = {} THEN 0 ELSE f[pick(t)] + val(t \ {pick(t)})]
<1>6. ASSUME NEW t \in SUBSET s, t # s PROVE val(t) = g[t]
  <2> DEFINE u == t \ {pick(t)}
  <2>1. SumOn(f, it(t), t)
    BY <1>5, <1>6
  <2>2. val(t) = IF t = {} THEN 0 ELSE f[pick(t)] + it(t)[u]
    <3> HIDE DEF it
    <3> QED BY <2>1, Zenon DEF SumOn
  <2>3. CASE t # {}
    <3>1. u \in SUBSET s /\ u # s /\ u \in SUBSET D /\ t \in SUBSET D /\ u \subseteq t
      BY <1>6, <2>3, PickIn
    <3>2. SumOn(f, it(u), u)
      BY <1>5, <3>1, Zenon
    <3>3. it(t)[u] = it(u)[u]
      <4> HIDE DEF it, u
      <4> QED BY <2>1, <3>1, <3>2, SumUnique
    <3> HIDE DEF it
    <3> QED BY <2>2, <2>3, <3>3
  <2>4. CASE t = {}
    <3> HIDE DEF it
    <3> QED BY <2>2, <2>4
  <2> QED BY <2>3, <2>4
<1>7. SumOn(f, g, s)
  <2> HIDE DEF it
  <2>1. ASSUME NEW t \in SUBSET s, t # {} PROVE val(t \ {pick(t)}) = g[t \ {pick(t)}]
    <3>1. t \ {pick(t)} \in SUBSET s /\ t \ {pick(t)} # s
      BY <2>1, PickIn
    <3> HIDE DEF val, g
    <3> QED BY <3>1, <1>6
  <2>2. g = [t \in SUBSET s |-> IF t = {} THEN 0 ELSE f[pick(t)] + g[t \ {pick(t)}]]
    BY <2>1, Zenon
  <2> HIDE DEF g, val
  <2> QED BY <2>2, Zenon DEF SumOn
<1>8. \E k : SumOn(f, k, s)
  <2> HIDE DEF g
  <2> QED BY <1>7
<1> QED BY <1>8, <1>4

\* The sum of f over a part of its domain.
SumTo(f, s) == (CHOOSE g : SumOn(f, g, DOMAIN f))[s]

(* SumFunction satisfies its recursion. *)
LEMMA SumStep ==
    ASSUME NEW f, IsFiniteSet(DOMAIN f)
    PROVE  /\ SumFunction(f) = SumTo(f, DOMAIN f)
           /\ SumTo(f, {}) = 0
           /\ \A s \in SUBSET DOMAIN f :
                s # {} => SumTo(f, s) = f[pick(s)] + SumTo(f, s \ {pick(s)})
<1> DEFINE D == DOMAIN f
           it == CHOOSE g : SumOn(f, g, D)
<1>1. \E g : SumOn(f, g, D)
  BY SumExists
<1>2. SumOn(f, it, D)
  BY <1>1
<1>3. \A s \in SUBSET D : it[s] = IF s = {} THEN 0 ELSE f[pick(s)] + it[s \ {pick(s)}]
  <2> HIDE DEF it, D
  <2> QED BY <1>2, Zenon DEF SumOn
<1>4. SumFunction(f) = it[D]
  BY SumDef
<1>5. \A s : SumTo(f, s) = it[s]
  BY DEF SumTo
<1> HIDE DEF it
<1> QED BY <1>3, <1>4, <1>5, Zenon

(* A sum of integers is an integer. *)
LEMMA SumInt ==
    ASSUME NEW D, IsFiniteSet(D), NEW f \in [D -> Int], NEW s \in SUBSET D
    PROVE  SumTo(f, s) \in Int
<1> DEFINE B == {t \in SUBSET D : SumTo(f, t) \notin Int}
<1>1. SUFFICES ASSUME B # {} PROVE FALSE
  OBVIOUS
<1>2. PICK t \in B : \A u \in B : u \subseteq t => u = t
  <2>1. B \in SUBSET SUBSET D OBVIOUS
  <2> HIDE DEF B
  <2> QED BY <1>1, <2>1, SmallestSubset
<1> DEFINE u == t \ {pick(t)}
<1>3. SumTo(f, {}) = 0 /\ (t # {} => SumTo(f, t) = f[pick(t)] + SumTo(f, u))
  BY SumStep
<1>4. t # {}
  <2>1. SumTo(f, t) # 0
    BY <1>2
  <2> QED BY <1>3, <2>1
<1>5. pick(t) \in t /\ u \notin B
  BY <1>2, <1>4, PickIn
<1>6. SumTo(f, u) \in Int /\ f[pick(t)] \in Int
  BY <1>2, <1>5
<1> QED BY <1>2, <1>3, <1>4, <1>6

(* A sum of natural numbers is a natural number. *)
LEMMA SumNat ==
    ASSUME NEW D, IsFiniteSet(D), NEW f \in [D -> Nat], NEW s \in SUBSET D
    PROVE  SumTo(f, s) \in Nat
<1> DEFINE B == {t \in SUBSET D : SumTo(f, t) \notin Nat}
<1>1. SUFFICES ASSUME B # {} PROVE FALSE
  OBVIOUS
<1>2. PICK t \in B : \A u \in B : u \subseteq t => u = t
  <2>1. B \in SUBSET SUBSET D OBVIOUS
  <2> HIDE DEF B
  <2> QED BY <1>1, <2>1, SmallestSubset
<1> DEFINE u == t \ {pick(t)}
<1>3. SumTo(f, {}) = 0 /\ (t # {} => SumTo(f, t) = f[pick(t)] + SumTo(f, u))
  BY SumStep
<1>4. t # {}
  <2>1. SumTo(f, t) # 0
    BY <1>2
  <2> QED BY <1>3, <2>1
<1>5. pick(t) \in t /\ u \notin B
  BY <1>2, <1>4, PickIn
<1>6. SumTo(f, u) \in Nat /\ f[pick(t)] \in Nat
  BY <1>2, <1>5
<1> QED BY <1>2, <1>3, <1>4, <1>6

(* Changing one value changes the sum by the difference. *)
LEMMA SumUpdate ==
    ASSUME NEW D, IsFiniteSet(D), NEW f \in [D -> Int], NEW x \in D, NEW v \in Int
    PROVE  SumFunction([f EXCEPT ![x] = v]) = SumFunction(f) - f[x] + v
<1> DEFINE h == [f EXCEPT ![x] = v]
           was(t) == SumTo(f, t)
           is(t) == IF x \in t THEN was(t) - f[x] + v ELSE was(t)
           B == {t \in SUBSET D : SumTo(h, t) # is(t)}
<1>1. h \in [D -> Int] /\ DOMAIN f = D /\ DOMAIN h = D
  OBVIOUS
<1>2. \A y \in D : h[y] = IF y = x THEN v ELSE f[y]
  OBVIOUS
<1>3. \A t \in SUBSET D : was(t) \in Int /\ SumTo(h, t) \in Int
  <2> HIDE DEF h
  <2> QED BY <1>1, SumInt
<1>4. SUFFICES ASSUME B # {} PROVE FALSE
  <2>1. SumTo(h, D) = is(D)
    BY <1>4, Zenon
  <2>2. SumFunction(f) = was(D) /\ SumFunction(h) = SumTo(h, D)
    <3> HIDE DEF h
    <3> QED BY <1>1, SumStep
  <2>3. SumFunction(h) = SumFunction(f) - f[x] + v
    BY <2>1, <2>2
  <2> QED BY <2>3
<1>5. PICK t \in B : \A u \in B : u \subseteq t => u = t
  <2>1. B \in SUBSET SUBSET D OBVIOUS
  <2> HIDE DEF B
  <2> QED BY <1>4, <2>1, SmallestSubset
<1> DEFINE p == pick(t)
           u == t \ {p}
<1>6. was({}) = 0 /\ (t # {} => was(t) = f[p] + was(u))
  BY <1>1, SumStep
<1>7. SumTo(h, {}) = 0 /\ (t # {} => SumTo(h, t) = h[p] + SumTo(h, u))
  <2> HIDE DEF h
  <2> QED BY <1>1, SumStep
<1>8. t # {}
  BY <1>5, <1>6, <1>7, Zenon
<1>9. p \in t /\ u \in SUBSET D /\ u \notin B
  BY <1>5, <1>8, PickIn, Zenon
<1>10. SumTo(h, u) = is(u)
  BY <1>9
<1>11. h[p] = (IF p = x THEN v ELSE f[p]) /\ f[p] \in Int /\ f[x] \in Int
  BY <1>2, <1>9
<1>12. SumTo(h, t) = is(t)
  <2> HIDE DEF h
  <2>1. was(u) \in Int BY <1>3, <1>9
  <2>2. x \in u <=> x \in t /\ x # p
    OBVIOUS
  <2> HIDE DEF was, p, u
  <2> QED BY <1>6, <1>7, <1>8, <1>9, <1>10, <1>11, <2>1, <2>2
<1> QED BY <1>5, <1>12

\* Two functions on D that differ at x only.
DifferAt(f, h, x, D) ==
    /\ IsFiniteSet(D) /\ f \in [D -> Int] /\ h \in [D -> Int] /\ x \in D
    /\ \A y \in D : y # x => h[y] = f[y]

(* The same, of two functions that differ at one argument. *)
LEMMA SumChange ==
    ASSUME NEW D, NEW f, NEW h, NEW x, DifferAt(f, h, x, D)
    PROVE  SumFunction(h) = SumFunction(f) - f[x] + h[x]
<1> USE DEF DifferAt
<1>1. h = [f EXCEPT ![x] = h[x]]
  OBVIOUS
<1>2. h[x] \in Int
  OBVIOUS
<1>3. SumFunction([f EXCEPT ![x] = h[x]]) = SumFunction(f) - f[x] + h[x]
  BY <1>2, SumUpdate, Zenon
<1> QED BY <1>1, <1>3, Zenon

(* The type of a whole sum. *)
LEMMA SumType ==
    ASSUME NEW D, IsFiniteSet(D)
    PROVE  /\ \A f \in [D -> Int] : SumFunction(f) \in Int
           /\ \A f \in [D -> Nat] : SumFunction(f) \in Nat
<1>1. D \in SUBSET D
  OBVIOUS
<1>2. ASSUME NEW f \in [D -> Int] PROVE SumFunction(f) \in Int
  <2>1. SumFunction(f) = SumTo(f, D)
    BY SumStep
  <2> QED BY <1>1, <2>1, SumInt
<1>3. ASSUME NEW f \in [D -> Nat] PROVE SumFunction(f) \in Nat
  <2>1. SumFunction(f) = SumTo(f, D)
    BY SumStep
  <2> QED BY <1>1, <2>1, SumNat
<1> QED BY <1>2, <1>3

(* The sum of a function that is k on S and 0 elsewhere. *)
LEMMA SumConstant ==
    ASSUME NEW D, IsFiniteSet(D), NEW S \in SUBSET D, NEW k \in Int
    PROVE  SumFunction([x \in D |-> IF x \in S THEN k ELSE 0]) = k * Cardinality(S)
<1> DEFINE f == [x \in D |-> IF x \in S THEN k ELSE 0]
           B == {t \in SUBSET D : SumTo(f, t) # k * Cardinality(S \cap t)}
<1>1. f \in [D -> Int] /\ DOMAIN f = D
  OBVIOUS
<1>2. \A x \in D : f[x] = IF x \in S THEN k ELSE 0
  OBVIOUS
<1> HIDE DEF f
<1>3. SUFFICES ASSUME B # {} PROVE FALSE
  <2>1. D \in SUBSET D /\ S \cap D = S
    OBVIOUS
  <2>2. SumTo(f, D) = k * Cardinality(S)
    BY <1>3, <2>1
  <2>3. SumFunction(f) = SumTo(f, D)
    BY <1>1, SumStep
  <2> QED BY <2>2, <2>3 DEF f
<1>4. PICK t \in B : \A u \in B : u \subseteq t => u = t
  <2>1. B \in SUBSET SUBSET D OBVIOUS
  <2> HIDE DEF B
  <2> QED BY <1>3, <2>1, SmallestSubset
<1> DEFINE p == pick(t)
           u == t \ {p}
<1>5. SumTo(f, {}) = 0 /\ (t # {} => SumTo(f, t) = f[p] + SumTo(f, u))
  BY <1>1, SumStep
<1>6. t # {}
  <2>1. ASSUME t = {} PROVE FALSE
    <3>1. S \cap t = {} /\ Cardinality(S \cap t) = 0
      BY <2>1, FS_EmptySet
    <3>2. SumTo(f, t) # 0
      BY <1>4, <3>1
    <3> QED BY <1>5, <2>1, <3>2
  <2> QED BY <2>1
<1>7. p \in t /\ p \in D /\ u \in SUBSET D /\ u \notin B
  BY <1>4, <1>6, PickIn
<1>8. SumTo(f, u) = k * Cardinality(S \cap u)
  BY <1>7
<1>9. IsFiniteSet(S \cap t) /\ Cardinality(S \cap t) \in Nat
  BY <1>4, FS_Subset, FS_CardinalityType
<1>10. S \cap u = (S \cap t) \ {p}
  OBVIOUS
<1>11. Cardinality(S \cap u)
           = IF p \in S THEN Cardinality(S \cap t) - 1 ELSE Cardinality(S \cap t)
  <2> DEFINE Q == S \cap t
  <2>1. p \in Q <=> p \in S
    BY <1>7
  <2>2. Cardinality(Q \ {p}) = IF p \in Q THEN Cardinality(Q) - 1 ELSE Cardinality(Q)
    <3> HIDE DEF Q, p
    <3>1. IsFiniteSet(Q) BY <1>9 DEF Q
    <3> QED BY <3>1, FS_RemoveElement, SMTT(20)
  <2> QED BY <1>10, <2>1, <2>2
<1>12. SumTo(f, t) = k * Cardinality(S \cap t)
  <2> DEFINE n == Cardinality(S \cap t)
             m == Cardinality(S \cap u)
  <2>1. n \in Nat /\ m = (IF p \in S THEN n - 1 ELSE n)
    BY <1>9, <1>11
  <2>2. SumTo(f, t) = (IF p \in S THEN k ELSE 0) + k * m
    BY <1>2, <1>5, <1>6, <1>7, <1>8
  <2> HIDE DEF n, m
  <2>3. (IF p \in S THEN k ELSE 0) + k * m = k * n
    <3>1. CASE p \in S
      <4>1. k + k * (n - 1) = k * n
        BY <2>1
      <4> QED BY <2>1, <3>1, <4>1
    <3>2. CASE p \notin S
      BY <2>1, <3>2
    <3> QED BY <3>1, <3>2
  <2> QED BY <2>2, <2>3 DEF n
<1> QED BY <1>4, <1>12

-----------------------------------------------------------------------------
(* Replacing an element of a list by another keeps it a list: what delete
   does to candidates and blockNumbers. *)
LEMMA ReplaceInSeq ==
    ASSUME NEW S, NEW s \in Seq(S), NEW i, NEW e \in S
    PROVE  [s EXCEPT ![i] = e] \in Seq(S)
<1>1. CASE i \in 1 .. Len(s)
  BY <1>1
<1>2. CASE i \notin 1 .. Len(s)
  <2>1. s = [j \in 1 .. Len(s) |-> s[j]]
    OBVIOUS
  <2>2. [s EXCEPT ![i] = e] = s
    BY <1>2, <2>1
  <2> QED BY <2>2, Zenon
<1> QED BY <1>1, <1>2

(* Everything listed stays listed, and the new element is: what push does to
   voters and blockNumbers. *)
LEMMA AppendListed ==
    ASSUME NEW S, NEW s \in Seq(S), NEW e \in S
    PROVE  /\ Append(s, e) \in Seq(S)
           /\ \A x \in Range(s) : x \in Range(Append(s, e))
           /\ e \in Range(Append(s, e))
<1>1. Append(s, e) \in Seq(S)
  OBVIOUS
<1>2. DOMAIN Append(s, e) = 1 .. Len(s) + 1 /\ DOMAIN s = 1 .. Len(s) /\ Len(s) \in Nat
  OBVIOUS
<1>3. Append(s, e)[Len(s) + 1] = e /\ \A i \in DOMAIN s : Append(s, e)[i] = s[i]
  OBVIOUS
<1> QED
  BY <1>1, <1>2, <1>3 DEF Range

-----------------------------------------------------------------------------
(* The constructor and every call leave the contract's storage well typed. *)
LEMMA TypeInit == Init => TypeOK
<1> SUFFICES ASSUME Init PROVE TypeOK
  OBVIOUS
<1> USE AddressAssumption, CapAssumption, BoundAssumption DEF Init
<1>1. voters \in [Candidate -> Seq(Account)]
  OBVIOUS
<1>2. Len(FirstCandidates) \in Nat /\ candidates \in Seq(Candidate \cup {Zero})
  OBVIOUS
<1>3. caps \in [Account -> [Blocks -> Nat]] /\ blockNumbers \in [Account -> Seq(Blocks)]
  OBVIOUS
<1> QED
  BY <1>1, <1>2, <1>3 DEF TypeOK

(* The block an amount can be withdrawn at is a block number of the model. *)
LEMMA RefundType ==
    ASSUME TypeOK, NEW a \in Account, NEW x \in Nat,
           NEW delay \in {CandidateWithdrawDelay, VoterWithdrawDelay},
           refund(a, x, delay)
    PROVE  /\ delay + blockNumber \in Blocks /\ delay + blockNumber > 0
           /\ caps' \in [Account -> [Blocks -> Nat]]
           /\ blockNumbers' \in [Account -> Seq(Blocks)]
<1> DEFINE b == delay + blockNumber
<1>1. b \in Blocks /\ b > 0
  BY CapAssumption, BoundAssumption DEF TypeOK, Blocks
<1>2. caps' = [caps EXCEPT ![a][b] = @ + x]
  BY DEF refund
<1>3. blockNumbers' = [blockNumbers EXCEPT ![a] = Append(@, b)]
  BY DEF refund
<1> HIDE DEF b
<1>4. caps' \in [Account -> [Blocks -> Nat]]
  BY <1>1, <1>2 DEF TypeOK
<1>5. Append(blockNumbers[a], b) \in Seq(Blocks)
  BY <1>1, AppendListed DEF TypeOK
<1>6. blockNumbers' \in [Account -> Seq(Blocks)]
  BY <1>3, <1>5 DEF TypeOK
<1> QED
  BY <1>1, <1>4, <1>6 DEF b

(* No call leaves the storage ill typed: SafeMath's checks keep every
   subtraction above zero. *)
LEMMA TypeStep == TypeOK /\ [Next]_vars => TypeOK'
<1> SUFFICES ASSUME TypeOK, [Next]_vars PROVE TypeOK'
  OBVIOUS
<1> USE AddressAssumption, CapAssumption, BoundAssumption
<1>1. ASSUME NEW a \in Account, NEW c \in Candidate, NEW x \in Values, propose(a, x, c)
      PROVE  TypeOK'
  <2>1. x \in Nat
    OBVIOUS
  <2>2. voters' \in [Candidate -> Seq(Account)]
    <3>1. Append(voters[c], a) \in Seq(Account)
      BY AppendListed DEF TypeOK
    <3> QED BY <1>1, <3>1 DEF propose, TypeOK
  <2>3. candidates' \in Seq(Candidate \cup {Zero})
    BY <1>1 DEF propose, TypeOK
  <2>4. cap' \in [Candidate -> Nat] /\ stake' \in [Candidate -> [Account -> Nat]]
    BY <1>1, <2>1, SMTT(20) DEF propose, addStake, TypeOK
  <2>5. owner' \in [Candidate -> Account \cup {Zero}] /\ isCandidate' \in [Candidate -> BOOLEAN]
    BY <1>1, SMTT(20) DEF propose, TypeOK
  <2>6. candidateCount' \in Nat /\ balance' \in Nat
    BY <1>1, <2>1 DEF propose, pay, TypeOK
  <2>7. caps' \in [Account -> [Blocks -> Nat]] /\ blockNumbers' \in [Account -> Seq(Blocks)]
        /\ blockNumber' \in 1 .. MaxBlockNumber
    BY <1>1 DEF propose, withdrawsState, TypeOK
  <2> QED BY <2>2, <2>3, <2>4, <2>5, <2>6, <2>7, Zenon DEF TypeOK
<1>2. ASSUME NEW a \in Account, NEW c \in Candidate, NEW x \in Values, vote(a, x, c)
      PROVE  TypeOK'
  <2>1. x \in Nat
    OBVIOUS
  <2>2. voters' \in [Candidate -> Seq(Account)]
    <3>1. Append(voters[c], a) \in Seq(Account)
      BY AppendListed DEF TypeOK
    <3> QED BY <1>2, <3>1 DEF vote, listVoter, TypeOK
  <2>3. cap' \in [Candidate -> Nat] /\ stake' \in [Candidate -> [Account -> Nat]]
    BY <1>2, <2>1 DEF vote, addStake, TypeOK
  <2>4. balance' \in Nat
    BY <1>2, <2>1 DEF vote, pay, TypeOK
  <2>5. owner' = owner /\ isCandidate' = isCandidate /\ candidates' = candidates
        /\ candidateCount' = candidateCount /\ blockNumber' = blockNumber
    BY <1>2 DEF vote
  <2>6. caps' = caps /\ blockNumbers' = blockNumbers
    BY <1>2 DEF vote, withdrawsState
  <2> QED BY <2>2, <2>3, <2>4, <2>5, <2>6, Zenon DEF TypeOK
<1>3. ASSUME NEW a \in Account, NEW c \in Candidate, NEW x \in Values, unvote(a, c, x)
      PROVE  TypeOK'
  <2>1. x \in Nat
    OBVIOUS
  <2>2. caps' \in [Account -> [Blocks -> Nat]] /\ blockNumbers' \in [Account -> Seq(Blocks)]
    BY <1>3, <2>1, RefundType, SMTT(20) DEF unvote
  <2>3. cap' \in [Candidate -> Nat]
    BY <1>3, <2>1 DEF unvote, TypeOK
  <2>4. stake' \in [Candidate -> [Account -> Nat]]
    BY <1>3, <2>1 DEF unvote, onlyValidVote, TypeOK
  <2> QED BY <1>3, <2>2, <2>3, <2>4, Zenon DEF unvote, TypeOK
<1>4. ASSUME NEW a \in Account, NEW c \in Candidate, resign(a, c)
      PROVE  TypeOK'
  <2>1. stake[c][a] \in Nat
    BY DEF TypeOK
  <2>2. caps' \in [Account -> [Blocks -> Nat]] /\ blockNumbers' \in [Account -> Seq(Blocks)]
    BY <1>4, <2>1, RefundType, SMTT(20) DEF resign
  <2>3. candidates' \in Seq(Candidate \cup {Zero})
    <3>1. candidates \in Seq(Candidate \cup {Zero})
      BY DEF TypeOK
    <3>2. \E i : candidates' = [candidates EXCEPT ![i] = Zero]
      BY <1>4, Zenon DEF resign, deleteCandidate
    <3> QED BY <3>1, <3>2, ReplaceInSeq, SMTT(20)
  <2>4. cap' \in [Candidate -> Nat] /\ stake' \in [Candidate -> [Account -> Nat]]
    BY <1>4, <2>1 DEF resign, TypeOK
  <2>5. candidateCount' \in Nat /\ isCandidate' \in [Candidate -> BOOLEAN]
    BY <1>4 DEF resign, TypeOK
  <2> QED BY <1>4, <2>2, <2>3, <2>4, <2>5, Zenon DEF resign, TypeOK
<1>5. ASSUME NEW a \in Account, NEW b \in Blocks, NEW i \in DOMAIN blockNumbers[a],
             withdraw(a, b, i)
      PROVE  TypeOK'
  <2>1. 0 \in Blocks /\ caps[a][b] \in Nat
    BY DEF Blocks, TypeOK
  <2>2. caps' \in [Account -> [Blocks -> Nat]]
    BY <1>5, Zenon DEF withdraw, onlyValidWithdraw, TypeOK
  <2>3. blockNumbers' \in [Account -> Seq(Blocks)]
    <3>1. blockNumbers[a] \in Seq(Blocks)
      BY DEF TypeOK
    <3>2. [blockNumbers[a] EXCEPT ![i] = 0] \in Seq(Blocks)
      BY <2>1, <3>1, ReplaceInSeq
    <3> QED BY <1>5, <3>2 DEF withdraw, onlyValidWithdraw, TypeOK
  <2>4. balance' \in Nat
    <3>1. balance >= caps[a][b] /\ balance' = balance - caps[a][b]
      BY <1>5 DEF withdraw, onlyValidWithdraw
    <3>2. balance \in Nat
      BY DEF TypeOK
    <3> QED BY <2>1, <3>1, <3>2
  <2>5. UNCHANGED <<owner, isCandidate, cap, stake, voters, candidates, candidateCount,
                    blockNumber>>
    BY <1>5 DEF withdraw, onlyValidWithdraw, validatorsState
  <2> QED BY <2>2, <2>3, <2>4, <2>5, Zenon DEF TypeOK
<1>6. CASE NextBlock
  BY <1>6 DEF NextBlock, validatorsState, withdrawsState, TypeOK
<1>7. CASE UNCHANGED vars
  BY <1>7, SMTT(20) DEF vars, validatorsState, withdrawsState, TypeOK
<1> QED
  BY <1>1, <1>2, <1>3, <1>4, <1>5, <1>6, <1>7 DEF Next

(* The contract's storage stays well typed whatever calls are made. *)
THEOREM StorageTypes == Spec => []TypeOK
BY TypeInit, TypeStep, PTL DEF Spec

-----------------------------------------------------------------------------
(* The owner's stake. *)
LEMMA OwnerStep == TypeOK /\ OwnerStake /\ [Next]_vars => OwnerStake'
<1> SUFFICES ASSUME TypeOK, OwnerStake, [Next]_vars, NEW d \in Candidate
             PROVE  IF isCandidate'[d]
                    THEN owner'[d] \in Account /\ stake'[d][owner'[d]] >= MinCandidateCap
                    ELSE \A a \in Account : owner'[d] = a => stake'[d][a] = 0
  BY DEF OwnerStake
<1> DEFINE Goal == IF isCandidate'[d]
                   THEN owner'[d] \in Account /\ stake'[d][owner'[d]] >= MinCandidateCap
                   ELSE \A a \in Account : owner'[d] = a => stake'[d][a] = 0
<1>0. isCandidate'[d] = isCandidate[d] /\ owner'[d] = owner[d] /\ stake'[d] = stake[d] => Goal
  BY DEF OwnerStake
<1>1. ASSUME NEW a \in Account, NEW c \in Candidate, NEW x \in Values, propose(a, x, c)
      PROVE  Goal
  <2>1. CASE d = c
    <3>1. x \in Nat /\ x >= MinCandidateCap /\ stake[d][a] \in Nat
      BY <1>1, CapAssumption DEF propose, TypeOK
    <3>2. isCandidate'[d] /\ owner'[d] = a
      BY <1>1, <2>1 DEF propose, TypeOK
    <3>3. stake'[d][a] = stake[d][a] + x
      BY <1>1, <2>1 DEF propose, addStake, TypeOK
    <3> QED BY <3>1, <3>2, <3>3, CapAssumption
  <2>2. CASE d # c
    BY <1>0, <1>1, <2>2 DEF propose, addStake, TypeOK
  <2> QED BY <2>1, <2>2
<1>2. ASSUME NEW a \in Account, NEW c \in Candidate, NEW x \in Values, vote(a, x, c)
      PROVE  Goal
  <2>1. CASE d = c
    <3>1. x \in Nat /\ isCandidate[d] /\ isCandidate'[d] /\ owner'[d] = owner[d]
      BY <1>2, <2>1, CapAssumption DEF vote
    <3>2. owner[d] \in Account /\ stake[d][owner[d]] >= MinCandidateCap
      BY <3>1 DEF OwnerStake
    <3>3. stake'[d][owner[d]] \in {stake[d][owner[d]], stake[d][owner[d]] + x}
      BY <1>2, <2>1, <3>2 DEF vote, addStake, TypeOK
    <3>4. stake[d][owner[d]] \in Nat
      BY <3>2 DEF TypeOK
    <3> QED BY <3>1, <3>2, <3>3, <3>4, CapAssumption
  <2>2. CASE d # c
    BY <1>0, <1>2, <2>2 DEF vote, addStake, TypeOK
  <2> QED BY <2>1, <2>2
<1>3. ASSUME NEW a \in Account, NEW c \in Candidate, NEW x \in Values, unvote(a, c, x)
      PROVE  Goal
  <2>1. isCandidate'[d] = isCandidate[d] /\ owner'[d] = owner[d]
    BY <1>3 DEF unvote
  <2>2. CASE d = c /\ owner[c] = a
    <3>1. stake'[d][a] = stake[d][a] - x /\ stake[d][a] - x >= MinCandidateCap
      BY <1>3, <2>2 DEF unvote, onlyValidVote, TypeOK
    <3>2. stake[d][a] \in Nat /\ x \in Nat /\ stake[d][a] > 0
      BY <3>1, CapAssumption, SMTT(20) DEF TypeOK
    <3>3. isCandidate[d]
      BY <2>2, <3>2 DEF OwnerStake
    <3> QED BY <2>1, <2>2, <3>1, <3>3
  <2>3. CASE ~(d = c /\ owner[c] = a)
    <3>1. \A v \in Account : owner[d] = v => stake'[d][v] = stake[d][v]
      BY <1>3, <2>3 DEF unvote, TypeOK
    <3> QED BY <2>1, <3>1 DEF OwnerStake
  <2> QED BY <2>2, <2>3
<1>4. ASSUME NEW a \in Account, NEW c \in Candidate, resign(a, c)
      PROVE  Goal
  <2>1. CASE d = c
    <3>1. ~isCandidate'[d] /\ owner'[d] = a /\ stake'[d][a] = 0
      BY <1>4, <2>1 DEF resign, TypeOK
    <3> QED BY <3>1
  <2>2. CASE d # c
    BY <1>0, <1>4, <2>2 DEF resign, TypeOK
  <2> QED BY <2>1, <2>2
<1>5. ASSUME NEW a \in Account, NEW b \in Blocks, NEW i \in DOMAIN blockNumbers[a],
             withdraw(a, b, i)
      PROVE  Goal
  BY <1>0, <1>5 DEF withdraw, onlyValidWithdraw, validatorsState
<1>6. CASE NextBlock
  BY <1>0, <1>6 DEF NextBlock, validatorsState
<1>7. CASE UNCHANGED vars
  BY <1>0, <1>7 DEF vars, validatorsState
<1> QED
  BY <1>1, <1>2, <1>3, <1>4, <1>5, <1>6, <1>7 DEF Next

(* Whatever calls are made, the owner of a candidate has MinCandidateCap at
   stake, and an owner that resigned has nothing left that onlyValidVote
   would hold back. *)
THEOREM OwnerKeepsMinimum == Spec => []OwnerStake
<1>1. Init => OwnerStake
  <2> SUFFICES ASSUME Init, NEW d \in Candidate
               PROVE  IF isCandidate[d]
                      THEN owner[d] \in Account /\ stake[d][owner[d]] >= MinCandidateCap
                      ELSE \A a \in Account : owner[d] = a => stake[d][a] = 0
    BY DEF OwnerStake
  <2>1. CASE d \in Range(FirstCandidates)
    <3>1. isCandidate[d] /\ owner[d] = FirstOwner /\ stake[d][FirstOwner] = MinCandidateCap
      BY <2>1, AddressAssumption, Zenon DEF Init
    <3> QED BY <3>1, AddressAssumption, CapAssumption
  <2>2. CASE d \notin Range(FirstCandidates)
    <3>1. ~isCandidate[d] /\ \A a \in Account : stake[d][a] = 0
      BY <2>2, Zenon DEF Init
    <3> QED BY <3>1
  <2> QED BY <2>1, <2>2
<1> QED
  BY <1>1, TypeInit, TypeStep, OwnerStep, PTL DEF Spec

-----------------------------------------------------------------------------
(* Amounts waiting to be withdrawn. *)

(* An entry that is not the one replaced, or a new one, is still there. *)
LEMMA RefundIndexed ==
    ASSUME TypeOK, PendingHasIndex, NEW a \in Account, NEW x \in Nat,
           NEW delay \in {CandidateWithdrawDelay, VoterWithdrawDelay},
           refund(a, x, delay)
    PROVE  PendingHasIndex'
<1> DEFINE n == delay + blockNumber
<1>1. n \in Blocks /\ n > 0
  BY RefundType
<1>2. /\ caps' = [caps EXCEPT ![a][n] = @ + x]
      /\ blockNumbers' = [blockNumbers EXCEPT ![a] = Append(@, n)]
  BY DEF refund
<1> HIDE DEF n
<1> SUFFICES ASSUME NEW d \in Account, NEW b \in Blocks, caps'[d][b] > 0
             PROVE  b > 0 /\ \E i \in DOMAIN blockNumbers'[d] : blockNumbers'[d][i] = b
  BY DEF PendingHasIndex
<1>3. blockNumbers[d] \in Seq(Blocks) /\ caps[d][b] \in Nat
  BY DEF TypeOK
<1>4. CASE d = a /\ b = n
  <2>1. blockNumbers'[d] = Append(blockNumbers[d], n)
    BY <1>2, <1>4 DEF TypeOK
  <2>2. n \in Range(Append(blockNumbers[d], n))
    BY <1>1, <1>3, AppendListed
  <2> QED BY <1>1, <1>4, <2>1, <2>2 DEF Range
<1>5. CASE ~(d = a /\ b = n)
  <2>1. caps[d][b] > 0
    BY <1>2, <1>5 DEF TypeOK
  <2>2. b > 0 /\ b \in Range(blockNumbers[d])
    BY <2>1 DEF PendingHasIndex, Range
  <2>3. blockNumbers'[d] \in {blockNumbers[d], Append(blockNumbers[d], n)}
    BY <1>2 DEF TypeOK
  <2>4. b \in Range(blockNumbers'[d])
    BY <1>1, <1>3, <2>2, <2>3, AppendListed, Zenon
  <2> QED BY <2>2, <2>4 DEF Range
<1> QED BY <1>4, <1>5

(* No call deletes an entry without the amount it stands for, nor records an
   amount without an entry. *)
LEMMA PendingStep == TypeOK /\ PendingHasIndex /\ [Next]_vars => PendingHasIndex'
<1> SUFFICES ASSUME TypeOK, PendingHasIndex, [Next]_vars PROVE PendingHasIndex'
  OBVIOUS
<1> USE AddressAssumption, CapAssumption
<1>1. ASSUME NEW a \in Account, NEW c \in Candidate, NEW x \in Values,
             propose(a, x, c) \/ vote(a, x, c)
      PROVE  PendingHasIndex'
  BY <1>1 DEF propose, vote, withdrawsState, PendingHasIndex
<1>2. ASSUME NEW a \in Account, NEW c \in Candidate, NEW x \in Values, unvote(a, c, x)
      PROVE  PendingHasIndex'
  BY <1>2, RefundIndexed DEF unvote
<1>3. ASSUME NEW a \in Account, NEW c \in Candidate, resign(a, c)
      PROVE  PendingHasIndex'
  <2>1. stake[c][a] \in Nat
    BY DEF TypeOK
  <2> QED BY <1>3, <2>1, RefundIndexed DEF resign
<1>4. ASSUME NEW a \in Account, NEW b \in Blocks, NEW i \in DOMAIN blockNumbers[a],
             withdraw(a, b, i)
      PROVE  PendingHasIndex'
  <2> SUFFICES ASSUME NEW d \in Account, NEW e \in Blocks, caps'[d][e] > 0
               PROVE  e > 0 /\ \E j \in DOMAIN blockNumbers'[d] : blockNumbers'[d][j] = e
    BY DEF PendingHasIndex
  <2>1. caps[d][e] > 0 /\ ~(d = a /\ e = b)
    <3>1. caps' = [caps EXCEPT ![a][b] = 0]
      BY <1>4 DEF withdraw, onlyValidWithdraw
    <3>2. caps \in [Account -> [Blocks -> Nat]]
      BY DEF TypeOK
    <3> QED BY <3>1, <3>2
  <2>2. PICK j \in DOMAIN blockNumbers[d] : blockNumbers[d][j] = e
    BY <2>1 DEF PendingHasIndex
  <2>3. ~(d = a /\ j = i)
    BY <1>4, <2>1, <2>2 DEF withdraw, onlyValidWithdraw
  <2>4. DOMAIN blockNumbers'[d] = DOMAIN blockNumbers[d] /\ blockNumbers'[d][j] = e
    <3>1. blockNumbers' = [blockNumbers EXCEPT ![a] = [blockNumbers[a] EXCEPT ![i] = 0]]
      BY <1>4 DEF withdraw, onlyValidWithdraw
    <3>2. CASE d = a
      <4>1. blockNumbers'[d] = [blockNumbers[d] EXCEPT ![i] = 0]
        BY <3>1, <3>2 DEF TypeOK
      <4> QED BY <4>1, <2>2, <2>3, <3>2
    <3>3. CASE d # a
      BY <3>1, <3>3, <2>2 DEF TypeOK
    <3> QED BY <3>2, <3>3
  <2>5. e > 0
    BY <2>1 DEF PendingHasIndex
  <2> QED BY <2>2, <2>4, <2>5
<1>5. CASE NextBlock
  BY <1>5 DEF NextBlock, withdrawsState, PendingHasIndex
<1>6. CASE UNCHANGED vars
  BY <1>6 DEF vars, withdrawsState, PendingHasIndex
<1> QED
  BY <1>1, <1>2, <1>3, <1>4, <1>5, <1>6 DEF Next

(* No amount is stranded: each has the index that withdraw needs. *)
THEOREM PendingCanBeWithdrawn == Spec => []PendingHasIndex
<1>1. Init => PendingHasIndex
  BY DEF Init, PendingHasIndex
<1> QED
  BY <1>1, TypeInit, TypeStep, PendingStep, PTL DEF Spec

-----------------------------------------------------------------------------
(* The lists of voters. *)
LEMMA VotersStep == TypeOK /\ VotersListed /\ [Next]_vars => VotersListed'
<1> SUFFICES ASSUME TypeOK, VotersListed, [Next]_vars,
                    NEW d \in Candidate, NEW v \in Account, stake'[d][v] > 0
             PROVE  v \in Range(voters'[d])
  BY DEF VotersListed
<1>0. voters[d] \in Seq(Account)
  BY DEF TypeOK
<1>1. ASSUME NEW a \in Account, NEW c \in Candidate, NEW x \in Values, propose(a, x, c)
      PROVE  v \in Range(voters'[d])
  <2>1. CASE d = c
    <3>1. voters'[d] = Append(voters[d], a)
      BY <1>1, <2>1 DEF propose, TypeOK
    <3>2. v = a \/ stake[d][v] > 0
      BY <1>1, <2>1 DEF propose, addStake, TypeOK
    <3> QED BY <1>0, <3>1, <3>2, AppendListed DEF VotersListed
  <2>2. CASE d # c
    BY <1>1, <2>2 DEF propose, addStake, VotersListed, TypeOK
  <2> QED BY <2>1, <2>2
<1>2. ASSUME NEW a \in Account, NEW c \in Candidate, NEW x \in Values, vote(a, x, c)
      PROVE  v \in Range(voters'[d])
  <2>1. CASE d = c
    <3>1. voters'[d] = IF stake[d][a] = 0 THEN Append(voters[d], a) ELSE voters[d]
      BY <1>2, <2>1 DEF vote, listVoter, TypeOK
    <3>2. v = a \/ stake[d][v] > 0
      BY <1>2, <2>1 DEF vote, addStake, TypeOK
    <3>3. stake[d][a] \in Nat
      BY DEF TypeOK
    <3>4. stake[d][v] > 0 => v \in Range(voters[d])
      BY DEF VotersListed
    <3>5. CASE stake[d][a] = 0
      BY <1>0, <3>1, <3>2, <3>4, <3>5, AppendListed
    <3>6. CASE stake[d][a] # 0
      BY <3>1, <3>2, <3>3, <3>4, <3>6
    <3> QED BY <3>5, <3>6
  <2>2. CASE d # c
    BY <1>2, <2>2 DEF vote, addStake, listVoter, VotersListed, TypeOK
  <2> QED BY <2>1, <2>2
<1>3. ASSUME NEW a \in Account, NEW c \in Candidate, NEW x \in Values, unvote(a, c, x)
      PROVE  v \in Range(voters'[d])
  <2>1. x \in Nat
    BY CapAssumption
  <2>2. stake[d][v] > 0
    BY <1>3, <2>1 DEF unvote, TypeOK
  <2> QED BY <1>3, <2>2 DEF unvote, VotersListed
<1>4. ASSUME NEW a \in Account, NEW c \in Candidate, resign(a, c)
      PROVE  v \in Range(voters'[d])
  <2>1. stake[d][v] > 0
    BY <1>4 DEF resign, TypeOK
  <2> QED BY <1>4, <2>1 DEF resign, VotersListed
<1>5. ASSUME NEW a \in Account, NEW b \in Blocks, NEW i \in DOMAIN blockNumbers[a],
             withdraw(a, b, i)
      PROVE  v \in Range(voters'[d])
  BY <1>5 DEF withdraw, onlyValidWithdraw, validatorsState, VotersListed
<1>6. CASE NextBlock
  BY <1>6 DEF NextBlock, validatorsState, VotersListed
<1>7. CASE UNCHANGED vars
  BY <1>7 DEF vars, validatorsState, VotersListed
<1> QED
  BY <1>1, <1>2, <1>3, <1>4, <1>5, <1>6, <1>7 DEF Next

(* Everyone with stake on a candidate is in the list rewards are shared by. *)
THEOREM StakersAreListed == Spec => []VotersListed
<1>1. Init => VotersListed
  BY AddressAssumption, CapAssumption DEF Init, VotersListed, Range
<1> QED
  BY <1>1, TypeInit, TypeStep, VotersStep, PTL DEF Spec

(* Together: the contract never puts a stake out of reach of its holder. *)
THEOREM AllStakesReachable == Spec => []StakesReachable
<1>1. TypeOK /\ OwnerStake /\ VotersListed /\ PendingHasIndex => StakesReachable
  BY DEF StakesReachable
<1> QED
  BY <1>1, StorageTypes, OwnerKeepsMinimum, StakersAreListed, PendingCanBeWithdrawn, PTL
-----------------------------------------------------------------------------
(* The books. *)

\* The sum of a table.
total(g, D) == SumFunction([d \in D |-> SumFunction(g[d])])

\* Two tables that differ at one entry only.
differIn(g, h, a, b, D, E) ==
    /\ IsFiniteSet(D) /\ IsFiniteSet(E) /\ a \in D /\ b \in E
    /\ g \in [D -> [E -> Nat]] /\ h \in [D -> [E -> Nat]]
    /\ \A d \in D, e \in E : d # a \/ e # b => h[d][e] = g[d][e]

(* The sum of a table changes by what one entry of it changes. *)
LEMMA TableUpdate ==
    ASSUME NEW D, NEW E, NEW g, NEW h, NEW a, NEW b, differIn(g, h, a, b, D, E)
    PROVE  total(g, D) \in Nat /\ total(h, D) = total(g, D) - g[a][b] + h[a][b]
<1> USE DEF differIn
<1> DEFINE was == [d \in D |-> SumFunction(g[d])]
           is == [d \in D |-> SumFunction(h[d])]
<1>1. ASSUME NEW f \in [D -> [E -> Nat]]
      PROVE  \A d \in D : f[d] \in [E -> Nat] /\ f[d] \in [E -> Int] /\ SumFunction(f[d]) \in Nat
  <2>1. \A d \in D : f[d] \in [E -> Nat] /\ f[d] \in [E -> Int]
    OBVIOUS
  <2> QED BY <2>1, SumType
<1>2. was \in [D -> Nat] /\ is \in [D -> Nat] /\ was \in [D -> Int] /\ is \in [D -> Int]
  BY <1>1
<1>3. \A d \in D : d # a => is[d] = was[d]
  <2>1. ASSUME NEW d \in D, d # a PROVE h[d] = g[d]
    BY <2>1
  <2> QED BY <2>1
<1>4. is[a] = was[a] - g[a][b] + h[a][b]
  <2>1. SumFunction(h[a]) = SumFunction(g[a]) - g[a][b] + h[a][b]
    <3> DEFINE f == g[a]
               k == h[a]
    <3>1. DifferAt(f, k, b, E)
      BY <1>1 DEF DifferAt
    <3>2. SumFunction(k) = SumFunction(f) - f[b] + k[b]
      <4> HIDE DEF f, k
      <4> QED BY <3>1, SumChange
    <3> QED BY <3>2
  <2> QED BY <2>1
<1>5. was[a] \in Nat /\ is[a] \in Nat /\ g[a][b] \in Nat /\ h[a][b] \in Nat
  BY <1>2
<1>6. total(g, D) = SumFunction(was) /\ total(h, D) = SumFunction(is)
  BY DEF total
<1> HIDE DEF was, is
<1>7. SumFunction(was) \in Nat
  BY <1>2, SumType
<1>8. SumFunction(is) = SumFunction(was) - was[a] + is[a]
  <2>1. DifferAt(was, is, a, D)
    BY <1>2, <1>3 DEF DifferAt
  <2> QED BY <2>1, SumChange
<1> QED BY <1>4, <1>5, <1>6, <1>7, <1>8

\* What the contract owes to those who have taken stake back.
owed == total(caps, Account)

(* The blocks of the model are finitely many. *)
LEMMA BlocksFinite == IsFiniteSet(Blocks)
<1> DEFINE n == MaxBlockNumber + CandidateWithdrawDelay + VoterWithdrawDelay
<1>1. n \in Int
  BY CapAssumption, BoundAssumption
<1>2. IsFiniteSet(0 .. n)
  <2> HIDE DEF n
  <2> QED BY <1>1, FS_Interval
<1> QED BY <1>2 DEF Blocks

(* What is owed changes with the amount that waits for one block. *)
LEMMA OwedUpdate ==
    ASSUME caps \in [Account -> [Blocks -> Nat]], NEW a \in Account, NEW b \in Blocks,
           NEW v \in Nat, caps' = [caps EXCEPT ![a][b] = v]
    PROVE  owed \in Nat /\ owed' = owed - caps[a][b] + v
<1>1. PICK h : h = caps'
  OBVIOUS
<1>2. differIn(caps, h, a, b, Account, Blocks) /\ h[a][b] = v
  BY <1>1, FiniteAssumption, BlocksFinite DEF differIn
<1>3. total(caps, Account) \in Nat /\ total(h, Account) = total(caps, Account) - caps[a][b] + v
  BY <1>2, TableUpdate
<1> QED BY <1>1, <1>3 DEF owed

(* A cap that moves with one voter's stake remains the sum of the stakes, and
   the sum of the caps moves by as much. *)
LEMMA StakeMoves ==
    ASSUME TypeOK, CapIsSumOfStakes, NEW a \in Account, NEW c \in Candidate, NEW v \in Nat,
           NEW w \in Int, w = cap[c] - stake[c][a] + v,
           stake' = [stake EXCEPT ![c][a] = v], cap' = [cap EXCEPT ![c] = w]
    PROVE  /\ CapIsSumOfStakes'
           /\ SumFunction(cap) \in Int
           /\ SumFunction(cap') = SumFunction(cap) - stake[c][a] + v
<1> USE FiniteAssumption
<1>1. cap \in [Candidate -> Int] /\ stake \in [Candidate -> [Account -> Nat]]
  BY DEF TypeOK
<1>2. SumFunction(cap') = SumFunction(cap) - cap[c] + w
  <2>1. PICK k : k = cap'
    OBVIOUS
  <2>2. DifferAt(cap, k, c, Candidate) /\ k[c] = w
    BY <1>1, <2>1 DEF DifferAt
  <2>3. SumFunction(k) = SumFunction(cap) - cap[c] + w
    BY <2>2, SumChange
  <2> QED BY <2>1, <2>3
<1>3. SumFunction(cap) \in Int
  BY <1>1, SumType
<1>4. SumFunction(cap') = SumFunction(cap) - stake[c][a] + v
  <2>1. cap[c] \in Int /\ stake[c][a] \in Nat
    BY <1>1
  <2> QED BY <1>2, <1>3, <2>1
<1>5. ASSUME NEW d \in Candidate PROVE cap'[d] = SumFunction(stake'[d])
  <2>1. CASE d = c
    <3> DEFINE f == stake[c]
               k == stake'[c]
    <3>1. DifferAt(f, k, a, Account) /\ k[a] = v
      BY <1>1 DEF DifferAt
    <3>2. SumFunction(k) = SumFunction(f) - f[a] + k[a]
      <4> HIDE DEF f, k
      <4> QED BY <3>1, SumChange
    <3>3. cap'[d] = w /\ cap[c] = SumFunction(f)
      BY <1>1, <2>1 DEF CapIsSumOfStakes
    <3> QED BY <2>1, <3>1, <3>2, <3>3
  <2>2. CASE d # c
    BY <1>1, <2>2 DEF CapIsSumOfStakes
  <2> QED BY <2>1, <2>2
<1> QED BY <1>3, <1>4, <1>5 DEF CapIsSumOfStakes

(* What is owed is a number of coins. *)
LEMMA OwedType == ASSUME TypeOK PROVE owed \in Nat
<1> DEFINE rows == [d \in Account |-> SumFunction(caps[d])]
<1>1. ASSUME NEW d \in Account PROVE SumFunction(caps[d]) \in Nat
  <2>1. caps[d] \in [Blocks -> Nat]
    BY DEF TypeOK
  <2> QED BY <2>1, BlocksFinite, SumType
<1>2. rows \in [Account -> Nat]
  BY <1>1
<1>3. owed = SumFunction(rows)
  BY DEF owed, total
<1> HIDE DEF rows
<1> QED BY <1>2, <1>3, FiniteAssumption, SumType

(* refund adds the amount to what is owed. *)
LEMMA RefundOwed ==
    ASSUME TypeOK, NEW a \in Account, NEW x \in Nat,
           NEW delay \in {CandidateWithdrawDelay, VoterWithdrawDelay},
           refund(a, x, delay)
    PROVE  owed \in Nat /\ owed' = owed + x
<1> DEFINE b == delay + blockNumber
<1>1. b \in Blocks
  BY RefundType
<1>2. caps' = [caps EXCEPT ![a][b] = caps[a][b] + x]
  BY DEF refund
<1> HIDE DEF b
<1>3. caps \in [Account -> [Blocks -> Nat]] /\ caps[a][b] \in Nat /\ caps[a][b] + x \in Nat
  BY <1>1 DEF TypeOK
<1>4. owed \in Nat /\ owed' = owed - caps[a][b] + (caps[a][b] + x)
  BY <1>1, <1>2, <1>3, OwedUpdate, Zenon
<1> QED BY <1>3, <1>4

(* Every call moves coins, caps, stakes and refunds together. *)
LEMMA BooksStep == TypeOK /\ BooksBalance /\ [Next]_vars => BooksBalance'
<1> SUFFICES ASSUME TypeOK, CapIsSumOfStakes, Solvent, [Next]_vars
             PROVE  CapIsSumOfStakes' /\ Solvent'
  BY DEF BooksBalance
<1>0. balance = SumFunction(cap) + owed /\ balance \in Nat
  BY DEF Solvent, owed, total, TypeOK
<1>a. \A c \in Candidate, a \in Account : stake[c][a] \in Nat /\ cap[c] \in Nat
  BY DEF TypeOK
<1>b. SUFFICES CapIsSumOfStakes' /\ balance' = SumFunction(cap') + owed'
  BY DEF Solvent, owed, total
<1>1. ASSUME NEW a \in Account, NEW c \in Candidate, NEW x \in Values,
             addStake(a, c, x), pay(x), UNCHANGED withdrawsState
      PROVE  CapIsSumOfStakes' /\ balance' = SumFunction(cap') + owed'
  <2> DEFINE v == stake[c][a] + x
             w == cap[c] + x
  <2>1. x \in Nat /\ v \in Nat /\ w \in Int /\ w = cap[c] - stake[c][a] + v
    BY <1>a, CapAssumption
  <2>2. stake' = [stake EXCEPT ![c][a] = v] /\ cap' = [cap EXCEPT ![c] = w]
    BY <1>1 DEF addStake
  <2>3. owed' = owed /\ balance' = balance + x
    BY <1>1 DEF pay, withdrawsState, owed
  <2> HIDE DEF v, w
  <2>4. /\ CapIsSumOfStakes' /\ SumFunction(cap) \in Int
        /\ SumFunction(cap') = SumFunction(cap) - stake[c][a] + v
    BY <2>1, <2>2, StakeMoves, Zenon
  <2>5. owed \in Nat
    BY OwedType
  <2> QED BY <1>0, <1>a, <2>1, <2>3, <2>4, <2>5 DEF v
<1>2. ASSUME NEW a \in Account, NEW c \in Candidate, NEW v \in Nat, NEW x \in Nat,
             NEW delay \in {CandidateWithdrawDelay, VoterWithdrawDelay},
             stake[c][a] = v + x, refund(a, x, delay), balance' = balance,
             stake' = [stake EXCEPT ![c][a] = v], cap' = [cap EXCEPT ![c] = @ - x]
      PROVE  CapIsSumOfStakes' /\ balance' = SumFunction(cap') + owed'
  <2> DEFINE w == cap[c] - x
  <2>1. w \in Int /\ w = cap[c] - stake[c][a] + v /\ cap' = [cap EXCEPT ![c] = w]
    BY <1>a, <1>2
  <2>2. owed \in Nat /\ owed' = owed + x
    BY <1>2, RefundOwed
  <2> HIDE DEF w
  <2>3. /\ CapIsSumOfStakes' /\ SumFunction(cap) \in Int
        /\ SumFunction(cap') = SumFunction(cap) - stake[c][a] + v
    BY <1>2, <2>1, StakeMoves, Zenon
  <2> QED BY <1>0, <1>2, <2>2, <2>3
<1>3. ASSUME NEW a \in Account, NEW c \in Candidate, NEW x \in Values,
             propose(a, x, c) \/ vote(a, x, c)
      PROVE  CapIsSumOfStakes' /\ balance' = SumFunction(cap') + owed'
  BY <1>1, <1>3 DEF propose, vote, withdrawsState
<1>4. ASSUME NEW a \in Account, NEW c \in Candidate, NEW x \in Values, unvote(a, c, x)
      PROVE  CapIsSumOfStakes' /\ balance' = SumFunction(cap') + owed'
  <2> DEFINE v == stake[c][a] - x
  <2>1. x \in Nat /\ v \in Nat /\ stake[c][a] = v + x
    BY <1>4, <1>a, CapAssumption DEF unvote, onlyValidVote
  <2>2. stake' = [stake EXCEPT ![c][a] = v] /\ cap' = [cap EXCEPT ![c] = @ - x]
    BY <1>4 DEF unvote
  <2>3. refund(a, x, VoterWithdrawDelay) /\ balance' = balance
    BY <1>4 DEF unvote
  <2> HIDE DEF v
  <2> QED BY <1>2, <2>1, <2>2, <2>3, Zenon
<1>5. ASSUME NEW a \in Account, NEW c \in Candidate, resign(a, c)
      PROVE  CapIsSumOfStakes' /\ balance' = SumFunction(cap') + owed'
  <2> DEFINE x == stake[c][a]
  <2>1. x \in Nat /\ 0 \in Nat /\ stake[c][a] = 0 + x
    BY <1>a
  <2>2. stake' = [stake EXCEPT ![c][a] = 0] /\ cap' = [cap EXCEPT ![c] = @ - x]
    BY <1>5 DEF resign
  <2>3. refund(a, x, CandidateWithdrawDelay) /\ balance' = balance
    BY <1>5 DEF resign
  <2> HIDE DEF x
  <2> QED BY <1>2, <2>1, <2>2, <2>3, Zenon
<1>6. ASSUME NEW a \in Account, NEW b \in Blocks, NEW i \in DOMAIN blockNumbers[a],
             withdraw(a, b, i)
      PROVE  CapIsSumOfStakes' /\ balance' = SumFunction(cap') + owed'
  <2>1. caps' = [caps EXCEPT ![a][b] = 0] /\ balance' = balance - caps[a][b]
    BY <1>6 DEF withdraw, onlyValidWithdraw
  <2>2. caps \in [Account -> [Blocks -> Nat]] /\ caps[a][b] \in Nat /\ 0 \in Nat
    BY DEF TypeOK
  <2>3. owed \in Nat /\ owed' = owed - caps[a][b] + 0
    BY <2>1, <2>2, OwedUpdate, Zenon
  <2>4. cap' = cap /\ stake' = stake
    BY <1>6 DEF withdraw, onlyValidWithdraw, validatorsState
  <2>5. SumFunction(cap) \in Int
    <3>1. cap \in [Candidate -> Int]
      BY DEF TypeOK
    <3> QED BY <3>1, FiniteAssumption, SumType
  <2>6. CapIsSumOfStakes'
    BY <2>4 DEF CapIsSumOfStakes
  <2>7. SumFunction(cap') = SumFunction(cap)
    BY <2>4
  <2> QED BY <1>0, <2>1, <2>2, <2>3, <2>5, <2>6, <2>7
<1>7. CASE NextBlock
  BY <1>0, <1>7 DEF NextBlock, validatorsState, withdrawsState, CapIsSumOfStakes, owed
<1>8. CASE UNCHANGED vars
  BY <1>0, <1>8 DEF vars, validatorsState, withdrawsState, CapIsSumOfStakes, owed
<1> QED
  BY <1>3, <1>4, <1>5, <1>6, <1>7, <1>8 DEF Next

(* The first candidates are listed once each. *)
LEMMA FirstCount == Cardinality(Range(FirstCandidates)) = Len(FirstCandidates)
<1> DEFINE n == Len(FirstCandidates)
           first == Range(FirstCandidates)
<1>1. FirstCandidates \in Bijection(1 .. n, first)
  BY AddressAssumption DEF Bijection, Injection, Surjection, IsInjective, Range
<1>2. ExistsBijection(1 .. n, first)
  BY <1>1 DEF ExistsBijection
<1>3. n \in Nat
  BY AddressAssumption
<1> HIDE DEF first, n
<1>4. Cardinality(first) = n
  BY <1>2, <1>3, FS_CountingElements
<1> QED BY <1>4 DEF n, first

(* The genesis tool funds the contract with what the first candidates have at
   stake. *)
LEMMA BooksInit == Init => BooksBalance
<1> SUFFICES ASSUME Init PROVE BooksBalance
  OBVIOUS
<1> DEFINE first == Range(FirstCandidates)
<1>1. first \in SUBSET Candidate /\ {FirstOwner} \in SUBSET Account /\ {} \in SUBSET Account
  BY AddressAssumption DEF Range
<1>2. MinCandidateCap \in Int /\ 0 \in Int /\ Len(FirstCandidates) \in Nat
  BY AddressAssumption, CapAssumption
<1>3. Cardinality(first) = Len(FirstCandidates)
  BY FirstCount
<1>4. Cardinality({FirstOwner}) = 1 /\ Cardinality({}) = 0
  BY FS_Singleton, FS_EmptySet, SMTT(20)
<1>5. ASSUME NEW c \in Candidate PROVE cap[c] = SumFunction(stake[c])
  <2>1. CASE c \in first
    <3>1. cap[c] = MinCandidateCap
      BY <2>1 DEF Init
    <3>2. stake[c] = [v \in Account |-> IF v \in {FirstOwner} THEN MinCandidateCap ELSE 0]
      BY <2>1 DEF Init
    <3>3. SumFunction(stake[c]) = MinCandidateCap * 1
      BY <1>1, <1>2, <1>4, <3>2, FiniteAssumption, SumConstant
    <3> QED BY <1>2, <3>1, <3>3
  <2>2. CASE c \notin first
    <3>1. cap[c] = 0
      BY <2>2 DEF Init
    <3>2. stake[c] = [v \in Account |-> IF v \in {} THEN 0 ELSE 0]
      BY <2>2 DEF Init
    <3>3. SumFunction(stake[c]) = 0 * 0
      BY <1>1, <1>2, <1>4, <3>2, FiniteAssumption, SumConstant
    <3> QED BY <3>1, <3>3
  <2> QED BY <2>1, <2>2
<1>6. SumFunction(cap) = MinCandidateCap * Len(FirstCandidates)
  <2>1. cap = [c \in Candidate |-> IF c \in first THEN MinCandidateCap ELSE 0]
    BY DEF Init
  <2> HIDE DEF first
  <2> QED BY <1>1, <1>2, <1>3, <2>1, FiniteAssumption, SumConstant
<1>7. owed = 0
  <2>1. ASSUME NEW a \in Account PROVE SumFunction(caps[a]) = 0
    <3>1. caps[a] = [b \in Blocks |-> IF b \in {} THEN 0 ELSE 0]
      BY DEF Init
    <3>2. SumFunction(caps[a]) = 0 * 0
      BY <1>2, <1>4, <3>1, BlocksFinite, SumConstant
    <3> QED BY <3>2
  <2>2. [a \in Account |-> SumFunction(caps[a])] = [a \in Account |-> IF a \in {} THEN 0 ELSE 0]
    BY <2>1
  <2>3. owed = 0 * 0
    BY <1>1, <1>2, <1>4, <2>2, FiniteAssumption, SumConstant DEF owed, total
  <2> QED BY <2>3
<1>8. balance = SumFunction(cap) + owed
  BY <1>2, <1>6, <1>7 DEF Init
<1> QED BY <1>5, <1>8 DEF BooksBalance, CapIsSumOfStakes, Solvent, owed, total

(* Whatever calls are made, the cap of every candidate is the sum of what its
   voters can take back, and the contract holds exactly the caps and what
   waits to be withdrawn. *)
THEOREM BooksAlwaysBalance == Spec => []BooksBalance
BY BooksInit, BooksStep, TypeInit, TypeStep, PTL DEF Spec

-----------------------------------------------------------------------------
(* The list of candidates. *)

\* A candidate has a place in the list; so has the zero address, which shares
\* its value with the places that were deleted.
EveryCandidateListed ==
    \A c \in Candidate : isCandidate[c] => \E i \in DOMAIN candidates : candidates[i] = c

Slots(d) == {i \in DOMAIN candidates : candidates[i] = d}
Current == {c \in Candidate : isCandidate[c]}

\* CandidatesListedOnce in terms of the places of each address.
SlotsExact ==
    /\ \A d \in Candidate \ {Zero} :
         IF isCandidate[d] THEN \E i \in DOMAIN candidates : Slots(d) = {i} ELSE Slots(d) = {}
    /\ candidateCount = Cardinality(Current)

ListInv == EveryCandidateListed /\ CandidatesListedOnce

(* The two say the same. *)
LEMMA ListedOnceBySlots == CandidatesListedOnce <=> SlotsExact
<1>1. ASSUME NEW d, NEW i \in DOMAIN candidates
      PROVE  Slots(d) = {i} <=> \A j \in DOMAIN candidates : candidates[j] = d <=> j = i
  BY DEF Slots
<1>2. ASSUME NEW d PROVE Slots(d) = {} <=> \A j \in DOMAIN candidates : candidates[j] # d
  BY DEF Slots
<1> QED BY <1>1, <1>2 DEF CandidatesListedOnce, Current, SlotsExact

(* The first place of a candidate, which resign deletes, is there. *)
LEMMA FirstSlot ==
    ASSUME TypeOK, EveryCandidateListed, NEW c \in Candidate, isCandidate[c],
           deleteCandidate(c)
    PROVE  \E i \in DOMAIN candidates :
             candidates[i] = c /\ candidates' = [candidates EXCEPT ![i] = Zero]
<1>1. Slots(c) \in SUBSET Nat /\ Slots(c) # {}
  BY DEF Slots, EveryCandidateListed, TypeOK
<1>2. PICK k \in Slots(c) : \A j \in Slots(c) : k <= j
  BY <1>1, SmallestNumber
<1>3. k \in DOMAIN candidates /\ candidates[k] = c /\ \A j \in 1 .. k - 1 : candidates[j] # c
  <2>1. ASSUME NEW j \in 1 .. k - 1, candidates[j] = c PROVE FALSE
    <3>1. j \in DOMAIN candidates /\ j < k /\ k \in Nat
      BY <1>2 DEF Slots, TypeOK
    <3>2. j \in Slots(c)
      BY <2>1, <3>1 DEF Slots
    <3> QED BY <1>2, <3>1, <3>2
  <2> QED BY <1>2, <2>1 DEF Slots
<1> DEFINE i == CHOOSE i \in DOMAIN candidates :
                   candidates[i] = c /\ \A j \in 1 .. i - 1 : candidates[j] # c
<1>4. i \in DOMAIN candidates /\ candidates[i] = c
  BY <1>3
<1>5. candidates' = [candidates EXCEPT ![i] = Zero]
  BY DEF deleteCandidate
<1> HIDE DEF i
<1> QED BY <1>4, <1>5, Zenon

(* propose adds one place and resign clears one; no other call touches the
   list or who is a candidate. *)
LEMMA ListStep == TypeOK /\ ListInv /\ [Next]_vars => ListInv'
<1> SUFFICES ASSUME TypeOK, ListInv, [Next]_vars PROVE ListInv'
  OBVIOUS
<1>0. IsFiniteSet(Current) /\ Cardinality(Current) \in Nat /\ candidateCount = Cardinality(Current)
  BY FiniteAssumption, FS_Subset, FS_CardinalityType
     DEF Current, ListInv, CandidatesListedOnce
<1>a. candidates \in Seq(Candidate \cup {Zero}) /\ isCandidate \in [Candidate -> BOOLEAN]
  BY DEF TypeOK
<1>1. ASSUME NEW a \in Account, NEW c \in Candidate, NEW x \in Values, propose(a, x, c)
      PROVE  ListInv'
  <2> DEFINE n == Len(candidates) + 1
  <2>1. /\ DOMAIN candidates' = DOMAIN candidates \cup {n} /\ n \notin DOMAIN candidates
        /\ candidates'[n] = c /\ \A i \in DOMAIN candidates : candidates'[i] = candidates[i]
    BY <1>1, <1>a DEF propose
  <2>2. \A d \in Candidate : isCandidate'[d] = (d = c \/ isCandidate[d])
    BY <1>1, <1>a, Zenon DEF propose
  <2>3. EveryCandidateListed'
    <3> SUFFICES ASSUME NEW d \in Candidate, isCandidate'[d]
                 PROVE  \E i \in DOMAIN candidates' : candidates'[i] = d
      BY DEF EveryCandidateListed
    <3>1. CASE d = c
      BY <2>1, <3>1
    <3>2. CASE d # c
      <4>1. PICK i \in DOMAIN candidates : candidates[i] = d
        BY <2>2, <3>2, Zenon DEF EveryCandidateListed, ListInv
      <4> QED BY <2>1, <4>1
    <3> QED BY <3>1, <3>2
  <2>4. Current' = Current \cup {c} /\ c \notin Current
    BY <1>1, <2>2, Zenon DEF Current, propose
  <2>5. candidateCount' = Cardinality(Current')
    <3>1. Cardinality(Current \cup {c}) = Cardinality(Current) + 1
      BY <1>0, <2>4, FS_AddElement, Zenon
    <3> QED BY <1>0, <1>1, <2>4, <3>1 DEF propose
  <2>6. ASSUME NEW d \in Candidate \ {Zero}
        PROVE  IF isCandidate'[d] THEN \E i \in DOMAIN candidates' : Slots(d)' = {i}
               ELSE Slots(d)' = {}
    <3>1. CASE d = c
      <4>1. Slots(d) = {}
        BY <1>1, <3>1, ListedOnceBySlots DEF propose, ListInv, SlotsExact
      <4>2. Slots(d)' = {n}
        BY <2>1, <3>1, <4>1 DEF Slots
      <4> QED BY <2>1, <2>2, <3>1, <4>2, Zenon
    <3>2. CASE d # c
      <4>1. Slots(d)' = Slots(d)
        BY <2>1, <3>2 DEF Slots
      <4> QED BY <2>1, <2>2, <3>2, <4>1, ListedOnceBySlots, Zenon DEF ListInv, SlotsExact
    <3> QED BY <3>1, <3>2
  <2>7. CandidatesListedOnce'
    <3>1. SlotsExact'
      BY <2>5, <2>6 DEF SlotsExact
    <3> QED BY <3>1, ListedOnceBySlots, PTL
  <2> QED BY <2>3, <2>7 DEF ListInv
<1>2. ASSUME NEW a \in Account, NEW c \in Candidate, resign(a, c)
      PROVE  ListInv'
  <2>1. PICK k \in DOMAIN candidates :
          candidates[k] = c /\ candidates' = [candidates EXCEPT ![k] = Zero]
    BY <1>2, FirstSlot DEF resign, ListInv
  <2>2. /\ DOMAIN candidates' = DOMAIN candidates /\ candidates'[k] = Zero
        /\ \A i \in DOMAIN candidates : i # k => candidates'[i] = candidates[i]
    BY <1>a, <2>1
  <2>3. \A d \in Candidate : isCandidate'[d] = (d # c /\ isCandidate[d])
    BY <1>2, <1>a, Zenon DEF resign
  <2>4. EveryCandidateListed'
    BY <2>1, <2>2, <2>3, Zenon DEF EveryCandidateListed, ListInv
  <2>5. Current' = Current \ {c} /\ c \in Current
    BY <1>2, <2>3, Zenon DEF Current, resign
  <2>6. candidateCount' = Cardinality(Current')
    <3>1. Cardinality(Current \ {c}) = Cardinality(Current) - 1
      BY <1>0, <2>5, FS_RemoveElement, Zenon
    <3> QED BY <1>0, <1>2, <2>5, <3>1 DEF resign
  <2>7. ASSUME NEW d \in Candidate \ {Zero}
        PROVE  IF isCandidate'[d] THEN \E i \in DOMAIN candidates' : Slots(d)' = {i}
               ELSE Slots(d)' = {}
    <3>1. CASE d = c
      <4>1. PICK i \in DOMAIN candidates : Slots(d) = {i}
        BY <1>2, <3>1, ListedOnceBySlots DEF resign, ListInv, SlotsExact
      <4>2. i = k
        BY <2>1, <3>1, <4>1 DEF Slots
      <4>3. Slots(d)' = {}
        BY <2>2, <4>1, <4>2 DEF Slots
      <4> QED BY <2>3, <3>1, <4>3, Zenon
    <3>2. CASE d # c
      <4>1. Slots(d)' = Slots(d)
        BY <2>1, <2>2, <3>2 DEF Slots
      <4> QED BY <2>2, <2>3, <3>2, <4>1, ListedOnceBySlots, Zenon DEF ListInv, SlotsExact
    <3> QED BY <3>1, <3>2
  <2>8. CandidatesListedOnce'
    <3>1. SlotsExact'
      BY <2>6, <2>7 DEF SlotsExact
    <3> QED BY <3>1, ListedOnceBySlots, PTL
  <2> QED BY <2>4, <2>8 DEF ListInv
<1>3. ASSUME UNCHANGED <<candidates, isCandidate, candidateCount>>
      PROVE  ListInv'
  BY <1>3 DEF ListInv, EveryCandidateListed, CandidatesListedOnce
<1>4. ASSUME NEW a \in Account, NEW c \in Candidate, NEW x \in Values,
             vote(a, x, c) \/ unvote(a, c, x)
      PROVE  ListInv'
  BY <1>3, <1>4 DEF vote, unvote
<1>5. ASSUME NEW a \in Account, NEW b \in Blocks, NEW i \in DOMAIN blockNumbers[a],
             withdraw(a, b, i)
      PROVE  ListInv'
  BY <1>3, <1>5 DEF withdraw, onlyValidWithdraw, validatorsState
<1>6. CASE NextBlock
  BY <1>3, <1>6 DEF NextBlock, validatorsState
<1>7. CASE UNCHANGED vars
  BY <1>3, <1>7 DEF vars, validatorsState
<1> QED
  BY <1>1, <1>2, <1>4, <1>5, <1>6, <1>7 DEF Next

(* Whatever calls are made, getCandidates returns every candidate exactly
   once, and candidateCount is their number. *)
THEOREM CandidatesAlwaysListedOnce == Spec => []CandidatesListedOnce
<1>1. Init => ListInv
  <2> SUFFICES ASSUME Init PROVE ListInv
    OBVIOUS
  <2> DEFINE first == Range(FirstCandidates)
  <2>1. /\ candidates = FirstCandidates /\ FirstCandidates \in Seq(Candidate)
        /\ \A c \in Candidate : isCandidate[c] <=> c \in first
    BY AddressAssumption, Zenon DEF Init
  <2>2. EveryCandidateListed
    BY <2>1 DEF EveryCandidateListed, Range
  <2>3. Current = first
    BY <2>1 DEF Current, Range
  <2>4. candidateCount = Cardinality(Current)
    BY <2>3, FirstCount DEF Init
  <2>5. ASSUME NEW d \in Candidate \ {Zero}
        PROVE  IF isCandidate[d] THEN \E i \in DOMAIN candidates : Slots(d) = {i}
               ELSE Slots(d) = {}
    BY <2>1, AddressAssumption DEF Slots, Range, IsInjective
  <2> QED BY <2>2, <2>4, <2>5, ListedOnceBySlots DEF ListInv, SlotsExact
<1>2. ListInv => CandidatesListedOnce
  BY DEF ListInv
<1> QED BY <1>1, <1>2, ListStep, TypeInit, TypeStep, PTL DEF Spec
=============================================================================
