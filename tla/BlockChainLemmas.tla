-------------------------- MODULE BlockChainLemmas --------------------------
(***************************************************************************)
(* What the proofs about the canonical chain rest on: the ancestors of a   *)
(* block in any tree, the lists of database writes, what reorg and insert  *)
(* write, and the types of the variables in every reachable state.         *)
(***************************************************************************)
EXTENDS BlockChain, WellFoundedInduction, TLAPS

(* A set of natural numbers has a least one: the inductions below take the least
   counterexample. *)
LEMMA SmallestNumber ==
    ASSUME NEW T \in SUBSET Nat, T # {}
    PROVE  \E n \in T : \A m \in T : n <= m
<1>1. PICK n \in T : \A m \in T : ~(<<m, n>> \in OpToRel(<, Nat))
  BY NatLessThanWellFounded, WFMin, Zenon
<1>2. ASSUME NEW m \in T PROVE n <= m
  <2>1. <<m, n>> \in Nat \X Nat /\ <<m, n>>[1] = m /\ <<m, n>>[2] = n
    OBVIOUS
  <2>2. ~(m < n)
    BY <1>1, <2>1 DEF OpToRel
  <2> QED BY <2>2
<1> QED BY <1>2

(* The ancestors of a block.  blocks is passed as bs, so that the facts can be
   used before and after a step. *)

Block == [number: Nat, parent: Nat, td: Nat, tx: Tx \cup {NoTx}]

\* A block comes after its parent, is one higher and heavier.
Linked(bs, x) ==
    LET p == bs[x].parent
    IN  p \in 1 .. x - 1 /\ bs[x].number = bs[p].number + 1 /\ bs[x].td > bs[p].td

Tree(bs) ==
    /\ bs \in Seq(Block) /\ Len(bs) >= 1
    /\ bs[1].number = 0 /\ bs[1].parent = 0
    /\ \A x \in 2 .. Len(bs) : Linked(bs, x)

\* The recursion that defines Path for the blocks up to b.
PathSol(bs, f, b) ==
    f = [x \in 1 .. b |-> {x} \cup (IF x = 1 THEN {} ELSE f[bs[x].parent])]

PathIn(bs, b) == (CHOOSE f : PathSol(bs, f, b))[b]

\* The ancestors the module walks are the ancestors in its tree of blocks.
LEMMA PathIsPathIn ==
    ASSUME NEW b
    PROVE  Path(b) = PathIn(blocks, b)
  BY DEF Path, PathIn, PathSol, parent

(* The parent of a block is a smaller number. *)
LEMMA ParentBelow ==
    ASSUME NEW bs, Tree(bs), NEW x \in 1 .. Len(bs), x # 1
    PROVE  bs[x].parent \in 1 .. x - 1 /\ bs[x].parent \in 1 .. Len(bs)
<1>1. Len(bs) \in Nat /\ x \in 2 .. Len(bs)
  BY DEF Tree
<1> QED BY <1>1 DEF Tree, Linked

(* The recursion leaves no choice. *)
LEMMA PathUnique ==
    ASSUME NEW bs, Tree(bs), NEW a \in 0 .. Len(bs), NEW b \in 0 .. Len(bs),
           NEW g, PathSol(bs, g, a), NEW h, PathSol(bs, h, b), NEW x \in 1 .. a, x <= b
    PROVE  g[x] = h[x]
<1>1. Len(bs) \in Nat
  BY DEF Tree
<1> DEFINE T == {y \in 1 .. x : g[y] # h[y]}
<1>2. SUFFICES ASSUME T # {} PROVE FALSE
  BY <1>1
<1>3. PICK y \in T : \A z \in T : y <= z
  <2>1. T \in SUBSET Nat
    BY <1>1
  <2> HIDE DEF T
  <2> QED BY <1>2, <2>1, SmallestNumber
<1>4. y \in 1 .. a /\ y \in 1 .. b /\ y \in 1 .. Len(bs)
  BY <1>1
<1>5. g[y] = {y} \cup (IF y = 1 THEN {} ELSE g[bs[y].parent])
  BY <1>4, Zenon DEF PathSol
<1>6. h[y] = {y} \cup (IF y = 1 THEN {} ELSE h[bs[y].parent])
  BY <1>4, Zenon DEF PathSol
<1>7. CASE y = 1
  BY <1>5, <1>6, <1>7, Zenon
<1>8. CASE y # 1
  <2>1. bs[y].parent \in 1 .. y - 1
    BY <1>4, <1>8, ParentBelow, Zenon
  <2>2. bs[y].parent \notin T /\ bs[y].parent \in 1 .. x
    BY <1>1, <1>3, <2>1
  <2> QED BY <1>5, <1>6, <1>8, <2>2, Zenon
<1> QED BY <1>7, <1>8, Zenon

(* And it has a solution. *)
LEMMA PathExists ==
    ASSUME NEW bs, Tree(bs), NEW b \in 0 .. Len(bs)
    PROVE  \E f : PathSol(bs, f, b)
<1>1. Len(bs) \in Nat
  BY DEF Tree
<1> DEFINE T == {y \in 0 .. Len(bs) : ~ \E f : PathSol(bs, f, y)}
<1>2. SUFFICES ASSUME T # {} PROVE FALSE
  BY <1>1
<1>3. PICK y \in T : \A z \in T : y <= z
  <2>1. T \in SUBSET Nat
    BY <1>1
  <2> HIDE DEF T
  <2> QED BY <1>2, <2>1, SmallestNumber
<1>4. CASE y = 0
  <2> DEFINE f == [x \in 1 .. 0 |-> {}]
  <2>1. 1 .. 0 = {}
    OBVIOUS
  <2>2. PathSol(bs, f, 0)
    BY <2>1 DEF PathSol
  <2> QED BY <1>4, <2>2
<1>5. CASE y # 0
  <2>1. y - 1 \in 0 .. Len(bs) /\ y - 1 \notin T
    BY <1>1, <1>3, <1>5
  <2>2. PICK g : PathSol(bs, g, y - 1)
    BY <2>1
  <2> DEFINE f == [x \in 1 .. y |-> IF x < y THEN g[x]
                       ELSE {x} \cup (IF x = 1 THEN {} ELSE g[bs[x].parent])]
  <2>3. ASSUME NEW x \in 1 .. y
        PROVE  f[x] = {x} \cup (IF x = 1 THEN {} ELSE f[bs[x].parent])
    <3>1. x \in 1 .. Len(bs)
      BY <1>1
    <3>2. x # 1 => bs[x].parent \in 1 .. x - 1
      BY <3>1, ParentBelow, Zenon
    <3>3. x # 1 => f[bs[x].parent] = g[bs[x].parent]
      BY <1>1, <3>2
    <3>4. CASE x < y
      <4>1. x \in 1 .. y - 1
        BY <1>1, <3>4
      <4>2. g[x] = {x} \cup (IF x = 1 THEN {} ELSE g[bs[x].parent])
        BY <4>1, <2>2, Zenon DEF PathSol
      <4> QED BY <3>3, <3>4, <4>2, Zenon
    <3> QED BY <3>3, <3>4, Zenon
  <2>4. f = [x \in 1 .. y |-> {x} \cup (IF x = 1 THEN {} ELSE f[bs[x].parent])]
    BY <2>3
  <2>5. PathSol(bs, f, y)
    <3> HIDE DEF f
    <3> QED BY <2>4, Zenon DEF PathSol
  <2> QED BY <2>5
<1> QED BY <1>4, <1>5

(* A block's ancestors are its parent's and itself. *)
LEMMA PathStep ==
    ASSUME NEW bs, Tree(bs), NEW b \in 1 .. Len(bs)
    PROVE  PathIn(bs, b) = {b} \cup (IF b = 1 THEN {} ELSE PathIn(bs, bs[b].parent))
<1>1. Len(bs) \in Nat
  BY DEF Tree
<1> DEFINE sol(c) == CHOOSE f : PathSol(bs, f, c)
<1>2. ASSUME NEW c \in 1 .. Len(bs) PROVE PathSol(bs, sol(c), c)
  BY <1>1, PathExists
<1>3. sol(b)[b] = {b} \cup (IF b = 1 THEN {} ELSE sol(b)[bs[b].parent])
  <2> HIDE DEF sol
  <2>1. b \in 1 .. b
    BY <1>1
  <2> QED BY <1>2, <2>1 DEF PathSol
<1>4. CASE b # 1
  <2> DEFINE p == bs[b].parent
  <2>1. p \in 1 .. Len(bs) /\ p \in 1 .. b /\ p <= p /\ p \in 1 .. p
    BY <1>1, <1>4, ParentBelow
  <2>2. PathSol(bs, sol(b), b) /\ PathSol(bs, sol(p), p)
    BY <1>2, <2>1
  <2>3. sol(b)[p] = sol(p)[p]
    <3> HIDE DEF sol, p
    <3>1. b \in 0 .. Len(bs) /\ p \in 0 .. Len(bs)
      BY <1>1, <2>1
    <3> QED BY <2>1, <2>2, <3>1, PathUnique
  <2> QED BY <1>3, <1>4, <2>3, Zenon DEF PathIn
<1> QED BY <1>3, <1>4, Zenon DEF PathIn

(* A block's ancestors come before it, genesis among them; they are lower and
   lighter than it. *)
AncestorsBelow(bs, b) ==
    /\ b \in PathIn(bs, b) /\ 1 \in PathIn(bs, b)
    /\ \A x \in PathIn(bs, b) :
           /\ x \in 1 .. b
           /\ x # b => bs[x].number < bs[b].number /\ bs[x].td < bs[b].td
           /\ x # 1 => bs[x].parent \in PathIn(bs, b)
           /\ PathIn(bs, x) \subseteq PathIn(bs, b)

\* A member of the tree is a block.
LEMMA BlockType ==
    ASSUME NEW bs, Tree(bs), NEW x \in 1 .. Len(bs)
    PROVE  bs[x] \in Block
  BY DEF Tree

\* A block other than the genesis has one more than its parent's number, and more total
\* difficulty.
LEMMA ParentLinked ==
    ASSUME NEW bs, Tree(bs), NEW x \in 1 .. Len(bs), x # 1
    PROVE  /\ bs[x].number = bs[bs[x].parent].number + 1
           /\ bs[x].td > bs[bs[x].parent].td
<1>1. x \in 2 .. Len(bs)
  BY DEF Tree
<1> QED BY <1>1 DEF Tree, Linked

\* A proper ancestor has a smaller number and a smaller total difficulty.
LEMMA AncestorsAreBelow ==
    ASSUME NEW bs, Tree(bs), NEW b \in 1 .. Len(bs)
    PROVE  AncestorsBelow(bs, b)
<1>1. Len(bs) \in Nat
  BY DEF Tree
<1> DEFINE T == {y \in 1 .. Len(bs) : ~AncestorsBelow(bs, y)}
<1>2. SUFFICES ASSUME T # {} PROVE FALSE
  OBVIOUS
<1>3. PICK y \in T : \A z \in T : y <= z
  <2>1. T \in SUBSET Nat
    BY <1>1
  <2> HIDE DEF T
  <2> QED BY <1>2, <2>1, SmallestNumber, Zenon
<1>4. y \in 1 .. Len(bs) /\ ~AncestorsBelow(bs, y)
  OBVIOUS
<1>5. PathIn(bs, y) = {y} \cup (IF y = 1 THEN {} ELSE PathIn(bs, bs[y].parent))
  BY <1>4, PathStep
<1>6. CASE y = 1
  <2>1. PathIn(bs, y) = {1}
    BY <1>5, <1>6
  <2> QED BY <1>4, <1>6, <2>1 DEF AncestorsBelow
<1>7. CASE y # 1
  <2> DEFINE p == bs[y].parent
  <2>1. p \in 1 .. y - 1 /\ p \in 1 .. Len(bs)
    BY <1>4, <1>7, ParentBelow, Zenon
  <2>2. AncestorsBelow(bs, p)
    BY <1>1, <1>3, <2>1
  <2>3. bs[y].number = bs[p].number + 1 /\ bs[y].td > bs[p].td
    BY <1>4, <1>7, ParentLinked, Zenon
  <2>4. PathIn(bs, y) = {y} \cup PathIn(bs, p)
    BY <1>5, <1>7, Zenon
  <2>5. \A x \in 1 .. Len(bs) : bs[x].number \in Nat /\ bs[x].td \in Nat
    BY BlockType, Zenon DEF Block
  <2> HIDE DEF p
  <2>6. ASSUME NEW x \in PathIn(bs, p)
        PROVE  /\ x \in 1 .. y /\ x \in 1 .. Len(bs)
               /\ bs[x].number < bs[y].number /\ bs[x].td < bs[y].td
    <3>1. x \in 1 .. p /\ (x # p => bs[x].number < bs[p].number /\ bs[x].td < bs[p].td)
      BY <2>2 DEF AncestorsBelow
    <3>2. x \in 1 .. y /\ x \in 1 .. Len(bs)
      BY <1>1, <2>1, <3>1
    <3> QED BY <2>1, <2>3, <2>5, <3>1, <3>2, SMTT(20)
  <2>7. p \in PathIn(bs, p) /\ 1 \in PathIn(bs, p)
    BY <2>2 DEF AncestorsBelow
  <2>8. \A x \in PathIn(bs, p) : (x # 1 => bs[x].parent \in PathIn(bs, p))
                                 /\ PathIn(bs, x) \subseteq PathIn(bs, p)
    BY <2>2 DEF AncestorsBelow
  <2>9. bs[y].parent = p
    BY DEF p
  <2>10. y \in 1 .. y
    BY <1>1
  <2>11. AncestorsBelow(bs, y)
    BY <1>7, <2>4, <2>6, <2>7, <2>8, <2>9, <2>10 DEF AncestorsBelow
  <2> QED BY <1>4, <2>11, Zenon
<1> QED BY <1>6, <1>7

\* The ancestors of a block of the tree are in the tree.
LEMMA PathIds ==
    ASSUME NEW bs, Tree(bs), NEW b \in 1 .. Len(bs)
    PROVE  PathIn(bs, b) \subseteq 1 .. Len(bs)
<1>1. Len(bs) \in Nat
  BY DEF Tree
<1>2. \A x \in PathIn(bs, b) : x \in 1 .. b
  BY AncestorsAreBelow, Zenon DEF AncestorsBelow
<1> QED BY <1>1, <1>2

(* A block has one ancestor of each number up to its own, and two ancestors of
   the same block are ancestors of one another. *)
OneOfEachNumber(bs, b) ==
    /\ \A x, y \in PathIn(bs, b) :
           /\ bs[x].number = bs[y].number => x = y
           /\ bs[x].number <= bs[y].number => x \in PathIn(bs, y)
    /\ \A k \in 0 .. bs[b].number : \E x \in PathIn(bs, b) : bs[x].number = k

\* A block has exactly one ancestor of each number up to its own.
LEMMA AncestorsNumbered ==
    ASSUME NEW bs, Tree(bs), NEW b \in 1 .. Len(bs)
    PROVE  OneOfEachNumber(bs, b)
<1>1. Len(bs) \in Nat
  BY DEF Tree
<1> DEFINE T == {y \in 1 .. Len(bs) : ~OneOfEachNumber(bs, y)}
<1>2. SUFFICES ASSUME T # {} PROVE FALSE
  OBVIOUS
<1>3. PICK y \in T : \A z \in T : y <= z
  <2>1. T \in SUBSET Nat
    BY <1>1
  <2> HIDE DEF T
  <2> QED BY <1>2, <2>1, SmallestNumber
<1>4. y \in 1 .. Len(bs) /\ ~OneOfEachNumber(bs, y)
  OBVIOUS
<1>5. PathIn(bs, y) = {y} \cup (IF y = 1 THEN {} ELSE PathIn(bs, bs[y].parent))
  BY <1>4, PathStep
<1>6. CASE y = 1
  <2>1. PathIn(bs, y) = {1} /\ bs[y].number = 0
    BY <1>5, <1>6, Zenon DEF Tree
  <2> QED BY <1>4, <1>6, <2>1 DEF OneOfEachNumber
<1>7. CASE y # 1
  <2> DEFINE p == bs[y].parent
  <2>1. p \in 1 .. y - 1 /\ p \in 1 .. Len(bs)
    BY <1>4, <1>7, ParentBelow
  <2>2. OneOfEachNumber(bs, p)
    BY <1>1, <1>3, <2>1
  <2>3. bs[y].number = bs[p].number + 1
    BY <1>4, <1>7, ParentLinked, Zenon
  <2>4. PathIn(bs, y) = {y} \cup PathIn(bs, p)
    BY <1>5, <1>7
  <2>5. \A x \in 1 .. Len(bs) : bs[x].number \in Nat
    BY BlockType, Zenon DEF Block
  <2>6. AncestorsBelow(bs, y) /\ AncestorsBelow(bs, p)
    BY <1>4, <2>1, AncestorsAreBelow, Zenon
  <2> HIDE DEF p
  <2>7. \A x \in PathIn(bs, p) : x \in 1 .. Len(bs) /\ bs[x].number <= bs[p].number
    <3>1. TAKE x \in PathIn(bs, p)
    <3>2. x \in 1 .. p /\ (x # p => bs[x].number < bs[p].number)
      BY <2>6 DEF AncestorsBelow
    <3>3. x \in 1 .. Len(bs)
      BY <1>1, <2>1, <3>2
    <3> QED BY <2>1, <2>5, <3>2, <3>3
  <2>8. \A x, z \in PathIn(bs, y) :
           /\ bs[x].number = bs[z].number => x = z
           /\ bs[x].number <= bs[z].number => x \in PathIn(bs, z)
    <3>1. TAKE x, z \in PathIn(bs, y)
    <3>2. CASE x \in PathIn(bs, p) /\ z \in PathIn(bs, p)
      BY <2>2, <3>2 DEF OneOfEachNumber
    <3>3. CASE z = y
      <4>1. x # y => bs[x].number < bs[y].number
        BY <2>6, Zenon DEF AncestorsBelow
      <4> QED BY <2>5, <1>4, <3>3, <4>1
    <3>4. CASE x = y /\ z \in PathIn(bs, p)
      BY <1>4, <2>1, <2>3, <2>5, <2>7, <3>4
    <3> QED BY <2>4, <3>2, <3>3, <3>4, Zenon
  <2>9. ASSUME NEW k \in 0 .. bs[y].number
        PROVE  \E x \in PathIn(bs, y) : bs[x].number = k
    <3>1. CASE k = bs[y].number
      BY <2>4, <3>1
    <3>2. CASE k # bs[y].number
      <4>1. k \in 0 .. bs[p].number
        BY <1>4, <2>1, <2>3, <2>5, <3>2
      <4>2. PICK x \in PathIn(bs, p) : bs[x].number = k
        BY <2>2, <4>1, Zenon DEF OneOfEachNumber
      <4> QED BY <2>4, <4>2
    <3> QED BY <3>1, <3>2
  <2>10. OneOfEachNumber(bs, y)
    BY <2>8, <2>9 DEF OneOfEachNumber
  <2> QED BY <1>4, <2>10
<1> QED BY <1>6, <1>7

(* The numbers are below the positions. *)
LEMMA NumberBelow ==
    ASSUME NEW bs, Tree(bs), NEW b \in 1 .. Len(bs)
    PROVE  bs[b].number < b
<1>1. Len(bs) \in Nat
  BY DEF Tree
<1> DEFINE T == {y \in 1 .. Len(bs) : ~(bs[y].number < y)}
<1>2. SUFFICES ASSUME T # {} PROVE FALSE
  OBVIOUS
<1>3. PICK y \in T : \A z \in T : y <= z
  <2>1. T \in SUBSET Nat
    BY <1>1
  <2> HIDE DEF T
  <2> QED BY <1>2, <2>1, SmallestNumber
<1>4. CASE y = 1
  BY <1>4 DEF Tree
<1>5. CASE y # 1
  <2>1. bs[y].parent \in 1 .. y - 1 /\ bs[y].parent \in 1 .. Len(bs)
    BY <1>5, ParentBelow
  <2>2. bs[y].number = bs[bs[y].parent].number + 1
    BY <1>5, ParentLinked
  <2>3. bs[bs[y].parent].number < bs[y].parent
    BY <1>1, <1>3, <2>1
  <2>4. bs[bs[y].parent].number \in Nat
    BY <2>1, BlockType, Zenon DEF Block
  <2> QED BY <1>1, <2>1, <2>2, <2>3, <2>4
<1> QED BY <1>4, <1>5

(* A set of blocks that has the parent of each of its blocks has the ancestors. *)
LEMMA ClosedUnderAncestors ==
    ASSUME NEW bs, Tree(bs), NEW S, \A x \in S \ {1} : bs[x].parent \in S,
           NEW b \in 1 .. Len(bs), b \in S
    PROVE  PathIn(bs, b) \subseteq S
<1>1. Len(bs) \in Nat
  BY DEF Tree
<1> DEFINE T == {y \in 1 .. Len(bs) : y \in S /\ ~(PathIn(bs, y) \subseteq S)}
<1>2. SUFFICES ASSUME T # {} PROVE FALSE
  OBVIOUS
<1>3. PICK y \in T : \A z \in T : y <= z
  <2>1. T \in SUBSET Nat
    BY <1>1
  <2> HIDE DEF T
  <2> QED BY <1>2, <2>1, SmallestNumber, Zenon
<1>4. PathIn(bs, y) = {y} \cup (IF y = 1 THEN {} ELSE PathIn(bs, bs[y].parent))
  BY PathStep
<1>5. y # 1 => bs[y].parent \in 1 .. y - 1 /\ bs[y].parent \in 1 .. Len(bs)
  BY ParentBelow
<1>6. y # 1 => bs[y].parent \notin T
  BY <1>1, <1>3, <1>5
<1> QED BY <1>4, <1>5, <1>6, Zenon

(* The ancestors of a block do not change when blocks are added. *)
LEMMA PathStable ==
    ASSUME NEW bs, Tree(bs), NEW cs, Tree(cs), Len(bs) <= Len(cs),
           \A x \in 1 .. Len(bs) : cs[x] = bs[x], NEW b \in 1 .. Len(bs)
    PROVE  PathIn(cs, b) = PathIn(bs, b)
<1>1. Len(bs) \in Nat /\ Len(cs) \in Nat
  BY DEF Tree
<1> DEFINE T == {y \in 1 .. Len(bs) : PathIn(cs, y) # PathIn(bs, y)}
<1>2. SUFFICES ASSUME T # {} PROVE FALSE
  OBVIOUS
<1>3. PICK y \in T : \A z \in T : y <= z
  <2>1. T \in SUBSET Nat
    BY <1>1
  <2> HIDE DEF T
  <2> QED BY <1>2, <2>1, SmallestNumber, Zenon
<1>4. y \in 1 .. Len(bs) /\ y \in 1 .. Len(cs)
  BY <1>1
<1>5. PathIn(bs, y) = {y} \cup (IF y = 1 THEN {} ELSE PathIn(bs, bs[y].parent))
  BY <1>4, PathStep
<1>6. PathIn(cs, y) = {y} \cup (IF y = 1 THEN {} ELSE PathIn(cs, cs[y].parent))
  BY <1>4, PathStep
<1>7. cs[y].parent = bs[y].parent
  BY <1>4
<1>8. y # 1 => bs[y].parent \in 1 .. y - 1 /\ bs[y].parent \in 1 .. Len(bs)
  BY <1>4, ParentBelow
<1>9. y # 1 => bs[y].parent \notin T
  BY <1>1, <1>3, <1>8
<1> QED BY <1>5, <1>6, <1>7, <1>8, <1>9, Zenon

(* A set of blocks that is not empty has a highest one. *)
HighestIn(bs, B) == CHOOSE x \in B : \A y \in B : bs[y].number <= bs[x].number

\* A non-empty set of blocks has a highest one.
LEMMA HighestExists ==
    ASSUME NEW bs, Tree(bs), NEW B, B \subseteq 1 .. Len(bs), B # {}
    PROVE  /\ HighestIn(bs, B) \in B
           /\ \A y \in B : bs[y].number <= bs[HighestIn(bs, B)].number
<1>1. Len(bs) \in Nat
  BY DEF Tree
<1>2. \A x \in B : bs[x].number \in Nat /\ bs[x].number < Len(bs)
  <2>1. TAKE x \in B
  <2>2. bs[x].number < x /\ bs[x].number \in Nat
    BY NumberBelow, BlockType DEF Block
  <2> QED BY <1>1, <2>2
<1> DEFINE T == {Len(bs) - bs[x].number : x \in B}
<1>3. PICK n \in T : \A m \in T : n <= m
  <2>1. \A x \in B : Len(bs) - bs[x].number \in Nat
    BY <1>1, <1>2
  <2>2. T \in SUBSET Nat /\ T # {}
    BY <2>1, Zenon
  <2> HIDE DEF T
  <2> QED BY <2>2, SmallestNumber, Zenon
<1>4. PICK x \in B : n = Len(bs) - bs[x].number
  OBVIOUS
<1>5. \A y \in B : bs[y].number <= bs[x].number
  <2>1. TAKE y \in B
  <2>2. n <= Len(bs) - bs[y].number
    BY <1>3
  <2> QED BY <1>1, <1>2, <1>4, <2>2
<1> QED BY <1>5, Zenon DEF HighestIn

-----------------------------------------------------------------------------
(* Lists of writes. *)

\* w is one of the writes.
In(ws, w) == \E i \in DOMAIN ws : ws[i] = w

\* One of the writes is an op.
Has(ws, op) == \E i \in DOMAIN ws : ws[i].op = op

\* The last op among the writes is for b.
EndsWith(ws, op, b) ==
    \E j \in DOMAIN ws : /\ ws[j].op = op /\ ws[j].block = b
                         /\ \A k \in DOMAIN ws : k > j => ws[k].op # op

\* A write is in a concatenation iff it is in one of its parts.
LEMMA InConcat ==
    ASSUME NEW S, NEW a \in Seq(S), NEW c \in Seq(S), NEW w
    PROVE  In(a \o c, w) <=> In(a, w) \/ In(c, w)
<1>1. DOMAIN a = 1 .. Len(a) /\ DOMAIN c = 1 .. Len(c) /\ Len(a) \in Nat /\ Len(c) \in Nat
  OBVIOUS
<1>2. DOMAIN (a \o c) = 1 .. Len(a) + Len(c)
  OBVIOUS
<1>3. \A i \in 1 .. Len(a) : (a \o c)[i] = a[i]
  OBVIOUS
<1>4. \A i \in 1 .. Len(c) : (a \o c)[Len(a) + i] = c[i] /\ Len(a) + i \in 1 .. Len(a) + Len(c)
  OBVIOUS
<1>5. ASSUME In(a \o c, w) PROVE In(a, w) \/ In(c, w)
  <2>1. PICK i \in 1 .. Len(a) + Len(c) : (a \o c)[i] = w
    BY <1>2, <1>5 DEF In
  <2>2. CASE i \in 1 .. Len(a)
    BY <1>1, <1>3, <2>1, <2>2, Zenon DEF In
  <2>3. CASE i \notin 1 .. Len(a)
    <3>1. i - Len(a) \in 1 .. Len(c) /\ Len(a) + (i - Len(a)) = i
      BY <1>1, <2>3
    <3> QED BY <1>1, <1>4, <2>1, <3>1, Zenon DEF In
  <2> QED BY <2>2, <2>3
<1>6. ASSUME In(a, w) PROVE In(a \o c, w)
  <2>1. PICK i \in 1 .. Len(a) : a[i] = w
    BY <1>1, <1>6 DEF In
  <2>2. i \in 1 .. Len(a) + Len(c)
    BY <1>1
  <2> QED BY <1>2, <1>3, <2>1, <2>2 DEF In
<1>7. ASSUME In(c, w) PROVE In(a \o c, w)
  <2>1. PICK i \in 1 .. Len(c) : c[i] = w
    BY <1>1, <1>7 DEF In
  <2> QED BY <1>2, <1>4, <2>1, Zenon DEF In
<1> QED BY <1>5, <1>6, <1>7

\* The last write of a kind in the second part is the last of the whole.
LEMMA EndsWithSuffix ==
    ASSUME NEW S, NEW a \in Seq(S), NEW c \in Seq(S), NEW op, NEW b, EndsWith(c, op, b)
    PROVE  EndsWith(a \o c, op, b)
<1>1. DOMAIN c = 1 .. Len(c) /\ Len(a) \in Nat /\ Len(c) \in Nat
  OBVIOUS
<1>2. DOMAIN (a \o c) = 1 .. Len(a) + Len(c)
  OBVIOUS
<1>3. \A i \in 1 .. Len(a) + Len(c) : i > Len(a) => (a \o c)[i] = c[i - Len(a)]
  OBVIOUS
<1>4. PICK j \in 1 .. Len(c) : /\ c[j].op = op /\ c[j].block = b
                               /\ \A k \in 1 .. Len(c) : k > j => c[k].op # op
  BY <1>1, Zenon DEF EndsWith
<1>5. Len(a) + j \in 1 .. Len(a) + Len(c) /\ (a \o c)[Len(a) + j] = c[j]
  BY <1>1, <1>3
<1>6. ASSUME NEW k \in 1 .. Len(a) + Len(c), k > Len(a) + j PROVE (a \o c)[k].op # op
  <2>1. k - Len(a) \in 1 .. Len(c) /\ k - Len(a) > j /\ k > Len(a)
    BY <1>1, <1>6
  <2> QED BY <1>3, <1>4, <2>1
<1> QED BY <1>2, <1>4, <1>5, <1>6, Zenon DEF EndsWith

\* The last write of a kind in the first part is the last of the whole when the second has
\* none.
LEMMA EndsWithPrefix ==
    ASSUME NEW S, NEW a \in Seq(S), NEW c \in Seq(S), NEW op, NEW b,
           EndsWith(a, op, b), ~Has(c, op)
    PROVE  EndsWith(a \o c, op, b)
<1>1. DOMAIN a = 1 .. Len(a) /\ DOMAIN c = 1 .. Len(c) /\ Len(a) \in Nat /\ Len(c) \in Nat
  OBVIOUS
<1>2. DOMAIN (a \o c) = 1 .. Len(a) + Len(c)
  OBVIOUS
<1>3. \A i \in 1 .. Len(a) + Len(c) :
         (a \o c)[i] = IF i <= Len(a) THEN a[i] ELSE c[i - Len(a)]
  OBVIOUS
<1>4. PICK j \in 1 .. Len(a) : /\ a[j].op = op /\ a[j].block = b
                               /\ \A k \in 1 .. Len(a) : k > j => a[k].op # op
  BY <1>1, Zenon DEF EndsWith
<1>5. j \in 1 .. Len(a) + Len(c) /\ (a \o c)[j] = a[j]
  BY <1>1, <1>3
<1>6. ASSUME NEW k \in 1 .. Len(a) + Len(c), k > j PROVE (a \o c)[k].op # op
  <2>1. CASE k <= Len(a)
    BY <1>1, <1>3, <1>4, <1>6, <2>1
  <2>2. CASE ~(k <= Len(a))
    <3>1. k - Len(a) \in 1 .. Len(c)
      BY <1>1, <2>2
    <3> QED BY <1>1, <1>3, <2>2, <3>1, Zenon DEF Has
  <2> QED BY <2>1, <2>2
<1> QED BY <1>2, <1>4, <1>5, <1>6, Zenon DEF EndsWith

(* The first write is taken off the list. *)
LEMMA TailFacts ==
    ASSUME NEW S, NEW ws \in Seq(S), ws # <<>>
    PROVE  /\ Tail(ws) \in Seq(S) /\ Head(ws) \in S /\ Head(ws) = ws[1]
           /\ \A w : In(ws, w) <=> w = Head(ws) \/ In(Tail(ws), w)
           /\ Tail(ws) # <<>> => Last(Tail(ws)) = Last(ws)
           /\ Tail(ws) = <<>> => Last(ws) = Head(ws)
<1>1. DOMAIN ws = 1 .. Len(ws) /\ Len(ws) \in Nat /\ Len(ws) >= 1
  OBVIOUS
<1>2. Tail(ws) \in Seq(S) /\ Head(ws) \in S /\ Head(ws) = ws[1]
  OBVIOUS
<1>3. DOMAIN Tail(ws) = 1 .. Len(ws) - 1 /\ Len(Tail(ws)) = Len(ws) - 1
  OBVIOUS
<1>4. \A i \in 1 .. Len(ws) - 1 : Tail(ws)[i] = ws[i + 1]
  OBVIOUS
<1>5. ASSUME NEW w PROVE In(ws, w) <=> w = Head(ws) \/ In(Tail(ws), w)
  <2>1. ASSUME In(ws, w), w # ws[1] PROVE In(Tail(ws), w)
    <3>1. PICK i \in 1 .. Len(ws) : ws[i] = w
      BY <1>1, <2>1 DEF In
    <3>2. i - 1 \in 1 .. Len(ws) - 1 /\ (i - 1) + 1 = i
      BY <1>1, <2>1, <3>1
    <3> QED BY <1>3, <1>4, <3>1, <3>2, Zenon DEF In
  <2>2. ASSUME In(Tail(ws), w) PROVE In(ws, w)
    <3>1. PICK i \in 1 .. Len(ws) - 1 : ws[i + 1] = w
      BY <1>3, <1>4, <2>2 DEF In
    <3>2. i + 1 \in 1 .. Len(ws)
      BY <1>1
    <3> QED BY <1>1, <3>1, <3>2, Zenon DEF In
  <2>3. In(ws, ws[1])
    BY <1>1 DEF In
  <2> QED BY <1>2, <2>1, <2>2, <2>3
<1>6. Tail(ws) # <<>> => Last(Tail(ws)) = Last(ws)
  <2>1. SUFFICES ASSUME Tail(ws) # <<>> PROVE Last(Tail(ws)) = Last(ws)
    OBVIOUS
  <2>2. Len(ws) - 1 \in 1 .. Len(ws) - 1 /\ (Len(ws) - 1) + 1 = Len(ws)
    BY <1>1, <1>3, <2>1
  <2> QED BY <1>3, <1>4, <2>2 DEF Last
<1>7. Tail(ws) = <<>> => Last(ws) = Head(ws)
  <2>1. Tail(ws) = <<>> => Len(ws) = 1
    BY <1>1, <1>3
  <2> QED BY <1>2, <2>1 DEF Last
<1> QED BY <1>2, <1>5, <1>6, <1>7

\* Removing the first write keeps the last one of a kind, unless it was that one.
LEMMA EndsWithTail ==
    ASSUME NEW S, NEW ws \in Seq(S), ws # <<>>, NEW op, NEW b, EndsWith(ws, op, b)
    PROVE  \/ EndsWith(Tail(ws), op, b)
           \/ Head(ws).op = op /\ Head(ws).block = b /\ ~Has(Tail(ws), op)
<1>1. DOMAIN ws = 1 .. Len(ws) /\ Len(ws) \in Nat /\ Len(ws) >= 1 /\ Head(ws) = ws[1]
  OBVIOUS
<1>3. DOMAIN Tail(ws) = 1 .. Len(ws) - 1
  OBVIOUS
<1>4. \A i \in 1 .. Len(ws) - 1 : Tail(ws)[i] = ws[i + 1]
  OBVIOUS
<1>5. PICK j \in 1 .. Len(ws) : /\ ws[j].op = op /\ ws[j].block = b
                                /\ \A k \in 1 .. Len(ws) : k > j => ws[k].op # op
  BY <1>1 DEF EndsWith
<1>6. \A k \in 1 .. Len(ws) - 1 : k > j - 1 => Tail(ws)[k].op # op
  <2>1. TAKE k \in 1 .. Len(ws) - 1
  <2>2. k + 1 \in 1 .. Len(ws) /\ (k > j - 1 => k + 1 > j)
    BY <1>1
  <2> QED BY <1>4, <1>5, <2>2
<1>7. CASE j = 1
  BY <1>1, <1>3, <1>5, <1>6, <1>7 DEF Has
<1>8. CASE j # 1
  <2>1. j - 1 \in 1 .. Len(ws) - 1 /\ Tail(ws)[j - 1] = ws[j]
    BY <1>1, <1>4, <1>8
  <2> QED BY <1>3, <1>5, <1>6, <2>1, Zenon DEF EndsWith
<1> QED BY <1>7, <1>8

-----------------------------------------------------------------------------
(* The walk of reorg and what it writes. *)

\* The module's highest is the highest in its tree of blocks.
LEMMA HighestIsHighestIn ==
    ASSUME NEW B
    PROVE  highest(B) = HighestIn(blocks, B)
  BY DEF highest, HighestIn, number

num(x) == blocks[x].number

\* Numbers and total difficulties are natural numbers.
LEMMA Numbers ==
    ASSUME Tree(blocks), NEW x \in 1 .. Len(blocks)
    PROVE  num(x) \in Nat /\ blocks[x].td \in Nat
  BY BlockType DEF Block, num

(* Above lists the ancestors of b that are higher than a, lowest first. *)
LEMMA AboveFacts ==
    ASSUME Tree(blocks), NEW b \in 1 .. Len(blocks), NEW a \in PathIn(blocks, b)
    PROVE  /\ Above(b, a) \in Seq(1 .. Len(blocks))
           /\ \A i \in DOMAIN Above(b, a) : /\ Above(b, a)[i] \in PathIn(blocks, b)
                                           /\ num(Above(b, a)[i]) > num(a)
           /\ \A x \in PathIn(blocks, b) : num(x) > num(a) => In(Above(b, a), x)
           /\ a # b => Above(b, a) # <<>> /\ Last(Above(b, a)) = b
<1> DEFINE n == num(b) - num(a)
           ch == Above(b, a)
<1>1. AncestorsBelow(blocks, b) /\ OneOfEachNumber(blocks, b)
  BY AncestorsAreBelow, AncestorsNumbered
<1>2. \A x \in PathIn(blocks, b) : x \in 1 .. Len(blocks) /\ num(x) \in Nat /\ num(x) <= num(b)
  <2>1. TAKE x \in PathIn(blocks, b)
  <2>2. x \in 1 .. b /\ (x # b => num(x) < num(b)) /\ Len(blocks) \in Nat
    BY <1>1 DEF AncestorsBelow, num, Tree
  <2>3. x \in 1 .. Len(blocks)
    BY <2>2
  <2> QED BY <2>2, <2>3, Numbers
<1>3. n \in Nat /\ num(a) \in Nat /\ num(b) \in Nat
  BY <1>2, Numbers
<1>4. ch = [i \in 1 .. n |-> CHOOSE x \in PathIn(blocks, b) : num(x) = num(a) + i]
  BY PathIsPathIn DEF Above, number, num
<1>5. ASSUME NEW i \in 1 .. n
      PROVE  ch[i] \in PathIn(blocks, b) /\ num(ch[i]) = num(a) + i
  <2>1. num(a) + i \in 0 .. num(b)
    BY <1>3
  <2>2. \E x \in PathIn(blocks, b) : num(x) = num(a) + i
    BY <1>1, <2>1, Zenon DEF OneOfEachNumber, num
  <2>3. ch[i] = CHOOSE x \in PathIn(blocks, b) : num(x) = num(a) + i
    BY <1>4
  <2> QED BY <2>2, <2>3
<1> HIDE DEF ch, n
<1>6. ch \in Seq(1 .. Len(blocks)) /\ Len(ch) = n /\ DOMAIN ch = 1 .. n
  <2>1. \A i \in 1 .. n : ch[i] \in 1 .. Len(blocks)
    BY <1>2, <1>5
  <2>2. ch \in [1 .. n -> 1 .. Len(blocks)]
    BY <1>4, <2>1
  <2> QED BY <1>3, <2>2
<1>7. ASSUME NEW x \in PathIn(blocks, b), num(x) > num(a) PROVE In(ch, x)
  <2>1. num(x) - num(a) \in 1 .. n
    BY <1>2, <1>3, <1>7 DEF n
  <2>2. num(ch[num(x) - num(a)]) = num(x) /\ ch[num(x) - num(a)] \in PathIn(blocks, b)
    BY <1>2, <1>3, <1>5, <2>1
  <2>3. ch[num(x) - num(a)] = x
    BY <1>1, <2>2 DEF OneOfEachNumber, num
  <2> QED BY <1>6, <2>1, <2>3, Zenon DEF In
<1>8. a # b => ch # <<>> /\ Last(ch) = b
  <2>1. SUFFICES ASSUME a # b PROVE ch # <<>> /\ Last(ch) = b
    OBVIOUS
  <2>2. n >= 1
    BY <1>1, <1>3, <2>1 DEF AncestorsBelow, num, n
  <2>3. num(ch[n]) = num(b) /\ ch[n] \in PathIn(blocks, b) /\ b \in PathIn(blocks, b)
    BY <1>1, <1>3, <1>5, <2>2 DEF n, AncestorsBelow
  <2>4. ch[n] = b
    BY <1>1, <2>3, Zenon DEF OneOfEachNumber, num
  <2> QED BY <1>6, <2>2, <2>4 DEF Last
<1>9. \A i \in DOMAIN ch : ch[i] \in PathIn(blocks, b) /\ num(ch[i]) > num(a)
  BY <1>3, <1>5, <1>6
<1> QED BY <1>6, <1>7, <1>8, <1>9 DEF ch

(* Up to the common ancestor the two branches are one, above it they are
   disjoint. *)
LEMMA CommonFacts ==
    ASSUME Tree(blocks), NEW b \in 1 .. Len(blocks), currentBlock \in 1 .. Len(blocks)
    PROVE  /\ commonBlock(b) \in PathIn(blocks, b) \cap PathIn(blocks, currentBlock)
           /\ \A x \in PathIn(blocks, b) :
                 x \in PathIn(blocks, currentBlock) <=> num(x) <= num(commonBlock(b))
           /\ \A x \in PathIn(blocks, currentBlock) :
                 x \in PathIn(blocks, b) <=> num(x) <= num(commonBlock(b))
<1> DEFINE B == PathIn(blocks, b) \cap PathIn(blocks, currentBlock)
           c == commonBlock(b)
<1>1. /\ AncestorsBelow(blocks, b) /\ OneOfEachNumber(blocks, b)
      /\ AncestorsBelow(blocks, currentBlock) /\ OneOfEachNumber(blocks, currentBlock)
  BY AncestorsAreBelow, AncestorsNumbered, Zenon
<1>2. Len(blocks) \in Nat
  BY DEF Tree
<1>3. 1 \in B /\ B \subseteq 1 .. Len(blocks)
  BY <1>1, <1>2, SMTT(20) DEF AncestorsBelow
<1>4. c = HighestIn(blocks, B)
  BY PathIsPathIn, HighestIsHighestIn, Zenon DEF commonBlock
<1>5. c \in B /\ \A y \in B : num(y) <= num(c)
  <2> HIDE DEF B
  <2> QED BY <1>3, <1>4, HighestExists, Zenon DEF num
<1>6. c \in 1 .. Len(blocks)
  BY <1>3, <1>5
<1>7. AncestorsBelow(blocks, c)
  BY <1>6, AncestorsAreBelow
<1>8. ASSUME NEW d, d \in {b, currentBlock}, NEW x \in PathIn(blocks, d), num(x) <= num(c)
      PROVE  x \in B
  <2>1. x \in PathIn(blocks, c)
    BY <1>1, <1>5, <1>8 DEF OneOfEachNumber, num
  <2>2. PathIn(blocks, c) \subseteq PathIn(blocks, b)
        /\ PathIn(blocks, c) \subseteq PathIn(blocks, currentBlock)
    BY <1>1, <1>5 DEF AncestorsBelow
  <2> QED BY <2>1, <2>2
<1> HIDE DEF c
<1> QED BY <1>5, <1>8, Zenon DEF c

WriteRec == [op: {"WriteBlock", "WriteCanonicalHash", "WriteHeadBlockHash",
                  "WriteHeadHeaderHash", "WriteTxLookupEntries", "DeleteTxLookupEntries"},
             block: Nat, txs: SUBSET Tx]

\* The transactions of a set of blocks are transactions.
LEMMA TxOfType ==
    ASSUME Tree(blocks), NEW B, B \subseteq 1 .. Len(blocks)
    PROVE  TxOf(B) \in SUBSET Tx
  BY BlockType DEF TxOf, Block

(* insert writes the number and the head, then the head header if the block was
   not canonical. *)
LEMMA InsertWritesFacts ==
    ASSUME NEW x \in Nat, NEW u \in BOOLEAN
    PROVE  /\ insertWrites(x, u) \in Seq(WriteRec)
           /\ \A w : In(insertWrites(x, u), w) <=>
                    \/ w = write("WriteCanonicalHash", x)
                    \/ w = write("WriteHeadBlockHash", x)
                    \/ u /\ w = write("WriteHeadHeaderHash", x)
           /\ insertWrites(x, u) # <<>> /\ Last(insertWrites(x, u)).block = x
           /\ EndsWith(insertWrites(x, u), "WriteHeadBlockHash", x)
           /\ u => EndsWith(insertWrites(x, u), "WriteHeadHeaderHash", x)
<1> DEFINE c == write("WriteCanonicalHash", x)
           h == write("WriteHeadBlockHash", x)
           r == write("WriteHeadHeaderHash", x)
<1>1. c \in WriteRec /\ h \in WriteRec /\ r \in WriteRec
  BY DEF write, writeTxs, WriteRec
<1>2. /\ c.op = "WriteCanonicalHash" /\ h.op = "WriteHeadBlockHash" /\ r.op = "WriteHeadHeaderHash"
      /\ c.block = x /\ h.block = x /\ r.block = x
  BY DEF write, writeTxs
<1> DEFINE ws == insertWrites(x, u)
<1>3. CASE u
  <2>1. ws = <<c, h>> \o <<r>>
    BY <1>3 DEF insertWrites
  <2> HIDE DEF c, h, r, ws
  <2>2. ws \in Seq(WriteRec) /\ Len(ws) = 3 /\ DOMAIN ws = 1 .. 3
    BY <1>1, <2>1
  <2>3. ws[1] = c /\ ws[2] = h /\ ws[3] = r
    BY <1>1, <2>1
  <2>4. \A w : In(ws, w) <=> w = c \/ w = h \/ w = r
    BY <2>2, <2>3 DEF In
  <2>5. EndsWith(ws, "WriteHeadBlockHash", x) /\ EndsWith(ws, "WriteHeadHeaderHash", x)
    BY <1>2, <2>2, <2>3 DEF EndsWith
  <2>6. ws # <<>> /\ Last(ws).block = x
    BY <1>2, <2>2, <2>3 DEF Last
  <2> QED BY <1>3, <2>2, <2>4, <2>5, <2>6, Zenon DEF c, h, r, ws
<1>4. CASE ~u
  <2>1. ws = <<c, h>> \o <<>>
    BY <1>4 DEF insertWrites
  <2> HIDE DEF c, h, r, ws
  <2>2. ws \in Seq(WriteRec) /\ Len(ws) = 2 /\ DOMAIN ws = 1 .. 2
    BY <1>1, <2>1
  <2>3. ws[1] = c /\ ws[2] = h
    BY <1>1, <2>1
  <2>4. \A w : In(ws, w) <=> w = c \/ w = h
    BY <2>2, <2>3 DEF In
  <2>5. EndsWith(ws, "WriteHeadBlockHash", x)
    BY <1>2, <2>2, <2>3 DEF EndsWith
  <2>6. ws # <<>> /\ Last(ws).block = x
    <3>1. Last(ws) = h
      BY <2>2, <2>3 DEF Last
    <3>2. ws # <<>>
      BY <2>2
    <3> QED BY <1>2, <3>1, <3>2, Zenon
  <2> QED BY <1>4, <2>2, <2>4, <2>5, <2>6, Zenon DEF c, h, r, ws
<1> QED BY <1>3, <1>4, Zenon

(* One write. *)
LEMMA SingleWrite ==
    ASSUME NEW w \in WriteRec
    PROVE  /\ <<w>> \in Seq(WriteRec) /\ Last(<<w>>) = w
           /\ \A v : In(<<w>>, v) <=> v = w
           /\ \A op : Has(<<w>>, op) <=> w.op = op
<1>1. DOMAIN <<w>> = 1 .. 1 /\ <<w>>[1] = w /\ Len(<<w>>) = 1
  OBVIOUS
<1> QED BY <1>1 DEF In, Has, Last

\* b is not the canonical block of its number.
notCanonical(x) == canonical[number(x)] # x

\* The recursion that defines insertNewChain.
InsertSol(ch, f, n) ==
    f = [i \in 0 .. n |->
            IF i = 0 THEN <<>>
            ELSE f[i - 1] \o insertWrites(ch[i], notCanonical(ch[i])) \o <<lookupWrite(ch[i])>>]

\* insertNewChain unfolds to the function its recursion defines.
LEMMA InsertNewChainSol ==
    ASSUME NEW b
    PROVE  insertNewChain(b)
             = (CHOOSE f : InsertSol(newChain(b), f, Len(newChain(b))))[Len(newChain(b))]
  BY DEF insertNewChain, InsertSol, notCanonical

\* The recursion of insertNewChain has a solution on every prefix of the new chain.
LEMMA InsertExists ==
    ASSUME NEW ch, NEW n \in Nat
    PROVE  \E f : InsertSol(ch, f, n)
<1> DEFINE T == {m \in Nat : ~ \E f : InsertSol(ch, f, m)}
<1>1. SUFFICES ASSUME T # {} PROVE FALSE
  OBVIOUS
<1>2. PICK m \in T : \A k \in T : m <= k
  <2>1. T \in SUBSET Nat
    OBVIOUS
  <2> HIDE DEF T
  <2> QED BY <1>1, <2>1, SmallestNumber
<1> DEFINE piece(g, i) == g[i - 1] \o insertWrites(ch[i], notCanonical(ch[i])) \o <<lookupWrite(ch[i])>>
<1>3. CASE m = 0
  <2> DEFINE f == [i \in 0 .. 0 |-> <<>>]
  <2>1. f = [i \in 0 .. 0 |-> IF i = 0 THEN <<>> ELSE piece(f, i)]
    <3> HIDE DEF piece
    <3> QED OBVIOUS
  <2>2. InsertSol(ch, f, 0)
    BY <2>1, Zenon DEF InsertSol
  <2> QED BY <1>3, <2>2
<1>4. CASE m # 0
  <2>1. m - 1 \in Nat /\ m - 1 \notin T
    BY <1>2, <1>4
  <2>2. PICK g : InsertSol(ch, g, m - 1)
    BY <2>1, Zenon
  <2> DEFINE f == [i \in 0 .. m |-> IF i < m THEN g[i] ELSE piece(g, i)]
  <2>3. ASSUME NEW i \in 0 .. m PROVE f[i] = IF i = 0 THEN <<>> ELSE piece(f, i)
    <3>1. i # 0 => f[i - 1] = g[i - 1]
      BY <1>2, SMTT(20)
    <3>2. i # 0 => piece(f, i) = piece(g, i)
      BY <3>1, Zenon
    <3>3. CASE i < m
      <4>1. i \in 0 .. m - 1
        BY <1>2, <3>3
      <4>2. g[i] = IF i = 0 THEN <<>> ELSE piece(g, i)
        BY <2>2, <4>1, Zenon DEF InsertSol
      <4> HIDE DEF piece
      <4> QED BY <3>2, <3>3, <4>2
    <3>4. CASE ~(i < m)
      <4> HIDE DEF piece
      <4> QED BY <1>2, <1>4, <3>2, <3>4
    <3> QED BY <3>3, <3>4, Zenon
  <2>4. f = [i \in 0 .. m |-> IF i = 0 THEN <<>> ELSE piece(f, i)]
    <3> HIDE DEF piece
    <3> QED BY <2>3
  <2>5. InsertSol(ch, f, m)
    <3> HIDE DEF f
    <3> QED BY <2>4, Zenon DEF InsertSol
  <2> QED BY <2>5
<1> QED BY <1>3, <1>4

\* ws inserts the first n blocks of the chain ch.
Inserts(ws, ch, n) ==
    /\ ws \in Seq(WriteRec)
    /\ \A w : In(ws, w) => \E k \in 1 .. n :
           \/ w = write("WriteCanonicalHash", ch[k])
           \/ w = write("WriteHeadBlockHash", ch[k])
           \/ notCanonical(ch[k]) /\ w = write("WriteHeadHeaderHash", ch[k])
           \/ w = lookupWrite(ch[k])
    /\ \A k \in 1 .. n :
           /\ In(ws, write("WriteCanonicalHash", ch[k]))
           /\ In(ws, lookupWrite(ch[k]))
           /\ notCanonical(ch[k]) => In(ws, write("WriteHeadHeaderHash", ch[k]))
    /\ n > 0 /\ notCanonical(ch[n]) => EndsWith(ws, "WriteHeadHeaderHash", ch[n])

(* The step of the recursion. *)
LEMMA InsertOne ==
    ASSUME Tree(blocks), NEW ch \in Seq(1 .. Len(blocks)), NEW n \in 1 .. Len(ch),
           NEW ws, Inserts(ws, ch, n - 1)
    PROVE  Inserts(ws \o insertWrites(ch[n], notCanonical(ch[n])) \o <<lookupWrite(ch[n])>>, ch, n)
<1> DEFINE x == ch[n]
           u == notCanonical(x)
           iw == insertWrites(x, u)
           lw == lookupWrite(x)
<1>1. x \in 1 .. Len(blocks) /\ x \in Nat /\ u \in BOOLEAN
  BY DEF notCanonical
<1>2. lw \in WriteRec /\ lw.op = "WriteTxLookupEntries"
  BY <1>1, TxOfType, Zenon DEF lookupWrite, writeTxs, WriteRec
<1>3. iw \in Seq(WriteRec)
  BY <1>1, InsertWritesFacts, Zenon
<1>4. \A w : In(iw, w) <=> \/ w = write("WriteCanonicalHash", x)
                           \/ w = write("WriteHeadBlockHash", x)
                           \/ u /\ w = write("WriteHeadHeaderHash", x)
  <2> HIDE DEF u, x
  <2> QED BY <1>1, InsertWritesFacts
<1>5. u => EndsWith(iw, "WriteHeadHeaderHash", x)
  <2> HIDE DEF u, x
  <2> QED BY <1>1, InsertWritesFacts, Zenon
<1>6. ws \in Seq(WriteRec)
  BY DEF Inserts
<1>7. <<lw>> \in Seq(WriteRec) /\ (\A v : In(<<lw>>, v) <=> v = lw)
      /\ ~Has(<<lw>>, "WriteHeadHeaderHash")
  <2> HIDE DEF lw
  <2> QED BY <1>2, SingleWrite, Zenon
<1> DEFINE a == ws \o iw
           new == a \o <<lw>>
<1> HIDE DEF x, u, iw, lw
<1>8. a \in Seq(WriteRec) /\ \A w : In(a, w) <=> In(ws, w) \/ In(iw, w)
  BY <1>3, <1>6, InConcat
<1>9. u => EndsWith(a, "WriteHeadHeaderHash", x)
  BY <1>3, <1>5, <1>6, EndsWithSuffix, Zenon
<1> HIDE DEF a
<1>10. new \in Seq(WriteRec) /\ \A w : In(new, w) <=> In(a, w) \/ In(<<lw>>, w)
  <2>1. new \in Seq(WriteRec)
    BY <1>7, <1>8
  <2>2. ASSUME NEW w PROVE In(new, w) <=> In(a, w) \/ In(<<lw>>, w)
    BY <1>7, <1>8, InConcat, Zenon
  <2> QED BY <2>1, <2>2, Zenon
<1>11. u => EndsWith(new, "WriteHeadHeaderHash", x)
  BY <1>7, <1>8, <1>9, EndsWithPrefix, Zenon
<1> HIDE DEF new
<1>12. \A w : In(new, w) <=> \/ In(ws, w)
                             \/ w = write("WriteCanonicalHash", x)
                             \/ w = write("WriteHeadBlockHash", x)
                             \/ u /\ w = write("WriteHeadHeaderHash", x)
                             \/ w = lw
  BY <1>4, <1>7, <1>8, <1>10, Zenon
<1>13. u = notCanonical(ch[n]) /\ x = ch[n] /\ lw = lookupWrite(ch[n]) /\ n \in Nat /\ n > 0
  BY DEF u, x, lw
<1>14. \A w : In(new, w) => \E k \in 1 .. n :
           \/ w = write("WriteCanonicalHash", ch[k])
           \/ w = write("WriteHeadBlockHash", ch[k])
           \/ notCanonical(ch[k]) /\ w = write("WriteHeadHeaderHash", ch[k])
           \/ w = lookupWrite(ch[k])
  <2>1. TAKE w
  <2>2. HAVE In(new, w)
  <2>3. CASE In(ws, w)
    <3>1. PICK k \in 1 .. n - 1 :
           \/ w = write("WriteCanonicalHash", ch[k])
           \/ w = write("WriteHeadBlockHash", ch[k])
           \/ notCanonical(ch[k]) /\ w = write("WriteHeadHeaderHash", ch[k])
           \/ w = lookupWrite(ch[k])
      BY <2>3, Zenon DEF Inserts
    <3>2. k \in 1 .. n
      BY <1>13
    <3> QED BY <3>1, <3>2
  <2>4. CASE ~In(ws, w)
    <3>1. n \in 1 .. n
      BY <1>13
    <3> QED BY <1>12, <1>13, <2>2, <2>4, <3>1, Zenon
  <2> QED BY <2>3, <2>4
<1>15. ASSUME NEW k \in 1 .. n
       PROVE  /\ In(new, write("WriteCanonicalHash", ch[k]))
              /\ In(new, lookupWrite(ch[k]))
              /\ notCanonical(ch[k]) => In(new, write("WriteHeadHeaderHash", ch[k]))
  <2>1. CASE k = n
    BY <1>12, <1>13, <2>1, Zenon
  <2>2. CASE k # n
    <3>1. k \in 1 .. n - 1
      BY <1>13, <2>2
    <3> QED BY <1>12, <3>1, Zenon DEF Inserts
  <2> QED BY <2>1, <2>2, Zenon
<1>16. Inserts(new, ch, n)
  BY <1>10, <1>11, <1>13, <1>14, <1>15, Zenon DEF Inserts
<1> QED BY <1>16 DEF new, a, iw, lw, u, x

(* insertNewChain inserts every block of the new branch. *)
LEMMA InsertNewChainFacts ==
    ASSUME Tree(blocks), NEW b, newChain(b) \in Seq(1 .. Len(blocks))
    PROVE  Inserts(insertNewChain(b), newChain(b), Len(newChain(b)))
<1> DEFINE ch == newChain(b)
           f == CHOOSE f : InsertSol(ch, f, Len(ch))
<1>1. ch \in Seq(1 .. Len(blocks)) /\ Len(ch) \in Nat
  OBVIOUS
<1> HIDE DEF ch
<1>2. InsertSol(ch, f, Len(ch))
  BY <1>1, InsertExists, Zenon
<1> HIDE DEF f
<1> DEFINE T == {i \in 0 .. Len(ch) : ~Inserts(f[i], ch, i)}
<1>3. T = {}
  <2>1. SUFFICES ASSUME T # {} PROVE FALSE
    OBVIOUS
  <2>2. PICK m \in T : \A k \in T : m <= k
    <3>1. T \in SUBSET Nat
      BY <1>1
    <3> HIDE DEF T
    <3> QED BY <2>1, <3>1, SmallestNumber, Zenon
  <2>3. CASE m = 0
    <3>1. f[0] = <<>>
      BY <1>1, <1>2 DEF InsertSol
    <3>2. Inserts(<<>>, ch, 0)
      BY DEF Inserts, In
    <3> QED BY <2>3, <3>1, <3>2, Zenon
  <2>4. CASE m # 0
    <3>1. m \in 1 .. Len(ch) /\ m - 1 \in 0 .. Len(ch) /\ m - 1 \notin T
      BY <1>1, <2>2, <2>4
    <3>2. Inserts(f[m - 1], ch, m - 1)
      BY <3>1
    <3>3. f[m] = f[m - 1] \o insertWrites(ch[m], notCanonical(ch[m])) \o <<lookupWrite(ch[m])>>
      BY <1>2, <2>4, <3>1, Zenon DEF InsertSol
    <3>4. Inserts(f[m], ch, m)
      BY <1>1, <3>1, <3>2, <3>3, InsertOne, Zenon
    <3> QED BY <3>4, Zenon
  <2> QED BY <2>3, <2>4, Zenon
<1>4. Inserts(f[Len(ch)], ch, Len(ch))
  BY <1>1, <1>3
<1>5. insertNewChain(b) = f[Len(ch)]
  BY InsertNewChainSol DEF f, ch
<1> QED BY <1>4, <1>5 DEF ch

\* A list has a write of a kind iff some write in it is of that kind.
LEMMA HasIn ==
    ASSUME NEW ws, NEW op
    PROVE  Has(ws, op) <=> \E w : In(ws, w) /\ w.op = op
  BY DEF Has, In

(* A block that beats the head is not one of its ancestors. *)
LEMMA BetterIsNew ==
    ASSUME Tree(blocks), NEW b \in 1 .. Len(blocks), currentBlock \in 1 .. Len(blocks), isBetter(b)
    PROVE  b \notin PathIn(blocks, currentBlock) /\ b # 1
<1>1. AncestorsBelow(blocks, currentBlock)
  BY AncestorsAreBelow
<1>2. num(b) \in Nat /\ num(currentBlock) \in Nat /\ blocks[b].td \in Nat /\ blocks[currentBlock].td \in Nat
  BY Numbers, Zenon
<1>3. b \notin PathIn(blocks, currentBlock)
  BY <1>1, <1>2 DEF AncestorsBelow, isBetter, td, number, num
<1> QED BY <1>1, <1>3 DEF AncestorsBelow

\* The transactions of blocks.
Carries(B, t) == t # NoTx /\ \E x \in B : blocks[x].tx = t

\* What reorg writes: the new branch is inserted, then the transactions of the
\* old one that are not in the new one are forgotten.
Reorganises(ws, b) ==
    LET new == PathIn(blocks, b) \ PathIn(blocks, currentBlock)
        old == PathIn(blocks, currentBlock) \ PathIn(blocks, b)
    IN  /\ ws \in Seq(WriteRec)
        /\ \A w : In(ws, w) =>
              /\ w.block \in PathIn(blocks, b) /\ w.op # "WriteBlock"
              /\ w.op = "WriteCanonicalHash" =>
                    \/ ~notCanonical(w.block)
                    \/ In(ws, write("WriteHeadHeaderHash", w.block))
              /\ \A t \in w.txs : IF w.op = "DeleteTxLookupEntries"
                                  THEN Carries(old, t) /\ ~Carries(new, t)
                                  ELSE w.block \in new /\ blocks[w.block].tx = t /\ t # NoTx
        /\ \A x \in new : In(ws, write("WriteCanonicalHash", x))
        /\ \A t : Carries(old, t) \/ Carries(new, t) => \E w : In(ws, w) /\ t \in w.txs
        /\ notCanonical(b) => EndsWith(ws, "WriteHeadHeaderHash", b)

\* What reorg writes, for any two branches of any tree (reorg, blockchain.go).
LEMMA ReorgWritesFacts ==
    ASSUME Tree(blocks), NEW b \in 1 .. Len(blocks), currentBlock \in 1 .. Len(blocks), isBetter(b)
    PROVE  Reorganises(reorgWrites(b), b)
<1> DEFINE new == PathIn(blocks, b) \ PathIn(blocks, currentBlock)
           old == PathIn(blocks, currentBlock) \ PathIn(blocks, b)
           c == commonBlock(b)
           ch == newChain(b)
           oc == oldChain(b)
           ins == insertNewChain(b)
           del == writeTxs("DeleteTxLookupEntries", b, deletedTxs(b))
           ws == reorgWrites(b)
<1>1. /\ c \in PathIn(blocks, b) /\ c \in PathIn(blocks, currentBlock)
      /\ \A x \in PathIn(blocks, b) : x \in PathIn(blocks, currentBlock) <=> num(x) <= num(c)
      /\ \A x \in PathIn(blocks, currentBlock) : x \in PathIn(blocks, b) <=> num(x) <= num(c)
  BY CommonFacts
<1>2. b \notin PathIn(blocks, currentBlock)
  BY BetterIsNew, Zenon
<1>3. /\ AncestorsBelow(blocks, b) /\ AncestorsBelow(blocks, currentBlock)
      /\ Len(blocks) \in Nat
  BY AncestorsAreBelow DEF Tree
<1>4. PathIn(blocks, b) \subseteq 1 .. Len(blocks) /\ PathIn(blocks, currentBlock) \subseteq 1 .. Len(blocks)
  BY PathIds, Zenon
<1>5. /\ ch \in Seq(1 .. Len(blocks))
      /\ \A i \in DOMAIN ch : ch[i] \in PathIn(blocks, b) /\ num(ch[i]) > num(c)
      /\ \A x \in PathIn(blocks, b) : num(x) > num(c) => In(ch, x)
      /\ ch # <<>> /\ Last(ch) = b
  BY <1>1, <1>2, AboveFacts, Zenon DEF newChain
<1>6. /\ oc \in Seq(1 .. Len(blocks))
      /\ \A i \in DOMAIN oc : oc[i] \in PathIn(blocks, currentBlock) /\ num(oc[i]) > num(c)
      /\ \A x \in PathIn(blocks, currentBlock) : num(x) > num(c) => In(oc, x)
  BY <1>1, AboveFacts, Zenon DEF oldChain
<1>7. \A x \in 1 .. Len(blocks) : num(x) \in Nat
  BY Numbers
<1>8. \A x : In(ch, x) <=> x \in new
  <2> HIDE DEF c, ch
  <2>1. c \in 1 .. Len(blocks)
    BY <1>1, <1>4
  <2>2. \A x \in PathIn(blocks, b) : num(x) > num(c) <=> ~(num(x) <= num(c))
    BY <1>4, <1>7, <2>1
  <2>3. \A x : In(ch, x) => x \in PathIn(blocks, b) /\ num(x) > num(c)
    BY <1>5, Zenon DEF In
  <2> QED BY <1>1, <1>5, <2>2, <2>3
<1>9. \A x : In(oc, x) <=> x \in old
  <2> HIDE DEF c, oc
  <2>1. c \in 1 .. Len(blocks)
    BY <1>1, <1>4
  <2>2. \A x \in PathIn(blocks, currentBlock) : num(x) > num(c) <=> ~(num(x) <= num(c))
    BY <1>4, <1>7, <2>1
  <2>3. \A x : In(oc, x) => x \in PathIn(blocks, currentBlock) /\ num(x) > num(c)
    BY <1>6 DEF In
  <2> QED BY <1>1, <1>6, <2>2, <2>3
<1>10. deletedTxs(b) = {t \in Tx : Carries(old, t) /\ ~Carries(new, t)}
  <2>1. \A t : t \in TxOf(ToSet(ch)) <=> Carries(new, t)
    BY <1>8 DEF TxOf, ToSet, In, Carries
  <2>2. \A t : t \in TxOf(ToSet(oc)) <=> Carries(old, t)
    BY <1>9 DEF TxOf, ToSet, In, Carries
  <2>3. \A t : Carries(old, t) => t \in Tx
    BY <1>4, BlockType DEF Carries, Block
  <2> HIDE DEF new, old, ch, oc
  <2>4. deletedTxs(b) = TxOf(ToSet(oc)) \ TxOf(ToSet(ch))
    BY DEF deletedTxs, ch, oc
  <2> QED BY <2>1, <2>2, <2>3, <2>4, Zenon
<1>11. Inserts(ins, ch, Len(ch))
  BY <1>5, InsertNewChainFacts
<1>12. /\ del \in WriteRec /\ del.op = "DeleteTxLookupEntries" /\ del.block = b
       /\ del.txs = deletedTxs(b) /\ b \in Nat
  BY <1>10 DEF WriteRec, writeTxs
<1>13. ws = ins \o <<del>>
  BY DEF reorgWrites
<1> HIDE DEF c, ch, oc, ins, del, ws
<1>14. ins \in Seq(WriteRec) /\ <<del>> \in Seq(WriteRec) /\ ws \in Seq(WriteRec)
  BY <1>11, <1>12, <1>13 DEF Inserts
<1>15. \A w : In(ws, w) <=> In(ins, w) \/ w = del
  <2>1. TAKE w
  <2>2. In(ws, w) <=> In(ins, w) \/ In(<<del>>, w)
    BY <1>13, <1>14, InConcat, Zenon
  <2>3. In(<<del>>, w) <=> w = del
    BY <1>12, SingleWrite
  <2> QED BY <2>2, <2>3
<1>16. Len(ch) \in Nat /\ DOMAIN ch = 1 .. Len(ch)
  BY <1>5
<1>17. ASSUME NEW w, In(ins, w)
       PROVE  \E x \in new :
                 \/ w = write("WriteCanonicalHash", x)
                 \/ w = write("WriteHeadBlockHash", x)
                 \/ w = write("WriteHeadHeaderHash", x)
                 \/ w = lookupWrite(x)
  <2>1. PICK k \in 1 .. Len(ch) :
                 \/ w = write("WriteCanonicalHash", ch[k])
                 \/ w = write("WriteHeadBlockHash", ch[k])
                 \/ notCanonical(ch[k]) /\ w = write("WriteHeadHeaderHash", ch[k])
                 \/ w = lookupWrite(ch[k])
    BY <1>11, <1>17 DEF Inserts
  <2>2. In(ch, ch[k])
    BY <1>16 DEF In
  <2>3. ch[k] \in new
    BY <1>8, <2>2
  <2> QED BY <2>1, <2>3, Zenon
<1>18. ASSUME NEW x \in new
       PROVE  /\ In(ins, write("WriteCanonicalHash", x)) /\ In(ins, lookupWrite(x))
              /\ notCanonical(x) => In(ins, write("WriteHeadHeaderHash", x))
  <2>1. PICK k \in 1 .. Len(ch) : ch[k] = x
    BY <1>8, <1>16 DEF In
  <2> QED BY <1>11, <2>1, Zenon DEF Inserts
<1>19. ASSUME NEW w, In(ws, w)
       PROVE  /\ w.block \in PathIn(blocks, b) /\ w.op # "WriteBlock"
              /\ w.op = "WriteCanonicalHash" =>
                    \/ ~notCanonical(w.block)
                    \/ In(ws, write("WriteHeadHeaderHash", w.block))
              /\ \A t \in w.txs : IF w.op = "DeleteTxLookupEntries"
                                  THEN Carries(old, t) /\ ~Carries(new, t)
                                  ELSE w.block \in new /\ blocks[w.block].tx = t /\ t # NoTx
  <2>1. CASE w = del
    <3>1. b \in PathIn(blocks, b)
      BY <1>3 DEF AncestorsBelow
    <3> QED BY <1>10, <1>12, <2>1, <3>1, Zenon
  <2>2. CASE In(ins, w)
    <3>1. PICK x \in new :
                 \/ w = write("WriteCanonicalHash", x)
                 \/ w = write("WriteHeadBlockHash", x)
                 \/ w = write("WriteHeadHeaderHash", x)
                 \/ w = lookupWrite(x)
      BY <1>17, <2>2, Zenon
    <3>2. w.block = x /\ w.op \in {"WriteCanonicalHash", "WriteHeadBlockHash",
                                   "WriteHeadHeaderHash", "WriteTxLookupEntries"}
      BY <3>1 DEF write, writeTxs, lookupWrite
    <3>3. w.txs = {} \/ w.txs = TxOf({x})
      BY <3>1 DEF write, writeTxs, lookupWrite
    <3>4. \A t \in TxOf({x}) : blocks[x].tx = t /\ t # NoTx
      BY DEF TxOf
    <3>5. notCanonical(x) => In(ws, write("WriteHeadHeaderHash", x))
      BY <1>15, <1>18
    <3> QED BY <3>2, <3>3, <3>4, <3>5, Zenon
  <2> QED BY <1>15, <1>19, <2>1, <2>2, Zenon
<1>20. \A x \in new : In(ws, write("WriteCanonicalHash", x))
  BY <1>15, <1>18, Zenon
<1>21. ASSUME NEW t, Carries(old, t) \/ Carries(new, t)
       PROVE  \E w : In(ws, w) /\ t \in w.txs
  <2>1. CASE Carries(new, t)
    <3>1. PICK x \in new : blocks[x].tx = t /\ t # NoTx
      BY <2>1 DEF Carries
    <3>2. In(ws, lookupWrite(x))
      BY <1>15, <1>18, Zenon
    <3>3. t \in lookupWrite(x).txs
      BY <3>1 DEF lookupWrite, writeTxs, TxOf
    <3> QED BY <3>2, <3>3
  <2>2. CASE ~Carries(new, t)
    <3>1. t \in Tx
      BY <1>4, <1>21, <2>2, BlockType DEF Carries, Block
    <3> QED BY <1>10, <1>12, <1>15, <1>21, <2>2, <3>1, Zenon
  <2> QED BY <2>1, <2>2, Zenon
<1>22. notCanonical(b) => EndsWith(ws, "WriteHeadHeaderHash", b)
  <2>1. SUFFICES ASSUME notCanonical(b) PROVE EndsWith(ws, "WriteHeadHeaderHash", b)
    OBVIOUS
  <2>2. Len(ch) > 0 /\ ch[Len(ch)] = b
    BY <1>5, <1>16 DEF Last
  <2>3. EndsWith(ins, "WriteHeadHeaderHash", b)
    BY <1>11, <2>1, <2>2, Zenon DEF Inserts
  <2>4. ~Has(<<del>>, "WriteHeadHeaderHash")
    BY <1>12, SingleWrite
  <2> QED BY <1>13, <1>14, <2>3, <2>4, EndsWithPrefix, Zenon
<1> HIDE DEF new, old
<1>23. ws = reorgWrites(b)
  BY DEF ws
<1> QED BY <1>14, <1>19, <1>20, <1>21, <1>22, <1>23, Zenon DEF Reorganises, new, old

\* What WriteBlockWithState writes for a block that beats the head.
Advances(ws, b) ==
    LET new == PathIn(blocks, b) \ PathIn(blocks, currentBlock)
        old == PathIn(blocks, currentBlock) \ PathIn(blocks, b)
    IN  /\ ws \in Seq(WriteRec) /\ ws # <<>> /\ Last(ws).block = b
        /\ EndsWith(ws, "WriteHeadBlockHash", b)
        /\ \E w : In(ws, w) /\ w.op = "WriteBlock" /\ w.block = b
        /\ \A w : In(ws, w) =>
              /\ w.block \in PathIn(blocks, b) /\ (w.op = "WriteBlock" => w.block = b)
              /\ w.op = "WriteCanonicalHash" =>
                    ~notCanonical(w.block) \/ Has(ws, "WriteHeadHeaderHash")
              /\ \A t \in w.txs : IF w.op = "DeleteTxLookupEntries"
                                  THEN Carries(old, t) /\ ~Carries(new, t)
                                  ELSE blocks[w.block].tx = t /\ t # NoTx
        /\ \A x \in new : In(ws, write("WriteCanonicalHash", x))
        /\ \A t : Carries(old, t) \/ Carries(new, t) => \E w : In(ws, w) /\ t \in w.txs
        /\ notCanonical(b) => EndsWith(ws, "WriteHeadHeaderHash", b)

\* What WriteBlockWithState writes for a block that becomes the head.
LEMMA BlockWritesFacts ==
    ASSUME Tree(blocks), NEW b \in 1 .. Len(blocks), currentBlock \in 1 .. Len(blocks), isBetter(b)
    PROVE  Advances(blockWrites(b), b)
<1> DEFINE new == PathIn(blocks, b) \ PathIn(blocks, currentBlock)
           old == PathIn(blocks, currentBlock) \ PathIn(blocks, b)
           u == ~isReorg(b) /\ notCanonical(b)
           A == IF isReorg(b) THEN reorgWrites(b) ELSE <<>>
           wb == writeTxs("WriteBlock", b, TxOf({b}))
           iw == insertWrites(b, u)
           a == A \o <<wb>>
           ws == a \o iw
<1>1. blockWrites(b) = ws
  BY Zenon DEF blockWrites, notCanonical
<1>2. isReorg(b) => Reorganises(A, b)
  BY ReorgWritesFacts, Zenon
<1>3. wb \in WriteRec /\ wb.op = "WriteBlock" /\ wb.block = b /\ wb.txs = TxOf({b})
  BY TxOfType DEF writeTxs, WriteRec
<1>4. b \in Nat /\ u \in BOOLEAN
  BY DEF notCanonical, isReorg, isBetter
<1>5. b \in PathIn(blocks, b)
  BY AncestorsAreBelow, Zenon DEF AncestorsBelow
<1>6. ~isReorg(b) => A = <<>> /\ new = {b} /\ old = {}
  <2>1. SUFFICES ASSUME ~isReorg(b) PROVE new = {b} /\ old = {}
    OBVIOUS
  <2>2. blocks[b].parent = currentBlock /\ b # 1 /\ b \notin PathIn(blocks, currentBlock)
    BY <2>1, BetterIsNew, Zenon DEF isReorg, parent
  <2>3. PathIn(blocks, b) = {b} \cup PathIn(blocks, currentBlock)
    BY <2>2, PathStep
  <2> QED BY <2>2, <2>3, Zenon
<1>7. isReorg(b) \/ ~isReorg(b)
  OBVIOUS
<1>8. /\ iw \in Seq(WriteRec)
      /\ \A w : In(iw, w) <=> \/ w = write("WriteCanonicalHash", b)
                              \/ w = write("WriteHeadBlockHash", b)
                              \/ u /\ w = write("WriteHeadHeaderHash", b)
      /\ iw # <<>> /\ Last(iw).block = b
      /\ EndsWith(iw, "WriteHeadBlockHash", b)
      /\ u => EndsWith(iw, "WriteHeadHeaderHash", b)
  <2> HIDE DEF u
  <2> QED BY <1>4, InsertWritesFacts, Zenon
<1> HIDE DEF A, wb, iw
<1>9. A \in Seq(WriteRec) /\ <<wb>> \in Seq(WriteRec) /\ a \in Seq(WriteRec) /\ ws \in Seq(WriteRec)
  <2>1. A \in Seq(WriteRec)
    <3>1. CASE isReorg(b)
      <4>1. Reorganises(A, b)
        BY <1>2, <3>1, Zenon
      <4> QED BY <4>1 DEF Reorganises
    <3>2. CASE ~isReorg(b)
      <4>1. A = <<>>
        BY <1>6, <3>2
      <4> QED BY <4>1
    <3> QED BY <3>1, <3>2, Zenon
  <2>2. <<wb>> \in Seq(WriteRec)
    BY <1>3
  <2>3. a \in Seq(WriteRec)
    BY <2>1, <2>2
  <2> HIDE DEF a
  <2> QED BY <1>8, <2>1, <2>2, <2>3
<1> HIDE DEF a, ws
<1>10. \A w : In(a, w) <=> In(A, w) \/ w = wb
  <2>1. TAKE w
  <2>2. In(a, w) <=> In(A, w) \/ In(<<wb>>, w)
    BY <1>9, InConcat, Zenon DEF a
  <2>3. In(<<wb>>, w) <=> w = wb
    BY <1>3, SingleWrite, Zenon
  <2> QED BY <2>2, <2>3
<1>11. \A w : In(ws, w) <=> In(A, w) \/ w = wb \/ In(iw, w)
  <2>1. TAKE w
  <2>2. In(ws, w) <=> In(a, w) \/ In(iw, w)
    BY <1>8, <1>9, InConcat, Zenon DEF ws
  <2> QED BY <1>10, <2>2
<1>12. ws # <<>> /\ Last(ws).block = b
  <2>1. Len(iw) \in Nat /\ Len(iw) > 0 /\ Len(a) \in Nat
    BY <1>8, <1>9
  <2>2. Len(ws) = Len(a) + Len(iw)
    BY <1>8, <1>9 DEF ws
  <2>3. ws[Len(a) + Len(iw)] = iw[Len(iw)]
    BY <1>8, <1>9, <2>1 DEF ws
  <2>4. ws # <<>>
    BY <1>9, <2>1, <2>2
  <2> QED BY <1>8, <2>2, <2>3, <2>4 DEF Last
<1>13. EndsWith(ws, "WriteHeadBlockHash", b)
  BY <1>8, <1>9, EndsWithSuffix, Zenon DEF ws
<1>14. notCanonical(b) => EndsWith(ws, "WriteHeadHeaderHash", b)
  <2>1. SUFFICES ASSUME notCanonical(b) PROVE EndsWith(ws, "WriteHeadHeaderHash", b)
    OBVIOUS
  <2>2. CASE ~isReorg(b)
    <3>1. EndsWith(iw, "WriteHeadHeaderHash", b)
      BY <1>8, <2>1, <2>2, Zenon
    <3> QED BY <1>8, <1>9, <3>1, EndsWithSuffix, Zenon DEF ws
  <2>3. CASE isReorg(b)
    <3>1. EndsWith(A, "WriteHeadHeaderHash", b)
      BY <1>2, <2>1, <2>3, Zenon DEF Reorganises
    <3>2. ~Has(<<wb>>, "WriteHeadHeaderHash")
      BY <1>3, SingleWrite
    <3>3. EndsWith(a, "WriteHeadHeaderHash", b)
      BY <1>9, <3>1, <3>2, EndsWithPrefix, Zenon DEF a
    <3>4. ~Has(iw, "WriteHeadHeaderHash")
      <4>1. SUFFICES ASSUME NEW w, In(iw, w) PROVE w.op # "WriteHeadHeaderHash"
        BY HasIn, Zenon
      <4>2. w = write("WriteCanonicalHash", b) \/ w = write("WriteHeadBlockHash", b)
        BY <1>8, <2>3, <4>1, Zenon
      <4> QED BY <4>2 DEF write, writeTxs
    <3> QED BY <1>8, <1>9, <3>3, <3>4, EndsWithPrefix, Zenon DEF ws
  <2> QED BY <2>2, <2>3, Zenon
<1>15. \E w : In(ws, w) /\ w.op = "WriteBlock" /\ w.block = b
  BY <1>3, <1>11
<1>16. ASSUME NEW w, In(ws, w)
       PROVE  /\ w.block \in PathIn(blocks, b) /\ (w.op = "WriteBlock" => w.block = b)
              /\ w.op = "WriteCanonicalHash" =>
                    ~notCanonical(w.block) \/ Has(ws, "WriteHeadHeaderHash")
              /\ \A t \in w.txs : IF w.op = "DeleteTxLookupEntries"
                                  THEN Carries(old, t) /\ ~Carries(new, t)
                                  ELSE blocks[w.block].tx = t /\ t # NoTx
  <2>1. CASE In(A, w)
    <3>1. isReorg(b)
      BY <1>6, <2>1 DEF In
    <3>2. /\ w.block \in PathIn(blocks, b) /\ w.op # "WriteBlock"
          /\ w.op = "WriteCanonicalHash" =>
                 ~notCanonical(w.block) \/ In(A, write("WriteHeadHeaderHash", w.block))
          /\ \A t \in w.txs : IF w.op = "DeleteTxLookupEntries"
                              THEN Carries(old, t) /\ ~Carries(new, t)
                              ELSE w.block \in new /\ blocks[w.block].tx = t /\ t # NoTx
      <4> HIDE DEF old, new
      <4> QED BY <1>2, <2>1, <3>1, Zenon DEF Reorganises, old, new
    <3>3. In(A, write("WriteHeadHeaderHash", w.block)) => Has(ws, "WriteHeadHeaderHash")
      <4>1. write("WriteHeadHeaderHash", w.block).op = "WriteHeadHeaderHash"
        BY DEF write, writeTxs
      <4> QED BY <1>11, <4>1, HasIn, Zenon
    <3> QED BY <3>2, <3>3, Zenon
  <2>2. CASE w = wb
    <3>1. \A t \in TxOf({b}) : blocks[b].tx = t /\ t # NoTx
      BY Zenon DEF TxOf
    <3> QED BY <1>3, <1>5, <2>2, <3>1, Zenon
  <2>3. CASE In(iw, w)
    <3>1. w.block = b /\ w.txs = {} /\ w.op \notin {"WriteBlock", "DeleteTxLookupEntries"}
      BY <1>8, <2>3 DEF write, writeTxs
    <3>2. notCanonical(b) => Has(ws, "WriteHeadHeaderHash")
      BY <1>14, Zenon DEF EndsWith, Has
    <3> QED BY <1>5, <3>1, <3>2, Zenon
  <2> QED BY <1>11, <1>16, <2>1, <2>2, <2>3, Zenon
<1>17. ASSUME NEW x \in new PROVE In(ws, write("WriteCanonicalHash", x))
  <2>1. CASE isReorg(b)
    <3>1. In(A, write("WriteCanonicalHash", x))
      BY <1>2, <1>17, <2>1, Zenon DEF Reorganises
    <3> QED BY <1>11, <3>1, Zenon
  <2>2. CASE ~isReorg(b)
    BY <1>6, <1>8, <1>11, <2>2
  <2> QED BY <2>1, <2>2, Zenon
<1>18. ASSUME NEW t, Carries(old, t) \/ Carries(new, t)
       PROVE  \E w : In(ws, w) /\ t \in w.txs
  <2>1. CASE isReorg(b)
    <3>1. \E w : In(A, w) /\ t \in w.txs
      BY <1>2, <1>18, <2>1, Zenon DEF Reorganises
    <3> QED BY <1>11, <3>1
  <2>2. CASE ~isReorg(b)
    <3>1. t \in TxOf({b})
      BY <1>6, <1>18, <2>2, Zenon DEF Carries, TxOf
    <3> QED BY <1>3, <1>11, <3>1, Zenon
  <2> QED BY <2>1, <2>2, Zenon
<1> HIDE DEF new, old
<1> QED BY <1>1, <1>9, <1>12, <1>13, <1>14, <1>15, <1>16, <1>17, <1>18, Zenon DEF Advances, new, old

-----------------------------------------------------------------------------
(* The inductive invariant.  Shape: the types. *)

Nodes == 1 .. Len(blocks)

Shape ==
    /\ Tree(blocks) /\ world \in Worlds /\ Len(blocks) <= world.blocks + 1
    /\ stored \subseteq Nodes /\ onDisk \subseteq Nodes /\ inMemory \subseteq Nodes
    /\ 1 \in stored /\ 1 \in onDisk
    /\ canonical \in [0 .. world.blocks -> 0 .. Len(blocks)]
    /\ lookup \in [Tx -> 0 .. Len(blocks)]
    /\ {headBlock, headHeader, currentBlock, currentHeader} \subseteq Nodes
    /\ importing \in Seq(Nodes)
    /\ writes \in Seq(WriteRec) /\ \A w : In(writes, w) => w.block \in Nodes
    /\ status \in {"running", "down", "panic", "dead", "lost", "locked"}
    /\ status # "running" => writes = <<>>
    /\ stops \in 0 .. world.stops /\ rewinds \in 0 .. world.rewinds
    /\ keep \in 0 .. Len(blocks) /\ crashed \in BOOLEAN

\* The bounds of a world are natural numbers.
LEMMA WorldType ==
    ASSUME world \in Worlds
    PROVE  /\ world.blocks \in Nat /\ world.stops \in Nat /\ world.rewinds \in Nat
           /\ world.txs \subseteq Tx
  BY ChainAssumption, Zenon

\* The genesis alone is a tree.
LEMMA GenesisTree ==
    ASSUME NEW bs, bs = <<[number |-> 0, parent |-> 0, td |-> 0, tx |-> NoTx]>>
    PROVE  Tree(bs) /\ Len(bs) = 1
<1>1. [number |-> 0, parent |-> 0, td |-> 0, tx |-> NoTx] \in Block
  BY Zenon DEF Block
<1>2. bs \in Seq(Block) /\ Len(bs) = 1 /\ bs[1] = [number |-> 0, parent |-> 0, td |-> 0, tx |-> NoTx]
  BY <1>1
<1> QED BY <1>2 DEF Tree

\* Shape holds of a fresh database.
LEMMA ShapeInit == Init => Shape
<1> SUFFICES ASSUME Init PROVE Shape
  BY Zenon
<1>1. Tree(blocks) /\ Len(blocks) = 1
  BY GenesisTree, Zenon DEF Init
<1>2. world.blocks \in Nat /\ world.stops \in Nat /\ world.rewinds \in Nat /\ world \in Worlds
  BY WorldType DEF Init
<1>3. canonical \in [0 .. world.blocks -> 0 .. Len(blocks)] /\ lookup \in [Tx -> 0 .. Len(blocks)]
  BY <1>1, <1>2 DEF Init
<1>4. writes = <<>> /\ importing = <<>> /\ writes \in Seq(WriteRec) /\ \A w : ~In(writes, w)
  BY DEF Init, In
<1>5. importing \in Seq(Nodes)
  BY <1>4
<1>6. /\ stored \subseteq Nodes /\ onDisk \subseteq Nodes /\ inMemory \subseteq Nodes
      /\ 1 \in stored /\ 1 \in onDisk
      /\ {headBlock, headHeader, currentBlock, currentHeader} \subseteq Nodes
  BY <1>1 DEF Init, Nodes
<1>7. /\ stops \in 0 .. world.stops /\ rewinds \in 0 .. world.rewinds
      /\ status = "running" /\ keep \in 0 .. Len(blocks) /\ crashed \in BOOLEAN
      /\ Len(blocks) <= world.blocks + 1
  BY <1>1, <1>2 DEF Init
<1> QED BY <1>1, <1>2, <1>3, <1>4, <1>5, <1>6, <1>7 DEF Shape

(* A block is added to the tree. *)
Adds(bs, cs, p, d, t) ==
    /\ Tree(bs) /\ p \in 1 .. Len(bs) /\ d \in Difficulties /\ t \in Tx \cup {NoTx}
    /\ cs = Append(bs, [number |-> bs[p].number + 1, parent |-> p, td |-> bs[p].td + d, tx |-> t])

\* A child appended to a tree gives a tree.
LEMMA AppendTree ==
    ASSUME NEW bs, NEW cs, NEW p, NEW d, NEW t, Adds(bs, cs, p, d, t)
    PROVE  /\ Tree(cs) /\ Len(cs) = Len(bs) + 1
           /\ \A x \in 1 .. Len(bs) : cs[x] = bs[x]
           /\ cs[Len(bs) + 1].parent = p /\ cs[Len(bs) + 1].tx = t
<1> DEFINE r == [number |-> bs[p].number + 1, parent |-> p, td |-> bs[p].td + d, tx |-> t]
<1>1. bs \in Seq(Block) /\ Len(bs) \in Nat /\ Len(bs) >= 1 /\ d \in Nat /\ d > 0 /\ p \in Nat
  <2>1. bs \in Seq(Block) /\ Len(bs) \in Nat /\ Len(bs) >= 1
    BY DEF Tree, Adds
  <2>2. d \in Nat /\ d > 0
    BY ChainAssumption DEF Adds
  <2>3. p \in Nat
    BY DEF Adds
  <2> QED BY <2>1, <2>2, <2>3, Zenon
<1> Tree(bs) /\ p \in 1 .. Len(bs) /\ t \in Tx \cup {NoTx}
  BY DEF Adds
<1>2. bs[p].number \in Nat /\ bs[p].td \in Nat
  BY BlockType, Zenon DEF Block
<1>3. r \in Block
  <2>1. bs[p].number + 1 \in Nat /\ bs[p].td + d \in Nat
    BY <1>1, <1>2
  <2> QED BY <1>1, <2>1, Zenon DEF Block
<1>4. r.number = bs[p].number + 1 /\ r.parent = p /\ r.td = bs[p].td + d /\ r.tx = t
  BY Zenon
<1>5. cs \in Seq(Block) /\ Len(cs) = Len(bs) + 1 /\ cs[Len(bs) + 1] = r
      /\ \A x \in 1 .. Len(bs) : cs[x] = bs[x]
  <2>1. cs = Append(bs, r)
    BY Zenon DEF Adds
  <2> HIDE DEF r
  <2> QED BY <1>1, <1>3, <2>1
<1> HIDE DEF r
<1>6. ASSUME NEW x \in 2 .. Len(cs) PROVE Linked(cs, x)
  <2>1. CASE x \in 2 .. Len(bs)
    <3>1. Linked(bs, x) /\ x \in 1 .. Len(bs)
      BY <1>1, <2>1 DEF Tree
    <3>2. bs[x].parent \in 1 .. x - 1 /\ bs[x].parent \in 1 .. Len(bs)
      BY <1>1, <3>1 DEF Linked
    <3> QED BY <1>5, <3>1, <3>2, Zenon DEF Linked
  <2>2. CASE x = Len(bs) + 1
    <3>1. cs[p] = bs[p] /\ cs[x] = r /\ p \in 1 .. x - 1
      BY <1>1, <1>5, <2>2
    <3> QED BY <1>1, <1>2, <1>4, <3>1 DEF Linked
  <2> QED BY <1>1, <1>5, <2>1, <2>2
<1>7. cs[1] = bs[1]
  BY <1>1, <1>5
<1>8. Tree(cs)
  BY <1>1, <1>5, <1>6, <1>7 DEF Tree
<1> QED BY <1>4, <1>5, <1>8, Zenon

(* The closest executed ancestor of a block, b excluded, and the rest of its
   branch. *)
LEMMA WinnerType ==
    ASSUME Shape, NEW b \in Nodes, b # 1
    PROVE  winner(b) \in Seq(Nodes)
<1> DEFINE B == {x \in PathIn(blocks, b) : x # b /\ HasState(x)}
<1>1. 1 \in PathIn(blocks, b) /\ PathIn(blocks, b) \subseteq 1 .. Len(blocks)
  BY PathIds, AncestorsAreBelow, Zenon DEF AncestorsBelow, Shape, Nodes
<1>2. 1 \in B /\ B \subseteq 1 .. Len(blocks)
  BY <1>1, Zenon DEF Shape, HasState
<1>3. lastExecuted(b) = HighestIn(blocks, B)
  BY PathIsPathIn, HighestIsHighestIn, Zenon DEF lastExecuted
<1>4. lastExecuted(b) \in PathIn(blocks, b)
  <2>1. HighestIn(blocks, B) \in B
    <3> HIDE DEF B
    <3> QED BY <1>2, HighestExists, Zenon DEF Shape
  <2> QED BY <1>3, <2>1
<1> QED BY <1>4, AboveFacts, Zenon DEF winner, Shape, Nodes

\* CreateBlock keeps Shape and every block that was there.
LEMMA ShapeCreate ==
    ASSUME Shape, NEW p \in Ids, NEW d \in Difficulties, NEW t \in Tx \cup {NoTx},
           CreateBlock(p, d, t)
    PROVE  /\ Shape'
           /\ Len(blocks') = Len(blocks) + 1 /\ \A x \in Nodes : blocks'[x] = blocks[x]
           /\ blocks'[Len(blocks) + 1].parent = p /\ blocks'[Len(blocks) + 1].tx = t
<1>1. PICK cs : cs = blocks'
  BY Zenon
<1>2. /\ Tree(blocks) /\ p \in 1 .. Len(blocks) /\ Len(blocks) \in Nat /\ world.blocks \in Nat
      /\ Adds(blocks, cs, p, d, t)
  BY <1>1, WorldType DEF Shape, CreateBlock, Ids, number, td, Tree, Adds
<1>3. /\ Tree(cs) /\ Len(cs) = Len(blocks) + 1
      /\ \A x \in 1 .. Len(blocks) : cs[x] = blocks[x]
      /\ cs[Len(blocks) + 1].parent = p /\ cs[Len(blocks) + 1].tx = t
  <2>1. Adds(blocks, cs, p, d, t)
    BY <1>2, Zenon
  <2> QED BY <2>1, AppendTree
<1>4. /\ stored' = stored /\ canonical' = canonical /\ headBlock' = headBlock
      /\ headHeader' = headHeader /\ lookup' = lookup /\ onDisk' = onDisk
      /\ inMemory' = inMemory /\ currentBlock' = currentBlock /\ currentHeader' = currentHeader
      /\ importing' = importing /\ writes' = writes /\ status' = status /\ stops' = stops
      /\ rewinds' = rewinds /\ world' = world /\ keep' = keep /\ crashed' = crashed
      /\ writes = <<>> /\ importing = <<>> /\ Len(blocks) < world.blocks
  BY Zenon DEF CreateBlock, database, memory, bounds, history
<1>5. Nodes \subseteq Nodes' /\ 0 .. Len(blocks) \subseteq 0 .. Len(blocks')
  BY <1>1, <1>2, <1>3 DEF Nodes
<1>6. canonical \in [0 .. world.blocks -> 0 .. Len(blocks')]
      /\ lookup \in [Tx -> 0 .. Len(blocks')]
  <2>1. canonical \in [0 .. world.blocks -> 0 .. Len(blocks)] /\ lookup \in [Tx -> 0 .. Len(blocks)]
    BY Zenon DEF Shape
  <2>2. PICK M, N : M = 0 .. Len(blocks) /\ N = 0 .. Len(blocks')
    BY Zenon
  <2>3. M \subseteq N
    BY <1>5, <2>2, Zenon
  <2>4. \A S : \A f \in [S -> M] : f \in [S -> N]
    BY <2>3, Zenon
  <2> QED BY <2>1, <2>2, <2>4, Zenon
<1>7. Tree(blocks') /\ Len(blocks') <= world.blocks + 1
  <2>1. Tree(blocks')
    BY <1>1, <1>3, Zenon
  <2>2. PICK m : m = Len(blocks)
    BY Zenon
  <2>3. Len(blocks') = m + 1 /\ m < world.blocks /\ m \in Nat /\ world.blocks \in Nat
    BY <1>1, <1>2, <1>3, <1>4, <2>2, Zenon
  <2> QED BY <2>1, <2>3
<1>8. importing' \in Seq(Nodes')
  BY <1>4
<1>9. Shape'
  BY <1>4, <1>5, <1>6, <1>7, <1>8 DEF Shape, In
<1> QED BY <1>1, <1>3, <1>9 DEF Nodes

\* InsertChain keeps Shape.
LEMMA ShapeInsertChain ==
    ASSUME Shape, NEW b \in Ids, InsertChain(b)
    PROVE  Shape'
<1>1. /\ blocks' = blocks /\ canonical' = canonical /\ headBlock' = headBlock
      /\ headHeader' = headHeader /\ lookup' = lookup /\ onDisk' = onDisk
      /\ inMemory' = inMemory /\ currentBlock' = currentBlock /\ currentHeader' = currentHeader
      /\ writes' = writes /\ stops' = stops
      /\ rewinds' = rewinds /\ world' = world /\ keep' = keep /\ crashed' = crashed
      /\ writes = <<>> /\ b # 1 /\ status = "running"
  BY Zenon DEF InsertChain, memory, bounds, history, Idle
<1>2. stored' \in {stored, stored \cup {b}}
  BY Zenon DEF InsertChain
<1>3. status' \in {status, "lost"}
  BY DEF InsertChain
<1>4. importing' \in Seq(Nodes)
  <2>1. b \in Nodes
    BY Zenon DEF Ids, Nodes
  <2>2. winner(b) \in Seq(Nodes) /\ <<b>> \in Seq(Nodes)
    BY <1>1, <2>1, WinnerType
  <2>3. importing' \in {importing, <<b>>, winner(b)}
    BY Zenon DEF InsertChain
  <2> QED BY <2>2, <2>3, Zenon DEF Shape
<1>5. Nodes' = Nodes /\ b \in Nodes
  BY <1>1, Zenon DEF Nodes, Ids
<1> QED BY <1>1, <1>2, <1>3, <1>4, <1>5 DEF Shape, In

\* The writes of a block are writes, of blocks of the tree.
LEMMA WriteBlockType ==
    ASSUME Shape, NEW b \in Nodes, status = "running"
    PROVE  /\ blockWrites(b) \in Seq(WriteRec)
           /\ \A w : In(blockWrites(b), w) => w.block \in Nodes
<1>1. CASE isBetter(b)
  <2>1. Advances(blockWrites(b), b)
    BY <1>1, BlockWritesFacts, Zenon DEF Shape, Nodes
  <2>2. PathIn(blocks, b) \subseteq Nodes
    BY PathIds, Zenon DEF Shape, Nodes
  <2> QED BY <2>1, <2>2, Zenon DEF Advances
<1>2. CASE ~isBetter(b)
  <2>1. blockWrites(b) = <<write("WriteBlock", b)>>
    BY <1>2 DEF blockWrites
  <2>2. write("WriteBlock", b) \in WriteRec /\ write("WriteBlock", b).block = b
    BY DEF write, writeTxs, WriteRec, Nodes
  <2> HIDE DEF write
  <2> QED BY <2>1, <2>2, SingleWrite
<1> QED BY <1>1, <1>2, Zenon

\* WriteBlockWithState keeps Shape.
LEMMA ShapeWriteBlock ==
    ASSUME Shape, NEW b \in Nodes, status = "running", writes = <<>>,
           NEW rest \in Seq(Nodes), NEW failed \in Seq(Nodes), NEW flush \in BOOLEAN,
           WriteBlockWithState(b, rest, failed, flush)
    PROVE  Shape'
<1>1. /\ blocks' = blocks /\ stored' = stored /\ canonical' = canonical /\ headBlock' = headBlock
      /\ headHeader' = headHeader /\ lookup' = lookup
      /\ currentBlock' = currentBlock /\ currentHeader' = currentHeader
      /\ stops' = stops /\ rewinds' = rewinds /\ world' = world /\ keep' = keep /\ crashed' = crashed
  BY Zenon DEF WriteBlockWithState, bounds, history
<1>2. \/ status' = status /\ (writes' = writes \/ writes' = blockWrites(b))
      \/ status' = "panic" /\ writes' = writes
  BY Zenon DEF WriteBlockWithState
<1>3. importing' \in {rest, failed}
  BY Zenon DEF WriteBlockWithState
<1>4. onDisk' \subseteq onDisk \cup inMemory \cup {b} /\ onDisk \subseteq onDisk'
      /\ inMemory' \subseteq inMemory \cup {b}
  BY Zenon DEF WriteBlockWithState, collectTries
<1>5. Nodes' = Nodes
  BY <1>1 DEF Nodes
<1>6. writes' \in Seq(WriteRec) /\ \A w : In(writes', w) => w.block \in Nodes
  BY <1>2, WriteBlockType, Zenon DEF Shape
<1> QED BY <1>1, <1>2, <1>3, <1>4, <1>5, <1>6, Zenon DEF Shape

\* ImportBlock is WriteBlockWithState on the first block of the import.
LEMMA ShapeImportBlock ==
    ASSUME Shape, NEW flush \in BOOLEAN, ImportBlock(flush)
    PROVE  /\ Head(importing) \in Nodes /\ Tail(importing) \in Seq(Nodes) /\ <<>> \in Seq(Nodes)
           /\ status = "running" /\ writes = <<>>
           /\ WriteBlockWithState(Head(importing), Tail(importing), <<>>, flush)
           /\ Shape'
<1>1. /\ Head(importing) \in Nodes /\ Tail(importing) \in Seq(Nodes) /\ <<>> \in Seq(Nodes)
      /\ status = "running" /\ writes = <<>>
      /\ WriteBlockWithState(Head(importing), Tail(importing), <<>>, flush)
  BY DEF Shape, ImportBlock
<1> QED BY <1>1, ShapeWriteBlock, Zenon

\* An import that fails keeps Shape.
LEMMA ShapeImportFails ==
    ASSUME Shape, ImportFails
    PROVE  Shape'
<1>1. importing' = <<>> /\ <<>> \in Seq(Nodes) /\ Nodes' = Nodes
  BY DEF ImportFails, Nodes
<1> QED BY <1>1, Zenon DEF Shape, ImportFails, database, memory, bounds, history

\* WriteMinedBlock is WriteBlockWithState between two blocks of an import.
LEMMA ShapeMined ==
    ASSUME Shape, NEW b \in Ids, NEW flush \in BOOLEAN, WriteMinedBlock(b, flush)
    PROVE  /\ b \in Nodes /\ importing \in Seq(Nodes) /\ status = "running" /\ writes = <<>>
           /\ WriteBlockWithState(b, importing, importing, flush)
           /\ Shape'
<1>1. /\ b \in Nodes /\ importing \in Seq(Nodes) /\ status = "running" /\ writes = <<>>
      /\ WriteBlockWithState(b, importing, importing, flush)
  BY Zenon DEF Shape, WriteMinedBlock, Ids, Nodes
<1> QED BY <1>1, ShapeWriteBlock, Zenon

(* Numbers are indices of canonical. *)
LEMMA NumberIndex ==
    ASSUME Shape, NEW x \in Nodes
    PROVE  num(x) \in 0 .. world.blocks
<1>1. blocks[x].number < x /\ blocks[x].number \in Nat
  BY NumberBelow, Numbers, Zenon DEF Shape, Nodes, num
<1>2. world.blocks \in Nat /\ Len(blocks) \in Nat /\ Len(blocks) <= world.blocks + 1
  BY WorldType DEF Shape, Tree
<1> QED BY <1>1, <1>2 DEF Nodes, num

\* One write of the database keeps Shape.
LEMMA ShapeWrite ==
    ASSUME Shape, Write
    PROVE  Shape'
<1> DEFINE w == Head(writes)
           b == w.block
<1>1. writes # <<>> /\ writes \in Seq(WriteRec)
  BY Zenon DEF Write, Shape
<1>2. /\ Tail(writes) \in Seq(WriteRec) /\ w \in WriteRec
      /\ \A v : In(Tail(writes), v) => In(writes, v)
      /\ In(writes, w)
  BY <1>1, TailFacts, Zenon
<1>3. b \in Nodes
  BY <1>2, Zenon DEF Shape
<1>4. num(b) \in 0 .. world.blocks /\ b \in 0 .. Len(blocks)
  BY <1>3, NumberIndex DEF Nodes
<1> HIDE DEF b, w
<1>5. /\ stored' \subseteq stored \cup {b} /\ stored \subseteq stored'
      /\ headBlock' \in {headBlock, b} /\ currentBlock' \in {currentBlock, b}
      /\ headHeader' \in {headHeader, b} /\ currentHeader' \in {currentHeader, b}
  BY Zenon DEF Write, b, w
<1>6. /\ blocks' = blocks /\ onDisk' = onDisk /\ inMemory' = inMemory /\ importing' = importing
      /\ status' = status /\ stops' = stops /\ rewinds' = rewinds /\ world' = world
      /\ keep' = keep /\ crashed' = crashed /\ writes' = Tail(writes) /\ status = "running"
  BY Zenon DEF Write, bounds, history
<1>7. canonical' \in [0 .. world.blocks -> 0 .. Len(blocks)]
  <2>1. canonical' = canonical \/ canonical' = [canonical EXCEPT ![num(b)] = b]
    BY Zenon DEF Write, b, w, num, number
  <2> QED BY <1>4, <2>1, Zenon DEF Shape
<1>8. lookup' \in [Tx -> 0 .. Len(blocks)]
  <2>1. lookup' = [t \in Tx |-> IF t \notin w.txs THEN lookup[t]
                                ELSE IF w.op = "DeleteTxLookupEntries" THEN 0 ELSE b]
    BY Zenon DEF Write, b, w
  <2>2. lookup \in [Tx -> 0 .. Len(blocks)] /\ 0 \in 0 .. Len(blocks)
    BY DEF Shape, Tree
  <2> QED BY <1>4, <2>1, <2>2, Zenon
<1>9. Nodes' = Nodes
  BY <1>6, Zenon DEF Nodes
<1> QED BY <1>2, <1>3, <1>5, <1>6, <1>7, <1>8, <1>9 DEF Shape

\* Going down, cleanly or not, keeps Shape.
LEMMA ShapeDown ==
    ASSUME Shape, status = "running", Down, onDisk \subseteq onDisk', onDisk' \subseteq Nodes,
           UNCHANGED <<blocks, stored, canonical, headBlock, headHeader, lookup,
                       currentBlock, currentHeader>>,
           keep' \in 0 .. Len(blocks), crashed' \in BOOLEAN
    PROVE  Shape'
<1>1. /\ stops' \in 0 .. world.stops /\ rewinds' = rewinds /\ world' = world /\ status' = "down"
      /\ importing' = <<>> /\ writes' = <<>> /\ inMemory' = {}
  BY WorldType DEF Shape, Down
<1>2. Nodes' = Nodes /\ <<>> \in Seq(Nodes) /\ <<>> \in Seq(WriteRec) /\ \A w : ~In(<<>>, w)
  BY DEF Nodes, In
<1> QED BY <1>1, <1>2, Zenon DEF Shape

\* Stop keeps Shape.
LEMMA ShapeStop ==
    ASSUME Shape, Stop
    PROVE  Shape'
<1>1. onDisk \subseteq onDisk' /\ onDisk' \subseteq Nodes
  BY Zenon DEF Stop, Shape
<1>2. keep' \in 0 .. Len(blocks)
  BY DEF Stop, Shape, Nodes, Tree
<1> QED BY <1>1, <1>2, ShapeDown, Zenon DEF Stop, Shape

\* A crash keeps Shape.
LEMMA ShapeCrash ==
    ASSUME Shape, Crash
    PROVE  Shape'
<1>1. keep' \in 0 .. Len(blocks) /\ crashed' \in BOOLEAN
  BY DEF Crash, Shape, Tree
<1> QED BY <1>1, ShapeDown, Zenon DEF Crash, Shape, database

(* repair finds the highest ancestor with its state on disk. *)
LEMMA RepairFacts ==
    ASSUME Shape, NEW h \in Nodes
    PROVE  /\ repair(h) \in PathIn(blocks, h) /\ repair(h) \in onDisk /\ repair(h) \in Nodes
           /\ \A y \in PathIn(blocks, h) : y \in onDisk => num(y) <= num(repair(h))
<1> DEFINE B == PathIn(blocks, h) \cap onDisk
<1>1. 1 \in PathIn(blocks, h) /\ PathIn(blocks, h) \subseteq 1 .. Len(blocks)
  BY PathIds, AncestorsAreBelow, Zenon DEF AncestorsBelow, Shape, Nodes
<1>2. 1 \in B /\ B \subseteq 1 .. Len(blocks)
  BY <1>1, Zenon DEF Shape
<1>3. repair(h) = HighestIn(blocks, B)
  BY PathIsPathIn, HighestIsHighestIn, Zenon DEF repair
<1>4. HighestIn(blocks, B) \in B /\ \A y \in B : num(y) <= num(HighestIn(blocks, B))
  <2> HIDE DEF B
  <2> QED BY <1>2, HighestExists, Zenon DEF Shape, num
<1> QED BY <1>2, <1>3, <1>4, Zenon DEF Nodes

\* Start (loadLastState and repair) keeps Shape.
LEMMA ShapeStart ==
    ASSUME Shape, Start
    PROVE  Shape'
<1>1. repair(headBlock) \in Nodes
  BY RepairFacts, Zenon DEF Shape
<1>2. currentBlock' \in {currentBlock, repair(headBlock)}
      /\ currentHeader' \in {headHeader, currentBlock', 1} /\ headHeader' = currentHeader'
      /\ status' \in {"running", "dead"} /\ status = "down"
  BY Zenon DEF Start
<1>3. Nodes' = Nodes /\ 1 \in Nodes
  BY Zenon DEF Start, Nodes, Shape
<1> QED BY <1>1, <1>2, <1>3 DEF Shape, Start, bounds, history

\* The header SetHead(n) leaves.
rewoundHeader(n) == highest(Path(currentHeader) \ {x \in Path(currentHeader) : number(x) > n})

\* SetHead's loop over the headers ends at an ancestor no higher than asked.
LEMMA RewoundHeaderFacts ==
    ASSUME Shape, NEW n \in Nat
    PROVE  /\ rewoundHeader(n) \in PathIn(blocks, currentHeader) /\ rewoundHeader(n) \in Nodes
           /\ num(rewoundHeader(n)) <= n
<1> DEFINE P == PathIn(blocks, currentHeader)
           B == P \ {x \in P : num(x) > n}
<1>1. Tree(blocks) /\ currentHeader \in 1 .. Len(blocks)
  BY Zenon DEF Shape, Nodes
<1>2. 1 \in P /\ P \subseteq 1 .. Len(blocks) /\ num(1) = 0
  BY <1>1, PathIds, AncestorsAreBelow, Zenon DEF AncestorsBelow, num, Tree
<1>3. 1 \in B /\ B \subseteq 1 .. Len(blocks)
  BY <1>2
<1>4. rewoundHeader(n) = HighestIn(blocks, B)
  BY PathIsPathIn, HighestIsHighestIn, Zenon DEF rewoundHeader, num, number
<1>5. HighestIn(blocks, B) \in B
  <2> HIDE DEF B
  <2> QED BY <1>1, <1>3, HighestExists, Zenon
<1>6. rewoundHeader(n) \in P /\ rewoundHeader(n) \in 1 .. Len(blocks) /\ ~(num(rewoundHeader(n)) > n)
  BY <1>2, <1>4, <1>5, Zenon
<1>7. num(rewoundHeader(n)) \in Nat
  BY <1>1, <1>6, Numbers, Zenon
<1> QED BY <1>6, <1>7 DEF Nodes

\* What SetHead(n) does, in the terms of the tree.
LEMMA SetHeadStep ==
    ASSUME Shape, NEW n \in 0 .. world.blocks, SetHead(n)
    PROVE  LET deleted == {x \in PathIn(blocks, currentHeader) : num(x) > n}
           IN  /\ n \in Nat /\ status = "running" /\ writes = <<>>
               /\ rewinds' = rewinds + 1 /\ rewinds' \in 0 .. world.rewinds
               /\ stored' = stored \ deleted
               /\ canonical' = [i \in DOMAIN canonical |->
                      IF i > n /\ i <= num(currentHeader) THEN 0 ELSE canonical[i]]
               /\ currentHeader' = rewoundHeader(n) /\ headHeader' = rewoundHeader(n)
               /\ currentBlock' = rewoundBlock(rewoundHeader(n)) /\ headBlock' = currentBlock'
               /\ status' = IF headBlock' \in stored' THEN status ELSE "locked"
               /\ UNCHANGED <<blocks, lookup, onDisk, inMemory, importing, writes, stops,
                              world, keep, crashed>>
<1>1. n \in Nat /\ rewinds' \in 0 .. world.rewinds
  <2>1. world.rewinds \in Nat /\ world.blocks \in Nat
    BY WorldType, Zenon DEF Shape
  <2>2. rewinds \in 0 .. world.rewinds
    BY Zenon DEF Shape
  <2>3. rewinds < world.rewinds /\ rewinds' = rewinds + 1
    BY Zenon DEF SetHead
  <2> QED BY <2>1, <2>2, <2>3
<1> QED BY <1>1, PathIsPathIn, Zenon DEF SetHead, rewoundHeader, num, number, history

(* The head block SetHead leaves has its state and is not above the header. *)
LEMMA RewoundBlockFacts ==
    ASSUME Shape, NEW h \in Nodes
    PROVE  /\ rewoundBlock(h) \in {h, currentBlock, 1}
           /\ rewoundBlock(h) \in Nodes
           /\ num(rewoundBlock(h)) <= num(h)
           /\ rewoundBlock(h) \in inMemory \cup onDisk
           /\ rewoundBlock(h) = h => rewoundBlock(h) \in {currentBlock, 1} \/ num(h) < num(currentBlock)
<1>1. num(1) = 0 /\ 1 \in Nodes /\ num(h) \in Nat /\ num(currentBlock) \in Nat
  BY Numbers, Zenon DEF Shape, Tree, num, Nodes
<1>2. HasState(1)
  BY DEF HasState, Shape
<1>3. rewoundBlock(h) = (IF HasState(IF num(h) < num(currentBlock) THEN h ELSE currentBlock)
                         THEN IF num(h) < num(currentBlock) THEN h ELSE currentBlock
                         ELSE 1)
  BY DEF rewoundBlock, num, number
<1>4. PICK c, r, i, j : c = currentBlock /\ r = rewoundBlock(h) /\ i = num(h) /\ j = num(c)
  BY Zenon
<1>5. c \in Nodes
  BY <1>4, Zenon DEF Shape
<1>6. CASE i < j /\ HasState(h)
  BY <1>1, <1>3, <1>4, <1>6 DEF HasState
<1>7. CASE ~(i < j) /\ HasState(c)
  BY <1>1, <1>3, <1>4, <1>5, <1>7 DEF HasState
<1>8. CASE ~HasState(IF i < j THEN h ELSE c)
  BY <1>1, <1>2, <1>3, <1>4, <1>8 DEF HasState
<1> QED BY <1>6, <1>7, <1>8

\* SetHead keeps Shape.
LEMMA ShapeSetHead ==
    ASSUME Shape, NEW n \in 0 .. world.blocks, SetHead(n)
    PROVE  Shape'
<1> DEFINE h == rewoundHeader(n)
<1>1. n \in Nat
  BY SetHeadStep
<1>2. h \in Nodes
  BY <1>1, RewoundHeaderFacts
<1>3. rewoundBlock(h) \in Nodes
  BY <1>2, RewoundBlockFacts, Zenon
<1>4. stored' \subseteq stored /\ 1 \in stored'
  <2>1. num(1) = 0
    BY Zenon DEF Shape, Tree, num
  <2> QED BY <1>1, <2>1, SetHeadStep DEF Shape
<1>5. canonical' \in [0 .. world.blocks -> 0 .. Len(blocks)]
  <2>1. canonical' = [i \in DOMAIN canonical |->
            IF i > n /\ i <= num(currentHeader) THEN 0 ELSE canonical[i]]
    BY SetHeadStep, Zenon
  <2>2. canonical \in [0 .. world.blocks -> 0 .. Len(blocks)] /\ 0 \in 0 .. Len(blocks)
    BY DEF Shape, Tree
  <2> QED BY <2>1, <2>2, Zenon
<1>6. /\ currentHeader' = h /\ headHeader' = h /\ currentBlock' = rewoundBlock(h)
      /\ headBlock' = currentBlock' /\ status' \in {"running", "locked"}
      /\ rewinds' \in 0 .. world.rewinds /\ writes = <<>>
      /\ UNCHANGED <<blocks, lookup, onDisk, inMemory, importing, writes, stops,
                     world, keep, crashed>>
  BY SetHeadStep, Zenon
<1>7. Nodes' = Nodes
  BY <1>6, Zenon DEF Nodes
<1> HIDE DEF h
<1> QED BY <1>2, <1>3, <1>4, <1>5, <1>6, <1>7 DEF Shape

\* Every step keeps Shape.
LEMMA ShapeNext == Shape /\ [Next]_vars => Shape'
<1> SUFFICES ASSUME Shape, [Next]_vars PROVE Shape'
  BY Zenon
<1>1. ASSUME NEW p \in Ids, NEW d \in Difficulties, NEW t \in Tx \cup {NoTx}, CreateBlock(p, d, t)
      PROVE  Shape'
  BY <1>1, ShapeCreate, Zenon
<1>2. ASSUME NEW b \in Ids, InsertChain(b) PROVE Shape'
  BY <1>2, ShapeInsertChain, Zenon
<1>3. ASSUME NEW flush \in BOOLEAN, ImportBlock(flush) PROVE Shape'
  BY <1>3, ShapeImportBlock, Zenon
<1>4. CASE ImportFails
  BY <1>4, ShapeImportFails, Zenon
<1>5. ASSUME NEW b \in Ids, NEW flush \in BOOLEAN, WriteMinedBlock(b, flush) PROVE Shape'
  BY <1>5, ShapeMined
<1>6. CASE Write
  BY <1>6, ShapeWrite
<1>7. CASE Stop
  BY <1>7, ShapeStop
<1>8. CASE Crash
  BY <1>8, ShapeCrash
<1>9. CASE Start
  BY <1>9, ShapeStart
<1>10. ASSUME NEW n \in 0 .. world.blocks, SetHead(n) PROVE Shape'
  BY <1>10, ShapeSetHead
<1>11. CASE UNCHANGED vars
  BY <1>11, Zenon DEF vars, database, memory, bounds, history, Shape, Nodes
<1> QED BY <1>1, <1>2, <1>3, <1>4, <1>5, <1>6, <1>7, <1>8, <1>9, <1>10, <1>11, Zenon DEF Next

=============================================================================
