-------------------------- MODULE BlockChainProofs --------------------------
(***************************************************************************)
(* The canonical chain implements ForkChoice, and between two imports its  *)
(* head has its state, for every tree of blocks and every number of stops, *)
(* crashes and rewinds.                                                    *)
(***************************************************************************)
EXTENDS BlockChainLemmas

-----------------------------------------------------------------------------
(* Roots: the ancestors of the heads are in the database, and a head itself is
   there or about to be written. *)

\* The ancestors of h are in st; h itself need not be.
Rooted(bs, st, h) == h \in 1 .. Len(bs) /\ PathIn(bs, h) \ {h} \subseteq st

Stores(ws, b) == \E w : In(ws, w) /\ w.op = "WriteBlock" /\ w.block = b

\* b is in the database or about to be.
Held(st, ws, b) == b \in st \/ Stores(ws, b)

Closed(bs, st) == \A b \in st \ {1} : bs[b].parent \in st

PendingRooted(bs, st, ws) ==
    \A w : In(ws, w) =>
        /\ IF w.op = "WriteBlock" THEN w.block # 1 /\ bs[w.block].parent \in st
           ELSE Rooted(bs, st, w.block)
        /\ Held(st, ws, w.block)

Roots ==
    /\ \A h \in {headBlock, headHeader, currentBlock, currentHeader} :
          /\ Rooted(blocks, stored, h)
          /\ status = "running" => Held(stored, writes, h)
    /\ PendingRooted(blocks, stored, writes)
    /\ Has(writes, "WriteHeadBlockHash") => EndsWith(writes, "WriteHeadBlockHash", Last(writes).block)
    /\ status # "locked"
    /\ rewinds = 0 => Closed(blocks, stored)

\* The ancestors of a rooted block are rooted, and stored.
LEMMA RootedAncestor ==
    ASSUME NEW bs, Tree(bs), NEW st, NEW h, Rooted(bs, st, h), NEW x \in PathIn(bs, h)
    PROVE  Rooted(bs, st, x) /\ (h \in st => x \in st) /\ (x # h => x \in st)
<1>1. AncestorsBelow(bs, h) /\ PathIn(bs, h) \subseteq 1 .. Len(bs) /\ h \in 1 .. Len(bs)
  BY AncestorsAreBelow, PathIds, Zenon DEF Rooted
<1>2. x \in 1 .. Len(bs) /\ PathIn(bs, x) \subseteq PathIn(bs, h)
  BY <1>1 DEF AncestorsBelow
<1>3. AncestorsBelow(bs, x)
  BY <1>2, AncestorsAreBelow
<1>4. x # h => h \notin PathIn(bs, x)
  <2>1. SUFFICES ASSUME x # h, h \in PathIn(bs, x) PROVE FALSE
    OBVIOUS
  <2>2. bs[h].number < bs[x].number /\ bs[x].number < bs[h].number
    BY <1>1, <1>3, <2>1, Zenon DEF AncestorsBelow
  <2>3. bs[h].number \in Nat /\ bs[x].number \in Nat
    BY <1>1, <1>2, BlockType DEF Block
  <2> QED BY <2>2, <2>3
<1> QED BY <1>2, <1>4 DEF Rooted

\* Storing more blocks roots no fewer.
LEMMA RootedMono ==
    ASSUME NEW bs, NEW st, NEW st2, st \subseteq st2, NEW h, Rooted(bs, st, h)
    PROVE  Rooted(bs, st2, h)
  BY DEF Rooted

\* Roots holds of a fresh database.
LEMMA RootsInit == Init => Roots
<1> SUFFICES ASSUME Init PROVE Roots
  OBVIOUS
<1>1. Tree(blocks) /\ Len(blocks) = 1 /\ 1 \in 1 .. Len(blocks)
  BY GenesisTree DEF Init
<1>2. PathIn(blocks, 1) = {1}
  BY <1>1, PathStep
<1>3. Rooted(blocks, stored, 1)
  BY <1>1, <1>2 DEF Rooted
<1>4. writes = <<>> /\ \A w : ~In(writes, w)
  BY DEF Init, In
<1>5. ~Has(writes, "WriteHeadBlockHash")
  BY <1>4, HasIn
<1> QED BY <1>3, <1>4, <1>5 DEF Init, Roots, Held, PendingRooted, Closed

\* Nothing is pending in an empty list of writes.
LEMMA EmptyWrites ==
           /\ \A w : ~In(<<>>, w)
           /\ \A op : ~Has(<<>>, op)
           /\ \A b : ~Stores(<<>>, b)
           /\ \A bs, st : PendingRooted(bs, st, <<>>)
<1>1. \A w : ~In(<<>>, w)
  BY DEF In
<1> QED BY <1>1, HasIn DEF Stores, PendingRooted

\* CreateBlock keeps Roots.
LEMMA RootsCreate ==
    ASSUME Shape, Roots, NEW p \in Ids, NEW d \in Difficulties, NEW t \in Tx \cup {NoTx},
           CreateBlock(p, d, t)
    PROVE  Roots'
<1>1. PICK cs : cs = blocks'
  OBVIOUS
<1>2. /\ Tree(blocks) /\ Tree(cs) /\ Len(cs) = Len(blocks) + 1 /\ Len(blocks) \in Nat
      /\ \A x \in 1 .. Len(blocks) : cs[x] = blocks[x]
  <2>1. Tree(blocks) /\ Len(blocks) \in Nat
    BY DEF Shape, Tree
  <2>2. Tree(blocks')
    <3>1. Shape'
      BY ShapeCreate, Zenon
    <3> QED BY <3>1 DEF Shape
  <2>3. Len(blocks') = Len(blocks) + 1 /\ \A x \in 1 .. Len(blocks) : blocks'[x] = blocks[x]
    BY ShapeCreate, Zenon DEF Nodes
  <2> QED BY <1>1, <2>1, <2>2, <2>3, Zenon
<1>3. ASSUME NEW h \in 1 .. Len(blocks) PROVE PathIn(cs, h) = PathIn(blocks, h)
  BY <1>2, PathStable
<1>4. /\ stored' = stored /\ headBlock' = headBlock
      /\ headHeader' = headHeader /\ currentBlock' = currentBlock /\ currentHeader' = currentHeader
      /\ writes' = writes /\ status' = status /\ rewinds' = rewinds
      /\ writes = <<>> /\ stored = {1}
  BY DEF CreateBlock, database, memory, bounds
<1>5. ASSUME NEW h, Rooted(blocks, stored, h) PROVE Rooted(cs, stored, h)
  BY <1>2, <1>3, <1>5 DEF Rooted
<1>6. \A h \in {headBlock, headHeader, currentBlock, currentHeader} :
          /\ Rooted(cs, stored, h)
          /\ status = "running" => Held(stored, writes, h)
  BY <1>5 DEF Roots
<1>7. PendingRooted(cs, stored, writes) /\ ~Has(writes, "WriteHeadBlockHash")
  BY <1>4, EmptyWrites, Zenon
<1>8. Closed(cs, stored)
  BY <1>4, Zenon DEF Closed
<1> QED BY <1>1, <1>4, <1>6, <1>7, <1>8, Zenon DEF Roots

\* InsertChain keeps Roots.
LEMMA RootsInsertChain ==
    ASSUME Shape, Roots, NEW b \in Ids, InsertChain(b)
    PROVE  Roots'
<1>1. /\ blocks' = blocks /\ headBlock' = headBlock
      /\ headHeader' = headHeader /\ currentBlock' = currentBlock /\ currentHeader' = currentHeader
      /\ writes' = writes /\ rewinds' = rewinds
      /\ writes = <<>> /\ b # 1 /\ status = "running" /\ blocks[b].parent \in stored
  BY DEF InsertChain, memory, bounds, Idle, parent
<1>2. stored' \in {stored, stored \cup {b}} /\ status' \in {status, "lost"}
  BY DEF InsertChain
<1>3. stored \subseteq stored'
  BY <1>2, Zenon
<1>4. \A h \in {headBlock, headHeader, currentBlock, currentHeader} :
          Rooted(blocks, stored', h) /\ Held(stored', writes, h)
  BY <1>1, <1>3, RootedMono, Zenon DEF Roots, Held
<1>5. PendingRooted(blocks, stored', writes) /\ ~Has(writes, "WriteHeadBlockHash")
  BY <1>1, EmptyWrites, Zenon
<1>6. rewinds = 0 => Closed(blocks, stored')
  BY <1>1, <1>2 DEF Roots, Closed
<1> QED BY <1>1, <1>2, <1>4, <1>5, <1>6, Zenon DEF Roots

(* The ancestors of a block that takes over are in the database: reorg has
   looked them up. *)
LEMMA RootedNew ==
    ASSUME Shape, Roots, NEW b \in Nodes, writes = <<>>, status = "running",
           isBetter(b), ~reorgFails(b)
    PROVE  Rooted(blocks, stored, b)
<1>1. Tree(blocks) /\ b \in 1 .. Len(blocks) /\ currentBlock \in 1 .. Len(blocks)
  BY DEF Shape, Nodes
<1>2. Rooted(blocks, stored, currentBlock) /\ currentBlock \in stored
  BY EmptyWrites DEF Roots, Held
<1>3. PathIn(blocks, currentBlock) \subseteq stored
  BY <1>1, <1>2, RootedAncestor, Zenon
<1>4. CASE ~isReorg(b)
  <2>1. blocks[b].parent = currentBlock /\ b # 1
    BY <1>1, <1>4, BetterIsNew DEF isReorg, parent
  <2>2. PathIn(blocks, b) = {b} \cup PathIn(blocks, currentBlock)
    BY <1>1, <2>1, PathStep, Zenon
  <2> QED BY <1>1, <1>3, <2>2, Zenon DEF Rooted
<1>5. CASE isReorg(b)
  <2> DEFINE c == commonBlock(b)
  <2>1. ~broken(b, c)
    BY <1>5, Zenon DEF reorgFails
  <2>2. \A x \in PathIn(blocks, b) : x # b /\ num(x) >= num(c) => x \in stored
    BY <2>1, PathIsPathIn, Zenon DEF broken, num, number
  <2>3. c \in PathIn(blocks, b) /\ \A x \in PathIn(blocks, b) :
                 x \in PathIn(blocks, currentBlock) <=> num(x) <= num(c)
    BY <1>1, CommonFacts, Zenon
  <2>4. PathIn(blocks, b) \subseteq 1 .. Len(blocks)
    BY <1>1, PathIds, Zenon
  <2>5. \A x \in 1 .. Len(blocks) : num(x) \in Nat
    BY <1>1, Numbers, Zenon
  <2> HIDE DEF c
  <2>6. \A x \in PathIn(blocks, b) : num(x) >= num(c) \/ num(x) <= num(c)
    BY <2>3, <2>4, <2>5
  <2> QED BY <1>1, <1>3, <2>2, <2>3, <2>6, Zenon DEF Rooted
<1> QED BY <1>4, <1>5, Zenon

\* The writes of a block whose parent is stored root every head they set.
LEMMA RootsNewWrites ==
    ASSUME Shape, Roots, NEW b \in Nodes, writes = <<>>, status = "running",
           ~reorgFails(b), blocks[b].parent \in stored
    PROVE  /\ PendingRooted(blocks, stored, blockWrites(b))
           /\ Has(blockWrites(b), "WriteHeadBlockHash") =>
                 EndsWith(blockWrites(b), "WriteHeadBlockHash", Last(blockWrites(b)).block)
           /\ Stores(blockWrites(b), b)
<1> DEFINE ws == blockWrites(b)
<1>1. Tree(blocks) /\ b \in 1 .. Len(blocks) /\ currentBlock \in 1 .. Len(blocks)
  BY DEF Shape, Nodes
<1>2. b # 1
  <2>1. 0 \notin stored /\ blocks[1].parent = 0
    BY DEF Shape, Tree, Nodes
  <2> QED BY <2>1, Zenon
<1>3. CASE isBetter(b)
  <2>1. Advances(ws, b)
    BY <1>1, <1>3, BlockWritesFacts, Zenon
  <2>2. Rooted(blocks, stored, b)
    BY <1>3, RootedNew, Zenon
  <2> HIDE DEF ws
  <2>3. Stores(ws, b)
    BY <2>1, Zenon DEF Advances, Stores
  <2>4. ASSUME NEW w, In(ws, w)
        PROVE  /\ IF w.op = "WriteBlock" THEN w.block # 1 /\ blocks[w.block].parent \in stored
                  ELSE Rooted(blocks, stored, w.block)
               /\ Held(stored, ws, w.block)
    <3>1. w.block \in PathIn(blocks, b) /\ (w.op = "WriteBlock" => w.block = b)
      BY <2>1, <2>4, Zenon DEF Advances
    <3>2. Rooted(blocks, stored, w.block) /\ (w.block # b => w.block \in stored)
      BY <1>1, <2>2, <3>1, RootedAncestor, Zenon
    <3> QED BY <1>2, <2>3, <3>1, <3>2, Zenon DEF Held
  <2>5. Last(ws).block = b /\ EndsWith(ws, "WriteHeadBlockHash", b)
    BY <2>1, Zenon DEF Advances
  <2>6. PendingRooted(blocks, stored, ws)
    BY <2>4, Zenon DEF PendingRooted
  <2> QED BY <2>3, <2>5, <2>6, Zenon DEF ws
<1>4. CASE ~isBetter(b)
  <2> DEFINE w == write("WriteBlock", b)
  <2>1. ws = <<w>>
    BY <1>4 DEF blockWrites
  <2>2. w \in WriteRec /\ w.block = b /\ w.op = "WriteBlock"
    BY <1>1 DEF write, writeTxs, WriteRec
  <2> HIDE DEF w, ws
  <2>3. (\A v : In(ws, v) <=> v = w) /\ ~Has(ws, "WriteHeadBlockHash")
    BY <2>1, <2>2, SingleWrite, Zenon
  <2>4. Stores(ws, b)
    BY <2>2, <2>3, Zenon DEF Stores
  <2>5. PendingRooted(blocks, stored, ws)
    BY <1>2, <2>2, <2>3, <2>4, Zenon DEF PendingRooted, Held
  <2> QED BY <2>3, <2>4, <2>5, Zenon DEF ws
<1> QED BY <1>3, <1>4, Zenon

\* WriteBlockWithState keeps Roots.
LEMMA RootsWriteBlock ==
    ASSUME Shape, Roots, NEW b \in Nodes, status = "running", writes = <<>>,
           blocks[b].parent \in stored, NEW rest, NEW failed, NEW flush,
           WriteBlockWithState(b, rest, failed, flush)
    PROVE  Roots'
<1>1. /\ blocks' = blocks /\ stored' = stored /\ headBlock' = headBlock
      /\ headHeader' = headHeader /\ rewinds' = rewinds
      /\ currentBlock' = currentBlock /\ currentHeader' = currentHeader
  BY Zenon DEF WriteBlockWithState, bounds
<1>2. \/ status' = status /\ writes' = blockWrites(b) /\ ~reorgFails(b)
      \/ status' \in {status, "panic"} /\ writes' = writes
  BY DEF WriteBlockWithState
<1>3. PICK ws : ws = writes'
  BY Zenon
<1>4. /\ PendingRooted(blocks, stored, ws)
      /\ Has(ws, "WriteHeadBlockHash") => EndsWith(ws, "WriteHeadBlockHash", Last(ws).block)
  BY <1>2, <1>3, EmptyWrites, RootsNewWrites, Zenon
<1>5. \A h \in {headBlock, headHeader, currentBlock, currentHeader} :
          Rooted(blocks, stored, h) /\ Held(stored, ws, h)
  BY EmptyWrites, Zenon DEF Roots, Held
<1> QED BY <1>1, <1>2, <1>3, <1>4, <1>5, Zenon DEF Roots

(* A write is done: what is held stays held. *)
Pops(ws, ws2, st, st2) ==
    /\ ws \in Seq(WriteRec) /\ ws # <<>> /\ ws2 = Tail(ws)
    /\ st2 = IF Head(ws).op = "WriteBlock" THEN st \cup {Head(ws).block} ELSE st

\* A write moves a block from the pending to the stored ones and loses nothing.
LEMMA PopFacts ==
    ASSUME NEW ws, NEW ws2, NEW st, NEW st2, Pops(ws, ws2, st, st2)
    PROVE  /\ \A x : Held(st, ws, x) <=> Held(st2, ws2, x)
           /\ \A w : In(ws, w) <=> w = Head(ws) \/ In(ws2, w)
           /\ ws2 \in Seq(WriteRec) /\ Head(ws) \in WriteRec
           /\ ws2 # <<>> => Last(ws2) = Last(ws)
<1>1. /\ ws2 \in Seq(WriteRec) /\ Head(ws) \in WriteRec
      /\ \A w : In(ws, w) <=> w = Head(ws) \/ In(ws2, w)
      /\ ws2 # <<>> => Last(ws2) = Last(ws)
  BY TailFacts, Zenon DEF Pops
<1>2. ASSUME NEW x PROVE Held(st, ws, x) <=> Held(st2, ws2, x)
  BY <1>1, Zenon DEF Held, Stores, Pops
<1> QED BY <1>1, <1>2, Zenon

\* Performing the first write keeps the last one of a kind, unless it was that one.
LEMMA EndsWithLast ==
    ASSUME NEW ws, NEW ws2, NEW st, NEW st2, Pops(ws, ws2, st, st2), NEW op, NEW b,
           EndsWith(ws, op, b)
    PROVE  \/ EndsWith(ws2, op, b) /\ Has(ws2, op) /\ ws2 # <<>>
           \/ Head(ws).op = op /\ Head(ws).block = b /\ ~Has(ws2, op)
<1>1. \/ EndsWith(ws2, op, b)
      \/ Head(ws).op = op /\ Head(ws).block = b /\ ~Has(ws2, op)
  BY EndsWithTail, Zenon DEF Pops
<1>2. EndsWith(ws2, op, b) => Has(ws2, op) /\ ws2 # <<>>
  BY DEF EndsWith, Has
<1> QED BY <1>1, <1>2, Zenon

\* One write of the database keeps Roots.
LEMMA RootsWrite ==
    ASSUME Shape, Roots, Write
    PROVE  Roots'
<1> DEFINE w == Head(writes)
           b == w.block
<1>1. PICK ws2, st2 : ws2 = writes' /\ st2 = stored'
  BY Zenon
<1>2. Pops(writes, ws2, stored, st2)
  BY <1>1, Zenon DEF Pops, Write, Shape
<1>3. /\ \A x : Held(stored, writes, x) <=> Held(st2, ws2, x)
      /\ \A v : In(writes, v) <=> v = w \/ In(ws2, v)
      /\ ws2 # <<>> => Last(ws2) = Last(writes)
  BY <1>2, PopFacts, Zenon
<1>4. stored \subseteq st2 /\ st2 \subseteq stored \cup {b} /\ (st2 = stored \/ w.op = "WriteBlock")
  BY <1>2, Zenon DEF Pops
<1>5. IF w.op = "WriteBlock" THEN b # 1 /\ blocks[b].parent \in stored
      ELSE Rooted(blocks, stored, b)
  BY <1>3, Zenon DEF Roots, PendingRooted
<1>6. Held(stored, writes, b)
  BY <1>3, Zenon DEF Roots, PendingRooted
<1>7. /\ blocks' = blocks /\ status' = status /\ rewinds' = rewinds /\ status = "running"
      /\ headBlock' = headBlock \/ (w.op = "WriteHeadBlockHash" /\ headBlock' = b)
      /\ currentBlock' = currentBlock \/ (w.op = "WriteHeadBlockHash" /\ currentBlock' = b)
      /\ headHeader' = headHeader \/ (w.op = "WriteHeadHeaderHash" /\ headHeader' = b)
      /\ currentHeader' = currentHeader \/ (w.op = "WriteHeadHeaderHash" /\ currentHeader' = b)
  BY Zenon DEF Write, bounds
<1> HIDE DEF b, w
<1>8. ASSUME NEW h, h \in {headBlock, headHeader, currentBlock, currentHeader}
                    \/ (h = b /\ w.op # "WriteBlock")
      PROVE  Rooted(blocks, st2, h) /\ Held(st2, ws2, h)
  <2>1. Rooted(blocks, stored, h) /\ Held(stored, writes, h)
    BY <1>5, <1>6, <1>7, <1>8, Zenon DEF Roots
  <2> QED BY <1>3, <1>4, <2>1, RootedMono, Zenon
<1>9. \A h \in {headBlock', headHeader', currentBlock', currentHeader'} :
          Rooted(blocks, st2, h) /\ Held(st2, ws2, h)
  BY <1>7, <1>8, Zenon
<1>10. PendingRooted(blocks, st2, ws2)
  <2>1. ASSUME NEW v, In(ws2, v)
        PROVE  /\ IF v.op = "WriteBlock" THEN v.block # 1 /\ blocks[v.block].parent \in st2
                  ELSE Rooted(blocks, st2, v.block)
               /\ Held(st2, ws2, v.block)
    <3>1. /\ IF v.op = "WriteBlock" THEN v.block # 1 /\ blocks[v.block].parent \in stored
             ELSE Rooted(blocks, stored, v.block)
          /\ Held(stored, writes, v.block)
      BY <1>3, <2>1, Zenon DEF Roots, PendingRooted
    <3> QED BY <1>3, <1>4, <3>1, RootedMono, Zenon
  <2> QED BY <2>1, Zenon DEF PendingRooted
<1>11. ASSUME Has(ws2, "WriteHeadBlockHash")
       PROVE  EndsWith(ws2, "WriteHeadBlockHash", Last(ws2).block)
  <2>1. Has(writes, "WriteHeadBlockHash") /\ ws2 # <<>>
    BY <1>3, <1>11, HasIn, EmptyWrites, Zenon
  <2>2. EndsWith(writes, "WriteHeadBlockHash", Last(writes).block)
    BY <2>1, Zenon DEF Roots
  <2>3. EndsWith(ws2, "WriteHeadBlockHash", Last(writes).block)
    BY <1>2, <1>11, <2>2, EndsWithLast, Zenon
  <2> QED BY <1>3, <2>1, <2>3, Zenon
<1>12. rewinds = 0 => Closed(blocks, st2)
  BY <1>4, <1>5, Zenon DEF Roots, Closed
<1> QED BY <1>1, <1>7, <1>9, <1>10, <1>11, <1>12, Zenon DEF Roots

\* Going down keeps Roots: the writes not performed set no head.
LEMMA RootsDown ==
    ASSUME Shape, Roots, Stop \/ Crash
    PROVE  Roots'
<1>1. /\ blocks' = blocks /\ stored' = stored /\ headBlock' = headBlock
      /\ headHeader' = headHeader /\ rewinds' = rewinds /\ writes' = <<>> /\ status' = "down"
      /\ currentBlock' = currentBlock /\ currentHeader' = currentHeader
  BY Zenon DEF Stop, Crash, Down, database
<1>2. PendingRooted(blocks, stored, <<>>) /\ ~Has(<<>>, "WriteHeadBlockHash")
  BY EmptyWrites, Zenon
<1> QED BY <1>1, <1>2, Zenon DEF Roots

\* Start keeps Roots: repair goes back to a stored ancestor.
LEMMA RootsStart ==
    ASSUME Shape, Roots, Start
    PROVE  Roots'
<1>1. /\ blocks' = blocks /\ stored' = stored /\ headBlock' = headBlock
      /\ rewinds' = rewinds /\ writes' = writes /\ status = "down"
  BY Zenon DEF Start, bounds
<1>2. writes = <<>> /\ 1 \in stored /\ headBlock \in Nodes /\ Tree(blocks) /\ 1 \in 1 .. Len(blocks)
  BY <1>1, Zenon DEF Shape, Nodes
<1>3. PendingRooted(blocks, stored, <<>>) /\ ~Has(<<>>, "WriteHeadBlockHash")
  BY EmptyWrites, Zenon
<1>4. PathIn(blocks, 1) = {1}
  BY <1>2, PathStep, Zenon
<1>5. Rooted(blocks, stored, 1)
  BY <1>2, <1>4, Zenon DEF Rooted
<1>6. /\ Rooted(blocks, stored, repair(headBlock))
      /\ headBlock \in stored => repair(headBlock) \in stored
  <2>1. Rooted(blocks, stored, headBlock)
    BY Zenon DEF Roots
  <2>2. repair(headBlock) \in PathIn(blocks, headBlock)
    BY <1>2, RepairFacts, Zenon
  <2> QED BY <1>2, <2>1, <2>2, RootedAncestor, Zenon
<1>7. CASE headBlock \in stored
  <2>1. /\ currentBlock' = repair(headBlock) /\ status' = "running"
        /\ currentHeader' = IF headHeader \in stored THEN headHeader ELSE repair(headBlock)
        /\ headHeader' = currentHeader'
    BY <1>7, Zenon DEF Start
  <2> QED BY <1>1, <1>2, <1>3, <1>6, <1>7, <2>1, Zenon DEF Roots, Held
<1>8. CASE headBlock \notin stored
  <2>1. /\ currentBlock' = currentBlock /\ status' = "dead"
        /\ currentHeader' = 1 /\ headHeader' = 1
    BY <1>8, Zenon DEF Start
  <2> QED BY <1>1, <1>2, <1>3, <1>5, <2>1, Zenon DEF Roots
<1> QED BY <1>7, <1>8, Zenon

(* What SetHead(n) leaves at or below n. *)
LEMMA RewoundKept ==
    ASSUME Shape, NEW n \in 0 .. world.blocks, SetHead(n), NEW x \in Nodes, num(x) <= n,
           x \in stored, Rooted(blocks, stored, x)
    PROVE  x \in stored' /\ Rooted(blocks, stored', x)
<1>1. stored' = stored \ {y \in PathIn(blocks, currentHeader) : num(y) > n} /\ n \in Nat
  BY SetHeadStep, Zenon
<1>2. \A y \in PathIn(blocks, x) : y \in Nodes /\ num(y) \in Nat /\ (y # x => num(y) < num(x))
  BY AncestorsAreBelow, PathIds, Numbers, Zenon DEF AncestorsBelow, num, Shape, Nodes
<1>3. num(x) \in Nat
  BY Numbers, Zenon DEF Shape, Nodes
<1> QED BY <1>1, <1>2, <1>3 DEF Rooted

\* SetHead keeps Roots: no header it keeps hangs on a block it deletes.
LEMMA RootsSetHead ==
    ASSUME Shape, Roots, NEW n \in 0 .. world.blocks, SetHead(n)
    PROVE  Roots'
<1> DEFINE h == rewoundHeader(n)
<1>1. /\ n \in Nat /\ blocks' = blocks /\ writes' = <<>> /\ writes = <<>> /\ status = "running"
      /\ currentHeader' = h /\ headHeader' = h
      /\ currentBlock' = rewoundBlock(h) /\ headBlock' = rewoundBlock(h)
      /\ status' = IF headBlock' \in stored' THEN status ELSE "locked"
      /\ rewinds' = rewinds + 1
  BY SetHeadStep, Zenon
<1>2. h \in PathIn(blocks, currentHeader) /\ h \in Nodes /\ num(h) <= n
  BY <1>1, RewoundHeaderFacts, Zenon
<1>3. rewoundBlock(h) \in {h, currentBlock, 1} /\ num(rewoundBlock(h)) <= num(h)
      /\ rewoundBlock(h) \in Nodes
  BY <1>2, RewoundBlockFacts, Zenon
<1> HIDE DEF h
<1>4. Tree(blocks) /\ num(h) \in Nat /\ num(rewoundBlock(h)) \in Nat /\ 1 \in 1 .. Len(blocks)
      /\ 1 \in stored
  BY <1>2, <1>3, Numbers, Zenon DEF Shape, Nodes
<1>5. \A x \in {currentBlock, currentHeader} : x \in stored /\ Rooted(blocks, stored, x)
  BY <1>1, EmptyWrites DEF Roots, Held
<1>6. h \in stored /\ Rooted(blocks, stored, h)
  BY <1>2, <1>4, <1>5, RootedAncestor
<1>7. Rooted(blocks, stored, 1)
  BY <1>4, PathStep, Zenon DEF Rooted
<1>8. h \in stored' /\ Rooted(blocks, stored', h)
  BY <1>2, <1>6, RewoundKept, Zenon
<1>9. rewoundBlock(h) \in stored' /\ Rooted(blocks, stored', rewoundBlock(h))
  <2> DEFINE r == rewoundBlock(h)
  <2>1. r \in stored /\ Rooted(blocks, stored, r) /\ num(r) <= n /\ r \in Nodes
    BY <1>1, <1>2, <1>3, <1>4, <1>5, <1>6, <1>7
  <2> HIDE DEF r
  <2>2. r \in stored' /\ Rooted(blocks, stored', r)
    BY <2>1, RewoundKept, Zenon
  <2> QED BY <2>2, Zenon DEF r
<1>10. rewinds' # 0 /\ status' = status
  BY <1>1, <1>9 DEF Shape
<1>11. PendingRooted(blocks, stored', <<>>) /\ ~Has(<<>>, "WriteHeadBlockHash")
  BY EmptyWrites, Zenon
<1> QED BY <1>1, <1>8, <1>9, <1>10, <1>11, Zenon DEF Roots, Held

\* Every step keeps Roots.
LEMMA RootsNext == Shape /\ Roots /\ [Next]_vars => Roots'
<1> SUFFICES ASSUME Shape, Roots, [Next]_vars PROVE Roots'
  BY Zenon
<1>1. ASSUME NEW p \in Ids, NEW d \in Difficulties, NEW t \in Tx \cup {NoTx}, CreateBlock(p, d, t)
      PROVE  Roots'
  BY <1>1, RootsCreate, Zenon
<1>2. ASSUME NEW b \in Ids, InsertChain(b) PROVE Roots'
  BY <1>2, RootsInsertChain, Zenon
<1>3. ASSUME NEW flush \in BOOLEAN, ImportBlock(flush) PROVE Roots'
  <2>1. blocks[Head(importing)].parent \in stored
    BY <1>3, Zenon DEF ImportBlock, parent
  <2> QED BY <1>3, <2>1, ShapeImportBlock, RootsWriteBlock, Zenon
<1>4. CASE ImportFails
  BY <1>4, Zenon DEF Roots, ImportFails, database, memory, bounds
<1>5. ASSUME NEW b \in Ids, NEW flush \in BOOLEAN, WriteMinedBlock(b, flush) PROVE Roots'
  <2>1. blocks[b].parent \in stored
    BY <1>5, Zenon DEF WriteMinedBlock, parent
  <2> QED BY <1>5, <2>1, ShapeMined, RootsWriteBlock, Zenon
<1>6. CASE Write
  BY <1>6, RootsWrite, Zenon
<1>7. CASE Stop \/ Crash
  BY <1>7, RootsDown, Zenon
<1>9. CASE Start
  BY <1>9, RootsStart
<1>10. ASSUME NEW n \in 0 .. world.blocks, SetHead(n) PROVE Roots'
  BY <1>10, RootsSetHead, Zenon
<1>11. CASE UNCHANGED vars
  BY <1>11, Zenon DEF vars, database, memory, bounds, history, Roots
<1> QED BY <1>1, <1>2, <1>3, <1>4, <1>5, <1>6, <1>7, <1>9, <1>10, <1>11, Zenon DEF Next

-----------------------------------------------------------------------------
(* The chain implements ForkChoice. *)

\* The block the writes lead to.
Goal(ws, cb) == IF Has(ws, "WriteHeadBlockHash") THEN Last(ws).block ELSE cb

HeldSet(st, ws) == st \cup {ws[i].block : i \in DOMAIN ws}

\* The set of held blocks has the blocks that are stored or about to be.
LEMMA HeldSetFacts ==
    ASSUME NEW bs, NEW st, NEW ws, PendingRooted(bs, st, ws)
    PROVE  \A x : x \in HeldSet(st, ws) <=> Held(st, ws, x)
  BY DEF HeldSet, Held, Stores, In, PendingRooted

Abstract == <<blocks, HeldSet(stored, writes), Goal(writes, currentBlock), stops + rewinds,
              status \in {"down", "dead"}>>

\* With nothing pending, held is stored and the goal is the head.
LEMMA NoWrites ==
    /\ \A st : HeldSet(st, <<>>) = st
    /\ \A cb : Goal(<<>>, cb) = cb
<1>1. \A st : HeldSet(st, <<>>) = st
  BY DEF HeldSet
<1> QED BY <1>1, EmptyWrites, Zenon DEF Goal

\* The actions of ForkChoice over the abstract state.
AChoose(b) ==
    /\ status \notin {"down", "dead"}
    /\ HeldSet(stored, writes)' = HeldSet(stored, writes) \cup {b}
    /\ Goal(writes, currentBlock)'
         = IF \/ blocks[b].td > blocks[Goal(writes, currentBlock)].td
              \/ /\ blocks[b].td = blocks[Goal(writes, currentBlock)].td
                 /\ blocks[b].number > blocks[Goal(writes, currentBlock)].number
           THEN b ELSE Goal(writes, currentBlock)
    /\ blocks' = blocks /\ stops' + rewinds' = stops + rewinds
    /\ status' \notin {"down", "dead"}

AHold(b) ==
    /\ status \notin {"down", "dead"} /\ blocks[b].td < blocks[Goal(writes, currentBlock)].td
    /\ HeldSet(stored, writes)' = HeldSet(stored, writes) \cup {b}
    /\ Goal(writes, currentBlock)' = Goal(writes, currentBlock)
    /\ blocks' = blocks /\ stops' + rewinds' = stops + rewinds
    /\ status' \notin {"down", "dead"}

ALose ==
    /\ status \notin {"down", "dead"} /\ stops' + rewinds' = stops + rewinds + 1
    /\ HeldSet(stored, writes)' \subseteq HeldSet(stored, writes)
    /\ Goal(writes, currentBlock)' \in HeldSet(stored, writes)
    /\ blocks' = blocks

ARecover ==
    /\ status \in {"down", "dead"} /\ status' \notin {"down", "dead"}
    /\ Goal(writes, currentBlock)' \in HeldSet(stored, writes)
    /\ HeldSet(stored, writes)' = HeldSet(stored, writes)
    /\ blocks' = blocks /\ stops' + rewinds' = stops + rewinds

ACreate ==
    /\ Len(blocks') > Len(blocks) /\ \A i \in DOMAIN blocks : blocks'[i] = blocks[i]
    /\ HeldSet(stored, writes)' = HeldSet(stored, writes)
    /\ Goal(writes, currentBlock)' = Goal(writes, currentBlock)
    /\ stops' + rewinds' = stops + rewinds
    /\ (status \in {"down", "dead"})' = (status \in {"down", "dead"})

AStep == \/ ACreate \/ (\E b \in DOMAIN blocks : AChoose(b) \/ AHold(b)) \/ ALose \/ ARecover
         \/ UNCHANGED Abstract

\* The step forms are steps of ForkChoice, or stutter.
LEMMA AStepIs == AStep => [F!ANext]_(F!avars)
<1>1. (heads = {}) <=> ~Has(writes, "WriteHeadBlockHash")
  BY Zenon DEF heads, Has
<1>2. Goal(writes, currentBlock) = IF heads = {} THEN currentBlock ELSE Last(writes).block
  BY <1>1, Zenon DEF Goal
<1>3. ((heads = {}) <=> ~Has(writes, "WriteHeadBlockHash"))'
  BY Zenon DEF heads, Has
<1>4. Goal(writes, currentBlock)' = (IF heads = {} THEN currentBlock ELSE Last(writes).block)'
  BY <1>3, Zenon DEF Goal
<1>5. HeldSet(stored, writes) = stored \cup {writes[i].block : i \in DOMAIN writes}
      /\ HeldSet(stored, writes)' = (stored \cup {writes[i].block : i \in DOMAIN writes})'
  BY Zenon DEF HeldSet
<1>6. ASSUME ACreate PROVE F!Create
  BY <1>2, <1>4, <1>5, <1>6, Zenon DEF ACreate, F!Create
<1>7. ASSUME NEW b, AChoose(b) PROVE F!Choose(b)
  BY <1>2, <1>4, <1>5, <1>7 DEF AChoose, F!Choose, F!Better
<1>8. ASSUME NEW b, AHold(b) PROVE F!Hold(b)
  BY <1>2, <1>4, <1>5, <1>8 DEF AHold, F!Hold
<1>9. ASSUME ALose PROVE F!Lose
  BY <1>2, <1>4, <1>5, <1>9 DEF ALose, F!Lose
<1>10. ASSUME ARecover PROVE F!Recover
  BY <1>2, <1>4, <1>5, <1>10, Zenon DEF ARecover, F!Recover
<1>11. ASSUME UNCHANGED Abstract PROVE UNCHANGED F!avars
  BY <1>2, <1>4, <1>5, <1>11, Zenon DEF Abstract, F!avars
<1> QED BY <1>6, <1>7, <1>8, <1>9, <1>10, <1>11, Zenon DEF AStep, F!ANext

\* CreateBlock adds a block to the abstract tree.
LEMMA ForkCreate ==
    ASSUME Shape, Roots, NEW p \in Ids, NEW d \in Difficulties, NEW t \in Tx \cup {NoTx},
           CreateBlock(p, d, t)
    PROVE  ACreate
<1>1. Len(blocks') = Len(blocks) + 1 /\ \A x \in Nodes : blocks'[x] = blocks[x]
  BY ShapeCreate, Zenon
<1>2. Len(blocks) \in Nat /\ DOMAIN blocks = Nodes
  BY DEF Shape, Tree, Nodes
<1>3. UNCHANGED <<stored, writes, currentBlock, stops, rewinds, status>>
  BY Zenon DEF CreateBlock, database, memory, bounds
<1> QED BY <1>1, <1>2, <1>3 DEF ACreate

\* InsertChain holds the blocks without their state, or stutters.
LEMMA ForkInsertChain ==
    ASSUME Shape, Roots, NEW b \in Ids, InsertChain(b)
    PROVE  AHold(b) \/ UNCHANGED Abstract
<1>1. /\ writes' = <<>> /\ writes = <<>> /\ status = "running" /\ status' \in {"running", "lost"}
      /\ blocks' = blocks /\ currentBlock' = currentBlock /\ stops' = stops /\ rewinds' = rewinds
  BY Zenon DEF InsertChain, Idle, memory, bounds
<1>2. HeldSet(stored, writes) = stored /\ Goal(writes, currentBlock) = currentBlock
      /\ HeldSet(stored, writes)' = stored' /\ Goal(writes, currentBlock)' = currentBlock
  BY <1>1, NoWrites, Zenon
<1>3. stored' = stored \/ (stored' = stored \cup {b} /\ td(currentBlock) > td(b))
  BY Zenon DEF InsertChain
<1>4. blocks[b].td \in Nat /\ blocks[currentBlock].td \in Nat
  BY Numbers, Zenon DEF Shape, Ids, Nodes
<1> QED BY <1>1, <1>2, <1>3, <1>4 DEF AHold, Abstract, td

\* WriteBlockWithState chooses between the head and the block, or panics and stutters.
LEMMA ForkWriteBlock ==
    ASSUME Shape, Roots, NEW b \in Nodes, status = "running", writes = <<>>,
           blocks[b].parent \in stored, NEW rest, NEW failed, NEW flush,
           WriteBlockWithState(b, rest, failed, flush)
    PROVE  AChoose(b) \/ UNCHANGED Abstract
<1>1. /\ blocks' = blocks /\ stored' = stored /\ currentBlock' = currentBlock
      /\ stops' = stops /\ rewinds' = rewinds
  BY Zenon DEF WriteBlockWithState, bounds
<1>2. HeldSet(stored, writes) = stored /\ Goal(writes, currentBlock) = currentBlock
  BY NoWrites, Zenon
<1>3. CASE status' \in {status, "panic"} /\ writes' = writes
  BY <1>1, <1>3 DEF Abstract
<1>4. CASE status' = status /\ writes' = blockWrites(b) /\ ~reorgFails(b)
  <2>1. PICK ws : ws = blockWrites(b)
    BY Zenon
  <2>2. PendingRooted(blocks, stored, ws) /\ Stores(ws, b)
    BY <1>4, <2>1, RootsNewWrites, Zenon
  <2>3. \A x : x \in HeldSet(stored, ws) <=> x \in stored \/ Stores(ws, x)
    BY <2>2, HeldSetFacts, Zenon DEF Held
  <2>4. CASE isBetter(b)
    <3>1. Advances(ws, b)
      BY <2>1, <2>4, BlockWritesFacts, Zenon DEF Shape, Nodes
    <3>2. \A x : Stores(ws, x) => x = b
      BY <3>1, Zenon DEF Advances, Stores
    <3>3. Has(ws, "WriteHeadBlockHash") /\ Last(ws).block = b
      BY <3>1, Zenon DEF Advances, EndsWith, Has
    <3>4. HeldSet(stored, ws) = stored \cup {b} /\ Goal(ws, currentBlock) = b
      BY <2>2, <2>3, <3>2, <3>3, Zenon DEF Goal
    <3> QED BY <1>1, <1>2, <1>4, <2>1, <2>4, <3>4 DEF AChoose, isBetter, td, number
  <2>5. CASE ~isBetter(b)
    <3> DEFINE w == write("WriteBlock", b)
    <3>1. ws = <<w>>
      BY <2>1, <2>5, Zenon DEF blockWrites
    <3>2. w \in WriteRec /\ w.block = b /\ w.op = "WriteBlock"
      BY DEF write, writeTxs, WriteRec, Nodes
    <3> HIDE DEF w
    <3>3. (\A v : In(ws, v) <=> v = w) /\ ~Has(ws, "WriteHeadBlockHash")
      BY <3>1, <3>2, SingleWrite, Zenon
    <3>4. \A x : Stores(ws, x) => x = b
      BY <3>2, <3>3, Zenon DEF Stores
    <3>5. HeldSet(stored, ws) = stored \cup {b} /\ Goal(ws, currentBlock) = currentBlock
      BY <2>2, <2>3, <3>3, <3>4, Zenon DEF Goal
    <3> QED BY <1>1, <1>2, <1>4, <2>1, <2>5, <3>5 DEF AChoose, isBetter, td, number
  <2> QED BY <2>4, <2>5, Zenon
<1> QED BY <1>3, <1>4, Zenon DEF WriteBlockWithState

\* One write of the database is invisible: the choice was made when the list was.
LEMMA ForkWrite ==
    ASSUME Shape, Roots, Roots', Write
    PROVE  UNCHANGED Abstract
<1> DEFINE w == Head(writes)
<1>1. PICK ws2, st2, cb2 : ws2 = writes' /\ st2 = stored' /\ cb2 = currentBlock'
  BY Zenon
<1>2. Pops(writes, ws2, stored, st2)
  BY <1>1, Zenon DEF Pops, Write, Shape
<1>3. /\ \A x : Held(stored, writes, x) <=> Held(st2, ws2, x)
      /\ \A v : In(writes, v) <=> v = w \/ In(ws2, v)
      /\ ws2 # <<>> => Last(ws2) = Last(writes)
  BY <1>2, PopFacts, Zenon
<1>4. PendingRooted(blocks, stored, writes) /\ PendingRooted(blocks, st2, ws2)
  <2>1. blocks' = blocks
    BY Zenon DEF Write
  <2> QED BY <1>1, <2>1, Zenon DEF Roots
<1>5. HeldSet(stored, writes) = HeldSet(st2, ws2)
  <2>1. \A x : x \in HeldSet(stored, writes) <=> Held(stored, writes, x)
    BY <1>4, HeldSetFacts, Zenon
  <2>2. \A x : x \in HeldSet(st2, ws2) <=> Held(st2, ws2, x)
    BY <1>4, HeldSetFacts, Zenon
  <2> QED BY <1>3, <2>1, <2>2, Zenon
<1>6. cb2 = IF w.op = "WriteHeadBlockHash" THEN w.block ELSE currentBlock
  BY <1>1, Zenon DEF Write
<1>7. Goal(writes, currentBlock) = Goal(ws2, cb2)
  <2>1. CASE Has(ws2, "WriteHeadBlockHash")
    <3>1. Has(writes, "WriteHeadBlockHash") /\ ws2 # <<>>
      BY <1>3, <2>1, HasIn, EmptyWrites, Zenon
    <3> QED BY <1>3, <2>1, <3>1, Zenon DEF Goal
  <2>2. CASE ~Has(ws2, "WriteHeadBlockHash") /\ Has(writes, "WriteHeadBlockHash")
    <3>1. EndsWith(writes, "WriteHeadBlockHash", Last(writes).block)
      BY <2>2, Zenon DEF Roots
    <3>2. w.op = "WriteHeadBlockHash" /\ w.block = Last(writes).block
      BY <1>2, <2>2, <3>1, EndsWithLast, Zenon
    <3> QED BY <1>6, <2>2, <3>2, Zenon DEF Goal
  <2>3. CASE ~Has(ws2, "WriteHeadBlockHash") /\ ~Has(writes, "WriteHeadBlockHash")
    <3>1. w.op # "WriteHeadBlockHash"
      BY <1>3, <2>3, HasIn, Zenon
    <3> QED BY <1>6, <2>3, <3>1, Zenon DEF Goal
  <2> QED BY <1>3, <2>1, <2>2, <2>3, HasIn
<1>8. blocks' = blocks /\ stops' = stops /\ rewinds' = rewinds /\ status' = status
  BY Zenon DEF Write, bounds
<1> QED BY <1>1, <1>5, <1>7, <1>8, Zenon DEF Abstract

\* Going down loses what was pending.
LEMMA ForkDown ==
    ASSUME Shape, Roots, Stop \/ Crash
    PROVE  ALose
<1>1. /\ blocks' = blocks /\ stored' = stored /\ rewinds' = rewinds /\ writes' = <<>>
      /\ currentBlock' = currentBlock /\ stops' = stops + 1 /\ status = "running"
  BY Zenon DEF Stop, Crash, Down, database
<1>2. HeldSet(stored, writes)' = stored /\ Goal(writes, currentBlock)' = currentBlock
  BY <1>1, NoWrites, Zenon
<1>3. Held(stored, writes, currentBlock) /\ PendingRooted(blocks, stored, writes)
  BY <1>1, Zenon DEF Roots
<1>4. stored \subseteq HeldSet(stored, writes) /\ currentBlock \in HeldSet(stored, writes)
  BY <1>3, HeldSetFacts DEF HeldSet
<1>5. stops \in Nat /\ rewinds \in Nat
  BY WorldType DEF Shape
<1> QED BY <1>1, <1>2, <1>4, <1>5 DEF ALose

\* Start recovers to an ancestor, or stutters.
LEMMA ForkStart ==
    ASSUME Shape, Roots, Roots', Start
    PROVE  ARecover \/ UNCHANGED Abstract
<1>1. /\ blocks' = blocks /\ stored' = stored /\ rewinds' = rewinds /\ writes' = writes
      /\ stops' = stops /\ status = "down" /\ writes = <<>>
  BY Zenon DEF Start, bounds, Shape
<1>2. HeldSet(stored, writes)' = stored /\ Goal(writes, currentBlock)' = currentBlock'
      /\ HeldSet(stored, writes) = stored /\ Goal(writes, currentBlock) = currentBlock
  BY <1>1, NoWrites, Zenon
<1>3. CASE status' = "running"
  <2>1. Held(stored', writes', currentBlock')
    BY <1>3, Zenon DEF Roots
  <2>2. currentBlock' \in stored
    BY <1>1, <2>1, EmptyWrites, Zenon DEF Held
  <2> QED BY <1>1, <1>2, <1>3, <2>2 DEF ARecover
<1>4. CASE status' = "dead" /\ currentBlock' = currentBlock
  BY <1>1, <1>2, <1>4 DEF Abstract
<1> QED BY <1>3, <1>4, Zenon DEF Start

\* SetHead loses blocks and moves to an ancestor.
LEMMA ForkSetHead ==
    ASSUME Shape, Roots, Roots', NEW n \in 0 .. world.blocks, SetHead(n)
    PROVE  ALose
<1>1. /\ blocks' = blocks /\ stored' \subseteq stored /\ rewinds' = rewinds + 1 /\ writes' = <<>>
      /\ stops' = stops /\ status = "running" /\ writes = <<>>
      /\ status' \in {"running", "locked"}
  BY SetHeadStep, Zenon
<1>2. HeldSet(stored, writes)' = stored' /\ Goal(writes, currentBlock)' = currentBlock'
      /\ HeldSet(stored, writes) = stored
  BY <1>1, NoWrites, Zenon
<1>3. Held(stored', writes', currentBlock')
  BY <1>1, Zenon DEF Roots
<1>4. currentBlock' \in stored'
  BY <1>1, <1>3, EmptyWrites, Zenon DEF Held
<1>5. stops \in Nat /\ rewinds \in Nat
  BY WorldType DEF Shape
<1> QED BY <1>1, <1>2, <1>4, <1>5 DEF ALose

\* Every step is a step of ForkChoice, or stutters.
LEMMA ForkNext == Shape /\ Roots /\ Roots' /\ [Next]_vars => AStep
<1> SUFFICES ASSUME Shape, Roots, Roots', [Next]_vars PROVE AStep
  BY Zenon
<1> DOMAIN blocks = Nodes /\ Ids = Nodes
  BY DEF Shape, Tree, Nodes, Ids
<1>1. ASSUME NEW p \in Ids, NEW d \in Difficulties, NEW t \in Tx \cup {NoTx}, CreateBlock(p, d, t)
      PROVE  AStep
  BY <1>1, ForkCreate, Zenon DEF AStep
<1>2. ASSUME NEW b \in Ids, InsertChain(b) PROVE AStep
  BY <1>2, ForkInsertChain, Zenon DEF AStep
<1>3. ASSUME NEW flush \in BOOLEAN, ImportBlock(flush) PROVE AStep
  <2>1. blocks[Head(importing)].parent \in stored
    BY <1>3, Zenon DEF ImportBlock, parent
  <2>2. Head(importing) \in Nodes /\ (AChoose(Head(importing)) \/ UNCHANGED Abstract)
    BY <1>3, <2>1, ShapeImportBlock, ForkWriteBlock, Zenon
  <2> QED BY <2>2, Zenon DEF AStep
<1>4. CASE ImportFails
  BY <1>4, Zenon DEF AStep, Abstract, ImportFails, database, memory, bounds
<1>5. ASSUME NEW b \in Ids, NEW flush \in BOOLEAN, WriteMinedBlock(b, flush) PROVE AStep
  <2>1. blocks[b].parent \in stored
    BY <1>5, Zenon DEF WriteMinedBlock, parent
  <2>2. AChoose(b) \/ UNCHANGED Abstract
    BY <1>5, <2>1, ShapeMined, ForkWriteBlock
  <2> QED BY <2>2, Zenon DEF AStep
<1>6. CASE Write
  BY <1>6, ForkWrite, Zenon DEF AStep
<1>7. CASE Stop \/ Crash
  BY <1>7, ForkDown, Zenon DEF AStep
<1>9. CASE Start
  BY <1>9, ForkStart, Zenon DEF AStep
<1>10. ASSUME NEW n \in 0 .. world.blocks, SetHead(n) PROVE AStep
  BY <1>10, ForkSetHead, Zenon DEF AStep
<1>11. CASE UNCHANGED vars
  BY <1>11, Zenon DEF vars, database, memory, bounds, history, AStep, Abstract
<1> QED BY <1>1, <1>2, <1>3, <1>4, <1>5, <1>6, <1>7, <1>9, <1>10, <1>11, Zenon DEF Next

(* The chain of core/blockchain.go implements ForkChoice: whatever is imported,
   mined, stopped, crashed and rewound, the head changes only to a block that
   beats it, by total difficulty and then by number, and every block
   WriteBlockWithState decides to write that does becomes the head. *)
THEOREM ChainImplementsForkChoice == Spec => ImplementsForkChoice
<1>1. Init => F!AInit
  <2> SUFFICES ASSUME Init PROVE F!AInit
    OBVIOUS
  <2>1. writes = <<>> /\ DOMAIN writes = {}
    BY DEF Init
  <2> QED BY <2>1 DEF Init, F!AInit, heads
<1>2. Init => Shape /\ Roots
  BY ShapeInit, RootsInit, Zenon
<1>3. Shape /\ Roots /\ [Next]_vars => (Shape /\ Roots)'
  BY ShapeNext, RootsNext, Zenon
<1>4. (Shape /\ Roots) /\ (Shape /\ Roots)' /\ [Next]_vars => [F!ANext]_(F!avars)
  BY ForkNext, AStepIs, Zenon
<1> QED BY <1>1, <1>2, <1>3, <1>4, PTL DEF Spec, ImplementsForkChoice, F!ASpec

-----------------------------------------------------------------------------
(* States: the head the writes lead to has its state, or a branch is longer by
   the number of states the cache keeps. *)

slack(r) == IF r = 0 THEN 0 ELSE 1

\* A block that is held is so much higher than h.
Overtaken(bs, st, ws, r, h) ==
    \E b \in 1 .. Len(bs) :
        Held(st, ws, b) /\ bs[b].number >= bs[h].number + TriesInMemory - slack(r)

States ==
    status = "running" =>
        \/ Goal(writes, currentBlock) \in inMemory \cup onDisk
        \/ Overtaken(blocks, stored, writes, rewinds, Goal(writes, currentBlock))

(* reorg only misses a block if the chain was rewound. *)
LEMMA FailsAfterRewind ==
    ASSUME Shape, Roots, NEW b \in Nodes, writes = <<>>, status = "running",
           blocks[b].parent \in stored, reorgFails(b)
    PROVE  rewinds # 0
<1>1. SUFFICES ASSUME rewinds = 0 PROVE FALSE
  BY Zenon
<1>2. Tree(blocks) /\ b \in 1 .. Len(blocks) /\ stored \subseteq 1 .. Len(blocks)
      /\ currentBlock \in 1 .. Len(blocks)
  BY Zenon DEF Shape, Nodes
<1>3. \A x \in stored \ {1} : blocks[x].parent \in stored
  BY <1>1, Zenon DEF Roots, Closed
<1>4. b # 1
  <2>1. isBetter(b)
    BY Zenon DEF reorgFails, isReorg
  <2> QED BY <1>2, <2>1, BetterIsNew, Zenon
<1>5. PathIn(blocks, blocks[b].parent) \subseteq stored
  <2>1. blocks[b].parent \in 1 .. Len(blocks)
    BY <1>2, Zenon
  <2> QED BY <1>2, <1>3, <2>1, ClosedUnderAncestors, Zenon
<1>6. \A x \in PathIn(blocks, b) : x # b => x \in stored
  BY <1>2, <1>4, <1>5, PathStep
<1>7. \A x \in PathIn(blocks, currentBlock) : x # currentBlock => x \in stored
  BY DEF Roots, Rooted
<1> QED BY <1>6, <1>7, PathIsPathIn DEF reorgFails, broken

\* States holds of a fresh database.
LEMMA StatesInit == Init => States
<1> SUFFICES ASSUME Init PROVE States
  OBVIOUS
<1>1. Goal(writes, currentBlock) = 1 /\ 1 \in onDisk
  BY NoWrites, Zenon DEF Init
<1> QED BY <1>1, Zenon DEF States

\* CreateBlock keeps States.
LEMMA StatesCreate ==
    ASSUME Shape, States, NEW p \in Ids, NEW d \in Difficulties, NEW t \in Tx \cup {NoTx},
           CreateBlock(p, d, t)
    PROVE  States'
<1>1. Len(blocks') = Len(blocks) + 1 /\ \A x \in 1 .. Len(blocks) : blocks'[x] = blocks[x]
  BY ShapeCreate DEF Nodes
<1>2. UNCHANGED <<stored, writes, currentBlock, rewinds, status, inMemory, onDisk>> /\ writes = <<>>
  BY Zenon DEF CreateBlock, database, memory, bounds
<1>3. Goal(writes, currentBlock) = currentBlock /\ currentBlock \in 1 .. Len(blocks)
      /\ Len(blocks) \in Nat
  BY <1>2, NoWrites DEF Shape, Nodes, Tree
<1>4. Overtaken(blocks, stored, writes, rewinds, currentBlock)
        => Overtaken(blocks', stored, writes, rewinds, currentBlock)
  BY <1>1, <1>3 DEF Overtaken
<1>5. States' = (status = "running" =>
        \/ Goal(writes, currentBlock) \in inMemory \cup onDisk
        \/ Overtaken(blocks', stored, writes, rewinds, Goal(writes, currentBlock)))
  BY <1>2, Zenon DEF States
<1> QED BY <1>3, <1>4, <1>5, Zenon DEF States

\* InsertChain keeps States.
LEMMA StatesInsertChain ==
    ASSUME Shape, States, NEW b \in Ids, InsertChain(b)
    PROVE  States'
<1>1. /\ UNCHANGED <<blocks, writes, currentBlock, rewinds, inMemory, onDisk>>
      /\ status = "running" /\ stored \subseteq stored'
  BY Zenon DEF InsertChain, memory, bounds, Idle
<1>2. Overtaken(blocks, stored, writes, rewinds, Goal(writes, currentBlock))
        => Overtaken(blocks, stored', writes, rewinds, Goal(writes, currentBlock))
  BY <1>1, Zenon DEF Overtaken, Held
<1> QED BY <1>1, <1>2, Zenon DEF States

(* collectTries keeps the state of the block it is called for, and of every
   block that is not TriesInMemory lower. *)
LEMMA CollectFacts ==
    ASSUME Shape, NEW b \in Nodes, NEW flush, collectTries(b, flush)
    PROVE  /\ b \in inMemory' /\ onDisk \subseteq onDisk'
           /\ inMemory' \subseteq inMemory \cup {b} /\ onDisk' \subseteq onDisk \cup inMemory \cup {b}
           /\ \A x \in inMemory : x \in inMemory' \/ num(b) >= num(x) + TriesInMemory
<1>1. num(b) \in Nat /\ TriesInMemory \in Nat \ {0} /\ \A x \in inMemory : num(x) \in Nat
  BY Numbers, ChainAssumption DEF Shape, Nodes
<1>2. CASE num(b) - TriesInMemory <= 0
  <2>1. inMemory' = inMemory \cup {b} /\ onDisk' = onDisk
    BY <1>2, Zenon DEF collectTries, num, number
  <2> QED BY <2>1, Zenon
<1>3. CASE ~(num(b) - TriesInMemory <= 0)
  <2>1. /\ inMemory' = {x \in inMemory \cup {b} : num(x) > num(b) - TriesInMemory}
        /\ onDisk \subseteq onDisk' /\ onDisk' \subseteq onDisk \cup inMemory \cup {b}
    BY <1>3, Zenon DEF collectTries, num, number
  <2> QED BY <1>1, <2>1
<1> QED BY <1>2, <1>3

\* WriteBlockWithState keeps States, the garbage collection of old tries included.
LEMMA StatesWriteBlock ==
    ASSUME Shape, Roots, States, NEW b \in Nodes, status = "running", writes = <<>>,
           blocks[b].parent \in stored, NEW rest, NEW failed, NEW flush,
           WriteBlockWithState(b, rest, failed, flush)
    PROVE  States'
<1>1. /\ blocks' = blocks /\ stored' = stored /\ currentBlock' = currentBlock
      /\ rewinds' = rewinds
  BY Zenon DEF WriteBlockWithState, bounds
<1>2. Goal(writes, currentBlock) = currentBlock
  BY NoWrites, Zenon
<1>3. CASE status' = "panic"
  BY <1>3, Zenon DEF States
<1>4. ASSUME collectTries(b, flush) PROVE
      /\ b \in inMemory' /\ onDisk \subseteq onDisk'
      /\ \A x \in inMemory : x \in inMemory' \/ num(b) >= num(x) + TriesInMemory
  BY <1>4, CollectFacts
<1>5. /\ num(b) \in Nat /\ num(currentBlock) \in Nat /\ TriesInMemory \in Nat
      /\ slack(rewinds) \in {0, 1} /\ (rewinds # 0 => slack(rewinds) = 1)
  BY Numbers, ChainAssumption DEF Shape, Nodes, slack
<1>6. PICK ws : ws = writes'
  OBVIOUS
<1>7. \A x \in Nodes : Held(stored, writes, x) => Held(stored, ws, x)
  BY EmptyWrites DEF Held
<1>8. Overtaken(blocks, stored, writes, rewinds, currentBlock)
        => Overtaken(blocks, stored, ws, rewinds, currentBlock)
  BY <1>7, Zenon DEF Overtaken, Nodes
<1>9. CASE ~headerMissing(b) /\ ~reorgFails(b)
  <2>1. ws = blockWrites(b) /\ collectTries(b, flush)
    BY <1>6, <1>9, Zenon DEF WriteBlockWithState
  <2>2. CASE isBetter(b)
    <3>1. Advances(ws, b)
      BY <2>1, <2>2, BlockWritesFacts DEF Shape, Nodes
    <3>2. Goal(ws, currentBlock) = b
      BY <3>1, Zenon DEF Advances, EndsWith, Has, Goal
    <3> QED BY <1>1, <1>4, <1>6, <2>1, <3>2 DEF States
  <2>3. CASE ~isBetter(b)
    <3>1. Goal(ws, currentBlock) = currentBlock
      <4> DEFINE w == write("WriteBlock", b)
      <4>1. ws = <<w>>
        BY <2>1, <2>3 DEF blockWrites
      <4>2. w \in WriteRec /\ w.op = "WriteBlock"
        BY DEF write, writeTxs, WriteRec, Nodes
      <4> HIDE DEF w
      <4>3. ~Has(ws, "WriteHeadBlockHash")
        BY <4>1, <4>2, SingleWrite, Zenon
      <4> QED BY <4>3, Zenon DEF Goal
    <3>2. Stores(ws, b)
      BY <1>9, <2>1, RootsNewWrites, Zenon
    <3>3. num(b) >= num(currentBlock) + TriesInMemory
            => Overtaken(blocks, stored, ws, rewinds, currentBlock)
      BY <1>5, <3>2, SMTT(20) DEF Overtaken, Held, num, Nodes
    <3>4. \/ currentBlock \in inMemory' \cup onDisk'
          \/ Overtaken(blocks, stored, ws, rewinds, currentBlock)
      BY <1>2, <1>4, <1>8, <2>1, <3>3 DEF States
    <3> QED BY <1>1, <1>6, <3>1, <3>4 DEF States
  <2> QED BY <2>2, <2>3, Zenon
<1>10. CASE ~headerMissing(b) /\ reorgFails(b)
  <2>1. ws = <<>> /\ collectTries(b, flush) /\ Goal(ws, currentBlock) = currentBlock
    BY <1>2, <1>6, <1>10 DEF WriteBlockWithState
  <2>2. rewinds # 0
    BY <1>10, FailsAfterRewind, Zenon
  <2>3. b # 1
    <3>1. isBetter(b)
      BY <1>10, Zenon DEF reorgFails, isReorg
    <3> QED BY <3>1, BetterIsNew DEF Shape, Nodes
  <2>4. blocks[b].number = blocks[blocks[b].parent].number + 1 /\ blocks[b].parent \in Nodes
    BY <2>3, ParentLinked, Zenon DEF Shape, Nodes
  <2>5. num(blocks[b].parent) \in Nat
    BY <2>4, Numbers, SMTT(20) DEF Shape, Nodes
  <2>6. num(b) >= num(currentBlock) + TriesInMemory
          => Overtaken(blocks, stored, ws, rewinds, currentBlock)
    <3>1. SUFFICES ASSUME num(b) >= num(currentBlock) + TriesInMemory
                   PROVE  Overtaken(blocks, stored, ws, rewinds, currentBlock)
      OBVIOUS
    <3>2. num(blocks[b].parent) >= num(currentBlock) + TriesInMemory - slack(rewinds)
      BY <1>5, <2>2, <2>4, <2>5, <3>1, SMTT(20) DEF num
    <3>3. Held(stored, ws, blocks[b].parent)
      BY DEF Held
    <3> QED BY <2>4, <3>2, <3>3 DEF Overtaken, num, Nodes
  <2>7. \/ currentBlock \in inMemory' \cup onDisk'
        \/ Overtaken(blocks, stored, ws, rewinds, currentBlock)
    BY <1>2, <1>4, <1>8, <2>1, <2>6 DEF States
  <2> QED BY <1>1, <1>6, <2>1, <2>7, Zenon DEF States
<1> QED BY <1>3, <1>9, <1>10 DEF WriteBlockWithState

\* One write of the database keeps States.
LEMMA StatesWrite ==
    ASSUME Shape, Roots, Roots', States, Write
    PROVE  States'
<1>1. UNCHANGED Abstract
  BY ForkWrite, Zenon
<1>2. PICK ws2, st2 : ws2 = writes' /\ st2 = stored'
  BY Zenon
<1>3. Pops(writes, ws2, stored, st2)
  BY <1>2, Zenon DEF Pops, Write, Shape
<1>4. \A x : Held(stored, writes, x) <=> Held(st2, ws2, x)
  BY <1>3, PopFacts, Zenon
<1>5. UNCHANGED <<blocks, rewinds, inMemory, onDisk, status>>
  BY Zenon DEF Write, bounds
<1>6. Goal(writes, currentBlock)' = Goal(writes, currentBlock)
  BY <1>1, Zenon DEF Abstract
<1>7. Overtaken(blocks, stored, writes, rewinds, Goal(writes, currentBlock))
        => Overtaken(blocks, st2, ws2, rewinds, Goal(writes, currentBlock))
  BY <1>4, Zenon DEF Overtaken
<1> QED BY <1>2, <1>5, <1>6, <1>7 DEF States

\* Start keeps States: repair stops at a block whose state is on disk.
LEMMA StatesStart ==
    ASSUME Shape, States, Start
    PROVE  States'
<1>1. writes' = <<>> /\ onDisk' = onDisk /\ headBlock \in Nodes
  BY Zenon DEF Start, Shape
<1>2. Goal(writes, currentBlock)' = currentBlock'
  BY <1>1, NoWrites, Zenon
<1>3. repair(headBlock) \in onDisk
  BY <1>1, RepairFacts, Zenon
<1>4. status' = "running" => currentBlock' = repair(headBlock)
  BY Zenon DEF Start
<1> QED BY <1>1, <1>2, <1>3, <1>4 DEF States

\* SetHead keeps States: it falls back to the genesis when the state is gone.
LEMMA StatesSetHead ==
    ASSUME Shape, States, NEW n \in 0 .. world.blocks, SetHead(n)
    PROVE  States'
<1>1. writes' = <<>> /\ onDisk' = onDisk /\ inMemory' = inMemory /\ n \in Nat
      /\ currentBlock' = rewoundBlock(rewoundHeader(n))
  BY SetHeadStep, Zenon
<1>2. Goal(writes, currentBlock)' = currentBlock'
  BY <1>1, NoWrites, Zenon
<1>3. rewoundHeader(n) \in Nodes
  BY <1>1, RewoundHeaderFacts, Zenon
<1>4. rewoundBlock(rewoundHeader(n)) \in inMemory \cup onDisk
  BY <1>3, RewoundBlockFacts, Zenon
<1> QED BY <1>1, <1>2, <1>4 DEF States

\* Every step keeps States.
LEMMA StatesNext == Shape /\ Roots /\ Roots' /\ States /\ [Next]_vars => States'
<1> SUFFICES ASSUME Shape, Roots, Roots', States, [Next]_vars PROVE States'
  OBVIOUS
<1>1. ASSUME NEW p \in Ids, NEW d \in Difficulties, NEW t \in Tx \cup {NoTx}, CreateBlock(p, d, t)
      PROVE  States'
  BY <1>1, StatesCreate, Zenon
<1>2. ASSUME NEW b \in Ids, InsertChain(b) PROVE States'
  BY <1>2, StatesInsertChain, Zenon
<1>3. ASSUME NEW flush \in BOOLEAN, ImportBlock(flush) PROVE States'
  <2>1. blocks[Head(importing)].parent \in stored
    BY <1>3, Zenon DEF ImportBlock, parent
  <2> QED BY <1>3, <2>1, ShapeImportBlock, StatesWriteBlock
<1>4. CASE ImportFails
  BY <1>4, Zenon DEF States, ImportFails, database, memory, bounds
<1>5. ASSUME NEW b \in Ids, NEW flush \in BOOLEAN, WriteMinedBlock(b, flush) PROVE States'
  <2>1. blocks[b].parent \in stored
    BY <1>5, Zenon DEF WriteMinedBlock, parent
  <2> QED BY <1>5, <2>1, ShapeMined, StatesWriteBlock
<1>6. CASE Write
  BY <1>6, StatesWrite, Zenon
<1>7. CASE Stop \/ Crash
  BY <1>7, Zenon DEF States, Stop, Crash, Down
<1>9. CASE Start
  BY <1>9, StatesStart, Zenon
<1>10. ASSUME NEW n \in 0 .. world.blocks, SetHead(n) PROVE States'
  BY <1>10, StatesSetHead, Zenon
<1>11. CASE UNCHANGED vars
  BY <1>11, Zenon DEF vars, database, memory, bounds, history, States
<1> QED BY <1>1, <1>2, <1>3, <1>4, <1>5, <1>6, <1>7, <1>9, <1>10, <1>11 DEF Next

(* Between two series of writes the head has its state, or a lighter branch is
   longer than the cache of tries, and SetHead never waits for itself: the head
   block it leaves is in the database. *)
THEOREM HeadStaysUsable == Spec => []HeadUsable
<1>1. Init => Shape /\ Roots /\ States
  BY ShapeInit, RootsInit, StatesInit, Zenon
<1>2. Shape /\ Roots /\ States /\ [Next]_vars => (Shape /\ Roots /\ States)'
  BY ShapeNext, RootsNext, StatesNext, Zenon
<1>3. Shape /\ Roots /\ States => HeadUsable
  <2> SUFFICES ASSUME Shape, Roots, States PROVE HeadUsable
    BY Zenon
  <2>1. SetHeadReturns
    BY Zenon DEF Roots, SetHeadReturns
  <2>2. ASSUME status = "running", writes = <<>>, ~HasState(currentBlock)
        PROVE  \E b \in stored : number(b) >= number(currentBlock) + TriesInMemory
                                            - (IF rewinds = 0 THEN 0 ELSE 1)
    <3>1. Goal(writes, currentBlock) = currentBlock
      BY <2>2, NoWrites, Zenon
    <3>2. Overtaken(blocks, stored, writes, rewinds, currentBlock)
      BY <2>2, <3>1 DEF States, HasState
    <3>3. \A x : Held(stored, writes, x) => x \in stored
      BY <2>2, EmptyWrites DEF Held
    <3> QED BY <3>2, <3>3, Zenon DEF Overtaken, slack, number
  <2> QED BY <2>1, <2>2, Zenon DEF HeadUsable, HeadHasState
<1> QED BY <1>1, <1>2, <1>3, PTL DEF Spec

-----------------------------------------------------------------------------
(* Numbering: unless the node crashed, the writes turn the canonical numbers
   into the ancestry of the block they lead to.  T is that block. *)

\* Every ancestor of h has its number.
Agrees(bs, can, h) == \A x \in PathIn(bs, h) : can[bs[x].number] = x

\* The numbers written are T's, and an ancestor of T has its number or will get it.
Leads(bs, can, ws, T) ==
    /\ \A w : In(ws, w) /\ w.op \in {"WriteCanonicalHash", "WriteHeadHeaderHash"}
                 => w.block \in PathIn(bs, T)
    /\ \A x \in PathIn(bs, T) :
          \/ can[bs[x].number] = x
          \/ \E w : In(ws, w) /\ w.op = "WriteCanonicalHash" /\ w.block = x

\* An ancestor of h is one of T's, or has its number and will keep it.
Follows(bs, can, ws, T, h) ==
    \A x \in PathIn(bs, h) :
        \/ x \in PathIn(bs, T)
        \/ /\ can[bs[x].number] = x
           /\ \A w : In(ws, w) /\ w.op = "WriteCanonicalHash"
                        => bs[w.block].number # bs[x].number

\* No ancestor of h above b has its state, and b is an ancestor of h.
Repaired(bs, states, h, b) ==
    /\ b \in PathIn(bs, h)
    /\ \A x \in PathIn(bs, h) : x \in states => bs[x].number <= bs[b].number

\* With nothing pending, the numbers lead to T iff they agree with its ancestors.
LEMMA LeadsIdle ==
    ASSUME NEW bs, NEW can, NEW T, NEW h
    PROVE  /\ Leads(bs, can, <<>>, T) <=> Agrees(bs, can, T)
           /\ Agrees(bs, can, h) => Follows(bs, can, <<>>, T, h)
           /\ Agrees(bs, can, T) /\ Follows(bs, can, <<>>, T, h) => Agrees(bs, can, h)
  BY EmptyWrites, Zenon DEF Leads, Agrees, Follows

\* Numbers that agree with a block agree with its ancestors.
LEMMA AgreesAncestor ==
    ASSUME NEW bs, Tree(bs), NEW can, NEW h \in 1 .. Len(bs), Agrees(bs, can, h),
           NEW x \in PathIn(bs, h)
    PROVE  Agrees(bs, can, x)
<1>1. PathIn(bs, x) \subseteq PathIn(bs, h)
  BY AncestorsAreBelow, Zenon DEF AncestorsBelow
<1> QED BY <1>1, Zenon DEF Agrees

\* An ancestor of T follows T.
LEMMA FollowsAncestor ==
    ASSUME NEW bs, Tree(bs), NEW can, NEW ws, NEW T \in 1 .. Len(bs), NEW h \in PathIn(bs, T)
    PROVE  Follows(bs, can, ws, T, h)
<1>1. PathIn(bs, h) \subseteq PathIn(bs, T)
  BY AncestorsAreBelow, Zenon DEF AncestorsBelow
<1> QED BY <1>1, Zenon DEF Follows

\* One write, w, is done: can becomes can2.
Renumbers(bs, can, can2, ws, ws2, w) ==
    /\ Tree(bs) /\ \A x \in 1 .. Len(bs) : bs[x].number \in DOMAIN can
    /\ \A v : In(ws, v) <=> v = w \/ In(ws2, v)
    /\ can2 = IF w.op = "WriteCanonicalHash"
              THEN [can EXCEPT ![bs[w.block].number] = w.block] ELSE can

\* Performing a write keeps the numbers leading to T.
LEMMA RenumberLeads ==
    ASSUME NEW bs, NEW can, NEW can2, NEW ws, NEW ws2, NEW w,
           Renumbers(bs, can, can2, ws, ws2, w), NEW T \in 1 .. Len(bs), Leads(bs, can, ws, T)
    PROVE  Leads(bs, can2, ws2, T)
<1>1. /\ Tree(bs) /\ \A x \in 1 .. Len(bs) : bs[x].number \in DOMAIN can
      /\ \A v : In(ws, v) <=> v = w \/ In(ws2, v)
  BY Zenon DEF Renumbers
<1>2. PathIn(bs, T) \subseteq 1 .. Len(bs) /\ OneOfEachNumber(bs, T)
  BY <1>1, PathIds, AncestorsNumbered, Zenon
<1>3. ASSUME NEW x \in PathIn(bs, T)
      PROVE  \/ can2[bs[x].number] = x
             \/ \E v : In(ws2, v) /\ v.op = "WriteCanonicalHash" /\ v.block = x
  <2>1. bs[x].number \in DOMAIN can
    BY <1>1, <1>2, Zenon
  <2>2. CASE w.op # "WriteCanonicalHash"
    <3>1. can2 = can
      BY <2>2, Zenon DEF Renumbers
    <3> QED BY <1>1, <2>2, <3>1, Zenon DEF Leads
  <2>3. CASE w.op = "WriteCanonicalHash"
    <3>1. w.block \in PathIn(bs, T)
      BY <1>1, <2>3, Zenon DEF Leads
    <3>2. can2 = [can EXCEPT ![bs[w.block].number] = w.block]
      BY <2>3, Zenon DEF Renumbers
    <3>3. CASE bs[w.block].number = bs[x].number
      <4>1. w.block = x
        BY <1>2, <3>1, <3>3, Zenon DEF OneOfEachNumber
      <4> QED BY <2>1, <3>2, <4>1, Zenon
    <3>4. CASE bs[w.block].number # bs[x].number
      <4>1. can2[bs[x].number] = can[bs[x].number] /\ w.block # x
        BY <2>1, <3>2, <3>4, Zenon
      <4> QED BY <1>1, <4>1, Zenon DEF Leads
    <3> QED BY <3>3, <3>4, Zenon
  <2> QED BY <2>2, <2>3, Zenon
<1> QED BY <1>1, <1>3 DEF Leads

\* Performing a write keeps h following T.
LEMMA RenumberFollows ==
    ASSUME NEW bs, NEW can, NEW can2, NEW ws, NEW ws2, NEW w,
           Renumbers(bs, can, can2, ws, ws2, w), NEW T, NEW h \in 1 .. Len(bs),
           Follows(bs, can, ws, T, h)
    PROVE  Follows(bs, can2, ws2, T, h)
<1>1. /\ Tree(bs) /\ \A x \in 1 .. Len(bs) : bs[x].number \in DOMAIN can
      /\ \A v : In(ws, v) <=> v = w \/ In(ws2, v)
  BY Zenon DEF Renumbers
<1>2. PathIn(bs, h) \subseteq 1 .. Len(bs)
  BY <1>1, PathIds, Zenon
<1>3. ASSUME NEW x \in PathIn(bs, h), x \notin PathIn(bs, T)
      PROVE  /\ can2[bs[x].number] = x
             /\ \A v : In(ws2, v) /\ v.op = "WriteCanonicalHash"
                          => bs[v.block].number # bs[x].number
  <2>1. bs[x].number \in DOMAIN can
    BY <1>1, <1>2, Zenon
  <2>2. /\ can[bs[x].number] = x
        /\ \A v : In(ws, v) /\ v.op = "WriteCanonicalHash"
                     => bs[v.block].number # bs[x].number
    BY <1>3, Zenon DEF Follows
  <2>3. w.op = "WriteCanonicalHash" => bs[w.block].number # bs[x].number
    BY <1>1, <2>2, Zenon
  <2>4. can2[bs[x].number] = x
    BY <2>1, <2>2, <2>3, Zenon DEF Renumbers
  <2> QED BY <1>1, <2>2, <2>4, Zenon
<1> QED BY <1>3, Zenon DEF Follows

\* While the node runs: C stands for the head, B and H for the head block and the
\* header in the database, states for the blocks that have their state.
RunNumbers(bs, can, ws, C, B, H, states) ==
    LET T == Goal(ws, C)
    IN  /\ Leads(bs, can, ws, T)
        /\ ~Has(ws, "WriteHeadBlockHash") => Follows(bs, can, ws, T, B) /\ Repaired(bs, states, B, C)
        /\ Has(ws, "WriteHeadHeaderHash") \/ Follows(bs, can, ws, T, H)

Numbering ==
    ~crashed =>
        /\ status = "running" =>
              /\ RunNumbers(blocks, canonical, writes, currentBlock, headBlock, headHeader,
                            inMemory \cup onDisk)
              /\ headHeader = currentHeader
        /\ status = "down" =>
              /\ Agrees(blocks, canonical, headBlock) /\ Agrees(blocks, canonical, headHeader)
              /\ inMemory = {}
              /\ keep # 0 => /\ headBlock \in stored /\ keep \in onDisk
                             /\ Repaired(blocks, onDisk, headBlock, keep)

\* What the numbering of a running node says between two imports.
LEMMA RunIdle ==
    ASSUME NEW bs, NEW can, NEW C, NEW B, NEW H, NEW states
    PROVE  RunNumbers(bs, can, <<>>, C, B, H, states) <=>
             /\ Agrees(bs, can, C) /\ Agrees(bs, can, B) /\ Agrees(bs, can, H)
             /\ Repaired(bs, states, B, C)
<1>1. Goal(<<>>, C) = C /\ \A op : ~Has(<<>>, op)
  BY NoWrites, EmptyWrites, Zenon
<1> QED BY <1>1, LeadsIdle, Zenon DEF RunNumbers

\* Blocks are added to bs.
Grows(bs, cs) ==
    /\ Tree(bs) /\ Tree(cs) /\ Len(bs) <= Len(cs)
    /\ \A x \in 1 .. Len(bs) : cs[x] = bs[x]

\* CreateBlock only appends to the tree.
LEMMA CreateGrows ==
    ASSUME Shape, NEW p \in Ids, NEW d \in Difficulties, NEW t \in Tx \cup {NoTx},
           CreateBlock(p, d, t)
    PROVE  Grows(blocks, blocks')
<1>1. Tree(blocks) /\ Len(blocks) \in Nat
  BY DEF Shape, Tree
<1>2. Tree(blocks')
  <2>1. Shape'
    BY ShapeCreate, Zenon
  <2> QED BY <2>1, Zenon DEF Shape
<1>3. Len(blocks') = Len(blocks) + 1 /\ \A x \in 1 .. Len(blocks) : blocks'[x] = blocks[x]
  BY ShapeCreate, Zenon DEF Nodes
<1> QED BY <1>1, <1>2, <1>3 DEF Grows

\* Appending a block changes no ancestor of another.
LEMMA GrowsPath ==
    ASSUME NEW bs, NEW cs, Grows(bs, cs), NEW h \in 1 .. Len(bs)
    PROVE  /\ PathIn(cs, h) = PathIn(bs, h) /\ h \in 1 .. Len(cs)
           /\ \A x \in PathIn(bs, h) : x \in 1 .. Len(bs) /\ cs[x] = bs[x]
           /\ \A can : Agrees(cs, can, h) <=> Agrees(bs, can, h)
<1>1. Tree(bs) /\ Tree(cs) /\ Len(bs) <= Len(cs) /\ \A x \in 1 .. Len(bs) : cs[x] = bs[x]
  BY Zenon DEF Grows
<1>2. PathIn(cs, h) = PathIn(bs, h)
  BY <1>1, PathStable, Zenon
<1>3. \A x \in PathIn(bs, h) : x \in 1 .. Len(bs) /\ cs[x] = bs[x]
  BY <1>1, PathIds, Zenon
<1>4. Len(bs) \in Nat /\ Len(cs) \in Nat
  BY <1>1 DEF Tree
<1> QED BY <1>1, <1>2, <1>3, <1>4 DEF Agrees

\* Appending a block changes nothing about where repair ends.
LEMMA GrowsRepaired ==
    ASSUME NEW bs, NEW cs, Grows(bs, cs), NEW h \in 1 .. Len(bs), NEW S, NEW b,
           Repaired(bs, S, h, b)
    PROVE  Repaired(cs, S, h, b)
<1>1. /\ PathIn(cs, h) = PathIn(bs, h)
      /\ \A x \in PathIn(bs, h) : x \in 1 .. Len(bs) /\ cs[x] = bs[x]
  BY GrowsPath
<1> QED BY <1>1 DEF Repaired

=============================================================================
