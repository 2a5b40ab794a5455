------------------------ MODULE BlockChainViewProofs ------------------------
(***************************************************************************)
(* A clean stop keeps the head, and what is read by number, as the head    *)
(* header and by transaction hash is one chain, for every tree of blocks   *)
(* and every number of stops, crashes and rewinds.                         *)
(***************************************************************************)
EXTENDS BlockChainProofs

-----------------------------------------------------------------------------
(* Numbering is kept.  It and what it is made of are in BlockChainProofs. *)

\* Numbering holds of a fresh database.
LEMMA NumberingInit == Init => Numbering
<1> SUFFICES ASSUME Init PROVE Numbering
  BY Zenon
<1>1. Tree(blocks) /\ Len(blocks) = 1 /\ 1 \in 1 .. Len(blocks) /\ blocks[1].number = 0
  BY GenesisTree DEF Init
<1>2. PathIn(blocks, 1) = {1}
  BY <1>1, PathStep, Zenon
<1>3. 0 \in 0 .. world.blocks
  BY WorldType DEF Init
<1>4. canonical[0] = 1
  BY <1>3, Zenon DEF Init
<1>5. Agrees(blocks, canonical, 1) /\ Repaired(blocks, inMemory \cup onDisk, 1, 1)
  BY <1>1, <1>2, <1>4 DEF Agrees, Repaired
<1>6. RunNumbers(blocks, canonical, <<>>, 1, 1, 1, inMemory \cup onDisk)
  BY <1>5, RunIdle, Zenon
<1> QED BY <1>6, Zenon DEF Init, Numbering

\* CreateBlock keeps Numbering.
LEMMA NumberingCreate ==
    ASSUME Shape, Numbering, NEW p \in Ids, NEW d \in Difficulties, NEW t \in Tx \cup {NoTx},
           CreateBlock(p, d, t)
    PROVE  Numbering'
<1>1. PICK cs : cs = blocks'
  BY Zenon
<1>2. Grows(blocks, cs)
  BY <1>1, CreateGrows, Zenon
<1>3. UNCHANGED <<stored, canonical, writes, headBlock, headHeader, currentBlock, currentHeader,
                  status, inMemory, onDisk, keep, crashed>> /\ writes = <<>>
  BY Zenon DEF CreateBlock, database, memory, bounds, history
<1>4. {headBlock, headHeader, currentBlock, currentHeader} \subseteq 1 .. Len(blocks)
  BY Zenon DEF Shape, Nodes
<1>5. \A h \in {headBlock, headHeader, currentBlock} :
          Agrees(cs, canonical, h) <=> Agrees(blocks, canonical, h)
  BY <1>2, <1>4, GrowsPath
<1>6. ASSUME NEW S, NEW b, Repaired(blocks, S, headBlock, b) PROVE Repaired(cs, S, headBlock, b)
  BY <1>2, <1>4, <1>6, GrowsRepaired, Zenon
<1>7. RunNumbers(blocks, canonical, <<>>, currentBlock, headBlock, headHeader, inMemory \cup onDisk)
      => RunNumbers(cs, canonical, <<>>, currentBlock, headBlock, headHeader, inMemory \cup onDisk)
  BY <1>5, <1>6, RunIdle, Zenon
<1> QED BY <1>1, <1>3, <1>5, <1>6, <1>7, Zenon DEF Numbering

\* InsertChain keeps Numbering.
LEMMA NumberingInsertChain ==
    ASSUME Shape, Numbering, NEW b \in Ids, InsertChain(b)
    PROVE  Numbering'
<1>1. UNCHANGED <<blocks, canonical, writes, headBlock, headHeader, currentBlock, currentHeader,
                  inMemory, onDisk, keep, crashed>> /\ status = "running"
      /\ status' \in {"running", "lost"}
  BY Zenon DEF InsertChain, memory, bounds, history, Idle
<1> QED BY <1>1, Zenon DEF Numbering

(* A block whose parent has its state gets its own: no state appears above the
   head on the branch of the head block. *)
LEMMA RepairedStays ==
    ASSUME Shape, NEW b \in Nodes, blocks[b].parent \in Nodes, b # 1,
           blocks[b].parent \in inMemory \cup onDisk,
           Repaired(blocks, inMemory \cup onDisk, headBlock, currentBlock),
           ~(isBetter(b) /\ ~reorgFails(b))
    PROVE  Repaired(blocks, inMemory \cup onDisk \cup {b}, headBlock, currentBlock)
<1> DEFINE p == blocks[b].parent
           P == PathIn(blocks, headBlock)
<1>1. SUFFICES ASSUME b \in P, ~(num(b) <= num(currentBlock)) PROVE FALSE
  BY Zenon DEF Repaired, num
<1>2. Tree(blocks) /\ b \in 1 .. Len(blocks) /\ headBlock \in 1 .. Len(blocks)
      /\ currentBlock \in 1 .. Len(blocks) /\ p \in 1 .. Len(blocks)
  BY Zenon DEF Shape, Nodes
<1>3. num(b) = num(p) + 1 /\ blocks[b].td > blocks[p].td
  BY <1>2, ParentLinked, Zenon DEF num
<1>4. /\ num(b) \in Nat /\ num(p) \in Nat /\ num(currentBlock) \in Nat
      /\ blocks[b].td \in Nat /\ blocks[p].td \in Nat
  BY <1>2, Numbers, Zenon
<1>5. p \in P
  BY <1>1, <1>2, AncestorsAreBelow, Zenon DEF AncestorsBelow
<1>6. num(p) <= num(currentBlock)
  BY <1>5 DEF Repaired, num
<1>7. num(p) = num(currentBlock)
  BY <1>1, <1>3, <1>4, <1>6
<1>8. p = currentBlock
  <2>1. currentBlock \in P
    BY Zenon DEF Repaired
  <2>2. OneOfEachNumber(blocks, headBlock)
    BY <1>2, AncestorsNumbered, Zenon
  <2> QED BY <1>5, <1>7, <2>1, <2>2, Zenon DEF OneOfEachNumber, num
<1>9. isBetter(b)
  BY <1>3, <1>4, <1>8, Zenon DEF isBetter, td
<1>10. ~isReorg(b)
  BY <1>8, Zenon DEF isReorg, parent
<1> QED BY <1>9, <1>10, Zenon DEF reorgFails

\* WriteBlockWithState keeps Numbering.
LEMMA NumberingWriteBlock ==
    ASSUME Shape, Roots, Numbering, NEW b \in Nodes, status = "running", writes = <<>>,
           blocks[b].parent \in stored, blocks[b].parent \in inMemory \cup onDisk,
           NEW rest, NEW failed, NEW flush,
           WriteBlockWithState(b, rest, failed, flush)
    PROVE  Numbering'
<1>1. UNCHANGED <<blocks, canonical, headBlock, headHeader, currentBlock, currentHeader,
                  keep, crashed>>
  BY Zenon DEF WriteBlockWithState, bounds, history
<1>2. CASE status' = "panic"
  BY <1>2, Zenon DEF Numbering
<1>3. CASE crashed
  BY <1>1, <1>3, Zenon DEF Numbering
<1>4. CASE ~crashed /\ status' = "running"
  <2>1. collectTries(b, flush)
    BY <1>4, Zenon DEF WriteBlockWithState
  <2>2. PICK S : S = inMemory' \cup onDisk'
    BY Zenon
  <2>3. S \subseteq inMemory \cup onDisk \cup {b}
    BY <2>1, <2>2, CollectFacts, Zenon
  <2>4. RunNumbers(blocks, canonical, <<>>, currentBlock, headBlock, headHeader, inMemory \cup onDisk)
        /\ headHeader = currentHeader
    BY <1>4, Zenon DEF Numbering
  <2>5. /\ Agrees(blocks, canonical, currentBlock) /\ Agrees(blocks, canonical, headBlock)
        /\ Agrees(blocks, canonical, headHeader)
        /\ Repaired(blocks, inMemory \cup onDisk, headBlock, currentBlock)
    BY <2>4, RunIdle, Zenon
  <2>6. b # 1 /\ blocks[b].parent \in Nodes
    <3>1. 0 \notin stored /\ blocks[1].parent = 0 /\ stored \subseteq Nodes
      BY DEF Shape, Tree, Nodes
    <3> QED BY <3>1, Zenon
  <2>7. CASE ~(isBetter(b) /\ ~reorgFails(b))
    <3>1. Repaired(blocks, inMemory \cup onDisk \cup {b}, headBlock, currentBlock)
      BY <2>5, <2>6, <2>7, RepairedStays, Zenon
    <3>2. Repaired(blocks, S, headBlock, currentBlock)
      BY <2>3, <3>1, Zenon DEF Repaired
    <3>3. PICK ws : ws = writes'
      BY Zenon
    <3>4. /\ \A w : In(ws, w) => w.op = "WriteBlock"
          /\ \A op : Has(ws, op) => op = "WriteBlock"
      <4>1. CASE ws = <<>>
        BY <4>1, EmptyWrites, Zenon
      <4>2. CASE ws = blockWrites(b) /\ ~isBetter(b)
        <5> DEFINE w == write("WriteBlock", b)
        <5>1. ws = <<w>>
          BY <4>2, Zenon DEF blockWrites
        <5>2. w \in WriteRec /\ w.op = "WriteBlock"
          BY DEF write, writeTxs, WriteRec, Nodes
        <5> HIDE DEF w
        <5> QED BY <5>1, <5>2, SingleWrite, Zenon
      <4> QED BY <2>7, <3>3, <4>1, <4>2, Zenon DEF WriteBlockWithState
    <3>5. Goal(ws, currentBlock) = currentBlock
      BY <3>4, Zenon DEF Goal
    <3>6. Leads(blocks, canonical, ws, currentBlock)
      BY <2>5, <3>4, Zenon DEF Leads, Agrees
    <3>7. Follows(blocks, canonical, ws, currentBlock, headBlock)
          /\ Follows(blocks, canonical, ws, currentBlock, headHeader)
      BY <2>5, <3>4, Zenon DEF Follows, Agrees
    <3>8. RunNumbers(blocks, canonical, ws, currentBlock, headBlock, headHeader, S)
      BY <3>2, <3>5, <3>6, <3>7, Zenon DEF RunNumbers
    <3> QED BY <1>1, <1>4, <2>2, <2>4, <3>3, <3>8, Zenon DEF Numbering
  <2>8. CASE isBetter(b) /\ ~reorgFails(b)
    <3>1. PICK ws : ws = writes'
      OBVIOUS
    <3>2. ws = blockWrites(b)
      BY <1>4, <2>8, <3>1, Zenon DEF WriteBlockWithState
    <3>3. Advances(ws, b)
      BY <2>8, <3>2, BlockWritesFacts, Zenon DEF Shape, Nodes
    <3>4. Has(ws, "WriteHeadBlockHash") /\ Goal(ws, currentBlock) = b
      BY <3>3, Zenon DEF Advances, EndsWith, Has, Goal
    <3>5. Leads(blocks, canonical, ws, b)
      <4>1. ASSUME NEW w, In(ws, w) PROVE w.block \in PathIn(blocks, b)
        BY <3>3, <4>1, Zenon DEF Advances
      <4>2. ASSUME NEW x \in PathIn(blocks, b), canonical[blocks[x].number] # x
            PROVE  \E w : In(ws, w) /\ w.op = "WriteCanonicalHash" /\ w.block = x
        <5>1. x \notin PathIn(blocks, currentBlock)
          BY <2>5, <4>2, Zenon DEF Agrees
        <5>2. In(ws, write("WriteCanonicalHash", x))
          BY <3>3, <5>1, Zenon DEF Advances
        <5> QED BY <5>2 DEF write, writeTxs
      <4> QED BY <4>1, <4>2, Zenon DEF Leads
    <3>6. Has(ws, "WriteHeadHeaderHash") \/ Follows(blocks, canonical, ws, b, headHeader)
      <4>1. SUFFICES ASSUME ~Has(ws, "WriteHeadHeaderHash")
                     PROVE  Follows(blocks, canonical, ws, b, headHeader)
        BY Zenon
      <4>2. ASSUME NEW x \in PathIn(blocks, headHeader), x \notin PathIn(blocks, b),
                   NEW w, In(ws, w), w.op = "WriteCanonicalHash",
                   blocks[w.block].number = blocks[x].number
            PROVE  FALSE
        <5>1. w.block \in PathIn(blocks, b) /\ canonical[blocks[w.block].number] = w.block
          BY <3>3, <4>1, <4>2 DEF Advances, notCanonical, number
        <5>2. canonical[blocks[x].number] = x
          BY <2>5, <4>2, Zenon DEF Agrees
        <5> QED BY <4>2, <5>1, <5>2
      <4>3. \A x \in PathIn(blocks, headHeader) : canonical[blocks[x].number] = x
        BY <2>5, Zenon DEF Agrees
      <4> QED BY <4>2, <4>3, Zenon DEF Follows
    <3>7. RunNumbers(blocks, canonical, ws, currentBlock, headBlock, headHeader, S)
      BY <3>4, <3>5, <3>6, Zenon DEF RunNumbers
    <3> QED BY <1>1, <1>4, <2>2, <2>4, <3>1, <3>7 DEF Numbering
  <2> QED BY <2>7, <2>8, Zenon
<1> QED BY <1>2, <1>3, <1>4, Zenon DEF WriteBlockWithState, Shape

\* The head there will be is in the tree.
LEMMA GoalNode ==
    ASSUME Shape, Roots
    PROVE  Goal(writes, currentBlock) \in 1 .. Len(blocks)
<1>1. CASE Has(writes, "WriteHeadBlockHash")
  <2>1. EndsWith(writes, "WriteHeadBlockHash", Last(writes).block)
    BY <1>1, Zenon DEF Roots
  <2>2. \E w : In(writes, w) /\ w.block = Last(writes).block
    BY <2>1, Zenon DEF EndsWith, In
  <2> QED BY <1>1, <2>2, Zenon DEF Goal, Shape, Nodes
<1>2. CASE ~Has(writes, "WriteHeadBlockHash")
  BY <1>2, Zenon DEF Goal, Shape, Nodes
<1> QED BY <1>1, <1>2, Zenon

\* repair stays at a block it accepts.
LEMMA RepairedSelf ==
    ASSUME NEW bs, Tree(bs), NEW T \in 1 .. Len(bs), NEW S
    PROVE  Repaired(bs, S, T, T)
<1>1. \A x \in PathIn(bs, T) : x \in 1 .. Len(bs) /\ bs[x].number \in Nat
                               /\ (x # T => bs[x].number < bs[T].number)
  BY AncestorsAreBelow, PathIds, BlockType, Zenon DEF AncestorsBelow, Block
<1>2. T \in PathIn(bs, T) /\ bs[T].number \in Nat
  BY AncestorsAreBelow, BlockType, Zenon DEF AncestorsBelow, Block
<1> QED BY <1>1, <1>2 DEF Repaired

\* One write of the database keeps Numbering.
LEMMA NumberingWrite ==
    ASSUME Shape, Roots, Roots', Numbering, Write
    PROVE  Numbering'
<1> DEFINE w == Head(writes)
           T == Goal(writes, currentBlock)
           S == inMemory \cup onDisk
<1>1. PICK ws2, can2, cb2, hb2, hh2 : ws2 = writes' /\ can2 = canonical' /\ cb2 = currentBlock'
                                   /\ hb2 = headBlock' /\ hh2 = headHeader'
  BY Zenon
<1>2. writes # <<>> /\ writes \in Seq(WriteRec) /\ ws2 = Tail(writes) /\ status = "running"
  BY <1>1, Zenon DEF Write, Shape
<1>3. \A v : In(writes, v) <=> v = w \/ In(ws2, v)
  BY <1>2, TailFacts, Zenon
<1>4. Tree(blocks) /\ \A x \in 1 .. Len(blocks) : blocks[x].number \in DOMAIN canonical
  <2>1. DOMAIN canonical = 0 .. world.blocks /\ Tree(blocks)
    BY Zenon DEF Shape
  <2> QED BY <2>1, NumberIndex, Zenon DEF num, Nodes
<1>5. Renumbers(blocks, canonical, can2, writes, ws2, w)
  <2>1. can2 = IF w.op = "WriteCanonicalHash"
               THEN [canonical EXCEPT ![blocks[w.block].number] = w.block] ELSE canonical
    BY <1>1, Zenon DEF Write, number
  <2> QED BY <1>3, <1>4, <2>1, Zenon DEF Renumbers
<1>6. UNCHANGED <<blocks, status, inMemory, onDisk, keep, crashed>>
  BY Zenon DEF Write, bounds, history
<1>7. Goal(ws2, cb2) = T
  <2>1. UNCHANGED Abstract
    BY ForkWrite, Zenon
  <2> QED BY <1>1, <2>1, Zenon DEF Abstract
<1>8. T \in 1 .. Len(blocks)
  BY GoalNode, Zenon
<1>9. /\ IF w.op = "WriteHeadBlockHash" THEN hb2 = w.block /\ cb2 = w.block
         ELSE hb2 = headBlock /\ cb2 = currentBlock
      /\ IF w.op = "WriteHeadHeaderHash" THEN hh2 = w.block ELSE hh2 = headHeader
  BY <1>1, Zenon DEF Write
<1>10. headHeader = currentHeader => headHeader' = currentHeader'
  BY DEF Write
<1>11. headBlock \in 1 .. Len(blocks) /\ headHeader \in 1 .. Len(blocks)
  BY Zenon DEF Shape, Nodes
<1>12. \A op : Has(writes, op) <=> w.op = op \/ Has(ws2, op)
  BY <1>3, HasIn, Zenon
<1> HIDE DEF w, T, S
<1>13. SUFFICES ASSUME RunNumbers(blocks, canonical, writes, currentBlock, headBlock, headHeader, S)
                PROVE  RunNumbers(blocks, can2, ws2, cb2, hb2, hh2, S)
  BY <1>1, <1>2, <1>6, <1>10 DEF Numbering, S
<1>14. Leads(blocks, canonical, writes, T)
  BY <1>13, Zenon DEF RunNumbers, T
<1>15. Leads(blocks, can2, ws2, T)
  BY <1>5, <1>8, <1>14, RenumberLeads, Zenon
<1>16. ASSUME ~Has(ws2, "WriteHeadBlockHash")
       PROVE  Follows(blocks, can2, ws2, T, hb2) /\ Repaired(blocks, S, hb2, cb2)
  <2>1. CASE w.op = "WriteHeadBlockHash"
    <3>1. cb2 = T /\ hb2 = T
      BY <1>7, <1>9, <1>16, <2>1, Zenon DEF Goal
    <3>2. T \in PathIn(blocks, T)
      BY <1>4, <1>8, AncestorsAreBelow, Zenon DEF AncestorsBelow
    <3>3. Follows(blocks, can2, ws2, T, T)
      BY <1>4, <1>8, <3>2, FollowsAncestor, Zenon
    <3>4. Repaired(blocks, S, T, T)
      BY <1>4, <1>8, RepairedSelf, Zenon
    <3> QED BY <3>1, <3>3, <3>4, Zenon
  <2>2. CASE w.op # "WriteHeadBlockHash"
    <3>1. Follows(blocks, canonical, writes, T, headBlock) /\ Repaired(blocks, S, headBlock, currentBlock)
      BY <1>12, <1>13, <1>16, <2>2, Zenon DEF RunNumbers, T
    <3>2. Follows(blocks, can2, ws2, T, headBlock)
      BY <1>5, <1>11, <3>1, RenumberFollows, Zenon
    <3> QED BY <1>9, <2>2, <3>1, <3>2, Zenon
  <2> QED BY <2>1, <2>2, Zenon
<1>17. ASSUME ~Has(ws2, "WriteHeadHeaderHash")
       PROVE  Follows(blocks, can2, ws2, T, hh2)
  <2>1. CASE w.op = "WriteHeadHeaderHash"
    <3>1. hh2 \in PathIn(blocks, T)
      BY <1>3, <1>9, <1>14, <2>1 DEF Leads
    <3> QED BY <1>4, <1>8, <3>1, FollowsAncestor, Zenon
  <2>2. CASE w.op # "WriteHeadHeaderHash"
    <3>1. Follows(blocks, canonical, writes, T, headHeader)
      BY <1>12, <1>13, <1>17, <2>2, Zenon DEF RunNumbers, T
    <3>2. Follows(blocks, can2, ws2, T, headHeader)
      BY <1>5, <1>11, <3>1, RenumberFollows, Zenon
    <3> QED BY <1>9, <2>2, <3>2, Zenon
  <2> QED BY <2>1, <2>2, Zenon
<1> QED BY <1>7, <1>15, <1>16, <1>17 DEF RunNumbers

\* Stop keeps Numbering: the states it flushes are those repair looks for.
LEMMA NumberingStop ==
    ASSUME Shape, Roots, Numbering, Stop
    PROVE  Numbering'
<1>1. /\ UNCHANGED <<blocks, stored, canonical, headBlock, headHeader, currentBlock, currentHeader, crashed>>
      /\ status = "running" /\ status' = "down" /\ writes = <<>> /\ inMemory' = {}
      /\ onDisk' = onDisk \cup (recentStates \cap inMemory)
      /\ keep' = IF HasState(currentBlock) THEN currentBlock ELSE 0
  BY Zenon DEF Stop, Down
<1>2. SUFFICES ASSUME ~crashed PROVE Numbering'
  BY <1>1, Zenon DEF Numbering
<1>3. RunNumbers(blocks, canonical, <<>>, currentBlock, headBlock, headHeader, inMemory \cup onDisk)
  BY <1>1, <1>2, Zenon DEF Numbering
<1>4. /\ Agrees(blocks, canonical, currentBlock) /\ Agrees(blocks, canonical, headBlock)
      /\ Agrees(blocks, canonical, headHeader)
      /\ Repaired(blocks, inMemory \cup onDisk, headBlock, currentBlock)
  BY <1>3, RunIdle, Zenon
<1>5. headBlock \in stored
  BY <1>1, EmptyWrites, Zenon DEF Roots, Held
<1>6. Repaired(blocks, onDisk', headBlock, currentBlock)
  BY <1>1, <1>4 DEF Repaired
<1>7. HasState(currentBlock) => currentBlock \in onDisk'
  <2>1. SUFFICES ASSUME currentBlock \in inMemory PROVE currentBlock \in onDisk'
    BY <1>1, Zenon DEF HasState
  <2>2. Tree(blocks) /\ currentBlock \in 1 .. Len(blocks) /\ num(currentBlock) \in Nat
    BY Numbers, Zenon DEF Shape, Nodes
  <2>3. currentBlock \in PathIn(blocks, currentBlock) /\ 1 \in PathIn(blocks, currentBlock)
    BY <2>2, AncestorsAreBelow, Zenon DEF AncestorsBelow
  <2>4. CASE num(currentBlock) = 0
    <3>1. blocks[1].number = 0
      BY <2>2, Zenon DEF Tree
    <3>2. currentBlock = 1
      BY <2>2, <2>3, <2>4, <3>1, AncestorsNumbered DEF OneOfEachNumber, num
    <3> QED BY <1>1, <3>2, Zenon DEF Shape
  <2>5. CASE num(currentBlock) # 0
    <3>1. num(currentBlock) > 0 /\ num(currentBlock) - 0 = num(currentBlock)
      BY <2>2, <2>5
    <3>2. canonical[num(currentBlock) - 0] = currentBlock
      BY <1>4, <2>3, <3>1, Zenon DEF Agrees, num
    <3>3. currentBlock \in recentStates
      BY <3>1, <3>2, Zenon DEF recentStates, num, number
    <3> QED BY <1>1, <2>1, <3>3, Zenon
  <2> QED BY <2>4, <2>5, Zenon
<1> QED BY <1>1, <1>2, <1>4, <1>5, <1>6, <1>7 DEF Numbering

\* Start keeps Numbering: the head it repairs to is an ancestor of the stored one.
LEMMA NumberingStart ==
    ASSUME Shape, Numbering, Start
    PROVE  Numbering'
<1>1. /\ UNCHANGED <<blocks, stored, canonical, headBlock, onDisk, inMemory, writes, keep, crashed>>
      /\ status = "down" /\ writes = <<>> /\ headHeader' = currentHeader'
      /\ status' \in {"running", "dead"}
      /\ status' = "running" => /\ currentBlock' = repair(headBlock)
                                /\ headHeader' \in {headHeader, repair(headBlock)}
  BY Zenon DEF Start, bounds, history, Shape
<1>2. SUFFICES ASSUME ~crashed, status' = "running" PROVE Numbering'
  BY <1>1, Zenon DEF Numbering
<1>3. Agrees(blocks, canonical, headBlock) /\ Agrees(blocks, canonical, headHeader) /\ inMemory = {}
  BY <1>1, <1>2, Zenon DEF Numbering
<1>4. Tree(blocks) /\ headBlock \in Nodes /\ headBlock \in 1 .. Len(blocks)
  BY DEF Shape, Nodes
<1>5. /\ repair(headBlock) \in PathIn(blocks, headBlock)
      /\ \A y \in PathIn(blocks, headBlock) : y \in onDisk => num(y) <= num(repair(headBlock))
  BY <1>4, RepairFacts, Zenon
<1>6. Agrees(blocks, canonical, repair(headBlock))
  BY <1>3, <1>4, <1>5, AgreesAncestor, Zenon
<1>7. Repaired(blocks, inMemory \cup onDisk, headBlock, repair(headBlock))
  BY <1>3, <1>5, Zenon DEF Repaired, num
<1>8. PICK hh : hh = headHeader'
  BY Zenon
<1>9. RunNumbers(blocks, canonical, <<>>, repair(headBlock), headBlock, hh, inMemory \cup onDisk)
  BY <1>1, <1>2, <1>3, <1>6, <1>7, <1>8, RunIdle
<1> QED BY <1>1, <1>2, <1>8, <1>9, Zenon DEF Numbering

\* SetHead keeps Numbering: the numbers it deletes are above the new head.
LEMMA NumberingSetHead ==
    ASSUME Shape, Numbering, NEW n \in 0 .. world.blocks, SetHead(n)
    PROVE  Numbering'
<1> DEFINE h == rewoundHeader(n)
           r == rewoundBlock(h)
<1>1. /\ UNCHANGED <<blocks, onDisk, inMemory, writes, keep, crashed>>
      /\ n \in Nat /\ status = "running" /\ writes = <<>> /\ status' \in {"running", "locked"}
      /\ canonical' = [i \in DOMAIN canonical |->
             IF i > n /\ i <= num(currentHeader) THEN 0 ELSE canonical[i]]
      /\ currentHeader' = h /\ headHeader' = h /\ currentBlock' = r /\ headBlock' = r
  BY SetHeadStep, Zenon
<1>2. SUFFICES ASSUME ~crashed PROVE Numbering'
  BY <1>1, Zenon DEF Numbering
<1>3. RunNumbers(blocks, canonical, <<>>, currentBlock, headBlock, headHeader, inMemory \cup onDisk)
      /\ headHeader = currentHeader
  BY <1>1, <1>2, Zenon DEF Numbering
<1>4. Agrees(blocks, canonical, currentBlock) /\ Agrees(blocks, canonical, currentHeader)
  BY <1>3, RunIdle, Zenon
<1>5. h \in PathIn(blocks, currentHeader) /\ h \in Nodes /\ num(h) <= n
  BY <1>1, RewoundHeaderFacts, Zenon
<1>6. r \in {h, currentBlock, 1} /\ num(r) <= num(h) /\ r \in Nodes
  BY <1>5, RewoundBlockFacts, Zenon
<1> HIDE DEF h, r
<1>7. Tree(blocks) /\ currentBlock \in 1 .. Len(blocks) /\ currentHeader \in 1 .. Len(blocks)
      /\ num(h) \in Nat /\ num(r) \in Nat
  BY <1>5, <1>6, Numbers, Zenon DEF Shape, Nodes
<1>8. 1 \in PathIn(blocks, currentBlock)
  BY <1>7, AncestorsAreBelow, Zenon DEF AncestorsBelow
<1>9. Agrees(blocks, canonical, h) /\ Agrees(blocks, canonical, 1)
  BY <1>4, <1>5, <1>7, <1>8, AgreesAncestor
<1>10. PICK can2 : can2 = canonical'
  BY Zenon
<1>11. ASSUME NEW y \in Nodes, num(y) <= n, Agrees(blocks, canonical, y)
       PROVE  Agrees(blocks, can2, y)
  <2>1. ASSUME NEW x \in PathIn(blocks, y) PROVE can2[num(x)] = x
    <3>1. x \in Nodes /\ (x # y => num(x) < num(y))
      BY <1>7, PathIds, AncestorsAreBelow, Zenon DEF AncestorsBelow, num, Nodes
    <3>2. num(x) \in 0 .. world.blocks /\ num(y) \in Nat
      BY <3>1, NumberIndex, Numbers, <1>7, Zenon DEF Nodes
    <3>3. ~(num(x) > n)
      BY <1>1, <1>11, <3>1, <3>2
    <3>4. DOMAIN canonical = 0 .. world.blocks
      BY DEF Shape
    <3>5. can2[num(x)] = canonical[num(x)]
      BY <1>1, <1>10, <3>2, <3>3, <3>4, Zenon
    <3> QED BY <1>11, <3>5, Zenon DEF Agrees, num
  <2> QED BY <2>1, Zenon DEF Agrees, num
<1>12. Agrees(blocks, can2, h) /\ Agrees(blocks, can2, r)
  BY <1>1, <1>4, <1>5, <1>6, <1>7, <1>9, <1>11
<1>13. Repaired(blocks, inMemory \cup onDisk, r, r)
  BY <1>6, <1>7, RepairedSelf, Zenon DEF Nodes
<1>14. RunNumbers(blocks, can2, <<>>, r, r, h, inMemory \cup onDisk)
  BY <1>12, <1>13, RunIdle, Zenon
<1> QED BY <1>1, <1>2, <1>10, <1>14 DEF Numbering

\* Every step keeps Numbering.
LEMMA NumberingNext == Shape /\ Roots /\ Roots' /\ Numbering /\ [Next]_vars => Numbering'
<1> SUFFICES ASSUME Shape, Roots, Roots', Numbering, [Next]_vars PROVE Numbering'
  OBVIOUS
<1>1. ASSUME NEW p \in Ids, NEW d \in Difficulties, NEW t \in Tx \cup {NoTx}, CreateBlock(p, d, t)
      PROVE  Numbering'
  BY <1>1, NumberingCreate
<1>2. ASSUME NEW b \in Ids, InsertChain(b) PROVE Numbering'
  BY <1>2, NumberingInsertChain, Zenon
<1>3. ASSUME NEW flush \in BOOLEAN, ImportBlock(flush) PROVE Numbering'
  <2>1. blocks[Head(importing)].parent \in stored
        /\ blocks[Head(importing)].parent \in inMemory \cup onDisk
    BY <1>3, Zenon DEF ImportBlock, parent, HasState
  <2> QED BY <1>3, <2>1, ShapeImportBlock, NumberingWriteBlock, Zenon
<1>4. CASE ImportFails
  BY <1>4, Zenon DEF Numbering, ImportFails, database, memory, bounds, history
<1>5. ASSUME NEW b \in Ids, NEW flush \in BOOLEAN, WriteMinedBlock(b, flush) PROVE Numbering'
  <2>1. blocks[b].parent \in stored /\ blocks[b].parent \in inMemory \cup onDisk
    BY <1>5 DEF WriteMinedBlock, parent, HasState
  <2> QED BY <1>5, <2>1, ShapeMined, NumberingWriteBlock, Zenon
<1>6. CASE Write
  BY <1>6, NumberingWrite
<1>7. CASE Stop
  BY <1>7, NumberingStop, Zenon
<1>8. CASE Crash
  BY <1>8 DEF Crash, Numbering
<1>9. CASE Start
  BY <1>9, NumberingStart
<1>10. ASSUME NEW n \in 0 .. world.blocks, SetHead(n) PROVE Numbering'
  BY <1>10, NumberingSetHead, Zenon
<1>11. CASE UNCHANGED vars
  BY <1>11 DEF vars, database, memory, bounds, history, Numbering
<1> QED BY <1>1, <1>2, <1>3, <1>4, <1>5, <1>6, <1>7, <1>8, <1>9, <1>10, <1>11 DEF Next

(* A node that was stopped, and never crashed, comes up with the head it was
   stopped at, however often it was stopped, started and rewound. *)
THEOREM StoppedHeadIsKept == Spec => StopKeepsHead
<1> DEFINE Inv == Shape /\ Roots /\ Numbering
<1>1. Init => Inv
  BY ShapeInit, RootsInit, NumberingInit, Zenon
<1>2. Inv /\ [Next]_vars => Inv'
  BY ShapeNext, RootsNext, NumberingNext, Zenon
<1>3. Inv /\ [Next]_vars => [status = "down" /\ status' # "down" /\ keep # 0 /\ ~crashed =>
                                status' = "running" /\ currentBlock' = keep]_vars
  <2> SUFFICES ASSUME Inv, Next, status = "down", status' # "down", keep # 0, ~crashed
               PROVE  status' = "running" /\ currentBlock' = keep
    BY  DEF vars
  <2>1. Start
    BY Zenon DEF Next, CreateBlock, InsertChain, Idle, ImportBlock, ImportFails, WriteMinedBlock, Write,
           Stop, Crash, SetHead
  <2>2. headBlock \in stored /\ keep \in onDisk /\ Repaired(blocks, onDisk, headBlock, keep)
    BY DEF Numbering
  <2>3. status' = "running" /\ currentBlock' = repair(headBlock)
    BY <2>1, <2>2, Zenon DEF Start
  <2>4. Tree(blocks) /\ headBlock \in Nodes /\ headBlock \in 1 .. Len(blocks)
    BY DEF Shape, Nodes
  <2> DEFINE r == repair(headBlock)
             P == PathIn(blocks, headBlock)
  <2>5. r \in P /\ r \in onDisk /\ \A y \in P : y \in onDisk => num(y) <= num(r)
    BY <2>4, RepairFacts, Zenon
  <2>6. keep \in P /\ num(keep) <= num(r) /\ num(r) <= num(keep)
    BY <2>2, <2>5, Zenon DEF Repaired, num
  <2>7. num(keep) \in Nat /\ num(r) \in Nat
    BY <2>4, <2>5, <2>6, PathIds, Numbers, Zenon
  <2>8. num(keep) = num(r)
    BY <2>6, <2>7
  <2>9. keep = r
    BY <2>4, <2>5, <2>6, <2>8, AncestorsNumbered DEF OneOfEachNumber, num
  <2> QED BY <2>3, <2>9, Zenon
<1> QED BY <1>1, <1>2, <1>3, PTL DEF Spec, StopKeepsHead

-----------------------------------------------------------------------------
(* Views: before the first stop and the first rewind, the writes lead the head
   header and the transaction lookup to T as well. *)

Beats(bs, x, h) == \/ bs[x].td > bs[h].td
                   \/ bs[x].td = bs[h].td /\ bs[x].number > bs[h].number

\* A transaction is on a branch at most once.
TxOnce(bs) ==
    \A b \in 1 .. Len(bs) : \A x, y \in PathIn(bs, b) :
        bs[x].tx = bs[y].tx /\ bs[x].tx # NoTx => x = y

\* No canonical block beats T, and the last head header written is T's.
HeaderLeads(bs, can, ws, T, H) ==
    /\ \A n \in DOMAIN can : can[n] # 0 => ~Beats(bs, can[n], T)
    /\ IF Has(ws, "WriteHeadHeaderHash") THEN EndsWith(ws, "WriteHeadHeaderHash", T) ELSE H = T

\* t is found in the ancestor of T that has it, if there is one.
Found(bs, lk, T, t) ==
    IF \E x \in PathIn(bs, T) : bs[x].tx = t
    THEN lk[t] \in PathIn(bs, T) /\ bs[lk[t]].tx = t
    ELSE lk[t] = 0

LookupLeads(bs, lk, ws, T) ==
    \A t \in Tx :
        /\ \A w : In(ws, w) /\ t \in w.txs =>
              IF w.op = "DeleteTxLookupEntries" THEN \A x \in PathIn(bs, T) : bs[x].tx # t
              ELSE w.block \in PathIn(bs, T) /\ bs[w.block].tx = t
        /\ \/ \E w : In(ws, w) /\ t \in w.txs
           \/ Found(bs, lk, T, t)

Views ==
    /\ TxOnce(blocks)
    /\ stops = 0 => status # "down" /\ ~crashed
    /\ status = "running" /\ stops = 0 /\ rewinds = 0 =>
          /\ HeaderLeads(blocks, canonical, writes, Goal(writes, currentBlock), currentHeader)
          /\ LookupLeads(blocks, lookup, writes, Goal(writes, currentBlock))

\* Views holds of a fresh database.
LEMMA ViewsInit == Init => Views
<1> SUFFICES ASSUME Init PROVE Views
  OBVIOUS
<1>1. Tree(blocks) /\ Len(blocks) = 1 /\ 1 \in 1 .. Len(blocks) /\ blocks[1].number = 0
  BY GenesisTree DEF Init
<1>2. PathIn(blocks, 1) = {1}
  BY <1>1, PathStep
<1>3. TxOnce(blocks)
  BY <1>1, <1>2 DEF TxOnce
<1>4. blocks[1].td = 0 /\ blocks[1].tx = NoTx
  BY DEF Init
<1>5. ~Beats(blocks, 1, 1)
  BY <1>1, <1>4 DEF Beats
<1>6. \A n \in DOMAIN canonical : canonical[n] \in {0, 1}
  BY DEF Init
<1>7. HeaderLeads(blocks, canonical, <<>>, 1, 1)
  BY <1>5, <1>6, EmptyWrites, Zenon DEF HeaderLeads
<1>8. \A t \in Tx : Found(blocks, lookup, 1, t)
  <2>1. \A t \in Tx : t # NoTx /\ lookup[t] = 0
    BY ChainAssumption, Zenon DEF Init
  <2> QED BY <1>2, <1>4, <2>1, Zenon DEF Found
<1>9. LookupLeads(blocks, lookup, <<>>, 1)
  BY <1>8, EmptyWrites, Zenon DEF LookupLeads
<1>10. Goal(writes, currentBlock) = 1
  BY NoWrites, Zenon DEF Init
<1> QED BY <1>3, <1>7, <1>9, <1>10, Zenon DEF Views, Init

\* CreateBlock keeps Views: the new block repeats no transaction of its branch.
LEMMA ViewsCreate ==
    ASSUME Shape, Views, NEW p \in Ids, NEW d \in Difficulties, NEW t \in Tx \cup {NoTx},
           CreateBlock(p, d, t)
    PROVE  Views'
<1>1. PICK cs : cs = blocks'
  OBVIOUS
<1>2. Grows(blocks, cs)
  BY <1>1, CreateGrows, Zenon
<1>3. UNCHANGED <<canonical, lookup, writes, currentBlock, currentHeader, status, stops, rewinds, crashed>>
      /\ writes = <<>>
  BY Zenon DEF CreateBlock, database, memory, bounds, history
<1>4. /\ Len(cs) = Len(blocks) + 1 /\ cs[Len(blocks) + 1].parent = p /\ cs[Len(blocks) + 1].tx = t
      /\ Len(blocks) \in Nat /\ Tree(blocks) /\ Tree(cs) /\ \A x \in 1 .. Len(blocks) : cs[x] = blocks[x]
  <2>1. Len(cs) = Len(blocks) + 1 /\ cs[Len(blocks) + 1].parent = p /\ cs[Len(blocks) + 1].tx = t
    BY <1>1, ShapeCreate, Zenon
  <2> QED BY <1>2, <2>1 DEF Grows, Tree
<1>5. p \in 1 .. Len(blocks) /\ currentBlock \in 1 .. Len(blocks)
  BY DEF Shape, Ids, Nodes
<1>6. ASSUME NEW h \in 1 .. Len(blocks)
      PROVE  /\ PathIn(cs, h) = PathIn(blocks, h)
             /\ \A x \in PathIn(blocks, h) : x \in 1 .. Len(blocks) /\ cs[x] = blocks[x]
  BY <1>2, GrowsPath, Zenon
<1>7. TxOnce(cs)
  <2>1. ASSUME NEW b \in 1 .. Len(cs), NEW x \in PathIn(cs, b), NEW y \in PathIn(cs, b),
               cs[x].tx = cs[y].tx, cs[x].tx # NoTx
        PROVE  x = y
    <3>1. CASE b \in 1 .. Len(blocks)
      <4>1. x \in PathIn(blocks, b) /\ y \in PathIn(blocks, b) /\ cs[x] = blocks[x] /\ cs[y] = blocks[y]
        BY <1>6, <2>1, <3>1, Zenon
      <4> QED BY <2>1, <3>1, <4>1, Zenon DEF Views, TxOnce
    <3>2. CASE b = Len(blocks) + 1
      <4>1. PathIn(cs, b) = {b} \cup PathIn(cs, p)
        BY <1>4, <1>5, <3>2, PathStep
      <4>2. PathIn(cs, p) = PathIn(blocks, p) /\ \A z \in PathIn(blocks, p) : cs[z] = blocks[z]
        BY <1>5, <1>6, Zenon
      <4>3. t # NoTx => \A z \in PathIn(blocks, p) : blocks[z].tx # t
        BY PathIsPathIn, Zenon DEF CreateBlock, TxOf
      <4>4. cs[b].tx = t
        BY <1>4, <3>2, Zenon
      <4>5. \A z \in PathIn(cs, p) : cs[z].tx = t => t = NoTx
        BY <4>2, <4>3, Zenon
      <4>6. x \in PathIn(cs, p) /\ y \in PathIn(cs, p) => x = y
        BY <1>5, <2>1, <4>2, Zenon DEF Views, TxOnce
      <4> QED BY <2>1, <4>1, <4>4, <4>5, <4>6, Zenon
    <3> QED BY <1>4, <3>1, <3>2
  <2> QED BY <2>1, Zenon DEF TxOnce
<1>8. Goal(writes, currentBlock) = currentBlock
  BY <1>3, NoWrites
<1>9. HeaderLeads(blocks, canonical, writes, currentBlock, currentHeader)
        => HeaderLeads(cs, canonical, writes, currentBlock, currentHeader)
  <2>1. \A n \in DOMAIN canonical : canonical[n] # 0 => canonical[n] \in 1 .. Len(blocks)
    BY <1>4 DEF Shape
  <2>2. \A x \in 1 .. Len(blocks) : Beats(cs, x, currentBlock) <=> Beats(blocks, x, currentBlock)
    BY <1>4, <1>5, Zenon DEF Beats
  <2> QED BY <2>1, <2>2, Zenon DEF HeaderLeads
<1>10. LookupLeads(blocks, lookup, writes, currentBlock) => LookupLeads(cs, lookup, writes, currentBlock)
  <2>1. PathIn(cs, currentBlock) = PathIn(blocks, currentBlock)
        /\ \A x \in PathIn(blocks, currentBlock) : cs[x] = blocks[x]
    BY <1>5, <1>6, Zenon
  <2>2. \A k \in Tx : Found(blocks, lookup, currentBlock, k) => Found(cs, lookup, currentBlock, k)
    BY <2>1, Zenon DEF Found
  <2> QED BY <1>3, <2>2, EmptyWrites, Zenon DEF LookupLeads
<1> QED BY <1>1, <1>3, <1>7, <1>8, <1>9, <1>10 DEF Views

\* InsertChain keeps Views.
LEMMA ViewsInsertChain ==
    ASSUME Views, NEW b \in Ids, InsertChain(b)
    PROVE  Views'
<1>1. UNCHANGED <<blocks, canonical, lookup, writes, currentBlock, currentHeader, stops, rewinds, crashed>>
      /\ status = "running" /\ status' \in {"running", "lost"}
  BY DEF InsertChain, memory, bounds, history, Idle
<1> QED BY <1>1, Zenon DEF Views

\* The writes of a better block end with its header: insert finds a lower or no block at
\* its number.
LEMMA HeaderAdvances ==
    ASSUME Shape, NEW b \in Nodes, isBetter(b), NEW ws, Advances(ws, b),
           HeaderLeads(blocks, canonical, <<>>, currentBlock, currentHeader)
    PROVE  HeaderLeads(blocks, canonical, ws, b, currentHeader)
<1>1. Tree(blocks) /\ b \in 1 .. Len(blocks) /\ currentBlock \in 1 .. Len(blocks)
  BY Zenon DEF Shape, Nodes
<1>2. Beats(blocks, b, currentBlock)
  BY Zenon DEF isBetter, td, number, Beats
<1>3. \A x \in 1 .. Len(blocks) : blocks[x].td \in Nat /\ blocks[x].number \in Nat
  BY <1>1, Numbers, Zenon DEF num
<1>4. ASSUME NEW x \in 1 .. Len(blocks), ~Beats(blocks, x, currentBlock) PROVE ~Beats(blocks, x, b)
  BY <1>1, <1>2, <1>3, <1>4 DEF Beats
<1>5. DOMAIN canonical = 0 .. world.blocks
      /\ \A n \in DOMAIN canonical : canonical[n] # 0 => canonical[n] \in 1 .. Len(blocks)
  <2>1. canonical \in [0 .. world.blocks -> 0 .. Len(blocks)] /\ Len(blocks) \in Nat
    BY DEF Shape, Tree
  <2> QED BY <2>1
<1>6. \A n \in DOMAIN canonical : canonical[n] # 0 => ~Beats(blocks, canonical[n], b)
  BY <1>4, <1>5, Zenon DEF HeaderLeads
<1>7. notCanonical(b)
  <2>1. num(b) \in DOMAIN canonical
    BY <1>5, NumberIndex, Zenon
  <2>2. canonical[num(b)] # b
    BY <1>1, <1>2, <2>1 DEF HeaderLeads
  <2> QED BY <2>2 DEF notCanonical, num, number
<1>8. EndsWith(ws, "WriteHeadHeaderHash", b)
  BY <1>7, Zenon DEF Advances
<1>9. Has(ws, "WriteHeadHeaderHash")
  BY <1>8 DEF EndsWith, Has
<1> QED BY <1>6, <1>8, <1>9, Zenon DEF HeaderLeads

\* ws takes the transaction index from the branch Q to the branch P.
MovesTxs(ws, P, Q) ==
    /\ \A w, t : In(ws, w) /\ t \in w.txs =>
          IF w.op = "DeleteTxLookupEntries" THEN Carries(Q \ P, t) /\ ~Carries(P \ Q, t)
          ELSE w.block \in P /\ blocks[w.block].tx = t
    /\ \A t : Carries(Q \ P, t) \/ Carries(P \ Q, t) => \E w : In(ws, w) /\ t \in w.txs

\* The writes of a better block move the transactions that only one of the branches has.
LEMMA AdvancesTxs ==
    ASSUME NEW b, NEW ws, Advances(ws, b)
    PROVE  MovesTxs(ws, PathIn(blocks, b), PathIn(blocks, currentBlock))
<1> DEFINE P == PathIn(blocks, b)
           Q == PathIn(blocks, currentBlock)
<1>1. \A w : In(ws, w) =>
         /\ w.block \in P
         /\ \A t \in w.txs : IF w.op = "DeleteTxLookupEntries"
                             THEN Carries(Q \ P, t) /\ ~Carries(P \ Q, t)
                             ELSE blocks[w.block].tx = t
  BY Zenon DEF Advances
<1>2. \A t : Carries(Q \ P, t) \/ Carries(P \ Q, t) => \E w : In(ws, w) /\ t \in w.txs
  BY Zenon DEF Advances
<1> HIDE DEF P, Q
<1>3. MovesTxs(ws, P, Q)
  BY <1>1, <1>2, Zenon DEF MovesTxs
<1> QED BY <1>3 DEF P, Q

\* The writes of a better block take the transaction index to its branch.
LEMMA LookupAdvances ==
    ASSUME Shape, TxOnce(blocks), NEW b \in Nodes, NEW ws, Advances(ws, b),
           LookupLeads(blocks, lookup, <<>>, currentBlock)
    PROVE  LookupLeads(blocks, lookup, ws, b)
<1> DEFINE P == PathIn(blocks, b)
           Q == PathIn(blocks, currentBlock)
<1>1. currentBlock \in 1 .. Len(blocks)
  BY DEF Shape, Nodes
<1>3. MovesTxs(ws, P, Q)
  BY AdvancesTxs, Zenon
<1>2. ASSUME NEW t \in Tx
      PROVE  /\ \A w : In(ws, w) /\ t \in w.txs =>
                   IF w.op = "DeleteTxLookupEntries" THEN \A x \in P : blocks[x].tx # t
                   ELSE w.block \in P /\ blocks[w.block].tx = t
             /\ \/ \E w : In(ws, w) /\ t \in w.txs
                \/ Found(blocks, lookup, b, t)
  <2>1. t # NoTx
    BY ChainAssumption, Zenon
  <2>2. \A x, y \in Q : blocks[x].tx = t /\ blocks[y].tx = t => x = y
    BY <1>1, <2>1, Zenon DEF TxOnce
  <2>3. Found(blocks, lookup, currentBlock, t)
    BY EmptyWrites, Zenon DEF LookupLeads
  <2>4. ASSUME NEW w, In(ws, w), t \in w.txs
        PROVE  IF w.op = "DeleteTxLookupEntries" THEN \A x \in P : blocks[x].tx # t
               ELSE w.block \in P /\ blocks[w.block].tx = t
    <3>1. CASE w.op = "DeleteTxLookupEntries"
      <4>1. Carries(Q \ P, t) /\ ~Carries(P \ Q, t)
        BY <1>3, <2>4, <3>1, Zenon DEF MovesTxs
      <4> QED BY <2>1, <2>2, <3>1, <4>1, Zenon DEF Carries
    <3>2. CASE w.op # "DeleteTxLookupEntries"
      BY <1>3, <2>4, <3>2, Zenon DEF MovesTxs
    <3> QED BY <3>1, <3>2, Zenon
  <2>5. ASSUME ~\E w : In(ws, w) /\ t \in w.txs PROVE Found(blocks, lookup, b, t)
    <3>1. ~Carries(Q \ P, t) /\ ~Carries(P \ Q, t)
      BY <1>3, <2>5, Zenon DEF MovesTxs
    <3>2. /\ \A x \in Q : blocks[x].tx = t => x \in P
          /\ \A x \in P : blocks[x].tx = t => x \in Q
      BY <2>1, <3>1, Zenon DEF Carries
    <3> QED BY <2>3, <3>2 DEF Found
  <2> QED BY <2>4, <2>5, Zenon
<1> QED BY <1>2, Zenon DEF LookupLeads

\* WriteBlockWithState keeps Views.
LEMMA ViewsWriteBlock ==
    ASSUME Shape, Views, NEW b \in Nodes, status = "running", writes = <<>>,
           NEW rest, NEW failed, NEW flush,
           WriteBlockWithState(b, rest, failed, flush)
    PROVE  Views'
<1>1. UNCHANGED <<blocks, canonical, lookup, currentBlock, currentHeader, stops, rewinds, crashed>>
  BY Zenon DEF WriteBlockWithState, bounds, history
<1>2. status' \in {"running", "panic"}
  BY Zenon DEF WriteBlockWithState
<1>3. CASE ~(status' = "running" /\ stops = 0 /\ rewinds = 0)
  BY <1>1, <1>2, <1>3 DEF Views
<1>4. CASE status' = "running" /\ stops = 0 /\ rewinds = 0
  <2>1. Goal(<<>>, currentBlock) = currentBlock
    BY NoWrites, Zenon
  <2>2. /\ HeaderLeads(blocks, canonical, <<>>, currentBlock, currentHeader)
        /\ LookupLeads(blocks, lookup, <<>>, currentBlock)
    BY <1>4, <2>1 DEF Views
  <2>3. PICK ws : ws = writes'
    BY Zenon
  <2>4. /\ HeaderLeads(blocks, canonical, ws, Goal(ws, currentBlock), currentHeader)
        /\ LookupLeads(blocks, lookup, ws, Goal(ws, currentBlock))
    <3>1. CASE ws = <<>>
      BY <2>1, <2>2, <3>1, Zenon
    <3>2. CASE ws = blockWrites(b) /\ isBetter(b)
      <4>1. Advances(ws, b)
        BY <3>2, BlockWritesFacts, Zenon DEF Shape, Nodes
      <4>2. Goal(ws, currentBlock) = b
        BY <4>1, Zenon DEF Advances, EndsWith, Has, Goal
      <4> QED BY <2>2, <3>2, <4>1, <4>2, HeaderAdvances, LookupAdvances DEF Views
    <3>3. CASE ws = blockWrites(b) /\ ~isBetter(b)
      <4> DEFINE w == write("WriteBlock", b)
      <4>1. ws = <<w>>
        BY <3>3, Zenon DEF blockWrites
      <4>2. w \in WriteRec /\ w.op = "WriteBlock" /\ w.txs = {}
        <5>1. w = [op |-> "WriteBlock", block |-> b, txs |-> {}]
          BY DEF write, writeTxs
        <5>2. b \in Nat
          BY DEF Nodes
        <5> HIDE DEF w
        <5> QED BY <5>1, <5>2, Zenon DEF WriteRec
      <4> HIDE DEF w
      <4>3. (\A v : In(ws, v) <=> v = w) /\ \A op : Has(ws, op) => op = "WriteBlock"
        BY <4>1, <4>2, SingleWrite, Zenon
      <4>4. Goal(ws, currentBlock) = currentBlock
        BY <4>3, Zenon DEF Goal
      <4>5. HeaderLeads(blocks, canonical, ws, currentBlock, currentHeader)
        BY <2>2, <4>3, EmptyWrites, Zenon DEF HeaderLeads
      <4>6. LookupLeads(blocks, lookup, ws, currentBlock)
        BY <2>2, <4>2, <4>3, EmptyWrites DEF LookupLeads
      <4> QED BY <4>4, <4>5, <4>6, Zenon
    <3> QED BY <2>3, <3>1, <3>2, <3>3 DEF WriteBlockWithState
  <2> QED BY <1>1, <1>4, <2>3, <2>4 DEF Views
<1> QED BY <1>3, <1>4, Zenon

\* Performing a write keeps the head header on its way to T.
LEMMA HeaderWrite ==
    ASSUME NEW bs, NEW can, NEW can2, NEW ws, NEW ws2, NEW w, NEW T \in 1 .. Len(bs), NEW H, NEW H2,
           NEW st, NEW st2,
           Renumbers(bs, can, can2, ws, ws2, w), Leads(bs, can, ws, T), w = Head(ws),
           Pops(ws, ws2, st, st2), HeaderLeads(bs, can, ws, T, H),
           H2 = IF w.op = "WriteHeadHeaderHash" THEN w.block ELSE H
    PROVE  HeaderLeads(bs, can2, ws2, T, H2)
<1>1. Tree(bs) /\ In(ws, w) /\ \A v : In(ws, v) <=> v = w \/ In(ws2, v)
  BY DEF Renumbers
<1>2. ASSUME NEW x \in PathIn(bs, T) PROVE ~Beats(bs, x, T)
  <2>1. x # T => bs[x].number < bs[T].number /\ bs[x].td < bs[T].td
    BY <1>1, AncestorsAreBelow, Zenon DEF AncestorsBelow
  <2>2. x \in 1 .. Len(bs)
    BY <1>1, PathIds, Zenon
  <2>3. bs[x].number \in Nat /\ bs[T].number \in Nat /\ bs[x].td \in Nat /\ bs[T].td \in Nat
    BY <1>1, <2>2, BlockType, Zenon DEF Block
  <2>4. CASE x = T
    <3>1. ~ Beats(bs, T, T)
      BY <2>3 DEF Beats
    <3> QED BY <2>4, <3>1, Zenon
  <2>5. CASE x # T
    <3>1. bs[x].td < bs[T].td
      BY <2>1, <2>5, Zenon
    <3> QED BY <2>3, <3>1 DEF Beats
  <2> QED BY <2>4, <2>5, Zenon
<1>3. ASSUME NEW n \in DOMAIN can2, can2[n] # 0 PROVE ~Beats(bs, can2[n], T)
  <2>1. CASE w.op = "WriteCanonicalHash"
    <3>1. w.block \in PathIn(bs, T)
      BY <1>1, <2>1, Zenon DEF Leads
    <3>2. n \in DOMAIN can /\ (can2[n] = w.block \/ can2[n] = can[n])
      BY <1>3, <2>1, Zenon DEF Renumbers
    <3> QED BY <1>2, <1>3, <3>1, <3>2, Zenon DEF HeaderLeads
  <2>2. CASE w.op # "WriteCanonicalHash"
    BY <1>3, <2>2, Zenon DEF Renumbers, HeaderLeads
  <2> QED BY <2>1, <2>2, Zenon
<1>4. \A op : Has(ws, op) <=> w.op = op \/ Has(ws2, op)
  BY <1>1, HasIn, Zenon
<1>5. IF Has(ws2, "WriteHeadHeaderHash") THEN EndsWith(ws2, "WriteHeadHeaderHash", T) ELSE H2 = T
  <2>1. CASE Has(ws, "WriteHeadHeaderHash")
    <3>1. EndsWith(ws, "WriteHeadHeaderHash", T)
      BY <2>1, Zenon DEF HeaderLeads
    <3>2. \/ EndsWith(ws2, "WriteHeadHeaderHash", T) /\ Has(ws2, "WriteHeadHeaderHash")
          \/ w.op = "WriteHeadHeaderHash" /\ w.block = T /\ ~Has(ws2, "WriteHeadHeaderHash")
      BY <3>1, EndsWithLast, Zenon
    <3> QED BY <3>2, Zenon
  <2>2. CASE ~Has(ws, "WriteHeadHeaderHash")
    BY <1>4, <2>2, Zenon DEF HeaderLeads
  <2> QED BY <2>1, <2>2, Zenon
<1> QED BY <1>3, <1>5, Zenon DEF HeaderLeads

\* Performing a write keeps the transaction index on its way to T.
LEMMA LookupWrite ==
    ASSUME NEW bs, NEW lk, NEW lk2, NEW ws, NEW ws2, NEW w, NEW T,
           \A v : In(ws, v) <=> v = w \/ In(ws2, v),
           lk2 = [t \in Tx |-> IF t \notin w.txs THEN lk[t]
                               ELSE IF w.op = "DeleteTxLookupEntries" THEN 0 ELSE w.block],
           LookupLeads(bs, lk, ws, T)
    PROVE  LookupLeads(bs, lk2, ws2, T)
<1>1. ASSUME NEW t \in Tx PROVE (\E v : In(ws2, v) /\ t \in v.txs) \/ Found(bs, lk2, T, t)
  <2>1. CASE t \in w.txs
    <3>1. IF w.op = "DeleteTxLookupEntries" THEN \A x \in PathIn(bs, T) : bs[x].tx # t
          ELSE w.block \in PathIn(bs, T) /\ bs[w.block].tx = t
      BY <2>1, Zenon DEF LookupLeads
    <3>2. lk2[t] = IF w.op = "DeleteTxLookupEntries" THEN 0 ELSE w.block
      BY <2>1, Zenon
    <3> QED BY <3>1, <3>2, Zenon DEF Found
  <2>2. CASE t \notin w.txs
    <3>1. lk2[t] = lk[t]
      BY <2>2, Zenon
    <3>2. (\E v : In(ws, v) /\ t \in v.txs) \/ Found(bs, lk, T, t)
      BY DEF LookupLeads
    <3> QED BY <2>2, <3>1, <3>2, Zenon DEF Found
  <2> QED BY <2>1, <2>2, Zenon
<1> QED BY <1>1, Zenon DEF LookupLeads

\* One write of the database keeps Views.
LEMMA ViewsWrite ==
    ASSUME Shape, Roots, Roots', Numbering, Views, Write
    PROVE  Views'
<1> DEFINE w == Head(writes)
           T == Goal(writes, currentBlock)
<1>1. PICK ws2, can2, cb2, ch2, lk2, st2 : ws2 = writes' /\ can2 = canonical' /\ cb2 = currentBlock'
                          /\ ch2 = currentHeader' /\ lk2 = lookup' /\ st2 = stored'
  BY Zenon
<1>2. UNCHANGED <<blocks, stops, rewinds, crashed, status>> /\ status = "running"
  BY DEF Write, bounds, history
<1>3. CASE ~(stops = 0 /\ rewinds = 0)
  BY <1>2, <1>3, Zenon DEF Views
<1>4. CASE stops = 0 /\ rewinds = 0
  <2>1. Pops(writes, ws2, stored, st2)
    BY <1>1, Zenon DEF Pops, Write, Shape
  <2>2. \A v : In(writes, v) <=> v = w \/ In(ws2, v)
    BY <2>1, PopFacts, Zenon
  <2>3. Tree(blocks) /\ \A x \in 1 .. Len(blocks) : blocks[x].number \in DOMAIN canonical
    <3>1. DOMAIN canonical = 0 .. world.blocks /\ Tree(blocks)
      BY Zenon DEF Shape
    <3> QED BY <3>1, NumberIndex, Zenon DEF num, Nodes
  <2>4. Renumbers(blocks, canonical, can2, writes, ws2, w)
    <3>1. can2 = IF w.op = "WriteCanonicalHash"
                 THEN [canonical EXCEPT ![blocks[w.block].number] = w.block] ELSE canonical
      BY <1>1, Zenon DEF Write, number
    <3> QED BY <2>2, <2>3, <3>1, Zenon DEF Renumbers
  <2>5. Goal(ws2, cb2) = T
    <3>1. UNCHANGED Abstract
      BY ForkWrite
    <3> QED BY <1>1, <3>1 DEF Abstract
  <2>6. T \in 1 .. Len(blocks)
    BY GoalNode, Zenon
  <2>7. Leads(blocks, canonical, writes, T)
    BY <1>2, <1>4, Zenon DEF Views, Numbering, RunNumbers
  <2>8. /\ HeaderLeads(blocks, canonical, writes, T, currentHeader)
        /\ LookupLeads(blocks, lookup, writes, T)
    BY <1>2, <1>4, Zenon DEF Views
  <2>9. ch2 = IF w.op = "WriteHeadHeaderHash" THEN w.block ELSE currentHeader
    BY <1>1, Zenon DEF Write
  <2>10. lk2 = [t \in Tx |-> IF t \notin w.txs THEN lookup[t]
                             ELSE IF w.op = "DeleteTxLookupEntries" THEN 0 ELSE w.block]
    BY <1>1 DEF Write
  <2>11. w = Head(writes)
    BY Zenon
  <2> HIDE DEF w, T
  <2>12. HeaderLeads(blocks, can2, ws2, T, ch2)
    BY <2>1, <2>4, <2>6, <2>7, <2>8, <2>9, <2>11, HeaderWrite, SMTT(20)
  <2>13. LookupLeads(blocks, lk2, ws2, T)
    BY <2>2, <2>8, <2>10, LookupWrite
  <2> QED BY <1>1, <1>2, <1>4, <2>5, <2>12, <2>13 DEF Views
<1> QED BY <1>3, <1>4

\* Every step keeps Views.
LEMMA ViewsNext ==
    Shape /\ Roots /\ Roots' /\ Numbering /\ Views /\ [Next]_vars => Views'
<1> SUFFICES ASSUME Shape, Roots, Roots', Numbering, Views, [Next]_vars PROVE Views'
  BY Zenon
<1>0. stops \in Nat /\ rewinds \in Nat
  BY WorldType DEF Shape
<1>1. ASSUME NEW p \in Ids, NEW d \in Difficulties, NEW t \in Tx \cup {NoTx}, CreateBlock(p, d, t)
      PROVE  Views'
  BY <1>1, ViewsCreate
<1>2. ASSUME NEW b \in Ids, InsertChain(b) PROVE Views'
  BY <1>2, ViewsInsertChain, Zenon
<1>3. ASSUME NEW flush \in BOOLEAN, ImportBlock(flush) PROVE Views'
  BY <1>3, ShapeImportBlock, ViewsWriteBlock, Zenon
<1>4. CASE ImportFails
  BY <1>4 DEF Views, ImportFails, database, memory, bounds, history
<1>5. ASSUME NEW b \in Ids, NEW flush \in BOOLEAN, WriteMinedBlock(b, flush) PROVE Views'
  BY <1>5, ShapeMined, ViewsWriteBlock, Zenon
<1>6. CASE Write
  BY <1>6, ViewsWrite, Zenon
<1>7. CASE Stop \/ Crash
  <2>1. blocks' = blocks /\ stops' = stops + 1
    BY <1>7, Zenon DEF Stop, Crash, Down
  <2> QED BY <1>0, <2>1 DEF Views
<1>8. CASE Start
  <2>1. blocks' = blocks /\ stops' = stops /\ status = "down"
    BY <1>8, Zenon DEF Start, bounds
  <2> QED BY <2>1, Zenon DEF Views
<1>9. ASSUME NEW n \in 0 .. world.blocks, SetHead(n) PROVE Views'
  <2>1. blocks' = blocks /\ stops' = stops /\ rewinds' = rewinds + 1 /\ crashed' = crashed
        /\ status' \in {"running", "locked"}
    BY <1>9, SetHeadStep, Zenon
  <2> QED BY <1>0, <2>1 DEF Views
<1>10. CASE UNCHANGED vars
  BY <1>10 DEF vars, database, memory, bounds, history, Views
<1> QED BY <1>1, <1>2, <1>3, <1>4, <1>5, <1>6, <1>7, <1>8, <1>9, <1>10 DEF Next

(* What is read by number, as the head header and by transaction hash is one
   chain, for every tree of blocks: by number unless the node crashed, by the
   header and the transaction until it was stopped or rewound. *)
THEOREM ViewsAlwaysAgree == Spec => []ViewsAgree
<1> DEFINE Inv == Shape /\ Roots /\ Numbering /\ Views
<1>1. Init => Inv
  BY ShapeInit, RootsInit, NumberingInit, ViewsInit, Zenon
<1>2. Inv /\ [Next]_vars => Inv'
  BY ShapeNext, RootsNext, NumberingNext, ViewsNext, Zenon
<1>3. Inv => ViewsAgree
  <2> SUFFICES ASSUME Inv PROVE ViewsAgree
    OBVIOUS
  <2>1. Tree(blocks) /\ Len(blocks) \in Nat /\ Ids = Nodes /\ Nodes = 1 .. Len(blocks)
        /\ currentBlock \in 1 .. Len(blocks)
    <3>1. Tree(blocks) /\ currentBlock \in Nodes
      BY Zenon DEF Shape
    <3>2. blocks \in Seq(Block)
      BY <3>1 DEF Tree
    <3>3. Len(blocks) \in Nat
      BY <3>2
    <3> QED BY <3>1, <3>3 DEF Ids, Nodes
  <2>2. TypeOK
    <3>1. canonical \in [0 .. world.blocks -> 0 .. Len(blocks)] /\ lookup \in [Tx -> 0 .. Len(blocks)]
      BY DEF Shape
    <3>2. 0 .. Len(blocks) = Ids \cup {0}
      BY <2>1
    <3>3. rewinds = 0 => \A b \in stored \ {1} : parent(b) \in stored
      BY Zenon DEF Roots, Closed, parent
    <3>4. /\ stored \subseteq Ids /\ onDisk \subseteq Ids /\ inMemory \subseteq Ids
          /\ {headBlock, headHeader, currentBlock, currentHeader} \subseteq Ids
      BY <2>1, Zenon DEF Shape
    <3>5. /\ status \in {"running", "down", "panic", "dead", "lost", "locked"}
          /\ stops \in 0 .. world.stops /\ rewinds \in 0 .. world.rewinds
      BY DEF Shape
    <3>6. /\ \A n \in DOMAIN canonical : canonical[n] \in Ids \cup {0}
          /\ \A t \in Tx : lookup[t] \in Ids \cup {0}
      BY <3>1, <3>2, Zenon
    <3> QED BY <3>3, <3>4, <3>5, <3>6, Zenon DEF TypeOK
  <2>3. CanonicalIsAncestry
    <3>1. SUFFICES ASSUME Idle, ~crashed PROVE \A b \in Path(currentBlock) : canonical[number(b)] = b
      BY DEF CanonicalIsAncestry
    <3>2. RunNumbers(blocks, canonical, <<>>, currentBlock, headBlock, headHeader, inMemory \cup onDisk)
      BY <3>1, Zenon DEF Numbering, Idle
    <3>3. Agrees(blocks, canonical, currentBlock)
      BY <3>2, RunIdle, Zenon
    <3> QED BY <3>3, PathIsPathIn, Zenon DEF Agrees, number
  <2>4. ASSUME Idle, stops = 0, rewinds = 0
        PROVE  HeaderLeads(blocks, canonical, <<>>, currentBlock, currentHeader)
               /\ LookupLeads(blocks, lookup, <<>>, currentBlock)
    BY <2>4, NoWrites, Zenon DEF Views, Idle
  <2>5. HeaderIsBlock
    BY <2>4, EmptyWrites, Zenon DEF HeaderIsBlock, HeaderLeads
  <2>6. LookupIsCanonical
    <3>1. SUFFICES ASSUME Idle, stops = 0, rewinds = 0, NEW t \in Tx, NEW b \in stored
                   PROVE  lookup[t] = b <=> b \in Path(currentBlock) /\ blocks[b].tx = t
      BY Zenon DEF LookupIsCanonical
    <3>2. Found(blocks, lookup, currentBlock, t)
      BY <2>4, <3>1, EmptyWrites, Zenon DEF LookupLeads
    <3>3. t # NoTx /\ b # 0
      BY ChainAssumption, SMTT(20) DEF Shape, Nodes
    <3>4. Path(currentBlock) = PathIn(blocks, currentBlock)
      BY PathIsPathIn
    <3>5. \A x, y \in PathIn(blocks, currentBlock) :
              blocks[x].tx = t /\ blocks[y].tx = t => x = y
      BY <2>1, <3>3 DEF Views, TxOnce
    <3> QED BY <3>2, <3>3, <3>4, <3>5 DEF Found
  <2> QED BY <2>2, <2>3, <2>5, <2>6, Zenon DEF ViewsAgree
<1> QED BY <1>1, <1>2, <1>3, PTL DEF Spec

=============================================================================
