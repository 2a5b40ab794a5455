---------------------------- MODULE TrieDatabase ----------------------------
(***************************************************************************)
(* The reference-counting cache between the tries and the disk             *)
(* (trie/database.go), as the hasher fills it (trie/hasher.go, store) and  *)
(* the chain uses it (core/blockchain.go, WriteBlockWithState and Stop).   *)
(*                                                                         *)
(* A node is its hash, Children the hashes it refers to: subtries, storage *)
(* tries, code.  Executing a block on a parent state makes some nodes of   *)
(* the new trie dirty; the others are those of the parent's trie, and are  *)
(* not inserted again.  A hash that was collected or written to disk may   *)
(* become dirty again, when a value returns to what it was.                *)
(*                                                                         *)
(* All of these run under the chain's lock, one after the other.           *)
(***************************************************************************)
EXTENDS Integers, Sequences, FiniteSets, SequencesExt, TLC

CONSTANTS
    Children,       \* hash -> the set of hashes it refers to
    Roots,          \* the hashes that are state roots
    Genesis,        \* the root of the genesis block, which is on disk
    triesInMemory,  \* how many blocks a state is kept for
    MaxBlocks       \* how many blocks are written

Meta == "meta"      \* the hash {} that holds the references to the roots

VARIABLES
    nodes,    \* db.nodes: hash -> its parents and its references to children
    disk,     \* the hashes on disk
    triegc,   \* the blocks whose states are to be dereferenced
    blocks,   \* every block that was written: its state, number and parent
    status    \* whether the node runs

vars == <<nodes, disk, triegc, blocks, status>>

(* The trie below a node. *)
RECURSIVE reach(_)
reach(h) == {h} \union UNION {reach(c) : c \in Children[h]}

Init ==
    /\ nodes = (Meta :> [parents |-> 0, children |-> <<>>])
    /\ disk = reach(Genesis)
    /\ triegc = {}
    /\ blocks = <<>>
    /\ status = "running"

without(f, x) == [y \in DOMAIN f \ {x} |-> f[y]]

count(f, x) == IF x \in DOMAIN f THEN f[x] ELSE 0

-----------------------------------------------------------------------------
(* trie.Database. *)

insert(db, h) ==
    IF h \in DOMAIN db THEN db
    ELSE (h :> [parents |-> 0, children |-> <<>>]) @@ db

counted(db, child, parent) ==
    [db EXCEPT ![child].parents = @ + 1,
               ![parent].children =
                  (child :> count(db[parent].children, child) + 1) @@ @]

(* Slip: a node that another one refers to is not counted again. *)
referenceOnce(db, child, parent) ==
    IF child \notin DOMAIN db \/ (parent # Meta /\ db[child].parents > 0) THEN db
    ELSE counted(db, child, parent)

(* A child that is not in memory is on disk.  Only the roots are referenced
   more than once. *)
reference(db, child, parent) ==
    IF \/ child \notin DOMAIN db
       \/ child \in DOMAIN db[parent].children /\ parent # Meta
    THEN db
    ELSE counted(db, child, parent)

(* One reference less; a node without references goes, and with it its own
   references. *)
RECURSIVE dereference(_, _, _)
dereference(db, child, parent) ==
    LET left == count(db[parent].children, child) - 1
        d == [db EXCEPT ![parent].children =
                 IF left = 0 THEN without(@, child) ELSE (child :> left) @@ @]
        e == [d EXCEPT ![child].parents = @ - 1]
    IN IF child \notin DOMAIN d THEN d
       ELSE IF e[child].parents # 0 THEN e
       ELSE without(FoldLeft(LAMBDA f, h : dereference(f, h, child), e,
                             SetToSeq(DOMAIN e[child].children)),
                    child)

(* Slip: a node is written before what it refers to. *)
RECURSIVE writesRootFirst(_, _)
writesRootFirst(db, h) ==
    IF h \notin DOMAIN db THEN <<>>
    ELSE FoldLeft(LAMBDA s, c : s \o writesRootFirst(db, c), <<h>>,
                  SetToSeq(DOMAIN db[h].children))

(* What Commit writes, children before their parent. *)
RECURSIVE writes(_, _)
writes(db, h) ==
    IF h \notin DOMAIN db THEN <<>>
    ELSE FoldLeft(LAMBDA s, c : s \o writes(db, c), <<>>,
                  SetToSeq(DOMAIN db[h].children)) \o <<h>>

RECURSIVE uncache(_, _)
uncache(db, h) ==
    IF h \notin DOMAIN db THEN db
    ELSE without(FoldLeft(LAMBDA d, c : uncache(d, c), db,
                          SetToSeq(DOMAIN db[h].children)), h)

-----------------------------------------------------------------------------
(* StateDB.Commit. *)

(* The nodes of the new trie that may be dirty: with a node its parents in the
   trie; what is not dirty is the parent trie's. *)
dirties(p, r) ==
    { D \in SUBSET reach(r) :
        /\ D = {} => p = r
        /\ D # {} => r \in D
        /\ \A h \in D \ {r} : \E g \in D : h \in Children[g]
        /\ \A h \in D : Children[h] \ D \subseteq reach(p) }

(* hasher.store, children first: the node is inserted, then its references to
   what is in memory. *)
RECURSIVE store(_, _, _)
store(db, D, h) ==
    IF h \notin D THEN db
    ELSE LET cs == SetToSeq(Children[h])
             below == FoldLeft(LAMBDA d, c : store(d, D, c), db, cs)
         IN FoldLeft(LAMBDA d, c : reference(d, c, h), insert(below, h), cs)

rootOf(bs, b) == IF b = 0 THEN Genesis ELSE bs[b].root
numberOf(bs, b) == IF b = 0 THEN 0 ELSE bs[b].number

(* HasState: a block can be executed on a state whose root is found. *)
available(b) == rootOf(blocks, b) \in DOMAIN nodes \union disk
parents == {b \in 0..Len(blocks) : available(b)}

collected(db, bs, old) ==
    FoldLeft(LAMBDA d, b : dereference(d, rootOf(bs, b), Meta), db,
             SetToSeq(old))

(* WriteBlockWithState: the new trie is stored and referenced; the state that
   leaves the window is perhaps written to disk (by time or by memory), and
   everything up to it is dereferenced. *)
WriteBlock ==
    /\ status = "running"
    /\ Len(blocks) < MaxBlocks
    /\ \E p \in parents : \E r \in Roots : \E D \in dirties(rootOf(blocks, p), r) :
         LET new == Len(blocks) + 1
             bs == Append(blocks, [root |-> r, parent |-> p,
                                   number |-> numberOf(blocks, p) + 1])
             chosen == bs[new].number - triesInMemory
             db == reference(store(nodes, D, r), r, Meta)
             old == {b \in triegc \union {new} : numberOf(bs, b) <= chosen}
         IN /\ blocks' = bs
            /\ \/ /\ disk' = disk
                  /\ nodes' = collected(db, bs, old)
               \/ \E b \in {c \in 1..new : bs[c].number = chosen} :
                    /\ disk' = disk \union Range(writes(db, rootOf(bs, b)))
                    /\ nodes' = collected(uncache(db, rootOf(bs, b)), bs, old)
            /\ triegc' = (triegc \union {new}) \ old
    /\ UNCHANGED status

(* The ancestor of a block that is so many blocks below it. *)
RECURSIVE ancestor(_, _)
ancestor(b, k) == IF k = 0 THEN b ELSE ancestor(blocks[b].parent, k - 1)

(* Stop: the states of the head, of its parent and of the last block of the
   window are written, then everything is dereferenced. *)
Stop ==
    /\ status = "running"
    /\ \E head \in triegc :
         LET offsets == SelectSeq(<<0, 1, triesInMemory - 1>>,
                                  LAMBDA k : blocks[head].number > k)
             root(k) == rootOf(blocks, ancestor(head, k))
             flush == FoldLeft(LAMBDA s, k :
                         [db |-> uncache(s.db, root(k)),
                          put |-> s.put \union Range(writes(s.db, root(k)))],
                         [db |-> nodes, put |-> disk], offsets)
         IN /\ disk' = flush.put
            /\ blocks' = blocks
            /\ nodes' = collected(flush.db, blocks, triegc)
    /\ triegc' = {}
    /\ status' = "stopped"

(* The nodes in memory after StateDB.Commit of the next block. *)
stored ==
    UNION {UNION {{store(nodes, D, r) : D \in dirties(rootOf(blocks, p), r)} : r \in Roots}
             : p \in parents}

(* A crash, perhaps while Stop, or the writing of the next block, writes a state:
   Commit writes a batch whenever it is large enough.  The node starts again. *)
Crash ==
    /\ \E db \in {nodes} \union stored : \E b \in triegc :
         LET order == writes(db, rootOf(blocks, b)) IN
         \E k \in 0..Len(order) :
           disk' = disk \union Range(SubSeq(order, 1, k))
    /\ nodes' = (Meta :> [parents |-> 0, children |-> <<>>])
    /\ triegc' = {}
    /\ UNCHANGED <<blocks, status>>

(* The node starts again after it was stopped. *)
Start ==
    /\ status = "stopped"
    /\ nodes' = (Meta :> [parents |-> 0, children |-> <<>>])
    /\ status' = "running"
    /\ UNCHANGED <<disk, triegc, blocks>>

Next == WriteBlock \/ Stop \/ Crash \/ Start

Spec == Init /\ [][Next]_vars

-----------------------------------------------------------------------------
(* Every state that is kept can be read to its leaves, whatever was collected
   or written: a node that a kept state needs is in memory or on disk. *)
KeptIsReadable ==
    \A b \in triegc : reach(rootOf(blocks, b)) \subseteq DOMAIN nodes \union disk

(* Everything below a node on disk is on disk, also after a crash in the
   middle of Commit: a state is found by its root alone (HasState). *)
DiskIsComplete == \A h \in disk : Children[h] \subseteq disk

(* After a full cleanup nothing is left in memory: Stop reports "Dangling trie
   nodes after full cleanup" otherwise. *)
NothingDangles == status = "stopped" => DOMAIN nodes = {Meta}
=============================================================================
