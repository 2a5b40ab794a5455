----------------------------- MODULE ForkChoice -----------------------------
(***************************************************************************)
(* What the canonical chain promises, without its database: the node holds *)
(* blocks of a tree and has one of them as its head; a block it executes   *)
(* becomes the head exactly if it beats the head, by total difficulty and, *)
(* at the same total difficulty, by number; a lighter block may be held    *)
(* without being executed.  Stopping and rewinding may lose blocks, and    *)
(* leave any held block as the head.  BlockChain implements it.            *)
(***************************************************************************)
EXTENDS Integers, Sequences

VARIABLES tree,     \* every block there is, by name: number, parent, td
          held,     \* names of the blocks the node has
          head,     \* name of the head
          faults,   \* number of stops and rewinds
          down      \* the node is stopped

avars == <<tree, held, head, faults, down>>

Better(b, h) ==
    \/ tree[b].td > tree[h].td
    \/ tree[b].td = tree[h].td /\ tree[b].number > tree[h].number

AInit == held = {1} /\ head = 1 /\ faults = 0 /\ ~down

\* Others create blocks: the tree only grows.
Create ==
    /\ Len(tree') > Len(tree)
    /\ \A i \in DOMAIN tree : tree'[i] = tree[i]
    /\ UNCHANGED <<held, head, faults, down>>

\* A block is executed and competes for the head.
Choose(b) ==
    /\ ~down
    /\ held' = held \cup {b}
    /\ head' = IF Better(b, head) THEN b ELSE head
    /\ UNCHANGED <<tree, faults, down>>

\* A block that does not beat the head is held without being executed.
Hold(b) ==
    /\ ~down /\ tree[b].td < tree[head].td
    /\ held' = held \cup {b}
    /\ UNCHANGED <<tree, head, faults, down>>

Lose ==
    /\ ~down /\ faults' = faults + 1
    /\ held' \subseteq held /\ head' \in held
    /\ down' \in BOOLEAN
    /\ UNCHANGED tree

Recover ==
    /\ down /\ ~down'
    /\ head' \in held
    /\ UNCHANGED <<tree, held, faults>>

ANext == Create \/ (\E b \in DOMAIN tree : Choose(b) \/ Hold(b)) \/ Lose \/ Recover

ASpec == AInit /\ [][ANext]_avars
=============================================================================
