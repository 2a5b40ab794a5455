----------------------------- MODULE Penalties -----------------------------
(***************************************************************************)
(* Which candidates a checkpoint makes masternodes: Prepare and            *)
(* verifyCascadingFields take the signers of the snapshot, penalise with   *)
(* HookPenalty or HookPenaltyTIPSigning, and leave out whoever one of the  *)
(* LimitPenaltyEpoch checkpoints before has penalised.  A checkpoint is    *)
(* one step; its window of earlier checkpoints is read from the chain.     *)
(***************************************************************************)
EXTENDS Integers, Sequences, SequencesExt, FiniteSets

CONSTANTS
    Account,
    LimitPenaltyEpoch

Eras == {"signed", "TIPSigning", "TIPRandomize"}

VARIABLES
    era,        \* of the last checkpoint; the forks come in this order
    window,     \* the last checkpoints, newest first
    made        \* history: who created a block of the epoch before the newest
vars == <<era, window, made>>

\* A checkpoint: masternodes in its Extra, its Penalties in two parts, and the
\* candidates they were taken from.
Checkpoint == [list : SUBSET Account, idle : SUBSET Account, absent : SUBSET Account,
               candidates : SUBSET Account]

penalties(k) == IF k <= Len(window) THEN window[k].idle \union window[k].absent ELSE {}

Init ==
    /\ era \in Eras
    /\ \E first \in SUBSET Account \ {{}} :
        window = <<[list |-> first, idle |-> {}, absent |-> {}, candidates |-> first]>>
    /\ made = {}

previous == window[1].list

\* HookPenalty: masternodes that signed no block of the epoch.
unsigned(signers) == previous \ signers

\* HookPenaltyTIPSigning: masternodes that created no block of the epoch.
notMiners(miners) == previous \ miners

\* Those whose penalty ends are penalised again unless they signed a block lately.
comebacks(candidates, signers) ==
    (penalties(LimitPenaltyEpoch + 1) \intersect candidates) \ signers

\* Slip: the loop over the recent checkpoints starts one too late.
recentlyPenalisedButLast == UNION {penalties(k) : k \in 2 .. LimitPenaltyEpoch}

recentlyPenalised == UNION {penalties(k) : k \in 1 .. LimitPenaltyEpoch}

Seal(candidates, miners, signers, e) ==
    LET idle   == CASE e = "signed" -> unsigned(signers)
                    [] e = "TIPSigning" -> {}
                    [] e = "TIPRandomize" -> notMiners(miners)
        absent == IF e = "signed" THEN {} ELSE comebacks(candidates, signers)
    IN  /\ window' = SubSeq(<<[list |-> (candidates \ (idle \union absent)) \ recentlyPenalised,
                               idle |-> idle, absent |-> absent,
                               candidates |-> candidates]>> \o window,
                            1, IF Len(window) <= LimitPenaltyEpoch THEN Len(window) + 1
                               ELSE LimitPenaltyEpoch + 1)
        /\ era' = e /\ made' = miners

Later(e) == CASE e = "signed" -> Eras
              [] e = "TIPSigning" -> {"TIPSigning", "TIPRandomize"}
              [] e = "TIPRandomize" -> {"TIPRandomize"}

\* Only masternodes create blocks, and somebody has; the signers are those of the
\* signing transactions in the epoch (before TIPSigning) or in its last
\* RangeReturnSigner blocks, as far as the hooks look for them.
Watched == previous \union penalties(LimitPenaltyEpoch + 1)

Next ==
    \E candidates \in SUBSET Account \ {{}}, miners \in SUBSET previous \ {{}},
       signers \in SUBSET Watched, e \in Later(era) :
        Seal(candidates, miners, signers, e)

Spec == Init /\ [][Next]_vars

-----------------------------------------------------------------------------
TypeOK ==
    /\ era \in Eras /\ made \subseteq Account
    /\ window \in BoundedSeq(Checkpoint, LimitPenaltyEpoch + 1)

(* Whom a checkpoint penalises is no masternode of its epoch and of the
   LimitPenaltyEpoch following ones ("Prevent penalized masternode(s) within 4 recent
   epochs", Posv.Prepare). *)
PenaltyServed ==
    \A k \in DOMAIN window : \A l \in 1 .. k : penalties(k) \intersect window[l].list = {}

(* Nobody is penalised for two reasons at a checkpoint, so header.Penalties names an
   address once: who is up for a comeback has not been a masternode. *)
PenalisedOnce == \A k \in DOMAIN window : window[k].idle \intersect window[k].absent = {}

(* A masternode that created a block, signed or not, stays one as long as it is a
   candidate, from TIPSigning on. *)
MinersStay ==
    era # "signed" /\ Len(window) > 1
        => made \intersect window[1].candidates \subseteq window[1].list
=============================================================================
