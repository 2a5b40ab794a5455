----------------------------- MODULE PosvRound -----------------------------
(***************************************************************************)
(* Whose block comes next.  The masternodes of an epoch take turns         *)
(* (Posv.YourTurn, Hop); one that is not in turn waits longer the further  *)
(* away its turn is, and then seals a block of lower difficulty            *)
(* (worker.commitNewWork, Posv.Seal).  From the second epoch on a block    *)
(* counts only with the signature of the validator that the last           *)
(* checkpoint assigns to its creator (getM1M2, verifySeal).  Masternodes   *)
(* may go down for good.                                                   *)
(*                                                                         *)
(* One chain and no network: a block that is validated becomes the head of *)
(* every node.  Time counts waitPeriods since the head was created.        *)
(***************************************************************************)
EXTENDS Integers, Sequences, FiniteSets, Functions

CONSTANTS
    Elections,      \* [list, m2]: masternodes and validators a checkpoint can carry
    Epoch,          \* length of an epoch
    MaxDown,        \* bound: masternodes that go down
    CheckpointWait  \* waitPeriodCheckpoint in waitPeriods

VARIABLES
    pos,        \* number of the head, modulo Epoch
    elected,    \* [list, m2] of the last checkpoint
    next,       \* of the coming one, known when its parent is
    creator,    \* of the head
    down,       \* masternodes that do not answer
    waited,     \* waitPeriods since the head was created
    tried,      \* masternodes with lastParentBlockCommit equal to the head
    proposed,   \* creators whose block waits for its validator
    parity      \* history: changes with the head

vars == <<pos, elected, next, creator, down, waited, tried, proposed, parity>>

list == elected.list
len == Len(list)

\* Indices as in the code: -1 for an account that is not in the list.
position(l, m) ==
    IF m \in Range(l) THEN (CHOOSE i \in DOMAIN l : l[i] = m) - 1 ELSE -1

\* Slip: the distance of a signer behind its predecessor is one too long.
HopLong(n, pre, cur) ==
    IF pre < cur THEN cur - (pre + 1) ELSE IF pre > cur THEN (n - pre) + cur ELSE n - 1

Hop(n, pre, cur) ==
    IF pre < cur THEN cur - (pre + 1) ELSE IF pre > cur THEN (n - pre) + (cur - 1) ELSE n - 1

calcDifficulty(m) == len - Hop(len, position(list, creator), position(list, m))

-----------------------------------------------------------------------------
(* The validator of a block with the creator m on top of the head. *)

isCheckpoint == (pos + 1) % Epoch = 0

\* A checkpoint is validated by its own list.
coming == IF isCheckpoint THEN next ELSE elected

\* Slip: beyond the end of the list the last masternode validates.
m2IndexCapped(n, v, move) == IF v + move < n THEN v + move ELSE n - 1

m2Index(n, v, move) == ((v % n) + move) % n

moveM2(n) == (((pos + 1) % Epoch) \div n) % n

hasValidator(m) == m \in Range(coming.list)

GetValidator(m) ==
    LET l == coming.list
        n == Len(l)
    IN  l[m2Index(n, coming.m2[position(l, m) + 1], moveM2(n)) + 1]

-----------------------------------------------------------------------------
Init ==
    /\ pos = 0 /\ elected \in Elections /\ next = elected
    /\ creator \in Range(elected.list)
    /\ down = {} /\ waited = 0 /\ tried = {} /\ proposed = {} /\ parity = 0

MaxWait == CheckpointWait * len

Tick ==
    /\ waited < MaxWait /\ waited' = waited + 1
    /\ UNCHANGED <<pos, elected, next, creator, down, tried, proposed, parity>>

Fail(m) ==
    /\ m \notin down /\ Cardinality(down) < MaxDown
    /\ down' = down \union {m}
    /\ UNCHANGED <<pos, elected, next, creator, waited, tried, proposed, parity>>

\* The wait is longer if the coming checkpoint is within reach.
gap(h) == IF h >= Epoch - pos THEN CheckpointWait * h ELSE h

mayCommit(m) ==
    LET pre == position(list, creator)
        cur == position(list, m)
    IN  \/ (pre + 1) % len = cur
        \/ pre # -1 /\ cur # -1 /\ gap(Hop(len, pre, cur)) <= waited

\* Seal blocks the creator of the head, except at a checkpoint.
maySeal(m) == Len(coming.list) = 1 \/ m # creator \/ isCheckpoint

\* worker.commitNewWork and the agent that seals its work.
Commit(m) ==
    /\ m \notin down /\ m \notin tried /\ mayCommit(m)
    /\ tried' = tried \union {m}
    /\ proposed' = IF maySeal(m) THEN proposed \union {m} ELSE proposed
    /\ UNCHANGED <<pos, elected, next, creator, down, waited, parity>>

validated(m) == hasValidator(m) /\ GetValidator(m) \notin down

\* Slip: lastParentBlockCommit is a flag.
triedAfterStays == tried

triedAfter == {}

\* The validator signs the block, and every node imports it.
Accept(m) ==
    /\ m \in proposed /\ validated(m)
    /\ pos' = (pos + 1) % Epoch /\ creator' = m
    /\ elected' = coming
    /\ IF pos' = Epoch - 1 THEN next' \in Elections ELSE next' = next
    /\ waited' = 0 /\ tried' = triedAfter /\ proposed' = {} /\ parity' = 1 - parity
    /\ UNCHANGED down

Accounts == UNION {Range(e.list) : e \in Elections}

Next ==
    \/ Tick
    \/ \E m \in Accounts : Fail(m) \/ Commit(m) \/ Accept(m)

\* Time passes; masternodes that are up make the blocks they may make, and their
\* validators answer.
Fairness ==
    /\ WF_vars(Tick)
    /\ WF_vars(\E m \in Accounts : Commit(m))
    /\ WF_vars(\E m \in Accounts : Accept(m))

Spec == Init /\ [][Next]_vars
FairSpec == Spec /\ Fairness

-----------------------------------------------------------------------------
(* The creator of the head is in the current list, also when the list has just
   changed: commitNewWork returns for preIndex = -1, "first block", only there.
   A checkpoint by a masternode that its list drops finds no validator. *)
CreatorListed == creator \in Range(list)

(* Children of a block by different masternodes have different difficulties,
   between 1 and the number of masternodes, which is that of the one in turn. *)
DifficultyTellsApart ==
    /\ \A m \in Range(list) : calcDifficulty(m) \in 1 .. len
    /\ \A m, o \in Range(list) : calcDifficulty(m) = calcDifficulty(o) => m = o
    /\ \A m \in Range(list) :
        calcDifficulty(m) = len <=> (position(list, creator) + 1) % len = position(list, m)

(* Every masternode of the coming block's list validates the blocks of exactly one. *)
ValidatorsDistinct ==
    \A m, o \in Range(coming.list) : GetValidator(m) = GetValidator(o) => m = o

\* Somebody's block could become the next head.
CanExtend(m) ==
    m \in Range(list) \ down /\ maySeal(m) /\ validated(m)

Viable == \E m \in Accounts : CanExtend(m)

Newcomers == Range(coming.list) \ Range(list)

\* Each masternode that is down costs the blocks it would create and those it would
\* validate; the creator of the head is out as well, and at a checkpoint the
\* masternodes that are new.
EnoughUp ==
    Len(coming.list) > 2 * Cardinality(down)
                        + (IF isCheckpoint THEN Cardinality(Newcomers) ELSE 1)

(* So many masternodes may be down, and no block depends on them. *)
PairsSurvive == EnoughUp => Viable

Even == parity = 0

(* The chain grows, unless nobody could extend it: waiting for turns ends, and no
   masternode uses up its chance. *)
ChainGrows == []<>~Viable \/ ([]<>Even /\ []<>~Even)
=============================================================================
