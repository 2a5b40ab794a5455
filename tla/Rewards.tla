------------------------------ MODULE Rewards ------------------------------
(***************************************************************************)
(* The rewards of a checkpoint (HookReward, GetRewardForCheckpoint,        *)
(* CalculateRewardForSigner, GetRewardBalancesRate).  Signing transactions *)
(* reach the chain in any block after the one they sign, twice or never.   *)
(* A checkpoint pays for the blocks of the epoch before the last, with the *)
(* signatures that blocks up to its parent contain.                        *)
(*                                                                         *)
(* A block holds at most one signing transaction.  Amounts are whole       *)
(* units, divided as big.Int divides them.                                 *)
(***************************************************************************)
EXTENDS Integers, Sequences, FiniteSets, Functions

CONSTANTS
    Master,             \* masternodes
    Lists,              \* sets of masternodes a checkpoint can name
    Stakes,             \* [owner, voters (a sequence), cap] of each masternode
    Foundation,         \* FoudationWalletAddr
    rCheckpoint,        \* RewardCheckpoint
    MergeSignRange,
    TIP2019Block,
    chainReward,
    MaxNumber           \* bound on the length of the chain

VARIABLES
    blocks,     \* the signing transaction of each block: a set of at most one
    lists,      \* masternodes named by the genesis block and the checkpoints
    counted     \* history: [number, pairs, paid] of each reward

vars == <<blocks, lists, counted>>

Number == Len(blocks)

IsTIP2019(n) == TIP2019Block <= n

-----------------------------------------------------------------------------
\* Slip: the walk over the ancestors ends at the epoch that is paid for.
windowShort(prev) == prev + 1 .. prev + rCheckpoint

\* The blocks the walk over the checkpoint's ancestors reads.
window(prev) == prev + 1 .. prev + (rCheckpoint * 2) - 1

paidBlocks(prev) ==
    {i \in prev + 1 .. prev + rCheckpoint : i % MergeSignRange = 0 \/ ~IsTIP2019(i)}

\* GetRewardForCheckpoint: which masternode is paid for which block.
GetRewardForCheckpoint(number) ==
    LET prev == number - rCheckpoint * 2
        signatures == UNION {blocks[i] : i \in window(prev)}
    IN  {s \in signatures : s.block \in paidBlocks(prev)
                            /\ s.from \in lists[(prev \div rCheckpoint) + 1]}

CalculateRewardForSigner(sign, total) == (chainReward \div total) * sign

percent(x, p) == (x * p) \div 100

\* GetRewardBalancesRate: 40 percent for the owner, 50 for the voters by their
\* stakes, 10 for the foundation, whose entry replaces any other it has.
GetRewardBalancesRate(m, reward, number) ==
    LET stake == Stakes[m]
        voters == {stake.voters[i] : i \in DOMAIN stake.voters}
        \* A voter that is listed twice counts twice before TIP2019.
        listed == IF IsTIP2019(number) THEN [v \in voters |-> stake.cap[v]]
                  ELSE [i \in DOMAIN stake.voters |-> stake.cap[stake.voters[i]]]
        totalCap == SumFunction(listed)
        ofVoter(h) == IF h \in voters /\ totalCap > 0
                      THEN (percent(reward, 50) * stake.cap[h]) \div totalCap ELSE 0
        ofOwner(h) == IF h = stake.owner THEN percent(reward, 40) ELSE 0
    IN  [h \in {stake.owner, Foundation} \union voters |->
            IF h = Foundation THEN percent(reward, 10) ELSE ofOwner(h) + ofVoter(h)]

\* All HookReward adds to balances.
paid(pairs, number) ==
    LET total == Cardinality(pairs)
        sign(m) == Cardinality({s \in pairs : s.from = m})
        reward(m) == CalculateRewardForSigner(sign(m), total)
    IN  SumFunction([m \in {s.from : s \in pairs} |->
            SumFunction(GetRewardBalancesRate(m, reward(m), number))])

-----------------------------------------------------------------------------
Init ==
    /\ blocks = <<>> /\ lists \in {<<l>> : l \in Lists} /\ counted = {}

NoTx == {}

\* The next block: a checkpoint names masternodes, and pays from the second on.
Finalize(tx) ==
    LET number == Number + 1
        pairs == GetRewardForCheckpoint(number)
    IN  /\ number <= MaxNumber
        /\ blocks' = Append(blocks, tx)
        /\ IF number % rCheckpoint = 0
           THEN \E l \in Lists : lists' = Append(lists, l)
           ELSE UNCHANGED lists
        /\ IF number % rCheckpoint = 0 /\ number - rCheckpoint > 0
           THEN counted' = counted \union
                    {[number |-> number, pairs |-> pairs, paid |-> paid(pairs, number)]}
           ELSE UNCHANGED counted

SignTx == {NoTx} \union {{[from |-> m, block |-> b]} : m \in Master, b \in 1 .. Number}

Next == \E tx \in SignTx : Finalize(tx)

Spec == Init /\ [][Next]_vars

-----------------------------------------------------------------------------
(* A masternode is paid at most once for a block, however often its signature is in
   the chain. *)
RewardedOnce ==
    \A c, d \in counted : c.pairs \intersect d.pairs # {} => c = d

(* And it is paid, if its signature is in the chain before the checkpoint: seen from
   the block, which the list of its own epoch may sign. *)
SignaturesPaid ==
    \A k \in DOMAIN blocks : \A s \in blocks[k] :
        LET epoch == (s.block - 1) \div rCheckpoint     \* the checkpoint is its last block
            number == (epoch + 2) * rCheckpoint
        IN  /\ k < number /\ number <= Number
            /\ s.block % MergeSignRange = 0 \/ s.block < TIP2019Block
            /\ s.from \in lists[epoch + 1]
            => \E c \in counted : c.number = number /\ s \in c.pairs

(* A checkpoint never creates more than the reward of the chain, whatever the number
   of signatures, voters and roundings. *)
PaidWithinReward == \A c \in counted : c.paid <= chainReward
=============================================================================
