---------------------------- MODULE TomoValidator ----------------------------
(***************************************************************************)
(* The staking contract (contracts/validator/contract/TomoValidator.sol):  *)
(* accounts propose candidates, vote on them with stake, take stake back   *)
(* and withdraw it after a delay.  UpdateM1 elects the masternodes from    *)
(* candidates and their caps.  A mapping is a total function; the struct   *)
(* ValidatorState is split into the functions owner, isCandidate, cap and  *)
(* stake (its mapping voters).  Every external function is one action, a   *)
(* failed require reverts it, so it is not enabled.                        *)
(***************************************************************************)
EXTENDS Integers, Sequences, FiniteSets, Functions

CONSTANTS
    Account,                    \* accounts that call the contract
    Candidate,                  \* addresses proposed as candidates
    Zero,                       \* address(0), the value of a deleted slot
    FirstOwner,                 \* owner of the first candidates
    FirstCandidates,            \* sequence of candidates from the genesis block
    MinCandidateCap, MinVoterCap,
    CandidateWithdrawDelay, VoterWithdrawDelay,
    Values,                     \* amounts sent or asked for in one call
    MaxBalance,                 \* bound: coins in circulation
    MaxBlockNumber,             \* bound: length of the chain
    MaxWithdraws                \* bound: withdrawals recorded per account

ASSUME AddressAssumption ==
    /\ FirstOwner \in Account /\ Zero \notin Account
    /\ FirstCandidates \in Seq(Candidate) /\ IsInjective(FirstCandidates)
ASSUME FiniteAssumption == IsFiniteSet(Account) /\ IsFiniteSet(Candidate)
ASSUME CapAssumption ==
    /\ MinCandidateCap \in Nat \ {0} /\ MinVoterCap \in Nat
    /\ CandidateWithdrawDelay \in Nat /\ VoterWithdrawDelay \in Nat
    /\ Values \in SUBSET Nat
ASSUME BoundAssumption ==
    /\ MaxBalance \in Nat /\ MaxBlockNumber \in Nat \ {0} /\ MaxWithdraws \in Nat

VARIABLES
    owner, isCandidate, cap, stake,     \* validatorsState
    voters,         \* candidate -> addresses that voted on it
    candidates,     \* every candidate ever proposed, Zero once it resigned
    candidateCount,
    caps, blockNumbers,                 \* withdrawsState
    balance,        \* coins held by the contract
    blockNumber     \* number of the block that executes the calls

validatorsState == <<owner, isCandidate, cap, stake>>
withdrawsState == <<caps, blockNumbers>>
vars == <<validatorsState, voters, candidates, candidateCount, withdrawsState,
          balance, blockNumber>>

Blocks == 0 .. MaxBlockNumber + CandidateWithdrawDelay + VoterWithdrawDelay

TypeOK ==
    /\ owner \in [Candidate -> Account \cup {Zero}]
    /\ isCandidate \in [Candidate -> BOOLEAN]
    /\ cap \in [Candidate -> Nat]
    /\ stake \in [Candidate -> [Account -> Nat]]
    /\ voters \in [Candidate -> Seq(Account)]
    /\ candidates \in Seq(Candidate \cup {Zero})
    /\ candidateCount \in Nat
    /\ caps \in [Account -> [Blocks -> Nat]]
    /\ blockNumbers \in [Account -> Seq(Blocks)]
    /\ balance \in Nat
    /\ blockNumber \in 1 .. MaxBlockNumber

\* The constructor, run by the genesis tool, which funds the contract with
\* MinCandidateCap for each of the first candidates.
Init ==
    LET first == Range(FirstCandidates)
    IN  /\ owner = [c \in Candidate |-> IF c \in first THEN FirstOwner ELSE Zero]
        /\ isCandidate = [c \in Candidate |-> c \in first]
        /\ cap = [c \in Candidate |-> IF c \in first THEN MinCandidateCap ELSE 0]
        /\ stake = [c \in Candidate |-> [v \in Account |->
                       IF c \in first /\ v = FirstOwner THEN MinCandidateCap ELSE 0]]
        /\ voters = [c \in Candidate |-> IF c \in first THEN <<FirstOwner>> ELSE <<>>]
        /\ candidates = FirstCandidates
        /\ candidateCount = Len(FirstCandidates)
        /\ caps = [a \in Account |-> [b \in Blocks |-> 0]]
        /\ blockNumbers = [a \in Account |-> <<>>]
        /\ balance = MinCandidateCap * Len(FirstCandidates)
        /\ blockNumber = 1

-----------------------------------------------------------------------------
\* msg.value goes to the contract with the call.
pay(value) ==
    /\ balance + value <= MaxBalance
    /\ balance' = balance + value

\* Slip: the cap of an earlier candidacy is forgotten.
addStakeAnew(sender, c, value) ==
    /\ cap' = [cap EXCEPT ![c] = value]
    /\ stake' = [stake EXCEPT ![c][sender] = @ + value]

addStake(sender, c, value) ==
    /\ cap' = [cap EXCEPT ![c] = @ + value]
    /\ stake' = [stake EXCEPT ![c][sender] = @ + value]

propose(sender, value, c) ==
    /\ value >= MinCandidateCap
    /\ ~isCandidate[c]
    /\ pay(value)
    /\ candidates' = Append(candidates, c)
    /\ owner' = [owner EXCEPT ![c] = sender]
    /\ isCandidate' = [isCandidate EXCEPT ![c] = TRUE]
    /\ addStake(sender, c, value)
    /\ candidateCount' = candidateCount + 1
    /\ voters' = [voters EXCEPT ![c] = Append(@, sender)]
    /\ UNCHANGED <<withdrawsState, blockNumber>>

listVoter(sender, c) ==
    voters' = IF stake[c][sender] = 0
              THEN [voters EXCEPT ![c] = Append(@, sender)] ELSE voters

vote(sender, value, c) ==
    /\ value >= MinVoterCap
    /\ isCandidate[c]
    /\ pay(value)
    /\ addStake(sender, c, value)
    /\ listVoter(sender, c)
    /\ UNCHANGED <<owner, isCandidate, candidates, candidateCount, withdrawsState, blockNumber>>

onlyValidVote(sender, c, amount) ==
    /\ stake[c][sender] >= amount
    /\ owner[c] = sender => stake[c][sender] - amount >= MinCandidateCap

\* Slip: the entry is the current block, not the one of the amount.
refundNow(sender, amount, delay) ==
    LET b == delay + blockNumber
    IN  /\ Len(blockNumbers[sender]) < MaxWithdraws
        /\ caps' = [caps EXCEPT ![sender][b] = @ + amount]
        /\ blockNumbers' = [blockNumbers EXCEPT ![sender] = Append(@, blockNumber)]

\* The end of unvote and resign: the amount can be withdrawn after the delay.
refund(sender, amount, delay) ==
    LET b == delay + blockNumber
    IN  /\ Len(blockNumbers[sender]) < MaxWithdraws
        /\ caps' = [caps EXCEPT ![sender][b] = @ + amount]
        /\ blockNumbers' = [blockNumbers EXCEPT ![sender] = Append(@, b)]

unvote(sender, c, amount) ==
    /\ onlyValidVote(sender, c, amount)
    /\ cap[c] >= amount
    /\ cap' = [cap EXCEPT ![c] = @ - amount]
    /\ stake' = [stake EXCEPT ![c][sender] = @ - amount]
    /\ refund(sender, amount, VoterWithdrawDelay)
    /\ UNCHANGED <<owner, isCandidate, voters, candidates, candidateCount, balance, blockNumber>>

\* Slip: the slot is not cleared.
deleteCandidateNot(c) == candidates' = candidates

\* delete candidates[i] for the first i that holds c.
deleteCandidate(c) ==
    LET i == CHOOSE i \in DOMAIN candidates :
                 candidates[i] = c /\ \A j \in 1 .. i - 1 : candidates[j] # c
    IN  candidates' = [candidates EXCEPT ![i] = Zero]

\* SafeMath reverts the call when the cap is below the owner's stake.
resign(sender, c) ==
    /\ owner[c] = sender
    /\ isCandidate[c]
    /\ candidateCount >= 1 /\ cap[c] >= stake[c][sender]
    /\ isCandidate' = [isCandidate EXCEPT ![c] = FALSE]
    /\ candidateCount' = candidateCount - 1
    /\ deleteCandidate(c)
    /\ cap' = [cap EXCEPT ![c] = @ - stake[c][sender]]
    /\ stake' = [stake EXCEPT ![c][sender] = 0]
    /\ refund(sender, stake[c][sender], CandidateWithdrawDelay)
    /\ UNCHANGED <<owner, voters, balance, blockNumber>>

onlyValidWithdraw(sender, b, i) ==
    /\ b > 0 /\ blockNumber >= b
    /\ caps[sender][b] > 0
    /\ blockNumbers[sender][i] = b

withdraw(sender, b, i) ==
    /\ onlyValidWithdraw(sender, b, i)
    /\ caps' = [caps EXCEPT ![sender][b] = 0]
    /\ blockNumbers' = [blockNumbers EXCEPT ![sender][i] = 0]
    /\ balance >= caps[sender][b]
    /\ balance' = balance - caps[sender][b]
    /\ UNCHANGED <<validatorsState, voters, candidates, candidateCount, blockNumber>>

\* The chain moves on to the next block.
NextBlock ==
    /\ blockNumber < MaxBlockNumber
    /\ blockNumber' = blockNumber + 1
    /\ UNCHANGED <<validatorsState, voters, candidates, candidateCount, withdrawsState, balance>>

Next ==
    \/ \E a \in Account, c \in Candidate, x \in Values : propose(a, x, c)
    \/ \E a \in Account, c \in Candidate, x \in Values : vote(a, x, c)
    \/ \E a \in Account, c \in Candidate, x \in Values : unvote(a, c, x)
    \/ \E a \in Account, c \in Candidate : resign(a, c)
    \/ \E a \in Account, b \in Blocks : \E i \in DOMAIN blockNumbers[a] : withdraw(a, b, i)
    \/ NextBlock

Spec == Init /\ [][Next]_vars

-----------------------------------------------------------------------------
(* The cap UpdateM1 ranks a candidate by is the sum of the stakes its voters
   can take back, across proposing an address again after it resigned. *)
CapIsSumOfStakes == \A c \in Candidate : cap[c] = SumFunction(stake[c])

(* The contract holds exactly what it owes: the caps and the amounts that
   wait to be withdrawn, so that no withdraw reverts for lack of coins. *)
Solvent ==
    balance = SumFunction(cap)
              + SumFunction([a \in Account |-> SumFunction(caps[a])])

(* Caps, stakes, refunds and coins agree, to the last unit. *)
BooksBalance == CapIsSumOfStakes /\ Solvent

(* An amount that waits to be withdrawn has an entry in blockNumbers, the
   index withdraw asks for: deleting one entry strands no amount. *)
PendingHasIndex ==
    \A a \in Account, b \in Blocks :
        caps[a][b] > 0 => b > 0 /\ \E i \in DOMAIN blockNumbers[a] : blockNumbers[a][i] = b

(* The owner of a candidate keeps MinCandidateCap on it until resigning, and
   keeps nothing after: onlyValidVote would not let a former owner take
   the rest back. *)
OwnerStake ==
    \A c \in Candidate :
        IF isCandidate[c] THEN owner[c] \in Account /\ stake[c][owner[c]] >= MinCandidateCap
        ELSE \A a \in Account : owner[c] = a => stake[c][a] = 0

(* getCandidates lists every candidate exactly once and no one else, the
   zero address aside, and candidateCount counts them. *)
CandidatesListedOnce ==
    /\ \A c \in Candidate \ {Zero} :
          IF isCandidate[c] THEN \E i \in DOMAIN candidates : \A j \in DOMAIN candidates :
                                    candidates[j] = c <=> j = i
          ELSE \A j \in DOMAIN candidates : candidates[j] # c
    /\ candidateCount = Cardinality({c \in Candidate : isCandidate[c]})

(* getVoters lists everyone who has stake on the candidate: the reward of an
   epoch is shared among them. *)
VotersListed ==
    \A c \in Candidate, a \in Account : stake[c][a] > 0 => a \in Range(voters[c])

(* No stake is out of reach: an owner's and a voter's can be found, counted
   and taken back, through voting, unvoting, resigning and withdrawing. *)
StakesReachable == TypeOK /\ OwnerStake /\ VotersListed /\ PendingHasIndex
=============================================================================
