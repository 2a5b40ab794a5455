----------------------------- MODULE PosvVoting -----------------------------
(***************************************************************************)
(* The signer set along one chain of PoSV headers: headers that pass       *)
(* verifyHeader and verifySeal are folded into the voting snapshot, and    *)
(* the block Gap before a checkpoint replaces the signers by the           *)
(* masternodes elected in the validator contract (BlockChain.UpdateM1 and  *)
(* Posv.UpdateMasternodes).                                                *)
(***************************************************************************)
EXTENDS Snapshot

CONSTANTS
    ZeroAddress,    \* the zero account: never a creator, voted on by default
    Gap,            \* blocks between the election and the checkpoint
    Genesis,        \* signers listed in the genesis block
    MaxNumber       \* bound on the length of the chain

ASSUME ZeroAssumption == ZeroAddress \in Address
ASSUME GapAssumption == Gap \in 1 .. Epoch - 1
ASSUME GenesisAssumption == Genesis \in SUBSET (Address \ {ZeroAddress}) /\ Genesis # {}
ASSUME MaxNumberAssumption == MaxNumber \in Nat

VARIABLES
    snap,           \* snapshot at the head of the chain
    masternodes,    \* masternodes listed by the last checkpoint header
    replaced        \* history: the signers were replaced since that checkpoint

vars == <<snap, masternodes, replaced>>

Header == [signer : Address \ {ZeroAddress}, coinbase : Address, authorize : BOOLEAN]

TypeOK ==
    /\ snap \in Snapshots
    /\ masternodes \in SUBSET Address
    /\ replaced \in BOOLEAN

Init ==
    /\ snap = newSnapshot(0, Genesis)
    /\ masternodes = Genesis
    /\ replaced = FALSE

isCheckpoint(n) == n % Epoch = 0
isGapBlock(n) == (n + Gap) % Epoch = 0

\* A checkpoint header carries no vote.
verifyHeader(h, n) ==
    isCheckpoint(n) => h.coinbase = ZeroAddress /\ ~h.authorize

\* Slip: the last block is outside the window.
verifySealOffByOne(h, n, ms) ==
    /\ h.signer \in snap.signers \cup ms
    /\ \/ Cardinality(ms) <= 1
       \/ isCheckpoint(n)
       \/ \A r \in snap.recents : r.signer = h.signer => r.block <= n - 1

\* ms is the masternode list in force for block n.  The subtraction seen >
\* number - 2 is on uint64: it excludes nothing for block 1.
verifySeal(h, n, ms) ==
    /\ h.signer \in snap.signers \cup ms
    /\ \/ Cardinality(ms) <= 1
       \/ isCheckpoint(n)
       \/ n < 2
       \/ \A r \in snap.recents : r.signer = h.signer => r.block <= n - 2

\* An ordinary block.
InsertBlock(h) ==
    LET n == snap.number + 1
    IN  /\ n <= MaxNumber
        /\ ~isCheckpoint(n) /\ ~isGapBlock(n)
        /\ verifyHeader(h, n) /\ verifySeal(h, n, masternodes)
        /\ snap' = applyHeader(snap, h)
        /\ UNCHANGED <<masternodes, replaced>>

\* The gap block: UpdateM1 installs the elected masternodes as signers.
InsertGapBlock(h, elected) ==
    LET n == snap.number + 1
    IN  /\ n <= MaxNumber
        /\ isGapBlock(n)
        /\ verifyHeader(h, n) /\ verifySeal(h, n, masternodes)
        /\ snap' = [applyHeader(snap, h) EXCEPT !.signers = elected]
        /\ replaced' = TRUE
        /\ UNCHANGED masternodes

\* The checkpoint block lists the signers of its parent's snapshot, without
\* the penalised ones, as the masternodes of the epoch it opens.
InsertCheckpoint(h, penalties) ==
    LET n  == snap.number + 1
        ms == snap.signers \ penalties
    IN  /\ n <= MaxNumber
        /\ isCheckpoint(n)
        /\ verifyHeader(h, n) /\ verifySeal(h, n, ms)
        /\ snap' = applyHeader(snap, h)
        /\ masternodes' = ms
        /\ replaced' = FALSE

Next ==
    \/ \E h \in Header : InsertBlock(h)
    \/ \E h \in Header, elected \in SUBSET (Address \ {ZeroAddress}) \ {{}} :
           InsertGapBlock(h, elected)
    \/ \E h \in Header, penalties \in SUBSET (Address \ {ZeroAddress}) :
           InsertCheckpoint(h, penalties)

Spec == Init /\ [][Next]_vars

-----------------------------------------------------------------------------
(* A signer has at most one vote pending on an account: apply takes the
   previous one back before it adds another ("only one vote allowed"). *)
OneVotePerAccount == oneVotePerAccount(snap)

(* The cached tally of an account never counts fewer votes than the list of
   votes holds: uncast may refuse to revert a vote, but nothing reverts a
   vote that is still listed. *)
TallyCoversVotes == tallyCoversVotes(snap)

(* "Current vote tally to avoid recalculating": the tally is what
   recalculating it from the list of votes would give, and the votes listed
   are those in the direction of the proposal. *)
TallyIsRecount == tallyIsRecount(snap)

(* ... which holds as long as no election replaced the signers since the
   votes were last cleared; then every listed vote also would change the
   membership of its account. *)
TallyIsRecountUnlessReplaced ==
    ~replaced => tallyIsRecount(snap) /\ votesMeaningful(snap)

(* The votes are counted right across casting, changing, passing and dropping
   proposals, members leaving with votes pending, and elections. *)
VotesCounted == TypeOK /\ OneVotePerAccount /\ TallyCoversVotes /\ TallyIsRecountUnlessReplaced

(* "Signer list shrunk, delete any leftover recent caches": once an epoch has
   opened, the recent signers are those of the last limit blocks. *)
RecentsWindow ==
    ~replaced => \A r \in snap.recents : r.block > snap.number - limit(snap.signers)

(* The creator of the head is on record, whatever is deleted from the recent
   signers, so that verifySeal can refuse it the next block. *)
CreatorRecorded ==
    snap.number > 0 => \E r \in snap.recents : r.block = snap.number

(* Two consecutive blocks, the second not a checkpoint, have different
   creators whenever more than one masternode is listed. *)
NoConsecutiveBlocks ==
    [][ \A r \in snap.recents, q \in snap'.recents :
            /\ r.block = snap.number
            /\ q.block = snap.number + 1
            /\ ~isCheckpoint(snap.number + 1)
            /\ Cardinality(masternodes) > 1
            => r.signer # q.signer ]_vars

(* Outside an election a block changes the membership of at most one account,
   and only if the accounts with a vote on it, the creator of the block
   included, outnumber half of the signers. *)
MembershipNeedsMajority ==
    [][ ~isGapBlock(snap.number + 1) /\ ~replaced /\ snap'.signers # snap.signers =>
            \E a \in Address, q \in snap'.recents :
               /\ q.block = snap.number + 1
               /\ snap'.signers \in {snap.signers \cup {a}, snap.signers \ {a}}
               /\ Cardinality({w.signer : w \in VotesOn(snap.votes, a)} \cup {q.signer})
                     > Cardinality(snap.signers) \div 2 ]_vars
=============================================================================
