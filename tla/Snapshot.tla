------------------------------ MODULE Snapshot ------------------------------
(***************************************************************************)
(* The voting snapshot of the PoSV engine (consensus/posv/snapshot.go) as  *)
(* operators on snapshot records.  A snapshot is                           *)
(*   [number, signers, recents, votes, tally]                              *)
(* Votes is a slice in chronological order; every vote carries the block   *)
(* it was cast in and a block casts at most one, so a set of vote records  *)
(* holds the same information.  Tally is a Go map: an absent entry reads   *)
(* as the zero value, and no entry is ever stored with zero votes, so it   *)
(* is a total function in which NoTally stands for "absent".               *)
(***************************************************************************)
EXTENDS Integers, FiniteSets

CONSTANTS
    Address,    \* accounts that sign blocks or are voted on
    Epoch       \* blocks between two checkpoints (PosvConfig.Epoch)

ASSUME AddressAssumption == IsFiniteSet(Address)
ASSUME EpochAssumption == Epoch \in Nat \ {0}

NoTally == [authorize |-> FALSE, votes |-> 0]

Vote == [signer : Address, block : Nat, address : Address, authorize : BOOLEAN]

\* No entry is stored without votes (see NoTally).
Tally == {t \in [authorize : BOOLEAN, votes : Nat] : t.votes = 0 => ~t.authorize}

Snapshots ==
    [number : Nat, signers : SUBSET Address,
     recents : SUBSET [block : Nat, signer : Address],
     votes : SUBSET Vote, tally : [Address -> Tally]]

newSnapshot(n, ss) ==
    [number |-> n, signers |-> ss, recents |-> {}, votes |-> {},
     tally |-> [a \in Address |-> NoTally]]

VotesOn(vs, a) == {v \in vs : v.address = a}
VotesBy(vs, a) == {v \in vs : v.signer = a}

validVote(ss, a, authorize) == authorize <=> a \notin ss

-----------------------------------------------------------------------------
(* The effect of cast and uncast on the tally entry of one address. *)

castTally(t, authorize) ==
    IF t.votes > 0 THEN [t EXCEPT !.votes = @ + 1]
                   ELSE [authorize |-> authorize, votes |-> 1]

uncastTally(t, authorize) ==
    IF t.votes = 0 \/ t.authorize # authorize THEN t
    ELSE IF t.votes > 1 THEN [t EXCEPT !.votes = @ - 1] ELSE NoTally

-----------------------------------------------------------------------------
(* The steps apply makes for one header, in the order it makes them. *)

clearAtCheckpoint(s, n) ==
    IF n % Epoch = 0
    THEN [s EXCEPT !.votes = {}, !.tally = [a \in Address |-> NoTally]]
    ELSE s

limit(ss) == Cardinality(ss) \div 2 + 1

dropRecent(rs, n, ss) == {r \in rs : r.block # n - limit(ss)}

recordSigner(s, n, signer) ==
    [s EXCEPT !.recents = {r \in dropRecent(@, n, s.signers) : r.block # n}
                            \cup {[block |-> n, signer |-> signer]}]

\* The first vote the signer has on the account is taken back.
discardVote(s, signer, a) ==
    LET old == VotesBy(VotesOn(s.votes, a), signer)
        v   == CHOOSE x \in old : \A y \in old : x.block <= y.block
    IN  IF old = {} THEN s
        ELSE [s EXCEPT !.votes = @ \ {v},
                       !.tally[a] = uncastTally(@, v.authorize)]

castVote(s, n, signer, a, authorize) ==
    IF validVote(s.signers, a, authorize)
    THEN [s EXCEPT !.votes = @ \cup {[signer |-> signer, block |-> n,
                                      address |-> a, authorize |-> authorize]},
                   !.tally[a] = castTally(@, authorize)]
    ELSE s

\* A signer holds at most one vote on each account, so each entry of the
\* tally loses at most one vote when all of a signer's votes are taken back.
discardVotesBy(s, a) ==
    [s EXCEPT !.votes = @ \ VotesBy(@, a),
              !.tally = [b \in Address |->
                  LET mine == VotesBy(VotesOn(s.votes, b), a)
                  IN  IF mine = {} THEN s.tally[b]
                      ELSE uncastTally(s.tally[b], (CHOOSE v \in mine : TRUE).authorize)]]

\* Slip: the votes on the account stay.
closeProposalTallyOnly(s, a) == [s EXCEPT !.tally[a] = NoTally]

closeProposal(s, a) ==
    [s EXCEPT !.votes = @ \ VotesOn(@, a), !.tally[a] = NoTally]

dropSigner(s, n, a) ==
    LET left == [s EXCEPT !.signers = @ \ {a}]
    IN  discardVotesBy([left EXCEPT !.recents = dropRecent(@, n, left.signers)], a)

\* Slip: half of the signers is enough.
passedWithHalf(s, a) == s.tally[a].votes >= Cardinality(s.signers) \div 2

passed(s, a) == s.tally[a].votes > Cardinality(s.signers) \div 2

resolve(s, n, a) ==
    IF ~passed(s, a) THEN s
    ELSE IF s.tally[a].authorize
         THEN closeProposal([s EXCEPT !.signers = @ \cup {a}], a)
         ELSE closeProposal(dropSigner(s, n, a), a)

\* apply for one header; h is [signer, coinbase, authorize].
applyHeader(s, h) ==
    LET n  == s.number + 1
        s1 == recordSigner(clearAtCheckpoint(s, n), n, h.signer)
        s2 == discardVote(s1, h.signer, h.coinbase)
        s3 == castVote(s2, n, h.signer, h.coinbase, h.authorize)
    IN  [resolve(s3, n, h.coinbase) EXCEPT !.number = n]

-----------------------------------------------------------------------------
(* What the list of votes and the tally have to do with each other. *)

oneVotePerAccount(s) ==
    \A v, w \in s.votes : v.signer = w.signer /\ v.address = w.address => v = w

tallyCoversVotes(s) ==
    \A a \in Address : Cardinality(VotesOn(s.votes, a)) <= s.tally[a].votes

tallyIsRecount(s) ==
    \A a \in Address :
        /\ s.tally[a].votes = Cardinality(VotesOn(s.votes, a))
        /\ \A v \in VotesOn(s.votes, a) : v.authorize = s.tally[a].authorize

votesMeaningful(s) == \A v \in s.votes : validVote(s.signers, v.address, v.authorize)
=============================================================================
