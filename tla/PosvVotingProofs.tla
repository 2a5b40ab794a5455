-------------------------- MODULE PosvVotingProofs --------------------------
(***************************************************************************)
(* The vote list and the cached tally of the voting snapshot agree, for    *)
(* every set of accounts, every epoch length and every chain.              *)
(***************************************************************************)
EXTENDS PosvVoting, FiniteSetTheorems, TLAPS

\* What every step of apply preserves, and what it preserves as long as the
\* signers are changed by votes alone.
Sound(s) ==
    /\ s \in Snapshots
    /\ IsFiniteSet(s.votes)
    /\ oneVotePerAccount(s)
    /\ tallyCoversVotes(s)

Exact(s) == tallyIsRecount(s) /\ votesMeaningful(s)

-----------------------------------------------------------------------------
(* The votes on one account form a finite set. *)
LEMMA VotesOnFinite ==
    ASSUME NEW vs, IsFiniteSet(vs), NEW a
    PROVE  IsFiniteSet(VotesOn(vs, a)) /\ Cardinality(VotesOn(vs, a)) \in Nat
  <1>1. VotesOn(vs, a) \in SUBSET vs
    BY DEF VotesOn
  <1> QED BY <1>1, FS_Subset, FS_CardinalityType

(* cast and uncast keep the type of a tally entry. *)
LEMMA TallyTypes ==
    ASSUME NEW t \in Tally, NEW authorize \in BOOLEAN
    PROVE  castTally(t, authorize) \in Tally /\ uncastTally(t, authorize) \in Tally
  BY DEF Tally, castTally, uncastTally, NoTally

(* Clearing the votes at a checkpoint. *)
LEMMA ClearSound ==
    ASSUME NEW s, Sound(s), NEW n \in Nat
    PROVE  /\ Sound(clearAtCheckpoint(s, n))
           /\ Exact(s) \/ isCheckpoint(n) => Exact(clearAtCheckpoint(s, n))
           /\ clearAtCheckpoint(s, n).number = s.number
           /\ clearAtCheckpoint(s, n).signers = s.signers
  <1>1. CASE n % Epoch # 0
    BY <1>1 DEF clearAtCheckpoint, isCheckpoint
  <1>2. CASE n % Epoch = 0
    <2> DEFINE t == clearAtCheckpoint(s, n)
    <2>1. /\ t \in Snapshots /\ t.votes = {} /\ t.number = s.number
          /\ t.tally = [a \in Address |-> NoTally] /\ t.signers = s.signers
      BY <1>2 DEF clearAtCheckpoint, Sound, Snapshots, NoTally, Tally
    <2>2. \A a \in Address : VotesOn(t.votes, a) = {} /\ t.tally[a].votes = 0
      BY <2>1 DEF VotesOn, NoTally
    <2>3. Cardinality({}) = 0 /\ IsFiniteSet({})
      BY FS_EmptySet
    <2> HIDE DEF t
    <2>4. oneVotePerAccount(t) /\ tallyCoversVotes(t) /\ IsFiniteSet(t.votes)
      BY <2>1, <2>2, <2>3 DEF oneVotePerAccount, tallyCoversVotes
    <2>5. tallyIsRecount(t) /\ votesMeaningful(t)
      BY <2>1, <2>2, <2>3 DEF tallyIsRecount, votesMeaningful
    <2> QED BY <2>1, <2>4, <2>5 DEF t, Sound, Exact
  <1> QED BY <1>1, <1>2

(* Recording the creator of the block touches neither votes nor tally. *)
LEMMA RecordSound ==
    ASSUME NEW s, Sound(s), NEW n \in Nat, NEW signer \in Address
    PROVE  /\ Sound(recordSigner(s, n, signer))
           /\ Exact(s) => Exact(recordSigner(s, n, signer))
           /\ recordSigner(s, n, signer).signers = s.signers
           /\ recordSigner(s, n, signer).number = s.number
  <1> DEFINE t == recordSigner(s, n, signer)
  <1>1. /\ t \in Snapshots /\ t.votes = s.votes /\ t.tally = s.tally
        /\ t.signers = s.signers /\ t.number = s.number
    BY DEF recordSigner, dropRecent, Sound, Snapshots
  <1> QED
    BY <1>1 DEF Sound, Exact, oneVotePerAccount, tallyCoversVotes, tallyIsRecount,
                votesMeaningful

(* Taking back the vote a signer has on an account. *)
LEMMA DiscardSound ==
    ASSUME NEW s, Sound(s), NEW signer \in Address, NEW a \in Address
    PROVE  LET t == discardVote(s, signer, a)
           IN  /\ Sound(t)
               /\ Exact(s) => Exact(t)
               /\ t.signers = s.signers
               /\ t.number = s.number
               /\ t.votes \subseteq s.votes
               /\ \A v \in t.votes : ~(v.signer = signer /\ v.address = a)
  <1> DEFINE old == VotesBy(VotesOn(s.votes, a), signer)
             v   == CHOOSE x \in old : \A y \in old : x.block <= y.block
             t   == discardVote(s, signer, a)
  <1>1. CASE old = {}
    BY <1>1 DEF discardVote, VotesBy, VotesOn
  <1>2. CASE old # {}
    <2>1. PICK x \in old : TRUE
      BY <1>2
    <2>2. x \in s.votes /\ x.signer = signer /\ x.address = a /\ x \in Vote
      BY <2>1 DEF VotesBy, VotesOn, Sound, Snapshots
    <2>3. \A y \in old : y = x
      BY <2>2 DEF VotesBy, VotesOn, Sound, oneVotePerAccount
    <2>4. \A y \in old : x.block <= y.block
      BY <2>2, <2>3 DEF Vote
    <2>5. v \in old /\ v = x
      BY <2>1, <2>3, <2>4
    <2> HIDE DEF v
    <2>6. t = [s EXCEPT !.votes = @ \ {x}, !.tally[a] = uncastTally(@, x.authorize)]
      BY <1>2, <2>5 DEF discardVote, v
    <2>7. s.tally[a] \in Tally /\ uncastTally(s.tally[a], x.authorize) \in Tally
      BY <2>2, TallyTypes DEF Sound, Snapshots, Vote
    <2>8. /\ t \in Snapshots /\ t.votes = s.votes \ {x} /\ t.signers = s.signers
          /\ t.tally = [s.tally EXCEPT ![a] = uncastTally(@, x.authorize)]
          /\ t.number = s.number
      <3>1. [s.tally EXCEPT ![a] = uncastTally(@, x.authorize)] \in [Address -> Tally]
        BY <2>7 DEF Sound, Snapshots
      <3>2. s.votes \ {x} \in SUBSET Vote
        BY DEF Sound, Snapshots
      <3> QED BY <2>6, <3>1, <3>2 DEF Sound, Snapshots
    <2>9. \A y \in t.votes : ~(y.signer = signer /\ y.address = a)
      BY <2>3, <2>8 DEF VotesBy, VotesOn
    <2> HIDE DEF t
    <2>10. IsFiniteSet(t.votes) /\ oneVotePerAccount(t)
      <3>1. IsFiniteSet(s.votes \ {x})
        BY FS_RemoveElement DEF Sound
      <3>2. oneVotePerAccount(t)
        BY <2>8 DEF Sound, oneVotePerAccount
      <3> QED BY <3>1, <3>2, <2>8
    <2>11. \A b \in Address \ {a} : /\ VotesOn(t.votes, b) = VotesOn(s.votes, b)
                                   /\ t.tally[b] = s.tally[b]
      BY <2>2, <2>8 DEF VotesOn, Sound, Snapshots
    <2>12. /\ VotesOn(t.votes, a) = VotesOn(s.votes, a) \ {x}
           /\ x \in VotesOn(s.votes, a)
           /\ t.tally[a] = uncastTally(s.tally[a], x.authorize)
      BY <2>2, <2>8 DEF VotesOn, Sound, Snapshots
    <2>13. /\ Cardinality(VotesOn(t.votes, a)) = Cardinality(VotesOn(s.votes, a)) - 1
           /\ Cardinality(VotesOn(s.votes, a)) \in Nat
           /\ Cardinality(VotesOn(t.votes, a)) \in Nat
      <3>1. IsFiniteSet(VotesOn(s.votes, a)) /\ Cardinality(VotesOn(s.votes, a)) \in Nat
        BY VotesOnFinite DEF Sound
      <3>2. Cardinality(VotesOn(s.votes, a) \ {x}) = Cardinality(VotesOn(s.votes, a)) - 1
        BY <2>12, <3>1, FS_RemoveElement
      <3>3. Cardinality(VotesOn(t.votes, a)) \in Nat
        BY <2>10, VotesOnFinite
      <3> QED BY <2>12, <3>1, <3>2, <3>3
    <2>14. tallyCoversVotes(t)
      <3>1. Cardinality(VotesOn(s.votes, a)) <= s.tally[a].votes
        BY DEF Sound, tallyCoversVotes
      <3>2. Cardinality(VotesOn(t.votes, a)) <= t.tally[a].votes
        BY <2>7, <2>12, <2>13, <3>1 DEF uncastTally, NoTally, Tally
      <3> QED BY <3>2, <2>11 DEF tallyCoversVotes, Sound
    <2>15. ASSUME Exact(s) PROVE Exact(t)
      <3>1. /\ s.tally[a].votes = Cardinality(VotesOn(s.votes, a))
            /\ \A y \in VotesOn(s.votes, a) : y.authorize = s.tally[a].authorize
        BY <2>15 DEF Exact, tallyIsRecount
      <3>2. s.tally[a].authorize = x.authorize /\ s.tally[a].votes # 0
        BY <3>1, <2>12, <2>13
      <3>3. t.tally[a].votes = Cardinality(VotesOn(t.votes, a))
        BY <2>7, <2>12, <2>13, <3>1, <3>2 DEF uncastTally, NoTally, Tally
      <3>4. \A y \in VotesOn(t.votes, a) : y.authorize = t.tally[a].authorize
        <4>1. CASE s.tally[a].votes > 1
          BY <4>1, <2>7, <2>12, <3>1, <3>2 DEF uncastTally, Tally
        <4>2. CASE ~(s.tally[a].votes > 1)
          <5>1. Cardinality(VotesOn(t.votes, a)) = 0
            BY <4>2, <3>1, <3>2, <2>13
          <5>2. VotesOn(t.votes, a) = {}
            BY <5>1, <2>10, VotesOnFinite, FS_EmptySet
          <5> QED BY <5>2
        <4> QED BY <4>1, <4>2
      <3>5. tallyIsRecount(t)
        BY <3>3, <3>4, <2>11, <2>15 DEF tallyIsRecount, Exact
      <3>6. votesMeaningful(t)
        BY <2>8, <2>15 DEF votesMeaningful, Exact
      <3> QED BY <3>5, <3>6 DEF Exact
    <2> QED BY <2>8, <2>9, <2>10, <2>14, <2>15 DEF Sound, t
  <1> QED BY <1>1, <1>2

(* Casting the vote of a signer that has none on the account. *)
LEMMA CastSound ==
    ASSUME NEW s, Sound(s), NEW n \in Nat, NEW signer \in Address, NEW a \in Address,
           NEW authorize \in BOOLEAN,
           \A v \in s.votes : ~(v.signer = signer /\ v.address = a)
    PROVE  LET t == castVote(s, n, signer, a, authorize)
           IN  /\ Sound(t)
               /\ Exact(s) => Exact(t)
               /\ t.signers = s.signers
               /\ t.number = s.number
  <1> DEFINE x == [signer |-> signer, block |-> n, address |-> a, authorize |-> authorize]
             t == castVote(s, n, signer, a, authorize)
  <1>1. CASE ~validVote(s.signers, a, authorize)
    BY <1>1 DEF castVote
  <1>2. CASE validVote(s.signers, a, authorize)
    <2>1. x \in Vote /\ x \notin s.votes /\ x.signer = signer /\ x.address = a
          /\ x.authorize = authorize
      BY DEF Vote
    <2>2. t = [s EXCEPT !.votes = @ \cup {x}, !.tally[a] = castTally(@, authorize)]
      BY <1>2 DEF castVote
    <2>3. s.tally[a] \in Tally /\ castTally(s.tally[a], authorize) \in Tally
      BY TallyTypes DEF Sound, Snapshots
    <2>4. /\ t \in Snapshots /\ t.votes = s.votes \cup {x} /\ t.signers = s.signers
          /\ t.tally = [s.tally EXCEPT ![a] = castTally(@, authorize)]
          /\ t.number = s.number
      <3>1. [s.tally EXCEPT ![a] = castTally(@, authorize)] \in [Address -> Tally]
        BY <2>3 DEF Sound, Snapshots
      <3>2. s.votes \cup {x} \in SUBSET Vote
        BY <2>1 DEF Sound, Snapshots
      <3> QED BY <2>2, <3>1, <3>2 DEF Sound, Snapshots
    <2> HIDE DEF t, x
    <2>5. IsFiniteSet(t.votes)
      BY <2>4, FS_AddElement DEF Sound
    <2>6. oneVotePerAccount(t)
      BY <2>1, <2>4 DEF Sound, oneVotePerAccount
    <2>7. \A b \in Address \ {a} : /\ VotesOn(t.votes, b) = VotesOn(s.votes, b)
                                  /\ t.tally[b] = s.tally[b]
      BY <2>1, <2>4 DEF VotesOn, Sound, Snapshots
    <2>8. /\ VotesOn(t.votes, a) = VotesOn(s.votes, a) \cup {x}
          /\ x \notin VotesOn(s.votes, a)
          /\ t.tally[a] = castTally(s.tally[a], authorize)
      BY <2>1, <2>4 DEF VotesOn, Sound, Snapshots
    <2>9. /\ Cardinality(VotesOn(t.votes, a)) = Cardinality(VotesOn(s.votes, a)) + 1
          /\ Cardinality(VotesOn(s.votes, a)) \in Nat
      <3>1. IsFiniteSet(VotesOn(s.votes, a)) /\ Cardinality(VotesOn(s.votes, a)) \in Nat
        BY VotesOnFinite DEF Sound
      <3> QED BY <2>8, <3>1, FS_AddElement
    <2>10. tallyCoversVotes(t)
      <3>1. Cardinality(VotesOn(s.votes, a)) <= s.tally[a].votes
        BY DEF Sound, tallyCoversVotes
      <3>2. Cardinality(VotesOn(t.votes, a)) <= t.tally[a].votes
        BY <2>3, <2>8, <2>9, <3>1 DEF castTally, Tally
      <3> QED BY <3>2, <2>7 DEF tallyCoversVotes, Sound
    <2>11. ASSUME Exact(s) PROVE Exact(t)
      <3>1. /\ s.tally[a].votes = Cardinality(VotesOn(s.votes, a))
            /\ \A y \in VotesOn(s.votes, a) : y.authorize = s.tally[a].authorize
        BY <2>11 DEF Exact, tallyIsRecount
      <3>2. t.tally[a].votes = Cardinality(VotesOn(t.votes, a))
        BY <2>3, <2>8, <2>9, <3>1 DEF castTally, Tally
      <3>3. \A y \in VotesOn(s.votes, a) : y.authorize = authorize
        BY <1>2, <2>11 DEF Exact, votesMeaningful, validVote, VotesOn, Sound, Snapshots, Vote
      <3>4. \A y \in VotesOn(t.votes, a) : y.authorize = t.tally[a].authorize
        <4>1. CASE s.tally[a].votes > 0
          <5>1. t.tally[a].authorize = s.tally[a].authorize
            BY <4>1, <2>3, <2>8 DEF castTally, Tally
          <5>2. VotesOn(s.votes, a) # {}
            BY <4>1, <3>1, FS_EmptySet
          <5>3. s.tally[a].authorize = authorize
            BY <5>2, <3>1, <3>3
          <5> QED BY <5>1, <5>3, <3>3, <2>1, <2>8
        <4>2. CASE ~(s.tally[a].votes > 0)
          <5>1. t.tally[a].authorize = authorize
            BY <4>2, <2>8 DEF castTally
          <5> QED BY <5>1, <3>3, <2>1, <2>8
        <4> QED BY <4>1, <4>2
      <3>5. tallyIsRecount(t)
        BY <3>2, <3>4, <2>7, <2>11 DEF tallyIsRecount, Exact
      <3>6. votesMeaningful(t)
        BY <1>2, <2>1, <2>4, <2>11 DEF votesMeaningful, Exact
      <3> QED BY <3>5, <3>6 DEF Exact
    <2> QED BY <2>4, <2>5, <2>6, <2>10, <2>11 DEF Sound, t
  <1> QED BY <1>1, <1>2

(* A passed proposal is closed: no vote on the account and no tally remain. *)
LEMMA CloseSound ==
    ASSUME NEW s, Sound(s), NEW a \in Address
    PROVE  LET t == closeProposal(s, a)
           IN  /\ Sound(t)
               /\ tallyIsRecount(s) => tallyIsRecount(t)
               /\ \A v \in t.votes : v \in s.votes /\ v.address # a
               /\ t.signers = s.signers
               /\ t.number = s.number
  <1> DEFINE t == closeProposal(s, a)
  <1>1. /\ t \in Snapshots /\ t.votes = s.votes \ VotesOn(s.votes, a)
        /\ t.tally = [s.tally EXCEPT ![a] = NoTally]
        /\ t.signers = s.signers /\ t.number = s.number
    <2>1. [s.tally EXCEPT ![a] = NoTally] \in [Address -> Tally]
      BY DEF Sound, Snapshots, NoTally, Tally
    <2>2. s.votes \ VotesOn(s.votes, a) \in SUBSET Vote
      BY DEF Sound, Snapshots
    <2> QED BY <2>1, <2>2 DEF closeProposal, Sound, Snapshots
  <1> HIDE DEF t
  <1>2. IsFiniteSet(t.votes)
    BY <1>1, FS_Subset DEF Sound
  <1>3. oneVotePerAccount(t)
    BY <1>1 DEF oneVotePerAccount, Sound
  <1>4. \A b \in Address \ {a} : /\ VotesOn(t.votes, b) = VotesOn(s.votes, b)
                                /\ t.tally[b] = s.tally[b]
    BY <1>1 DEF VotesOn, Sound, Snapshots
  <1>5. VotesOn(t.votes, a) = {} /\ t.tally[a] = NoTally
    BY <1>1 DEF VotesOn, Sound, Snapshots
  <1>6. Cardinality(VotesOn(t.votes, a)) = 0 /\ t.tally[a].votes = 0
    BY <1>5, FS_EmptySet DEF NoTally
  <1>7. tallyCoversVotes(t)
    BY <1>4, <1>6 DEF tallyCoversVotes, Sound
  <1>8. tallyIsRecount(s) => tallyIsRecount(t)
    BY <1>4, <1>5, <1>6 DEF tallyIsRecount
  <1> QED BY <1>1, <1>2, <1>3, <1>7, <1>8 DEF Sound, VotesOn, t

(* Taking back all the votes of a signer: each account loses the one vote the
   signer may have on it. *)
LEMMA DiscardBySound ==
    ASSUME NEW s, Sound(s), NEW a \in Address
    PROVE  LET t == discardVotesBy(s, a)
           IN  /\ Sound(t)
               /\ tallyIsRecount(s) => tallyIsRecount(t)
               /\ t.votes \subseteq s.votes
               /\ t.signers = s.signers
               /\ t.number = s.number
  <1> DEFINE mine(b) == VotesBy(VotesOn(s.votes, b), a)
             entry(b) == IF mine(b) = {} THEN s.tally[b]
                         ELSE uncastTally(s.tally[b], (CHOOSE v \in mine(b) : TRUE).authorize)
             t == discardVotesBy(s, a)
  <1>1. ASSUME NEW b \in Address, mine(b) # {}
        PROVE  \E x \in Vote : /\ mine(b) = {x} /\ x \in VotesOn(s.votes, b)
                              /\ entry(b) = uncastTally(s.tally[b], x.authorize)
    <2>1. PICK x \in mine(b) : x = CHOOSE v \in mine(b) : TRUE
      BY <1>1
    <2>2. x \in Vote /\ x \in VotesOn(s.votes, b) /\ x.signer = a /\ x.address = b
      BY <2>1 DEF VotesBy, VotesOn, Sound, Snapshots
    <2>3. \A y \in mine(b) : y = x
      BY <2>2 DEF VotesBy, VotesOn, Sound, oneVotePerAccount
    <2>4. mine(b) = {x}
      BY <2>1, <2>3
    <2>5. entry(b) = uncastTally(s.tally[b], x.authorize)
      BY <1>1, <2>1
    <2> QED BY <2>2, <2>4, <2>5
  <1>2. t = [s EXCEPT !.votes = @ \ VotesBy(@, a), !.tally = [b \in Address |-> entry(b)]]
    BY DEF discardVotesBy
  <1> HIDE DEF entry
  <1>3. \A b \in Address : entry(b) \in Tally
    <2> SUFFICES ASSUME NEW b \in Address PROVE entry(b) \in Tally
      OBVIOUS
    <2>1. s.tally[b] \in Tally
      BY DEF Sound, Snapshots
    <2>2. CASE mine(b) = {}
      BY <2>1, <2>2 DEF entry
    <2>3. CASE mine(b) # {}
      <3>1. PICK x \in Vote : entry(b) = uncastTally(s.tally[b], x.authorize)
        BY <1>1, <2>3
      <3>2. x.authorize \in BOOLEAN
        BY DEF Vote
      <3> QED BY <2>1, <3>1, <3>2, TallyTypes
    <2> QED BY <2>2, <2>3
  <1>4. /\ t \in Snapshots /\ t.votes = s.votes \ VotesBy(s.votes, a)
        /\ t.tally = [b \in Address |-> entry(b)]
        /\ t.signers = s.signers /\ t.number = s.number
    <2>1. [b \in Address |-> entry(b)] \in [Address -> Tally]
      BY <1>3
    <2>2. s.votes \ VotesBy(s.votes, a) \in SUBSET Vote
      BY DEF Sound, Snapshots
    <2> QED BY <1>2, <2>1, <2>2 DEF Sound, Snapshots
  <1> HIDE DEF t
  <1>5. IsFiniteSet(t.votes)
    BY <1>4, FS_Subset DEF Sound
  <1>6. oneVotePerAccount(t)
    BY <1>4 DEF oneVotePerAccount, Sound
  <1>7. ASSUME NEW b \in Address
        PROVE  /\ Cardinality(VotesOn(t.votes, b)) <= t.tally[b].votes
               /\ tallyIsRecount(s) =>
                     /\ t.tally[b].votes = Cardinality(VotesOn(t.votes, b))
                     /\ \A y \in VotesOn(t.votes, b) : y.authorize = t.tally[b].authorize
    <2>1. VotesOn(t.votes, b) = VotesOn(s.votes, b) \ mine(b) /\ t.tally[b] = entry(b)
      BY <1>4 DEF VotesOn, VotesBy
    <2>2. CASE mine(b) = {}
      BY <2>1, <2>2 DEF entry, Sound, tallyCoversVotes, tallyIsRecount
    <2>3. CASE mine(b) # {}
      <3>1. PICK x \in Vote : /\ mine(b) = {x} /\ x \in VotesOn(s.votes, b)
                             /\ entry(b) = uncastTally(s.tally[b], x.authorize)
        BY <1>1, <2>3
      <3> DEFINE c == Cardinality(VotesOn(s.votes, b))
                 d == Cardinality(VotesOn(t.votes, b))
      <3>2. IsFiniteSet(VotesOn(s.votes, b)) /\ c \in Nat
        BY VotesOnFinite DEF Sound
      <3>3. d = c - 1 /\ d \in Nat
        <4>1. d = Cardinality(VotesOn(s.votes, b) \ {x})
          BY <2>1, <3>1
        <4>2. d = c - 1
          BY <4>1, <3>1, <3>2, FS_RemoveElement
        <4>3. d \in Nat
          BY <1>5, VotesOnFinite
        <4> QED BY <4>2, <4>3
      <3>4. c <= s.tally[b].votes /\ s.tally[b] \in Tally
        BY DEF Sound, tallyCoversVotes, Snapshots
      <3> HIDE DEF c, d
      <3>5. t.tally[b] = uncastTally(s.tally[b], x.authorize)
        BY <2>1, <3>1
      <3>6. d <= t.tally[b].votes
        BY <3>2, <3>3, <3>4, <3>5 DEF uncastTally, NoTally, Tally
      <3>7. ASSUME tallyIsRecount(s)
            PROVE  /\ t.tally[b].votes = d
                   /\ \A y \in VotesOn(t.votes, b) : y.authorize = t.tally[b].authorize
        <4>1. s.tally[b].votes = c /\ s.tally[b].authorize = x.authorize
              /\ \A y \in VotesOn(s.votes, b) : y.authorize = s.tally[b].authorize
          BY <3>1, <3>7 DEF tallyIsRecount, c
        <4>2. t.tally[b].votes = d
          BY <4>1, <3>2, <3>3, <3>4, <3>5 DEF uncastTally, NoTally, Tally
        <4>3. CASE c > 1
          <5>1. t.tally[b].authorize = s.tally[b].authorize
            BY <4>1, <4>3, <3>4, <3>5 DEF uncastTally, Tally
          <5> QED BY <5>1, <4>1, <4>2, <2>1
        <4>4. CASE ~(c > 1)
          <5>1. VotesOn(t.votes, b) = {}
            <6>1. d = 0
              BY <4>4, <3>2, <3>3
            <6> QED BY <6>1, <1>5, VotesOnFinite, FS_EmptySet DEF d
          <5> QED BY <5>1, <4>2
        <4> QED BY <4>3, <4>4
      <3> QED BY <3>6, <3>7 DEF d
    <2> QED BY <2>2, <2>3
  <1> QED BY <1>4, <1>5, <1>6, <1>7 DEF Sound, tallyCoversVotes, tallyIsRecount, t

(* Resolving a proposal, passed or not. *)
LEMMA ResolveSound ==
    ASSUME NEW s, Sound(s), NEW n \in Nat, NEW a \in Address
    PROVE  LET t == resolve(s, n, a)
           IN  /\ Sound(t)
               /\ Exact(s) => Exact(t)
               /\ t.number = s.number
  <1> DEFINE t == resolve(s, n, a)
  <1>1. CASE ~passed(s, a)
    BY <1>1 DEF resolve
  <1>2. CASE passed(s, a) /\ s.tally[a].authorize
    <2> DEFINE u == [s EXCEPT !.signers = @ \cup {a}]
    <2>1. /\ u \in Snapshots /\ u.votes = s.votes /\ u.tally = s.tally
          /\ u.signers = s.signers \cup {a} /\ u.number = s.number
      BY DEF Sound, Snapshots
    <2>2. t = closeProposal(u, a)
      BY <1>2 DEF resolve
    <2> HIDE DEF t, u
    <2>3. Sound(u) /\ (tallyIsRecount(s) => tallyIsRecount(u))
      BY <2>1 DEF Sound, oneVotePerAccount, tallyCoversVotes, tallyIsRecount
    <2>4. /\ Sound(t) /\ (tallyIsRecount(u) => tallyIsRecount(t)) /\ t.signers = u.signers
          /\ t.number = u.number /\ \A v \in t.votes : v \in u.votes /\ v.address # a
      BY <2>2, <2>3, CloseSound
    <2>5. votesMeaningful(s) => votesMeaningful(t)
      BY <2>1, <2>4 DEF votesMeaningful, validVote
    <2> QED BY <2>1, <2>3, <2>4, <2>5 DEF Exact, t
  <1>3. CASE passed(s, a) /\ ~s.tally[a].authorize
    <2> DEFINE left == [s EXCEPT !.signers = @ \ {a}]
               u == [left EXCEPT !.recents = dropRecent(@, n, left.signers)]
               w == discardVotesBy(u, a)
    <2>1. /\ u \in Snapshots /\ u.votes = s.votes /\ u.tally = s.tally
          /\ u.signers = s.signers \ {a} /\ u.number = s.number
      BY DEF Sound, Snapshots, dropRecent
    <2>2. t = closeProposal(w, a)
      BY <1>3 DEF resolve, dropSigner
    <2> HIDE DEF t, u, w
    <2>3. Sound(u) /\ (tallyIsRecount(s) => tallyIsRecount(u))
      BY <2>1 DEF Sound, oneVotePerAccount, tallyCoversVotes, tallyIsRecount
    <2>4. /\ Sound(w) /\ (tallyIsRecount(u) => tallyIsRecount(w))
          /\ w.votes \subseteq u.votes /\ w.signers = u.signers /\ w.number = u.number
      BY <2>3, DiscardBySound DEF w
    <2>5. /\ Sound(t) /\ (tallyIsRecount(w) => tallyIsRecount(t)) /\ t.signers = w.signers
          /\ t.number = w.number /\ \A v \in t.votes : v \in w.votes /\ v.address # a
      BY <2>2, <2>4, CloseSound
    <2>6. votesMeaningful(s) => votesMeaningful(t)
      BY <2>1, <2>4, <2>5 DEF votesMeaningful, validVote
    <2> QED BY <2>1, <2>3, <2>4, <2>5, <2>6 DEF Exact, t
  <1> QED BY <1>1, <1>2, <1>3

(* A whole header. *)
LEMMA ApplySound ==
    ASSUME NEW s, Sound(s), NEW h \in Header
    PROVE  LET t == applyHeader(s, h)
           IN  /\ Sound(t)
               /\ Exact(s) \/ isCheckpoint(s.number + 1) => Exact(t)
               /\ t.number = s.number + 1
  <1> DEFINE n  == s.number + 1
             s0 == clearAtCheckpoint(s, n)
             s1 == recordSigner(s0, n, h.signer)
             s2 == discardVote(s1, h.signer, h.coinbase)
             s3 == castVote(s2, n, h.signer, h.coinbase, h.authorize)
             s4 == resolve(s3, n, h.coinbase)
             t  == applyHeader(s, h)
  <1>1. n \in Nat /\ h.signer \in Address /\ h.coinbase \in Address /\ h.authorize \in BOOLEAN
    BY DEF Sound, Snapshots, Header
  <1>2. t = [s4 EXCEPT !.number = n]
    BY DEF applyHeader
  <1> HIDE DEF t, s0, s1, s2, s3, s4, n
  <1>3. Sound(s0) /\ (Exact(s) \/ isCheckpoint(n) => Exact(s0))
    BY <1>1, ClearSound DEF s0
  <1>4. Sound(s1) /\ (Exact(s0) => Exact(s1))
    BY <1>1, <1>3, RecordSound DEF s1
  <1>5. /\ Sound(s2) /\ (Exact(s1) => Exact(s2))
        /\ \A v \in s2.votes : ~(v.signer = h.signer /\ v.address = h.coinbase)
    <2>1. Sound(s2)
      BY <1>1, <1>4, DiscardSound DEF s2
    <2>2. Exact(s1) => Exact(s2)
      BY <1>1, <1>4, DiscardSound DEF s2
    <2>3. \A v \in s2.votes : ~(v.signer = h.signer /\ v.address = h.coinbase)
      BY <1>1, <1>4, DiscardSound DEF s2
    <2> QED BY <2>1, <2>2, <2>3
  <1>6. Sound(s3) /\ (Exact(s2) => Exact(s3))
    BY <1>1, <1>5, CastSound DEF s3
  <1>7. Sound(s4) /\ (Exact(s3) => Exact(s4))
    BY <1>1, <1>6, ResolveSound DEF s4
  <1>8. /\ t \in Snapshots /\ t.votes = s4.votes /\ t.tally = s4.tally
        /\ t.signers = s4.signers /\ t.number = n
    BY <1>1, <1>2, <1>7 DEF Sound, Snapshots
  <1>9. Sound(t) /\ (Exact(s4) => Exact(t))
    BY <1>7, <1>8 DEF Sound, Exact, oneVotePerAccount, tallyCoversVotes, tallyIsRecount,
                      votesMeaningful
  <1> QED BY <1>3, <1>4, <1>5, <1>6, <1>7, <1>8, <1>9 DEF t, n

-----------------------------------------------------------------------------
\* The inductive invariant: an election keeps the votes sound but not exact,
\* and the next checkpoint makes them exact again.
VotingInv ==
    /\ TypeOK
    /\ Sound(snap)
    /\ ~replaced => Exact(snap)

(* The genesis snapshot has no votes. *)
LEMMA VotingInit == Init => VotingInv
  <1> SUFFICES ASSUME Init PROVE VotingInv
    OBVIOUS
  <1>1. /\ snap \in Snapshots /\ snap.votes = {}
        /\ snap.tally = [a \in Address |-> NoTally]
    BY GenesisAssumption DEF Init, newSnapshot, Snapshots, NoTally, Tally
  <1>2. \A a \in Address : VotesOn(snap.votes, a) = {} /\ snap.tally[a].votes = 0
    BY <1>1 DEF VotesOn, NoTally
  <1>3. Cardinality({}) = 0 /\ IsFiniteSet({})
    BY FS_EmptySet
  <1>4. Sound(snap)
    BY <1>1, <1>2, <1>3 DEF Sound, oneVotePerAccount, tallyCoversVotes
  <1>5. Exact(snap)
    BY <1>1, <1>2, <1>3 DEF Exact, tallyIsRecount, votesMeaningful
  <1>6. TypeOK
    BY <1>1, GenesisAssumption DEF Init, TypeOK
  <1> QED BY <1>4, <1>5, <1>6 DEF VotingInv

(* Every block keeps the invariant. *)
LEMMA VotingStep == VotingInv /\ [Next]_vars => VotingInv'
  <1> SUFFICES ASSUME VotingInv, [Next]_vars PROVE VotingInv'
    OBVIOUS
  <1> USE DEF VotingInv
  <1>1. ASSUME NEW h \in Header, InsertBlock(h) PROVE VotingInv'
    <2>1. Sound(snap') /\ (Exact(snap) => Exact(snap'))
      BY <1>1, ApplySound DEF InsertBlock
    <2> QED BY <1>1, <2>1 DEF InsertBlock, TypeOK, Sound
  <1>2. ASSUME NEW h \in Header, NEW elected \in SUBSET (Address \ {ZeroAddress}) \ {{}},
               InsertGapBlock(h, elected)
        PROVE  VotingInv'
    <2> DEFINE t == applyHeader(snap, h)
    <2>1. Sound(t)
      BY ApplySound
    <2>2. snap' = [t EXCEPT !.signers = elected] /\ replaced' = TRUE
      BY <1>2 DEF InsertGapBlock
    <2> HIDE DEF t
    <2>3. /\ snap' \in Snapshots /\ snap'.votes = t.votes /\ snap'.tally = t.tally
      BY <2>1, <2>2 DEF Sound, Snapshots
    <2>4. Sound(snap')
      BY <2>1, <2>3 DEF Sound, oneVotePerAccount, tallyCoversVotes
    <2> QED BY <1>2, <2>2, <2>3, <2>4 DEF InsertGapBlock, TypeOK
  <1>3. ASSUME NEW h \in Header, NEW penalties \in SUBSET (Address \ {ZeroAddress}),
               InsertCheckpoint(h, penalties)
        PROVE  VotingInv'
    <2>1. Sound(snap') /\ Exact(snap')
      BY <1>3, ApplySound DEF InsertCheckpoint
    <2>2. masternodes' \in SUBSET Address
      BY <1>3 DEF InsertCheckpoint, Sound, Snapshots
    <2> QED BY <1>3, <2>1, <2>2 DEF InsertCheckpoint, TypeOK, Sound
  <1>4. CASE UNCHANGED vars
    BY <1>4 DEF vars, TypeOK
  <1> QED BY <1>1, <1>2, <1>3, <1>4 DEF Next

(* On every chain, whatever elections replace the signers: the state is well
   typed, a signer has at most one vote on an account, and no listed vote is
   missing from the tally that decides proposals. *)
THEOREM VotesAreTallied ==
    Spec => [](TypeOK /\ OneVotePerAccount /\ TallyCoversVotes)
  <1>1. VotingInv => TypeOK /\ OneVotePerAccount /\ TallyCoversVotes
    BY DEF VotingInv, Sound, OneVotePerAccount, TallyCoversVotes
  <1> QED BY <1>1, VotingInit, VotingStep, PTL DEF Spec

(* Between a checkpoint and the next election the tally apply keeps is the
   recount of the listed votes, so cast and uncast never drift from them. *)
THEOREM TallyIsExact == Spec => []TallyIsRecountUnlessReplaced
  <1>1. VotingInv => TallyIsRecountUnlessReplaced
    BY DEF VotingInv, Exact, TallyIsRecountUnlessReplaced
  <1> QED BY <1>1, VotingInit, VotingStep, PTL DEF Spec

(* Both together: apply, cast and uncast count the votes right, whatever the
   accounts, the epoch and the gap. *)
THEOREM VotesAreCounted == Spec => []VotesCounted
  <1>1. TypeOK /\ OneVotePerAccount /\ TallyCoversVotes /\ TallyIsRecountUnlessReplaced
           => VotesCounted
    BY DEF VotesCounted
  <1> QED BY <1>1, VotesAreTallied, TallyIsExact, PTL

-----------------------------------------------------------------------------
(* limit is at least one, so deleting block n - limit spares block n. *)
LEMMA LimitPositive ==
    ASSUME NEW ss \in SUBSET Address
    PROVE  limit(ss) \in Nat \ {0}
  <1>1. Cardinality(ss) \in Nat
    BY AddressAssumption, FS_Subset, FS_CardinalityType
  <1> QED BY <1>1 DEF limit

(* Resolving a proposal deletes at most block n - limit from the record. *)
LEMMA ResolveKeepsRecents ==
    ASSUME NEW s \in Snapshots, NEW n \in Nat, NEW a
    PROVE  /\ resolve(s, n, a).recents \subseteq s.recents
           /\ \A r \in s.recents : r.block = n => r \in resolve(s, n, a).recents
  <1>1. \/ resolve(s, n, a).recents = s.recents
        \/ resolve(s, n, a).recents = dropRecent(s.recents, n, s.signers \ {a})
    BY DEF resolve, closeProposal, dropSigner, discardVotesBy, Snapshots
  <1>2. limit(s.signers \ {a}) \in Nat \ {0}
    BY LimitPositive DEF Snapshots
  <1>3. /\ dropRecent(s.recents, n, s.signers \ {a}) \subseteq s.recents
        /\ \A r \in s.recents : r.block = n => r \in dropRecent(s.recents, n, s.signers \ {a})
    BY <1>2 DEF dropRecent
  <1> QED BY <1>1, <1>3

(* After a header is applied, its creator and nobody else is on record for
   its block, and nothing else is added to the record. *)
LEMMA ApplyRecents ==
    ASSUME NEW s, Sound(s), NEW h \in Header
    PROVE  LET n == s.number + 1
               t == applyHeader(s, h)
               e == [block |-> n, signer |-> h.signer]
           IN  /\ e \in t.recents
               /\ \A q \in t.recents : q = e \/ q \in s.recents
               /\ \A q \in t.recents : q.block = n => q = e
  <1> DEFINE n  == s.number + 1
             e  == [block |-> n, signer |-> h.signer]
             s0 == clearAtCheckpoint(s, n)
             s1 == recordSigner(s0, n, h.signer)
             s2 == discardVote(s1, h.signer, h.coinbase)
             s3 == castVote(s2, n, h.signer, h.coinbase, h.authorize)
             s4 == resolve(s3, n, h.coinbase)
             t  == applyHeader(s, h)
  <1>1. n \in Nat /\ h.signer \in Address /\ h.coinbase \in Address /\ h.authorize \in BOOLEAN
    BY DEF Sound, Snapshots, Header
  <1>2. t = [s4 EXCEPT !.number = n]
    BY DEF applyHeader
  <1>3. s0.recents = s.recents /\ s0.signers = s.signers
    BY DEF clearAtCheckpoint, Sound, Snapshots
  <1>4. Sound(s0)
    BY <1>1, ClearSound
  <1>5. s1.recents = {r \in dropRecent(s0.recents, n, s0.signers) : r.block # n} \cup {e}
    BY <1>4 DEF recordSigner, Sound, Snapshots
  <1> HIDE DEF t, s0, s1, s2, s3, s4, n
  <1>6. Sound(s1)
    BY <1>1, <1>4, RecordSound DEF s1
  <1>7. Sound(s2) /\ s2.recents = s1.recents
    <2>1. Sound(s2)
      BY <1>1, <1>6, DiscardSound DEF s2
    <2>2. s2.recents = s1.recents
      <3>1. s1 \in Snapshots
        BY <1>6 DEF Sound
      <3> QED BY <3>1 DEF s2, discardVote, Snapshots
    <2> QED BY <2>1, <2>2
  <1>8. s3 \in Snapshots /\ s3.recents = s2.recents
    <2>1. \A v \in s2.votes : ~(v.signer = h.signer /\ v.address = h.coinbase)
      BY <1>1, <1>6, DiscardSound DEF s2
    <2>2. Sound(s3)
      BY <1>1, <1>7, <2>1, CastSound DEF s3
    <2>3. s3.recents = s2.recents
      BY <1>7 DEF s3, castVote, Sound, Snapshots
    <2> QED BY <2>2, <2>3 DEF Sound
  <1>9. /\ s4.recents \subseteq s3.recents
        /\ \A r \in s3.recents : r.block = n => r \in s4.recents
    BY <1>1, <1>8, ResolveKeepsRecents DEF s4
  <1>10. t.recents = s4.recents
    <2>1. Sound(s3)
      <3>1. \A v \in s2.votes : ~(v.signer = h.signer /\ v.address = h.coinbase)
        BY <1>1, <1>6, DiscardSound DEF s2
      <3> QED BY <1>1, <1>7, <3>1, CastSound DEF s3
    <2>2. s4 \in Snapshots
      BY <1>1, <2>1, ResolveSound DEF s4, Sound
    <2> QED BY <1>2, <2>2 DEF Snapshots
  <1>11. /\ e \in t.recents
         /\ \A q \in t.recents : q = e \/ q \in s.recents
         /\ \A q \in t.recents : q.block = n => q = e
    BY <1>3, <1>5, <1>7, <1>8, <1>9, <1>10 DEF dropRecent
  <1> QED BY <1>11 DEF t, n

\* The recorded blocks exist, and the head is one of them.
RecentsInv ==
    /\ \A r \in snap.recents : r.block \in 1 .. snap.number
    /\ CreatorRecorded

(* The record stays within the chain. *)
LEMMA RecentsStep == VotingInv /\ RecentsInv /\ [Next]_vars => RecentsInv'
  <1> SUFFICES ASSUME VotingInv, RecentsInv, [Next]_vars PROVE RecentsInv'
    OBVIOUS
  <1>1. ASSUME NEW h \in Header, snap'.recents = applyHeader(snap, h).recents,
               snap'.number = snap.number + 1
        PROVE  RecentsInv'
    <2>1. Sound(snap) /\ snap.number \in Nat
      BY DEF VotingInv, TypeOK, Snapshots
    <2>2. \A q \in snap'.recents :
             q = [block |-> snap.number + 1, signer |-> h.signer] \/ q \in snap.recents
      BY <1>1, <2>1, ApplyRecents
    <2>3. [block |-> snap.number + 1, signer |-> h.signer] \in snap'.recents
      BY <1>1, <2>1, ApplyRecents
    <2> QED BY <1>1, <2>1, <2>2, <2>3 DEF RecentsInv, CreatorRecorded
  <1>2. \A h \in Header : Sound(applyHeader(snap, h))
                        /\ applyHeader(snap, h).number = snap.number + 1
    BY ApplySound DEF VotingInv
  <1>3. ASSUME NEW h \in Header, InsertBlock(h) PROVE RecentsInv'
    BY <1>1, <1>2, <1>3 DEF InsertBlock
  <1>4. ASSUME NEW h \in Header, NEW elected, InsertGapBlock(h, elected) PROVE RecentsInv'
    BY <1>1, <1>2, <1>4 DEF InsertGapBlock, Sound, Snapshots
  <1>5. ASSUME NEW h \in Header, NEW penalties, InsertCheckpoint(h, penalties) PROVE RecentsInv'
    BY <1>1, <1>2, <1>5 DEF InsertCheckpoint
  <1>6. CASE UNCHANGED vars
    BY <1>6 DEF vars, RecentsInv, CreatorRecorded
  <1> QED BY <1>3, <1>4, <1>5, <1>6 DEF Next

(* verifySeal, which only looks at the record kept by apply, never lets one
   masternode of several create two blocks in a row inside an epoch. *)
THEOREM NoTwoInARow == Spec => NoConsecutiveBlocks
  <1> DEFINE Step == \A r \in snap.recents, q \in snap'.recents :
                        /\ r.block = snap.number
                        /\ q.block = snap.number + 1
                        /\ ~isCheckpoint(snap.number + 1)
                        /\ Cardinality(masternodes) > 1
                        => r.signer # q.signer
  <1>1. Init => RecentsInv
    BY DEF Init, newSnapshot, RecentsInv, CreatorRecorded
  <1>2. VotingInv /\ RecentsInv /\ [Next]_vars => [Step]_vars
    <2> SUFFICES ASSUME VotingInv, RecentsInv, Next,
                        NEW r \in snap.recents, NEW q \in snap'.recents,
                        r.block = snap.number, q.block = snap.number + 1,
                        ~isCheckpoint(snap.number + 1), Cardinality(masternodes) > 1
                 PROVE  r.signer # q.signer
      OBVIOUS
    <2>1. Sound(snap) /\ snap.number \in Nat /\ snap.number >= 1
      BY DEF VotingInv, TypeOK, Snapshots, RecentsInv
    <2>2. PICK h \in Header : /\ snap'.recents = applyHeader(snap, h).recents
                             /\ verifySeal(h, snap.number + 1, masternodes)
      <3>1. \A h \in Header : Sound(applyHeader(snap, h))
        BY <2>1, ApplySound
      <3> QED BY <3>1 DEF Next, InsertBlock, InsertGapBlock, InsertCheckpoint, Sound, Snapshots
    <2>3. q.signer = h.signer
      <3>1. \A x \in applyHeader(snap, h).recents :
               x.block = snap.number + 1 => x = [block |-> snap.number + 1, signer |-> h.signer]
        BY <2>1, ApplyRecents
      <3>2. q = [block |-> snap.number + 1, signer |-> h.signer]
        BY <2>2, <3>1
      <3> QED BY <3>2
    <2>4. Cardinality(masternodes) \in Nat
      <3>1. masternodes \in SUBSET Address
        BY DEF VotingInv, TypeOK
      <3> QED BY <3>1, AddressAssumption, FS_Subset, FS_CardinalityType
    <2>5. r.signer = h.signer => r.block <= snap.number - 1
      BY <2>1, <2>2, <2>4 DEF verifySeal
    <2> QED BY <2>1, <2>3, <2>5
  <1> QED BY <1>1, <1>2, VotingInit, VotingStep, RecentsStep, PTL DEF Spec, NoConsecutiveBlocks

(* Deleting old entries never loses the creator of the head, on which the
   refusal of its next block depends. *)
THEOREM HeadCreatorIsRecorded == Spec => []CreatorRecorded
  <1>1. Init => RecentsInv
    BY DEF Init, newSnapshot, RecentsInv, CreatorRecorded
  <1>2. RecentsInv => CreatorRecorded
    BY DEF RecentsInv
  <1> QED BY <1>1, <1>2, VotingInit, VotingStep, RecentsStep, PTL DEF Spec

-----------------------------------------------------------------------------
(* Resolving a proposal changes the membership of its account at most. *)
LEMMA ResolveSigners ==
    ASSUME NEW s \in Snapshots, NEW n, NEW a \in Address, resolve(s, n, a).signers # s.signers
    PROVE  /\ passed(s, a)
           /\ resolve(s, n, a).signers \in {s.signers \cup {a}, s.signers \ {a}}
  BY DEF resolve, closeProposal, dropSigner, discardVotesBy, Snapshots

(* The votes on an account have different signers. *)
LEMMA VotersCounted ==
    ASSUME NEW s, Sound(s), NEW a, NEW T \in SUBSET Address,
           \A w \in VotesOn(s.votes, a) : w.signer \in T
    PROVE  Cardinality(VotesOn(s.votes, a)) <= Cardinality(T) /\ Cardinality(T) \in Nat
  <1> DEFINE S == VotesOn(s.votes, a)
             f == [w \in S |-> w.signer]
  <1>1. f \in [S -> T]
    OBVIOUS
  <1>2. ASSUME NEW v \in S, NEW w \in S, f[v] = f[w] PROVE v = w
    BY <1>2 DEF VotesOn, Sound, oneVotePerAccount
  <1>3. f \in Injection(S, T)
    BY <1>1, <1>2 DEF Injection, IsInjective
  <1>4. IsFiniteSet(T) /\ Cardinality(T) \in Nat
    BY AddressAssumption, FS_Subset, FS_CardinalityType
  <1> HIDE DEF f, S
  <1>5. Cardinality(S) <= Cardinality(T)
    BY <1>3, <1>4, FS_Injection
  <1> QED BY <1>4, <1>5 DEF S

(* Before a proposal is resolved, the only vote on its account that the
   snapshot did not hold is the one of the header's creator. *)
LEMMA VotesBeforeResolve ==
    ASSUME NEW s, Sound(s), NEW h \in Header
    PROVE  LET n  == s.number + 1
               s0 == clearAtCheckpoint(s, n)
               s1 == recordSigner(s0, n, h.signer)
               s2 == discardVote(s1, h.signer, h.coinbase)
               s3 == castVote(s2, n, h.signer, h.coinbase, h.authorize)
           IN  /\ Sound(s3) /\ s3.signers = s.signers
               /\ Exact(s) \/ isCheckpoint(n) => Exact(s3)
               /\ \A w \in s3.votes : w \in s.votes \/ w.signer = h.signer
  <1> DEFINE n  == s.number + 1
             s0 == clearAtCheckpoint(s, n)
             s1 == recordSigner(s0, n, h.signer)
             s2 == discardVote(s1, h.signer, h.coinbase)
             s3 == castVote(s2, n, h.signer, h.coinbase, h.authorize)
  <1>1. n \in Nat /\ h.signer \in Address /\ h.coinbase \in Address /\ h.authorize \in BOOLEAN
    BY DEF Sound, Snapshots, Header
  <1>2. s0.votes \subseteq s.votes
    BY DEF clearAtCheckpoint, Sound, Snapshots
  <1> HIDE DEF s0, s1, s2, s3, n
  <1>3. Sound(s0) /\ s0.signers = s.signers /\ (Exact(s) \/ isCheckpoint(n) => Exact(s0))
    BY <1>1, ClearSound DEF s0
  <1>4. /\ Sound(s1) /\ s1.signers = s0.signers /\ (Exact(s0) => Exact(s1))
        /\ s1.votes = s0.votes
    <2>1. Sound(s1) /\ s1.signers = s0.signers /\ (Exact(s0) => Exact(s1))
      BY <1>1, <1>3, RecordSound DEF s1
    <2>2. s1.votes = s0.votes
      BY <1>3 DEF s1, recordSigner, Sound, Snapshots
    <2> QED BY <2>1, <2>2
  <1>5. /\ Sound(s2) /\ s2.signers = s1.signers /\ s2.votes \subseteq s1.votes
        /\ \A v \in s2.votes : ~(v.signer = h.signer /\ v.address = h.coinbase)
    <2>0. Sound(s1)
      BY <1>4
    <2>1. Sound(s2) /\ s2.signers = s1.signers
      BY <1>1, <2>0, DiscardSound DEF s2
    <2>2. s2.votes \subseteq s1.votes
      BY <1>1, <2>0, DiscardSound DEF s2
    <2>3. \A v \in s2.votes : ~(v.signer = h.signer /\ v.address = h.coinbase)
      BY <1>1, <2>0, DiscardSound DEF s2
    <2> QED BY <2>1, <2>2, <2>3
  <1>6. Exact(s1) => Exact(s2)
    BY <1>1, <1>4, DiscardSound DEF s2
  <1>7. Sound(s3) /\ s3.signers = s2.signers /\ (Exact(s2) => Exact(s3))
    BY <1>1, <1>5, CastSound DEF s3
  <1>8. \A w \in s3.votes : w \in s2.votes \/ w.signer = h.signer
    BY <1>5 DEF s3, castVote, Sound, Snapshots
  <1>9. /\ Sound(s3) /\ s3.signers = s.signers
        /\ Exact(s) \/ isCheckpoint(n) => Exact(s3)
        /\ \A w \in s3.votes : w \in s.votes \/ w.signer = h.signer
    BY <1>2, <1>3, <1>4, <1>5, <1>6, <1>7, <1>8
  <1> QED BY <1>9 DEF s3, s2, s1, s0, n

(* A header that changes the signers is backed by more than half of them. *)
LEMMA ApplyMajority ==
    ASSUME NEW s, Sound(s), NEW h \in Header, Exact(s) \/ isCheckpoint(s.number + 1),
           applyHeader(s, h).signers # s.signers
    PROVE  /\ applyHeader(s, h).signers \in {s.signers \cup {h.coinbase},
                                             s.signers \ {h.coinbase}}
           /\ Cardinality({w.signer : w \in VotesOn(s.votes, h.coinbase)} \cup {h.signer})
                > Cardinality(s.signers) \div 2
  <1> DEFINE n  == s.number + 1
             a  == h.coinbase
             s3 == castVote(discardVote(recordSigner(clearAtCheckpoint(s, n), n, h.signer),
                                        h.signer, a),
                            n, h.signer, a, h.authorize)
             s4 == resolve(s3, n, a)
             T  == {w.signer : w \in VotesOn(s.votes, a)} \cup {h.signer}
  <1>1. n \in Nat /\ h.signer \in Address /\ a \in Address
    BY DEF Sound, Snapshots, Header
  <1>2. /\ Sound(s3) /\ s3.signers = s.signers /\ Exact(s3)
        /\ \A w \in s3.votes : w \in s.votes \/ w.signer = h.signer
    BY VotesBeforeResolve
  <1>3. applyHeader(s, h) = [s4 EXCEPT !.number = n]
    BY DEF applyHeader
  <1> HIDE DEF s3, s4, n
  <1>4. s4 \in Snapshots
    BY <1>1, <1>2, ResolveSound DEF s4, Sound
  <1>5. applyHeader(s, h).signers = s4.signers
    BY <1>3, <1>4 DEF Snapshots
  <1>6. passed(s3, a) /\ s4.signers \in {s3.signers \cup {a}, s3.signers \ {a}}
    BY <1>1, <1>2, <1>5, ResolveSigners DEF s4, Sound
  <1>7. s3.tally[a].votes = Cardinality(VotesOn(s3.votes, a))
    BY <1>1, <1>2 DEF Exact, tallyIsRecount
  <1>8. T \in SUBSET Address
    BY <1>1 DEF VotesOn, Sound, Snapshots, Vote
  <1>9. \A w \in VotesOn(s3.votes, a) : w.signer \in T
    BY <1>2 DEF VotesOn
  <1> HIDE DEF T
  <1>10. Cardinality(VotesOn(s3.votes, a)) <= Cardinality(T) /\ Cardinality(T) \in Nat
    BY <1>2, <1>8, <1>9, VotersCounted
  <1>11. Cardinality(VotesOn(s3.votes, a)) \in Nat /\ Cardinality(s.signers) \in Nat
    <2>1. s.signers \in SUBSET Address
      BY DEF Sound, Snapshots
    <2>2. Cardinality(s.signers) \in Nat
      BY <2>1, AddressAssumption, FS_Subset, FS_CardinalityType
    <2>3. Cardinality(VotesOn(s3.votes, a)) \in Nat
      BY <1>2, VotesOnFinite DEF Sound
    <2> QED BY <2>2, <2>3
  <1>12. Cardinality(VotesOn(s3.votes, a)) > Cardinality(s.signers) \div 2
    BY <1>2, <1>6, <1>7 DEF passed
  <1>13. Cardinality(T) > Cardinality(s.signers) \div 2
    BY <1>10, <1>11, <1>12
  <1> QED BY <1>2, <1>5, <1>6, <1>13 DEF T

(* Outside an election no block changes more than the membership of one
   account, and none does without a majority: what apply counts for a
   proposal are accounts, the creator of the block among them, and more than
   half as many as there are signers. *)
THEOREM MajorityChangesMembership == Spec => MembershipNeedsMajority
  <1> DEFINE Step == ~isGapBlock(snap.number + 1) /\ ~replaced /\ snap'.signers # snap.signers =>
            \E a \in Address, q \in snap'.recents :
               /\ q.block = snap.number + 1
               /\ snap'.signers \in {snap.signers \cup {a}, snap.signers \ {a}}
               /\ Cardinality({w.signer : w \in VotesOn(snap.votes, a)} \cup {q.signer})
                     > Cardinality(snap.signers) \div 2
  <1>1. VotingInv /\ [Next]_vars => [Step]_vars
    <2> SUFFICES ASSUME VotingInv, Next, ~isGapBlock(snap.number + 1), ~replaced,
                        snap'.signers # snap.signers
                 PROVE  \E a \in Address, q \in snap'.recents :
                           /\ q.block = snap.number + 1
                           /\ snap'.signers \in {snap.signers \cup {a}, snap.signers \ {a}}
                           /\ Cardinality({w.signer : w \in VotesOn(snap.votes, a)}
                                             \cup {q.signer})
                                 > Cardinality(snap.signers) \div 2
      OBVIOUS
    <2>1. Sound(snap) /\ Exact(snap)
      BY DEF VotingInv
    <2>2. PICK h \in Header : snap' = applyHeader(snap, h)
      BY DEF Next, InsertBlock, InsertGapBlock, InsertCheckpoint
    <2> DEFINE q == [block |-> snap.number + 1, signer |-> h.signer]
    <2>3. q \in snap'.recents
      BY <2>1, <2>2, ApplyRecents
    <2>4. /\ snap'.signers \in {snap.signers \cup {h.coinbase}, snap.signers \ {h.coinbase}}
          /\ Cardinality({w.signer : w \in VotesOn(snap.votes, h.coinbase)} \cup {h.signer})
                > Cardinality(snap.signers) \div 2
      BY <2>1, <2>2, ApplyMajority
    <2>5. h.coinbase \in Address /\ q.block = snap.number + 1 /\ q.signer = h.signer
      BY DEF Header
    <2> HIDE DEF q
    <2> QED BY <2>3, <2>4, <2>5
  <1> QED BY <1>1, VotingInit, VotingStep, PTL DEF Spec, MembershipNeedsMajority
=============================================================================
