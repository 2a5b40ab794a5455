----------------------------- MODULE M2Shuffle -----------------------------
(***************************************************************************)
(* The loop of GenM2FromRandomize: it draws the validators of an epoch     *)
(* from the numbers 0 .. lenSigners - 1.  rand.Intn, seeded with the sum   *)
(* of the masternodes' random numbers, is any choice within its range.     *)
(* The arrays are indexed from 0.                                          *)
(***************************************************************************)
EXTENDS Integers

CONSTANT MaxSigners    \* bound on the number of masternodes

VARIABLES
    lenSigners,
    blockValidator,    \* the numbers that are still in the urn, at 0 .. i
    randIndexs,        \* the result, at i + 1 .. lenSigners - 1
    i                  \* the loop's index; -1 when it is done

vars == <<lenSigners, blockValidator, randIndexs, i>>

Indices(n) == 0 .. n - 1

Init ==
    /\ lenSigners \in 1 .. MaxSigners
    /\ blockValidator = [k \in Indices(lenSigners) |-> k]
    /\ randIndexs = [k \in Indices(lenSigners) |-> 0]
    /\ i = lenSigners - 1

\* Slip: the last number of the urn may be drawn at its own place.
blockLengthFull == i + 1

\* The urn's length less one, and at least one.
blockLength == IF i <= 1 THEN 1 ELSE i

\* The last number takes the place of the one drawn.
urn(randomIndex) ==
    [k \in 0 .. i - 1 |-> IF k = randomIndex THEN blockValidator[i] ELSE blockValidator[k]]

Draw(randomIndex) ==
    /\ i >= 0
    /\ blockValidator' = urn(randomIndex)
    /\ randIndexs' = [randIndexs EXCEPT ![i] = blockValidator[randomIndex]]
    /\ i' = i - 1
    /\ UNCHANGED lenSigners

Next == \E randomIndex \in 0 .. blockLength - 1 : Draw(randomIndex)

Spec == Init /\ [][Next]_vars

-----------------------------------------------------------------------------
(* Every masternode is drawn as the validator of exactly one: the result of
   GenM2FromRandomize is a permutation. *)
DrawnOnce ==
    i = -1 => /\ \A k \in Indices(lenSigners) : randIndexs[k] \in Indices(lenSigners)
              /\ \A k, l \in Indices(lenSigners) : randIndexs[k] = randIndexs[l] => k = l

(* And nobody is drawn to validate their own blocks, unless they are alone. *)
NoneForItself ==
    i = -1 /\ lenSigners > 1 => \A k \in Indices(lenSigners) : randIndexs[k] # k
=============================================================================
