----------------------------- MODULE Randomize -----------------------------
(***************************************************************************)
(* A masternode's random number for the next validators: it commits to a   *)
(* secret in one window of the epoch and opens it in the next              *)
(* (CreateTransactionSign, TomoRandomize.sol).  The key is kept in the     *)
(* database between the two.  The node may crash between any two steps of  *)
(* a call; its transactions reach a block later, in order, or, once it     *)
(* crashed, never.                                                         *)
(*                                                                         *)
(* A secret is the key it is encrypted with: what the contract holds       *)
(* decrypts to a number if secret and opening are the same key.            *)
(***************************************************************************)
EXTENDS Integers, Sequences

CONSTANTS
    Epoch, EpocBlockSecret, EpocBlockOpening,
    MaxNumber,      \* bound on the length of the chain
    MaxKeys,        \* bound on the keys generated
    MaxCrashes      \* bound on crashes

VARIABLES
    number,         \* of the head
    pool,           \* transactions [kind, key] not yet in a block
    randomSecret, randomOpening,    \* of the contract, for this masternode; 0 when unset
    randomizeKey,   \* in chainDb; 0 when there is none
    call,           \* [at, block, key]: progress of CreateTransactionSign
    signed,         \* number of the last block the call was made for
    keys,           \* keys generated so far
    crashes,
    lastSecret,     \* history: key of the last secret handed to the pool
    reverted        \* history: a secret or opening was refused by the contract

vars == <<number, pool, randomSecret, randomOpening, randomizeKey, call, signed, keys,
          crashes, lastSecret, reverted>>

Idle == [at |-> "idle", block |-> 0, key |-> 0]

Init ==
    /\ number = 0 /\ pool = <<>> /\ randomSecret = 0 /\ randomOpening = 0
    /\ randomizeKey = 0 /\ call = Idle /\ signed = 0 /\ keys = 0 /\ crashes = 0
    /\ lastSecret = 0 /\ reverted = FALSE

-----------------------------------------------------------------------------
(* The contract. *)

accepts(tx, n) ==
    IF tx.kind = "secret" THEN n % Epoch >= EpocBlockSecret /\ n % Epoch < EpocBlockOpening
    ELSE n % Epoch >= EpocBlockOpening

\* A block with the next transaction of the pool, or without.
Include ==
    /\ pool # <<>> /\ number < MaxNumber
    /\ number' = number + 1 /\ pool' = Tail(pool)
    /\ LET tx == Head(pool)
           ok == accepts(tx, number + 1)
       IN  /\ randomSecret' = IF ok /\ tx.kind = "secret" THEN tx.key ELSE randomSecret
           /\ randomOpening' = IF ok /\ tx.kind = "opening" THEN tx.key ELSE randomOpening
           /\ reverted' = (reverted \/ ~ok)
    /\ UNCHANGED <<randomizeKey, call, signed, keys, crashes, lastSecret>>

EmptyBlock ==
    /\ number < MaxNumber /\ number' = number + 1
    /\ UNCHANGED <<pool, randomSecret, randomOpening, randomizeKey, call, signed, keys,
                   crashes, lastSecret, reverted>>

-----------------------------------------------------------------------------
(* CreateTransactionSign, for the head or a block shortly before. *)

check(b) == b % Epoch

\* Up to the read of the key; the signing transaction itself is not looked at.
Begin(b) ==
    /\ call = Idle /\ b > signed /\ signed' = b
    /\ CASE randomizeKey = 0 /\ check(b) >= EpocBlockSecret /\ check(b) < EpocBlockOpening ->
                /\ keys < MaxKeys /\ keys' = keys + 1
                /\ call' = [at |-> "secret", block |-> b, key |-> keys + 1]
         [] randomizeKey # 0 /\ check(b) > 0 /\ check(b) >= EpocBlockOpening ->
                /\ call' = [at |-> "opening", block |-> b, key |-> randomizeKey]
                /\ UNCHANGED keys
         [] OTHER -> UNCHANGED <<call, keys>>
    /\ UNCHANGED <<number, pool, randomSecret, randomOpening, randomizeKey, crashes,
                   lastSecret, reverted>>

AddLocal(kind) == pool' = Append(pool, [kind |-> kind, key |-> call.key])

\* What chainDb holds when AddLocal returns.
savedSoFar == randomizeKey

SendSecret ==
    /\ call.at = "secret" /\ AddLocal("secret")
    /\ call' = [call EXCEPT !.at = "put"] /\ lastSecret' = call.key
    /\ randomizeKey' = savedSoFar
    /\ UNCHANGED <<number, randomSecret, randomOpening, signed, keys, crashes, reverted>>

\* AddLocal refuses the transaction, and the call returns.
Refused ==
    /\ call.at \in {"secret", "opening"} /\ call' = Idle
    /\ randomizeKey' = savedSoFar
    /\ UNCHANGED <<number, pool, randomSecret, randomOpening, signed, keys, crashes,
                   lastSecret, reverted>>

\* Slip: the key saved is drawn again.
keyToSaveAgain == keys + 1

keyToSave == call.key

Put ==
    /\ call.at = "put" /\ randomizeKey' = keyToSave /\ call' = Idle
    /\ UNCHANGED <<number, pool, randomSecret, randomOpening, signed, keys, crashes,
                   lastSecret, reverted>>

SendOpening ==
    /\ call.at = "opening" /\ AddLocal("opening")
    /\ call' = [call EXCEPT !.at = "delete"]
    /\ UNCHANGED <<number, randomSecret, randomOpening, randomizeKey, signed, keys, crashes,
                   lastSecret, reverted>>

Delete ==
    /\ call.at = "delete" /\ randomizeKey' = 0 /\ call' = Idle
    /\ UNCHANGED <<number, pool, randomSecret, randomOpening, signed, keys, crashes,
                   lastSecret, reverted>>

\* The transactions may have reached other nodes; the journal does not hold them.
Crash ==
    /\ crashes < MaxCrashes /\ crashes' = crashes + 1
    /\ call' = Idle /\ pool' \in {pool, <<>>}
    /\ UNCHANGED <<number, randomSecret, randomOpening, randomizeKey, signed, keys,
                   lastSecret, reverted>>

Next ==
    \/ Include \/ EmptyBlock \/ SendSecret \/ Refused \/ Put \/ SendOpening \/ Delete \/ Crash
    \/ \E b \in {number - 1, number} : Begin(b)

Spec == Init /\ [][Next]_vars

-----------------------------------------------------------------------------
(* The key in the database belongs to the last secret that was handed to the pool,
   whatever is refused or crashes in between: an opening made with it fits the last
   secret. *)
KeyIsForLastSecret == randomizeKey # 0 => randomizeKey = lastSecret

(* Without a crash, and with every transaction in its window, secret and opening match
   as soon as the opening is there: the number the checkpoint draws from is the one
   committed to. *)
OpeningMatches ==
    crashes = 0 /\ ~reverted /\ pool = <<>> /\ randomizeKey = 0 /\ call = Idle
        => randomOpening = randomSecret
=============================================================================
