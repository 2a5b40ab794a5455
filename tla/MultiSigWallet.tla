-------------------------- MODULE MultiSigWallet ---------------------------
(***************************************************************************)
(* The wallet that several owners share (MultiSigWallet.sol).  Owners      *)
(* submit, confirm and revoke transactions; one with enough confirmations  *)
(* is executed.  Its destination is the wallet itself, whose owners and    *)
(* requirement only such a transaction changes, or another contract, which *)
(* may have the wallet called again before it returns.  A call that fails  *)
(* undoes everything it did, those calls included.                         *)
(***************************************************************************)
EXTENDS Integers, Sequences, SequencesExt, FiniteSets

CONSTANTS
    Account,            \* addresses other than 0 and that of the wallet
    Null,               \* address 0
    Initial, Required,  \* arguments of the constructor, as it accepts them
    MAX_OWNER_COUNT,
    MaxTransactions,    \* bound: transactions
    MaxDepth            \* bound: calls in progress

Address == Account \union {Null}

\* What a transaction does: it calls another contract, or the wallet.
Call ==
    [op : {"call"}] \union [op : {"addOwner", "removeOwner"}, owner : Address]
    \union [op : {"replaceOwner"}, owner : Address, newOwner : Address]
    \union [op : {"changeRequirement"}, required : 0 .. MAX_OWNER_COUNT]

VARIABLES
    wallet,         \* [owners, isOwner, required]
    transactions,   \* sequence of [call, executed]
    confirmations,  \* transaction -> owners that confirmed it
    calls,          \* calls of other contracts in progress: [id, saved]
    runs            \* history: how often the call of a transaction succeeded

vars == <<wallet, transactions, confirmations, calls, runs>>

Ids == 1 .. MaxTransactions

Init ==
    /\ wallet = [owners |-> Initial, isOwner |-> [a \in Address |-> a \in ToSet(Initial)],
                 required |-> Required]
    /\ transactions = <<>> /\ calls = <<>>
    /\ confirmations = [id \in Ids |-> {}] /\ runs = [id \in Ids |-> 0]

-----------------------------------------------------------------------------
(* Calls of the wallet w by itself: what they require and what they do. *)

validRequirement(count, n) == count <= MAX_OWNER_COUNT /\ n <= count /\ n # 0 /\ count # 0

mayAddOwner(w, o) ==
    ~w.isOwner[o] /\ o # Null /\ validRequirement(Len(w.owners) + 1, w.required)

addOwner(w, o) ==
    [w EXCEPT !.isOwner[o] = TRUE, !.owners = Append(w.owners, o)]

\* The requirement follows the number of owners; it cannot become 0.
mayRemoveOwner(w, o) ==
    LET n == Len(w.owners) - 1
    IN  w.isOwner[o] /\ (w.required > n => validRequirement(n, n))

without(list, o) ==
    [j \in 1 .. Len(list) - 1 |-> IF list[j] = o THEN list[Len(list)] ELSE list[j]]

removeOwner(w, o) ==
    LET n == Len(w.owners) - 1
    IN  [owners |-> without(w.owners, o), isOwner |-> [w.isOwner EXCEPT ![o] = FALSE],
         required |-> IF w.required > n THEN n ELSE w.required]

\* The new owner may be the address 0.
mayReplaceOwner(w, o, n) == w.isOwner[o] /\ ~w.isOwner[n]

replaceOwner(w, o, n) ==
    [w EXCEPT !.owners = [j \in DOMAIN w.owners |-> IF w.owners[j] = o THEN n ELSE w.owners[j]],
              !.isOwner = [w.isOwner EXCEPT ![o] = FALSE, ![n] = TRUE]]

mayChangeRequirement(w, n) == validRequirement(Len(w.owners), n)

changeRequirement(w, n) == [w EXCEPT !.required = n]

may(w, c) ==
    CASE c.op = "addOwner" -> mayAddOwner(w, c.owner)
      [] c.op = "removeOwner" -> mayRemoveOwner(w, c.owner)
      [] c.op = "replaceOwner" -> mayReplaceOwner(w, c.owner, c.newOwner)
      [] c.op = "changeRequirement" -> mayChangeRequirement(w, c.required)

perform(w, c) ==
    CASE c.op = "addOwner" -> addOwner(w, c.owner)
      [] c.op = "removeOwner" -> removeOwner(w, c.owner)
      [] c.op = "replaceOwner" -> replaceOwner(w, c.owner, c.newOwner)
      [] c.op = "changeRequirement" -> changeRequirement(w, c.required)

-----------------------------------------------------------------------------
(* Calls of the wallet by owners, directly or from a contract that was called. *)

count(confirmed) == Cardinality({j \in DOMAIN wallet.owners : wallet.owners[j] \in confirmed})

isConfirmed(confirmed) == count(confirmed) >= wallet.required

setExecuted(txs, id, b) == [txs EXCEPT ![id].executed = b]

\* Slip: the transaction is marked when its call has returned.
markedLate(txs, id) == txs

marked(txs, id) == setExecuted(txs, id, TRUE)

saved(txs, confs) ==
    [wallet |-> wallet, transactions |-> txs, confirmations |-> confs, runs |-> runs]

\* executeTransaction with the given transactions and confirmations, up to the
\* call of another contract.
execute(id, sender, txs, confs) ==
    /\ wallet.isOwner[sender] /\ sender \in confs[id] /\ ~txs[id].executed
    /\ confirmations' = confs
    /\ IF ~ isConfirmed(confs[id])
       THEN transactions' = txs /\ UNCHANGED <<wallet, calls, runs>>
       ELSE IF txs[id].call.op = "call"
       THEN /\ Len(calls) < MaxDepth
            /\ transactions' = marked(txs, id)
            /\ calls' = Append(calls, [id |-> id, saved |-> saved(marked(txs, id), confs)])
            /\ UNCHANGED <<wallet, runs>>
       ELSE IF may(wallet, txs[id].call)
       THEN /\ wallet' = perform(wallet, txs[id].call)
            /\ transactions' = setExecuted(txs, id, TRUE)
            /\ runs' = [runs EXCEPT ![id] = @ + 1]
            /\ UNCHANGED calls
       ELSE transactions' = txs /\ UNCHANGED <<wallet, calls, runs>>

executeTransaction(id, sender) ==
    id \in DOMAIN transactions /\ execute(id, sender, transactions, confirmations)

confirm(id, sender, txs) ==
    /\ wallet.isOwner[sender] /\ sender \notin confirmations[id]
    /\ execute(id, sender, txs, [confirmations EXCEPT ![id] = @ \union {sender}])

confirmTransaction(id, sender) ==
    id \in DOMAIN transactions /\ confirm(id, sender, transactions)

submitTransaction(c, sender) ==
    /\ Len(transactions) < MaxTransactions
    /\ confirm(Len(transactions) + 1, sender, Append(transactions, [call |-> c, executed |-> FALSE]))

mayRevoke(id, sender) ==
    wallet.isOwner[sender] /\ sender \in confirmations[id] /\ ~transactions[id].executed

revokeConfirmation(id, sender) ==
    /\ id \in DOMAIN transactions /\ mayRevoke(id, sender)
    /\ confirmations' = [confirmations EXCEPT ![id] = @ \ {sender}]
    /\ UNCHANGED <<wallet, transactions, calls, runs>>

-----------------------------------------------------------------------------
(* The end of the innermost call of another contract. *)

top == calls[Len(calls)]

Return ==
    /\ calls # <<>> /\ calls' = Front(calls)
    /\ transactions' = setExecuted(transactions, top.id, TRUE)
    /\ runs' = [runs EXCEPT ![top.id] = @ + 1]
    /\ UNCHANGED <<wallet, confirmations>>

Fail ==
    /\ calls # <<>> /\ calls' = Front(calls)
    /\ wallet' = top.saved.wallet /\ confirmations' = top.saved.confirmations
    /\ transactions' = setExecuted(top.saved.transactions, top.id, FALSE)
    /\ runs' = top.saved.runs

Next ==
    \/ \E sender \in Account :
        \/ \E c \in Call : submitTransaction(c, sender)
        \/ \E id \in Ids :
            \/ confirmTransaction(id, sender) \/ executeTransaction(id, sender)
            \/ revokeConfirmation(id, sender)
    \/ Return \/ Fail

Spec == Init /\ [][Next]_vars

-----------------------------------------------------------------------------
Wallet == [owners : Seq(Address), isOwner : [Address -> BOOLEAN], required : Nat]

TypeOK ==
    /\ wallet \in Wallet
    /\ transactions \in Seq([call : Call, executed : BOOLEAN])
    /\ Len(transactions) <= MaxTransactions
    /\ confirmations \in [Ids -> SUBSET Account]

(* The list and the mapping have the same owners, none of them twice, and the
   requirement can be met by them: whatever the owners decide, the wallet is not
   locked by its own bookkeeping. *)
agree(w) ==
    /\ \A a \in Address : w.isOwner[a] <=> \E j \in DOMAIN w.owners : w.owners[j] = a
    /\ \A j, k \in DOMAIN w.owners : w.owners[j] = w.owners[k] => j = k
    /\ w.required \in 1 .. Len(w.owners) /\ Len(w.owners) <= MAX_OWNER_COUNT

OwnersAgree == agree(wallet)

(* The call of a transaction takes effect at most once, although the contract it
   calls may have the transaction executed again. *)
RunsOnce == \A id \in Ids : runs[id] <= 1

(* A transaction takes effect only with the confirmations of as many present
   owners as are required at that moment; confirmations of removed owners do not
   count. *)
QuorumStep ==
    \A id \in DOMAIN transactions' :
        /\ transactions'[id].executed
        /\ id \in DOMAIN transactions => ~transactions[id].executed
        => Cardinality({a \in Address : wallet.isOwner[a] /\ a \in confirmations'[id]})
              >= wallet.required
QuorumToExecute == [][QuorumStep]_vars
=============================================================================
