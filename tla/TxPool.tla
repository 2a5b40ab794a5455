-------------------------------- MODULE TxPool --------------------------------
(***************************************************************************)
(* The transaction pool (core/tx_pool.go, core/tx_list.go): per account a  *)
(* list of executable transactions (pending) and one of future ones        *)
(* (queue), the lookup of all of them, the heap that orders them by price, *)
(* the managed nonces, and the chain-head events that reset all of it.     *)
(* Every exported call runs under pool.mu, so it is one action; the calls  *)
(* it makes are functions from a pool to a pool.                           *)
(*                                                                         *)
(* Data: a transaction is its sender, nonce, price and whether it is a     *)
(* "special" one (to the block-signer or randomize contract, price 0, of a *)
(* masternode).  Its cost is its price.  A list of transactions is the set *)
(* of them: txSortedMap keeps at most one per nonce.                       *)
(***************************************************************************)
EXTENDS Integers, Sequences, FiniteSets, FiniteSetsExt, SequencesExt, Functions

CONSTANTS Accounts,          \* the senders
          Signers,           \* those that pool.IsSigner accepts
          MaxNonce,          \* bound: nonces are 0..MaxNonce
          Prices,            \* gas prices of ordinary transactions
          Balances,          \* balances a head block may leave an account
          Worlds,            \* the inputs of a behaviour (Init chooses one), a record:
                             \*   prices, special, local: the transactions offered, AddLocal
                             \*   thresholds, evict: SetGasPrice, eviction ticks
                             \*   balances, reorg: new heads, how far they may go back
                             \*   ties: the ties considered, a subset of Oracles
                             \*   config: the limits of TxPoolConfig
          PriceBump,         \* percent
          LimitThresholdNonceInQueue

ASSUME TxPoolAssumption ==
    /\ Signers \subseteq Accounts
    /\ MaxNonce \in Nat
    /\ \A w \in Worlds : w.config \in [{"AccountSlots", "GlobalSlots", "AccountQueue", "GlobalQueue"} -> Nat]
    /\ Prices \subseteq Nat \ {0} /\ Balances \subseteq Nat

VARIABLES pool,     \* the TxPool struct, a record
          mined,    \* per account, its transactions on the canonical chain
          world     \* the inputs of this behaviour

vars == <<pool, mined, world>>

AccountSlots == world.config.AccountSlots
GlobalSlots  == world.config.GlobalSlots
AccountQueue == world.config.AccountQueue
GlobalQueue  == world.config.GlobalQueue

Nonces == 0 .. MaxNonce
Tx == [from: Accounts, nonce: Nonces, price: Prices, special: {FALSE}]
        \cup [from: Accounts, nonce: Nonces, price: {0}, special: {TRUE}]

\* The ties the code leaves open, chosen per call: in which order map iteration,
\* equal prices, equal lengths and heartbeats put the accounts, which of an
\* account's equally priced transactions leaves the heap first, and whether
\* the stale counter makes priced.Removed rebuild the heap.
Oracles == [order: SetToSeqs(Accounts), lowFirst: BOOLEAN, reheap: BOOLEAN]
rank(o, a) == CHOOSE i \in DOMAIN o.order : o.order[i] = a
inOrder(o, S) == SelectSeq(o.order, LAMBDA a : a \in S)

-----------------------------------------------------------------------------
(* txSortedMap and txList: sets of transactions with distinct nonces.       *)

At(list, n) == {t \in list : t.nonce = n}
Below(list, n) == {t \in list : t.nonce < n}
Above(list, n) == {t \in list : t.nonce > n}
NonceSeq == [i \in 1 .. MaxNonce + 1 |-> i - 1]
Ascending(list) == LET ns == SelectSeq(NonceSeq, LAMBDA n : At(list, n) # {})
                   IN  [i \in DOMAIN ns |-> CHOOSE t \in list : t.nonce = ns[i]]

\* txList.Add replaces an ordinary transaction for a sufficient price bump.
Replaces(tx, old) ==
    /\ ~old.special
    /\ tx.price > old.price
    /\ tx.price >= (old.price * (100 + PriceBump)) \div 100
Accepts(list, tx) == \A old \in At(list, tx.nonce) : Replaces(tx, old)
Put(list, tx) == (list \ At(list, tx.nonce)) \cup {tx}

Filter(list, balance) == {t \in list : t.price > balance}
Cap(list, n) == {t \in list : Cardinality({s \in list : s.nonce < t.nonce}) >= n}

\* The run of consecutive nonces that starts at the lowest one, provided that
\* one is not above start.
Ready(list, start) ==
    {t \in list : \E low \in list : /\ low.nonce <= start
                                    /\ \A n \in low.nonce .. t.nonce : At(list, n) # {}
                                    /\ \A s \in list : low.nonce <= s.nonce}

-----------------------------------------------------------------------------
(* txPricedList: priced holds the transactions of the lookup that have an   *)
(* entry in the heap.  Stale entries are not kept; a rebuild takes the heap *)
(* from the lookup.                                                         *)

\* The caller deletes the transactions txs from the lookup and calls
\* priced.Removed for each.
drop(p, txs, o) ==
    LET all == p.all \ txs IN
    [p EXCEPT !.all = all,
              !.priced = IF o.reheap /\ txs # {} THEN all ELSE @ \cap all]

cheaper(s, t, o) ==
    \/ s.price < t.price
    \/ /\ s.price = t.price
       /\ \/ rank(o, s.from) < rank(o, t.from)
          \/ s.from = t.from /\ (IF o.lowFirst THEN s.nonce < t.nonce ELSE s.nonce > t.nonce)

\* A transaction of a local account is never underpriced, nor is any other
\* while the heap is empty, which is logged.
Underpriced(p, tx) ==
    tx.from \notin p.locals /\ p.priced # {} /\ \A t \in p.priced : t.price >= tx.price

\* The count cheapest transactions of the heap that are not local.
Discard(p, count, o) ==
    LET remote == {t \in p.priced : t.from \notin p.locals}
    IN  {t \in remote : Cardinality({s \in remote : cheaper(s, t, o)}) < count}

-----------------------------------------------------------------------------
(* The steps of the pool's operations, on a pool p.                         *)

\* Slip: the replaced transaction stays in the lookup.
enqueueTxKeepsOld(p, tx, o) ==
    LET a == tx.from IN
    IF Accepts(p.queue[a], tx)
    THEN [p EXCEPT !.queue[a] = Put(@, tx), !.all = @ \cup {tx}, !.priced = @ \cup {tx}]
    ELSE p

enqueueTx(p, tx, o) ==
    LET a == tx.from
        q == drop(p, At(p.queue[a], tx.nonce), o)
    IN  IF Accepts(p.queue[a], tx)
        THEN [q EXCEPT !.queue[a] = Put(@, tx), !.all = @ \cup {tx}, !.priced = @ \cup {tx}]
        ELSE p

enqueueAll(p, txs, o) == FoldLeft(LAMBDA q, t : enqueueTx(q, t, o), p, Ascending(txs))

promoteTx(p, tx, o) ==
    LET a == tx.from
        q == drop(p, At(p.pending[a], tx.nonce), o)
    IN  IF Accepts(p.pending[a], tx)
        THEN [q EXCEPT !.pending[a] = Put(@, tx),
                       !.all = @ \cup {tx},
                       !.priced = IF tx \in q.all THEN @ ELSE @ \cup {tx},
                       !.nonce[a] = tx.nonce + 1]
        ELSE drop(p, {tx}, o)

\* A masternode's special transaction goes straight into pending; it is not
\* put into the price heap.
promoteSpecialTx(p, tx, o) ==
    LET a == tx.from
        q == drop(p, At(p.pending[a], tx.nonce), o)
    IN  [q EXCEPT !.pending[a] = Put(@, tx), !.all = @ \cup {tx}, !.nonce[a] = tx.nonce + 1]

\* Slip: the managed nonce is not lowered.
removeTxKeepsNonce(p, tx, o) ==
    LET a == tx.from
        q == drop(p, {tx}, o)
    IN  CASE tx \notin p.all -> p
          [] tx \in p.all /\ At(p.pending[a], tx.nonce) # {} ->
                 enqueueAll([q EXCEPT !.pending[a] = Below(@, tx.nonce)],
                            Above(p.pending[a], tx.nonce), o)
          [] OTHER -> [q EXCEPT !.queue[a] = @ \ At(@, tx.nonce)]

removeTx(p, tx, o) ==
    LET a == tx.from
        q == drop(p, {tx}, o)
        r == enqueueAll([q EXCEPT !.pending[a] = Below(@, tx.nonce)],
                        Above(p.pending[a], tx.nonce), o)
    IN  CASE tx \notin p.all -> p
          [] tx \in p.all /\ At(p.pending[a], tx.nonce) # {} ->
                 [r EXCEPT !.nonce[a] = Min({@, tx.nonce})]
          [] OTHER -> [q EXCEPT !.queue[a] = @ \ At(@, tx.nonce)]

removeAll(p, txs, o) == FoldLeft(LAMBDA q, t : removeTx(q, t, o), p, txs)

\* promoteExecutables, for one account.
promoteAccount(p, a, o) ==
    LET old   == Below(p.queue[a], p.state[a].nonce)
        drops == Filter(p.queue[a] \ old, p.state[a].balance)
        list  == p.queue[a] \ (old \cup drops)
        ready == Ready(list, p.nonce[a])
        q     == drop([p EXCEPT !.queue[a] = list \ ready], old \cup drops, o)
        r     == FoldLeft(LAMBDA x, t : promoteTx(x, t, o), q, Ascending(ready))
        over  == IF a \in p.locals THEN {} ELSE Cap(r.queue[a], AccountQueue)
    IN  drop([r EXCEPT !.queue[a] = @ \ over], over, o)

\* Every account of S loses its last transaction, while there are too many
\* pending ones and the account last still has more than floor.
RECURSIVE trim(_, _, _, _)
trim(lens, S, last, floor) ==
    IF SumFunction(lens) > GlobalSlots /\ lens[last] > floor
    THEN trim([a \in Accounts |-> IF a \in S THEN lens[a] - 1 ELSE lens[a]], S, last, floor)
    ELSE lens

\* promoteExecutables: the pending limit.
equalizePending(p, o) ==
    LET lens      == [a \in Accounts |-> Cardinality(p.pending[a])]
        offenders == SetToSortSeq({a \in Accounts \ p.locals : lens[a] > AccountSlots},
                                  LAMBDA a, b : \/ lens[a] > lens[b]
                                                \/ lens[a] = lens[b] /\ rank(o, a) < rank(o, b))
        n         == Len(offenders)
        level(l, i) == IF i = 1 THEN l
                       ELSE trim(l, {offenders[j] : j \in 1 .. i - 1}, offenders[i - 1], l[offenders[i]])
        equal     == FoldLeft(level, lens, [i \in 1 .. n |-> i])
        final     == IF n = 0 THEN lens ELSE trim(equal, ToSet(offenders), offenders[n], AccountSlots)
        over      == [a \in Accounts |-> Cap(p.pending[a], final[a])]
        lowest(a) == {t.nonce : t \in over[a]}
    IN  drop([p EXCEPT !.pending = [a \in Accounts |-> @[a] \ over[a]],
                       !.nonce = [a \in Accounts |-> Min({@[a]} \cup lowest(a))]],
             UNION Range(over), o)

\* promoteExecutables: the queue limit, by heartbeat.
capQueue(p, o) ==
    LET queued == SumFunction([a \in Accounts |-> Cardinality(p.queue[a])])
        addresses == inOrder(o, {a \in Accounts \ p.locals : p.queue[a] # {}})
        shorten(x, a) ==
            LET list == x.pool.queue[a]
                size == Cardinality(list)
            IN  IF size <= x.drop
                THEN [pool |-> removeAll(x.pool, Ascending(list), o), drop |-> x.drop - size]
                ELSE [pool |-> removeAll(x.pool, Reverse(Ascending(Cap(list, size - x.drop))), o), drop |-> 0]
    IN  FoldLeft(shorten, [pool |-> p, drop |-> Max({0, queued - GlobalQueue})], addresses).pool

promoteExecutables(p, accounts, o) ==
    LET q == FoldLeft(LAMBDA x, a : promoteAccount(x, a, o), p, inOrder(o, accounts))
    IN  capQueue(equalizePending(q, o), o)

\* demoteUnexecutables, for one account.
demoteAccount(p, a, o) ==
    LET old      == Below(p.pending[a], p.state[a].nonce)
        drops    == Filter(p.pending[a] \ old, p.state[a].balance)
        rest     == p.pending[a] \ (old \cup drops)
        invalids == {t \in rest : \E d \in drops : d.nonce < t.nonce}
        list     == rest \ invalids
        gap      == list # {} /\ At(list, p.state[a].nonce) = {}
        q        == enqueueAll(drop([p EXCEPT !.pending[a] = list], old \cup drops, o), invalids, o)
    IN  IF gap
        THEN enqueueAll([q EXCEPT !.pending[a] = {}, !.log = @ \cup {"gap"}], list, o)
        ELSE q

demoteUnexecutables(p, o) == FoldLeft(LAMBDA q, a : demoteAccount(q, a, o), p, o.order)

validateTx(p, tx, local) ==
    /\ \/ local \/ tx.from \in p.locals
       \/ tx.price >= p.gasPrice
       \/ tx.special /\ tx.from \in Signers
    /\ tx.nonce >= p.state[tx.from].nonce
    /\ tx.nonce <= p.nonce[tx.from] + LimitThresholdNonceInQueue
    /\ tx.price <= p.state[tx.from].balance

failed(p) == [pool |-> p, added |-> FALSE, replace |-> FALSE]
added(p, replace) == [pool |-> p, added |-> TRUE, replace |-> replace]

\* add, once the transaction is valid and there is room for it.
insert(p, tx, local, o) ==
    LET a == tx.from
        q == drop(p, At(p.pending[a], tx.nonce), o)
    IN  CASE At(p.pending[a], tx.nonce) # {} /\ Accepts(p.pending[a], tx) ->
                 added([q EXCEPT !.pending[a] = Put(@, tx), !.all = @ \cup {tx}, !.priced = @ \cup {tx}], TRUE)
          [] At(p.pending[a], tx.nonce) = {} /\ Accepts(p.queue[a], tx) ->
                 added([enqueueTx(p, tx, o) EXCEPT !.locals = IF local THEN @ \cup {a} ELSE @],
                       At(p.queue[a], tx.nonce) # {})
          [] OTHER -> failed(p)

add(p, tx, local, o) ==
    LET direct == tx.special /\ tx.from \in Signers /\ tx.nonce = p.nonce[tx.from]
        excess == Cardinality(p.all) - (GlobalSlots + GlobalQueue - 1)
        worst  == SetToSortSeq(Discard(p, excess, o), LAMBDA s, t : cheaper(s, t, o))
        q      == IF p.priced = {} /\ tx.from \notin p.locals
                  THEN [p EXCEPT !.log = @ \cup {"no prices"}] ELSE p
    IN  CASE tx \in p.all \/ ~validateTx(p, tx, local) -> failed(p)
          [] tx \notin p.all /\ validateTx(p, tx, local) /\ direct ->
                 IF \E old \in At(p.pending[tx.from], tx.nonce) : old.special
                 THEN failed(p) ELSE added(promoteSpecialTx(p, tx, o), TRUE)
          [] OTHER -> CASE excess <= 0 -> insert(p, tx, local, o)
                        [] excess > 0 /\ Underpriced(p, tx) -> failed(p)
                        [] OTHER -> insert(removeAll(q, worst, o), tx, local, o)

\* addTx and addTxsLocked: the accounts that got a new transaction are promoted.
addTxsLocked(p, txs, local, o) ==
    LET step(x, tx) == LET r == add(x.pool, tx, local, o)
                       IN  [pool |-> r.pool,
                            dirty |-> IF r.added /\ ~r.replace THEN x.dirty \cup {tx.from} ELSE x.dirty]
        x == FoldLeft(step, [pool |-> p, dirty |-> {}], txs)
    IN  IF x.dirty = {} THEN x.pool ELSE promoteExecutables(x.pool, x.dirty, o)

\* Slip: the pending lists are demoted before the transactions are reinjected.
resetDemotesFirst(p, st, reinject, o) ==
    LET fresh == [p EXCEPT !.state = st, !.nonce = [a \in Accounts |-> st[a].nonce]]
        q     == addTxsLocked(demoteUnexecutables(fresh, o), reinject, FALSE, o)
        r     == [q EXCEPT !.nonce = [a \in Accounts |->
                     IF q.pending[a] = {} THEN @[a] ELSE Max({t.nonce : t \in q.pending[a]}) + 1]]
    IN  promoteExecutables(r, {a \in Accounts : r.queue[a] # {}}, o)

\* reset to a head with the state st, after a reorganisation that took reinject
\* off the chain.
reset(p, st, reinject, o) ==
    LET fresh == [p EXCEPT !.state = st, !.nonce = [a \in Accounts |-> st[a].nonce]]
        q     == demoteUnexecutables(addTxsLocked(fresh, reinject, FALSE, o), o)
        r     == [q EXCEPT !.nonce = [a \in Accounts |->
                     IF q.pending[a] = {} THEN @[a] ELSE Max({t.nonce : t \in q.pending[a]}) + 1]]
    IN  promoteExecutables(r, {a \in Accounts : r.queue[a] # {}}, o)

-----------------------------------------------------------------------------
(* The specification.  Every call starts with an empty log.                 *)

Inputs == {tx \in Tx : IF tx.special THEN world.special ELSE tx.price \in world.prices}

Quiet == [pool EXCEPT !.log = {}]

AddTx == \E tx \in Inputs, local \in {FALSE, world.local}, o \in world.ties :
    /\ pool' = addTxsLocked(Quiet, <<tx>>, local, o)
    /\ UNCHANGED <<mined, world>>

SetGasPrice == \E price \in world.thresholds, o \in world.ties :
    LET cheap == {t \in pool.priced : t.price < price /\ t.from \notin pool.locals} IN
    /\ pool' = removeAll([Quiet EXCEPT !.gasPrice = price],
                         SetToSortSeq(cheap, LAMBDA s, t : cheaper(s, t, o)), o)
    /\ UNCHANGED <<mined, world>>

\* The eviction tick of loop drops the queues of the remote accounts that have
\* not been active for Lifetime.
Evict == \E a \in Accounts \ pool.locals, o \in world.ties :
    /\ world.evict /\ pool.queue[a] # {}
    /\ pool' = removeAll(Quiet, Ascending(pool.queue[a]), o)
    /\ UNCHANGED <<mined, world>>

\* A ChainHeadEvent: the new head keeps the first keep transactions of a, adds
\* those of ext (a block of a branch the pool may not know) and leaves a the
\* balance.  A reorganisation that is too deep reinjects nothing.
NewHead(a, keep, ext, balance, deep) == \E o \in world.ties :
    LET kept      == SubSeq(mined[a], 1, keep)
        discarded == SubSeq(mined[a], keep + 1, Len(mined[a]))
        reinject  == SelectSeq(Reverse(discarded), LAMBDA t : t \notin ToSet(ext))
        st        == [pool.state EXCEPT ![a] = [nonce |-> keep + Len(ext), balance |-> balance]]
    IN  /\ mined' = [mined EXCEPT ![a] = kept \o ext]
        /\ pool' = reset(Quiet, st, IF deep THEN <<>> ELSE reinject, o)
        /\ UNCHANGED world

ChainHead ==
    \E a \in Accounts, balance \in world.balances, deep \in BOOLEAN :
    \E keep \in Max({0, Len(mined[a]) - world.reorg}) .. Len(mined[a]) :
    \E ext \in {<<>>} \cup {<<t>> : t \in {t \in Inputs : t.from = a /\ t.nonce = keep}} :
        /\ deep => keep < Len(mined[a])
        /\ NewHead(a, keep, ext, balance, deep)

Init ==
    /\ world \in Worlds
    /\ mined = [a \in Accounts |-> <<>>]
    /\ pool = [pending  |-> [a \in Accounts |-> {}],
               queue    |-> [a \in Accounts |-> {}],
               all      |-> {},
               priced   |-> {},
               nonce    |-> [a \in Accounts |-> 0],
               locals   |-> {},
               gasPrice |-> Min(Prices),
               state    |-> [a \in Accounts |-> [nonce |-> 0, balance |-> Max(Balances)]],
               log      |-> {}]

Next == AddTx \/ SetGasPrice \/ Evict \/ ChainHead

Spec == Init /\ [][Next]_vars

-----------------------------------------------------------------------------
(* Properties *)

Pending(a) == {t.nonce : t \in pool.pending[a]}
Queued(a) == {t.nonce : t \in pool.queue[a]}
Executable == UNION Range(pool.pending)
Future == UNION Range(pool.queue)

\* The fields have their types, the heap holds only transactions of the lookup,
\* and a list has one transaction per nonce (txSortedMap.items is keyed by it).
TypeOK ==
    /\ pool.pending \in [Accounts -> SUBSET Tx] /\ pool.queue \in [Accounts -> SUBSET Tx]
    /\ pool.all \subseteq Tx /\ pool.priced \subseteq pool.all
    /\ pool.nonce \in [Accounts -> 0 .. MaxNonce + 1] /\ pool.locals \subseteq Accounts
    /\ pool.gasPrice \in Prices /\ pool.log \subseteq {"gap", "no prices"}
    /\ pool.state \in [Accounts -> [nonce: 0 .. MaxNonce + 1, balance: Balances]]
    /\ \A a \in Accounts : Cardinality(Pending(a)) = Cardinality(pool.pending[a])

\* The lookup ("All transactions to allow lookups") holds exactly the
\* transactions of the two sets of lists: none is in a list and cannot be found
\* or removed by its hash, and none is known, and so refused, but in no list.
NoOrphan == pool.all = Executable \cup Future

\* Without special transactions the lookup is exact, through every
\* replacement, demotion, limit and reorganisation, and no nonce of an account
\* is both executable and queued.
LookupExact ==
    ~world.special => NoOrphan /\ \A a \in Accounts : Pending(a) \cap Queued(a) = {}

\* What the miner is given can be executed: the pending nonces of an account
\* follow the nonce of the head state without a gap, and its balance pays each.
PendingExecutable ==
    \A a \in Accounts : LET n == pool.state[a].nonce IN
        /\ Pending(a) = n .. n + Cardinality(pool.pending[a]) - 1
        /\ \A t \in pool.pending[a] : t.price <= pool.state[a].balance

\* The managed nonce, which eth_getTransactionCount gives to wallets, is the
\* first one that is not pending.
NonceFollowsPending ==
    \A a \in Accounts : pool.nonce[a] = pool.state[a].nonce + Cardinality(pool.pending[a])

\* No queued transaction waits although it could be executed: with ordinary
\* transactions, the next nonce of an account is never in its queue.
ReadyPromoted == ~world.special => \A a \in Accounts : pool.nonce[a] \notin Queued(a)

\* Without local accounts and special transactions, both exempt, the pool never
\* holds more than GlobalSlots + GlobalQueue transactions, reinjections included.
PoolBounded ==
    ~world.special /\ pool.locals = {} => Cardinality(pool.all) <= GlobalSlots + GlobalQueue

\* The "gap in front" of demoteUnexecutables ("should never happen") is met only
\* when a reorganisation took a transaction off the chain that did not make it
\* back into the pool.
GapExplained ==
    [][ "gap" \in pool'.log =>
          \E a \in Accounts : \E t \in ToSet(mined[a]) \ ToSet(mined'[a]) : t \notin pool'.all ]_vars

\* A transaction of a local account leaves the pool only when the chain has
\* passed its nonce, the account can no longer pay it, or it is replaced: no
\* limit, price or eviction drops it.
LocalsKept ==
    [][ \A t \in pool.all \ pool'.all :
          t.from \in pool.locals =>
              \/ t.nonce < pool'.state[t.from].nonce
              \/ t.price > pool'.state[t.from].balance
              \/ \E r \in pool'.all : r.from = t.from /\ r.nonce = t.nonce ]_vars

\* The pool holds what its lists hold, and no more than its limits allow.
PoolExact == TypeOK /\ LookupExact /\ PoolBounded

\* The miner is given all that can be executed and nothing else, and wallets
\* are told to continue from there.
PendingExact == PendingExecutable /\ NonceFollowsPending /\ ReadyPromoted

\* Nothing is dropped without a cause: neither the transactions of local
\* accounts, nor one in front of others of its account.
DropsExplained == LocalsKept /\ GapExplained
=============================================================================
