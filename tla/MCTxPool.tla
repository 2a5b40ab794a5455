------------------------------ MODULE MCTxPool ------------------------------
(* Instances of TxPool for TLC. *)
EXTENDS TxPool, TLC

CONSTANTS alice, sam

Ties == {[order |-> <<alice, sam>>, lowFirst |-> TRUE, reheap |-> FALSE],
         [order |-> <<sam, alice>>, lowFirst |-> FALSE, reheap |-> FALSE]}

MixedTies == {[order |-> <<alice, sam>>, lowFirst |-> TRUE, reheap |-> TRUE],
              [order |-> <<sam, alice>>, lowFirst |-> FALSE, reheap |-> FALSE]}

Config(slots, global, queue) ==
    [AccountSlots |-> slots, GlobalSlots |-> global, AccountQueue |-> 2, GlobalQueue |-> queue]

\* Ordinary transactions, under reorganisations and balances that change.
Reorganised == [prices |-> {1, 2}, special |-> FALSE, local |-> FALSE, thresholds |-> {}, evict |-> FALSE,
                balances |-> {1, 2}, reorg |-> 1, ties |-> Ties, config |-> Config(2, 3, 1)]
\* Local accounts, and a price threshold that is raised.
Local == [prices |-> {1, 2}, special |-> FALSE, local |-> TRUE, thresholds |-> {2}, evict |-> FALSE,
          balances |-> {2}, reorg |-> 0, ties |-> Ties, config |-> Config(2, 2, 1)]
\* The special transactions of a masternode.
Special == [prices |-> {1}, special |-> TRUE, local |-> FALSE, thresholds |-> {}, evict |-> TRUE,
            balances |-> {2}, reorg |-> 0, ties |-> MixedTies, config |-> Config(1, 2, 2)]

\* Local accounts under reorganisations and evictions.
LocalReorganised == [prices |-> {1, 2}, special |-> FALSE, local |-> TRUE, thresholds |-> {}, evict |-> TRUE,
                     balances |-> {2}, reorg |-> 1, ties |-> Ties, config |-> Config(1, 2, 1)]

MCWorlds == {Reorganised, Local, LocalReorganised, Special}
=============================================================================
