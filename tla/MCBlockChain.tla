---------------------------- MODULE MCBlockChain ----------------------------
(* The canonical chain with the constants of the MCBlockChain.cfg. *)
EXTENDS BlockChain

World(txs, number_, stops_, rewinds_) ==
    [txs |-> txs, blocks |-> number_, stops |-> stops_, rewinds |-> rewinds_]

Reorganising == World({"t"}, 4, 0, 0)
Growing == World({}, 5, 0, 0)
Crashing == World({}, 4, 1, 1)
Restarting == World({}, 3, 3, 1)
Rewinding == World({}, 4, 0, 2)
MCWorlds == {Reorganising, Growing, Crashing, Restarting, Rewinding}
=============================================================================
