----------------------------- MODULE MCFetcher -----------------------------
(* A block and its child.  Either both are valid and the child is empty, or   *)
(* the first waits for this node's signature and is then from the future, or  *)
(* its time never comes.                                                      *)
EXTENDS Fetcher, TLC

CONSTANTS blockA, blockB, peer

MCNumber == (blockA :> 1) @@ (blockB :> 2)
MCParent == (blockA :> Root) @@ (blockB :> blockA)
World(ka, kb, unsigned, empty, mine, n, e) ==
    [kind |-> (blockA :> ka) @@ (blockB :> kb), unsigned |-> unsigned, empty |-> empty,
     mine |-> mine, notify |-> n, external |-> e]
MCWorldsLive == {World("valid", "valid", {}, {blockB}, {}, 2, 0),
                 World("future", "valid", {blockA}, {}, {blockA}, 0, 1),
                 World("never", "valid", {}, {}, {}, 1, 1)}
=============================================================================
