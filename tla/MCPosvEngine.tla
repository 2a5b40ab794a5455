---------------------------- MODULE MCPosvEngine ----------------------------
(* Four accounts, three of which can be masternodes: m1 signs from the       *)
(* genesis block on, m3 returns from a penalty, m4 creates no block.  The    *)
(* gap block is block 1 or 2, the checkpoint block 3.                        *)
EXTENDS PosvEngine

CONSTANTS m1, m2, m3, m4

MCAccounts == {m1, m2, m3, m4}
MCComeback == {m3}
MCIdlers == {m4}

\* Candidates by stake, the largest first; the others have nothing.
Ranked(order) ==
    [cands |-> {order[i] : i \in DOMAIN order},
     caps |-> [a \in MCAccounts |->
                  Cardinality({i \in DOMAIN order : \E j \in 1 .. i : order[j] = a})]]

\* Three of four are elected, and m3 and m4 change places; fewer candidates
\* than masternodes, with room in the slice and without.
MCContract == [genesis |-> Ranked(<<m1>>),
               returning |-> Ranked(<<m1, m2, m3, m4>>), absent |-> Ranked(<<m1, m2, m4, m3>>),
               padded |-> Ranked(<<m1, m3>>), alone |-> Ranked(<<m3>>)]

\* What may happen, the stakes and difficulties, and the number of the gap block.
Scenario(faults_, elections_, difficulties_, gapNumber) ==
    [faults |-> faults_, elections |-> elections_, difficulties |-> difficulties_,
     gap |-> Epoch - gapNumber]

MCScenarios == {
    Scenario({"evict", "mine"}, {"returning", "absent", "padded"}, {1, 2}, 1),
    Scenario({"restart", "fork", "evict"}, {"returning", "absent"}, {1, 2}, 1),
    Scenario({"restart", "evict"}, {"returning", "absent", "padded", "alone"}, {1}, 1),
    Scenario(FaultNames, {"returning", "absent"}, {1}, 1),
    Scenario({"evict", "mine"}, {"returning"}, {1, 3}, 2),
    Scenario({"restart", "fork", "evict"}, {"absent"}, {1, 3}, 2)}
MCRestart == {Scenario({"restart"}, {"returning", "absent", "padded"}, {1, 2}, 1)}
MCFork == {Scenario({"fork"}, {"returning", "absent"}, {1, 2}, 1)}
MCRace == {Scenario({"race"}, {"returning", "absent"}, {1}, 1)}
=============================================================================
