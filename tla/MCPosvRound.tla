---------------------------- MODULE MCPosvRound ----------------------------
(* Two lists of masternodes, of four and of three, with their validators. *)
EXTENDS PosvRound

MCElections == {[list |-> <<"b", "d", "a", "e">>, m2 |-> <<2, 3, 1, 0>>],
                [list |-> <<"c", "a", "b">>, m2 |-> <<1, 2, 0>>]}
=============================================================================
