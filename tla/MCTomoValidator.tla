-------------------------- MODULE MCTomoValidator --------------------------
(* One candidate from the genesis block, one that may be proposed later.   *)
EXTENDS TomoValidator

CONSTANTS u, v, c, d

MCFirstCandidates == <<c>>
MCCandidate == {c, d}
=============================================================================
