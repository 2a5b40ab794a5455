--------------------------- MODULE MCChainIndexer ---------------------------
(* The chain indexer alone, for TLC. *)
EXTENDS ChainIndexer
=============================================================================
