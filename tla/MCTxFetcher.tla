---------------------------- MODULE MCTxFetcher ----------------------------
(***************************************************************************)
(* TxFetcher for TLC.                                                      *)
(***************************************************************************)
EXTENDS TxFetcher, TLC

CONSTANTS p1, p2, h1, h2, h3

Symmetry == Permutations(Peers) \cup Permutations(Hashes \ Blobs)
=============================================================================
