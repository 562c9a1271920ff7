---------------------------- MODULE MCClumpSwap -----------------------------
(***************************************************************************)
(* Instances of ClumpSwap small enough for TLC.                            *)
(***************************************************************************)
EXTENDS ClumpSwap, TLC

Symmetry == Permutations(Addresses)
=============================================================================
