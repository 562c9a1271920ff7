------------------------ MODULE MCRefreshScheduler --------------------------
(***************************************************************************)
(* Instances of RefreshScheduler small enough for TLC: two of the three    *)
(* kinds of RPC, the one that is not decoded and one that is.              *)
(***************************************************************************)
EXTENDS RefreshScheduler

CONSTANTS streamIn, setSkin
=============================================================================
