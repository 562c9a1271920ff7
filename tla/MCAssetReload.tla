--------------------------- MODULE MCAssetReload ----------------------------
(***************************************************************************)
(* An instance of AssetReload small enough for TLC.                        *)
(***************************************************************************)
EXTENDS AssetReload

AssetRevisions == [txd : 0 .. MaxWrites, dff : 0 .. MaxWrites]
=============================================================================
