-------------------------- MODULE MCConfigWatcher ---------------------------
(***************************************************************************)
(* Instances of ConfigWatcher small enough for TLC: two valid contents of  *)
(* the same length beside the empty configuration, and text parse rejects. *)
(***************************************************************************)
EXTENDS ConfigWatcher

CONSTANTS empty, first, second, torn

ContentLength == [c \in Contents |-> IF c = empty THEN 3 ELSE 40]
=============================================================================
