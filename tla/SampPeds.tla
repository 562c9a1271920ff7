------------------------------ MODULE SampPeds ------------------------------
(***************************************************************************)
(* The enumeration of SA-MP's peds (src/samp.rs): another module's memory, *)
(* read pointer by pointer, where any read may fail.  An enumeration is a  *)
(* Rust Option of a list: {} for None, {players} for Some(peds).           *)
(*                                                                         *)
(* Abstracted: addresses and offsets.  What a PoolRead says is whether the *)
(* pool, its largest id and its entries can be read, whether the id of the *)
(* local player can, and the players whose ped cannot be told, a pointer   *)
(* on the way to it being unreadable.                                      *)
(***************************************************************************)
CONSTANT PlayerIds   \* SA-MP player ids, the local player's among them

PoolRead == [pool : BOOLEAN, local_id : BOOLEAN, unreadable : SUBSET PlayerIds]

\* remote_gta_ped, local_gta_ped: {{}} for "`Some(None)` means the player is
\* valid but currently has no streamed GTA ped".
GtaPed(read, here, p) ==
  IF p \in read.unreadable THEN {} ELSE {here \cap {p}}

\* Mutant: a player whose ped cannot be told counts as one without a ped.
SkipUnreadable(read, here) ==
  IF read.pool THEN {here \ read.unreadable} ELSE {}

\* all_peds, over the players that have a ped here.
AllPeds(read, here) ==
  IF read.pool /\ \A p \in PlayerIds : GtaPed(read, here, p) # {}
  THEN {UNION UNION {GtaPed(read, here, p) : p \in PlayerIds}}
  ELSE {}

\* Mutant: the same, where a partial list has records pruned.
SkipUnstreamed(read, here) == SkipUnreadable(read, here)

\* streamed_peds: the id of the local player is needed too.
StreamedPeds(read, here) ==
  IF read.local_id THEN AllPeds(read, here) ELSE {}
=============================================================================
