---------------------------- MODULE SwapOutcomes ----------------------------
(***************************************************************************)
(* What apply_skin_source and restore_skin_source of the GTA bridge        *)
(* (gta.rs) promise their caller about a ped: each is one step, and a      *)
(* clone that is worn was reported to the caller, unless an apply could    *)
(* not read it back and could not undo it either.  These are the outcomes  *)
(* that SkinRuntime gives its applies and restores; those of an undo are   *)
(* its UnverifiedInstalls.                                                 *)
(***************************************************************************)
VARIABLES
  worn,      \* what the ped wears: "ordinary", "clone" or "nothing"
  recorded,  \* does the caller hold the identity of an installed clone?
  call       \* the call under way: "none", "apply", "restore" or
             \* the "undo" of an apply that cannot read what it installed

outcomeVars == <<worn, recorded, call>>

Init ==
  /\ worn = "ordinary"
  /\ recorded = FALSE
  /\ call = "none"

\* A clone is on at most once, and is restored only while it is remembered.
Begin ==
  /\ call = "none"
  /\ call' = IF recorded THEN "restore" ELSE "apply"
  /\ recorded => worn = "clone"
  /\ UNCHANGED <<worn, recorded>>

ApplySucceeds ==
  /\ call = "apply"
  /\ worn' = "clone"
  /\ recorded' = TRUE
  /\ call' = "none"

\* "Failures either leave the original clump untouched or recover GTA's
\* ordinary clump"; where the rebuild fails too, nothing is left.
ApplyFails ==
  /\ call = "apply"
  /\ worn' \in {worn, "ordinary", "nothing"}
  /\ call' = "none"
  /\ UNCHANGED recorded

NotReadBack ==
  /\ call = "apply"
  /\ call' = "undo"
  /\ UNCHANGED <<worn, recorded>>

\* The caller is told of a failure whatever the ped wears now.
Undone ==
  /\ call = "undo"
  /\ worn' \in {"clone", "ordinary", "nothing"}
  /\ call' = "none"
  /\ UNCHANGED recorded

RestoreSucceeds ==
  /\ call = "restore"
  /\ worn' = "ordinary"
  /\ recorded' = FALSE
  /\ call' = "none"

RestoreFails ==
  /\ call = "restore"
  /\ worn' \in {"clone", "ordinary", "nothing"}
  /\ call' = "none"
  /\ UNCHANGED recorded

\* Between two calls the game replaces what the ped wears, and the caller
\* forgets the clone that is gone.
Replaced ==
  /\ call = "none"
  /\ worn' \in {"ordinary", "nothing"}
  /\ UNCHANGED <<recorded, call>>

Forgotten ==
  /\ call = "none"
  /\ worn # "clone"
  /\ recorded' = FALSE
  /\ UNCHANGED <<worn, call>>

Next ==
  \/ Begin
  \/ ApplySucceeds
  \/ ApplyFails
  \/ NotReadBack
  \/ Undone
  \/ RestoreSucceeds
  \/ RestoreFails
  \/ Replaced
  \/ Forgotten

Spec == Init /\ [][Next]_outcomeVars
=============================================================================
