----------------------------- MODULE ClumpSwap ------------------------------
(***************************************************************************)
(* apply and restore of the GTA bridge (gta/skin_source.rs, gta.rs), call  *)
(* by call: who owns the ped's live animation associations, which clumps   *)
(* are alive and what the ped wears after each call into GTA or            *)
(* RenderWare, every one of which may fail.                                *)
(*                                                                         *)
(* One ped, one profile.  Between two calls of the bridge the game may     *)
(* rebuild or drop the ped's clump, and Runtime forgets the clone it       *)
(* remembers when it sees that.                                            *)
(*                                                                         *)
(* Abstracted: what prepare_skin_clone checks, the transform, the bones,   *)
(* the hierarchy update: each succeeds, or fails as the whole of it does.  *)
(* The list that SetModelIndex gives a rebuilt clump is not tracked: only  *)
(* the ped's own walk, weapon and task animations are, and a ped that has  *)
(* lost them is not swapped again before the game has built its clump.     *)
(*                                                                         *)
(* Any read that follows a change may fail (memory::read of the pointer    *)
(* that a call into the engine has just written).  The code gives up on    *)
(* something at each of them; unread is the history of those that cost the *)
(* ped its animations, so that the properties name them.                   *)
(***************************************************************************)
EXTENDS Naturals

CONSTANTS
  Addresses,   \* where clumps are allocated
  Null         \* the null pointer

ASSUME SwapAssumption ==
  /\ Null \notin Addresses
  /\ Addresses \cap {"held", "lost", "dangling"} = {}
  /\ Null \notin {"held", "lost", "dangling"}

VARIABLES
  clump,      \* what is at an address: "free", "ordinary", "clone", or a
              \* clump of either kind that RpClumpDestroy left: "stuck"
  ped,        \* m_pRwObject of the ped
  anims,      \* the address of the clump that owns the ped's associations;
              \* "held" by a local, "lost", or "dangling" on a freed clump
  pc,         \* the call under way: what it does next
  old,        \* old_clump of apply
  prepared,   \* prepared.address of apply, installed of restore
  installed,  \* render_object of Runtime's applied record, or Null
  before,     \* what the ped wore when the call began: current_render_object
  unread      \* which of Reads have failed since the game built the clump

vars == <<clump, ped, anims, pc, old, prepared, installed, before, unread>>
localVars == <<old, prepared, installed, before>>
callVars == <<old, prepared, installed, before, unread>>

\* The reads that a property makes an exception for: of the ped's pointer after
\* delete_entity_rw_object has deleted its clump, of the animation data of the
\* clone, and of the pointer after SetModelIndex has rebuilt a clump.
Reads == {"delete", "animations", "rebuild"}

ReadFails(read) == unread' = unread \cup {read}

Free == {a \in Addresses : clump[a] = "free"}

Worn(object, heap) ==
  CASE object = Null -> "nothing"
    [] object # Null /\ heap[object] = "clone" -> "clone"
    [] OTHER -> "ordinary"

Init ==
  \E a \in Addresses :
    /\ clump = [[x \in Addresses |-> "free"] EXCEPT ![a] = "ordinary"]
    /\ ped = a
    /\ anims = a
    /\ pc = "idle"
    /\ old = Null
    /\ prepared = Null
    /\ installed = Null
    /\ before = "ordinary"
    /\ unread = {}

(***************************************************************************)
(* The calls into the engine, as they change the heap and the              *)
(* associations.                                                           *)
(***************************************************************************)
\* The associations go with the clump that owns them.
Without(address, list) == IF list = address THEN "lost" ELSE list

\* Mutant: the list is taken off the clump and its head is dropped.
ExtractedNothing(address, list) == IF list = address THEN Null ELSE list

\* RpAnimBlendClumpExtractAssociations of the clump at address.
Extracted(address, list) == IF list = address THEN "held" ELSE list

\* RpAnimBlendClumpGiveAssociations of what is held, to the clump at address.
Given(address, list, heap) ==
  IF list # "held" THEN list
  ELSE IF heap[address] = "free" THEN "dangling" ELSE address

Freed(address) == [clump EXCEPT ![address] = "free"]

\* RpClumpDestroy of the clump at address, owning no list of the ped's or
\* list itself, may fail.
Destroy(address, heap, list) ==
  \/ /\ clump' = [heap EXCEPT ![address] = "free"]
     /\ anims' = Without(address, list)
  \/ /\ clump' = [heap EXCEPT ![address] = "stuck"]
     /\ anims' = list

\* A call returns.
Return ==
  /\ pc' = "idle"
  /\ old' = Null
  /\ prepared' = Null
  /\ before' = Worn(ped', clump')

Fail == Return /\ UNCHANGED installed

(***************************************************************************)
(* delete_entity_rw_object: refused before the virtual call, done, or done *)
(* and not to be verified.                                                 *)
(***************************************************************************)
DeleteRefused == UNCHANGED <<clump, ped, unread>>

Deleted ==
  /\ ped' = Null
  /\ clump' = IF ped = Null THEN clump ELSE Freed(ped)

DeletedUnseen ==
  /\ ped # Null
  /\ Deleted
  /\ ReadFails("delete")

(***************************************************************************)
(* Between two calls: the game, and Runtime.                               *)
(***************************************************************************)
Between ==
  /\ pc = "idle"
  /\ UNCHANGED <<pc, old, prepared>>

Rebuild ==
  /\ Between
  /\ \E a \in Addresses :
       /\ a \in Free \cup {ped}
       /\ ped' = a
       /\ anims' = a
       /\ clump' = [x \in Addresses |->
                      IF x = a THEN "ordinary"
                      ELSE IF x = ped THEN "free" ELSE clump[x]]
  /\ before' = "ordinary"
  /\ unread' = {}
  /\ UNCHANGED installed

Drop ==
  /\ Between
  /\ ped # Null
  /\ Deleted
  /\ anims' = Without(ped, anims)
  /\ before' = "nothing"
  /\ UNCHANGED <<installed, unread>>

\* restore_server_model or a scan sees that the clone has been replaced.
Remembered == ped = installed /\ clump[ped] = "clone"

Forget ==
  /\ Between
  /\ installed # Null
  /\ ~ Remembered
  /\ installed' = Null
  /\ UNCHANGED <<clump, ped, anims, before, unread>>

(***************************************************************************)
(* apply                                                                   *)
(***************************************************************************)
\* A ped of another model or without a clump, no room for a clone, ...
ApplyRefused ==
  /\ pc = "idle"
  /\ installed = Null
  /\ UNCHANGED <<clump, ped, anims, unread>>
  /\ Fail

CloneSource ==
  /\ pc = "idle"
  /\ installed = Null
  /\ ped # Null
  /\ \E a \in Free :
       /\ clump' = [clump EXCEPT ![a] = "clone"]
       /\ prepared' = a
  /\ old' = ped
  /\ pc' = "clone"
  /\ UNCHANGED <<ped, anims, installed, before, unread>>

\* prepare_skin_clone builds the clone's own animation data.
PrepareClone ==
  /\ pc = "clone"
  /\ pc' = "prepare"
  /\ UNCHANGED <<clump, ped, anims, callVars>>

\* prepare_skin_clone fails; or, once it has not, the clone has no identity or
\* another frame count, or the ordinary clump has no live associations.
PrepareFails ==
  /\ pc \in {"clone", "prepare"}
  /\ Destroy(prepared, clump, anims)
  /\ UNCHANGED <<ped, unread>>
  /\ Fail

\* Mutant: the ordinary clump goes with its associations still on it.
TakeNothing ==
  /\ pc = "prepare"
  /\ anims = old
  /\ pc' = "abort"
  /\ UNCHANGED <<clump, ped, anims, callVars>>

TakeAnims ==
  /\ pc = "prepare"
  /\ anims = old
  /\ anims' = Given(prepared, Extracted(old, anims), clump)
  /\ pc' = "abort"
  /\ UNCHANGED <<clump, ped, callVars>>

\* abort_secondary_ik
AbortFails ==
  /\ pc = "abort"
  /\ Destroy(prepared, clump, Given(old, Extracted(prepared, anims), clump))
  /\ UNCHANGED <<ped, unread>>
  /\ Fail

Abort ==
  /\ pc = "abort"
  /\ pc' = "delete"
  /\ UNCHANGED <<clump, ped, anims, callVars>>

DeleteOrdinary ==
  /\ pc = "delete"
  /\ Deleted
  /\ anims' = Without(ped, anims)
  /\ pc' = "create"
  /\ UNCHANGED callVars

\* return_associations(prepared, old_clump), whether old_clump is still there.
DeleteOrdinaryFails ==
  /\ pc = "delete"
  /\ \/ /\ UNCHANGED <<ped, unread>>
        /\ Destroy(prepared, clump,
                   Given(old, Extracted(prepared, anims), clump))
     \/ /\ ped' = Null
        /\ ReadFails("delete")
        /\ Destroy(prepared, Freed(ped),
                   Given(old, Extracted(prepared, anims), Freed(ped)))
  /\ Fail

\* create_entity_rw_object; the read of what it made may fail.
CreateTemporary ==
  /\ pc = "create"
  /\ \E a \in Free :
       /\ clump' = [clump EXCEPT ![a] = "ordinary"]
       /\ ped' = a
  /\ pc' \in {"position", "recover"}
  /\ UNCHANGED <<anims, callVars>>

CreateFails ==
  /\ pc = "create"
  /\ pc' = "recover"
  /\ UNCHANGED <<clump, ped, anims, callVars>>

\* Mutant: the temporary clump is destroyed before the clone is positioned, and
\* the failure returns like the ones before the swap.
PositionFailsTooLate ==
  /\ pc = "position"
  /\ clump' = Freed(ped)
  /\ UNCHANGED <<ped, anims, unread>>
  /\ Fail

\* position_skin_clone fails, or the temporary clump cannot be destroyed.
PositionFails ==
  /\ pc = "position"
  /\ pc' = "recover"
  /\ clump' \in {clump, [clump EXCEPT ![ped] = "stuck"]}
  /\ UNCHANGED <<ped, anims, callVars>>

\* Until the next step the ped points to a clump that is gone.
DestroyTemporary ==
  /\ pc = "position"
  /\ clump' = Freed(ped)
  /\ pc' = "install"
  /\ UNCHANGED <<ped, anims, callVars>>

Install ==
  /\ pc = "install"
  /\ ped' = prepared
  /\ pc' = "verify"
  /\ UNCHANGED <<clump, anims, callVars>>

Verified ==
  /\ pc = "verify"
  /\ installed' = prepared
  /\ UNCHANGED <<clump, ped, anims, unread>>
  /\ Return

\* The installed clone cannot be read back.  The restore that follows is a
\* restore like any other; apply ignores what it returns.
Unverified ==
  /\ pc = "verify"
  /\ pc' = "restore"
  /\ UNCHANGED <<clump, ped, anims, callVars>>

(***************************************************************************)
(* recover_server_clump_after_failed_swap                                  *)
(***************************************************************************)
\* The ped has no clump, or the one that it has cannot be read.
RecoverWithoutDelete ==
  /\ pc = "recover"
  /\ anims' = Extracted(prepared, anims)
  /\ pc' = "rebuild"
  /\ UNCHANGED <<clump, ped, callVars>>

RecoverDelete ==
  /\ pc = "recover"
  /\ ped # Null
  /\ Deleted
  /\ anims' = Extracted(prepared, anims)
  /\ pc' = "rebuild"
  /\ UNCHANGED callVars

\* "retaining the unattached prepared clone to avoid destroying its live
\* animations"
RecoverDeleteFails ==
  /\ pc = "recover"
  /\ ped # Null
  /\ DeleteRefused \/ DeletedUnseen
  /\ anims' = Given(prepared, Extracted(prepared, anims), clump)
  /\ Fail

\* Mutant: the prepared clone is left behind.
RebuildKeepingClone ==
  /\ pc = "rebuild"
  /\ \E a \in Free :
       /\ clump' = [clump EXCEPT ![a] = "ordinary"]
       /\ ped' = a
       /\ anims' = Given(a, anims, clump')
  /\ UNCHANGED unread
  /\ Fail

\* set_ped_model_index rebuilds an ordinary clump (one that the ped still had
\* is left behind), or leaves the one that the ped still had.
RecoverRebuild ==
  /\ pc = "rebuild"
  /\ \E a \in Free \cup ({ped} \ {Null}) :
       LET heap == [clump EXCEPT ![a] = "ordinary"]
       IN  /\ ped' = a
           /\ Destroy(prepared, heap, Given(a, anims, heap))
  /\ UNCHANGED unread
  /\ Fail

\* There is nothing to be seen, rebuilt or not.
RecoverRebuildFails ==
  /\ pc = "rebuild"
  /\ \/ UNCHANGED <<clump, ped, unread>>
     \/ /\ \E a \in Free :
             ped' = a /\ clump' = [clump EXCEPT ![a] = "ordinary"]
        /\ ReadFails("rebuild")
  /\ anims' = Given(prepared, anims, clump)
  /\ Fail

(***************************************************************************)
(* restore                                                                 *)
(***************************************************************************)
StartRestore ==
  /\ pc = "idle"
  /\ installed # Null
  /\ Remembered
  /\ prepared' = installed
  /\ pc' = "restore"
  /\ UNCHANGED <<clump, ped, anims, old, installed, before, unread>>

\* The ped's clump cannot be read, or abort_secondary_ik fails and the clone
\* gets its associations back.
RestoreRefused ==
  /\ pc = "restore"
  /\ UNCHANGED <<clump, ped, anims, unread>>
  /\ Fail

\* The clone may have none of the associations, or its data may be unreadable.
RestoreExtract ==
  /\ pc = "restore"
  /\ \/ /\ anims' = Extracted(prepared, anims)
        /\ UNCHANGED unread
     \/ /\ UNCHANGED anims
        /\ ReadFails("animations")
  /\ pc' = "remove"
  /\ UNCHANGED <<clump, ped, localVars>>

Remove ==
  /\ pc = "remove"
  /\ Deleted
  /\ anims' = Without(ped, anims)
  /\ pc' = "renew"
  /\ UNCHANGED callVars

\* The associations go back to the clone, whether it is still there.
RemoveFails ==
  /\ pc = "remove"
  /\ \/ /\ DeleteRefused
        /\ anims' = Given(prepared, anims, clump)
     \/ /\ DeletedUnseen
        /\ anims' = Given(prepared, Without(ped, anims), clump')
  /\ Fail

\* Mutant: whether SetModelIndex has rebuilt a clump is not looked at.
RenewUnchecked ==
  /\ pc = "renew"
  /\ UNCHANGED <<clump, ped>>
  /\ anims' = IF anims = "held" THEN "lost" ELSE anims
  /\ installed' = Null
  /\ UNCHANGED unread
  /\ Return

\* CPed::SetModelIndex rebuilds an ordinary clump; it takes the associations.
Renew ==
  /\ pc = "renew"
  /\ \E a \in Free :
       /\ clump' = [clump EXCEPT ![a] = "ordinary"]
       /\ ped' = a
       /\ anims' = Given(a, anims, clump')
  /\ installed' = Null
  /\ UNCHANGED unread
  /\ Return

\* Mutant: the associations go back to the clone that has been deleted.
RenewFailsGivingBack ==
  /\ pc = "renew"
  /\ UNCHANGED <<clump, ped>>
  /\ anims' = Given(prepared, anims, clump)
  /\ UNCHANGED unread
  /\ Fail

\* The rebuilt clump is not there, or not to be seen: the local that held the
\* associations goes out of scope.  Or only the model id cannot be verified.
RenewFails ==
  /\ pc = "renew"
  /\ \/ /\ UNCHANGED <<clump, ped, unread>>
        /\ anims' = IF anims = "held" THEN "lost" ELSE anims
     \/ \E a \in Free :
          /\ clump' = [clump EXCEPT ![a] = "ordinary"]
          /\ ped' = a
          /\ \/ /\ anims' = IF anims = "held" THEN "lost" ELSE anims
                /\ ReadFails("rebuild")
             \/ /\ anims' = Given(a, anims, clump')
                /\ UNCHANGED unread
  /\ Fail

Apply ==
  \/ ApplyRefused
  \/ CloneSource
  \/ PrepareClone
  \/ PrepareFails
  \/ TakeAnims
  \/ AbortFails
  \/ Abort
  \/ DeleteOrdinary
  \/ DeleteOrdinaryFails
  \/ CreateTemporary
  \/ CreateFails
  \/ PositionFails
  \/ DestroyTemporary
  \/ Install
  \/ Verified
  \/ Unverified

Recover ==
  \/ RecoverWithoutDelete
  \/ RecoverDelete
  \/ RecoverDeleteFails
  \/ RecoverRebuild
  \/ RecoverRebuildFails

Restore ==
  \/ StartRestore
  \/ RestoreRefused
  \/ RestoreExtract
  \/ Remove
  \/ RemoveFails
  \/ Renew
  \/ RenewFails

Next == Rebuild \/ Drop \/ Forget \/ Apply \/ Recover \/ Restore

Spec == Init /\ [][Next]_vars
-----------------------------------------------------------------------------
(***************************************************************************)
(* Properties, over all failures, the reads that follow a change included; *)
(* where such a read costs the ped something the property names it.        *)
(***************************************************************************)

\* The types of the heap, of the pointers and of the locals; between two calls
\* the locals are gone.
TypeOK ==
  /\ clump \in [Addresses -> {"free", "ordinary", "clone", "stuck"}]
  /\ ped \in Addresses \cup {Null}
  /\ anims \in Addresses \cup {"held", "lost", "dangling"}
  /\ pc \in {"idle", "clone", "prepare", "abort", "delete", "create",
            "position", "install", "verify", "recover", "rebuild", "restore",
            "remove", "renew"}
  /\ old \in Addresses \cup {Null}
  /\ prepared \in Addresses \cup {Null}
  /\ installed \in Addresses \cup {Null}
  /\ before \in {"ordinary", "clone", "nothing"}
  /\ unread \subseteq Reads
  /\ pc = "idle" => old = Null /\ prepared = Null

\* The associations never stay on a clump that is freed under them.  They are
\* given to a freed one only after a delete that was done and could not be
\* verified (skin_source.rs:178 and :304 after gta.rs:1188), and the ped then
\* has no clump at all until the game builds it one.
NoDanglingAnims ==
  /\ anims \in Addresses => clump[anims] # "free"
  /\ anims = "dangling" => "delete" \in unread /\ ped = Null

\* After a call a ped that wears a clump still has its live associations
\* somewhere: on what it wears, or on a clone kept for that reason ("to avoid
\* destroying its live animations").  Two failing reads of restore lose them:
\* that of the clone's animation data, and that of the rebuilt clump.
AnimationsKept ==
  pc = "idle" /\ ped # Null =>
    \/ anims \in Addresses /\ clump[anims] # "free"
    \/ anims = "lost" /\ unread \cap {"animations", "rebuild"} # {}

\* No way out of apply, restore or the recovery leaves a clump that the call
\* made or took over behind, but one that RpClumpDestroy refused, one that is
\* kept because it owns the live associations, and the temporary clump of a
\* swap whose recovery could not read the ped (the guard of RecoverDelete).
NoLeakedClump ==
  [][pc # "idle" /\ pc' = "idle" =>
       \A a \in {ped, old, prepared} \ {Null} :
         clump'[a] \in {"ordinary", "clone"} =>
           \/ a \in {ped', anims'}
           \/ pc = "rebuild" /\ a = ped]_vars

\* Between two calls the ped's pointer is null or points to a live clump: the
\* raw store of apply always replaces the pointer to the temporary clump it has
\* destroyed, and every failed delete leaves one or the other.
PedWearsLiveClump ==
  pc = "idle" /\ ped # Null => clump[ped] # "free"

\* For its caller a swap is one step with one of the outcomes of SwapOutcomes:
\* in particular a clone that is on was reported, but where apply had to undo
\* an install that it could not read back.
Outcomes ==
  INSTANCE SwapOutcomes WITH
    worn     <- before,
    recorded <- installed # Null,
    call     <- IF pc = "idle" THEN "none"
                ELSE IF installed # Null THEN "restore"
                ELSE IF pc \in {"restore", "remove", "renew"} THEN "undo"
                ELSE "apply"

SwapImplementsOutcomes == Outcomes!Spec

\* A failed apply leaves the ped in an ordinary clump ("Failures either leave
\* the original clump untouched or recover GTA's ordinary clump for
\* `server_model_id` after a swap has started").
FailedApplyRecovers ==
  [][/\ pc # "idle"
     /\ pc' = "idle"
     /\ installed = Null
     /\ installed' = Null
     /\ before = "ordinary"
     => before' = "ordinary"]_vars
=============================================================================
