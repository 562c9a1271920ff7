-------------------------- MODULE SourceResources ---------------------------
(***************************************************************************)
(* load and release of the GTA bridge (gta/skin_source.rs, gta.rs), call   *)
(* by call: the TXD slot, the reference that holds its dictionary, the     *)
(* current TXD, the DFF stream and the source clump whose materials draw   *)
(* with the textures of the dictionary.                                    *)
(*                                                                         *)
(* SourceCache calls load for a profile that has no source and release for *)
(* one that is retired and has no clones left (SkinRuntime); here both may *)
(* happen at any time to any profile.                                      *)
(*                                                                         *)
(* Abstracted: paths and names, and what a prepared clump must look like.  *)
(***************************************************************************)
CONSTANTS
  Profiles,
  Slots,  \* the slots of GTA's TXD pool
  Game,   \* the TXD that is current while the game runs
  None    \* Rust's None, and an empty slot

ASSUME ResourcesAssumption ==
  /\ Game \notin Slots
  /\ None \notin Slots
  /\ None \notin {Game, "empty", "held"}

VARIABLES
  dictionary,  \* per slot: "held" with a reference to its dictionary, "empty"
               \* when it has none, None when the slot is free
  clump,       \* is there a clump that draws with the textures of the slot?
  current,     \* the current TXD
  saved,       \* what CTxdStore::PushCurrentTxd saved, or None
  stream,      \* is the DFF stream open?
  resources,   \* the slot of the SkinSourceResources the cache holds
  pc,          \* what load or release does next
  profile,     \* whose source it is
  slot         \* its slot

engineVars == <<dictionary, clump, current, saved, stream>>
callVars == <<profile, slot>>
vars == <<dictionary, clump, current, saved, stream, resources, pc, profile,
          slot>>

Init ==
  /\ dictionary = [s \in Slots |-> None]
  /\ clump = [s \in Slots |-> FALSE]
  /\ current = Game
  /\ saved = None
  /\ stream = FALSE
  /\ resources = [p \in Profiles |-> None]
  /\ pc = "idle"
  /\ profile = None
  /\ slot = None

(***************************************************************************)
(* Calls into the engine.                                                  *)
(***************************************************************************)
\* RemoveRef destroys the dictionary with its last reference; RemoveTxdSlot
\* frees the slot, and with it a dictionary that still has references.
WithoutSlot(s) == [dictionary EXCEPT ![s] = None]

\* remove_txd_slot of the call's slot.
RemoveTxdSlot == dictionary' = WithoutSlot(slot)

PushAndSetCurrent ==
  /\ saved' = current
  /\ current' = slot

PopCurrent ==
  /\ current' = saved
  /\ saved' = None

Return ==
  /\ pc' = "idle"
  /\ profile' = None
  /\ slot' = None

(***************************************************************************)
(* load.  What fails before there is a slot changes nothing.               *)
(***************************************************************************)
AddTxdSlot ==
  /\ pc = "idle"
  /\ \E p \in Profiles, s \in Slots :
       /\ resources[p] = None
       /\ dictionary[s] = None
       /\ profile' = p
       /\ slot' = s
       /\ dictionary' = [dictionary EXCEPT ![s] = "empty"]
  /\ pc' = "txd"
  /\ UNCHANGED <<clump, current, saved, stream, resources>>

LoadTxdFails ==
  /\ pc = "txd"
  /\ RemoveTxdSlot
  /\ Return
  /\ UNCHANGED <<clump, current, saved, stream, resources>>

\* LoadTxd and AddRef
LoadTxd ==
  /\ pc = "txd"
  /\ dictionary' = [dictionary EXCEPT ![slot] = "held"]
  /\ pc' = "path"
  /\ UNCHANGED <<clump, current, saved, stream, resources, callVars>>

\* load_dff_clump: the DFF path has a NUL byte.
PathRefused ==
  /\ pc = "path"
  /\ RemoveTxdSlot
  /\ Return
  /\ UNCHANGED <<clump, current, saved, stream, resources>>

\* load_dff_clump up to RwStreamOpen
SetCurrentTxd ==
  /\ pc = "path"
  /\ PushAndSetCurrent
  /\ pc' = "open"
  /\ UNCHANGED <<dictionary, clump, stream, resources, callVars>>

\* Mutant: the current TXD is restored at the end of load_dff_clump only.
OpenStreamFailsWithoutPop ==
  /\ pc = "open"
  /\ RemoveTxdSlot
  /\ Return
  /\ UNCHANGED <<clump, current, saved, stream, resources>>

OpenStreamFails ==
  /\ pc = "open"
  /\ PopCurrent
  /\ RemoveTxdSlot
  /\ Return
  /\ UNCHANGED <<clump, stream, resources>>

OpenStream ==
  /\ pc = "open"
  /\ stream' = TRUE
  /\ pc' = "read"
  /\ UNCHANGED <<dictionary, clump, current, saved, resources, callVars>>

CloseStream ==
  /\ stream' = FALSE
  /\ PopCurrent

\* Mutant: the slot stays when the DFF has no clump.
ReadClumpFailsKeepingSlot ==
  /\ pc = "read"
  /\ CloseStream
  /\ Return
  /\ UNCHANGED <<dictionary, clump, resources>>

\* No clump in the stream, or it cannot be read.
ReadClumpFails ==
  /\ pc = "read"
  /\ CloseStream
  /\ RemoveTxdSlot
  /\ Return
  /\ UNCHANGED <<clump, resources>>

ReadClump ==
  /\ pc = "read"
  /\ clump' = [clump EXCEPT ![slot] = TRUE]
  /\ CloseStream
  /\ pc' = "prepare"
  /\ UNCHANGED <<dictionary, resources, callVars>>

\* Mutant: the slot goes whether or not the clump could be destroyed.
RejectAndRemove ==
  /\ pc = "prepare"
  /\ clump' \in {clump, [clump EXCEPT ![slot] = FALSE]}
  /\ RemoveTxdSlot
  /\ Return
  /\ UNCHANGED <<current, saved, stream, resources>>

\* "could not destroy rejected source clump; retaining TXD slot ... to avoid
\* dangling textures"
Reject ==
  /\ pc = "prepare"
  /\ \/ /\ clump' = [clump EXCEPT ![slot] = FALSE]
        /\ RemoveTxdSlot
     \/ UNCHANGED <<clump, dictionary>>
  /\ Return
  /\ UNCHANGED <<current, saved, stream, resources>>

\* prepare_skin_source
Prepare ==
  /\ pc = "prepare"
  /\ resources' = [resources EXCEPT ![profile] = slot]
  /\ Return
  /\ UNCHANGED engineVars

(***************************************************************************)
(* release                                                                 *)
(***************************************************************************)
\* When the clump cannot be destroyed nothing changes and the cache asks again.
DestroySource ==
  /\ pc = "idle"
  /\ \E p \in Profiles :
       /\ resources[p] # None
       /\ profile' = p
       /\ slot' = resources[p]
  /\ clump' = [clump EXCEPT ![slot'] = FALSE]
  /\ pc' = "remove"
  /\ UNCHANGED <<dictionary, current, saved, stream, resources>>

\* Mutant: what was released stays among the retired.
RemoveSlotKeepingSource ==
  /\ pc = "remove"
  /\ RemoveTxdSlot
  /\ Return
  /\ UNCHANGED <<clump, current, saved, stream, resources>>

RemoveSlot ==
  /\ pc = "remove"
  /\ RemoveTxdSlot
  /\ resources' = [resources EXCEPT ![profile] = None]
  /\ Return
  /\ UNCHANGED <<clump, current, saved, stream>>

LoadDffClump ==
  \/ PathRefused
  \/ SetCurrentTxd
  \/ OpenStreamFails
  \/ OpenStream
  \/ ReadClumpFails
  \/ ReadClump

Load ==
  \/ AddTxdSlot
  \/ LoadTxdFails
  \/ LoadTxd
  \/ LoadDffClump
  \/ Reject
  \/ Prepare

Release == DestroySource \/ RemoveSlot

Next == Load \/ Release

Spec == Init /\ [][Next]_vars
-----------------------------------------------------------------------------
(***************************************************************************)
(* Properties                                                              *)
(***************************************************************************)

\* The types of the pool, of the current TXD and of the call's locals.
TypeOK ==
  /\ dictionary \in [Slots -> {None, "empty", "held"}]
  /\ clump \in [Slots -> BOOLEAN]
  /\ current \in Slots \cup {Game}
  /\ saved \in Slots \cup {Game, None}
  /\ stream \in BOOLEAN
  /\ resources \in [Profiles -> Slots \cup {None}]
  /\ pc \in {"idle", "txd", "path", "open", "read", "prepare", "remove"}
  /\ profile \in Profiles \cup {None}
  /\ slot \in Slots \cup {None}
  /\ pc # "idle" => profile \in Profiles /\ slot \in Slots

\* No clump outlives the dictionary it draws with, in particular not a rejected
\* one that could not be destroyed ("to avoid dangling textures").
NoDanglingTextures ==
  \A s \in Slots : clump[s] => dictionary[s] = "held"

\* On every way out of load the game finds its own TXD current again, and no
\* stream is left open.
CurrentTxdRestored ==
  pc = "idle" => current = Game /\ saved = None /\ ~ stream

\* Between two calls a slot is taken only by a source the cache holds or by a
\* clump that could not be destroyed.
NoLeakedSlot ==
  pc = "idle" =>
    \A s \in Slots :
      dictionary[s] # None => clump[s] \/ \E p \in Profiles : resources[p] = s

\* A source the cache holds is whole until its release begins, and no other
\* profile has its slot.
SourcesAreWhole ==
  \A p \in Profiles :
    resources[p] # None =>
      /\ dictionary[resources[p]] = "held"
      /\ clump[resources[p]] \/ (pc = "remove" /\ profile = p)
      /\ \A q \in Profiles \ {p} : resources[q] # resources[p]
=============================================================================
