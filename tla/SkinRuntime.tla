---------------------------- MODULE SkinRuntime -----------------------------
(***************************************************************************)
(* The reconciliation loop of Wardrobe (runtime.rs, runtime/lifecycle.rs)  *)
(* over the shared source cache and the peds of the game.                  *)
(*                                                                         *)
(* process_game_frame runs on the game's thread, under the runtime mutex,  *)
(* after CGame::Process: SA-MP and GTA change peds only between two frames *)
(* (phase "idle").  A scan visits the streamed peds one at a time and each *)
(* visit, each restoration of a user of a shared source and the end of the *)
(* scan is a step of its own.                                              *)
(*                                                                         *)
(* Abstracted: the schedule (a scan may begin in any frame), the steps of  *)
(* one clump swap (an apply or a restore is one step with each outcome the *)
(* swap code can leave behind), the order of the ids, and matched_players, *)
(* which only decides what is logged.                                      *)
(***************************************************************************)
EXTENDS SourceCache, SampPeds

CONSTANTS
  Configs,              \* configurations the file may hold
  InPlaceModelChanges,  \* may a model id change under an unchanged clump?
  UnverifiedInstalls    \* may an installed clone fail both its verification
                        \* and the restore that follows?

ASSUME RuntimeAssumption ==
  /\ \A c \in Configs : IsSkinConfig(c) /\ Accepted(c)
  /\ InPlaceModelChanges \in BOOLEAN
  /\ UnverifiedInstalls \in BOOLEAN

VARIABLES
  config,     \* Runtime::config
  cache,      \* Runtime::skins
  applied,    \* Runtime::applied_players
  failed,     \* Runtime::failed_applications
  peds,       \* the streamed peds of the game, by player id
  phase,      \* "idle" between frames, "due" after a reload, "scan" in a scan
  streamed,   \* streamed_player_ids, the players the scan has found
  todo,       \* players the scan has not visited yet
  restoring,  \* players restore_profile_users has not restored yet
  desired,    \* desired_sources
  attempted   \* restoration_attempted_sources

runtimeVars == <<config, cache, applied, failed>>
scanVars == <<streamed, todo, restoring, desired, attempted>>
vars == <<config, cache, applied, failed, peds, phase,
          streamed, todo, restoring, desired, attempted>>

Ped == [name : Names, model : Models, object : PedRenderObject]

AppliedPlayer == [ skin_id         : Skins,
                   server_model_id : Models,
                   render_object   : PedRenderObject ]

FailedApplication == [ skin_id           : Skins,
                       source_generation : 1 .. MaxGeneration,
                       server_model_id   : Models,
                       render_object     : PedRenderObject ]

Init ==
  /\ config \in Configs
  /\ cache = EmptyCache
  /\ applied = EmptyMap
  /\ failed = EmptyMap
  /\ peds = EmptyMap
  /\ phase = "idle"
  /\ streamed = {}
  /\ todo = {}
  /\ restoring = {}
  /\ desired = {}
  /\ attempted = {}

-----------------------------------------------------------------------------
(***************************************************************************)
(* The game and SA-MP, between two frames.                                 *)
(***************************************************************************)
Streamed == DOMAIN peds

\* Where a clump for p can be allocated: p's own clump may have been freed.
FreeAddresses(p) ==
  Addresses \ {peds[q].object.address : q \in Streamed \ {p}}

GameStep ==
  /\ phase = "idle"
  /\ UNCHANGED <<runtimeVars, phase, scanVars>>

StreamIn(p) ==
  /\ p \notin Streamed
  /\ \E name \in Names, model \in Models, a \in FreeAddresses(p) :
       peds' = Put(peds, p, [ name   |-> name,
                              model  |-> model,
                              object |-> OrdinaryObject(a, model) ])
  /\ GameStep

StreamOut(p) ==
  /\ p \in Streamed
  /\ peds' = Without(peds, p)
  /\ GameStep

\* SetPlayerSkin, a respawn, ...: an ordinary clump is built, for the same or
\* for another model, possibly at the address of the clump it replaces.
ServerReset(p) ==
  /\ p \in Streamed
  /\ \E model \in Models, a \in FreeAddresses(p) :
       peds' = [peds EXCEPT ![p].model = model,
                            ![p].object = OrdinaryObject(a, model)]
  /\ GameStep

DropObject(p) ==
  /\ p \in Streamed
  /\ peds' = [peds EXCEPT ![p].object = NullObject]
  /\ GameStep

ChangeModelInPlace(p) ==
  /\ InPlaceModelChanges
  /\ p \in Streamed
  /\ \E model \in Models : peds' = [peds EXCEPT ![p].model = model]
  /\ GameStep

-----------------------------------------------------------------------------
(***************************************************************************)
(* The start of a frame: reload_config_if_changed, then the three ways a   *)
(* due scan can go.  The liveness scan may fail (the cache is then left    *)
(* alone), and so may the release of any retired source.                   *)
(***************************************************************************)
LiveObjects == {peds[p].object : p \in Streamed}

\* live_ped_state: the render objects of every ped, where nothing failed.
LivePedStates ==
  {{peds[p].object : p \in ids} :
     ids \in UNION {AllPeds(read, Streamed) : read \in PoolRead}}

CleanupOutcomes(c) ==
  {c} \cup {CleanupRetired(c, live, stuck) :
              live \in LivePedStates, stuck \in SUBSET c.retired}

Reload ==
  /\ phase = "idle"
  /\ \E c \in Configs :
       /\ config' = c
       /\ cache' = RetireUnreferenced(cache, ReferencedSkins(c))
  /\ failed' = EmptyMap
  /\ phase' = "due"
  /\ UNCHANGED <<applied, peds, scanVars>>

\* Mutant: without rules there is nothing to do, whatever is still applied.
RulesAreEmpty == config.rules = << >>

NothingToDo == config.rules = << >> /\ DOMAIN applied = {}

ScanNothingToDo ==
  /\ phase \in {"idle", "due"}
  /\ NothingToDo
  /\ failed' = EmptyMap
  /\ cache' \in CleanupOutcomes(RetireUnreferenced(cache, {}))
  /\ phase' = "idle"
  /\ UNCHANGED <<config, applied, peds, scanVars>>

ScanUnreadable ==
  /\ phase \in {"idle", "due"}
  /\ ~ NothingToDo
  /\ \E read \in PoolRead : StreamedPeds(read, Streamed) = {}
  /\ cache' \in CleanupOutcomes(cache)
  /\ phase' = "idle"
  /\ UNCHANGED <<config, applied, failed, peds, scanVars>>

BeginScan ==
  /\ phase \in {"idle", "due"}
  /\ ~ NothingToDo
  /\ phase' = "scan"
  /\ \E read \in PoolRead : streamed' \in StreamedPeds(read, Streamed)
  /\ todo' = streamed'
  /\ desired' = {}
  /\ attempted' = {}
  /\ UNCHANGED <<runtimeVars, peds, restoring>>

-----------------------------------------------------------------------------
(***************************************************************************)
(* restore_server_model for p, with the applied and failed records as they *)
(* are when it is called.  A restore that fails keeps the record and       *)
(* leaves the clone, nothing, or an ordinary clump on the ped.             *)
(***************************************************************************)
\* Mutant: render objects are compared by their address alone.
SameAddressIsSame(p, records) ==
  peds[p].object.address # records[p].render_object.address

\* Mutant: only the model id is compared.
SameModelIsSame(p, records) ==
  peds[p].model # records[p].server_model_id

\* Mutant: only the render object is compared.
SameObjectIsSame(p, records) ==
  peds[p].object # records[p].render_object

Superseded(p, records) ==
  \/ peds[p].model # records[p].server_model_id
  \/ peds[p].object # records[p].render_object

RebuiltPeds(p, model) ==
  {[peds EXCEPT ![p].model = model, ![p].object = OrdinaryObject(a, model)] :
     a \in FreeAddresses(p)}

BarePeds(p) == [peds EXCEPT ![p].object = NullObject]

\* Mutant: the record goes even when the restore fails.
RestoreFailsForgetting(p, records, failures) ==
  /\ peds' = peds
  /\ applied' = Without(records, p)
  /\ failed' = failures

RestoreFails(p, records, failures) ==
  /\ peds' \in IF Superseded(p, records)
               THEN {peds}
               ELSE {peds, BarePeds(p)}
                      \cup RebuiltPeds(p, records[p].server_model_id)
  /\ applied' = records
  /\ failed' = failures

Forget(p, records, failures) ==
  /\ applied' = Without(records, p)
  /\ failed' = Without(failures, p)

RestoreSucceeds(p, records, failures) ==
  /\ IF Superseded(p, records)
     THEN peds' = peds
     ELSE peds' \in RebuiltPeds(p, records[p].server_model_id)
  /\ Forget(p, records, failures)

RestoreServerModel(p, records, failures) ==
  \/ /\ p \notin DOMAIN records
     /\ peds' = peds
     /\ applied' = records
     /\ failed' = failures
  \/ p \in DOMAIN records /\ RestoreFails(p, records, failures)
  \/ p \in DOMAIN records /\ RestoreSucceeds(p, records, failures)

-----------------------------------------------------------------------------
(***************************************************************************)
(* A visit to the streamed ped of p.                                       *)
(***************************************************************************)
Visiting(p) == phase = "scan" /\ restoring = {} /\ p \in todo

\* skin_clone_reset_kind: the server replaced what Wardrobe installed.
ServerResetSeen(p) == p \in DOMAIN applied /\ Superseded(p, applied)

KnownApplied(p) == IF ServerResetSeen(p) THEN Without(applied, p) ELSE applied
KnownFailed(p) == IF ServerResetSeen(p) THEN Without(failed, p) ELSE failed

\* The name of a player may be unreadable.
NamesRead(p) == {peds[p].name, None}

MatchedProfiles(p) ==
  UNION {MatchingProfile(config, name, peds[p].model) : name \in NamesRead(p)}

MayGoUnmatched(p) ==
  \E name \in NamesRead(p) :
    MatchingProfile(config, name, peds[p].model) = {}

Switched(p, skin) ==
  p \in DOMAIN KnownApplied(p) /\ KnownApplied(p)[p].skin_id # skin

FreeGeometries ==
  Geometries \ (OwnedGeometries(cache)
                  \cup {peds[p].object.geometry : p \in Streamed})

Visited(p) ==
  /\ todo' = todo \ {p}
  /\ UNCHANGED <<config, phase, streamed>>

\* The model id or the render object cannot be read: the ped is skipped.
VisitUnreadable(p) ==
  /\ Visiting(p)
  /\ Visited(p)
  /\ UNCHANGED <<cache, applied, failed, peds, restoring, desired, attempted>>

VisitUnmatched(p) ==
  /\ Visiting(p)
  /\ MayGoUnmatched(p)
  /\ RestoreServerModel(p, KnownApplied(p), Without(KnownFailed(p), p))
  /\ Visited(p)
  /\ UNCHANGED <<cache, restoring, desired, attempted>>

\* Mutant: the record gets the new profile, the clone of the old one stays.
SwitchRelabels(p) ==
  /\ Visiting(p)
  /\ \E skin \in MatchedProfiles(p) :
       /\ Switched(p, skin)
       /\ desired' = desired \cup {skin}
       /\ applied' = [KnownApplied(p) EXCEPT ![p].skin_id = skin]
  /\ failed' = KnownFailed(p)
  /\ Visited(p)
  /\ UNCHANGED <<cache, peds, restoring, attempted>>

VisitSwitched(p) ==
  /\ Visiting(p)
  /\ \E skin \in MatchedProfiles(p) :
       /\ Switched(p, skin)
       /\ desired' = desired \cup {skin}
  /\ RestoreServerModel(p, KnownApplied(p), KnownFailed(p))
  /\ Visited(p)
  /\ UNCHANGED <<cache, restoring, attempted>>

\* The profiles that p keeps or is to get.
ProfilesFor(p) == {skin \in MatchedProfiles(p) : ~ Switched(p, skin)}

\* What source_for may answer for the profile of p.
Lookups(skin) ==
  UNION {LoadOrStatus(cache, skin, config.skins[skin], files, recently,
                      FreeGeometries) :
           files \in FileRevisions, recently \in BOOLEAN}

KeepRecords(p) ==
  /\ applied' = KnownApplied(p)
  /\ failed' = KnownFailed(p)

FailureOf(p, skin, generation, object) ==
  [ skin_id           |-> skin,
    source_generation |-> generation,
    server_model_id   |-> peds[p].model,
    render_object     |-> object ]

ApplicationFailed(p, skin, generation) ==
  /\ p \in DOMAIN KnownFailed(p)
  /\ KnownFailed(p)[p] = FailureOf(p, skin, generation, peds[p].object)

ToApply(p, skin, lookup) ==
  /\ lookup.kind = "Ready"
  /\ p \notin DOMAIN KnownApplied(p)
  /\ ~ ApplicationFailed(p, skin, lookup.generation)

\* The clone is already on, or the same attempt has failed before.
VisitReady(p) ==
  /\ Visiting(p)
  /\ \E skin \in ProfilesFor(p) : \E lookup \in Lookups(skin) :
       /\ desired' = desired \cup {skin}
       /\ lookup.kind = "Ready"
       /\ \/ p \in DOMAIN KnownApplied(p)
          \/ ApplicationFailed(p, skin, lookup.generation)
       /\ cache' = lookup.cache
  /\ KeepRecords(p)
  /\ Visited(p)
  /\ UNCHANGED <<peds, restoring, attempted>>

\* The clones of a source that the allocator can place beside p's clump.
ClonesFor(p, source) ==
  {[address |-> a, geometry |-> source.resources] :
     a \in FreeAddresses(p) \ {peds[p].object.address}}

VisitApply(p) ==
  /\ Visiting(p)
  /\ \E skin \in ProfilesFor(p) : \E lookup \in Lookups(skin) :
       /\ desired' = desired \cup {skin}
       /\ ToApply(p, skin, lookup)
       /\ peds[p].object # NullObject
       /\ \E clone \in ClonesFor(p, lookup.cache.loaded[skin]) :
            /\ peds' = [peds EXCEPT ![p].object = clone]
            /\ cache' = RecordClone(lookup.cache, skin, clone)
            /\ applied' = Put(KnownApplied(p), p,
                              [ skin_id         |-> skin,
                                server_model_id |-> peds[p].model,
                                render_object   |-> clone ])
  /\ failed' = Without(KnownFailed(p), p)
  /\ Visited(p)
  /\ UNCHANGED <<restoring, attempted>>

\* What a failed apply leaves on the ped: its clump untouched, an ordinary
\* clump rebuilt, none, or the clone that could be neither verified nor
\* removed.
FailedApplyPeds(p, source) ==
  {peds}
    \cup (IF peds[p].object = NullObject THEN {}
          ELSE {BarePeds(p)} \cup RebuiltPeds(p, peds[p].model))
    \cup (IF UnverifiedInstalls /\ peds[p].object # NullObject
          THEN {[peds EXCEPT ![p].object = clone] :
                  clone \in ClonesFor(p, source)}
          ELSE {})

VisitApplyFails(p) ==
  /\ Visiting(p)
  /\ \E skin \in ProfilesFor(p) : \E lookup \in Lookups(skin) :
       /\ desired' = desired \cup {skin}
       /\ ToApply(p, skin, lookup)
       /\ cache' = lookup.cache
       /\ peds' \in FailedApplyPeds(p, lookup.cache.loaded[skin])
       /\ \E seen \in {peds'[p].object, peds[p].object} :
            failed' = Put(KnownFailed(p), p,
                          FailureOf(p, skin, lookup.generation, seen))
  /\ applied' = KnownApplied(p)
  /\ Visited(p)
  /\ UNCHANGED <<restoring, attempted>>

\* Mutant: every streamed player counts as a user of the source.
EveryoneStreamed(skin, records) == streamed

\* Mutant: the users whose clones are on are not found.
NoUsers(skin, records) == {}

UsersOf(skin, records) ==
  {q \in streamed \cap DOMAIN records : records[q].skin_id = skin}

VisitRestoreRequired(p) ==
  /\ Visiting(p)
  /\ \E skin \in ProfilesFor(p) : \E lookup \in Lookups(skin) :
       /\ desired' = desired \cup {skin}
       /\ lookup.kind = "RestoreRequired"
       /\ cache' = lookup.cache
       /\ attempted' = attempted \cup {skin}
       /\ restoring' = IF skin \in attempted
                       THEN {} ELSE UsersOf(skin, KnownApplied(p))
  /\ KeepRecords(p)
  /\ Visited(p)
  /\ UNCHANGED peds

VisitUnavailable(p) ==
  /\ Visiting(p)
  /\ \E skin \in ProfilesFor(p) : \E lookup \in Lookups(skin) :
       /\ desired' = desired \cup {skin}
       /\ lookup.kind = "Unavailable"
       /\ cache' = lookup.cache
  /\ KeepRecords(p)
  /\ Visited(p)
  /\ UNCHANGED <<peds, restoring, attempted>>

\* One player of the list restore_profile_users made before it began.
RestoreUser(q) ==
  /\ phase = "scan"
  /\ q \in restoring
  /\ RestoreServerModel(q, applied, failed)
  /\ restoring' = restoring \ {q}
  /\ UNCHANGED <<config, cache, phase, streamed, todo, desired, attempted>>

-----------------------------------------------------------------------------
(***************************************************************************)
(* The end of a scan: what is applied stays desired, the rest is retired,  *)
(* players that streamed out are pruned, retired sources are cleaned up.   *)
(***************************************************************************)
RetainedSkins == desired \cup {applied[p].skin_id : p \in DOMAIN applied}

RetainedCache == RetireUnreferenced(cache, RetainedSkins)

\* prune_streamed_out_players
StreamedOnly(records) == Restrict(records, DOMAIN records \cap streamed)

EndScan ==
  /\ phase = "scan"
  /\ todo = {}
  /\ restoring = {}
  /\ cache' \in CleanupOutcomes(RetainedCache)
  /\ applied' = StreamedOnly(applied)
  /\ failed' = StreamedOnly(failed)
  /\ phase' = "idle"
  /\ streamed' = {}
  /\ desired' = {}
  /\ attempted' = {}
  /\ UNCHANGED <<config, peds, todo, restoring>>

Game ==
  \E p \in PlayerIds :
    \/ StreamIn(p)
    \/ StreamOut(p)
    \/ ServerReset(p)
    \/ DropObject(p)
    \/ ChangeModelInPlace(p)

Visit(p) ==
  \/ VisitUnreadable(p)
  \/ VisitUnmatched(p)
  \/ VisitSwitched(p)
  \/ VisitReady(p)
  \/ VisitApply(p)
  \/ VisitApplyFails(p)
  \/ VisitRestoreRequired(p)
  \/ VisitUnavailable(p)

Frame ==
  \/ Reload
  \/ ScanNothingToDo
  \/ ScanUnreadable
  \/ BeginScan
  \/ EndScan
  \/ \E p \in PlayerIds : Visit(p) \/ RestoreUser(p)

Next == Game \/ Frame

Spec == Init /\ [][Next]_vars

(***************************************************************************)
(* Fairness.  Frames keep coming and a scan that has begun goes on, being  *)
(* one call; nothing forces the game, a reload or a failure.  Reads,       *)
(* rebuilds and releases that fail are transient: what is attempted again  *)
(* and again succeeds in the end.                                          *)
(***************************************************************************)
ScanStep == EndScan \/ \E p \in PlayerIds : Visit(p) \/ RestoreUser(p)

RestoreWorks(p) ==
  /\ p \in DOMAIN applied
  /\ VisitUnmatched(p) \/ VisitSwitched(p) \/ RestoreUser(p)
  /\ p \notin DOMAIN applied'

EndScanReleases ==
  EndScan /\ cache' = CleanupRetired(RetainedCache, LiveObjects, {})

IdleFrameReleases ==
  /\ ScanNothingToDo
  /\ cache' = CleanupRetired(RetireUnreferenced(cache, {}), LiveObjects, {})

Fairness ==
  /\ WF_vars(ScanStep)
  /\ SF_vars(BeginScan)
  /\ SF_vars(EndScanReleases)
  /\ SF_vars(IdleFrameReleases)
  /\ \A p \in PlayerIds :
       SF_vars(RestoreWorks(p)) /\ SF_vars(VisitRestoreRequired(p))

FairSpec == Spec /\ Fairness
-----------------------------------------------------------------------------
(***************************************************************************)
(* Properties                                                              *)
(***************************************************************************)

\* Every variable has the type of the field or local it stands for; the
\* locals of a scan are empty outside one.
TypeOK ==
  /\ config \in Configs
  /\ IsCache(cache)
  /\ IsMap(applied, PlayerIds, AppliedPlayer)
  /\ IsMap(failed, PlayerIds, FailedApplication)
  /\ IsMap(peds, PlayerIds, Ped)
  /\ phase \in {"idle", "due", "scan"}
  /\ streamed = IF phase = "scan" THEN Streamed ELSE {}
  /\ todo \subseteq streamed
  /\ restoring \subseteq streamed \cap DOMAIN applied
  /\ desired \subseteq Skins
  /\ attempted \subseteq Skins

\* A source, loaded or retired, that lent this clone and knows it did.
Recorded(c, object) ==
  \/ \E s \in DOMAIN c.loaded :
       /\ c.loaded[s].resources = object.geometry
       /\ object \in c.loaded[s].clones
  \/ \E r \in c.retired :
       /\ r.resources = object.geometry
       /\ object \in r.clones

\* The source a worn clone borrows from knows the identity of that clone
\* (record_clone), across retirements and clean-ups ("SourceCache owns loaded
\* and retired resources and their clone identities").
CloneIsRecorded ==
  \A p \in Streamed : IsClone(peds[p].object) => Recorded(cache, peds[p].object)

\* A streamed ped never wears a clone whose source has been released: the
\* geometry and the textures it draws with still belong to a loaded or to a
\* retired source (cleanup_retired, "prevents freeing a source still used by
\* a streamed ped").
NoDanglingClone ==
  \A p \in Streamed :
    IsClone(peds[p].object) =>
      peds[p].object.geometry \in OwnedGeometries(cache)

\* A profile has one prepared source at most, loaded or waiting for its
\* release: no replacement is loaded while a clone may borrow from the old one
\* (load_or_status), and the two never share a TXD name.
OneSourcePerProfile ==
  /\ \A r \in cache.retired : r.skin_id \notin DOMAIN cache.loaded
  /\ \A r1, r2 \in cache.retired : r1.skin_id = r2.skin_id => r1 = r2

\* The clone a ped wears is the one Runtime remembers for that player, for the
\* profile whose source it borrows from: no path of apply, restore, reset
\* detection or pruning loses or crosses the record of an installed clone.  Only
\* a model id that changes under the clone makes Runtime let go of the record.
WornCloneIsRemembered ==
  \A p \in Streamed :
    IsClone(peds[p].object) /\ ~ (InPlaceModelChanges /\ p \notin DOMAIN applied) =>
      /\ p \in DOMAIN applied
      /\ applied[p].render_object = peds[p].object
      /\ \/ /\ applied[p].skin_id \in DOMAIN cache.loaded
            /\ cache.loaded[applied[p].skin_id].resources
                 = peds[p].object.geometry
         \/ \E r \in cache.retired :
              /\ r.skin_id = applied[p].skin_id
              /\ r.resources = peds[p].object.geometry

\* What SourceLifecycle is told of the cache and of the peds.
LoadedSources(c) ==
  {[skin_id |-> s, resources |-> c.loaded[s].resources] : s \in DOMAIN c.loaded}

RetiredSources(c) ==
  {[skin_id |-> r.skin_id, resources |-> r.resources] : r \in c.retired}

WornGeometries(streamedPeds) ==
  [p \in PlayerIds |->
     IF p \in DOMAIN streamedPeds /\ IsClone(streamedPeds[p].object)
     THEN streamedPeds[p].object.geometry ELSE NullAddress]

Lifecycle ==
  INSTANCE SourceLifecycle WITH
    loaded  <- LoadedSources(cache),
    retired <- RetiredSources(cache),
    worn    <- WornGeometries(peds)

\* Records, identities, scans and clean-ups together give the peds what
\* SourceLifecycle promises: what is retired is lent to nobody, comes back
\* never, and is released only when no ped draws with it; what is prepared is
\* prepared for a profile that has nothing else.
SourcesHaveLifecycle == Lifecycle!Spec

\* During a frame Wardrobe changes no ped's server model (ARCHITECTURE.md,
\* invariant 3), restores included: a newer server model is never overwritten
\* by the remembered one.
ServerModelPreserved ==
  [][phase = "scan" =>
       \A p \in Streamed : p \in DOMAIN peds' /\ peds'[p].model = peds[p].model]_vars

\* Wardrobe touches an ordinary clump only to put a clone of a profile that an
\* enabled rule matches on it: the clump of a ped that no rule matches, or that
\* SA-MP has rebuilt since, stays ("If no enabled rule matches, Wardrobe does
\* nothing").
OrdinaryClumpKept ==
  [][\A p \in Streamed :
       /\ phase = "scan"
       /\ peds'[p].object # peds[p].object
       /\ ~ IsClone(peds[p].object)
       => MatchedProfiles(p) # {}]_vars

\* A retired source is released in the end: its users are found and restored
\* again and again until none is left (load_or_status answers RestoreRequired
\* while one may be).  For a game that changes no model id under an unchanged
\* clone: what lifecycle.rs:15 lets go of is on no list of users any more.
RetiredIsReleased ==
  \A g \in Geometries :
    (\E r \in cache.retired : r.resources = g)
      ~> ~ (\E r \in cache.retired : r.resources = g)

\* p wears a clone of this profile's source, loaded or retired.
Wears(p, skin) ==
  /\ p \in Streamed
  /\ IsClone(peds[p].object)
  /\ \/ /\ skin \in DOMAIN cache.loaded
        /\ cache.loaded[skin].resources = peds[p].object.geometry
     \/ \E r \in cache.retired :
          r.skin_id = skin /\ r.resources = peds[p].object.geometry

\* A skin that no rule grants its player any longer (its rule is gone, its
\* profile disabled, a rule by name outranks it) does not stay on, whatever
\* becomes of the record of it: it is restored or replaced in the end ("restore
\* removed rules").  Under the condition of RetiredIsReleased.
UngrantedSkinGoes ==
  \A p \in PlayerIds, skin \in Skins :
    LET Ungranted ==
          /\ Wears(p, skin)
          /\ skin \notin MatchingProfile(config, peds[p].name, peds[p].model)
    IN  Ungranted ~> ~ Ungranted
=============================================================================
