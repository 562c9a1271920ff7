---------------------------- MODULE SourceCache -----------------------------
(***************************************************************************)
(* The shared cache of prepared skin sources (skin_loader/source_cache.rs) *)
(* as operators over a cache value, and the identity of a render object    *)
(* (PedRenderObject of gta.rs) by which it knows the clones it lent out.   *)
(*                                                                         *)
(* A source owns one geometry (with its textures); each clone installed on *)
(* a ped is a clump at an address of its own that borrows the geometry of  *)
(* its source.  The ordinary clump of a model has that model's geometry.   *)
(* Addresses and source geometries are reused once they are free.          *)
(***************************************************************************)
EXTENDS WardrobeConfig

CONSTANTS
  Addresses,      \* clump addresses
  Geometries,     \* geometry addresses of loaded skin sources
  NullAddress,    \* a null pointer
  FileRevisions,  \* (txd, dff) file revisions of a profile's assets
  MaxGeneration   \* bound: generations wrap here, u64::MAX in the code

ASSUME CacheAssumption ==
  /\ NullAddress \notin Addresses \cup Geometries \cup Models
  /\ Geometries \cap Models = {}
  /\ MaxGeneration \in Nat \ {0}

(***************************************************************************)
(* Render objects                                                          *)
(***************************************************************************)
RenderObject == [address : Addresses, geometry : Models \cup Geometries]

NullObject == [address |-> NullAddress, geometry |-> NullAddress]

PedRenderObject == RenderObject \cup {NullObject}

OrdinaryObject(address, model) == [address |-> address, geometry |-> model]

IsClone(object) == object.geometry \in Geometries

(***************************************************************************)
(* The cache.  retired is a Vec in the code; no two of its entries share   *)
(* their resources, so a set says as much.                                 *)
(***************************************************************************)
SourceRevision == [definition : SkinDefinition, files : FileRevisions]

LoadedSource == [ resources  : Geometries,
                  source     : SourceRevision,
                  generation : 1 .. MaxGeneration,
                  clones     : SUBSET PedRenderObject ]

RetiredSource == [ skin_id   : Skins,
                   resources : Geometries,
                   clones    : SUBSET PedRenderObject ]

CacheOf(loaded, retired, failed, generation) ==
  [ loaded     |-> loaded,
    retired    |-> retired,
    failed     |-> failed,
    generation |-> generation ]

IsCache(cache) ==
  /\ IsMap(cache.loaded, Skins, LoadedSource)
  /\ cache.retired \subseteq RetiredSource
  /\ IsMap(cache.failed, Skins, SourceRevision)
  /\ cache.generation \in 0 .. MaxGeneration

EmptyCache == CacheOf(EmptyMap, {}, EmptyMap, 0)

\* The geometries the cache has not released yet.
OwnedGeometries(cache) ==
  {cache.loaded[s].resources : s \in DOMAIN cache.loaded}
    \cup {r.resources : r \in cache.retired}

(***************************************************************************)
(* retire, retire_unreferenced                                             *)
(***************************************************************************)
\* Mutant: the clones on loan are forgotten with the retirement.
RetiredWithoutClones(skin, loaded) ==
  [skin_id |-> skin, resources |-> loaded.resources, clones |-> {}]

Retired(skin, loaded) ==
  [skin_id |-> skin, resources |-> loaded.resources, clones |-> loaded.clones]

Retirements(cache, referenced) ==
  {Retired(s, cache.loaded[s]) : s \in DOMAIN cache.loaded \ referenced}

RetireUnreferenced(cache, referenced) ==
  CacheOf(Restrict(cache.loaded, DOMAIN cache.loaded \cap referenced),
          cache.retired \cup Retirements(cache, referenced),
          cache.failed,
          cache.generation)

(***************************************************************************)
(* load_or_status.  recently says that the assets of the profile were      *)
(* checked less than ASSET_RELOAD_INTERVAL ago; files is what a fresh      *)
(* check finds.  free holds the geometries a load may be given: loading    *)
(* may fail whatever the revision says, the files being read again.        *)
(***************************************************************************)
Lookup(kind, generation, cache) ==
  [kind |-> kind, generation |-> generation, cache |-> cache]

\* Mutant: the counter wraps to zero.
WrapsToZero(generation) ==
  IF generation = MaxGeneration THEN 0 ELSE generation + 1

\* wrapping_add(1).max(1)
NextGeneration(generation) ==
  IF generation = MaxGeneration THEN 1 ELSE generation + 1

\* Mutant: a replacement does not wait for the retired source.
NeverWait(cache, skin) == FALSE

RestoreStillNeeded(cache, skin) ==
  \E r \in cache.retired : r.skin_id = skin

\* The revision remembered for the profile answers without a load.
Unchanged(revision, definition, files, recently) ==
  /\ revision.definition = definition
  /\ recently \/ revision.files = files

UpToDate(cache, skin, definition, files, recently) ==
  /\ skin \in DOMAIN cache.loaded
  /\ Unchanged(cache.loaded[skin].source, definition, files, recently)

StillBroken(cache, skin, definition, files, recently) ==
  /\ skin \in DOMAIN cache.failed
  /\ Unchanged(cache.failed[skin], definition, files, recently)

NewSource(geometry, source, generation) ==
  [ resources  |-> geometry,
    source     |-> source,
    generation |-> generation,
    clones     |-> {} ]

LoadSucceeds(cache, skin, source, geometry) ==
  LET generation == NextGeneration(cache.generation)
  IN  Lookup("Ready", generation,
        CacheOf(Put(cache.loaded, skin,
                    NewSource(geometry, source, generation)),
                cache.retired,
                Without(cache.failed, skin),
                generation))

LoadFails(cache, skin, source) ==
  Lookup("Unavailable", 0,
    CacheOf(cache.loaded, cache.retired, Put(cache.failed, skin, source),
            cache.generation))

\* The revision changed: the source retires and its broken past is forgotten.
Replace(cache, skin) ==
  LET retiring == RetireUnreferenced(cache, Skins \ {skin})
  IN  CacheOf(retiring.loaded, retiring.retired, Without(cache.failed, skin),
              cache.generation)

LoadOrStatus(cache, skin, definition, files, recently, free) ==
  IF RestoreStillNeeded(cache, skin)
  THEN {Lookup("RestoreRequired", 0, cache)}
  ELSE IF UpToDate(cache, skin, definition, files, recently)
  THEN {Lookup("Ready", cache.loaded[skin].generation, cache)}
  ELSE IF recently /\ StillBroken(cache, skin, definition, files, TRUE)
  THEN {Lookup("Unavailable", 0, cache)}
  ELSE IF skin \in DOMAIN cache.loaded
  THEN {Lookup("RestoreRequired", 0, Replace(cache, skin))}
  ELSE IF StillBroken(cache, skin, definition, files, FALSE)
  THEN {Lookup("Unavailable", 0, cache)}
  ELSE LET source == [definition |-> definition, files |-> files]
       IN  {LoadSucceeds(cache, skin, source, g) : g \in free}
             \cup {LoadFails(cache, skin, source)}

(***************************************************************************)
(* record_clone, cleanup_retired.  stuck holds the retired sources whose   *)
(* release fails (the clump cannot be destroyed) this time.                *)
(***************************************************************************)
\* Mutant: installed clones are not recorded.
RecordNothing(cache, skin, clone) == cache

RecordClone(cache, skin, clone) ==
  IF skin \in DOMAIN cache.loaded
  THEN CacheOf([cache.loaded EXCEPT ![skin].clones = @ \cup {clone}],
               cache.retired, cache.failed, cache.generation)
  ELSE cache

ForgetDeadClones(loaded, live) ==
  [s \in DOMAIN loaded |-> [loaded[s] EXCEPT !.clones = @ \cap live]]

StillBorrowed(retired, live) == {r \in retired : r.clones \cap live # {}}

\* Mutant: a retired source is released without asking who is live.
CleanupEverything(cache, live, stuck) ==
  CacheOf(ForgetDeadClones(cache.loaded, live), cache.retired \cap stuck,
          cache.failed, cache.generation)

CleanupRetired(cache, live, stuck) ==
  CacheOf(ForgetDeadClones(cache.loaded, live),
          StillBorrowed(cache.retired, live) \cup (cache.retired \cap stuck),
          cache.failed,
          cache.generation)
=============================================================================
