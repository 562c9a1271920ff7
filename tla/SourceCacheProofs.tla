-------------------------- MODULE SourceCacheProofs --------------------------
(***************************************************************************)
(* What the operators of SourceCache return, for any profiles, models,     *)
(* addresses and geometries.                                               *)
(***************************************************************************)
EXTENDS SourceCache, TLAPS

-----------------------------------------------------------------------------
(***************************************************************************)
(* Maps                                                                    *)
(***************************************************************************)

\* The empty map is a map of every type (HashMap::default).
LEMMA EmptyMapType ==
  ASSUME NEW K, NEW V
  PROVE  IsMap(EmptyMap, K, V) /\ DOMAIN EmptyMap = {}
  BY DEF IsMap, EmptyMap

\* Inserting a well-typed entry keeps the type of a map (HashMap::insert).
LEMMA PutType ==
  ASSUME NEW K, NEW V, NEW map, NEW k \in K, NEW v \in V, IsMap(map, K, V)
  PROVE  /\ IsMap(Put(map, k, v), K, V)
         /\ DOMAIN Put(map, k, v) = DOMAIN map \cup {k}
         /\ Put(map, k, v)[k] = v
         /\ \A j \in DOMAIN map \ {k} : Put(map, k, v)[j] = map[j]
  BY DEF IsMap, Put

\* Keeping some of the keys keeps the type and the values (HashMap::retain).
LEMMA RestrictType ==
  ASSUME NEW K, NEW V, NEW map, NEW S, S \subseteq DOMAIN map, IsMap(map, K, V)
  PROVE  /\ IsMap(Restrict(map, S), K, V)
         /\ DOMAIN Restrict(map, S) = S
         /\ \A k \in S : Restrict(map, S)[k] = map[k]
  BY DEF IsMap, Restrict

\* Removing a key (HashMap::remove).
LEMMA WithoutType ==
  ASSUME NEW K, NEW V, NEW map, NEW k, IsMap(map, K, V)
  PROVE  /\ IsMap(Without(map, k), K, V)
         /\ DOMAIN Without(map, k) = DOMAIN map \ {k}
         /\ \A j \in DOMAIN map \ {k} : Without(map, k)[j] = map[j]
  BY DEF Without, Restrict, IsMap

-----------------------------------------------------------------------------
(***************************************************************************)
(* The source cache                                                        *)
(***************************************************************************)

\* A new cache is a cache (SourceCache::default).
LEMMA EmptyCacheType == IsCache(EmptyCache)
<1>1. IsMap(EmptyMap, Skins, LoadedSource)
  BY EmptyMapType
<1>2. IsMap(EmptyMap, Skins, SourceRevision)
  BY EmptyMapType
<1>3. 0 \in 0 .. MaxGeneration
  BY CacheAssumption
<1> QED
  BY <1>1, <1>2, <1>3 DEF IsCache, EmptyCache, CacheOf

\* retire_unreferenced makes a cache of a cache.
LEMMA RetireType ==
  ASSUME NEW cc, IsCache(cc), NEW R
  PROVE  IsCache(RetireUnreferenced(cc, R))
<1>1. IsMap(Restrict(cc.loaded, DOMAIN cc.loaded \cap R), Skins, LoadedSource)
  BY RestrictType DEF IsCache
<1>2. Retirements(cc, R) \subseteq RetiredSource
  BY DEF IsCache, IsMap, Retirements, Retired, LoadedSource, RetiredSource
<1> QED
  BY <1>1, <1>2 DEF IsCache, RetireUnreferenced, CacheOf

\* record_clone makes a cache of a cache.
LEMMA RecordCloneType ==
  ASSUME NEW cc, IsCache(cc), NEW s, NEW clone \in PedRenderObject
  PROVE  IsCache(RecordClone(cc, s, clone))
<1>1. CASE s \notin DOMAIN cc.loaded
  BY <1>1 DEF RecordClone
<1>2. CASE s \in DOMAIN cc.loaded
  <2>1. [cc.loaded EXCEPT ![s].clones = @ \cup {clone}]
           \in [DOMAIN cc.loaded -> LoadedSource]
    BY <1>2 DEF IsCache, IsMap, LoadedSource
  <2> QED
    BY <1>2, <2>1 DEF IsCache, IsMap, RecordClone, CacheOf
<1> QED
  BY <1>1, <1>2

\* cleanup_retired makes a cache of a cache.
LEMMA CleanupType ==
  ASSUME NEW cc, IsCache(cc), NEW live, NEW stuck
  PROVE  IsCache(CleanupRetired(cc, live, stuck))
<1>1. IsMap(ForgetDeadClones(cc.loaded, live), Skins, LoadedSource)
  BY DEF IsCache, IsMap, LoadedSource, ForgetDeadClones
<1>2. StillBorrowed(cc.retired, live) \subseteq cc.retired
  BY DEF StillBorrowed
<1> QED
  BY <1>1, <1>2 DEF IsCache, CleanupRetired, CacheOf

\* load_or_status makes a cache of a cache, and a profile it reports as ready
\* has a loaded source and a proper generation.
LEMMA LoadOrStatusType ==
  ASSUME NEW cc, IsCache(cc),
         NEW s \in Skins, NEW d \in SkinDefinition, NEW f \in FileRevisions,
         NEW recently \in BOOLEAN, NEW free \in SUBSET Geometries,
         NEW l \in LoadOrStatus(cc, s, d, f, recently, free)
  PROVE  /\ IsCache(l.cache)
         /\ l.kind = "Ready" => /\ s \in DOMAIN l.cache.loaded
                                /\ l.generation \in 1 .. MaxGeneration
<1> DEFINE source == [definition |-> d, files |-> f]
           generation == NextGeneration(cc.generation)
<1>0. source \in SourceRevision /\ generation \in 1 .. MaxGeneration
  BY CacheAssumption DEF SourceRevision, NextGeneration, IsCache
<1> HIDE DEF source, generation
<1>1. CASE l = Lookup("RestoreRequired", 0, cc)
  BY <1>1 DEF Lookup
<1>2. CASE l = Lookup("Unavailable", 0, cc)
  BY <1>2 DEF Lookup
<1>3. CASE /\ s \in DOMAIN cc.loaded
           /\ l = Lookup("Ready", cc.loaded[s].generation, cc)
  BY <1>3 DEF Lookup, IsCache, IsMap, LoadedSource
<1>4. CASE l = Lookup("RestoreRequired", 0, Replace(cc, s))
  <2>1. IsCache(RetireUnreferenced(cc, Skins \ {s}))
    BY RetireType
  <2>2. IsMap(Without(cc.failed, s), Skins, SourceRevision)
    BY WithoutType DEF IsCache
  <2> QED
    BY <1>4, <2>1, <2>2 DEF IsCache, Lookup, Replace, CacheOf
<1>5. CASE \E g \in free : l = LoadSucceeds(cc, s, source, g)
  <2>1. PICK g \in free : l = LoadSucceeds(cc, s, source, g)
    BY <1>5
  <2> DEFINE new == NewSource(g, source, generation)
  <2>2. new \in LoadedSource
    BY <1>0 DEF LoadedSource, NewSource
  <2> HIDE DEF new
  <2>a. IsMap(cc.loaded, Skins, LoadedSource)
    BY DEF IsCache
  <2>3. IsMap(Put(cc.loaded, s, new), Skins, LoadedSource)
    BY <2>2, <2>a, PutType
  <2>b. s \in DOMAIN Put(cc.loaded, s, new)
    BY DEF Put
  <2>4. IsMap(Without(cc.failed, s), Skins, SourceRevision)
    BY WithoutType DEF IsCache
  <2> QED
    BY <1>0, <2>1, <2>3, <2>b, <2>4
    DEF IsCache, LoadSucceeds, Lookup, CacheOf, generation, new
<1>6. CASE l = LoadFails(cc, s, source)
  <2>1. IsMap(Put(cc.failed, s, source), Skins, SourceRevision)
    BY <1>0, PutType DEF IsCache
  <2> QED
    BY <1>6, <2>1 DEF IsCache, LoadFails, Lookup, CacheOf
<1> QED
  BY <1>1, <1>2, <1>3, <1>4, <1>5, <1>6
  DEF LoadOrStatus, UpToDate, source
=============================================================================
