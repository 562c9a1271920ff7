-------------------------- MODULE AssetReloadProofs --------------------------
(***************************************************************************)
(* What holds of AssetReload for any paths and any number of writes.       *)
(***************************************************************************)
EXTENDS AssetReload, SourceCacheProofs

\* The files that a list of revisions speaks of were written in the past.
Past(revisions) == revisions \in [txd : 0 .. writes, dff : 0 .. writes]

\* No revision is newer than the clock, so that the next write is one that
\* neither the cache nor the call in progress has seen.
StampsArePast ==
  /\ \A paths \in Paths : Past(Revisions(paths))
  /\ Past(seen)
  /\ Loaded => Past(cache.loaded[Profile].source.files)
  /\ HasFailed => Past(cache.failed[Profile].files)

\* While a TXD that is there has the revision the check saw, it is the one
\* that the load has read.
ReadIsSeen ==
  at = "load_dff" /\ seen.txd # 0 /\ disk[wanted.paths]["txd"].write = seen.txd
    => read = seen.txd

IInv == TypeOK /\ StampsArePast /\ ReadIsSeen /\ NoHiddenChange

-----------------------------------------------------------------------------
\* The revision a check remembers is a source revision of the cache.
LEMMA SeenType ==
  ASSUME TypeOK
  PROVE  SourceRevisionSeen \in SourceRevision
  BY AssetAssumption
  DEF TypeOK, SourceRevisionSeen, SourceRevision, Revision, Definition,
      SkinDefinition

\* What the cache has of the profile, loaded or known to be broken, is typed.
LEMMA EntryType ==
  ASSUME TypeOK
  PROVE  /\ Loaded => /\ cache.loaded[Profile] \in LoadedSource
                      /\ cache.loaded[Profile].generation \in 0 .. MaxGeneration
         /\ HasFailed => cache.failed[Profile] \in SourceRevision
  BY CacheAssumption
  DEF TypeOK, IsCache, IsMap, Loaded, HasFailed, LoadedSource

\* Every step keeps the types.
LEMMA TypeStep ==
  ASSUME TypeOK, [Next]_vars
  PROVE  TypeOK'
<1>1. CASE UNCHANGED vars
  BY <1>1 DEF TypeOK, vars, call
<1>2. ASSUME NEW paths \in Paths, NEW part \in Parts, Write(paths, part)
      PROVE  TypeOK'
  <2>1. writes' \in 0 .. MaxWrites
    BY <1>2, AssetAssumption DEF TypeOK, Write
  <2>2. disk' \in [Paths -> [Parts -> File]]
    <3>1. PICK file \in {MissingFile} \cup [write : {writes'}, good : BOOLEAN] :
            disk' = [disk EXCEPT ![paths][part] = file]
      BY <1>2 DEF Write
    <3>2. file \in File
      <4>1. 0 \in Revision /\ writes' \in Revision
        BY <2>1, AssetAssumption DEF Revision
      <4>2. CASE file = MissingFile
        BY <4>1, <4>2 DEF MissingFile, File
      <4>3. CASE file \in [write : {writes'}, good : BOOLEAN]
        BY <4>1, <4>3 DEF File
      <4> QED
        BY <4>2, <4>3
    <3> QED
      BY <3>1, <3>2 DEF TypeOK
  <2> QED
    BY <1>2, <2>1, <2>2 DEF TypeOK, Write, call
<1>3. CASE IntervalPasses
  BY <1>3 DEF TypeOK, IntervalPasses, call
<1>4. CASE Redefine
  BY <1>4 DEF TypeOK, Redefine, BetweenCalls, call
<1>5. CASE Unreference
  BY <1>5, RetireType DEF TypeOK, Unreference, BetweenCalls, call
<1>6. CASE Release
  BY <1>6, CleanupType DEF TypeOK, Release, BetweenCalls, call
<1>7. CASE Call
  <2>0. /\ wanted' \in Definition
        /\ disk' \in [Paths -> [Parts -> File]]
        /\ writes' \in 0 .. MaxWrites
    BY <1>7 DEF TypeOK, Call, Outside
  <2>f. 0 \in 0 .. MaxGeneration
    BY CacheAssumption
  <2>w. wanted.paths \in Paths
    BY DEF TypeOK, Definition
  <2>d. /\ disk[wanted.paths]["txd"].write \in Revision
        /\ disk[wanted.paths]["dff"].write \in Revision
    BY <2>w DEF TypeOK, Parts, File
  <2>e. FailToLoad => TypeOK'
    <3>1. SUFFICES ASSUME FailToLoad PROVE IsCache(cache')
      BY <1>7, <2>0, <2>f DEF TypeOK, FailToLoad, Answer, Call, InspectTxd,
         InspectDff, Compare, LoadTxd, LoadDff, WaitForRestore, AnswerRecent,
         StartCheck
    <3>2. IsMap(Put(cache.failed, Profile, SourceRevisionSeen), Skins,
                SourceRevision)
      BY SeenType, PutType, AssetAssumption DEF TypeOK, IsCache
    <3> QED
      BY <3>1, <3>2 DEF FailToLoad, TypeOK, IsCache, CacheOf
  <2>1. CASE WaitForRestore
    BY <2>0, <2>1, <2>f DEF TypeOK, WaitForRestore, Answer
  <2>2. CASE AnswerRecent
    BY <2>0, <2>2, <2>f, EntryType DEF TypeOK, AnswerRecent, Answer, ReadyRecently
  <2>3. CASE StartCheck
    BY <2>0, <2>3 DEF TypeOK, StartCheck
  <2>4. CASE InspectTxd
    BY <2>0, <2>4, <2>d DEF TypeOK, InspectTxd
  <2>5. CASE InspectDff
    BY <2>0, <2>5, <2>d DEF TypeOK, InspectDff
  <2>6. CASE Compare
    <3>1. CASE StillLoaded
      BY <2>0, <2>6, <3>1, EntryType DEF TypeOK, Compare, StillLoaded, Answer
    <3>2. CASE RetireChanged
      <4>1. IsCache(RetireUnreferenced(cache, Skins \ {Profile}))
        BY RetireType DEF TypeOK
      <4>2. IsMap(Without(cache.failed, Profile), Skins, SourceRevision)
        BY WithoutType DEF TypeOK, IsCache
      <4>3. IsCache(cache')
        BY <3>2, <4>1, <4>2 DEF RetireChanged, IsCache, CacheOf, TypeOK
      <4> QED
        BY <2>0, <2>6, <2>f, <3>2, <4>3 DEF TypeOK, Compare, RetireChanged, Answer
    <3>3. CASE StillUnavailable
      BY <2>0, <2>6, <2>f, <3>3 DEF TypeOK, Compare, StillUnavailable, Answer
    <3>4. CASE StartLoad
      BY <2>0, <2>6, <3>4 DEF TypeOK, Compare, StartLoad
    <3> QED
      BY <2>6, <3>1, <3>2, <3>3, <3>4 DEF Compare
  <2>7. CASE LoadTxd
    BY <2>0, <2>7, <2>d, <2>e DEF TypeOK, LoadTxd
  <2>8. CASE LoadDff
    <3>1. CASE FailToLoad
      BY <2>e, <3>1
    <3>2. CASE \E geometry \in Geometries \ OwnedGeometries(cache) :
                 Load(geometry, NextGeneration(cache.generation))
      <4> DEFINE generation == NextGeneration(cache.generation)
      <4>1. generation \in 1 .. MaxGeneration /\ generation \in 0 .. MaxGeneration
        BY CacheAssumption DEF TypeOK, IsCache, NextGeneration
      <4> HIDE DEF generation
      <4>2. PICK geometry \in Geometries : Load(geometry, generation)
        BY <3>2 DEF generation
      <4> DEFINE new == NewSource(geometry, SourceRevisionSeen, generation)
      <4>3. new \in LoadedSource
        BY <4>1, SeenType DEF NewSource, LoadedSource
      <4> HIDE DEF new
      <4>4. IsMap(Put(cache.loaded, Profile, new), Skins, LoadedSource)
        BY <4>3, PutType, AssetAssumption DEF TypeOK, IsCache
      <4>5. IsMap(Without(cache.failed, Profile), Skins, SourceRevision)
        BY WithoutType DEF TypeOK, IsCache
      <4>6. IsCache(cache')
        BY <4>1, <4>2, <4>4, <4>5 DEF Load, new, IsCache, CacheOf, TypeOK
      <4>7. content' \in [paths : Paths, txd : Revision, dff : Revision]
        BY <2>w, <2>d, <4>2 DEF Load, TypeOK
      <4> QED
        BY <2>0, <2>8, <4>1, <4>2, <4>6, <4>7 DEF TypeOK, LoadDff, Load, Answer
    <3> QED
      BY <2>8, <3>1, <3>2 DEF LoadDff
  <2> QED
    BY <1>7, <2>1, <2>2, <2>3, <2>4, <2>5, <2>6, <2>7, <2>8 DEF Call
<1> QED
  BY <1>1, <1>2, <1>3, <1>4, <1>5, <1>6, <1>7 DEF Next

\* The initial state has the types.
LEMMA InitType == Init => TypeOK
<1>1. 0 \in 0 .. MaxWrites /\ 0 \in 0 .. MaxGeneration
  BY AssetAssumption, CacheAssumption
<1>2. MissingFile \in File
  BY <1>1 DEF MissingFile, File, Revision
<1>3. Init => disk \in [Paths -> [Parts -> File]]
  BY <1>2 DEF Init
<1>4. Init => content \in [paths : Paths, txd : Revision, dff : Revision]
  BY <1>1 DEF Init, Revision, Definition
<1>5. /\ NoAnswer \in [ kind : {"None", "Ready", "RestoreRequired", "Unavailable"},
                        generation : 0 .. MaxGeneration ]
      /\ 0 \in Revision
      /\ [txd |-> 0, dff |-> 0] \in [txd : Revision, dff : Revision]
  BY <1>1 DEF NoAnswer, Revision
<1> QED
  BY <1>1, <1>3, <1>4, <1>5, EmptyCacheType DEF Init, TypeOK

\* Type correctness (the fields of SourceCache and the locals of a call).
THEOREM TypeCorrect == Spec => []TypeOK
  BY InitType, TypeStep, PTL DEF Spec

-----------------------------------------------------------------------------
\* A write leaves a file alone, removes it, or gives it a time of its own.
LEMMA WriteIsNew ==
  ASSUME TypeOK, NEW paths \in Paths, NEW part \in Parts, Write(paths, part),
         NEW p \in Paths, NEW q \in Parts
  PROVE  \/ disk'[p][q] = disk[p][q]
         \/ disk'[p][q].write = 0 /\ ~ disk'[p][q].good
         \/ disk'[p][q].write = writes + 1
<1>1. PICK file \in {MissingFile} \cup [write : {writes'}, good : BOOLEAN] :
        disk' = [disk EXCEPT ![paths][part] = file]
  BY DEF Write
<1>2. disk'[p][q] = disk[p][q] \/ disk'[p][q] = file
  BY <1>1 DEF TypeOK
<1>3. (file.write = 0 /\ ~ file.good) \/ file.write = writes + 1
  <2>1. CASE file = MissingFile
    BY <2>1 DEF MissingFile
  <2>2. CASE file \in [write : {writes'}, good : BOOLEAN]
    BY <2>2 DEF Write
  <2> QED
    BY <2>1, <2>2
<1> QED
  BY <1>2, <1>3

\* A write keeps the invariant: a revision that is remembered is a past one,
\* so it cannot become that of the new file.
LEMMA WriteStep ==
  ASSUME IInv, NEW paths \in Paths, NEW part \in Parts, Write(paths, part)
  PROVE  StampsArePast' /\ ReadIsSeen' /\ NoHiddenChange'
<1>1. /\ writes' = writes + 1
      /\ UNCHANGED <<cache, wanted, content, at, seen, read>>
  BY DEF Write, call
<1>2. writes \in Nat
  BY AssetAssumption DEF IInv, TypeOK
<1>3. "txd" \in Parts /\ "dff" \in Parts
  BY DEF Parts
<1>4. \A p \in Paths, q \in Parts : disk[p][q].write \in 0 .. writes
  BY DEF IInv, StampsArePast, Past, Revisions, Parts
<1>5. \A p \in Paths, q \in Parts :
        \/ disk'[p][q] = disk[p][q]
        \/ disk'[p][q].write = 0 /\ ~ disk'[p][q].good
        \/ disk'[p][q].write = writes + 1
  BY WriteIsNew DEF IInv
<1>6. StampsArePast'
  <2>1. \A revisions : Past(revisions) => Past(revisions)'
    BY <1>1, <1>2 DEF Past
  <2>2. \A p \in Paths : Past(Revisions(p))'
    BY <1>1, <1>2, <1>3, <1>4, <1>5 DEF Past, Revisions
  <2> QED
    BY <1>1, <2>1, <2>2 DEF IInv, StampsArePast, Loaded, HasFailed
<1>7. ReadIsSeen'
  <2>1. wanted.paths \in Paths
    BY DEF IInv, TypeOK, Definition
  <2>2. seen.txd \in 0 .. writes
    BY DEF IInv, StampsArePast, Past
  <2> QED
    BY <1>1, <1>2, <1>3, <1>5, <2>1, <2>2 DEF IInv, ReadIsSeen
<1>8. NoHiddenChange'
  <2>1. SUFFICES ASSUME NEW p \in Paths
                 PROVE  /\ Loaded' /\ cache'.loaded[Profile].source.definition.paths = p
                             /\ cache'.loaded[Profile].source.files = Revisions(p)'
                             /\ There(p)'
                           => content' = Contents(p)'
                        /\ HasFailed' /\ cache'.failed[Profile].definition.paths = p
                             /\ cache'.failed[Profile].files = Revisions(p)'
                           => ~ Good(p)'
    BY DEF NoHiddenChange
  <2>2. \A revisions :
          Past(revisions) /\ revisions = Revisions(p)' /\ There(p)'
            => disk'[p]["txd"] = disk[p]["txd"] /\ disk'[p]["dff"] = disk[p]["dff"]
    BY <1>2, <1>3, <1>5 DEF Past, Revisions, There
  <2>3. \A revisions :
          Past(revisions) /\ revisions = Revisions(p)' /\ Good(p)'
            => disk'[p]["txd"] = disk[p]["txd"] /\ disk'[p]["dff"] = disk[p]["dff"]
    BY <1>2, <1>3, <1>5 DEF Past, Revisions, Good
  <2>4. ASSUME disk'[p]["txd"] = disk[p]["txd"], disk'[p]["dff"] = disk[p]["dff"]
        PROVE  /\ Revisions(p)' = Revisions(p) /\ Contents(p)' = Contents(p)
               /\ There(p)' = There(p) /\ Good(p)' = Good(p)
    BY <2>4 DEF Revisions, Contents, There, Good
  <2>5. ASSUME Loaded', cache'.loaded[Profile].source.definition.paths = p,
               cache'.loaded[Profile].source.files = Revisions(p)', There(p)'
        PROVE  content' = Contents(p)'
    <3>1. Loaded /\ Past(cache.loaded[Profile].source.files)
      BY <1>1, <2>5 DEF Loaded, IInv, StampsArePast
    <3>2. Revisions(p)' = Revisions(p) /\ Contents(p)' = Contents(p) /\ There(p)
      BY <1>1, <2>2, <2>4, <2>5, <3>1
    <3> QED
      BY <1>1, <2>5, <3>1, <3>2 DEF IInv, NoHiddenChange
  <2>6. ASSUME HasFailed', cache'.failed[Profile].definition.paths = p,
               cache'.failed[Profile].files = Revisions(p)', Good(p)'
        PROVE  FALSE
    <3>1. HasFailed /\ Past(cache.failed[Profile].files)
      BY <1>1, <2>6 DEF HasFailed, IInv, StampsArePast
    <3>2. Revisions(p)' = Revisions(p) /\ Good(p)
      BY <1>1, <2>3, <2>4, <2>6, <3>1
    <3> QED
      BY <1>1, <2>6, <3>1, <3>2 DEF IInv, NoHiddenChange
  <2> QED
    BY <2>1, <2>5, <2>6
<1> QED
  BY <1>6, <1>7, <1>8

\* What a step must leave alone for the rest of the invariant to stay: the
\* files, and what the cache remembers of the profile.
LEMMA RememberedStep ==
  ASSUME IInv,
         UNCHANGED <<disk, writes, content>>,
         Loaded' => /\ Loaded
                    /\ cache'.loaded[Profile].source = cache.loaded[Profile].source,
         HasFailed' => HasFailed /\ cache'.failed[Profile] = cache.failed[Profile],
         Past(seen'),
         at' # "load_dff"
  PROVE  StampsArePast' /\ ReadIsSeen' /\ NoHiddenChange'
<1>1. /\ \A revisions : Past(revisions)' = Past(revisions)
      /\ \A p \in Paths : /\ Revisions(p)' = Revisions(p)
                          /\ Contents(p)' = Contents(p)
                          /\ There(p)' = There(p)
                          /\ Good(p)' = Good(p)
  BY DEF Past, Revisions, Contents, There, Good
<1>2. StampsArePast'
  BY <1>1 DEF IInv, StampsArePast
<1>3. ReadIsSeen'
  BY DEF ReadIsSeen
<1>4. NoHiddenChange'
  BY <1>1 DEF IInv, NoHiddenChange
<1> QED
  BY <1>2, <1>3, <1>4

\* Retiring the profile's source forgets what was loaded, not what failed.
LEMMA RetireForgets ==
  LET retiring == RetireUnreferenced(cache, Skins \ {Profile})
  IN  Profile \notin DOMAIN retiring.loaded /\ retiring.failed = cache.failed
  BY DEF RetireUnreferenced, CacheOf, Restrict

\* A source that cannot be loaded is remembered with files that are bad.
LEMMA FailToLoadStep ==
  ASSUME IInv, FailToLoad, UNCHANGED <<disk, writes, wanted>>,
         ~ Good(wanted.paths)
  PROVE  StampsArePast' /\ ReadIsSeen' /\ NoHiddenChange'
<1>1. /\ UNCHANGED <<content, seen>>
      /\ at' = "idle"
      /\ cache'.loaded = cache.loaded
      /\ cache'.failed = Put(cache.failed, Profile, SourceRevisionSeen)
  BY DEF FailToLoad, Answer, CacheOf
<1>2. /\ HasFailed'
      /\ cache'.failed[Profile] = [definition |-> wanted, files |-> seen]
  BY <1>1 DEF HasFailed, Put, SourceRevisionSeen
<1>3. /\ \A revisions : Past(revisions)' = Past(revisions)
      /\ \A p \in Paths : /\ Revisions(p)' = Revisions(p)
                          /\ Contents(p)' = Contents(p)
                          /\ There(p)' = There(p)
                          /\ Good(p)' = Good(p)
  BY DEF Past, Revisions, Contents, There, Good
<1>4. StampsArePast'
  BY <1>1, <1>2, <1>3 DEF IInv, StampsArePast, Loaded
<1>5. ReadIsSeen'
  BY <1>1 DEF ReadIsSeen
<1>6. NoHiddenChange'
  BY <1>1, <1>2, <1>3 DEF IInv, NoHiddenChange, Loaded
<1> QED
  BY <1>4, <1>5, <1>6

\* A source that is loaded was read from files that are at least as new as the
\* revision it is remembered with.
LEMMA LoadStep ==
  ASSUME IInv, at = "load_dff", NEW geometry, NEW generation,
         Load(geometry, generation), UNCHANGED <<disk, writes, wanted>>
  PROVE  StampsArePast' /\ ReadIsSeen' /\ NoHiddenChange'
<1> DEFINE new == NewSource(geometry, SourceRevisionSeen, generation)
<1>1. /\ UNCHANGED seen
      /\ at' = "idle"
      /\ cache'.loaded = Put(cache.loaded, Profile, new)
      /\ cache'.failed = Without(cache.failed, Profile)
      /\ content' = [ paths |-> wanted.paths,
                      txd   |-> read,
                      dff   |-> disk[wanted.paths]["dff"].write ]
  BY DEF Load, Answer, CacheOf
<1>2. ~ HasFailed'
  BY <1>1 DEF HasFailed, Without, Restrict
<1>3. /\ Loaded'
      /\ cache'.loaded[Profile].source = [definition |-> wanted, files |-> seen]
  BY <1>1 DEF Loaded, Put, NewSource, SourceRevisionSeen
<1>4. /\ \A revisions : Past(revisions)' = Past(revisions)
      /\ \A p \in Paths : /\ Revisions(p)' = Revisions(p)
                          /\ Contents(p)' = Contents(p)
                          /\ There(p)' = There(p)
  BY DEF Past, Revisions, Contents, There
<1>5. StampsArePast'
  BY <1>1, <1>2, <1>3, <1>4 DEF IInv, StampsArePast
<1>6. ReadIsSeen'
  BY <1>1 DEF ReadIsSeen
<1>7. seen = Revisions(wanted.paths) /\ There(wanted.paths)
        => content' = Contents(wanted.paths)
  BY <1>1 DEF IInv, ReadIsSeen, Revisions, There, Contents
<1>8. NoHiddenChange'
  BY <1>2, <1>3, <1>4, <1>7 DEF NoHiddenChange
<1> QED
  BY <1>5, <1>6, <1>8

\* Every step keeps the invariant.
LEMMA IInvStep ==
  ASSUME IInv, [Next]_vars
  PROVE  IInv'
<1>0. TypeOK'
  BY TypeStep DEF IInv
<1> USE DEF IInv
<1>s. Past(seen)
  BY DEF StampsArePast
<1> SUFFICES StampsArePast' /\ ReadIsSeen' /\ NoHiddenChange'
  BY <1>0
<1>1. CASE UNCHANGED vars
  BY <1>1 DEF vars, call, StampsArePast, ReadIsSeen, NoHiddenChange, Past,
     Revisions, Contents, There, Good, Loaded, HasFailed
<1>2. ASSUME NEW paths \in Paths, NEW part \in Parts, Write(paths, part)
      PROVE  StampsArePast' /\ ReadIsSeen' /\ NoHiddenChange'
  BY <1>2, WriteStep
<1>3. CASE IntervalPasses
  BY <1>3 DEF IntervalPasses, call, StampsArePast, ReadIsSeen, NoHiddenChange,
     Past, Revisions, Contents, There, Good, Loaded, HasFailed
<1>4. CASE Redefine
  BY <1>4, <1>s, RememberedStep DEF Redefine, BetweenCalls, call, Loaded, HasFailed
<1>5. CASE Unreference
  BY <1>5, <1>s, RetireForgets, RememberedStep
  DEF Unreference, BetweenCalls, call, Loaded, HasFailed
<1>6. CASE Release
  <2>1. /\ Loaded' => /\ Loaded
                      /\ cache'.loaded[Profile].source = cache.loaded[Profile].source
        /\ cache'.failed = cache.failed
    BY <1>6, EntryType
    DEF Release, CleanupRetired, ForgetDeadClones, CacheOf, Loaded, LoadedSource
  <2> QED
    BY <1>6, <1>s, <2>1, RememberedStep DEF Release, BetweenCalls, call, HasFailed
<1>7. CASE Call
  <2>0. UNCHANGED <<wanted, disk, writes>>
    BY <1>7 DEF Call, Outside
  <2>1. CASE WaitForRestore \/ AnswerRecent
    BY <1>s, <2>0, <2>1, RememberedStep
    DEF WaitForRestore, AnswerRecent, Answer, Loaded, HasFailed
  <2>2. CASE StartCheck
    BY <1>s, <2>0, <2>2, RememberedStep DEF StartCheck, Loaded, HasFailed
  <2>w. Past(Revisions(wanted.paths))
    BY DEF StampsArePast, TypeOK, Definition
  <2>3. CASE InspectTxd \/ InspectDff
    <3>1. Past(seen')
      BY <1>s, <2>3, <2>w DEF InspectTxd, InspectDff, Past, Revisions
    <3> QED
      BY <2>0, <2>3, <3>1, RememberedStep DEF InspectTxd, InspectDff, Loaded, HasFailed
  <2>4. CASE Compare
    <3>1. CASE StillLoaded \/ StillUnavailable \/ StartLoad
      BY <1>s, <2>0, <2>4, <3>1, RememberedStep
      DEF Compare, StillLoaded, StillUnavailable, StartLoad, Answer, Loaded, HasFailed
    <3>2. CASE RetireChanged
      <4>1. ~ Loaded' /\ ~ HasFailed'
        BY <3>2, RetireForgets
        DEF RetireChanged, CacheOf, Loaded, HasFailed, Without, Restrict
      <4> QED
        BY <1>s, <2>0, <2>4, <3>2, <4>1, RememberedStep
        DEF Compare, RetireChanged, Answer
    <3> QED
      BY <2>4, <3>1, <3>2 DEF Compare
  <2>5. CASE LoadTxd
    <3>1. CASE ~ disk[wanted.paths]["txd"].good /\ FailToLoad
      BY <2>0, <3>1, FailToLoadStep DEF Good
    <3>2. CASE /\ read' = disk[wanted.paths]["txd"].write
               /\ UNCHANGED <<cache, seen, content>>
      <4>1. ReadIsSeen'
        BY <2>0, <3>2 DEF ReadIsSeen
      <4>2. StampsArePast' /\ NoHiddenChange'
        BY <2>0, <3>2 DEF StampsArePast, NoHiddenChange, Past, Revisions,
           Contents, There, Good, Loaded, HasFailed
      <4> QED
        BY <4>1, <4>2
    <3> QED
      BY <2>5, <3>1, <3>2 DEF LoadTxd
  <2>6. CASE LoadDff
    <3>1. CASE ~ disk[wanted.paths]["dff"].good /\ FailToLoad
      BY <2>0, <3>1, FailToLoadStep DEF Good
    <3>2. ASSUME NEW geometry \in Geometries,
                 Load(geometry, NextGeneration(cache.generation))
          PROVE  StampsArePast' /\ ReadIsSeen' /\ NoHiddenChange'
      <4>1. at = "load_dff"
        BY <2>6 DEF LoadDff
      <4> QED
        BY <2>0, <3>2, <4>1, LoadStep
    <3> QED
      BY <2>6, <3>1, <3>2 DEF LoadDff
  <2> QED
    BY <1>7, <2>1, <2>2, <2>3, <2>4, <2>5, <2>6 DEF Call
<1> QED
  BY <1>1, <1>2, <1>3, <1>4, <1>5, <1>6, <1>7 DEF Next

\* No change of the assets hides behind the revision that is remembered,
\* however writers and the system calls of load_or_status interleave.
THEOREM NoChangeEverHidden == Spec => []NoHiddenChange
<1>1. Init => IInv
  <2>1. Init => TypeOK
    BY InitType
  <2>2. Init => \A p \in Paths : Revisions(p) = [txd |-> 0, dff |-> 0]
    BY DEF Init, Revisions, Parts, MissingFile
  <2>3. Init => ~ Loaded /\ ~ HasFailed
    BY EmptyMapType DEF Init, EmptyCache, CacheOf, Loaded, HasFailed
  <2> QED
    BY <2>1, <2>2, <2>3 DEF Init, IInv, StampsArePast, Past, ReadIsSeen, NoHiddenChange
<1>2. IInv /\ [Next]_vars => IInv'
  BY IInvStep
<1>3. IInv => NoHiddenChange
  BY DEF IInv
<1> QED
  BY <1>1, <1>2, <1>3, PTL DEF Spec

-----------------------------------------------------------------------------
\* What a call has found out stays true until it answers: nothing is retired,
\* and while it loads nothing of the cache answers for what it has seen.
CallStillNeeded ==
  /\ at # "idle" => ~ RestoreStillNeeded(cache, Profile)
  /\ at \in {"load_txd", "load_dff"} =>
       /\ ~ Loaded
       /\ ~ (HasFailed /\ IsSource(cache.failed[Profile]))

\* Only the call itself changes the cache before it answers.
LEMMA CallStillNeededStep ==
  ASSUME CallStillNeeded, [Next]_vars
  PROVE  CallStillNeeded'
<1> USE DEF CallStillNeeded
<1>1. ASSUME UNCHANGED <<cache, at, seen, wanted>>
      PROVE  CallStillNeeded'
  BY <1>1 DEF RestoreStillNeeded, Loaded, HasFailed, IsSource
<1>2. ASSUME at' = "idle"
      PROVE  CallStillNeeded'
  BY <1>2
<1>3. CASE UNCHANGED vars
  BY <1>1, <1>3 DEF vars, call
<1>4. CASE \E paths \in Paths, part \in Parts : Write(paths, part)
  BY <1>1, <1>4 DEF Write, call
<1>5. CASE IntervalPasses
  BY <1>1, <1>5 DEF IntervalPasses, call
<1>6. CASE Redefine \/ Unreference \/ Release
  BY <1>2, <1>6 DEF Redefine, Unreference, Release, BetweenCalls, call
<1>7. CASE Call
  <2>1. CASE WaitForRestore \/ AnswerRecent
    BY <1>2, <2>1 DEF WaitForRestore, AnswerRecent, Answer
  <2>2. CASE StartCheck
    BY <2>2 DEF StartCheck, RestoreStillNeeded
  <2>3. CASE InspectTxd \/ InspectDff
    BY <2>3 DEF InspectTxd, InspectDff, RestoreStillNeeded
  <2>4. CASE Compare
    <3>1. CASE StillLoaded \/ RetireChanged \/ StillUnavailable
      BY <1>2, <3>1 DEF StillLoaded, RetireChanged, StillUnavailable, Answer
    <3>2. CASE StartLoad
      BY <1>7, <2>4, <3>2 DEF Call, Outside, Compare, StartLoad,
         RestoreStillNeeded, Loaded, HasFailed, IsSource
    <3> QED
      BY <2>4, <3>1, <3>2 DEF Compare
  <2>5. CASE LoadTxd
    <3>1. CASE FailToLoad
      BY <1>2, <3>1 DEF FailToLoad, Answer
    <3>2. CASE at' = "load_dff" /\ UNCHANGED <<cache, seen>>
      BY <1>7, <2>5, <3>2 DEF Call, Outside, LoadTxd,
         RestoreStillNeeded, Loaded, HasFailed, IsSource
    <3> QED
      BY <2>5, <3>1, <3>2 DEF LoadTxd
  <2>6. CASE LoadDff
    BY <1>2, <2>6 DEF LoadDff, FailToLoad, Load, Answer
  <2> QED
    BY <1>7, <2>1, <2>2, <2>3, <2>4, <2>5, <2>6 DEF Call
<1> QED
  BY <1>3, <1>4, <1>5, <1>6, <1>7 DEF Next

\* The answer of a call, as an outcome of LoadOrStatus.
Outcome == Lookup(answer'.kind, answer'.generation, cache')

\* The step that answers does what LoadOrStatus does for the revision seen.
LEMMA AnswerIsLoadOrStatus ==
  ASSUME TypeOK, CallStillNeeded, Call, at' = "idle"
  PROVE  \E files \in FileRevisions, recently \in BOOLEAN :
           Outcome \in LoadOrStatus(cache, Profile, wanted, files, recently,
                                    Geometries)
<1>1. seen \in FileRevisions
  BY AssetAssumption DEF TypeOK, Revision
<1>2. ASSUME NEW recently \in BOOLEAN,
             Outcome \in LoadOrStatus(cache, Profile, wanted, seen, recently,
                                      Geometries)
      PROVE  \E files \in FileRevisions, r \in BOOLEAN :
               Outcome \in LoadOrStatus(cache, Profile, wanted, files, r,
                                        Geometries)
  BY <1>1, <1>2
<1>3. CASE WaitForRestore
  BY <1>2, <1>3 DEF WaitForRestore, Answer, Outcome, LoadOrStatus
<1>4. CASE AnswerRecent
  <2>1. Outcome \in LoadOrStatus(cache, Profile, wanted, seen, TRUE, Geometries)
    BY <1>4 DEF AnswerRecent, ReadyRecently, FailedRecently, Answer, Outcome,
       LoadOrStatus, UpToDate, StillBroken, Unchanged, Loaded, HasFailed
  <2> QED
    BY <1>2, <2>1
<1> DEFINE Fresh == LoadOrStatus(cache, Profile, wanted, seen, FALSE, Geometries)
<1>5. CASE Compare
  <2>1. ~ RestoreStillNeeded(cache, Profile)
    BY <1>5 DEF Compare, CallStillNeeded
  <2>2. CASE StillLoaded
    <3>1. Outcome \in Fresh
      BY <2>1, <2>2 DEF StillLoaded, IsSource, Answer, Outcome,
         LoadOrStatus, UpToDate, Unchanged, Loaded
    <3> QED
      BY <1>2, <3>1
  <2>3. CASE RetireChanged
    <3>1. ~ UpToDate(cache, Profile, wanted, seen, FALSE) /\ Profile \in DOMAIN cache.loaded
      <4>1. Loaded => cache.loaded[Profile].source \in SourceRevision
        BY EntryType DEF LoadedSource
      <4> QED
        BY <2>3, <4>1 DEF RetireChanged, IsSource, UpToDate, Unchanged, Loaded,
           SourceRevision
    <3>2. Outcome = Lookup("RestoreRequired", 0, Replace(cache, Profile))
      BY <2>3 DEF RetireChanged, Answer, Outcome, Replace
    <3>3. Outcome \in Fresh
      BY <2>1, <3>1, <3>2 DEF LoadOrStatus
    <3> QED
      BY <1>2, <3>3
  <2>4. CASE StillUnavailable
    <3>1. Outcome \in Fresh
      BY <2>1, <2>4 DEF StillUnavailable, IsSource, Answer, Outcome,
         LoadOrStatus, UpToDate, StillBroken, Unchanged, Loaded, HasFailed
    <3> QED
      BY <1>2, <3>1
  <2>5. ~ StartLoad
    BY DEF StartLoad
  <2> QED
    BY <1>5, <2>2, <2>3, <2>4, <2>5 DEF Compare
<1>6. CASE at \in {"load_txd", "load_dff"}
  <2>1. Fresh = { LoadSucceeds(cache, Profile, SourceRevisionSeen, g) : g \in Geometries }
                  \cup {LoadFails(cache, Profile, SourceRevisionSeen)}
    <3>1. /\ ~ RestoreStillNeeded(cache, Profile)
          /\ Profile \notin DOMAIN cache.loaded
          /\ ~ (HasFailed /\ IsSource(cache.failed[Profile]))
      BY <1>6 DEF CallStillNeeded, Loaded
    <3>2. ~ StillBroken(cache, Profile, wanted, seen, FALSE)
      <4>1. HasFailed => cache.failed[Profile] \in SourceRevision
        BY EntryType
      <4> QED
        BY <3>1, <4>1 DEF StillBroken, Unchanged, HasFailed, IsSource, SourceRevision
    <3> QED
      BY <3>1, <3>2 DEF LoadOrStatus, UpToDate, SourceRevisionSeen
  <2>2. CASE FailToLoad
    <3>1. Outcome = LoadFails(cache, Profile, SourceRevisionSeen)
      BY <2>2 DEF FailToLoad, Answer, Outcome, LoadFails
    <3> QED
      BY <1>2, <2>1, <3>1
  <2>3. ASSUME NEW geometry \in Geometries,
               Load(geometry, NextGeneration(cache.generation))
        PROVE  Outcome \in Fresh
    BY <2>1, <2>3 DEF Load, Answer, Outcome, LoadSucceeds
  <2>4. FailToLoad \/ \E geometry \in Geometries :
                        Load(geometry, NextGeneration(cache.generation))
    BY <1>6 DEF Call, WaitForRestore, AnswerRecent, StartCheck, InspectTxd,
       InspectDff, Compare, LoadTxd, LoadDff
  <2> QED
    BY <1>2, <2>2, <2>3, <2>4
<1> QED
  BY <1>3, <1>4, <1>5, <1>6
  DEF Call, StartCheck, InspectTxd, InspectDff, LoadTxd, LoadDff

\* A call answers as LoadOrStatus does in one step: the operator that
\* SkinRuntime takes for a call stands for load_or_status with its system
\* calls, whoever writes the files meanwhile.
THEOREM CallIsOneStep == Spec => CallIsLoadOrStatus
<1>1. Init => CallStillNeeded
  BY DEF Init, CallStillNeeded
<1>2. CallStillNeeded /\ [Next]_vars => CallStillNeeded'
  BY CallStillNeededStep
<1>3. TypeOK /\ CallStillNeeded /\ [Next]_vars
        => [Call /\ at' = "idle" =>
              \E files \in FileRevisions, recently \in BOOLEAN :
                Lookup(answer'.kind, answer'.generation, cache')
                  \in LoadOrStatus(cache, Profile, wanted, files, recently,
                                   Geometries)]_vars
  BY AnswerIsLoadOrStatus DEF Outcome
<1> QED
  BY <1>1, <1>2, <1>3, TypeCorrect, PTL DEF Spec, CallIsLoadOrStatus
=============================================================================
