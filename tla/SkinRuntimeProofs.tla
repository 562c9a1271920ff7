------------------------- MODULE SkinRuntimeProofs --------------------------
(***************************************************************************)
(* What holds of SkinRuntime for any number of players, profiles, models,  *)
(* addresses and geometries: which rule a ped gets, the types, what a scan *)
(* leaves alone, and the safety of the sources that clones share.          *)
(***************************************************************************)
EXTENDS SkinRuntime, SourceCacheProofs, WellFoundedInduction

-----------------------------------------------------------------------------
(***************************************************************************)
(* The rule matching_rule finds in a configuration that parse accepts      *)
(***************************************************************************)

\* A list has a first position of a kind.
LEMMA FirstPosition ==
  ASSUME NEW positions \in SUBSET Nat, positions # {}
  PROVE  \E n \in positions : \A m \in positions : n <= m
<1> DEFINE Less == {pair \in Nat \X Nat : pair[1] < pair[2]}
<1>1. IsWellFoundedOn(Less, Nat)
  BY NatLessThanWellFounded, Zenon DEF OpToRel
<1>2. ASSUME NEW m \in Nat, NEW n \in Nat, m < n
      PROVE  <<m, n>> \in Less
  BY <1>2
<1> HIDE DEF Less
<1>3. PICK n \in positions : \A m \in positions : ~ (<<m, n>> \in Less)
  BY <1>1, WFMin
<1>4. \A m \in positions : ~ (m < n)
  BY <1>2, <1>3
<1>5. \A m \in positions : n <= m
  BY <1>4
<1> QED
  BY <1>5

\* Of the rules of one priority that apply, one is found before the others.
LEMMA FirstOfPriority ==
  ASSUME NEW given, IsSkinConfig(given), NEW name, NEW model, NEW priority,
         NEW found \in Eligible(given, name, model),
         Priority(given.rules[found]) = priority
  PROVE  \E i \in Eligible(given, name, model) :
           /\ Priority(given.rules[i]) = priority
           /\ \A j \in Eligible(given, name, model) :
                Priority(given.rules[j]) = priority => i <= j
<1> DEFINE positions == {i \in Eligible(given, name, model) :
                           Priority(given.rules[i]) = priority}
<1>1. positions \in SUBSET Nat /\ positions # {}
  <2>1. Eligible(given, name, model) \subseteq DOMAIN given.rules
    BY DEF Eligible
  <2>2. DOMAIN given.rules \subseteq Nat
    BY DEF IsSkinConfig
  <2> QED
    BY <2>1, <2>2
<1>2. PICK i \in positions : \A j \in positions : i <= j
  <2> HIDE DEF positions
  <2> QED
    BY <1>1, FirstPosition
<1> QED
  BY <1>2

\* matching_rule finds a rule exactly when one applies to the ped, and one
\* only: no other that applies has a higher priority, or stands before it with
\* the same one.  Its profile is one that apply_config does not retire
\* (ReferencedSkins), so what a ped is to wear stays loaded.
THEOREM MatchingRuleIsFound ==
  ASSUME NEW given, IsSkinConfig(given), NEW name, NEW model
  PROVE  /\ MatchingProfile(given, name, model) = {} <=> Eligible(given, name, model) = {}
         /\ \A skin, other \in MatchingProfile(given, name, model) : skin = other
         /\ MatchingProfile(given, name, model) \subseteq ReferencedSkins(given)
<1> DEFINE eligible == Eligible(given, name, model)
           Of(i)    == Priority(given.rules[i])
           first    == {i \in eligible : \A j \in eligible \ {i} : FoundBefore(given, i, j)}
<1>1. /\ eligible \subseteq DOMAIN given.rules /\ DOMAIN given.rules \subseteq Nat
      /\ \A i \in eligible : Of(i) \in 1 .. 3
  BY DEF Eligible, IsSkinConfig
<1>2. MatchingProfile(given, name, model) = {given.rules[i].profile_id : i \in first}
  BY Zenon DEF MatchingProfile
<1>3. ASSUME eligible # {} PROVE first # {}
  <2>1. \E highest \in eligible : \A j \in eligible : Of(j) <= Of(highest)
    <3> HIDE DEF eligible, Of
    <3>1. CASE \E i \in eligible : Of(i) = 3
      BY <1>1, <3>1
    <3>2. CASE (\A i \in eligible : Of(i) # 3) /\ \E i \in eligible : Of(i) = 2
      BY <1>1, <3>2
    <3>3. CASE \A i \in eligible : Of(i) # 3 /\ Of(i) # 2
      BY <1>1, <1>3, <3>3
    <3> QED
      BY <3>1, <3>2, <3>3
  <2>2. PICK highest \in eligible : \A j \in eligible : Of(j) <= Of(highest)
    BY <2>1
  <2>3. PICK i \in eligible :
          /\ Of(i) = Of(highest)
          /\ \A j \in eligible : Of(j) = Of(highest) => i <= j
    BY FirstOfPriority
  <2>4. ASSUME NEW j \in eligible \ {i} PROVE FoundBefore(given, i, j)
    <3>1. Of(i) \in Nat /\ Of(j) \in Nat /\ i \in Nat /\ j \in Nat
      BY <1>1
    <3>2. Of(i) > Of(j) \/ (Of(i) = Of(j) /\ i < j)
      <4> HIDE DEF eligible, Of
      <4> QED
        BY <2>2, <2>3, <3>1
    <3> QED
      BY <3>2 DEF FoundBefore
  <2> QED
    BY <2>4
<1>4. ASSUME NEW i \in first, NEW j \in first PROVE i = j
  <2> SUFFICES ASSUME i # j PROVE FALSE
    OBVIOUS
  <2>1. FoundBefore(given, i, j) /\ FoundBefore(given, j, i)
    OBVIOUS
  <2>2. Of(i) \in Nat /\ Of(j) \in Nat /\ i \in Nat /\ j \in Nat
    BY <1>1
  <2> QED
    BY <2>1, <2>2 DEF FoundBefore
<1>5. ASSUME NEW i \in eligible PROVE given.rules[i].profile_id \in ReferencedSkins(given)
  BY DEF Eligible, Matches, EnabledProfile, ReferencedSkins
<1>6. first \subseteq eligible
  OBVIOUS
<1> HIDE DEF first, eligible
<1>7. MatchingProfile(given, name, model) = {} <=> eligible = {}
  BY <1>2, <1>3, <1>6
<1>8. \A skin, other \in MatchingProfile(given, name, model) : skin = other
  BY <1>2, <1>4
<1>9. MatchingProfile(given, name, model) \subseteq ReferencedSkins(given)
  BY <1>2, <1>5, <1>6
<1> QED
  BY <1>7, <1>8, <1>9 DEF eligible

\* Two rules of one priority that match the same ped give the same names and
\* models: parse would have refused the later one as a duplicate.
LEMMA OneRulePerPriority ==
  ASSUME NEW given, IsSkinConfig(given), Accepted(given), NEW name, NEW model,
         NEW i \in Eligible(given, name, model),
         NEW j \in Eligible(given, name, model),
         Priority(given.rules[i]) = Priority(given.rules[j])
  PROVE  i = j
<1>1. /\ i \in DOMAIN given.rules /\ j \in DOMAIN given.rules
      /\ given.rules \in Seq(SkinRule)
      /\ Matches(given.rules[i], name, model)
      /\ Matches(given.rules[j], name, model)
  BY DEF IsSkinConfig, Eligible
<1>2. Len(given.rules) \in Nat /\ DOMAIN given.rules = 1 .. Len(given.rules)
  BY <1>1
<1>3. Duplicates(given.rules[i], given.rules[j])
  BY <1>1 DEF Priority, Matches, Duplicates
<1>4. Duplicates(given.rules[j], given.rules[i])
  BY <1>3 DEF Duplicates
<1>5. ~ (i < j) /\ ~ (j < i)
  BY <1>1, <1>2, <1>3, <1>4 DEF Accepted
<1> QED
  BY <1>1, <1>2, <1>5

\* A rule is found wherever it stands, as long as the other configuration has
\* the same rules and profiles.
LEMMA FoundInBoth ==
  ASSUME NEW given, IsSkinConfig(given), Accepted(given),
         NEW other, IsSkinConfig(other), Accepted(other),
         given.skins = other.skins,
         {given.rules[i] : i \in DOMAIN given.rules}
           = {other.rules[i] : i \in DOMAIN other.rules},
         NEW name, NEW model
  PROVE  MatchingProfile(given, name, model)
           \subseteq MatchingProfile(other, name, model)
<1> DEFINE G == Eligible(given, name, model)
           O == Eligible(other, name, model)
<1> SUFFICES ASSUME NEW i \in G,
                    \A j \in G \ {i} : FoundBefore(given, i, j)
             PROVE  given.rules[i].profile_id
                      \in MatchingProfile(other, name, model)
  BY DEF MatchingProfile
<1>1. i \in DOMAIN given.rules
  BY DEF Eligible
<1>2. PICK k \in DOMAIN other.rules : other.rules[k] = given.rules[i]
  BY <1>1
<1>3. k \in O
  BY <1>2 DEF Eligible, EnabledProfile
<1>4. ASSUME NEW l \in O \ {k} PROVE FoundBefore(other, k, l)
  <2>1. l \in DOMAIN other.rules
    BY DEF Eligible
  <2>2. PICK m \in DOMAIN given.rules : given.rules[m] = other.rules[l]
    BY <2>1
  <2>3. m \in G
    BY <2>2 DEF Eligible, EnabledProfile
  <2>4. Priority(other.rules[k]) # Priority(other.rules[l])
    BY <1>3, OneRulePerPriority
  <2>5. m # i
    BY <1>2, <2>2, <2>4
  <2>6. FoundBefore(given, i, m)
    BY <2>3, <2>5
  <2> QED
    BY <1>2, <2>2, <2>4, <2>6 DEF FoundBefore
<1>5. other.rules[k].profile_id \in MatchingProfile(other, name, model)
  BY <1>3, <1>4 DEF MatchingProfile
<1> QED
  BY <1>2, <1>5

\* Which profile a ped gets depends on what the rules say and not on the order
\* in which the file lists them: matching_rule searches the list from its
\* start, but parse leaves it one rule of each priority to find.
THEOREM RuleOrderIsIrrelevant ==
  ASSUME NEW given, IsSkinConfig(given), Accepted(given),
         NEW other, IsSkinConfig(other), Accepted(other),
         given.skins = other.skins,
         {given.rules[i] : i \in DOMAIN given.rules}
           = {other.rules[i] : i \in DOMAIN other.rules},
         NEW name, NEW model
  PROVE  MatchingProfile(given, name, model) = MatchingProfile(other, name, model)
<1>1. MatchingProfile(given, name, model) \subseteq MatchingProfile(other, name, model)
  BY FoundInBoth
<1>2. MatchingProfile(other, name, model) \subseteq MatchingProfile(given, name, model)
  BY FoundInBoth
<1> QED
  BY <1>1, <1>2

-----------------------------------------------------------------------------
(***************************************************************************)
(* The helpers of a visit                                                  *)
(***************************************************************************)

\* A profile that a rule matches exists and has a definition (matching_rule
\* looks only at rules of enabled, existing profiles).
LEMMA MatchedType ==
  ASSUME TypeOK, NEW p, NEW s \in MatchedProfiles(p)
  PROVE  s \in Skins /\ s \in DOMAIN config.skins
                     /\ config.skins[s] \in SkinDefinition
<1>1. IsMap(config.skins, Skins, SkinDefinition)
  BY RuntimeAssumption DEF TypeOK, IsSkinConfig
<1>2. s \in DOMAIN config.skins
  BY DEF MatchedProfiles, MatchingProfile, Eligible, EnabledProfile
<1> QED
  BY <1>1, <1>2 DEF IsMap

\* What source_for answers is a well-typed cache, with a source for a profile
\* that is ready.
LEMMA LookupsType ==
  ASSUME TypeOK, NEW p, NEW s \in MatchedProfiles(p), NEW l \in Lookups(s)
  PROVE  /\ s \in Skins
         /\ IsCache(l.cache)
         /\ l.kind = "Ready" => /\ s \in DOMAIN l.cache.loaded
                                /\ l.generation \in 1 .. MaxGeneration
<1>1. s \in Skins /\ config.skins[s] \in SkinDefinition /\ IsCache(cache)
  BY MatchedType DEF TypeOK
<1>2. FreeGeometries \in SUBSET Geometries
  BY DEF FreeGeometries
<1>3. PICK f \in FileRevisions, recently \in BOOLEAN :
        l \in LoadOrStatus(cache, s, config.skins[s], f, recently,
                          FreeGeometries)
  BY DEF Lookups
<1> QED
  BY <1>1, <1>2, <1>3, LoadOrStatusType

\* An ordinary clump is a render object.
LEMMA OrdinaryType ==
  ASSUME NEW a \in Addresses, NEW m \in Models
  PROVE  OrdinaryObject(a, m) \in PedRenderObject
  BY DEF OrdinaryObject, PedRenderObject, RenderObject

\* Replacing the model and the object of a streamed ped keeps the type.
LEMMA PedType ==
  ASSUME TypeOK, NEW p \in Streamed, NEW m \in Models, NEW o \in PedRenderObject
  PROVE  LET new == [peds EXCEPT ![p].model = m, ![p].object = o]
         IN  IsMap(new, PlayerIds, Ped) /\ DOMAIN new = Streamed
  BY DEF TypeOK, IsMap, Ped, Streamed

\* The same when the model stays.
LEMMA PedObjectType ==
  ASSUME TypeOK, NEW p \in Streamed, NEW o \in PedRenderObject
  PROVE  LET new == [peds EXCEPT ![p].object = o]
         IN  IsMap(new, PlayerIds, Ped) /\ DOMAIN new = Streamed
  BY DEF TypeOK, IsMap, Ped, Streamed

\* A rebuilt ped and a bare ped are well typed.
LEMMA RebuiltType ==
  ASSUME TypeOK, NEW p \in Streamed, NEW m \in Models,
         NEW new \in RebuiltPeds(p, m) \cup {BarePeds(p), peds}
  PROVE  IsMap(new, PlayerIds, Ped) /\ DOMAIN new = Streamed
<1>1. CASE new = peds
  BY <1>1 DEF TypeOK, Streamed
<1>2. CASE new = BarePeds(p)
  BY <1>2, PedObjectType DEF BarePeds, PedRenderObject
<1>3. CASE new \in RebuiltPeds(p, m)
  <2>1. PICK a \in FreeAddresses(p) :
          new = [peds EXCEPT ![p].model = m, ![p].object = OrdinaryObject(a, m)]
    BY <1>3 DEF RebuiltPeds
  <2>2. OrdinaryObject(a, m) \in PedRenderObject
    BY OrdinaryType DEF FreeAddresses
  <2> QED
    BY <2>1, <2>2, PedType
<1> QED
  BY <1>1, <1>2, <1>3

\* The records left after the reset detection are well typed.
LEMMA KnownType ==
  ASSUME TypeOK, NEW p
  PROVE  /\ IsMap(KnownApplied(p), PlayerIds, AppliedPlayer)
         /\ IsMap(KnownFailed(p), PlayerIds, FailedApplication)
  BY WithoutType DEF TypeOK, KnownApplied, KnownFailed

\* restore_server_model keeps the types, drops no ped and no record but that
\* of the player it is called for.
LEMMA RestoreType ==
  ASSUME TypeOK, NEW p \in Streamed, NEW records, NEW failures,
         IsMap(records, PlayerIds, AppliedPlayer),
         IsMap(failures, PlayerIds, FailedApplication),
         RestoreServerModel(p, records, failures)
  PROVE  /\ IsMap(peds', PlayerIds, Ped) /\ DOMAIN peds' = Streamed
         /\ IsMap(applied', PlayerIds, AppliedPlayer)
         /\ DOMAIN records \ {p} \subseteq DOMAIN applied'
         /\ IsMap(failed', PlayerIds, FailedApplication)
<1>0. IsMap(peds, PlayerIds, Ped) /\ DOMAIN peds = Streamed
  BY DEF TypeOK, Streamed
<1>1. CASE /\ p \notin DOMAIN records
           /\ peds' = peds /\ applied' = records /\ failed' = failures
  BY <1>0, <1>1
<1>m. p \in DOMAIN records => records[p].server_model_id \in Models
  BY DEF IsMap, AppliedPlayer
<1>2. CASE p \in DOMAIN records /\ RestoreFails(p, records, failures)
  BY <1>0, <1>2, <1>m, RebuiltType DEF RestoreFails
<1>3. CASE p \in DOMAIN records /\ RestoreSucceeds(p, records, failures)
  <2>1. IsMap(peds', PlayerIds, Ped) /\ DOMAIN peds' = Streamed
    BY <1>0, <1>3, <1>m, RebuiltType DEF RestoreSucceeds
  <2>2. applied' = Without(records, p) /\ failed' = Without(failures, p)
    BY <1>3 DEF RestoreSucceeds, Forget
  <2>3. IsMap(applied', PlayerIds, AppliedPlayer)
    BY <2>2, WithoutType
  <2>4. IsMap(failed', PlayerIds, FailedApplication)
    BY <2>2, WithoutType
  <2>5. DOMAIN records \ {p} \subseteq DOMAIN applied'
    BY <2>2 DEF Without, Restrict
  <2> QED
    BY <2>1, <2>3, <2>4, <2>5
<1> QED
  BY <1>1, <1>2, <1>3 DEF RestoreServerModel

-----------------------------------------------------------------------------
(***************************************************************************)
(* Type correctness                                                        *)
(***************************************************************************)

\* What the game does keeps the types: it changes the peds alone, and only
\* between two frames.
LEMMA GameType ==
  ASSUME TypeOK, Game
  PROVE  TypeOK'
<1>1. SUFFICES ASSUME NEW p \in PlayerIds,
                      \/ StreamIn(p) \/ StreamOut(p) \/ ServerReset(p)
                      \/ DropObject(p) \/ ChangeModelInPlace(p)
               PROVE  TypeOK'
  BY DEF Game
<1>0. IsMap(peds, PlayerIds, Ped)
  BY DEF TypeOK
<1>2. SUFFICES GameStep /\ IsMap(peds', PlayerIds, Ped)
  BY DEF TypeOK, GameStep, runtimeVars, scanVars, Streamed
<1>3. CASE StreamIn(p)
  <2>1. PICK name \in Names, model \in Models, a \in FreeAddresses(p) :
          peds' = Put(peds, p, [ name   |-> name,
                                 model  |-> model,
                                 object |-> OrdinaryObject(a, model) ])
    BY <1>3 DEF StreamIn
  <2> DEFINE new == [ name   |-> name,
                      model  |-> model,
                      object |-> OrdinaryObject(a, model) ]
  <2>2. new \in Ped
    BY OrdinaryType DEF FreeAddresses, Ped
  <2> HIDE DEF new
  <2>3. IsMap(Put(peds, p, new), PlayerIds, Ped)
    BY <1>0, <2>2, PutType
  <2> QED
    BY <1>3, <2>1, <2>3 DEF StreamIn, new
<1>4. CASE StreamOut(p)
  BY <1>0, <1>4, WithoutType DEF StreamOut
<1>5. CASE ServerReset(p)
  <2>1. PICK model \in Models, a \in FreeAddresses(p) :
          peds' = [peds EXCEPT ![p].model = model,
                               ![p].object = OrdinaryObject(a, model)]
    BY <1>5 DEF ServerReset
  <2>2. OrdinaryObject(a, model) \in PedRenderObject
    BY OrdinaryType DEF FreeAddresses
  <2> QED
    BY <1>5, <2>1, <2>2, PedType DEF ServerReset
<1>6. CASE DropObject(p)
  BY <1>6, PedObjectType DEF DropObject, PedRenderObject
<1>7. CASE ChangeModelInPlace(p)
  BY <1>0, <1>7 DEF ChangeModelInPlace, Streamed, IsMap, Ped
<1> QED
  BY <1>1, <1>3, <1>4, <1>5, <1>6, <1>7

\* An enumeration is complete or it is none: whichever reads fail, no ped is
\* left out ("all readable SA-MP ped entries have been enumerated").
LEMMA EnumerationIsComplete ==
  ASSUME NEW read \in PoolRead, NEW here \in SUBSET PlayerIds
  PROVE  /\ \A ids \in AllPeds(read, here) : ids = here
         /\ \A ids \in StreamedPeds(read, here) : ids = here
<1>1. ASSUME NEW ids \in AllPeds(read, here) PROVE ids = here
  <2>1. \A p \in PlayerIds : GtaPed(read, here, p) = {here \cap {p}}
    BY <1>1 DEF AllPeds, GtaPed
  <2>2. ids = UNION UNION {GtaPed(read, here, p) : p \in PlayerIds}
    BY <1>1 DEF AllPeds
  <2>3. \A p \in here : p \in ids
    <3>1. SUFFICES ASSUME NEW p \in here PROVE p \in ids
      OBVIOUS
    <3>2. here \cap {p} \in GtaPed(read, here, p) /\ p \in PlayerIds
      BY <2>1
    <3> QED
      BY <2>2, <3>2
  <2>4. \A p \in ids : p \in here
    BY <2>1, <2>2
  <2> QED
    BY <2>3, <2>4
<1> QED
  BY <1>1 DEF StreamedPeds

\* A list of live objects that a clean-up may use holds every live object.
LEMMA LivePedStatesAreComplete ==
  ASSUME TypeOK, NEW live \in LivePedStates
  PROVE  live = LiveObjects
<1>1. Streamed \in SUBSET PlayerIds
  BY DEF TypeOK, IsMap, Streamed
<1> QED
  BY <1>1, EnumerationIsComplete DEF LivePedStates, LiveObjects

\* Every outcome of a clean-up is a cache.
LEMMA CleanupOutcomesType ==
  ASSUME NEW cc, IsCache(cc), NEW new \in CleanupOutcomes(cc)
  PROVE  IsCache(new)
  BY CleanupType DEF CleanupOutcomes

\* The start of a frame keeps the types.
LEMMA FrameStartType ==
  ASSUME TypeOK, Reload \/ ScanNothingToDo \/ ScanUnreadable \/ BeginScan
  PROVE  TypeOK'
<1>1. CASE Reload
  <2>1. IsCache(cache')
    BY <1>1, RetireType DEF TypeOK, Reload
  <2>2. IsMap(failed', PlayerIds, FailedApplication)
    BY <1>1, EmptyMapType DEF Reload
  <2> QED
    BY <1>1, <2>1, <2>2 DEF TypeOK, Reload, scanVars, Streamed
<1>2. CASE ScanNothingToDo
  <2>1. IsCache(cache')
    BY <1>2, RetireType, CleanupOutcomesType DEF TypeOK, ScanNothingToDo
  <2>2. IsMap(failed', PlayerIds, FailedApplication)
    BY <1>2, EmptyMapType DEF ScanNothingToDo
  <2> QED
    BY <1>2, <2>1, <2>2 DEF TypeOK, ScanNothingToDo, scanVars, Streamed
<1>3. CASE ScanUnreadable
  <2>1. IsCache(cache')
    BY <1>3, CleanupOutcomesType DEF TypeOK, ScanUnreadable
  <2> QED
    BY <1>3, <2>1 DEF TypeOK, ScanUnreadable, scanVars, Streamed
<1>4. CASE BeginScan
  <2>1. Streamed \in SUBSET PlayerIds
    BY DEF TypeOK, IsMap, Streamed
  <2>2. streamed' = Streamed
    BY <1>4, <2>1, EnumerationIsComplete DEF BeginScan
  <2> QED
    BY <1>4, <2>2 DEF TypeOK, BeginScan, runtimeVars, Streamed
<1> QED
  BY <1>1, <1>2, <1>3, <1>4

\* The end of a scan keeps the types.
LEMMA EndScanType ==
  ASSUME TypeOK, EndScan
  PROVE  TypeOK'
<1>1. IsCache(cache')
  BY RetireType, CleanupOutcomesType DEF TypeOK, EndScan, RetainedCache
<1>2. IsMap(applied', PlayerIds, AppliedPlayer)
  BY RestrictType DEF TypeOK, EndScan, StreamedOnly
<1>3. IsMap(failed', PlayerIds, FailedApplication)
  BY RestrictType DEF TypeOK, EndScan, StreamedOnly
<1> QED
  BY <1>1, <1>2, <1>3 DEF TypeOK, EndScan, Streamed, StreamedOnly

\* What a visit must establish: it leaves the set of streamed peds alone.
LEMMA VisitedType ==
  ASSUME TypeOK, NEW p, Visiting(p), Visited(p),
         IsCache(cache'),
         IsMap(applied', PlayerIds, AppliedPlayer),
         IsMap(failed', PlayerIds, FailedApplication),
         IsMap(peds', PlayerIds, Ped), DOMAIN peds' = Streamed,
         restoring' \subseteq Streamed \cap DOMAIN applied',
         desired' \subseteq Skins, attempted' \subseteq Skins
  PROVE  TypeOK'
  BY DEF TypeOK, Visiting, Visited, Streamed

\* A visit keeps the types, whatever becomes of the ped.
LEMMA VisitType ==
  ASSUME TypeOK, NEW p \in PlayerIds, Visit(p)
  PROVE  TypeOK'
<1>0. /\ Visiting(p) /\ Visited(p)
      /\ p \in Streamed /\ restoring = {}
      /\ IsCache(cache)
      /\ IsMap(applied, PlayerIds, AppliedPlayer)
      /\ IsMap(failed, PlayerIds, FailedApplication)
      /\ IsMap(peds, PlayerIds, Ped) /\ DOMAIN peds = Streamed
      /\ desired \subseteq Skins /\ attempted \subseteq Skins
  BY DEF TypeOK, Visit, VisitUnreadable, VisitUnmatched, VisitSwitched,
         VisitReady, VisitApply, VisitApplyFails, VisitRestoreRequired,
         VisitUnavailable, Visiting, Streamed
<1>k. /\ IsMap(KnownApplied(p), PlayerIds, AppliedPlayer)
      /\ IsMap(KnownFailed(p), PlayerIds, FailedApplication)
  BY KnownType
<1>p. \A s \in ProfilesFor(p) : \A l \in Lookups(s) :
        /\ s \in Skins
        /\ IsCache(l.cache)
        /\ l.kind = "Ready" => /\ s \in DOMAIN l.cache.loaded
                               /\ l.generation \in 1 .. MaxGeneration
  BY LookupsType DEF ProfilesFor
<1>s. peds[p] \in Ped
  BY <1>0 DEF IsMap
<1>1. CASE VisitUnreadable(p)
  BY <1>0, <1>1, VisitedType DEF VisitUnreadable
<1>2. CASE VisitUnmatched(p)
  <2>1. IsMap(Without(KnownFailed(p), p), PlayerIds, FailedApplication)
    BY <1>k, WithoutType
  <2>2. /\ IsMap(peds', PlayerIds, Ped) /\ DOMAIN peds' = Streamed
        /\ IsMap(applied', PlayerIds, AppliedPlayer)
        /\ IsMap(failed', PlayerIds, FailedApplication)
    BY <1>0, <1>k, <1>2, <2>1, RestoreType DEF VisitUnmatched
  <2> QED
    BY <1>0, <1>2, <2>2, VisitedType DEF VisitUnmatched
<1>3. CASE VisitSwitched(p)
  <2>1. /\ IsMap(peds', PlayerIds, Ped) /\ DOMAIN peds' = Streamed
        /\ IsMap(applied', PlayerIds, AppliedPlayer)
        /\ IsMap(failed', PlayerIds, FailedApplication)
    BY <1>0, <1>k, <1>3, RestoreType DEF VisitSwitched
  <2>2. desired' \subseteq Skins
    BY <1>0, <1>3, MatchedType DEF VisitSwitched
  <2> QED
    BY <1>0, <1>3, <2>1, <2>2, VisitedType DEF VisitSwitched
<1>4. CASE VisitReady(p)
  <2>1. desired' \subseteq Skins /\ IsCache(cache')
    BY <1>0, <1>p, <1>4 DEF VisitReady
  <2> QED
    BY <1>0, <1>k, <1>4, <2>1, VisitedType DEF VisitReady, KeepRecords
<1>5. CASE VisitApply(p)
  <2>0. PICK s \in ProfilesFor(p) : \E l \in Lookups(s) :
          /\ desired' = desired \cup {s}
          /\ l.kind = "Ready"
          /\ \E clone \in ClonesFor(p, l.cache.loaded[s]) :
               /\ peds' = [peds EXCEPT ![p].object = clone]
               /\ cache' = RecordClone(l.cache, s, clone)
               /\ applied' = Put(KnownApplied(p), p,
                                 [ skin_id         |-> s,
                                   server_model_id |-> peds[p].model,
                                   render_object   |-> clone ])
    BY <1>5 DEF VisitApply, ToApply
  <2>1. PICK l \in Lookups(s) :
          /\ desired' = desired \cup {s}
          /\ l.kind = "Ready"
          /\ \E clone \in ClonesFor(p, l.cache.loaded[s]) :
               /\ peds' = [peds EXCEPT ![p].object = clone]
               /\ cache' = RecordClone(l.cache, s, clone)
               /\ applied' = Put(KnownApplied(p), p,
                                 [ skin_id         |-> s,
                                   server_model_id |-> peds[p].model,
                                   render_object   |-> clone ])
    BY <2>0
  <2>2. PICK clone \in ClonesFor(p, l.cache.loaded[s]) :
          /\ peds' = [peds EXCEPT ![p].object = clone]
          /\ cache' = RecordClone(l.cache, s, clone)
          /\ applied' = Put(KnownApplied(p), p,
                            [ skin_id         |-> s,
                              server_model_id |-> peds[p].model,
                              render_object   |-> clone ])
    BY <2>1
  <2>3. s \in Skins /\ IsCache(l.cache) /\ s \in DOMAIN l.cache.loaded
    BY <1>p, <2>1
  <2>4. l.cache.loaded[s].resources \in Geometries
    BY <2>3 DEF IsCache, IsMap, LoadedSource
  <2>5. clone \in PedRenderObject
    BY <2>2, <2>4 DEF ClonesFor, FreeAddresses, PedRenderObject, RenderObject
  <2>6. IsMap(peds', PlayerIds, Ped) /\ DOMAIN peds' = Streamed
    BY <1>0, <2>2, <2>5, PedObjectType
  <2>7. IsCache(cache')
    BY <2>2, <2>3, <2>5, RecordCloneType
  <2> DEFINE new == [ skin_id         |-> s,
                      server_model_id |-> peds[p].model,
                      render_object   |-> clone ]
  <2>8. new \in AppliedPlayer
    BY <1>s, <2>3, <2>5 DEF AppliedPlayer, Ped
  <2>9. applied' = Put(KnownApplied(p), p, new)
    BY <2>2
  <2> HIDE DEF new
  <2>10. IsMap(applied', PlayerIds, AppliedPlayer)
    BY <1>k, <2>8, <2>9, PutType
  <2>11. IsMap(failed', PlayerIds, FailedApplication)
    BY <1>k, <1>5, WithoutType DEF VisitApply
  <2>12. desired' \subseteq Skins /\ UNCHANGED <<restoring, attempted>>
    BY <1>0, <1>5, <2>1, <2>3 DEF VisitApply
  <2> QED
    BY <1>0, <2>6, <2>7, <2>10, <2>11, <2>12, VisitedType
<1>6. CASE VisitApplyFails(p)
  <2>0. PICK s \in ProfilesFor(p) : \E l \in Lookups(s) :
          /\ desired' = desired \cup {s}
          /\ l.kind = "Ready"
          /\ cache' = l.cache
          /\ peds' \in FailedApplyPeds(p, l.cache.loaded[s])
          /\ \E seen \in {peds'[p].object, peds[p].object} :
               failed' = Put(KnownFailed(p), p,
                             FailureOf(p, s, l.generation, seen))
    BY <1>6 DEF VisitApplyFails, ToApply
  <2>1. PICK l \in Lookups(s) :
          /\ desired' = desired \cup {s}
          /\ l.kind = "Ready"
          /\ cache' = l.cache
          /\ peds' \in FailedApplyPeds(p, l.cache.loaded[s])
          /\ \E seen \in {peds'[p].object, peds[p].object} :
               failed' = Put(KnownFailed(p), p,
                             FailureOf(p, s, l.generation, seen))
    BY <2>0
  <2>2. /\ s \in Skins /\ IsCache(l.cache) /\ s \in DOMAIN l.cache.loaded
        /\ l.generation \in 1 .. MaxGeneration
    BY <1>p, <2>1
  <2>3. l.cache.loaded[s].resources \in Geometries
    BY <2>2 DEF IsCache, IsMap, LoadedSource
  <2>4. \A clone \in ClonesFor(p, l.cache.loaded[s]) : clone \in PedRenderObject
    BY <2>3 DEF ClonesFor, FreeAddresses, PedRenderObject, RenderObject
  <2>5. IsMap(peds', PlayerIds, Ped) /\ DOMAIN peds' = Streamed
    <3>1. CASE peds' \in RebuiltPeds(p, peds[p].model) \cup {BarePeds(p), peds}
      BY <1>0, <1>s, <3>1, RebuiltType DEF Ped
    <3>2. CASE \E clone \in ClonesFor(p, l.cache.loaded[s]) :
                 peds' = [peds EXCEPT ![p].object = clone]
      BY <1>0, <2>4, <3>2, PedObjectType
    <3> QED
      BY <2>1, <3>1, <3>2 DEF FailedApplyPeds
  <2>6. PICK seen \in {peds'[p].object, peds[p].object} :
          failed' = Put(KnownFailed(p), p, FailureOf(p, s, l.generation, seen))
    BY <2>1
  <2>7. seen \in PedRenderObject
    BY <1>0, <1>s, <2>5, <2>6 DEF IsMap, Ped
  <2>8. FailureOf(p, s, l.generation, seen) \in FailedApplication
    BY <1>s, <2>2, <2>7 DEF FailureOf, FailedApplication, Ped
  <2>9. IsMap(failed', PlayerIds, FailedApplication)
    BY <1>k, <2>6, <2>8, PutType
  <2>10. /\ desired' \subseteq Skins /\ UNCHANGED <<restoring, attempted>>
         /\ applied' = KnownApplied(p) /\ IsCache(cache')
    BY <1>0, <1>6, <2>1, <2>2 DEF VisitApplyFails
  <2> QED
    BY <1>0, <1>k, <2>5, <2>9, <2>10, VisitedType
<1>7. CASE VisitRestoreRequired(p)
  <2>1. /\ desired' \subseteq Skins /\ attempted' \subseteq Skins
        /\ IsCache(cache')
        /\ restoring' \subseteq Streamed \cap DOMAIN KnownApplied(p)
    BY <1>0, <1>p, <1>7 DEF VisitRestoreRequired, UsersOf
  <2> QED
    BY <1>0, <1>k, <1>7, <2>1, VisitedType
    DEF VisitRestoreRequired, KeepRecords
<1>8. CASE VisitUnavailable(p)
  <2>1. desired' \subseteq Skins /\ IsCache(cache')
    BY <1>0, <1>p, <1>8 DEF VisitUnavailable
  <2> QED
    BY <1>0, <1>k, <1>8, <2>1, VisitedType DEF VisitUnavailable, KeepRecords
<1> QED
  BY <1>1, <1>2, <1>3, <1>4, <1>5, <1>6, <1>7, <1>8 DEF Visit

\* Restoring one user of a shared source keeps the types.
LEMMA RestoreUserType ==
  ASSUME TypeOK, NEW q \in PlayerIds, RestoreUser(q)
  PROVE  TypeOK'
<1>1. q \in Streamed
  BY DEF TypeOK, RestoreUser
<1>2. /\ IsMap(peds', PlayerIds, Ped) /\ DOMAIN peds' = Streamed
      /\ IsMap(applied', PlayerIds, AppliedPlayer)
      /\ DOMAIN applied \ {q} \subseteq DOMAIN applied'
      /\ IsMap(failed', PlayerIds, FailedApplication)
  BY <1>1, RestoreType DEF TypeOK, RestoreUser
<1> QED
  BY <1>2 DEF TypeOK, RestoreUser, Streamed

\* Every step keeps the types.
LEMMA TypeStep ==
  ASSUME TypeOK, [Next]_vars
  PROVE  TypeOK'
<1>1. CASE UNCHANGED vars
  BY <1>1 DEF TypeOK, vars, Streamed
<1>2. CASE Next
  BY <1>2, GameType, FrameStartType, EndScanType, VisitType, RestoreUserType
  DEF Next, Frame
<1> QED
  BY <1>1, <1>2

\* The variables of the runtime and of the game keep their types for every
\* number of players, profiles and addresses; the users still to be restored
\* are streamed players with a record (the expect in restore_profile_users).
THEOREM TypeCorrect == Spec => []TypeOK
<1>1. Init => TypeOK
  BY EmptyMapType, EmptyCacheType DEF Init, TypeOK, Streamed
<1>2. TypeOK /\ [Next]_vars => TypeOK'
  BY TypeStep
<1> QED
  BY <1>1, <1>2, PTL DEF Spec

-----------------------------------------------------------------------------
(***************************************************************************)
(* What a scan may touch                                                   *)
(***************************************************************************)

\* restore_server_model gives a ped the model it has: where the model has
\* changed since the apply, the ped is left alone.  Other peds are, always.
LEMMA RestoreKeepsModels ==
  ASSUME TypeOK, NEW p \in Streamed, NEW records, NEW failures,
         RestoreServerModel(p, records, failures)
  PROVE  /\ DOMAIN peds' = Streamed
         /\ \A q \in Streamed : peds'[q].model = peds[q].model
         /\ \A q \in Streamed \ {p} : peds'[q] = peds[q]
<1>1. CASE peds' = peds
  BY <1>1 DEF Streamed
<1>2. CASE /\ ~ Superseded(p, records)
           /\ peds' \in RebuiltPeds(p, records[p].server_model_id)
                          \cup {BarePeds(p)}
  <2>1. records[p].server_model_id = peds[p].model
    BY <1>2 DEF Superseded
  <2>2. PICK o : peds' \in {[peds EXCEPT ![p].model = peds[p].model, ![p].object = o],
                            [peds EXCEPT ![p].object = o]}
    BY <1>2, <2>1 DEF RebuiltPeds, BarePeds
  <2> QED
    BY <2>2 DEF TypeOK, IsMap, Ped, Streamed
<1> QED
  BY <1>1, <1>2 DEF RestoreServerModel, RestoreFails, RestoreSucceeds

\* A failed apply leaves the models and the other peds alone, too.
LEMMA FailedApplyKeepsModels ==
  ASSUME TypeOK, NEW p \in Streamed, NEW source,
         peds' \in FailedApplyPeds(p, source)
  PROVE  /\ DOMAIN peds' = Streamed
         /\ \A q \in Streamed : peds'[q].model = peds[q].model
<1>1. PICK o : peds' \in {peds,
                          [peds EXCEPT ![p].model = peds[p].model, ![p].object = o],
                          [peds EXCEPT ![p].object = o]}
  BY DEF FailedApplyPeds, RebuiltPeds, BarePeds
<1> QED
  BY <1>1 DEF TypeOK, IsMap, Ped, Streamed

\* The step of a scan that is under way: a visit, the restoration of a user, or
\* the end.
LEMMA ScanSteps ==
  ASSUME phase = "scan", Next
  PROVE  EndScan \/ \E p \in PlayerIds : Visit(p) \/ RestoreUser(p)
  BY DEF Next, Frame, Game, StreamIn, StreamOut, ServerReset, DropObject,
         ChangeModelInPlace, GameStep, Reload, ScanNothingToDo, ScanUnreadable,
         BeginScan

\* A ped that is visited is streamed.
LEMMA VisitedIsStreamed ==
  ASSUME TypeOK, NEW p \in PlayerIds, Visit(p)
  PROVE  p \in Streamed
  BY DEF TypeOK, Visit, VisitUnreadable, VisitUnmatched, VisitSwitched,
         VisitReady, VisitApply, VisitApplyFails, VisitRestoreRequired,
         VisitUnavailable, Visiting, Streamed

\* No frame changes the server model of a ped, in restores and failed applies
\* included (ARCHITECTURE.md, invariant 3).
THEOREM ServerModelAlwaysPreserved == Spec => ServerModelPreserved
<1> DEFINE Preserved == \A p \in Streamed :
                          p \in DOMAIN peds' /\ peds'[p].model = peds[p].model
<1>1. TypeOK /\ [Next]_vars => (phase = "scan" => Preserved)
  <2> SUFFICES ASSUME TypeOK, [Next]_vars, phase = "scan" PROVE Preserved
    OBVIOUS
  <2>1. CASE peds' = peds
    BY <2>1 DEF Streamed
  <2>2. ASSUME NEW p \in PlayerIds, Visit(p) PROVE Preserved
    <3>0. p \in Streamed
      BY <2>2, VisitedIsStreamed
    <3>1. CASE VisitUnmatched(p) \/ VisitSwitched(p)
      BY <3>0, <3>1, RestoreKeepsModels DEF VisitUnmatched, VisitSwitched
    <3>2. CASE VisitApply(p)
      <4>1. PICK clone : peds' = [peds EXCEPT ![p].object = clone]
        BY <3>2 DEF VisitApply
      <4> QED
        BY <3>0, <4>1 DEF TypeOK, IsMap, Ped, Streamed
    <3>3. CASE VisitApplyFails(p)
      BY <3>0, <3>3, FailedApplyKeepsModels DEF VisitApplyFails
    <3> QED
      BY <2>1, <2>2, <3>1, <3>2, <3>3
      DEF Visit, VisitUnreadable, VisitReady, VisitRestoreRequired,
          VisitUnavailable
  <2>3. ASSUME NEW p \in PlayerIds, RestoreUser(p) PROVE Preserved
    <3>1. p \in Streamed
      BY <2>3 DEF TypeOK, RestoreUser
    <3> QED
      BY <2>3, <3>1, RestoreKeepsModels DEF RestoreUser
  <2> QED
    BY <2>1, <2>2, <2>3, ScanSteps DEF EndScan, vars
<1> QED
  BY <1>1, TypeCorrect, PTL DEF Spec, ServerModelPreserved

-----------------------------------------------------------------------------
(***************************************************************************)
(* Only clones are recorded, so that only clones are restored away.        *)
(***************************************************************************)
CloneRecords(records) ==
  \A p \in DOMAIN records : IsClone(records[p].render_object)

\* Dropping records keeps the others.
LEMMA FewerCloneRecords ==
  ASSUME NEW records, CloneRecords(records), NEW p
  PROVE  /\ CloneRecords(Without(records, p))
         /\ \A S : CloneRecords(Restrict(records, DOMAIN records \cap S))
  BY DEF CloneRecords, Without, Restrict

LEMMA KnownCloneRecords ==
  ASSUME CloneRecords(applied), NEW p
  PROVE  CloneRecords(KnownApplied(p))
  BY FewerCloneRecords DEF KnownApplied

\* restore_server_model leaves an ordinary clump alone, and adds no record.
LEMMA RestoreKeepsOrdinary ==
  ASSUME TypeOK, NEW p \in Streamed, NEW records, NEW failures,
         CloneRecords(records), RestoreServerModel(p, records, failures)
  PROVE  /\ CloneRecords(applied')
         /\ ~ IsClone(peds[p].object) => peds' = peds
<1>1. p \in DOMAIN records /\ ~ IsClone(peds[p].object) => Superseded(p, records)
  BY DEF CloneRecords, Superseded
<1>2. CloneRecords(Without(records, p))
  BY FewerCloneRecords
<1> QED
  BY <1>1, <1>2
  DEF RestoreServerModel, RestoreFails, RestoreSucceeds, Forget

\* The clone that a visit installs is one.
LEMMA ClonesAreClones ==
  ASSUME TypeOK, NEW p, NEW s \in ProfilesFor(p), NEW l \in Lookups(s),
         l.kind = "Ready", NEW clone \in ClonesFor(p, l.cache.loaded[s])
  PROVE  IsClone(clone)
<1>1. IsCache(l.cache) /\ s \in DOMAIN l.cache.loaded
  BY LookupsType DEF ProfilesFor
<1>2. clone.geometry = l.cache.loaded[s].resources
  BY DEF ClonesFor
<1> QED
  BY <1>1, <1>2 DEF IsCache, IsMap, LoadedSource, IsClone

\* Every step records clones only.
LEMMA CloneRecordsStep ==
  ASSUME TypeOK, CloneRecords(applied), [Next]_vars
  PROVE  CloneRecords(applied')
<1>1. CASE applied' = applied
  BY <1>1
<1>2. CASE EndScan
  BY <1>2, FewerCloneRecords DEF EndScan, StreamedOnly
<1>3. ASSUME NEW p \in PlayerIds, RestoreUser(p) PROVE CloneRecords(applied')
  BY <1>3, RestoreKeepsOrdinary DEF RestoreUser, TypeOK
<1>4. ASSUME NEW p \in PlayerIds, Visit(p) PROVE CloneRecords(applied')
  <2>0. p \in Streamed /\ CloneRecords(KnownApplied(p))
    BY <1>4, VisitedIsStreamed, KnownCloneRecords
  <2>1. CASE VisitUnmatched(p) \/ VisitSwitched(p)
    BY <2>0, <2>1, RestoreKeepsOrdinary DEF VisitUnmatched, VisitSwitched
  <2>2. CASE VisitApply(p)
    <3>1. PICK clone, record :
            /\ IsClone(clone)
            /\ record.render_object = clone
            /\ applied' = Put(KnownApplied(p), p, record)
      BY <2>2, ClonesAreClones DEF VisitApply, ToApply
    <3> QED
      BY <2>0, <3>1 DEF CloneRecords, Put
  <2>3. CASE applied' = KnownApplied(p)
    BY <2>0, <2>3
  <2> QED
    BY <1>1, <1>4, <2>1, <2>2, <2>3
    DEF Visit, VisitUnreadable, VisitReady, VisitApplyFails,
        VisitRestoreRequired, VisitUnavailable, KeepRecords
<1> QED
  BY <1>1, <1>2, <1>3, <1>4
  DEF Next, Frame, Game, StreamIn, StreamOut, ServerReset, DropObject,
      ChangeModelInPlace, GameStep, runtimeVars, Reload, ScanNothingToDo,
      ScanUnreadable, BeginScan, vars

LEMMA CloneRecordsHold == Spec => []CloneRecords(applied)
<1>1. Init => CloneRecords(applied)
  BY EmptyMapType DEF Init, CloneRecords
<1>2. TypeOK /\ CloneRecords(applied) /\ [Next]_vars => CloneRecords(applied)'
  BY CloneRecordsStep DEF CloneRecords, IsClone
<1> QED
  BY <1>1, <1>2, TypeCorrect, PTL DEF Spec

\* A scan touches an ordinary clump only for a profile that a rule matches ("If
\* no enabled rule matches, Wardrobe does nothing").
THEOREM OrdinaryClumpAlwaysKept == Spec => OrdinaryClumpKept
<1> DEFINE Touched(p) == /\ phase = "scan"
                         /\ peds'[p].object # peds[p].object
                         /\ ~ IsClone(peds[p].object)
<1>1. TypeOK /\ CloneRecords(applied) /\ [Next]_vars =>
        \A p \in Streamed : Touched(p) => MatchedProfiles(p) # {}
  <2> SUFFICES ASSUME TypeOK, CloneRecords(applied), [Next]_vars,
                      NEW p \in Streamed, Touched(p)
               PROVE  MatchedProfiles(p) # {}
    OBVIOUS
  <2>1. ASSUME NEW q \in PlayerIds, RestoreUser(q) PROVE FALSE
    <3>1. q \in Streamed
      BY <2>1 DEF TypeOK, RestoreUser
    <3> QED
      BY <2>1, <3>1, RestoreKeepsModels, RestoreKeepsOrdinary DEF RestoreUser
  <2>2. ASSUME NEW q \in PlayerIds, Visit(q) PROVE MatchedProfiles(p) # {}
    <3>0. q \in Streamed /\ CloneRecords(KnownApplied(q))
      BY <2>2, VisitedIsStreamed, KnownCloneRecords
    <3>1. CASE VisitUnmatched(q)
      BY <3>0, <3>1, RestoreKeepsModels, RestoreKeepsOrdinary DEF VisitUnmatched
    <3>2. CASE VisitSwitched(q)
      BY <3>0, <3>2, RestoreKeepsModels, RestoreKeepsOrdinary DEF VisitSwitched
    <3>3. CASE VisitApply(q)
      BY <3>0, <3>3 DEF VisitApply, ProfilesFor, TypeOK, IsMap, Streamed
    <3>4. CASE VisitApplyFails(q)
      BY <3>0, <3>4
      DEF VisitApplyFails, ProfilesFor, FailedApplyPeds, RebuiltPeds, BarePeds,
          TypeOK, IsMap, Streamed
    <3> QED
      BY <2>2, <3>1, <3>2, <3>3, <3>4
      DEF Visit, VisitUnreadable, VisitReady, VisitRestoreRequired,
          VisitUnavailable
  <2> QED
    BY <2>1, <2>2, ScanSteps DEF EndScan, vars
<1> QED
  BY <1>1, TypeCorrect, CloneRecordsHold, PTL DEF Spec, OrdinaryClumpKept
-----------------------------------------------------------------------------
(***************************************************************************)
(* A profile has one source at most, and no two sources own one geometry.  *)
(***************************************************************************)
OneSource(c) ==
  /\ \A r \in c.retired : r.skin_id \notin DOMAIN c.loaded
  /\ \A r \in c.retired : \A s \in DOMAIN c.loaded :
       c.loaded[s].resources # r.resources
  /\ \A r1, r2 \in c.retired :
       r1.skin_id = r2.skin_id \/ r1.resources = r2.resources => r1 = r2
  /\ \A s, t \in DOMAIN c.loaded :
       c.loaded[s].resources = c.loaded[t].resources => s = t

\* Retiring sources moves them from the loaded to the retired ones.
LEMMA RetireKeepsOneSource ==
  ASSUME NEW cc, OneSource(cc), NEW R
  PROVE  OneSource(RetireUnreferenced(cc, R))
<1> DEFINE new == RetireUnreferenced(cc, R)
<1>1. /\ DOMAIN new.loaded = DOMAIN cc.loaded \cap R
      /\ \A s \in DOMAIN new.loaded : new.loaded[s] = cc.loaded[s]
      /\ new.retired = cc.retired \cup Retirements(cc, R)
  BY DEF RetireUnreferenced, CacheOf, Restrict
<1>2. \A r \in Retirements(cc, R) : \E s \in DOMAIN cc.loaded \ R :
        /\ r = Retired(s, cc.loaded[s])
        /\ r.skin_id = s
        /\ r.resources = cc.loaded[s].resources
  BY DEF Retirements, Retired
<1> HIDE DEF new
<1>3. \A r \in new.retired :
        /\ r.skin_id \notin DOMAIN new.loaded
        /\ \A s \in DOMAIN new.loaded : new.loaded[s].resources # r.resources
  BY <1>1, <1>2 DEF OneSource
<1>4. \A r1, r2 \in new.retired :
        r1.skin_id = r2.skin_id \/ r1.resources = r2.resources => r1 = r2
  BY <1>1, <1>2 DEF OneSource
<1>5. \A s, t \in DOMAIN new.loaded :
        new.loaded[s].resources = new.loaded[t].resources => s = t
  BY <1>1 DEF OneSource
<1> QED
  BY <1>3, <1>4, <1>5 DEF OneSource, new

\* Releasing sources and recording clones adds none.
LEMMA FewerKeepsOneSource ==
  ASSUME NEW cc, OneSource(cc), NEW new,
         new.retired \subseteq cc.retired, DOMAIN new.loaded = DOMAIN cc.loaded,
         \A s \in DOMAIN cc.loaded : new.loaded[s].resources = cc.loaded[s].resources
  PROVE  OneSource(new)
  BY DEF OneSource

\* cleanup_retired keeps the loaded sources and adds no retired one.
LEMMA CleanupReleases ==
  ASSUME NEW cc, IsCache(cc), NEW new \in CleanupOutcomes(cc)
  PROVE  /\ new.retired \subseteq cc.retired
         /\ DOMAIN new.loaded = DOMAIN cc.loaded
         /\ \A s \in DOMAIN cc.loaded :
              new.loaded[s].resources = cc.loaded[s].resources
<1>1. CASE new = cc
  BY <1>1
<1>2. CASE \E live \in LivePedStates, stuck \in SUBSET cc.retired :
             new = CleanupRetired(cc, live, stuck)
  BY <1>2
  DEF CleanupRetired, CacheOf, ForgetDeadClones, StillBorrowed, IsCache, IsMap,
      LoadedSource
<1> QED
  BY <1>1, <1>2 DEF CleanupOutcomes

LEMMA CleanupKeepsOneSource ==
  ASSUME NEW cc, IsCache(cc), OneSource(cc), NEW new \in CleanupOutcomes(cc)
  PROVE  OneSource(new)
  BY CleanupReleases, FewerKeepsOneSource

\* record_clone adds no source.
LEMMA RecordCloneAddsNone ==
  ASSUME NEW cc, IsCache(cc), NEW s, NEW clone
  PROVE  LET new == RecordClone(cc, s, clone)
         IN  /\ new.retired = cc.retired
             /\ DOMAIN new.loaded = DOMAIN cc.loaded
             /\ \A t \in DOMAIN cc.loaded :
                  new.loaded[t].resources = cc.loaded[t].resources
  BY DEF RecordClone, CacheOf, IsCache, IsMap, LoadedSource

LEMMA RecordCloneKeepsOneSource ==
  ASSUME NEW cc, IsCache(cc), OneSource(cc), NEW s, NEW clone
  PROVE  OneSource(RecordClone(cc, s, clone))
  BY RecordCloneAddsNone, FewerKeepsOneSource

\* What load_or_status may do: nothing to the sources, retire the one of the
\* profile, or load one for a profile that has none.
SameSources(old, new) == new.loaded = old.loaded /\ new.retired = old.retired

SourceLoaded(old, s, g, new) ==
  /\ s \notin DOMAIN old.loaded
  /\ \A r \in old.retired : r.skin_id # s
  /\ new.retired = old.retired
  /\ DOMAIN new.loaded = DOMAIN old.loaded \cup {s}
  /\ new.loaded[s].resources = g
  /\ \A t \in DOMAIN old.loaded : new.loaded[t] = old.loaded[t]

LEMMA LookupsCases ==
  ASSUME NEW s, NEW l \in Lookups(s)
  PROVE  \/ SameSources(cache, l.cache)
         \/ /\ l.kind = "RestoreRequired"
            /\ SameSources(RetireUnreferenced(cache, Skins \ {s}), l.cache)
         \/ \E g \in FreeGeometries : SourceLoaded(cache, s, g, l.cache)
<1>1. PICK f \in FileRevisions, recently \in BOOLEAN :
        l \in LoadOrStatus(cache, s, config.skins[s], f, recently, FreeGeometries)
  BY DEF Lookups
<1> DEFINE source == [definition |-> config.skins[s], files |-> f]
<1>2. CASE l \in {Lookup("RestoreRequired", 0, cache),
                 Lookup("Unavailable", 0, cache),
                 Lookup("Ready", cache.loaded[s].generation, cache)}
  BY <1>2 DEF Lookup, SameSources
<1>3. CASE l = Lookup("RestoreRequired", 0, Replace(cache, s))
  BY <1>3 DEF Lookup, Replace, CacheOf, SameSources
<1>4. ASSUME NEW g \in FreeGeometries, l = LoadSucceeds(cache, s, source, g),
             ~ RestoreStillNeeded(cache, s), s \notin DOMAIN cache.loaded
      PROVE  SourceLoaded(cache, s, g, l.cache)
  BY <1>4
  DEF LoadSucceeds, NewSource, Lookup, CacheOf, Put, RestoreStillNeeded,
      SourceLoaded
<1>5. CASE l = LoadFails(cache, s, source)
  BY <1>5 DEF LoadFails, Lookup, CacheOf, SameSources
<1> HIDE DEF FreeGeometries
<1> QED
  BY <1>1, <1>2, <1>3, <1>4, <1>5 DEF LoadOrStatus

\* load_or_status loads a source only for a profile that has none, neither
\* loaded nor retired, and into a geometry that is free.
LEMMA LookupsKeepOneSource ==
  ASSUME OneSource(cache), NEW s, NEW l \in Lookups(s)
  PROVE  OneSource(l.cache)
<1>1. OneSource(RetireUnreferenced(cache, Skins \ {s}))
  BY RetireKeepsOneSource
<1>2. \A g \in FreeGeometries :
        /\ \A t \in DOMAIN cache.loaded : cache.loaded[t].resources # g
        /\ \A r \in cache.retired : r.resources # g
  BY DEF FreeGeometries, OwnedGeometries
<1>3. \A old, new : OneSource(old) /\ SameSources(old, new) => OneSource(new)
  BY DEF OneSource, SameSources
<1>4. ASSUME NEW g \in FreeGeometries, SourceLoaded(cache, s, g, l.cache)
      PROVE  OneSource(l.cache)
  BY <1>2, <1>4 DEF OneSource, SourceLoaded
<1> QED
  BY <1>1, <1>3, <1>4, LookupsCases

\* Every step keeps the sources of a profile down to one.
LEMMA OneSourceStep ==
  ASSUME TypeOK, OneSource(cache), [Next]_vars
  PROVE  OneSource(cache')
<1>1. IsCache(cache)
  BY DEF TypeOK
<1>2. CASE UNCHANGED vars
  BY <1>2 DEF vars
<1>3. CASE Game
  BY <1>3 DEF Game, StreamIn, StreamOut, ServerReset, DropObject,
              ChangeModelInPlace, GameStep, runtimeVars
<1>4. CASE Reload
  BY <1>4, RetireKeepsOneSource DEF Reload
<1>5. CASE ScanNothingToDo
  BY <1>1, <1>5, RetireType, RetireKeepsOneSource, CleanupKeepsOneSource
  DEF ScanNothingToDo
<1>6. CASE ScanUnreadable
  BY <1>1, <1>6, CleanupKeepsOneSource DEF ScanUnreadable
<1>7. CASE BeginScan
  BY <1>7 DEF BeginScan, runtimeVars
<1>8. CASE EndScan
  BY <1>1, <1>8, RetireType, RetireKeepsOneSource, CleanupKeepsOneSource
  DEF EndScan, RetainedCache
<1>9. ASSUME NEW p \in PlayerIds, Visit(p) PROVE OneSource(cache')
  <2>1. \A s \in ProfilesFor(p) : \A l \in Lookups(s) :
          OneSource(l.cache) /\ IsCache(l.cache)
    BY LookupsType, LookupsKeepOneSource DEF ProfilesFor
  <2>2. CASE cache' = cache
    BY <2>2
  <2>3. CASE VisitApply(p)
    BY <2>1, <2>3, RecordCloneKeepsOneSource DEF VisitApply
  <2> QED
    BY <1>9, <2>1, <2>2, <2>3
    DEF Visit, VisitUnreadable, VisitUnmatched, VisitSwitched, VisitReady,
        VisitApplyFails, VisitRestoreRequired, VisitUnavailable
<1>10. ASSUME NEW q \in PlayerIds, RestoreUser(q) PROVE OneSource(cache')
  BY <1>10 DEF RestoreUser
<1> QED
  BY <1>2, <1>3, <1>4, <1>5, <1>6, <1>7, <1>8, <1>9, <1>10 DEF Next, Frame

LEMMA OneSourceHolds == Spec => []OneSource(cache)
<1>1. Init => OneSource(cache)
  BY EmptyMapType DEF Init, OneSource, EmptyCache, CacheOf
<1>2. TypeOK /\ OneSource(cache) /\ [Next]_vars => OneSource(cache)'
  BY OneSourceStep DEF OneSource
<1> QED
  BY <1>1, <1>2, TypeCorrect, PTL DEF Spec

\* No replacement source is loaded while an older source of the same profile
\* is loaded or still waits for the clones it lent (load_or_status).
THEOREM OneSourceAlways == Spec => []OneSourcePerProfile
<1>1. OneSource(cache) => OneSourcePerProfile
  BY DEF OneSource, OneSourcePerProfile
<1> QED
  BY <1>1, OneSourceHolds, PTL

-----------------------------------------------------------------------------
(***************************************************************************)
(* No ped wears a clone of a released source.  NoDanglingClone is not      *)
(* inductive: a clean-up releases what no recorded clone borrows, so the   *)
(* source of every worn clone must also know that clone (CloneIsRecorded). *)
(***************************************************************************)

\* A recorded clone borrows from a source that is not released.
LEMMA RecordedIsOwned ==
  ASSUME NEW c, NEW o, Recorded(c, o)
  PROVE  o.geometry \in OwnedGeometries(c)
  BY DEF Recorded, OwnedGeometries

\* Retiring a source keeps the identities of its clones.
LEMMA RetireKeepsRecord ==
  ASSUME NEW cc, NEW o, Recorded(cc, o), NEW R
  PROVE  Recorded(RetireUnreferenced(cc, R), o)
<1> DEFINE new == RetireUnreferenced(cc, R)
<1>1. /\ DOMAIN new.loaded = DOMAIN cc.loaded \cap R
      /\ \A s \in DOMAIN new.loaded : new.loaded[s] = cc.loaded[s]
      /\ new.retired = cc.retired \cup Retirements(cc, R)
  BY DEF RetireUnreferenced, CacheOf, Restrict
<1> HIDE DEF new
<1>2. CASE \E r \in cc.retired : r.resources = o.geometry /\ o \in r.clones
  BY <1>1, <1>2 DEF Recorded, new
<1>3. ASSUME NEW s \in DOMAIN cc.loaded,
             cc.loaded[s].resources = o.geometry, o \in cc.loaded[s].clones
      PROVE  Recorded(new, o)
  <2>1. CASE s \in R
    BY <1>1, <1>3, <2>1 DEF Recorded
  <2>2. CASE s \notin R
    <3>1. Retired(s, cc.loaded[s]) \in new.retired
      BY <1>1, <2>2 DEF Retirements
    <3>2. /\ Retired(s, cc.loaded[s]).resources = o.geometry
          /\ o \in Retired(s, cc.loaded[s]).clones
      BY <1>3 DEF Retired
    <3> QED
      BY <3>1, <3>2 DEF Recorded
  <2> QED
    BY <2>1, <2>2
<1> QED
  BY <1>2, <1>3 DEF Recorded, new

\* load_or_status forgets no clone of any source.
LEMMA LoadOrStatusKeepsRecord ==
  ASSUME NEW cc, NEW o, Recorded(cc, o), NEW s, NEW d, NEW f, NEW recently,
         NEW free, NEW l \in LoadOrStatus(cc, s, d, f, recently, free)
  PROVE  Recorded(l.cache, o)
<1> DEFINE source == [definition |-> d, files |-> f]
<1>1. CASE l \in {Lookup("RestoreRequired", 0, cc), Lookup("Unavailable", 0, cc),
                 Lookup("Ready", cc.loaded[s].generation, cc)}
  <2>1. l.cache = cc
    BY <1>1 DEF Lookup
  <2> QED
    BY <2>1
<1>2. CASE l = Lookup("RestoreRequired", 0, Replace(cc, s))
  <2>1. Recorded(RetireUnreferenced(cc, Skins \ {s}), o)
    BY RetireKeepsRecord
  <2> QED
    BY <1>2, <2>1 DEF Lookup, Replace, CacheOf, Recorded
<1>3. ASSUME NEW g \in free, l = LoadSucceeds(cc, s, source, g),
             s \notin DOMAIN cc.loaded
      PROVE  Recorded(l.cache, o)
  <2>1. /\ l.cache.retired = cc.retired
        /\ DOMAIN cc.loaded \subseteq DOMAIN l.cache.loaded
        /\ \A t \in DOMAIN cc.loaded : l.cache.loaded[t] = cc.loaded[t]
    BY <1>3 DEF LoadSucceeds, Lookup, CacheOf, Put
  <2> QED
    BY <2>1 DEF Recorded
<1>4. CASE l = LoadFails(cc, s, source)
  BY <1>4 DEF LoadFails, Lookup, CacheOf, Recorded
<1>5. \/ l \in {Lookup("RestoreRequired", 0, cc), Lookup("Unavailable", 0, cc),
               Lookup("Ready", cc.loaded[s].generation, cc)}
      \/ l = Lookup("RestoreRequired", 0, Replace(cc, s))
      \/ /\ \E g \in free : l = LoadSucceeds(cc, s, source, g)
         /\ s \notin DOMAIN cc.loaded
      \/ l = LoadFails(cc, s, source)
  BY DEF LoadOrStatus
<1> QED
  BY <1>1, <1>2, <1>3, <1>4, <1>5

\* record_clone knows the clone it is told of and forgets no other.
LEMMA RecordCloneRecords ==
  ASSUME NEW cc, IsCache(cc), NEW s \in DOMAIN cc.loaded, NEW clone,
         clone.geometry = cc.loaded[s].resources
  PROVE  LET new == RecordClone(cc, s, clone)
         IN  /\ Recorded(new, clone)
             /\ \A o : Recorded(cc, o) => Recorded(new, o)
<1> DEFINE new == RecordClone(cc, s, clone)
<1>1. /\ new.retired = cc.retired
      /\ DOMAIN new.loaded = DOMAIN cc.loaded
      /\ \A t \in DOMAIN cc.loaded :
           /\ new.loaded[t].resources = cc.loaded[t].resources
           /\ cc.loaded[t].clones \subseteq new.loaded[t].clones
      /\ clone \in new.loaded[s].clones
  BY DEF RecordClone, CacheOf, IsCache, IsMap, LoadedSource
<1> HIDE DEF new
<1>2. Recorded(new, clone)
  BY <1>1 DEF Recorded
<1>3. ASSUME NEW o, Recorded(cc, o) PROVE Recorded(new, o)
  BY <1>1, <1>3 DEF Recorded
<1> QED
  BY <1>2, <1>3 DEF new

\* A clean-up keeps the record of every live clone: its source is not released.
LEMMA CleanupKeepsRecord ==
  ASSUME TypeOK, NEW cc, IsCache(cc), NEW o \in LiveObjects, Recorded(cc, o),
         NEW new \in CleanupOutcomes(cc)
  PROVE  Recorded(new, o)
<1>1. CASE new = cc
  BY <1>1
<1>2. ASSUME NEW stuck \in SUBSET cc.retired,
             new = CleanupRetired(cc, LiveObjects, stuck)
      PROVE  Recorded(new, o)
  <2>1. /\ DOMAIN new.loaded = DOMAIN cc.loaded
        /\ \A t \in DOMAIN cc.loaded :
             /\ new.loaded[t].resources = cc.loaded[t].resources
             /\ cc.loaded[t].clones \cap LiveObjects \subseteq new.loaded[t].clones
    BY <1>2
    DEF CleanupRetired, CacheOf, ForgetDeadClones, IsCache, IsMap, LoadedSource
  <2>2. \A r \in cc.retired : o \in r.clones => r \in new.retired
    BY <1>2 DEF CleanupRetired, CacheOf, StillBorrowed
  <2> QED
    BY <2>1, <2>2 DEF Recorded
<1> QED
  BY <1>1, <1>2, LivePedStatesAreComplete DEF CleanupOutcomes

\* Every clone worn after the step was worn by the same ped before it.
NoNewClone ==
  \A p \in DOMAIN peds' :
    IsClone(peds'[p].object) =>
      p \in Streamed /\ peds'[p].object = peds[p].object

\* A step that installs no clone and forgets no worn one keeps them recorded.
LEMMA KeepsRecords ==
  ASSUME CloneIsRecorded, NoNewClone,
         \A o \in LiveObjects : Recorded(cache, o) => Recorded(cache', o)
  PROVE  CloneIsRecorded'
  BY DEF CloneIsRecorded, NoNewClone, LiveObjects, Streamed, IsClone

\* An ordinary clump and a missing one are no clones.
LEMMA NotAClone ==
  /\ ~ IsClone(NullObject)
  /\ \A a \in Addresses : \A m \in Models : ~ IsClone(OrdinaryObject(a, m))
  BY CacheAssumption DEF IsClone, NullObject, OrdinaryObject

\* Neither a rebuilt nor a bare ped wears a clone.
LEMMA RebuiltNoNewClone ==
  ASSUME TypeOK, NEW p \in Streamed, NEW m \in Models,
         peds' \in RebuiltPeds(p, m) \cup {BarePeds(p), peds}
  PROVE  NoNewClone
<1>0. \A q \in DOMAIN peds' : q \in Streamed
  BY RebuiltType
<1>1. \A q \in Streamed \ {p} : peds'[q] = peds[q]
  BY DEF RebuiltPeds, BarePeds, TypeOK, IsMap, Streamed
<1>2. peds'[p].object = peds[p].object \/ ~ IsClone(peds'[p].object)
  <2>1. CASE peds' = peds
    BY <2>1
  <2>2. CASE peds' = BarePeds(p)
    <3>1. peds'[p].object = NullObject
      BY <2>2 DEF BarePeds, TypeOK, IsMap, Streamed, Ped
    <3> QED
      BY <3>1, NotAClone
  <2>3. CASE peds' \in RebuiltPeds(p, m)
    <3>1. PICK a \in FreeAddresses(p) :
            peds' = [peds EXCEPT ![p].model = m, ![p].object = OrdinaryObject(a, m)]
      BY <2>3 DEF RebuiltPeds
    <3>2. p \in DOMAIN peds /\ peds[p] \in Ped
      BY DEF TypeOK, IsMap, Streamed
    <3>3. peds'[p].object = OrdinaryObject(a, m)
      BY <3>1, <3>2 DEF Ped
    <3> QED
      BY <3>3, NotAClone DEF FreeAddresses
  <2> QED
    BY <2>1, <2>2, <2>3
<1> QED
  BY <1>0, <1>1, <1>2 DEF NoNewClone

\* restore_server_model installs no clone.
LEMMA RestoreNoNewClone ==
  ASSUME TypeOK, NEW p \in Streamed, NEW records, NEW failures,
         IsMap(records, PlayerIds, AppliedPlayer),
         RestoreServerModel(p, records, failures)
  PROVE  NoNewClone
<1>1. CASE peds' = peds
  BY <1>1 DEF NoNewClone, Streamed
<1>2. CASE /\ p \in DOMAIN records
           /\ peds' \in RebuiltPeds(p, records[p].server_model_id)
                         \cup {BarePeds(p), peds}
  <2>1. records[p].server_model_id \in Models
    BY <1>2 DEF IsMap, AppliedPlayer
  <2> QED
    BY <1>2, <2>1, RebuiltNoNewClone
<1> QED
  BY <1>1, <1>2 DEF RestoreServerModel, RestoreFails, RestoreSucceeds

\* What the game does installs no clone and leaves the cache alone.
LEMMA GameKeepsRecords ==
  ASSUME TypeOK, CloneIsRecorded, Game
  PROVE  CloneIsRecorded'
<1>1. cache' = cache
  BY DEF Game, StreamIn, StreamOut, ServerReset, DropObject,
         ChangeModelInPlace, GameStep, runtimeVars
<1>2. SUFFICES NoNewClone
  BY <1>1, KeepsRecords
<1>3. PICK p \in PlayerIds :
        \/ StreamIn(p) \/ StreamOut(p) \/ ServerReset(p)
        \/ DropObject(p) \/ ChangeModelInPlace(p)
  BY DEF Game
<1>4. CASE StreamIn(p)
  <2>1. PICK name \in Names, model \in Models, a \in FreeAddresses(p) :
          peds' = Put(peds, p, [ name   |-> name,
                                 model  |-> model,
                                 object |-> OrdinaryObject(a, model) ])
    BY <1>4 DEF StreamIn
  <2>2. /\ peds'[p].object = OrdinaryObject(a, model)
        /\ DOMAIN peds' = Streamed \cup {p}
        /\ \A q \in Streamed \ {p} : peds'[q] = peds[q]
    BY <2>1 DEF Put, Streamed
  <2>3. ~ IsClone(peds'[p].object)
    BY <2>2, NotAClone DEF FreeAddresses
  <2> QED
    BY <2>2, <2>3 DEF NoNewClone
<1>5. CASE StreamOut(p)
  BY <1>5 DEF StreamOut, Without, Restrict, NoNewClone, Streamed
<1>6. CASE ServerReset(p)
  <2>1. PICK m \in Models, a \in FreeAddresses(p) :
          peds' = [peds EXCEPT ![p].model = m, ![p].object = OrdinaryObject(a, m)]
    BY <1>6 DEF ServerReset
  <2>2. p \in Streamed /\ peds' \in RebuiltPeds(p, m)
    BY <1>6, <2>1 DEF ServerReset, RebuiltPeds
  <2> QED
    BY <2>2, RebuiltNoNewClone
<1>7. CASE DropObject(p)
  <2>1. PICK m \in Models : m = peds[p].model
    BY <1>7 DEF DropObject, TypeOK, IsMap, Streamed, Ped
  <2> QED
    BY <1>7, <2>1, RebuiltNoNewClone DEF DropObject, BarePeds
<1>8. CASE ChangeModelInPlace(p)
  <2>1. PICK m \in Models : peds' = [peds EXCEPT ![p].model = m]
    BY <1>8 DEF ChangeModelInPlace
  <2>2. DOMAIN peds' = Streamed
    BY <2>1 DEF Streamed
  <2>3. \A q \in Streamed : peds'[q].object = peds[q].object
    BY <2>1 DEF TypeOK, IsMap, Streamed, Ped
  <2> QED
    BY <2>2, <2>3 DEF NoNewClone
<1> QED
  BY <1>3, <1>4, <1>5, <1>6, <1>7, <1>8

\* The start and the end of a scan, and a frame without one, keep the records
\* of the clones that are worn.
LEMMA FrameKeepsRecords ==
  ASSUME TypeOK, CloneIsRecorded,
         Reload \/ ScanNothingToDo \/ ScanUnreadable \/ BeginScan \/ EndScan
  PROVE  CloneIsRecorded'
<1>0. IsCache(cache) /\ peds' = peds
  BY DEF TypeOK, Reload, ScanNothingToDo, ScanUnreadable, BeginScan, EndScan
<1>1. NoNewClone
  BY <1>0 DEF NoNewClone, Streamed
<1>2. SUFFICES ASSUME NEW o \in LiveObjects, Recorded(cache, o)
               PROVE  Recorded(cache', o)
  BY <1>1, KeepsRecords
<1>3. CASE Reload
  BY <1>2, <1>3, RetireKeepsRecord DEF Reload
<1>4. CASE ScanNothingToDo
  <2>1. /\ IsCache(RetireUnreferenced(cache, {}))
        /\ Recorded(RetireUnreferenced(cache, {}), o)
    BY <1>0, <1>2, RetireType, RetireKeepsRecord
  <2> QED
    BY <1>2, <1>4, <2>1, CleanupKeepsRecord DEF ScanNothingToDo
<1>5. CASE ScanUnreadable
  BY <1>0, <1>2, <1>5, CleanupKeepsRecord DEF ScanUnreadable
<1>6. CASE BeginScan
  BY <1>2, <1>6 DEF BeginScan, runtimeVars
<1>7. CASE EndScan
  <2>1. IsCache(RetainedCache) /\ Recorded(RetainedCache, o)
    BY <1>0, <1>2, RetireType, RetireKeepsRecord DEF RetainedCache
  <2> QED
    BY <1>2, <1>7, <2>1, CleanupKeepsRecord DEF EndScan
<1> QED
  BY <1>3, <1>4, <1>5, <1>6, <1>7

\* A visit keeps the records of the worn clones and records the clone it puts
\* on, unless an install can fail its verification and its restore.
LEMMA VisitKeepsRecords ==
  ASSUME TypeOK, CloneIsRecorded, ~ UnverifiedInstalls,
         NEW p \in PlayerIds, Visit(p)
  PROVE  CloneIsRecorded'
<1>0. p \in Streamed
  BY DEF TypeOK, Visit, VisitUnreadable, VisitUnmatched, VisitSwitched,
         VisitReady, VisitApply, VisitApplyFails, VisitRestoreRequired,
         VisitUnavailable, Visiting, Streamed
<1>p. \A s \in ProfilesFor(p) : \A l \in Lookups(s) :
        /\ IsCache(l.cache)
        /\ l.kind = "Ready" => s \in DOMAIN l.cache.loaded
        /\ \A o : Recorded(cache, o) => Recorded(l.cache, o)
  BY LookupsType, LoadOrStatusKeepsRecord DEF ProfilesFor, Lookups
<1>s. peds[p].model \in Models
  BY <1>0 DEF TypeOK, IsMap, Ped, Streamed
<1>1. CASE VisitUnreadable(p)
  BY <1>1, KeepsRecords DEF VisitUnreadable, NoNewClone, Streamed
<1>2. CASE VisitUnmatched(p) \/ VisitSwitched(p)
  <2>1. NoNewClone
    BY <1>0, <1>2, KnownType, RestoreNoNewClone DEF VisitUnmatched, VisitSwitched
  <2>2. cache' = cache
    BY <1>2 DEF VisitUnmatched, VisitSwitched
  <2> QED
    BY <2>1, <2>2, KeepsRecords
<1>3. CASE VisitReady(p) \/ VisitRestoreRequired(p) \/ VisitUnavailable(p)
  <2>1. peds' = peds
    BY <1>3 DEF VisitReady, VisitRestoreRequired, VisitUnavailable
  <2>2. \A o : Recorded(cache, o) => Recorded(cache', o)
    BY <1>p, <1>3 DEF VisitReady, VisitRestoreRequired, VisitUnavailable
  <2>3. NoNewClone
    BY <2>1 DEF NoNewClone, Streamed
  <2> QED
    BY <2>2, <2>3, KeepsRecords
<1>4. CASE VisitApply(p)
  <2>1. PICK s \in ProfilesFor(p) : \E l \in Lookups(s) :
          /\ l.kind = "Ready"
          /\ \E clone \in ClonesFor(p, l.cache.loaded[s]) :
               /\ peds' = [peds EXCEPT ![p].object = clone]
               /\ cache' = RecordClone(l.cache, s, clone)
    BY <1>4 DEF VisitApply, ToApply
  <2>2. PICK l \in Lookups(s) :
          /\ l.kind = "Ready"
          /\ \E clone \in ClonesFor(p, l.cache.loaded[s]) :
               /\ peds' = [peds EXCEPT ![p].object = clone]
               /\ cache' = RecordClone(l.cache, s, clone)
    BY <2>1
  <2>3. PICK clone \in ClonesFor(p, l.cache.loaded[s]) :
          /\ peds' = [peds EXCEPT ![p].object = clone]
          /\ cache' = RecordClone(l.cache, s, clone)
    BY <2>2
  <2>4. clone.geometry = l.cache.loaded[s].resources
    BY DEF ClonesFor
  <2>5. /\ Recorded(cache', clone)
        /\ \A o : Recorded(cache, o) => Recorded(cache', o)
    BY <1>p, <2>2, <2>3, <2>4, RecordCloneRecords
  <2>6. /\ DOMAIN peds' = Streamed
        /\ peds'[p].object = clone
        /\ \A q \in Streamed \ {p} : peds'[q] = peds[q]
    BY <1>0, <2>3 DEF TypeOK, IsMap, Streamed, Ped
  <2> QED
    BY <2>5, <2>6 DEF CloneIsRecorded, Streamed, IsClone
<1>5. CASE VisitApplyFails(p)
  <2>1. PICK s \in ProfilesFor(p) : \E l \in Lookups(s) :
          /\ cache' = l.cache
          /\ peds' \in FailedApplyPeds(p, l.cache.loaded[s])
    BY <1>5 DEF VisitApplyFails
  <2>2. \A o : Recorded(cache, o) => Recorded(cache', o)
    BY <1>p, <2>1
  <2>3. peds' \in RebuiltPeds(p, peds[p].model) \cup {BarePeds(p), peds}
    BY <2>1 DEF FailedApplyPeds
  <2> QED
    BY <1>0, <1>s, <2>2, <2>3, RebuiltNoNewClone, KeepsRecords
<1> QED
  BY <1>1, <1>2, <1>3, <1>4, <1>5 DEF Visit

\* Every step keeps the worn clones recorded.
LEMMA RecordedStep ==
  ASSUME TypeOK, CloneIsRecorded, ~ UnverifiedInstalls, [Next]_vars
  PROVE  CloneIsRecorded'
<1>1. CASE UNCHANGED vars
  BY <1>1 DEF vars, CloneIsRecorded, Recorded, Streamed, IsClone
<1>2. ASSUME NEW q \in PlayerIds, RestoreUser(q) PROVE CloneIsRecorded'
  <2>1. q \in Streamed /\ cache' = cache
    BY <1>2 DEF TypeOK, RestoreUser
  <2>2. NoNewClone
    BY <1>2, <2>1, RestoreNoNewClone DEF TypeOK, RestoreUser
  <2> QED
    BY <2>1, <2>2, KeepsRecords
<1> QED
  BY <1>1, <1>2, GameKeepsRecords, FrameKeepsRecords, VisitKeepsRecords
  DEF Next, Frame

\* The source of every worn clone knows it, provided that an installed clone
\* is never left behind by a verification and a restore that both fail.
THEOREM CloneIsRecordedAlways ==
  ASSUME ~ UnverifiedInstalls
  PROVE  Spec => []CloneIsRecorded
<1>1. Init => CloneIsRecorded
  BY EmptyMapType DEF Init, CloneIsRecorded, Streamed
<1>2. TypeOK /\ CloneIsRecorded /\ [Next]_vars => CloneIsRecorded'
  BY RecordedStep
<1> QED
  BY <1>1, <1>2, TypeCorrect, PTL DEF Spec

\* Under the same proviso no ped ever wears a clone whose source has been
\* released (cleanup_retired).
THEOREM NoDanglingCloneEver ==
  ASSUME ~ UnverifiedInstalls
  PROVE  Spec => []NoDanglingClone
<1>1. CloneIsRecorded => NoDanglingClone
  BY RecordedIsOwned DEF CloneIsRecorded, NoDanglingClone
<1> QED
  BY <1>1, CloneIsRecordedAlways, PTL

-----------------------------------------------------------------------------
(***************************************************************************)
(* The sources live as SourceLifecycle says.  A step that retires or       *)
(* releases maps to Retire, one that loads, lends or takes off to Visit,   *)
(* and the rest to no step at all.                                         *)
(***************************************************************************)

\* Retiring moves sources from the loaded to the retired.
LEMMA RetireMoves ==
  ASSUME NEW cc, NEW R
  PROVE  LET new == RetireUnreferenced(cc, R)
         IN  /\ LoadedSources(new) \subseteq LoadedSources(cc)
             /\ RetiredSources(new)
                  = RetiredSources(cc) \cup (LoadedSources(cc) \ LoadedSources(new))
<1> DEFINE new == RetireUnreferenced(cc, R)
           Lent(s) == [skin_id |-> s, resources |-> cc.loaded[s].resources]
<1>1. /\ DOMAIN new.loaded = DOMAIN cc.loaded \cap R
      /\ \A s \in DOMAIN new.loaded : new.loaded[s] = cc.loaded[s]
      /\ new.retired = cc.retired \cup Retirements(cc, R)
  BY DEF RetireUnreferenced, CacheOf, Restrict
<1> HIDE DEF new
<1>2. LoadedSources(new) = {Lent(s) : s \in DOMAIN cc.loaded \cap R}
  BY <1>1 DEF LoadedSources
<1>3. LoadedSources(cc) = {Lent(s) : s \in DOMAIN cc.loaded}
  BY DEF LoadedSources
<1>4. LoadedSources(cc) \ LoadedSources(new) = {Lent(s) : s \in DOMAIN cc.loaded \ R}
  <2>1. \A s, t \in DOMAIN cc.loaded : Lent(s) = Lent(t) => s = t
    OBVIOUS
  <2> HIDE DEF Lent
  <2> QED
    BY <1>2, <1>3, <2>1
<1>5. RetiredSources(new)
        = RetiredSources(cc) \cup {Lent(s) : s \in DOMAIN cc.loaded \ R}
  <2>1. \A s : /\ Retired(s, cc.loaded[s]).skin_id = s
               /\ Retired(s, cc.loaded[s]).resources = cc.loaded[s].resources
    BY DEF Retired
  <2> QED
    BY <1>1, <2>1 DEF RetiredSources, Retirements
<1> QED
  BY <1>2, <1>3, <1>4, <1>5 DEF new

\* A ped that draws with a geometry wears a clone of it.
LEMMA WornIsClone ==
  ASSUME NEW p \in PlayerIds, NEW g \in Geometries, WornGeometries(peds)[p] = g
  PROVE  /\ p \in Streamed
         /\ IsClone(peds[p].object)
         /\ peds[p].object.geometry = g
  BY CacheAssumption DEF WornGeometries, Streamed

\* A clean-up releases idle sources only: the source that knows a worn clone is
\* the one that has its geometry.
LEMMA CleanupReleasesIdle ==
  ASSUME TypeOK, NEW cc, IsCache(cc), OneSource(cc),
         \A o \in LiveObjects : IsClone(o) => Recorded(cc, o),
         NEW new \in CleanupOutcomes(cc)
  PROVE  /\ LoadedSources(new) = LoadedSources(cc)
         /\ RetiredSources(new) \subseteq RetiredSources(cc)
         /\ \A x \in RetiredSources(cc) \ RetiredSources(new) :
              \A p \in PlayerIds : WornGeometries(peds)[p] # x.resources
<1>1. /\ new.retired \subseteq cc.retired
      /\ DOMAIN new.loaded = DOMAIN cc.loaded
      /\ \A s \in DOMAIN cc.loaded :
           new.loaded[s].resources = cc.loaded[s].resources
  BY CleanupReleases
<1>2. /\ LoadedSources(new) = LoadedSources(cc)
      /\ RetiredSources(new) \subseteq RetiredSources(cc)
  BY <1>1 DEF LoadedSources, RetiredSources
<1>3. ASSUME NEW x \in RetiredSources(cc) \ RetiredSources(new),
             NEW p \in PlayerIds, WornGeometries(peds)[p] = x.resources
      PROVE  FALSE
  <2>1. PICK r \in cc.retired \ new.retired : x.resources = r.resources
    BY <1>3 DEF RetiredSources
  <2>2. r.resources \in Geometries
    BY DEF IsCache, RetiredSource
  <2>3. /\ peds[p].object \in LiveObjects
        /\ IsClone(peds[p].object)
        /\ peds[p].object.geometry = r.resources
    BY <1>3, <2>1, <2>2, WornIsClone DEF LiveObjects
  <2>4. Recorded(new, peds[p].object)
    BY <2>3, CleanupKeepsRecord
  <2> QED
    BY <1>1, <2>1, <2>3, <2>4 DEF Recorded, OneSource
<1> QED
  BY <1>2, <1>3

\* Sources that only go, idle where they go for good, are a Retire.
LEMMA GoingIsRetire ==
  ASSUME WornGeometries(peds') = WornGeometries(peds),
         LoadedSources(cache') \subseteq LoadedSources(cache),
         NEW waiting,
         waiting = RetiredSources(cache)
                     \cup (LoadedSources(cache) \ LoadedSources(cache')),
         RetiredSources(cache') \subseteq waiting,
         \A x \in waiting \ RetiredSources(cache') :
           \A p \in PlayerIds : WornGeometries(peds)[p] # x.resources
  PROVE  Lifecycle!Retire
<1> DEFINE going == LoadedSources(cache) \ LoadedSources(cache')
           released == waiting \ RetiredSources(cache')
<1>1. /\ going \in SUBSET LoadedSources(cache)
      /\ LoadedSources(cache') = LoadedSources(cache) \ going
  OBVIOUS
<1>2. /\ released \in SUBSET (RetiredSources(cache) \cup going)
      /\ \A x \in released : Lifecycle!Idle(x)
      /\ RetiredSources(cache') = (RetiredSources(cache) \cup going) \ released
  BY DEF Lifecycle!Idle
<1> QED
  BY <1>1, <1>2 DEF Lifecycle!Retire, LoadedSources, RetiredSources, WornGeometries

\* What source_for does to the sources: it retires some, or none, or prepares
\* one that every ped and every other source leaves alone.
Prepares ==
  /\ RetiredSources(cache') = RetiredSources(cache)
  /\ \/ LoadedSources(cache') = LoadedSources(cache)
     \/ \E source \in Lifecycle!Source : Lifecycle!Prepare(source)

Moves ==
  /\ LoadedSources(cache') \subseteq LoadedSources(cache)
  /\ RetiredSources(cache')
       = RetiredSources(cache) \cup (LoadedSources(cache) \ LoadedSources(cache'))

LEMMA LookupMovesOrPrepares ==
  ASSUME TypeOK, NEW s \in Skins, NEW l \in Lookups(s),
         LoadedSources(cache') = LoadedSources(l.cache),
         RetiredSources(cache') = RetiredSources(l.cache)
  PROVE  Prepares \/ (l.kind = "RestoreRequired" /\ Moves)
<1>1. CASE SameSources(cache, l.cache)
  BY <1>1 DEF SameSources, Prepares, LoadedSources, RetiredSources
<1>2. CASE SameSources(RetireUnreferenced(cache, Skins \ {s}), l.cache)
  <2> DEFINE new == RetireUnreferenced(cache, Skins \ {s})
  <2>1. /\ LoadedSources(l.cache) = LoadedSources(new)
        /\ RetiredSources(l.cache) = RetiredSources(new)
    BY <1>2 DEF SameSources, LoadedSources, RetiredSources
  <2> HIDE DEF new
  <2>2. Moves
    BY <2>1, RetireMoves DEF Moves, new
  <2>3. l.kind = "RestoreRequired" \/ SameSources(cache, l.cache)
            \/ s \notin DOMAIN cache.loaded
    BY LookupsCases DEF SourceLoaded
  <2>4. CASE s \notin DOMAIN cache.loaded
    <3>1. DOMAIN cache.loaded \subseteq Skins
      BY DEF TypeOK, IsCache, IsMap
    <3>2. DOMAIN new.loaded = DOMAIN cache.loaded
          /\ \A t \in DOMAIN cache.loaded : new.loaded[t] = cache.loaded[t]
      BY <2>4, <3>1 DEF new, RetireUnreferenced, CacheOf, Restrict
    <3>3. LoadedSources(new) = LoadedSources(cache)
      BY <3>2 DEF LoadedSources
    <3> QED
      BY <2>1, <2>2, <3>3 DEF Moves, Prepares
  <2> QED
    BY <1>1, <2>2, <2>3, <2>4
<1>3. ASSUME NEW g \in FreeGeometries, SourceLoaded(cache, s, g, l.cache)
      PROVE  Prepares
  <2> DEFINE source == [skin_id |-> s, resources |-> g]
  <2>1. /\ g \in Geometries
        /\ \A t \in DOMAIN cache.loaded : cache.loaded[t].resources # g
        /\ \A r \in cache.retired : r.resources # g
        /\ \A p \in Streamed : peds[p].object.geometry # g
    BY DEF FreeGeometries, OwnedGeometries
  <2>2. ASSUME NEW p \in PlayerIds, WornGeometries(peds)[p] = g PROVE FALSE
    BY <2>1, <2>2, WornIsClone
  <2>3. /\ \A other \in LoadedSources(cache) :
             other.skin_id # s /\ other.resources # g
        /\ \A other \in RetiredSources(cache) :
             other.skin_id # s /\ other.resources # g
    <3>1. s \notin DOMAIN cache.loaded /\ \A r \in cache.retired : r.skin_id # s
      BY <1>3 DEF SourceLoaded
    <3> QED
      BY <2>1, <3>1 DEF LoadedSources, RetiredSources
  <2>4. LoadedSources(l.cache) = LoadedSources(cache) \cup {source}
    BY <1>3 DEF SourceLoaded, LoadedSources
  <2>5. RetiredSources(l.cache) = RetiredSources(cache)
    BY <1>3 DEF SourceLoaded, RetiredSources
  <2>6. source \in Lifecycle!Source
    BY <2>1 DEF Lifecycle!Source
  <2>7. LoadedSources(cache)' = LoadedSources(cache')
    BY DEF LoadedSources
  <2>8. Lifecycle!Prepare(source)
    BY <2>2, <2>3, <2>4, <2>6, <2>7 DEF Lifecycle!Prepare, Lifecycle!Idle
  <2> QED
    BY <2>5, <2>6, <2>8 DEF Prepares
<1> QED
  BY <1>1, <1>2, <1>3, LookupsCases

\* A step that changes the ped of one player at most.
OnlyPed(p) ==
  \A q \in PlayerIds \ {p} :
    /\ q \in DOMAIN peds' <=> q \in Streamed
    /\ q \in Streamed => peds'[q].object = peds[q].object

LEMMA OnlyWorn ==
  ASSUME NEW p \in PlayerIds, OnlyPed(p)
  PROVE  WornGeometries(peds')
           = [WornGeometries(peds) EXCEPT ![p] = WornGeometries(peds')[p]]
<1>1. \A q \in PlayerIds \ {p} : WornGeometries(peds')[q] = WornGeometries(peds)[q]
  BY DEF OnlyPed, WornGeometries, Streamed
<1>2. /\ WornGeometries(peds') \in [PlayerIds -> {WornGeometries(peds')[q] : q \in PlayerIds}]
      /\ DOMAIN WornGeometries(peds) = PlayerIds
  BY DEF WornGeometries
<1>3. WornGeometries(peds') = [q \in PlayerIds |-> WornGeometries(peds')[q]]
  BY <1>2
<1> QED
  BY <1>1, <1>2, <1>3

\* A ped that loses its clone, or keeps what it has.
TakesOff(p) ==
  \/ WornGeometries(peds') = WornGeometries(peds)
  \/ WornGeometries(peds') = [WornGeometries(peds) EXCEPT ![p] = NullAddress]

LEMMA NoCloneTakesOff ==
  ASSUME NEW p \in PlayerIds, OnlyPed(p),
         p \in DOMAIN peds' => ~ IsClone(peds'[p].object)
  PROVE  TakesOff(p)
<1>1. WornGeometries(peds')[p] = NullAddress
  BY DEF WornGeometries
<1> QED
  BY <1>1, OnlyWorn DEF TakesOff

\* Rebuilding a ped, or leaving it bare, lends it nothing.
LEMMA RebuiltTakesOff ==
  ASSUME TypeOK, NEW p \in Streamed, NEW m \in Models,
         peds' \in RebuiltPeds(p, m) \cup {BarePeds(p), peds}
  PROVE  p \in PlayerIds /\ TakesOff(p)
<1>0. p \in PlayerIds /\ DOMAIN peds' = Streamed
  BY RebuiltType DEF TypeOK, IsMap, Streamed
<1>1. CASE peds' = peds
  BY <1>0, <1>1 DEF TakesOff
<1>2. OnlyPed(p)
  BY <1>0 DEF OnlyPed, RebuiltPeds, BarePeds, TypeOK, IsMap, Streamed
<1>3. CASE peds' = BarePeds(p)
  <2>1. peds'[p].object = NullObject
    BY <1>3 DEF BarePeds, TypeOK, IsMap, Streamed, Ped
  <2> QED
    BY <1>0, <1>2, <2>1, NotAClone, NoCloneTakesOff
<1>4. CASE peds' \in RebuiltPeds(p, m)
  <2>1. PICK a \in FreeAddresses(p) :
          peds' = [peds EXCEPT ![p].model = m, ![p].object = OrdinaryObject(a, m)]
    BY <1>4 DEF RebuiltPeds
  <2>2. p \in DOMAIN peds /\ peds[p] \in Ped
    BY DEF TypeOK, IsMap, Streamed
  <2>3. peds'[p].object = OrdinaryObject(a, m)
    BY <2>1, <2>2 DEF Ped
  <2>4. ~ IsClone(peds'[p].object)
    BY <2>3, NotAClone DEF FreeAddresses
  <2> QED
    BY <1>0, <1>2, <2>4, NoCloneTakesOff
<1> QED
  BY <1>0, <1>1, <1>3, <1>4

\* restore_server_model lends nothing.
LEMMA RestoreTakesOff ==
  ASSUME TypeOK, NEW p \in Streamed, NEW records, NEW failures,
         IsMap(records, PlayerIds, AppliedPlayer),
         RestoreServerModel(p, records, failures)
  PROVE  p \in PlayerIds /\ TakesOff(p)
<1>0. p \in PlayerIds
  BY DEF TypeOK, IsMap, Streamed
<1>1. CASE peds' = peds
  BY <1>0, <1>1 DEF TakesOff
<1>2. CASE /\ p \in DOMAIN records
           /\ peds' \in RebuiltPeds(p, records[p].server_model_id)
                         \cup {BarePeds(p), peds}
  <2>1. records[p].server_model_id \in Models
    BY <1>2 DEF IsMap, AppliedPlayer
  <2> QED
    BY <1>2, <2>1, RebuiltTakesOff
<1> QED
  BY <1>1, <1>2 DEF RestoreServerModel, RestoreFails, RestoreSucceeds

\* A visit of one ped, with or without a source prepared for it.
LEMMA IsVisit ==
  ASSUME NEW p \in PlayerIds, Prepares,
         \/ TakesOff(p)
         \/ \E source \in LoadedSources(cache') :
              WornGeometries(peds')
                = [WornGeometries(peds) EXCEPT ![p] = source.resources]
  PROVE  Lifecycle!Visit
  BY DEF Prepares, TakesOff, Lifecycle!Visit, LoadedSources, RetiredSources,
         WornGeometries

\* A cache that stays prepares nothing.
LEMMA SamePrepares ==
  ASSUME cache' = cache
  PROVE  Prepares
  BY DEF Prepares

\* The game lends nothing.
LEMMA GameIsVisit ==
  ASSUME TypeOK, Game
  PROVE  Lifecycle!Visit
<1>1. Prepares
  BY SamePrepares
  DEF Game, StreamIn, StreamOut, ServerReset, DropObject, ChangeModelInPlace,
      GameStep, runtimeVars
<1>2. PICK p \in PlayerIds :
        \/ StreamIn(p) \/ StreamOut(p) \/ ServerReset(p)
        \/ DropObject(p) \/ ChangeModelInPlace(p)
  BY DEF Game
<1>3. CASE StreamIn(p)
  <2>1. PICK name \in Names, model \in Models, a \in FreeAddresses(p) :
          peds' = Put(peds, p, [ name   |-> name,
                                 model  |-> model,
                                 object |-> OrdinaryObject(a, model) ])
    BY <1>3 DEF StreamIn
  <2>2. peds'[p].object = OrdinaryObject(a, model) /\ OnlyPed(p)
    BY <2>1 DEF Put, Streamed, OnlyPed
  <2>3. ~ IsClone(peds'[p].object)
    BY <2>2, NotAClone DEF FreeAddresses
  <2> QED
    BY <1>1, <2>2, <2>3, NoCloneTakesOff, IsVisit
<1>4. CASE StreamOut(p)
  <2>1. OnlyPed(p) /\ p \notin DOMAIN peds'
    BY <1>4 DEF StreamOut, Without, Restrict, OnlyPed, Streamed
  <2> QED
    BY <1>1, <2>1, NoCloneTakesOff, IsVisit
<1>5. CASE ServerReset(p)
  <2>1. PICK m \in Models, a \in FreeAddresses(p) :
          peds' = [peds EXCEPT ![p].model = m, ![p].object = OrdinaryObject(a, m)]
    BY <1>5 DEF ServerReset
  <2>2. p \in Streamed /\ peds' \in RebuiltPeds(p, m)
    BY <1>5, <2>1 DEF ServerReset, RebuiltPeds
  <2> QED
    BY <1>1, <2>2, RebuiltTakesOff, IsVisit
<1>6. CASE DropObject(p)
  <2>1. p \in Streamed /\ peds[p].model \in Models
    BY <1>6 DEF DropObject, TypeOK, IsMap, Streamed, Ped
  <2>2. peds' = BarePeds(p)
    BY <1>6 DEF DropObject, BarePeds
  <2> QED
    BY <1>1, <2>1, <2>2, RebuiltTakesOff, IsVisit
<1>7. CASE ChangeModelInPlace(p)
  <2>1. PICK m \in Models : peds' = [peds EXCEPT ![p].model = m]
    BY <1>7 DEF ChangeModelInPlace
  <2>2. /\ DOMAIN peds' = Streamed
        /\ \A q \in Streamed : peds'[q].object = peds[q].object
    BY <2>1 DEF TypeOK, IsMap, Streamed, Ped
  <2>3. WornGeometries(peds') = WornGeometries(peds)
    BY <2>2 DEF WornGeometries, Streamed
  <2> QED
    BY <1>1, <2>3, IsVisit DEF TakesOff
<1> QED
  BY <1>2, <1>3, <1>4, <1>5, <1>6, <1>7

\* The frame around the visits retires and releases.
LEMMA FrameIsRetire ==
  ASSUME TypeOK, OneSource(cache), CloneIsRecorded,
         Reload \/ ScanNothingToDo \/ ScanUnreadable \/ BeginScan \/ EndScan
  PROVE  Lifecycle!Retire
<1>1. /\ IsCache(cache)
      /\ peds' = peds
      /\ \A o \in LiveObjects : IsClone(o) => Recorded(cache, o)
  BY DEF TypeOK, Reload, ScanNothingToDo, ScanUnreadable, BeginScan, EndScan,
         CloneIsRecorded, LiveObjects
<1>2. ASSUME NEW cc, cc = cache \/ \E R : cc = RetireUnreferenced(cache, R),
             cache' \in CleanupOutcomes(cc)
      PROVE  Lifecycle!Retire
  <2>1. /\ IsCache(cc)
        /\ OneSource(cc)
        /\ \A o \in LiveObjects : IsClone(o) => Recorded(cc, o)
    BY <1>1, <1>2, RetireType, RetireKeepsOneSource, RetireKeepsRecord
  <2>2. /\ LoadedSources(cc) \subseteq LoadedSources(cache)
        /\ RetiredSources(cc)
             = RetiredSources(cache) \cup (LoadedSources(cache) \ LoadedSources(cc))
    BY <1>2, RetireMoves
  <2>3. /\ LoadedSources(cache') = LoadedSources(cc)
        /\ RetiredSources(cache') \subseteq RetiredSources(cc)
        /\ \A x \in RetiredSources(cc) \ RetiredSources(cache') :
             \A p \in PlayerIds : WornGeometries(peds)[p] # x.resources
    BY <1>2, <2>1, CleanupReleasesIdle
  <2> QED
    BY <1>1, <2>2, <2>3, GoingIsRetire
<1>4. cache \in CleanupOutcomes(cache)
      /\ \A R : RetireUnreferenced(cache, R)
                  \in CleanupOutcomes(RetireUnreferenced(cache, R))
  BY DEF CleanupOutcomes
<1>5. CASE Reload
  BY <1>2, <1>4, <1>5 DEF Reload
<1>6. CASE ScanNothingToDo
  BY <1>2, <1>6 DEF ScanNothingToDo
<1>7. CASE ScanUnreadable
  BY <1>2, <1>7 DEF ScanUnreadable
<1>8. CASE BeginScan
  BY <1>2, <1>4, <1>8 DEF BeginScan, runtimeVars
<1>9. CASE EndScan
  BY <1>2, <1>9 DEF EndScan, RetainedCache
<1> QED
  BY <1>5, <1>6, <1>7, <1>8, <1>9

\* A visit lends what it has applied, or takes off what it has restored; a
\* source that has to be restored first retires.
LEMMA VisitIsStep ==
  ASSUME TypeOK, ~ UnverifiedInstalls, NEW p \in PlayerIds, Visit(p)
  PROVE  Lifecycle!Next
<1>0. p \in Streamed
  BY DEF TypeOK, Visit, VisitUnreadable, VisitUnmatched, VisitSwitched,
         VisitReady, VisitApply, VisitApplyFails, VisitRestoreRequired,
         VisitUnavailable, Visiting, Streamed
<1>s. \A s \in ProfilesFor(p) : \A l \in Lookups(s) :
        /\ s \in Skins
        /\ IsCache(l.cache)
        /\ l.kind = "Ready" => s \in DOMAIN l.cache.loaded
        /\ \/ cache' = l.cache
           \/ \E clone : cache' = RecordClone(l.cache, s, clone)
           => Prepares \/ (l.kind = "RestoreRequired" /\ Moves)
  <2> SUFFICES ASSUME NEW s \in ProfilesFor(p), NEW l \in Lookups(s)
               PROVE  /\ s \in Skins
                      /\ IsCache(l.cache)
                      /\ l.kind = "Ready" => s \in DOMAIN l.cache.loaded
                      /\ \/ cache' = l.cache
                         \/ \E clone : cache' = RecordClone(l.cache, s, clone)
                         => Prepares \/ (l.kind = "RestoreRequired" /\ Moves)
    OBVIOUS
  <2>1. /\ s \in Skins
        /\ IsCache(l.cache)
        /\ l.kind = "Ready" => s \in DOMAIN l.cache.loaded
    BY LookupsType DEF ProfilesFor
  <2>2. ASSUME NEW new,
               new = l.cache \/ \E clone : new = RecordClone(l.cache, s, clone)
        PROVE  /\ LoadedSources(new) = LoadedSources(l.cache)
               /\ RetiredSources(new) = RetiredSources(l.cache)
    BY <2>1, <2>2, RecordCloneAddsNone DEF LoadedSources, RetiredSources
  <2> QED
    BY <2>1, <2>2, LookupMovesOrPrepares
<1>1. CASE VisitUnreadable(p)
  BY <1>1, SamePrepares, IsVisit DEF VisitUnreadable, TakesOff, Lifecycle!Next
<1>2. CASE VisitUnmatched(p) \/ VisitSwitched(p)
  <2>1. TakesOff(p)
    BY <1>0, <1>2, KnownType, RestoreTakesOff DEF VisitUnmatched, VisitSwitched
  <2>2. cache' = cache
    BY <1>2 DEF VisitUnmatched, VisitSwitched
  <2> QED
    BY <2>1, <2>2, SamePrepares, IsVisit DEF Lifecycle!Next
<1>3. CASE VisitReady(p) \/ VisitUnavailable(p)
  <2>1. PICK s, l :
          /\ s \in ProfilesFor(p) /\ l \in Lookups(s)
          /\ l.kind # "RestoreRequired"
          /\ cache' = l.cache
    BY <1>3 DEF VisitReady, VisitUnavailable
  <2>2. Prepares
    BY <1>s, <2>1
  <2>3. TakesOff(p)
    BY <1>3 DEF VisitReady, VisitUnavailable, TakesOff
  <2> QED
    BY <2>2, <2>3, IsVisit DEF Lifecycle!Next
<1>4. CASE VisitRestoreRequired(p)
  <2>1. PICK s, l : s \in ProfilesFor(p) /\ l \in Lookups(s) /\ cache' = l.cache
    BY <1>4 DEF VisitRestoreRequired
  <2>2. peds' = peds
    BY <1>4 DEF VisitRestoreRequired
  <2>3. CASE Prepares
    BY <2>2, <2>3, IsVisit DEF TakesOff, Lifecycle!Next
  <2>4. CASE Moves
    BY <2>2, <2>4, GoingIsRetire DEF Moves, Lifecycle!Next
  <2> QED
    BY <1>s, <2>1, <2>3, <2>4
<1>5. CASE VisitApply(p)
  <2>1. PICK s, l :
          /\ s \in ProfilesFor(p) /\ l \in Lookups(s)
          /\ l.kind = "Ready"
          /\ \E clone \in ClonesFor(p, l.cache.loaded[s]) :
               /\ peds' = [peds EXCEPT ![p].object = clone]
               /\ cache' = RecordClone(l.cache, s, clone)
    BY <1>5 DEF VisitApply, ToApply
  <2>2. PICK clone \in ClonesFor(p, l.cache.loaded[s]) :
          /\ peds' = [peds EXCEPT ![p].object = clone]
          /\ cache' = RecordClone(l.cache, s, clone)
    BY <2>1
  <2>3. Prepares
    BY <1>s, <2>1, <2>2
  <2>4. /\ s \in DOMAIN cache'.loaded
        /\ cache'.loaded[s].resources = l.cache.loaded[s].resources
        /\ l.cache.loaded[s].resources \in Geometries
    BY <1>s, <2>1, <2>2, RecordCloneAddsNone DEF IsCache, IsMap, LoadedSource
  <2>5. OnlyPed(p) /\ DOMAIN peds' = Streamed /\ peds'[p].object = clone
    BY <1>0, <2>2 DEF OnlyPed, TypeOK, IsMap, Streamed, Ped
  <2>6. WornGeometries(peds')[p] = l.cache.loaded[s].resources
    BY <1>0, <2>4, <2>5 DEF WornGeometries, ClonesFor, IsClone, Streamed
  <2>7. WornGeometries(peds')
          = [WornGeometries(peds) EXCEPT ![p] = l.cache.loaded[s].resources]
    BY <2>5, <2>6, OnlyWorn
  <2>8. PICK source \in LoadedSources(cache') :
          source.resources = l.cache.loaded[s].resources
    <3>1. \A c : \A t \in DOMAIN c.loaded :
            [skin_id |-> t, resources |-> c.loaded[t].resources] \in LoadedSources(c)
      BY DEF LoadedSources
    <3> QED
      BY <2>4, <3>1
  <2>9. WornGeometries(peds')
          = [WornGeometries(peds) EXCEPT ![p] = source.resources]
    BY <2>7, <2>8
  <2>10. Lifecycle!Visit
    BY <2>3, <2>9, IsVisit
  <2> QED
    BY <2>10 DEF Lifecycle!Next
<1>6. CASE VisitApplyFails(p)
  <2>1. PICK s, l :
          /\ s \in ProfilesFor(p) /\ l \in Lookups(s)
          /\ l.kind = "Ready"
          /\ cache' = l.cache
          /\ peds' \in FailedApplyPeds(p, l.cache.loaded[s])
    BY <1>6 DEF VisitApplyFails, ToApply
  <2>2. Prepares
    BY <1>s, <2>1
  <2>3. peds' \in RebuiltPeds(p, peds[p].model) \cup {BarePeds(p), peds}
    BY <2>1 DEF FailedApplyPeds
  <2>4. peds[p].model \in Models
    BY <1>0 DEF TypeOK, IsMap, Ped, Streamed
  <2> QED
    BY <1>0, <2>2, <2>3, <2>4, RebuiltTakesOff, IsVisit DEF Lifecycle!Next
<1> QED
  BY <1>1, <1>2, <1>3, <1>4, <1>5, <1>6 DEF Visit

\* The runtime implements SourceLifecycle, provided that an installed clone is
\* never left behind by a verification and a restore that both fail.
THEOREM RuntimeImplementsLifecycle ==
  ASSUME ~ UnverifiedInstalls
  PROVE  Spec => SourcesHaveLifecycle
<1>1. Init => Lifecycle!Init
  BY EmptyMapType
  DEF Init, EmptyCache, CacheOf, Lifecycle!Init, LoadedSources, RetiredSources,
      WornGeometries
<1>2. TypeOK /\ OneSource(cache) /\ CloneIsRecorded /\ [Next]_vars
        => [Lifecycle!Next]_(Lifecycle!lifecycleVars)
  <2> SUFFICES ASSUME TypeOK, OneSource(cache), CloneIsRecorded, [Next]_vars
               PROVE  [Lifecycle!Next]_(Lifecycle!lifecycleVars)
    OBVIOUS
  <2>1. CASE UNCHANGED vars
    <3>1. cache' = cache /\ peds' = peds
      BY <2>1 DEF vars
    <3> QED
      BY <3>1 DEF Lifecycle!lifecycleVars, LoadedSources, RetiredSources,
                  WornGeometries, IsClone
  <2>2. CASE Game
    BY <2>2, GameIsVisit DEF Lifecycle!Next
  <2>3. CASE Reload \/ ScanNothingToDo \/ ScanUnreadable \/ BeginScan \/ EndScan
    BY <2>3, FrameIsRetire DEF Lifecycle!Next
  <2>4. ASSUME NEW p \in PlayerIds, Visit(p) PROVE Lifecycle!Next
    BY <2>4, VisitIsStep
  <2>5. ASSUME NEW q \in PlayerIds, RestoreUser(q) PROVE Lifecycle!Next
    <3>1. q \in Streamed /\ cache' = cache
      BY <2>5 DEF TypeOK, RestoreUser
    <3>2. TakesOff(q)
      BY <2>5, <3>1, RestoreTakesOff DEF TypeOK, RestoreUser
    <3> QED
      BY <3>1, <3>2, SamePrepares, IsVisit DEF Lifecycle!Next
  <2> QED
    BY <2>1, <2>2, <2>3, <2>4, <2>5 DEF Next, Frame
<1> QED
  BY <1>1, <1>2, TypeCorrect, OneSourceHolds, CloneIsRecordedAlways, PTL
  DEF Spec, SourcesHaveLifecycle, Lifecycle!Spec

-----------------------------------------------------------------------------
(***************************************************************************)
(* Every worn clone is the one Runtime remembers.  The invariant adds the  *)
(* model: where no model id changes under a clump, the record of a worn    *)
(* clone is never taken for a server reset.                                *)
(***************************************************************************)
Sources(c) == LoadedSources(c) \cup RetiredSources(c)

RememberedAs(p, ped, records, c) ==
  IsClone(ped.object) /\ ~ (InPlaceModelChanges /\ p \notin DOMAIN records) =>
    /\ p \in DOMAIN records
    /\ records[p].render_object = ped.object
    /\ [skin_id |-> records[p].skin_id, resources |-> ped.object.geometry]
         \in Sources(c)
    /\ InPlaceModelChanges \/ records[p].server_model_id = ped.model

AllRemembered(thePeds, records, c) ==
  \A p \in DOMAIN thePeds : RememberedAs(p, thePeds[p], records, c)

\* The sources of what is worn are still there.
KeepsWorn(old, new) ==
  \A p \in Streamed : \A s :
    LET source == [skin_id |-> s, resources |-> peds[p].object.geometry]
    IN  IsClone(peds[p].object) /\ source \in Sources(old) => source \in Sources(new)

\* A retirement keeps every source.
LEMMA RetireKeepsWorn ==
  ASSUME NEW cc, NEW R
  PROVE  KeepsWorn(cc, RetireUnreferenced(cc, R))
<1>1. Sources(RetireUnreferenced(cc, R)) = Sources(cc)
  BY RetireMoves DEF Sources
<1> QED
  BY <1>1 DEF KeepsWorn

\* A clean-up keeps the sources of what is worn.
LEMMA CleanupKeepsWorn ==
  ASSUME TypeOK, NEW cc, IsCache(cc), OneSource(cc),
         \A o \in LiveObjects : IsClone(o) => Recorded(cc, o),
         NEW new \in CleanupOutcomes(cc)
  PROVE  KeepsWorn(cc, new)
<1>1. SUFFICES ASSUME NEW p \in Streamed, IsClone(peds[p].object), NEW s,
                      NEW source,
                      source = [skin_id |-> s, resources |-> peds[p].object.geometry],
                      source \in Sources(cc)
               PROVE  source \in Sources(new)
  BY DEF KeepsWorn
<1>2. /\ LoadedSources(new) = LoadedSources(cc)
      /\ \A x \in RetiredSources(cc) \ RetiredSources(new) :
           \A q \in PlayerIds : WornGeometries(peds)[q] # x.resources
  BY CleanupReleasesIdle
<1>3. p \in PlayerIds /\ WornGeometries(peds)[p] = source.resources
  BY <1>1 DEF WornGeometries, Streamed, TypeOK, IsMap
<1> QED
  BY <1>1, <1>2, <1>3 DEF Sources

\* So do the answers of source_for, and record_clone.
LEMMA LookupKeepsWorn ==
  ASSUME TypeOK, NEW p, NEW s \in ProfilesFor(p), NEW l \in Lookups(s)
  PROVE  /\ KeepsWorn(cache, l.cache)
         /\ \A clone : KeepsWorn(cache, RecordClone(l.cache, s, clone))
<1>0. IsCache(l.cache)
  BY LookupsType DEF ProfilesFor
<1>1. Sources(cache) \subseteq Sources(l.cache)
  <2>1. CASE SameSources(cache, l.cache)
    BY <2>1 DEF SameSources, Sources, LoadedSources, RetiredSources
  <2>2. CASE SameSources(RetireUnreferenced(cache, Skins \ {s}), l.cache)
    <3>1. Sources(l.cache) = Sources(RetireUnreferenced(cache, Skins \ {s}))
      BY <2>2 DEF SameSources, Sources, LoadedSources, RetiredSources
    <3> QED
      BY <3>1, RetireMoves DEF Sources
  <2>3. ASSUME NEW g \in FreeGeometries, SourceLoaded(cache, s, g, l.cache)
        PROVE  Sources(cache) \subseteq Sources(l.cache)
    BY <2>3 DEF SourceLoaded, Sources, LoadedSources, RetiredSources
  <2> QED
    BY <2>1, <2>2, <2>3, LookupsCases
<1>2. \A clone : Sources(RecordClone(l.cache, s, clone)) = Sources(l.cache)
  BY <1>0, RecordCloneAddsNone DEF Sources, LoadedSources, RetiredSources
<1> QED
  BY <1>1, <1>2 DEF KeepsWorn

\* What stays on a ped stays remembered while its record and source stay.
LEMMA StaysRemembered ==
  ASSUME NEW p \in Streamed, NEW records, NEW c, NEW new, KeepsWorn(c, new),
         RememberedAs(p, peds[p], records, c)
  PROVE  RememberedAs(p, peds[p], records, new)
  BY DEF RememberedAs, KeepsWorn

\* A step that concerns one ped keeps the others remembered.
LEMMA OthersStayRemembered ==
  ASSUME AllRemembered(peds, applied, cache), NEW p, KeepsWorn(cache, cache'),
         DOMAIN peds' = Streamed,
         \A q \in Streamed \ {p} : /\ peds'[q] = peds[q]
                                   /\ q \in DOMAIN applied' <=> q \in DOMAIN applied
                                   /\ q \in DOMAIN applied => applied'[q] = applied[q],
         p \in Streamed => RememberedAs(p, peds'[p], applied', cache')
  PROVE  AllRemembered(peds', applied', cache')
<1>1. ASSUME NEW q \in Streamed \ {p}
      PROVE  RememberedAs(q, peds'[q], applied', cache')
  <2>1. RememberedAs(q, peds[q], applied, cache')
    BY StaysRemembered DEF AllRemembered, Streamed
  <2> QED
    BY <2>1 DEF RememberedAs
<1> QED
  BY <1>1 DEF AllRemembered

\* The record of a worn clone is taken for a server reset only where a model id
\* may change under a clump.
LEMMA KnownStaysRemembered ==
  ASSUME NEW p, NEW ped, ped = peds[p], NEW c,
         RememberedAs(p, ped, applied, c)
  PROVE  RememberedAs(p, ped, KnownApplied(p), c)
<1>1. p \notin DOMAIN Without(applied, p)
  BY DEF Without, Restrict
<1> QED
  BY <1>1 DEF RememberedAs, KnownApplied, ServerResetSeen, Superseded

\* The reset detection looks at one record.
LEMMA KnownOthers ==
  ASSUME NEW p, NEW q, q # p
  PROVE  /\ q \in DOMAIN KnownApplied(p) <=> q \in DOMAIN applied
         /\ q \in DOMAIN applied => KnownApplied(p)[q] = applied[q]
  BY DEF KnownApplied, Without, Restrict

\* restore_server_model drops the record of a clone only with the clone, or
\* where the clone is not what was recorded.
LEMMA RestoreRemembers ==
  ASSUME TypeOK, NEW p \in Streamed, NEW records, NEW failures,
         IsMap(records, PlayerIds, AppliedPlayer),
         RestoreServerModel(p, records, failures),
         NEW c, RememberedAs(p, peds[p], records, c),
         InPlaceModelChanges \/ p \notin DOMAIN records
           \/ (IsClone(peds[p].object) => ~ Superseded(p, records))
  PROVE  RememberedAs(p, peds'[p], applied', c)
<1>1. p \in DOMAIN peds' /\ peds'[p].model = peds[p].model
  BY RestoreKeepsModels
<1>2. CASE ~ IsClone(peds'[p].object)
  BY <1>2 DEF RememberedAs
<1>3. CASE IsClone(peds'[p].object)
  <2>1. peds'[p].object = peds[p].object
    BY <1>1, <1>3, RestoreNoNewClone DEF NoNewClone
  <2>2. CASE applied' = records
    BY <1>1, <2>1, <2>2, <1>3 DEF RememberedAs
  <2>3. CASE /\ p \in DOMAIN records
             /\ RestoreSucceeds(p, records, failures)
    <3>1. p \notin DOMAIN applied'
      BY <2>3 DEF RestoreSucceeds, Forget, Without, Restrict
    <3>2. CASE InPlaceModelChanges
      BY <3>1, <3>2 DEF RememberedAs
    <3>3. CASE ~ Superseded(p, records)
      <4>1. PICK a \in FreeAddresses(p) :
              peds' = [peds EXCEPT ![p].model = records[p].server_model_id,
                                   ![p].object =
                                     OrdinaryObject(a, records[p].server_model_id)]
        BY <2>3, <3>3 DEF RestoreSucceeds, RebuiltPeds
      <4>2. peds'[p].object = OrdinaryObject(a, records[p].server_model_id)
        BY <4>1 DEF TypeOK, IsMap, Streamed, Ped
      <4>3. records[p].server_model_id \in Models
        BY <2>3 DEF IsMap, AppliedPlayer
      <4> QED
        BY <1>3, <4>2, <4>3, NotAClone DEF FreeAddresses
    <3> QED
      BY <1>3, <2>1, <2>3, <3>2, <3>3 DEF RememberedAs
  <2> QED
    BY <2>2, <2>3 DEF RestoreServerModel, RestoreFails
<1> QED
  BY <1>2, <1>3

\* Only a model that changes in place changes under a clone.
LEMMA GameRemembers ==
  ASSUME TypeOK, AllRemembered(peds, applied, cache), Game
  PROVE  AllRemembered(peds', applied', cache')
<1>1. applied' = applied /\ cache' = cache
  BY DEF Game, StreamIn, StreamOut, ServerReset, DropObject,
         ChangeModelInPlace, GameStep, runtimeVars
<1>2. SUFFICES ASSUME NEW q \in DOMAIN peds', IsClone(peds'[q].object)
               PROVE  /\ q \in Streamed
                      /\ peds'[q].object = peds[q].object
                      /\ InPlaceModelChanges \/ peds'[q].model = peds[q].model
  BY <1>1 DEF AllRemembered, RememberedAs, Streamed
<1>3. PICK p \in PlayerIds :
        \/ StreamIn(p) \/ StreamOut(p) \/ ServerReset(p)
        \/ DropObject(p) \/ ChangeModelInPlace(p)
  BY DEF Game
<1>4. CASE StreamIn(p)
  <2>1. PICK name \in Names, model \in Models, a \in FreeAddresses(p) :
          peds' = Put(peds, p, [ name   |-> name,
                                 model  |-> model,
                                 object |-> OrdinaryObject(a, model) ])
    BY <1>4 DEF StreamIn
  <2>2. /\ peds'[p].object = OrdinaryObject(a, model)
        /\ DOMAIN peds' = Streamed \cup {p}
        /\ \A r \in Streamed \ {p} : peds'[r] = peds[r]
    BY <2>1 DEF Put, Streamed
  <2>3. ~ IsClone(peds'[p].object)
    BY <2>2, NotAClone DEF FreeAddresses
  <2> QED
    BY <1>2, <2>2, <2>3
<1>5. CASE StreamOut(p)
  BY <1>2, <1>5 DEF StreamOut, Without, Restrict, Streamed
<1>6. CASE ServerReset(p)
  <2>1. PICK m \in Models, a \in FreeAddresses(p) :
          peds' = [peds EXCEPT ![p].model = m, ![p].object = OrdinaryObject(a, m)]
    BY <1>6 DEF ServerReset
  <2>2. p \in Streamed
    BY <1>6 DEF ServerReset
  <2>3. DOMAIN peds' = Streamed /\ peds'[p].object = OrdinaryObject(a, m)
    BY <2>1, <2>2 DEF TypeOK, IsMap, Streamed, Ped
  <2>4. \A r \in Streamed \ {p} : peds'[r] = peds[r]
    BY <2>1, <2>2 DEF TypeOK, IsMap, Streamed
  <2>5. ~ IsClone(peds'[p].object)
    BY <2>3, NotAClone DEF FreeAddresses
  <2> QED
    BY <1>2, <2>3, <2>4, <2>5
<1>7. CASE DropObject(p)
  <2>1. /\ DOMAIN peds' = Streamed
        /\ peds'[p].object = NullObject
        /\ \A r \in Streamed \ {p} : peds'[r] = peds[r]
    BY <1>7 DEF DropObject, TypeOK, IsMap, Streamed, Ped
  <2> QED
    BY <1>2, <2>1, NotAClone
<1>8. CASE ChangeModelInPlace(p)
  <2>1. InPlaceModelChanges /\ \E m \in Models : peds' = [peds EXCEPT ![p].model = m]
    BY <1>8 DEF ChangeModelInPlace
  <2> QED
    BY <1>2, <2>1 DEF TypeOK, IsMap, Streamed, Ped
<1> QED
  BY <1>3, <1>4, <1>5, <1>6, <1>7, <1>8

\* The start and the end of a scan prune the records of peds that are gone.
LEMMA FrameRemembers ==
  ASSUME TypeOK, OneSource(cache), CloneIsRecorded,
         AllRemembered(peds, applied, cache),
         Reload \/ ScanNothingToDo \/ ScanUnreadable \/ BeginScan \/ EndScan
  PROVE  AllRemembered(peds', applied', cache')
<1>1. /\ IsCache(cache)
      /\ peds' = peds
      /\ \A o \in LiveObjects : IsClone(o) => Recorded(cache, o)
  BY DEF TypeOK, Reload, ScanNothingToDo, ScanUnreadable, BeginScan, EndScan,
         CloneIsRecorded, LiveObjects
<1>2. ASSUME NEW cc, cc = cache \/ \E R : cc = RetireUnreferenced(cache, R),
             cache' \in CleanupOutcomes(cc)
      PROVE  KeepsWorn(cache, cache')
  <2>1. /\ IsCache(cc)
        /\ OneSource(cc)
        /\ \A o \in LiveObjects : IsClone(o) => Recorded(cc, o)
    BY <1>1, <1>2, RetireType, RetireKeepsOneSource, RetireKeepsRecord
  <2>2. KeepsWorn(cache, cc)
    BY <1>2, RetireKeepsWorn DEF KeepsWorn
  <2>3. KeepsWorn(cc, cache')
    BY <1>2, <2>1, CleanupKeepsWorn
  <2> QED
    BY <2>2, <2>3 DEF KeepsWorn
<1>3. cache \in CleanupOutcomes(cache)
      /\ \A R : RetireUnreferenced(cache, R)
                  \in CleanupOutcomes(RetireUnreferenced(cache, R))
  BY DEF CleanupOutcomes
<1>4. KeepsWorn(cache, cache')
  BY <1>2, <1>3
  DEF Reload, ScanNothingToDo, ScanUnreadable, BeginScan, EndScan,
      RetainedCache, runtimeVars
<1>5. \A p \in Streamed : /\ p \in DOMAIN applied' <=> p \in DOMAIN applied
                          /\ p \in DOMAIN applied => applied'[p] = applied[p]
  BY DEF Reload, ScanNothingToDo, ScanUnreadable, BeginScan, EndScan,
         runtimeVars, StreamedOnly, Restrict, TypeOK
<1>6. ASSUME NEW p \in Streamed
      PROVE  RememberedAs(p, peds[p], applied', cache')
  <2>1. RememberedAs(p, peds[p], applied, cache')
    BY <1>4, StaysRemembered DEF AllRemembered, Streamed
  <2> QED
    BY <1>5, <2>1 DEF RememberedAs
<1> QED
  BY <1>1, <1>6 DEF AllRemembered, Streamed

\* A visit records what it puts on, and takes off what it forgets.
LEMMA VisitRemembers ==
  ASSUME TypeOK, ~ UnverifiedInstalls, AllRemembered(peds, applied, cache),
         NEW p \in PlayerIds, Visit(p)
  PROVE  AllRemembered(peds', applied', cache')
<1>0. /\ p \in Streamed
      /\ IsMap(KnownApplied(p), PlayerIds, AppliedPlayer)
      /\ RememberedAs(p, peds[p], applied, cache)
      /\ RememberedAs(p, peds[p], KnownApplied(p), cache)
  BY VisitedIsStreamed, KnownType, KnownStaysRemembered DEF AllRemembered, Streamed
<1>1. \A s \in ProfilesFor(p) : \A l \in Lookups(s) :
        /\ KeepsWorn(cache, l.cache)
        /\ \A clone : KeepsWorn(cache, RecordClone(l.cache, s, clone))
  BY LookupKeepsWorn
<1>2. CASE VisitUnreadable(p)
  BY <1>2 DEF VisitUnreadable, AllRemembered
<1>3. CASE VisitUnmatched(p) \/ VisitSwitched(p)
  <2>1. PICK failures : RestoreServerModel(p, KnownApplied(p), failures)
    BY <1>3 DEF VisitUnmatched, VisitSwitched
  <2>2. cache' = cache
    BY <1>3 DEF VisitUnmatched, VisitSwitched
  <2>3. ~ (p \in DOMAIN KnownApplied(p) /\ Superseded(p, KnownApplied(p)))
    BY DEF KnownApplied, ServerResetSeen, Superseded, Without, Restrict
  <2>4. RememberedAs(p, peds'[p], applied', cache')
    BY <1>0, <2>1, <2>2, <2>3, RestoreRemembers
  <2>5. \A q \in Streamed \ {p} :
          /\ peds'[q] = peds[q]
          /\ q \in DOMAIN applied' <=> q \in DOMAIN applied
          /\ q \in DOMAIN applied => applied'[q] = applied[q]
    <3>1. applied' = KnownApplied(p) \/ applied' = Without(KnownApplied(p), p)
      BY <2>1
      DEF RestoreServerModel, RestoreFails, RestoreSucceeds, Forget
    <3>2. \A q \in Streamed \ {p} :
            /\ q \in DOMAIN applied' <=> q \in DOMAIN KnownApplied(p)
            /\ q \in DOMAIN KnownApplied(p) => applied'[q] = KnownApplied(p)[q]
      BY <3>1 DEF Without, Restrict
    <3>3. \A q \in Streamed \ {p} : peds'[q] = peds[q]
      BY <1>0, <2>1, RestoreKeepsModels
    <3> QED
      BY <3>2, <3>3, KnownOthers
  <2>6. DOMAIN peds' = Streamed /\ KeepsWorn(cache, cache')
    BY <1>0, <2>1, <2>2, RestoreKeepsModels DEF KeepsWorn
  <2> QED
    BY <2>4, <2>5, <2>6, OthersStayRemembered
<1>4. CASE VisitReady(p) \/ VisitRestoreRequired(p) \/ VisitUnavailable(p)
  <2>1. peds' = peds /\ applied' = KnownApplied(p) /\ KeepsWorn(cache, cache')
    BY <1>1, <1>4
    DEF VisitReady, VisitRestoreRequired, VisitUnavailable, KeepRecords
  <2>2. RememberedAs(p, peds'[p], applied', cache')
    BY <1>0, <2>1, StaysRemembered
  <2> QED
    BY <2>1, <2>2, KnownOthers, OthersStayRemembered DEF Streamed
<1>5. CASE VisitApply(p)
  <2>1. PICK s, l :
          /\ s \in ProfilesFor(p) /\ l \in Lookups(s)
          /\ l.kind = "Ready"
          /\ \E clone \in ClonesFor(p, l.cache.loaded[s]) :
               /\ peds' = [peds EXCEPT ![p].object = clone]
               /\ cache' = RecordClone(l.cache, s, clone)
               /\ applied' = Put(KnownApplied(p), p,
                                 [ skin_id         |-> s,
                                   server_model_id |-> peds[p].model,
                                   render_object   |-> clone ])
    BY <1>5 DEF VisitApply, ToApply
  <2>2. PICK clone \in ClonesFor(p, l.cache.loaded[s]) :
          /\ peds' = [peds EXCEPT ![p].object = clone]
          /\ cache' = RecordClone(l.cache, s, clone)
          /\ applied' = Put(KnownApplied(p), p,
                            [ skin_id         |-> s,
                              server_model_id |-> peds[p].model,
                              render_object   |-> clone ])
    BY <2>1
  <2> DEFINE record == [ skin_id         |-> s,
                         server_model_id |-> peds[p].model,
                         render_object   |-> clone ]
  <2>3. /\ DOMAIN peds' = Streamed
        /\ peds'[p].object = clone
        /\ peds'[p].model = peds[p].model
        /\ \A q \in Streamed \ {p} : peds'[q] = peds[q]
    BY <1>0, <2>2 DEF TypeOK, IsMap, Streamed, Ped
  <2>4. /\ DOMAIN applied' = DOMAIN KnownApplied(p) \cup {p}
        /\ applied'[p] = record
        /\ \A q \in DOMAIN KnownApplied(p) \ {p} : applied'[q] = KnownApplied(p)[q]
    BY <2>2 DEF Put
  <2>5. [skin_id |-> s, resources |-> clone.geometry] \in Sources(cache')
    <3>1. IsCache(l.cache) /\ s \in DOMAIN l.cache.loaded
      BY <2>1, LookupsType DEF ProfilesFor
    <3>2. /\ s \in DOMAIN cache'.loaded
          /\ cache'.loaded[s].resources = clone.geometry
      BY <2>2, <3>1, RecordCloneAddsNone DEF ClonesFor
    <3> QED
      BY <3>2 DEF Sources, LoadedSources
  <2>6. RememberedAs(p, peds'[p], applied', cache')
    BY <2>3, <2>4, <2>5 DEF RememberedAs
  <2>7. KeepsWorn(cache, cache')
    BY <1>1, <2>1, <2>2
  <2>8. \A q \in Streamed \ {p} :
          /\ q \in DOMAIN applied' <=> q \in DOMAIN applied
          /\ q \in DOMAIN applied => applied'[q] = applied[q]
    BY <2>4, KnownOthers
  <2> QED
    BY <2>3, <2>6, <2>7, <2>8, OthersStayRemembered
<1>6. CASE VisitApplyFails(p)
  <2>1. PICK s, l :
          /\ s \in ProfilesFor(p) /\ l \in Lookups(s)
          /\ p \notin DOMAIN KnownApplied(p)
          /\ cache' = l.cache
          /\ peds' \in FailedApplyPeds(p, l.cache.loaded[s])
    BY <1>6 DEF VisitApplyFails, ToApply
  <2>2. applied' = KnownApplied(p) /\ KeepsWorn(cache, cache')
    BY <1>1, <1>6, <2>1 DEF VisitApplyFails
  <2>3. peds[p].model \in Models
    BY <1>0 DEF TypeOK, IsMap, Ped, Streamed
  <2>4. peds' \in RebuiltPeds(p, peds[p].model) \cup {BarePeds(p), peds}
    BY <2>1 DEF FailedApplyPeds
  <2>5. /\ DOMAIN peds' = Streamed
        /\ \A q \in Streamed \ {p} : peds'[q] = peds[q]
    BY <1>0, <2>4 DEF RebuiltPeds, BarePeds, TypeOK, IsMap, Streamed
  <2>6. RememberedAs(p, peds'[p], applied', cache')
    <3>1. CASE ~ IsClone(peds'[p].object)
      BY <3>1 DEF RememberedAs
    <3>2. CASE IsClone(peds'[p].object)
      <4>1. peds'[p].object = peds[p].object
        BY <1>0, <2>3, <2>4, <2>5, <3>2, RebuiltNoNewClone DEF NoNewClone
      <4> QED
        BY <1>0, <2>1, <2>2, <3>2, <4>1 DEF RememberedAs
    <3> QED
      BY <3>1, <3>2
  <2> QED
    BY <2>2, <2>5, <2>6, KnownOthers, OthersStayRemembered
<1> QED
  BY <1>2, <1>3, <1>4, <1>5, <1>6 DEF Visit

\* Restoring one user of a shared source forgets the clone it takes off.
LEMMA RestoreUserRemembers ==
  ASSUME TypeOK, AllRemembered(peds, applied, cache),
         NEW q \in PlayerIds, RestoreUser(q)
  PROVE  AllRemembered(peds', applied', cache')
<1>1. /\ q \in Streamed
      /\ cache' = cache
      /\ RestoreServerModel(q, applied, failed)
      /\ IsMap(applied, PlayerIds, AppliedPlayer)
      /\ RememberedAs(q, peds[q], applied, cache)
  BY DEF TypeOK, RestoreUser, AllRemembered, Streamed
<1>2. InPlaceModelChanges \/ q \notin DOMAIN applied
        \/ (IsClone(peds[q].object) => ~ Superseded(q, applied))
  BY <1>1 DEF RememberedAs, Superseded
<1>3. RememberedAs(q, peds'[q], applied', cache')
  BY <1>1, <1>2, RestoreRemembers
<1>4. \A r \in Streamed \ {q} :
        /\ peds'[r] = peds[r]
        /\ r \in DOMAIN applied' <=> r \in DOMAIN applied
        /\ r \in DOMAIN applied => applied'[r] = applied[r]
  BY <1>1, RestoreKeepsModels
  DEF RestoreServerModel, RestoreFails, RestoreSucceeds, Forget, Without, Restrict
<1>5. DOMAIN peds' = Streamed /\ KeepsWorn(cache, cache')
  BY <1>1, RestoreKeepsModels DEF KeepsWorn
<1> QED
  BY <1>3, <1>4, <1>5, OthersStayRemembered

\* The clone a ped wears is the one Runtime remembers, under the profile whose
\* source it borrows from, provided that an installed clone is never left behind
\* by a verification and a restore that both fail.
THEOREM WornCloneAlwaysRemembered ==
  ASSUME ~ UnverifiedInstalls
  PROVE  Spec => []WornCloneIsRemembered
<1> DEFINE Inv == AllRemembered(peds, applied, cache)
<1>1. Init => Inv
  BY EmptyMapType DEF Init, AllRemembered
<1>2. TypeOK /\ OneSource(cache) /\ CloneIsRecorded /\ Inv /\ [Next]_vars => Inv'
  <2> SUFFICES ASSUME TypeOK, OneSource(cache), CloneIsRecorded, Inv, [Next]_vars
               PROVE  AllRemembered(peds', applied', cache')
    BY DEF AllRemembered, RememberedAs, Sources, LoadedSources, RetiredSources,
           IsClone
  <2>1. CASE UNCHANGED vars
    BY <2>1 DEF vars, AllRemembered
  <2>2. CASE Next
    BY <2>2, GameRemembers, FrameRemembers, VisitRemembers, RestoreUserRemembers
    DEF Next, Frame
  <2> QED
    BY <2>1, <2>2
<1>3. Inv => WornCloneIsRemembered
  BY DEF AllRemembered, RememberedAs, Sources, LoadedSources, RetiredSources,
         WornCloneIsRemembered, Streamed
<1> QED
  BY <1>1, <1>2, <1>3, TypeCorrect, OneSourceHolds, CloneIsRecordedAlways, PTL
  DEF Spec
=============================================================================
