-------------------------- MODULE WardrobeUiProofs --------------------------
(***************************************************************************)
(* What holds of WardrobeUi for any number of profiles, rules and presets, *)
(* names, models and files: the types and the forms, then the entries of   *)
(* presets, the selected preset, and what is saved.                        *)
(***************************************************************************)
EXTENDS WardrobeUi, TLAPS, FiniteSetTheorems, WellFoundedInduction

-----------------------------------------------------------------------------
(***************************************************************************)
(* Maps (Lua tables)                                                       *)
(***************************************************************************)

\* Setting an entry, setting entries to nil and renaming one keep the type of a
\* table.
LEMMA TableTypes ==
  ASSUME NEW K, NEW V, NEW map, IsMap(map, K, V)
  PROVE  /\ \A k \in K, v \in V : IsMap(Put(map, k, v), K, V)
         /\ \A k : IsMap(Without(map, k), K, V)
         /\ \A keys : IsMap(WithoutKeys(map, keys), K, V)
         /\ \A old, new : new \in K => IsMap(Moved(map, old, new), K, V)
<1>1. \A k \in K, v \in V : IsMap(Put(map, k, v), K, V)
  BY DEF IsMap, Put
<1>2. \A k : IsMap(Without(map, k), K, V)
  BY DEF IsMap, Without, Restrict
<1>3. \A keys : IsMap(WithoutKeys(map, keys), K, V)
  BY DEF IsMap, WithoutKeys, Restrict
<1>4. ASSUME NEW old, NEW new \in K PROVE IsMap(Moved(map, old, new), K, V)
  BY DEF IsMap, Moved, Put, Without, Restrict
<1> QED
  BY <1>1, <1>2, <1>3, <1>4

\* The two tables of a preset.
LEMMA PresetType ==
  ASSUME NEW profiles, NEW rules
  PROVE  [profiles |-> profiles, rules |-> rules] \in Preset
           <=> IsMap(profiles, Skins, BOOLEAN) /\ IsMap(rules, Keys, BOOLEAN)
<1>1. ASSUME NEW K, NEW map
      PROVE  map \in UNION {[S -> BOOLEAN] : S \in SUBSET K} <=> IsMap(map, K, BOOLEAN)
  BY DEF IsMap
<1> QED
  BY <1>1 DEF Preset

LEMMA PresetParts ==
  ASSUME NEW preset \in Preset
  PROVE  /\ preset = [profiles |-> preset.profiles, rules |-> preset.rules]
         /\ IsMap(preset.profiles, Skins, BOOLEAN)
         /\ IsMap(preset.rules, Keys, BOOLEAN)
<1>1. preset = [profiles |-> preset.profiles, rules |-> preset.rules]
  BY DEF Preset
<1> QED
  BY <1>1, PresetType

-----------------------------------------------------------------------------
(***************************************************************************)
(* Lists                                                                   *)
(***************************************************************************)

\* A list with other rules at the same positions.
LEMMA SamePositions ==
  ASSUME NEW rules \in Seq(SkinRule), NEW new, new = [i \in DOMAIN rules |-> new[i]],
         \A i \in DOMAIN rules : new[i] \in SkinRule
  PROVE  new \in Seq(SkinRule) /\ Len(new) = Len(rules) /\ DOMAIN new = DOMAIN rules
<1>1. DOMAIN rules = 1 .. Len(rules) /\ Len(rules) \in Nat
  OBVIOUS
<1>2. new \in [1 .. Len(rules) -> SkinRule]
  BY <1>1
<1> QED
  BY <1>1, <1>2

\* A set of numbers has a least one.
LEMMA LeastNumber ==
  ASSUME NEW numbers \in SUBSET Nat, numbers # {}
  PROVE  \E n \in numbers : \A m \in numbers : n <= m
<1> DEFINE Less == {pair \in Nat \X Nat : pair[1] < pair[2]}
<1>1. IsWellFoundedOn(Less, Nat)
  BY NatLessThanWellFounded, Zenon DEF OpToRel
<1>2. ASSUME NEW m \in Nat, NEW n \in Nat, m < n
      PROVE  <<m, n>> \in Less
  BY <1>2
<1> HIDE DEF Less
<1>3. PICK n \in numbers : \A m \in numbers : ~ (<<m, n>> \in Less)
  BY <1>1, WFMin
<1>4. \A m \in numbers : ~ (m < n)
  BY <1>2, <1>3
<1>5. \A m \in numbers : n <= m
  BY <1>4
<1> QED
  BY <1>5

IsInOrder(order, size, positions) ==
  /\ order \in [1 .. size -> positions]
  /\ \A i, j \in 1 .. size : i < j => order[i] < order[j]
  /\ \A n \in positions : \E i \in 1 .. size : order[i] = n

HasOrder(positions, n) ==
  \E size \in 0 .. n : \E order : IsInOrder(order, size, positions \cap 1 .. n)

\* Positions can be put in order: by induction on the length of the list, for
\* which the least length that fails is the predecessor's order with, or
\* without, one more position.
LEMMA OrderExists ==
  ASSUME NEW positions, NEW length \in Nat
  PROVE  HasOrder(positions, length)
<1> DEFINE failing == {n \in Nat : ~ HasOrder(positions, n)}
<1> SUFFICES ASSUME failing # {} PROVE FALSE
  OBVIOUS
<1>1. PICK n \in failing : \A m \in failing : n <= m
  BY LeastNumber
<1>2. n # 0
  <2>1. positions \cap 1 .. 0 = {}
    OBVIOUS
  <2>2. IsInOrder(<< >>, 0, positions \cap 1 .. 0)
    BY <2>1 DEF IsInOrder
  <2>3. HasOrder(positions, 0)
    BY <2>2 DEF HasOrder
  <2> QED
    BY <1>1, <2>3
<1>3. n - 1 \in Nat /\ n - 1 \notin failing
  BY <1>1, <1>2
<1>4. PICK size \in 0 .. n - 1 :
        \E order : IsInOrder(order, size, positions \cap 1 .. n - 1)
  BY <1>3 DEF HasOrder
<1>5. PICK order : IsInOrder(order, size, positions \cap 1 .. n - 1)
  BY <1>4
<1>6. CASE n \notin positions
  <2>1. positions \cap 1 .. n = positions \cap 1 .. n - 1
    BY <1>3, <1>6
  <2> QED
    BY <1>1, <1>3, <1>4, <1>5, <2>1 DEF HasOrder
<1>7. CASE n \in positions
  <2> DEFINE longer == [i \in 1 .. size + 1 |-> IF i = size + 1 THEN n ELSE order[i]]
  <2>1. positions \cap 1 .. n = (positions \cap 1 .. n - 1) \cup {n}
    BY <1>3, <1>7
  <2>2. \A i \in 1 .. size : /\ longer[i] = order[i]
                             /\ order[i] \in positions \cap 1 .. n - 1
    <3>1. \A i \in 1 .. size : i \in 1 .. size + 1 /\ i # size + 1
      BY <1>4
    <3>2. \A i \in 1 .. size : order[i] \in positions \cap 1 .. n - 1
      BY <1>5 DEF IsInOrder
    <3> QED
      BY <3>1, <3>2
  <2>3. longer[size + 1] = n
    BY <1>4
  <2>4. longer \in [1 .. size + 1 -> positions \cap 1 .. n]
    <3>1. \A i \in 1 .. size + 1 : i \in 1 .. size \/ i = size + 1
      BY <1>4
    <3> QED
      BY <2>1, <2>2, <2>3, <3>1
  <2> HIDE DEF longer
  <2>5. \A i, j \in 1 .. size + 1 : i < j => longer[i] < longer[j]
    <3>1. ASSUME NEW i \in 1 .. size, NEW j \in 1 .. size, i < j
          PROVE  longer[i] < longer[j]
      BY <1>4, <1>5, <2>2, <3>1 DEF IsInOrder
    <3>2. ASSUME NEW i \in 1 .. size PROVE longer[i] < longer[size + 1]
      BY <1>3, <2>2, <2>3
    <3>3. \A i \in 1 .. size + 1 : i \in 1 .. size \/ i = size + 1
      BY <1>4
    <3> QED
      BY <1>4, <3>1, <3>2, <3>3
  <2>6. \A m \in positions \cap 1 .. n : \E i \in 1 .. size + 1 : longer[i] = m
    <3>1. \A m \in positions \cap 1 .. n - 1 : \E i \in 1 .. size : order[i] = m
      BY <1>5 DEF IsInOrder
    <3>2. size + 1 \in 1 .. size + 1 /\ 1 .. size \subseteq 1 .. size + 1
      BY <1>4
    <3> QED
      BY <2>1, <2>2, <2>3, <3>1, <3>2
  <2>7. IsInOrder(longer, size + 1, positions \cap 1 .. n)
    BY <2>4, <2>5, <2>6 DEF IsInOrder
  <2> QED
    BY <1>1, <1>3, <1>4, <1>5, <2>7 DEF HasOrder
<1> QED
  BY <1>6, <1>7

\* InOrder enumerates the positions of a list, each one once.
LEMMA InOrderType ==
  ASSUME NEW length \in Nat, NEW positions \in SUBSET (1 .. length)
  PROVE  \E size \in 0 .. length : IsInOrder(InOrder(positions), size, positions)
<1>0. PICK size \in 0 .. length : \E order : IsInOrder(order, size, positions)
  <2>1. positions \cap 1 .. length = positions
    OBVIOUS
  <2> QED
    BY <2>1, OrderExists DEF HasOrder
<1>1. PICK order : IsInOrder(order, size, positions)
  BY <1>0
<1>2. ASSUME NEW f \in [1 .. size -> positions],
             \A i, j \in 1 .. size : i < j => f[i] < f[j]
      PROVE  f \in Injection(1 .. size, positions)
  <2>1. ASSUME NEW i \in 1 .. size, NEW j \in 1 .. size, f[i] = f[j] PROVE i = j
    <3>1. positions \subseteq Nat
      OBVIOUS
    <3>2. f[i] \in Nat /\ f[j] \in Nat
      BY <1>2, <3>1
    <3>3. i < j => f[i] < f[j]
      BY <1>2
    <3>4. j < i => f[j] < f[i]
      BY <1>2
    <3>5. ~ (i < j) /\ ~ (j < i)
      BY <2>1, <3>2, <3>3, <3>4
    <3> QED
      BY <1>0, <3>5
  <2> QED
    BY <2>1 DEF Injection, IsInjective
<1>3. IsFiniteSet(positions) /\ IsFiniteSet(1 .. size)
      /\ Cardinality(1 .. size) = size
  <2>1. IsFiniteSet(1 .. length)
    BY FS_Interval
  <2>2. IsFiniteSet(1 .. size) /\ Cardinality(1 .. size) = size
    BY FS_Interval
  <2> QED
    BY <2>1, <2>2, FS_Subset
<1>4. Cardinality(positions) = size
  <2>1. order \in Injection(1 .. size, positions)
    BY <1>1, <1>2 DEF IsInOrder
  <2>2. order \in Surjection(1 .. size, positions)
    BY <1>1 DEF IsInOrder, Surjection
  <2> QED
    BY <1>3, <2>1, <2>2, FS_Injection
<1> DEFINE f == InOrder(positions)
<1>5. f \in [1 .. size -> positions] /\ \A i, j \in 1 .. size : i < j => f[i] < f[j]
  BY <1>1, <1>4 DEF InOrder, IsInOrder
<1> HIDE DEF f
<1>6. f \in Surjection(1 .. size, positions)
  BY <1>2, <1>3, <1>4, <1>5, FS_Injection
<1>7. IsInOrder(f, size, positions)
  BY <1>5, <1>6 DEF IsInOrder, Surjection
<1> QED
  BY <1>7 DEF f

\* Of the rules that stay when a profile goes, each is one that was there
\* before, no two come from the same one, and all of other profiles stay.
LEMMA RulesLeftType ==
  ASSUME IsStaged(config), NEW skin
  PROVE  /\ RulesLeft(skin) \in Seq(SkinRule)
         /\ Len(RulesLeft(skin)) <= Len(config.rules)
         /\ \E from \in [DOMAIN RulesLeft(skin) -> DOMAIN config.rules] :
              /\ \A j, k \in DOMAIN RulesLeft(skin) : from[j] = from[k] => j = k
              /\ \A k \in DOMAIN RulesLeft(skin) :
                   /\ RulesLeft(skin)[k] = config.rules[from[k]]
                   /\ config.rules[from[k]].profile_id # skin
              /\ \A i \in DOMAIN config.rules :
                   config.rules[i].profile_id # skin =>
                     \E k \in DOMAIN RulesLeft(skin) : from[k] = i
<1> DEFINE stay == {i \in DOMAIN config.rules : config.rules[i].profile_id # skin}
           from == InOrder(stay)
           left == RulesLeft(skin)
<1>1. /\ config.rules \in Seq(SkinRule) /\ Len(config.rules) \in Nat
      /\ DOMAIN config.rules = 1 .. Len(config.rules)
  BY DEF IsStaged
<1>2. PICK size \in 0 .. Len(config.rules) : IsInOrder(from, size, stay)
  BY <1>1, InOrderType
<1>3. left = [k \in 1 .. size |-> config.rules[from[k]]] /\ DOMAIN from = 1 .. size
  BY <1>2 DEF IsInOrder, RulesLeft
<1> HIDE DEF from, left
<1>4. \A k \in 1 .. size : from[k] \in DOMAIN config.rules
                           /\ config.rules[from[k]].profile_id # skin
  BY <1>2 DEF IsInOrder
<1> HIDE DEF stay
<1>5. \A i \in DOMAIN config.rules : config.rules[i] \in SkinRule
  BY <1>1
<1>6. left \in [1 .. size -> SkinRule]
  BY <1>3, <1>4, <1>5
<1>7. left \in Seq(SkinRule) /\ Len(left) = size /\ DOMAIN left = 1 .. size
  BY <1>2, <1>6
<1>8. ASSUME NEW j \in 1 .. size, NEW k \in 1 .. size, from[j] = from[k]
      PROVE  j = k
  <2>1. from[j] \in Nat /\ from[k] \in Nat
    BY <1>1, <1>4
  <2>2. (j < k => from[j] < from[k]) /\ (k < j => from[k] < from[j])
    BY <1>2 DEF IsInOrder
  <2> QED
    BY <1>2, <1>8, <2>1, <2>2
<1>9. from \in [1 .. size -> DOMAIN config.rules]
  BY <1>2, <1>4 DEF IsInOrder
<1>10. \A i \in stay : \E k \in 1 .. size : from[k] = i
  BY <1>2 DEF IsInOrder
<1>11. /\ \A j, k \in DOMAIN left : from[j] = from[k] => j = k
       /\ \A k \in DOMAIN left : /\ left[k] = config.rules[from[k]]
                                /\ config.rules[from[k]].profile_id # skin
       /\ \A i \in DOMAIN config.rules :
            config.rules[i].profile_id # skin => \E k \in DOMAIN left : from[k] = i
  BY <1>3, <1>4, <1>7, <1>8, <1>10 DEF stay
<1>12. Len(left) <= Len(config.rules)
  BY <1>1, <1>2, <1>7
<1>13. from \in [DOMAIN left -> DOMAIN config.rules]
  BY <1>7, <1>9
<1> QED
  BY <1>7, <1>11, <1>12, <1>13 DEF left

\* table.remove takes one rule out and closes the gap.
LEMMA RemoveAtType ==
  ASSUME NEW rules \in Seq(SkinRule), NEW at \in DOMAIN rules
  PROVE  /\ RemoveAt(rules, at) \in Seq(SkinRule)
         /\ Len(RemoveAt(rules, at)) = Len(rules) - 1
         /\ \A k \in DOMAIN RemoveAt(rules, at) :
              RemoveAt(rules, at)[k] = rules[IF k < at THEN k ELSE k + 1]
<1>1. Len(rules) \in Nat /\ at \in 1 .. Len(rules)
  OBVIOUS
<1> DEFINE before == SubSeq(rules, 1, at - 1)
           after  == SubSeq(rules, at + 1, Len(rules))
<1>2. /\ before \in Seq(SkinRule) /\ Len(before) = at - 1
      /\ \A k \in 1 .. at - 1 : before[k] = rules[k]
  BY <1>1
<1>3. /\ after \in Seq(SkinRule) /\ Len(after) = Len(rules) - at
      /\ \A k \in 1 .. Len(rules) - at : after[k] = rules[at + k]
  BY <1>1
<1>4. RemoveAt(rules, at) = before \o after
  BY DEF RemoveAt
<1> HIDE DEF before, after
<1>5. /\ before \o after \in Seq(SkinRule)
      /\ Len(before \o after) = Len(rules) - 1
      /\ DOMAIN (before \o after) = 1 .. Len(rules) - 1
  BY <1>1, <1>2, <1>3
<1>6. ASSUME NEW k \in 1 .. Len(rules) - 1
      PROVE  (before \o after)[k] = rules[IF k < at THEN k ELSE k + 1]
  <2>1. CASE k < at
    BY <1>1, <1>2, <1>3, <2>1
  <2>2. CASE ~ (k < at)
    <3>1. (before \o after)[k] = after[k - (at - 1)]
      BY SMTT(30), <1>1, <1>2, <1>3, <2>2
    <3>2. k - (at - 1) \in 1 .. Len(rules) - at /\ at + (k - (at - 1)) = k + 1
      BY <1>1, <2>2
    <3> QED
      BY <1>3, <2>2, <3>1, <3>2
  <2> QED
    BY <2>1, <2>2
<1> QED
  BY <1>4, <1>5, <1>6

\* One rule of a list is changed.
LEMMA ChangedRule ==
  ASSUME NEW rules \in Seq(SkinRule), NEW at \in DOMAIN rules, NEW rule \in SkinRule
  PROVE  /\ [rules EXCEPT ![at] = rule] \in Seq(SkinRule)
         /\ Len([rules EXCEPT ![at] = rule]) = Len(rules)
         /\ DOMAIN [rules EXCEPT ![at] = rule] = DOMAIN rules
         /\ [rules EXCEPT ![at] = rule][at] = rule
         /\ \A k \in DOMAIN rules \ {at} : [rules EXCEPT ![at] = rule][k] = rules[k]
  OBVIOUS

\* A rule is added at the end.
LEMMA AddedRule ==
  ASSUME NEW rules \in Seq(SkinRule), NEW rule \in SkinRule
  PROVE  /\ Append(rules, rule) \in Seq(SkinRule)
         /\ Len(Append(rules, rule)) = Len(rules) + 1
         /\ DOMAIN Append(rules, rule) = DOMAIN rules \cup {Len(rules) + 1}
         /\ Append(rules, rule)[Len(rules) + 1] = rule
         /\ \A k \in DOMAIN rules : Append(rules, rule)[k] = rules[k]
  OBVIOUS

\* The form of a rule, and a rule made from a form.
LEMMA ConditionsType ==
  ASSUME NEW rule \in SkinRule
  PROVE  Conditions(rule) \in RuleForm /\ Key(rule) \in Keys
  BY DEF SkinRule, Conditions, RuleForm, Key, Keys

-----------------------------------------------------------------------------
(***************************************************************************)
(* Types, and forms that show what is selected.  Neither holds without the *)
(* other: a widget stages its whole form, so the form must be a definition *)
(* or the conditions of a rule whenever something is selected.             *)
(***************************************************************************)
FormsInv == TypeOK /\ EditorShowsSelection

ProfileEditorOK ==
  /\ selected_skin \in DOMAIN config.skins \cup {None}
  /\ profile_form \in SkinDefinition \cup {None}
  /\ selected_skin # None => profile_form = config.skins[selected_skin]

RuleEditorOK ==
  /\ selected_rule \in DOMAIN config.rules \cup {0}
  /\ rule_form \in RuleForm \cup {None}
  /\ selected_rule # 0 => rule_form = Conditions(config.rules[selected_rule])

PresetOK == selected_preset \in DOMAIN config.presets \cup {None}

FlagsOK == settings \in Settings /\ dirty \in BOOLEAN /\ crossed \in BOOLEAN

LEMMA FormsParts ==
  FormsInv <=> /\ IsStaged(config) /\ FlagsOK
               /\ ProfileEditorOK /\ RuleEditorOK /\ PresetOK
  BY DEF FormsInv, TypeOK, EditorShowsSelection, FlagsOK, ProfileEditorOK,
         RuleEditorOK, PresetOK

LEMMA FormsPartsNext ==
  FormsInv' <=> /\ IsStaged(config)' /\ FlagsOK'
                /\ ProfileEditorOK' /\ RuleEditorOK' /\ PresetOK'
  BY DEF FormsInv, TypeOK, EditorShowsSelection, FlagsOK, ProfileEditorOK,
         RuleEditorOK, PresetOK

LEMMA StagedType ==
  ASSUME NEW skins, IsMap(skins, Skins, SkinDefinition),
         NEW rules \in Seq(SkinRule), Len(rules) <= MaxRules,
         NEW presets, IsMap(presets, Presets, Preset)
  PROVE  IsStaged([skins |-> skins, rules |-> rules, presets |-> presets])
  BY DEF IsStaged

LEMMA StagedParts ==
  ASSUME NEW staged, IsStaged(staged)
  PROVE  /\ staged = [ skins |-> staged.skins, rules |-> staged.rules,
                       presets |-> staged.presets ]
         /\ IsMap(staged.skins, Skins, SkinDefinition)
         /\ staged.rules \in Seq(SkinRule)
         /\ Len(staged.rules) \in Nat /\ Len(staged.rules) <= MaxRules
         /\ DOMAIN staged.rules = 1 .. Len(staged.rules)
         /\ \A i \in DOMAIN staged.rules : staged.rules[i] \in SkinRule
         /\ IsMap(staged.presets, Presets, Preset)
  BY DEF IsStaged

\* Staging sets the two flags.
LEMMA StageFlags ==
  ASSUME FlagsOK, NEW new, Stage(new)
  PROVE  config' = new /\ FlagsOK'
<1>1. KeysCross(new.rules) \in BOOLEAN
  BY Zenon DEF KeysCross
<1> QED
  BY <1>1 DEF FlagsOK, Stage

\* An editor whose selection stays, while what it shows does.
LEMMA ProfileEditorStays ==
  ASSUME ProfileEditorOK, KeepProfileEditor, config'.skins = config.skins
  PROVE  ProfileEditorOK'
  BY DEF ProfileEditorOK, KeepProfileEditor

LEMMA RuleEditorStays ==
  ASSUME RuleEditorOK, KeepRuleEditor,
         DOMAIN config'.rules = DOMAIN config.rules,
         \A i \in DOMAIN config.rules :
           Conditions(config'.rules[i]) = Conditions(config.rules[i])
  PROVE  RuleEditorOK'
<1>1. selected_rule # 0 => selected_rule \in DOMAIN config.rules
  BY DEF RuleEditorOK
<1> QED
  BY <1>1 DEF RuleEditorOK, KeepRuleEditor

\* An editor that shows another selection, or none.
LEMMA ProfileEditorShows ==
  ASSUME IsStaged(config)', NEW skin \in DOMAIN config'.skins,
         ShowProfile(config', skin)
  PROVE  ProfileEditorOK'
  BY DEF IsStaged, IsMap, ShowProfile, ProfileEditorOK

LEMMA RuleEditorShows ==
  ASSUME IsStaged(config)', NEW index \in DOMAIN config'.rules,
         ShowRule(config', index)
  PROVE  RuleEditorOK'
<1>1. config'.rules[index] \in SkinRule
  BY DEF IsStaged
<1> QED
  BY <1>1, ConditionsType DEF ShowRule, RuleEditorOK

LEMMA ProfileEditorCleared ==
  ClearProfileEditor => ProfileEditorOK'
  BY DEF ClearProfileEditor, ProfileEditorOK

LEMMA RuleEditorCleared ==
  ClearRuleEditor => RuleEditorOK'
  BY DEF ClearRuleEditor, RuleEditorOK

\* The configuration of an editor that finds no file.
LEMMA NoConfigType == IsStaged(NoConfig)
<1>1. IsMap(EmptyMap, Skins, SkinDefinition) /\ IsMap(EmptyMap, Presets, Preset)
  BY DEF IsMap, EmptyMap
<1>2. << >> \in Seq(SkinRule) /\ Len(<< >>) <= MaxRules
  BY EditorAssumption
<1> QED
  BY <1>1, <1>2 DEF NoConfig, IsStaged

LEMMA IntervalsAreNumbers == PollIntervalsMs \subseteq Nat /\ PollIntervalsMs \subseteq Int
<1>1. MinPollIntervalMs \in Nat /\ MaxPollIntervalMs \in Nat
  BY DEF MinPollIntervalMs, MaxPollIntervalMs
<1> QED
  BY <1>1 DEF PollIntervalsMs

LEMMA NoConfigValid ==
  Validates(NoConfig, DefaultSettings) /\ DefaultSettings \in Settings
<1>1. DOMAIN NoConfig.skins = {} /\ DOMAIN NoConfig.rules = {}
  BY DEF NoConfig, EmptyMap
<1>2. /\ DefaultSettings.poll_interval_ms \in PollIntervalsMs
      /\ DefaultSettings.log_level \in LogLevels
  BY EditorAssumption
  DEF DefaultSettings, DefaultPollIntervalMs, PollIntervalsMs, MinPollIntervalMs,
      MaxPollIntervalMs
<1>3. Validates(NoConfig, DefaultSettings)
  BY <1>1, <1>2 DEF Validates
<1>4. DefaultSettings \in Settings
  BY EditorAssumption DEF DefaultSettings, DefaultPollIntervalMs, Settings
<1> QED
  BY <1>3, <1>4

\* What load_config does not refuse has the types of what is edited.
LEMMA FileType ==
  ASSUME NEW file \in Files \ {None}, Validates(StagedOf(file), SettingsOf(file))
  PROVE  IsStaged(StagedOf(file)) /\ SettingsOf(file) \in Settings
<1> DEFINE staged == StagedOf(file)
           skins == file.skins.entries
           rules == file.rules.entries
<1>1. /\ IsMap(skins, Skins \cup {EmptyText}, SkinEntry)
      /\ rules \in Seq(RuleEntry)
      /\ IsMap(file.presets, Presets, Preset)
      /\ Len(rules) <= MaxRules
      /\ \A i \in DOMAIN rules :
           rules[i].server_model_id \in ValidModelIds =>
             rules[i].server_model_id \in Models
  BY EditorAssumption DEF IsDocument, IsSkinTable, IsRuleTable
<1>2. IsMap(staged.skins, Skins, SkinDefinition)
  <2>1. /\ DOMAIN staged.skins = DOMAIN skins
        /\ \A s \in DOMAIN skins :
             staged.skins[s] = [ enabled |-> staged.skins[s].enabled,
                                 paths   |-> staged.skins[s].paths ]
        /\ staged.skins = [s \in DOMAIN staged.skins |-> staged.skins[s]]
    BY DEF StagedOf
  <2>2. \A s \in DOMAIN staged.skins :
          /\ s # EmptyText
          /\ staged.skins[s].enabled \in BOOLEAN
          /\ staged.skins[s].paths \in Paths
    BY DEF Validates
  <2> HIDE DEF staged
  <2>3. ASSUME NEW s \in DOMAIN staged.skins
        PROVE  staged.skins[s] \in SkinDefinition
    <3>1. \A enabled \in BOOLEAN, paths \in Paths :
            [enabled |-> enabled, paths |-> paths] \in SkinDefinition
      BY DEF SkinDefinition
    <3>2. /\ staged.skins[s].enabled \in BOOLEAN
          /\ staged.skins[s].paths \in Paths
      BY <2>2
    <3>3. [ enabled |-> staged.skins[s].enabled, paths |-> staged.skins[s].paths ]
            \in SkinDefinition
      BY <3>1, <3>2, Zenon
    <3> QED
      BY <2>1, <3>3, Zenon
  <2> QED
    BY <1>1, <2>1, <2>2, <2>3 DEF IsMap
<1>3. staged.rules \in Seq(SkinRule) /\ Len(staged.rules) <= MaxRules
  <2>1. DOMAIN rules = 1 .. Len(rules) /\ Len(rules) \in Nat
    BY <1>1
  <2>2. /\ DOMAIN staged.rules = DOMAIN rules
        /\ \A i \in DOMAIN rules :
             /\ staged.rules[i] = [ profile_id      |-> rules[i].profile_id,
                                    enabled         |-> staged.rules[i].enabled,
                                    player_name     |-> rules[i].player_name,
                                    server_model_id |-> rules[i].server_model_id ]
        /\ staged.rules = [i \in DOMAIN rules |-> staged.rules[i]]
    BY DEF StagedOf
  <2>3. \A i \in DOMAIN staged.rules :
          /\ staged.rules[i].enabled \in BOOLEAN
          /\ staged.rules[i].profile_id \in DOMAIN staged.skins
          /\ staged.rules[i].player_name \in Names \cup {None}
          /\ staged.rules[i].server_model_id \in ValidModelIds \cup {None}
    BY DEF Validates
  <2> HIDE DEF staged
  <2>4. ASSUME NEW i \in DOMAIN rules
        PROVE  staged.rules[i] \in SkinRule
    <3> DEFINE made == [ profile_id      |-> rules[i].profile_id,
                         enabled         |-> staged.rules[i].enabled,
                         player_name     |-> rules[i].player_name,
                         server_model_id |-> rules[i].server_model_id ]
    <3>1. \A profile_id \in Skins, enabled \in BOOLEAN,
             player_name \in Names \cup {None}, model \in Models \cup {None} :
            [ profile_id |-> profile_id, enabled |-> enabled,
              player_name |-> player_name, server_model_id |-> model ] \in SkinRule
      BY DEF SkinRule
    <3>2. /\ staged.rules[i].enabled \in BOOLEAN
          /\ staged.rules[i].profile_id \in DOMAIN staged.skins
          /\ staged.rules[i].player_name \in Names \cup {None}
          /\ staged.rules[i].server_model_id \in ValidModelIds \cup {None}
      BY <2>2, <2>3, Zenon
    <3>3. /\ staged.rules[i].profile_id = rules[i].profile_id
          /\ staged.rules[i].player_name = rules[i].player_name
          /\ staged.rules[i].server_model_id = rules[i].server_model_id
      <4>1. staged.rules[i] = made
        BY <2>2, Zenon
      <4>2. /\ made.profile_id = rules[i].profile_id
            /\ made.player_name = rules[i].player_name
            /\ made.server_model_id = rules[i].server_model_id
        OBVIOUS
      <4> HIDE DEF made
      <4> QED
        BY <4>1, <4>2
    <3>4. rules[i].profile_id \in Skins /\ rules[i].player_name \in Names \cup {None}
      BY <1>2, <3>2, <3>3 DEF IsMap
    <3>5. rules[i].server_model_id \in Models \cup {None}
      BY <1>1, <3>2, <3>3
    <3>6. [ profile_id      |-> rules[i].profile_id,
            enabled         |-> staged.rules[i].enabled,
            player_name     |-> rules[i].player_name,
            server_model_id |-> rules[i].server_model_id ] \in SkinRule
      BY <3>1, <3>2, <3>4, <3>5, Zenon
    <3> QED
      BY <2>2, <3>6, Zenon
  <2>5. staged.rules \in [1 .. Len(rules) -> SkinRule]
    BY <2>1, <2>2, <2>4
  <2> QED
    BY <1>1, <2>1, <2>5
<1>4. SettingsOf(file) \in Settings
  <2>1. SettingsOf(file) = [ poll_interval_ms |-> SettingsOf(file).poll_interval_ms,
                             log_level        |-> SettingsOf(file).log_level ]
    BY DEF SettingsOf
  <2>2. /\ SettingsOf(file).poll_interval_ms \in PollIntervalsMs
        /\ SettingsOf(file).log_level \in LogLevels
    BY DEF Validates
  <2>3. SettingsOf(file).poll_interval_ms \in Int
    BY <2>2, IntervalsAreNumbers
  <2>4. \A interval \in Int, level \in LogLevels :
          [poll_interval_ms |-> interval, log_level |-> level] \in Settings
    BY DEF Settings
  <2> QED
    BY <2>1, <2>2, <2>3, <2>4, Zenon
<1>5. staged = [ skins |-> staged.skins, rules |-> staged.rules,
                 presets |-> file.presets ]
  BY DEF StagedOf
<1> HIDE DEF staged
<1>6. IsStaged(staged)
  BY <1>1, <1>2, <1>3, <1>5, StagedType
<1> QED
  BY <1>4, <1>6 DEF staged

LEMMA LoadedType ==
  ASSUME NEW loaded \in Loaded
  PROVE  /\ IsStaged(loaded.staged) /\ loaded.settings \in Settings
         /\ Validates(loaded.staged, loaded.settings)
         /\ \/ loaded.staged = NoConfig
            \/ \E file \in Files \ {None} : loaded.staged = StagedOf(file)
<1>1. CASE loaded = [staged |-> NoConfig, settings |-> DefaultSettings]
  BY <1>1, NoConfigType, NoConfigValid
<1>2. ASSUME NEW file \in Files \ {None}, Validates(StagedOf(file), SettingsOf(file)),
             loaded = [staged |-> StagedOf(file), settings |-> SettingsOf(file)]
      PROVE  /\ IsStaged(loaded.staged) /\ loaded.settings \in Settings
             /\ Validates(loaded.staged, loaded.settings)
             /\ loaded.staged = StagedOf(file)
  BY <1>2, FileType
<1> QED
  BY <1>1, <1>2 DEF Loaded

LEMMA InitForms == Init => FormsInv
<1> SUFFICES ASSUME Init PROVE FormsInv
  OBVIOUS
<1>1. IsStaged(config) /\ settings \in Settings
  BY NoConfigType, NoConfigValid DEF Init
<1> QED
  BY <1>1, FormsParts
  DEF Init, FlagsOK, ProfileEditorOK, RuleEditorOK, PresetOK

LEMMA SelectForms ==
  ASSUME FormsInv,
         \/ \E skin \in Skins : SelectProfile(skin)
         \/ \E index \in 1 .. MaxRules : SelectRule(index)
  PROVE  FormsInv'
<1>1. /\ IsStaged(config) /\ FlagsOK /\ ProfileEditorOK /\ RuleEditorOK /\ PresetOK
  BY FormsParts
<1>2. ASSUME NEW skin \in Skins, SelectProfile(skin) PROVE FormsInv'
  <2>1. config' = config /\ dirty' = dirty /\ crossed' = crossed
        /\ selected_preset' = selected_preset /\ settings' = settings
    BY <1>2 DEF SelectProfile
  <2>2. ProfileEditorOK'
    BY <1>1, <1>2, <2>1, ProfileEditorShows DEF SelectProfile
  <2>3. RuleEditorOK'
    BY <1>1, <1>2, <2>1, RuleEditorStays DEF SelectProfile
  <2> QED
    BY <1>1, <2>1, <2>2, <2>3, FormsPartsNext DEF FlagsOK, PresetOK
<1>3. ASSUME NEW index \in 1 .. MaxRules, SelectRule(index) PROVE FormsInv'
  <2>1. config' = config /\ dirty' = dirty /\ crossed' = crossed
        /\ selected_preset' = selected_preset /\ settings' = settings
    BY <1>3 DEF SelectRule
  <2>2. RuleEditorOK'
    BY <1>1, <1>3, <2>1, RuleEditorShows DEF SelectRule
  <2>3. ProfileEditorOK'
    BY <1>1, <1>3, <2>1, ProfileEditorStays DEF SelectRule
  <2> QED
    BY <1>1, <2>1, <2>2, <2>3, FormsPartsNext DEF FlagsOK, PresetOK
<1> QED
  BY <1>2, <1>3

LEMMA FileForms ==
  ASSUME FormsInv, LoadConfig \/ SaveConfig
  PROVE  FormsInv'
<1>1. /\ IsStaged(config) /\ FlagsOK /\ ProfileEditorOK /\ RuleEditorOK /\ PresetOK
  BY FormsParts
<1>2. CASE LoadConfig
  <2>1. PICK loaded \in Loaded :
          config' = loaded.staged /\ settings' = loaded.settings
    BY <1>2 DEF LoadConfig
  <2>2. IsStaged(config') /\ settings' \in Settings
    BY <2>1, LoadedType
  <2> QED
    BY <1>2, <2>2, FormsPartsNext, ProfileEditorCleared, RuleEditorCleared
    DEF LoadConfig, FlagsOK, PresetOK
<1>3. CASE SaveConfig
  BY <1>1, <1>3, FormsPartsNext
  DEF SaveConfig, editorVars, FlagsOK, ProfileEditorOK, RuleEditorOK, PresetOK
<1> QED
  BY <1>2, <1>3

LEMMA SettingsForms ==
  ASSUME FormsInv, DrawRuntimeSettings
  PROVE  FormsInv'
<1>1. /\ IsStaged(config) /\ FlagsOK /\ ProfileEditorOK /\ RuleEditorOK /\ PresetOK
  BY FormsParts
<1>2. settings' \in Settings
  <2>1. settings \in Settings
    BY <1>1 DEF FlagsOK
  <2>2. ASSUME NEW interval \in Intervals,
               settings' = [settings EXCEPT !.poll_interval_ms = interval]
        PROVE  settings' \in Settings
    BY <2>1, <2>2, EditorAssumption DEF Settings
  <2>3. ASSUME NEW level \in LogLevels,
               settings' = [settings EXCEPT !.log_level = level]
        PROVE  settings' \in Settings
    BY <2>1, <2>3 DEF Settings
  <2> QED
    BY <2>2, <2>3 DEF DrawRuntimeSettings
<1> QED
  BY <1>1, <1>2, FormsPartsNext
  DEF DrawRuntimeSettings, editorVars, FlagsOK, ProfileEditorOK, RuleEditorOK, PresetOK

LEMMA AddProfileForms ==
  ASSUME FormsInv, AddProfile
  PROVE  FormsInv'
<1>1. /\ IsStaged(config) /\ FlagsOK /\ ProfileEditorOK /\ RuleEditorOK /\ PresetOK
  BY FormsParts
<1> DEFINE draft == [enabled |-> TRUE, paths |-> NoPaths]
           Added(skin) == [config EXCEPT !.skins = Put(@, skin, draft)]
<1>2. PICK skin \in Skins : Stage(Added(skin)) /\ ShowProfile(Added(skin), skin)
  BY DEF AddProfile
<1>3. draft \in SkinDefinition
  BY EditorAssumption DEF SkinDefinition
<1> HIDE DEF draft
<1>4. /\ IsMap(Put(config.skins, skin, draft), Skins, SkinDefinition)
      /\ skin \in DOMAIN Put(config.skins, skin, draft)
  <2>1. IsMap(config.skins, Skins, SkinDefinition)
    BY <1>1, StagedParts
  <2>2. IsMap(Put(config.skins, skin, draft), Skins, SkinDefinition)
    BY <1>3, <2>1, TableTypes
  <2>3. skin \in DOMAIN Put(config.skins, skin, draft)
    BY DEF Put
  <2> QED
    BY <2>2, <2>3
<1>5. config' = [ skins |-> Put(config.skins, skin, draft), rules |-> config.rules,
                  presets |-> config.presets ] /\ FlagsOK'
  BY <1>1, <1>2, StageFlags, StagedParts
<1>6. IsStaged(config')
  BY <1>1, <1>4, <1>5, StagedParts, StagedType
<1>7. ProfileEditorOK'
  <2>1. ShowProfile(config', skin) /\ skin \in DOMAIN config'.skins
    BY <1>2, <1>4, <1>5 DEF Stage
  <2> QED
    BY <1>6, <2>1, ProfileEditorShows
<1>8. RuleEditorOK'
  BY <1>1, <1>5, RuleEditorStays DEF AddProfile
<1> QED
  BY <1>1, <1>5, <1>6, <1>7, <1>8, FormsPartsNext DEF AddProfile, PresetOK

LEMMA SyncProfileIdForms ==
  ASSUME FormsInv, NEW skin \in Skins, SyncProfileId(skin)
  PROVE  FormsInv'
<1>1. /\ IsStaged(config) /\ FlagsOK /\ ProfileEditorOK /\ RuleEditorOK /\ PresetOK
  BY FormsParts
<1>2. /\ selected_skin \in DOMAIN config.skins /\ skin \notin DOMAIN config.skins
      /\ selected_skin # skin
  BY <1>1 DEF SyncProfileId, ProfileEditorOK
<1> DEFINE skins   == Moved(config.skins, selected_skin, skin)
           rules   == [i \in DOMAIN config.rules |->
                        IF config.rules[i].profile_id = selected_skin
                        THEN [config.rules[i] EXCEPT !.profile_id = skin]
                        ELSE config.rules[i]]
           presets == [p \in DOMAIN config.presets |->
                        [config.presets[p] EXCEPT
                           !.profiles = Moved(@, selected_skin, skin)]]
<1>3. config' = [skins |-> skins, rules |-> rules, presets |-> presets] /\ FlagsOK'
  BY <1>1, StageFlags DEF SyncProfileId
<1>4. /\ IsMap(skins, Skins, SkinDefinition)
      /\ skin \in DOMAIN skins /\ skins[skin] = config.skins[selected_skin]
  <2>1. IsMap(config.skins, Skins, SkinDefinition)
    BY <1>1, StagedParts
  <2>2. IsMap(skins, Skins, SkinDefinition)
    BY <2>1, TableTypes
  <2>3. skin \in DOMAIN skins /\ skins[skin] = config.skins[selected_skin]
    BY <1>2 DEF Moved, Put, Without, Restrict
  <2> QED
    BY <2>2, <2>3
<1>5. /\ rules \in Seq(SkinRule) /\ Len(rules) = Len(config.rules)
      /\ DOMAIN rules = DOMAIN config.rules
      /\ \A i \in DOMAIN config.rules :
           Conditions(rules[i]) = Conditions(config.rules[i])
  <2>1. /\ config.rules \in Seq(SkinRule)
        /\ \A i \in DOMAIN config.rules : config.rules[i] \in SkinRule
    BY <1>1, StagedParts
  <2>2. \A i \in DOMAIN config.rules :
          /\ rules[i] \in SkinRule
          /\ Conditions(rules[i]) = Conditions(config.rules[i])
    BY <2>1 DEF SkinRule, Conditions
  <2>3. rules = [i \in DOMAIN config.rules |-> rules[i]]
    OBVIOUS
  <2> HIDE DEF rules
  <2> QED
    BY <2>1, <2>2, <2>3, SamePositions
<1>6. IsMap(presets, Presets, Preset) /\ DOMAIN presets = DOMAIN config.presets
  <2>1. IsMap(config.presets, Presets, Preset)
    BY <1>1, StagedParts
  <2>2. ASSUME NEW p \in DOMAIN config.presets PROVE presets[p] \in Preset
    <3>1. config.presets[p] \in Preset
      BY <2>1 DEF IsMap
    <3>2. IsMap(Moved(config.presets[p].profiles, selected_skin, skin), Skins, BOOLEAN)
      BY <3>1, PresetParts, TableTypes
    <3>3. presets[p] = [ profiles |-> Moved(config.presets[p].profiles, selected_skin, skin),
                         rules    |-> config.presets[p].rules ]
      BY <3>1, PresetParts
    <3> QED
      BY <3>1, <3>2, <3>3, PresetParts, PresetType
  <2> QED
    BY <2>1, <2>2 DEF IsMap
<1> HIDE DEF skins, rules, presets
<1>7. IsStaged(config)'
  BY <1>1, <1>3, <1>4, <1>5, <1>6, StagedParts, StagedType
<1>8. ProfileEditorOK'
  <2>1. selected_skin' = skin /\ profile_form' = profile_form
    BY DEF SyncProfileId
  <2>2. /\ profile_form \in SkinDefinition
        /\ profile_form = config.skins[selected_skin]
    BY <1>1, <1>2, EditorAssumption, StagedParts DEF ProfileEditorOK, IsMap
  <2> QED
    BY <1>3, <1>4, <2>1, <2>2 DEF ProfileEditorOK
<1>9. RuleEditorOK'
  BY <1>1, <1>3, <1>5, RuleEditorStays DEF SyncProfileId
<1> QED
  BY <1>1, <1>3, <1>6, <1>7, <1>8, <1>9, FormsPartsNext DEF SyncProfileId, PresetOK

\* Presets of which some are changed.
LEMMA ChangedPresets ==
  ASSUME NEW presets, IsMap(presets, Presets, Preset),
         NEW new, new = [p \in DOMAIN presets |-> new[p]],
         \A p \in DOMAIN presets : new[p] \in Preset
  PROVE  IsMap(new, Presets, Preset) /\ DOMAIN new = DOMAIN presets
  BY DEF IsMap

\* A preset with other profiles, or other rules.
LEMMA PresetWith ==
  ASSUME NEW preset \in Preset
  PROVE  /\ \A profiles : IsMap(profiles, Skins, BOOLEAN) =>
              [preset EXCEPT !.profiles = profiles] \in Preset
         /\ \A rules : IsMap(rules, Keys, BOOLEAN) =>
              [preset EXCEPT !.rules = rules] \in Preset
<1>1. ASSUME NEW profiles, IsMap(profiles, Skins, BOOLEAN)
      PROVE  [preset EXCEPT !.profiles = profiles] \in Preset
  <2>1. [preset EXCEPT !.profiles = profiles]
          = [profiles |-> profiles, rules |-> preset.rules]
    BY PresetParts
  <2> QED
    BY <1>1, <2>1, PresetParts, PresetType
<1>2. ASSUME NEW rules, IsMap(rules, Keys, BOOLEAN)
      PROVE  [preset EXCEPT !.rules = rules] \in Preset
  <2>1. [preset EXCEPT !.rules = rules]
          = [profiles |-> preset.profiles, rules |-> rules]
    BY PresetParts
  <2> QED
    BY <1>2, <2>1, PresetParts, PresetType
<1> QED
  BY <1>1, <1>2

\* A field of the selected profile is typed, or its box is ticked.
LEMMA SyncProfileForms ==
  ASSUME FormsInv,
         ToggleProfile \/ \E paths \in Paths : SyncProfileFields(paths)
  PROVE  FormsInv'
<1>1. /\ IsStaged(config) /\ FlagsOK /\ ProfileEditorOK /\ RuleEditorOK /\ PresetOK
  BY FormsParts
<1>2. selected_skin # None
  BY DEF ToggleProfile, SyncProfileFields
<1>3. /\ selected_skin \in DOMAIN config.skins
      /\ profile_form = config.skins[selected_skin] /\ profile_form \in SkinDefinition
      /\ selected_skin \in Skins
  BY <1>1, <1>2, StagedParts DEF ProfileEditorOK, IsMap
<1> DEFINE synced == [config EXCEPT !.skins[selected_skin] = profile_form']
<1>4. profile_form' \in SkinDefinition
  <2>1. CASE ToggleProfile
    BY <1>3, <2>1 DEF ToggleProfile, SkinDefinition
  <2>2. ASSUME NEW paths \in Paths, SyncProfileFields(paths)
        PROVE  profile_form' \in SkinDefinition
    BY <1>3, <2>2 DEF SyncProfileFields, SkinDefinition
  <2> QED
    BY <2>1, <2>2
<1>5. /\ synced = [ skins |-> [config.skins EXCEPT ![selected_skin] = profile_form'],
                    rules |-> config.rules, presets |-> config.presets ]
      /\ IsStaged(synced)
  <2>1. synced = [ skins |-> [config.skins EXCEPT ![selected_skin] = profile_form'],
                   rules |-> config.rules, presets |-> config.presets ]
    BY <1>1, StagedParts
  <2>2. IsMap([config.skins EXCEPT ![selected_skin] = profile_form'],
              Skins, SkinDefinition)
    BY <1>1, <1>4, StagedParts DEF IsMap
  <2> QED
    BY <1>1, <2>1, <2>2, StagedParts, StagedType
<1>6. /\ IsStaged(config') /\ FlagsOK'
      /\ config'.skins = synced.skins /\ config'.rules = config.rules
      /\ DOMAIN config'.presets = DOMAIN config.presets
  <2>1. CASE ToggleProfile /\ selected_preset # None
    <3> DEFINE entries == Put(config.presets[selected_preset].profiles, selected_skin,
                              profile_form'.enabled)
               presets == [config.presets EXCEPT ![selected_preset] =
                             [@ EXCEPT !.profiles = entries]]
    <3>1. /\ selected_preset \in DOMAIN config.presets
          /\ IsMap(config.presets, Presets, Preset)
          /\ config.presets[selected_preset] \in Preset
      BY <1>1, <2>1, StagedParts DEF PresetOK, IsMap
    <3>2. profile_form'.enabled \in BOOLEAN
      BY <1>4 DEF SkinDefinition
    <3>3. IsMap(config.presets[selected_preset].profiles, Skins, BOOLEAN)
      BY <3>1, PresetParts
    <3>4. IsMap(entries, Skins, BOOLEAN)
      BY <1>3, <3>2, <3>3, TableTypes
    <3> HIDE DEF entries
    <3>5. [config.presets[selected_preset] EXCEPT !.profiles = entries] \in Preset
      BY <3>1, <3>4, PresetWith
    <3>6. IsMap(presets, Presets, Preset) /\ DOMAIN presets = DOMAIN config.presets
      BY <3>1, <3>5 DEF IsMap
    <3>7. [synced EXCEPT !.presets[selected_preset].profiles = entries]
            = [skins |-> synced.skins, rules |-> config.rules, presets |-> presets]
      <4> HIDE DEF synced
      <4>1. synced.presets = config.presets /\ synced.rules = config.rules
        BY <1>5
      <4>2. synced = [ skins |-> synced.skins, rules |-> synced.rules,
                       presets |-> synced.presets ]
        BY <1>5, StagedParts
      <4> QED
        BY <4>1, <4>2
    <3>8. Stage([synced EXCEPT !.presets[selected_preset].profiles = entries])
      BY <2>1 DEF ToggleProfile, entries
    <3> HIDE DEF synced, presets
    <3>9. config' = [skins |-> synced.skins, rules |-> config.rules, presets |-> presets]
          /\ FlagsOK'
      BY <1>1, <3>7, <3>8, StageFlags
    <3> QED
      BY <1>1, <1>5, <3>6, <3>9, StagedParts, StagedType
  <2>2. CASE ~ (ToggleProfile /\ selected_preset # None)
    <3>1. Stage(synced)
      BY <2>2 DEF ToggleProfile, SyncProfileFields
    <3>2. config' = synced /\ FlagsOK'
      BY <1>1, <3>1, StageFlags
    <3> QED
      BY <1>5, <3>2
  <2> QED
    BY <2>1, <2>2
<1>7. /\ selected_skin' = selected_skin /\ selected_preset' = selected_preset
      /\ KeepRuleEditor
  BY DEF ToggleProfile, SyncProfileFields
<1>8. RuleEditorOK'
  BY <1>1, <1>6, <1>7, RuleEditorStays
<1>9. ProfileEditorOK'
  BY <1>3, <1>4, <1>5, <1>6, <1>7 DEF ProfileEditorOK
<1> QED
  BY <1>1, <1>6, <1>7, <1>8, <1>9, FormsPartsNext DEF PresetOK

LEMMA DeleteProfileForms ==
  ASSUME FormsInv, DeleteSelectedProfile
  PROVE  FormsInv'
<1>1. /\ IsStaged(config) /\ FlagsOK /\ ProfileEditorOK /\ RuleEditorOK /\ PresetOK
  BY FormsParts
<1> DEFINE skins   == Without(config.skins, selected_skin)
           rules   == RulesLeft(selected_skin)
           presets == [p \in DOMAIN config.presets |->
                        [ profiles |-> Without(config.presets[p].profiles, selected_skin),
                          rules    |-> WithoutKeys(config.presets[p].rules,
                                                   RemovedKeys(selected_skin)) ]]
<1>2. config' = [skins |-> skins, rules |-> rules, presets |-> presets] /\ FlagsOK'
  BY <1>1, StageFlags DEF DeleteSelectedProfile, WithoutProfile
<1>3. IsMap(skins, Skins, SkinDefinition)
  BY <1>1, StagedParts, TableTypes
<1>4. rules \in Seq(SkinRule) /\ Len(rules) <= MaxRules
  BY <1>1, RulesLeftType, StagedParts, EditorAssumption
<1>5. IsMap(presets, Presets, Preset) /\ DOMAIN presets = DOMAIN config.presets
  <2>1. IsMap(config.presets, Presets, Preset)
    BY <1>1, StagedParts
  <2>2. ASSUME NEW p \in DOMAIN config.presets PROVE presets[p] \in Preset
    <3>1. /\ IsMap(config.presets[p].profiles, Skins, BOOLEAN)
          /\ IsMap(config.presets[p].rules, Keys, BOOLEAN)
      BY <2>1, PresetParts DEF IsMap
    <3> QED
      BY <3>1, TableTypes, PresetType
  <2>3. presets = [p \in DOMAIN config.presets |-> presets[p]]
    OBVIOUS
  <2> HIDE DEF presets
  <2> QED
    BY <2>1, <2>2, <2>3, ChangedPresets
<1> HIDE DEF skins, rules, presets
<1>6. IsStaged(config)'
  BY <1>2, <1>3, <1>4, <1>5, StagedType
<1> QED
  BY <1>1, <1>2, <1>5, <1>6, FormsPartsNext, ProfileEditorCleared, RuleEditorCleared
  DEF DeleteSelectedProfile, PresetOK

LEMMA AddRuleForms ==
  ASSUME FormsInv, AddRule
  PROVE  FormsInv'
<1>1. /\ IsStaged(config) /\ FlagsOK /\ ProfileEditorOK /\ RuleEditorOK /\ PresetOK
  BY FormsParts
<1> DEFINE Rule(skin) == [ profile_id |-> skin, enabled |-> TRUE,
                           player_name |-> None, server_model_id |-> None ]
           Added(skin) == [config EXCEPT !.rules = Append(@, Rule(skin))]
<1>2. PICK skin \in DOMAIN config.skins :
        Stage(Added(skin)) /\ ShowRule(Added(skin), Len(Added(skin).rules))
  BY DEF AddRule
<1>3. Rule(skin) \in SkinRule
  BY <1>1, StagedParts DEF SkinRule, IsMap
<1> DEFINE rules == Append(config.rules, Rule(skin))
<1>4. /\ rules \in Seq(SkinRule) /\ Len(rules) = Len(config.rules) + 1
      /\ DOMAIN rules = DOMAIN config.rules \cup {Len(config.rules) + 1}
      /\ \A i \in DOMAIN config.rules : rules[i] = config.rules[i]
      /\ Len(config.rules) \in Nat /\ DOMAIN config.rules = 1 .. Len(config.rules)
  <2> HIDE DEF Rule
  <2> QED
    BY <1>1, <1>3, StagedParts, AddedRule
<1>5. config' = [skins |-> config.skins, rules |-> rules, presets |-> config.presets]
      /\ FlagsOK'
  BY <1>1, <1>2, StageFlags, StagedParts
<1>6. ShowRule(config', Len(rules)) /\ KeepProfileEditor
      /\ selected_preset' = selected_preset
  BY <1>2, <1>5 DEF Stage, AddRule
<1> HIDE DEF rules
<1>7. Len(rules) <= MaxRules
  BY <1>4, EditorAssumption DEF AddRule
<1>8. IsStaged(config)'
  BY <1>1, <1>4, <1>5, <1>7, StagedParts, StagedType
<1>9. RuleEditorOK'
  BY <1>4, <1>5, <1>6, <1>8, RuleEditorShows
<1>10. ProfileEditorOK'
  BY <1>1, <1>5, <1>6, ProfileEditorStays
<1> QED
  BY <1>1, <1>5, <1>6, <1>8, <1>9, <1>10, FormsPartsNext DEF PresetOK

LEMMA SyncRuleProfileForms ==
  ASSUME FormsInv, NEW skin \in Skins, SyncRuleProfile(skin)
  PROVE  FormsInv'
<1>1. /\ IsStaged(config) /\ FlagsOK /\ ProfileEditorOK /\ RuleEditorOK /\ PresetOK
  BY FormsParts
<1> DEFINE at    == selected_rule
           rule  == [config.rules[at] EXCEPT !.profile_id = skin]
           rules == [config.rules EXCEPT ![at] = rule]
<1>2. at \in DOMAIN config.rules /\ config.rules[at] \in SkinRule
  BY <1>1, StagedParts DEF SyncRuleProfile, RuleEditorOK
<1>3. rule \in SkinRule /\ Conditions(rule) = Conditions(config.rules[at])
  BY <1>2 DEF SkinRule, Conditions
<1>4. config' = [skins |-> config.skins, rules |-> rules, presets |-> config.presets]
      /\ FlagsOK'
  BY <1>1, StageFlags, StagedParts DEF SyncRuleProfile
<1> HIDE DEF rule
<1>5. /\ rules \in Seq(SkinRule) /\ Len(rules) = Len(config.rules)
      /\ DOMAIN rules = DOMAIN config.rules /\ rules[at] = rule
      /\ \A k \in DOMAIN config.rules \ {at} : rules[k] = config.rules[k]
  BY <1>1, <1>2, <1>3, StagedParts, ChangedRule
<1> HIDE DEF rules
<1>6. IsStaged(config)'
  BY <1>1, <1>4, <1>5, StagedParts, StagedType
<1>7. KeepProfileEditor /\ KeepRuleEditor /\ selected_preset' = selected_preset
  BY DEF SyncRuleProfile, editorVars, KeepProfileEditor, KeepRuleEditor
<1>8. RuleEditorOK'
  <2>1. \A i \in DOMAIN config.rules :
          Conditions(config'.rules[i]) = Conditions(config.rules[i])
    BY <1>3, <1>4, <1>5
  <2> QED
    BY <1>1, <1>4, <1>5, <1>7, <2>1, RuleEditorStays
<1>9. ProfileEditorOK'
  BY <1>1, <1>4, <1>7, ProfileEditorStays
<1> QED
  BY <1>1, <1>4, <1>6, <1>7, <1>8, <1>9, FormsPartsNext DEF PresetOK

\* The rule that a form makes of the selected one.
FormRule(form) ==
  [ profile_id      |-> config.rules[selected_rule].profile_id,
    enabled         |-> form.enabled,
    player_name     |-> form.player_name,
    server_model_id |-> form.server_model_id ]

\* Writing a form into the selected rule changes that rule and, where its key
\* changes, moves the entries of that key.
LEMMA WithConditionsType ==
  ASSUME IsStaged(config), selected_rule \in DOMAIN config.rules, NEW form \in RuleForm
  PROVE  /\ FormRule(form) \in SkinRule /\ Conditions(FormRule(form)) = form
         /\ IsStaged(WithConditions(form))
         /\ WithConditions(form).skins = config.skins
         /\ WithConditions(form).rules
              = [config.rules EXCEPT ![selected_rule] = FormRule(form)]
         /\ DOMAIN WithConditions(form).rules = DOMAIN config.rules
         /\ WithConditions(form).rules[selected_rule] = FormRule(form)
         /\ \A k \in DOMAIN config.rules \ {selected_rule} :
              WithConditions(form).rules[k] = config.rules[k]
         /\ DOMAIN WithConditions(form).presets = DOMAIN config.presets
         /\ \A p \in DOMAIN config.presets :
              /\ WithConditions(form).presets[p].profiles = config.presets[p].profiles
              /\ WithConditions(form).presets[p].rules =
                   IF Key(FormRule(form)) = Key(config.rules[selected_rule])
                   THEN config.presets[p].rules
                   ELSE Moved(config.presets[p].rules, Key(config.rules[selected_rule]),
                              Key(FormRule(form)))
<1> DEFINE rule     == FormRule(form)
           previous == Key(config.rules[selected_rule])
           rules    == [config.rules EXCEPT ![selected_rule] = rule]
           presets  == [p \in DOMAIN config.presets |->
                         IF Key(rule) = previous THEN config.presets[p]
                         ELSE [config.presets[p] EXCEPT
                                 !.rules = Moved(@, previous, Key(rule))]]
<1>1. config.rules[selected_rule] \in SkinRule
  BY StagedParts
<1>2. rule \in SkinRule /\ Conditions(rule) = form
  BY <1>1 DEF FormRule, SkinRule, RuleForm, Conditions
<1>3. WithConditions(form) = [skins |-> config.skins, rules |-> rules, presets |-> presets]
  BY Zenon DEF WithConditions, FormRule
<1> HIDE DEF rule
<1>4. /\ rules \in Seq(SkinRule) /\ Len(rules) = Len(config.rules)
      /\ DOMAIN rules = DOMAIN config.rules /\ rules[selected_rule] = rule
      /\ \A k \in DOMAIN config.rules \ {selected_rule} : rules[k] = config.rules[k]
  BY <1>2, StagedParts, ChangedRule
<1>5. ASSUME NEW p \in DOMAIN config.presets
      PROVE  /\ presets[p] \in Preset
             /\ presets[p].profiles = config.presets[p].profiles
             /\ presets[p].rules =
                  IF Key(rule) = previous THEN config.presets[p].rules
                  ELSE Moved(config.presets[p].rules, previous, Key(rule))
  <2>1. config.presets[p] \in Preset
    BY StagedParts DEF IsMap
  <2>2. CASE Key(rule) = previous
    BY <2>1, <2>2
  <2>3. CASE Key(rule) # previous
    <3>1. Key(rule) \in Keys
      BY <1>2, ConditionsType
    <3>2. IsMap(config.presets[p].rules, Keys, BOOLEAN)
      BY <2>1, PresetParts
    <3>3. IsMap(Moved(config.presets[p].rules, previous, Key(rule)), Keys, BOOLEAN)
      BY <3>1, <3>2, TableTypes
    <3>4. presets[p] = [config.presets[p] EXCEPT
                          !.rules = Moved(config.presets[p].rules, previous, Key(rule))]
      BY <2>3
    <3>5. presets[p] \in Preset
      BY <2>1, <3>3, <3>4, PresetWith
    <3> QED
      BY <2>1, <2>3, <3>4, <3>5, PresetParts
  <2> QED
    BY <2>2, <2>3
<1>6. IsMap(presets, Presets, Preset) /\ DOMAIN presets = DOMAIN config.presets
  <2>1. IsMap(config.presets, Presets, Preset)
    BY StagedParts
  <2>2. presets = [p \in DOMAIN config.presets |-> presets[p]]
    OBVIOUS
  <2> HIDE DEF presets
  <2> QED
    BY <1>5, <2>1, <2>2, ChangedPresets
<1> HIDE DEF rules, presets
<1>7. IsStaged(WithConditions(form))
  BY <1>3, <1>4, <1>6, StagedParts, StagedType
<1>8. /\ WithConditions(form).skins = config.skins
      /\ WithConditions(form).rules = rules /\ WithConditions(form).presets = presets
  BY <1>3
<1> QED
  BY <1>2, <1>4, <1>5, <1>6, <1>7, <1>8 DEF rule, rules


\* The selected preset's entry for the rule is all that the checkbox adds.
LEMMA PresetGetsFlagType ==
  ASSUME NEW synced, IsStaged(synced), DOMAIN synced.presets = DOMAIN config.presets,
         PresetOK, NEW rule \in SkinRule
  PROVE  /\ IsStaged(PresetGetsFlag(synced, rule))
         /\ PresetGetsFlag(synced, rule).skins = synced.skins
         /\ PresetGetsFlag(synced, rule).rules = synced.rules
         /\ DOMAIN PresetGetsFlag(synced, rule).presets = DOMAIN config.presets
         /\ \A p \in DOMAIN config.presets :
              /\ PresetGetsFlag(synced, rule).presets[p].profiles
                   = synced.presets[p].profiles
              /\ PresetGetsFlag(synced, rule).presets[p].rules =
                   IF p = selected_preset
                   THEN Put(synced.presets[p].rules, Key(rule), rule.enabled)
                   ELSE synced.presets[p].rules
<1> DEFINE at      == selected_preset
           entries == Put(synced.presets[at].rules, Key(rule), rule.enabled)
           presets == [synced.presets EXCEPT ![at] = [@ EXCEPT !.rules = entries]]
           new     == PresetGetsFlag(synced, rule)
<1>1. /\ synced = [ skins |-> synced.skins, rules |-> synced.rules,
                    presets |-> synced.presets ]
      /\ IsMap(synced.presets, Presets, Preset)
  BY StagedParts
<1>2. CASE at = None
  <2>1. new = synced
    BY <1>2 DEF PresetGetsFlag
  <2>2. \A p \in DOMAIN config.presets : p # at
    BY <1>1, <1>2, EditorAssumption DEF IsMap
  <2> QED
    BY <2>1, <2>2
<1>3. CASE at # None
  <2>1. at \in DOMAIN synced.presets
    BY <1>3 DEF PresetOK
  <2>2. synced.presets[at] \in Preset
    BY <1>1, <2>1 DEF IsMap
  <2>3. Key(rule) \in Keys /\ rule.enabled \in BOOLEAN
    BY ConditionsType DEF SkinRule
  <2>4. IsMap(synced.presets[at].rules, Keys, BOOLEAN)
    BY <2>2, PresetParts
  <2>5. IsMap(entries, Keys, BOOLEAN)
    BY <2>3, <2>4, TableTypes
  <2>6. new = [synced EXCEPT !.presets[at].rules = entries]
    BY <1>3, Zenon DEF PresetGetsFlag
  <2> HIDE DEF entries
  <2>7. [synced.presets[at] EXCEPT !.rules = entries] \in Preset
    BY <2>2, <2>5, PresetWith
  <2>8. IsMap(presets, Presets, Preset)
    BY <1>1, <2>1, <2>7 DEF IsMap
  <2>9. /\ DOMAIN presets = DOMAIN synced.presets
        /\ presets[at] = [synced.presets[at] EXCEPT !.rules = entries]
        /\ \A p \in DOMAIN synced.presets \ {at} : presets[p] = synced.presets[p]
    BY <2>1
  <2>10. /\ presets[at].rules = entries
         /\ presets[at].profiles = synced.presets[at].profiles
    BY <2>2, <2>9 DEF Preset
  <2>11. new = [skins |-> synced.skins, rules |-> synced.rules, presets |-> presets]
    <3> HIDE DEF new
    <3> QED
      BY <1>1, <2>6
  <2> HIDE DEF presets, new
  <2>12. IsStaged(new)
    BY <1>1, <2>8, <2>11, StagedParts, StagedType
  <2>13. new.skins = synced.skins /\ new.rules = synced.rules /\ new.presets = presets
    BY <2>11
  <2>14. ASSUME NEW p \in DOMAIN config.presets
         PROVE  /\ presets[p].profiles = synced.presets[p].profiles
                /\ presets[p].rules =
                     IF p = at THEN Put(synced.presets[p].rules, Key(rule), rule.enabled)
                     ELSE synced.presets[p].rules
    BY <2>9, <2>10 DEF entries
  <2> QED
    BY <2>9, <2>12, <2>13, <2>14 DEF new
<1> QED
  BY <1>2, <1>3

\* A condition of the selected rule is typed, or its box is ticked: the rule
\* is written from the form, and the entries follow it.
LEMMA SyncRuleParts ==
  ASSUME FormsInv,
         \/ ToggleRule
         \/ \E name \in Names \cup {None}, model \in Models \cup {None} :
              SyncRuleConditions(name, model)
  PROVE  /\ selected_rule \in DOMAIN config.rules
         /\ rule_form' \in RuleForm
         /\ IsStaged(config)' /\ FlagsOK'
         /\ config'.skins = config.skins
         /\ config'.rules = WithConditions(rule_form').rules
         /\ DOMAIN config'.presets = DOMAIN config.presets
         /\ selected_rule' = selected_rule /\ selected_preset' = selected_preset
         /\ KeepProfileEditor
<1>1. /\ IsStaged(config) /\ FlagsOK /\ ProfileEditorOK /\ RuleEditorOK /\ PresetOK
  BY FormsParts
<1>2. selected_rule \in DOMAIN config.rules
  BY <1>1 DEF RuleEditorOK, ToggleRule, SyncRuleConditions
<1>3. rule_form \in RuleForm
  <2>1. config.rules[selected_rule] \in SkinRule
    BY <1>1, <1>2, StagedParts
  <2>2. selected_rule # 0
    BY DEF ToggleRule, SyncRuleConditions
  <2>3. rule_form = Conditions(config.rules[selected_rule])
    BY <1>1, <2>2 DEF RuleEditorOK
  <2> QED
    BY <2>1, <2>3, ConditionsType
<1>4. rule_form' \in RuleForm
  <2>1. CASE ToggleRule
    BY <1>3, <2>1 DEF ToggleRule, RuleForm
  <2>2. ASSUME NEW name \in Names \cup {None}, NEW model \in Models \cup {None},
               SyncRuleConditions(name, model)
        PROVE  rule_form' \in RuleForm
    BY <1>3, <2>2 DEF SyncRuleConditions, RuleForm
  <2> QED
    BY <2>1, <2>2
<1> DEFINE synced == WithConditions(rule_form')
           rule   == synced.rules[selected_rule]
<1>5. /\ IsStaged(synced) /\ synced.skins = config.skins
      /\ DOMAIN synced.presets = DOMAIN config.presets /\ rule \in SkinRule
  BY <1>1, <1>2, <1>4, WithConditionsType
<1>6. CASE ToggleRule
  <2>1. Stage(PresetGetsFlag(synced, rule))
    BY <1>6 DEF ToggleRule
  <2> HIDE DEF synced, rule
  <2>2. config' = PresetGetsFlag(synced, rule) /\ FlagsOK'
    BY <1>1, <2>1, StageFlags
  <2>3. /\ IsStaged(config') /\ config'.skins = synced.skins
        /\ config'.rules = synced.rules
        /\ DOMAIN config'.presets = DOMAIN config.presets
    BY <1>1, <1>5, <2>2, PresetGetsFlagType
  <2> QED
    BY <1>2, <1>4, <1>5, <1>6, <2>2, <2>3 DEF ToggleRule, synced
<1>7. ASSUME NEW name \in Names \cup {None}, NEW model \in Models \cup {None},
             SyncRuleConditions(name, model)
      PROVE  /\ IsStaged(config)' /\ FlagsOK' /\ config' = synced
             /\ selected_rule' = selected_rule /\ selected_preset' = selected_preset
             /\ KeepProfileEditor
  <2>1. Stage(synced)
    BY <1>7 DEF SyncRuleConditions
  <2> HIDE DEF synced
  <2>2. config' = synced /\ FlagsOK'
    BY <1>1, <2>1, StageFlags
  <2> QED
    BY <1>5, <1>7, <2>2 DEF SyncRuleConditions
<1> HIDE DEF rule
<1> QED
  BY <1>2, <1>4, <1>5, <1>6, <1>7

LEMMA SyncRuleForms ==
  ASSUME FormsInv,
         \/ ToggleRule
         \/ \E name \in Names \cup {None}, model \in Models \cup {None} :
              SyncRuleConditions(name, model)
  PROVE  FormsInv'
<1>1. /\ IsStaged(config) /\ ProfileEditorOK /\ PresetOK
  BY FormsParts
<1>2. /\ selected_rule \in DOMAIN config.rules
      /\ rule_form' \in RuleForm
      /\ IsStaged(config)' /\ FlagsOK'
      /\ config'.skins = config.skins
      /\ config'.rules = WithConditions(rule_form').rules
      /\ DOMAIN config'.presets = DOMAIN config.presets
      /\ selected_rule' = selected_rule /\ selected_preset' = selected_preset
      /\ KeepProfileEditor
  BY SyncRuleParts
<1>3. /\ Conditions(config'.rules[selected_rule]) = rule_form'
      /\ DOMAIN config'.rules = DOMAIN config.rules
  BY <1>1, <1>2, WithConditionsType
<1>4. RuleEditorOK'
  BY <1>2, <1>3 DEF RuleEditorOK
<1>5. ProfileEditorOK'
  BY <1>1, <1>2, ProfileEditorStays
<1> QED
  BY <1>1, <1>2, <1>4, <1>5, FormsPartsNext DEF PresetOK

LEMMA DeleteRuleForms ==
  ASSUME FormsInv, DeleteSelectedRule
  PROVE  FormsInv'
<1>1. /\ IsStaged(config) /\ FlagsOK /\ ProfileEditorOK /\ RuleEditorOK /\ PresetOK
  BY FormsParts
<1> DEFINE key     == Key(config.rules[selected_rule])
           rules   == RemoveAt(config.rules, selected_rule)
           presets == [p \in DOMAIN config.presets |->
                        [config.presets[p] EXCEPT !.rules = Without(@, key)]]
<1>2. config' = [skins |-> config.skins, rules |-> rules, presets |-> presets]
      /\ FlagsOK'
  BY <1>1, StageFlags DEF DeleteSelectedRule
<1>3. rules \in Seq(SkinRule) /\ Len(rules) <= MaxRules
  <2>1. selected_rule \in DOMAIN config.rules /\ config.rules \in Seq(SkinRule)
        /\ Len(config.rules) \in Nat /\ Len(config.rules) <= MaxRules
    BY <1>1, StagedParts DEF DeleteSelectedRule, RuleEditorOK
  <2>2. rules \in Seq(SkinRule) /\ Len(rules) = Len(config.rules) - 1
    BY <2>1, RemoveAtType
  <2> QED
    BY <2>1, <2>2, EditorAssumption
<1>4. IsMap(presets, Presets, Preset) /\ DOMAIN presets = DOMAIN config.presets
  <2>1. IsMap(config.presets, Presets, Preset)
    BY <1>1, StagedParts
  <2>2. ASSUME NEW p \in DOMAIN config.presets PROVE presets[p] \in Preset
    <3>1. config.presets[p] \in Preset
      BY <2>1 DEF IsMap
    <3>2. IsMap(Without(config.presets[p].rules, key), Keys, BOOLEAN)
      BY <3>1, PresetParts, TableTypes
    <3> HIDE DEF key
    <3> QED
      BY <3>1, <3>2, PresetWith
  <2>3. presets = [p \in DOMAIN config.presets |-> presets[p]]
    OBVIOUS
  <2> HIDE DEF presets
  <2> QED
    BY <2>1, <2>2, <2>3, ChangedPresets
<1> HIDE DEF rules, presets
<1>5. IsStaged(config)'
  BY <1>1, <1>2, <1>3, <1>4, StagedParts, StagedType
<1>6. ProfileEditorOK'
  BY <1>1, <1>2, ProfileEditorStays DEF DeleteSelectedRule
<1> QED
  BY <1>1, <1>2, <1>4, <1>5, <1>6, FormsPartsNext, RuleEditorCleared
  DEF DeleteSelectedRule, PresetOK

-----------------------------------------------------------------------------
\* Of several rules with one key, the preset gets the flag of the last.
LEMMA ActivationStateType ==
  ASSUME IsStaged(config)
  PROVE  /\ ActivationState \in Preset
         /\ DOMAIN ActivationState.profiles = DOMAIN config.skins
         /\ DOMAIN ActivationState.rules
              = {Key(config.rules[i]) : i \in DOMAIN config.rules}
         /\ \A s \in DOMAIN config.skins :
              ActivationState.profiles[s] = config.skins[s].enabled
         /\ ~ KeysCross(config.rules) =>
              \A i \in DOMAIN config.rules :
                ActivationState.rules[Key(config.rules[i])] = config.rules[i].enabled
<1> DEFINE keys     == {Key(config.rules[i]) : i \in DOMAIN config.rules}
           On(key)  == \E i \in DOMAIN config.rules :
                         /\ Key(config.rules[i]) = key
                         /\ config.rules[i].enabled
                         /\ \A j \in i + 1 .. Len(config.rules) :
                              Key(config.rules[j]) # key
           profiles == [s \in DOMAIN config.skins |-> config.skins[s].enabled]
           rules    == [key \in keys |-> On(key)]
<1>1. /\ IsMap(config.skins, Skins, SkinDefinition)
      /\ \A i \in DOMAIN config.rules : config.rules[i] \in SkinRule
      /\ DOMAIN config.rules = 1 .. Len(config.rules) /\ Len(config.rules) \in Nat
  BY StagedParts
<1>2. ActivationState = [profiles |-> profiles, rules |-> rules]
  BY Zenon DEF ActivationState
<1>3. IsMap(profiles, Skins, BOOLEAN)
  BY <1>1 DEF IsMap, SkinDefinition
<1>4. IsMap(rules, Keys, BOOLEAN)
  <2>1. keys \subseteq Keys
    BY <1>1, ConditionsType
  <2>2. \A key : On(key) \in BOOLEAN
    BY Zenon
  <2> HIDE DEF On, keys
  <2> QED
    BY <2>1, <2>2 DEF IsMap
<1>5. ASSUME ~ KeysCross(config.rules), NEW i \in DOMAIN config.rules
      PROVE  rules[Key(config.rules[i])] = config.rules[i].enabled
  <2>1. \A j \in DOMAIN config.rules :
          Key(config.rules[j]) = Key(config.rules[i]) => j = i
    BY <1>5, Zenon DEF KeysCross
  <2>2. \A j \in i + 1 .. Len(config.rules) : j \in DOMAIN config.rules /\ j # i
    BY <1>1, <1>5
  <2>3. config.rules[i].enabled \in BOOLEAN
    BY <1>1, <1>5 DEF SkinRule
  <2>4. On(Key(config.rules[i])) <=> config.rules[i].enabled
    BY <2>1, <2>2, Zenon
  <2>5. Key(config.rules[i]) \in keys
    BY <1>5
  <2>6. On(Key(config.rules[i])) \in BOOLEAN
    BY Zenon
  <2> HIDE DEF On, keys
  <2> QED
    BY <2>3, <2>4, <2>5, <2>6
<1> HIDE DEF profiles, rules
<1>6. ActivationState \in Preset
  BY <1>2, <1>3, <1>4, PresetType
<1>7. DOMAIN profiles = DOMAIN config.skins /\ DOMAIN rules = keys
      /\ \A s \in DOMAIN config.skins : profiles[s] = config.skins[s].enabled
  BY DEF profiles, rules
<1> HIDE DEF keys
<1> QED
  BY <1>2, <1>5, <1>6, <1>7 DEF keys

LEMMA AddPresetForms ==
  ASSUME FormsInv, AddPreset
  PROVE  FormsInv'
<1>1. /\ IsStaged(config) /\ FlagsOK /\ ProfileEditorOK /\ RuleEditorOK /\ PresetOK
  BY FormsParts
<1>2. PICK preset \in Presets :
        /\ Stage([config EXCEPT !.presets = Put(@, preset, ActivationState)])
        /\ selected_preset' = preset
  BY DEF AddPreset
<1>3. IsMap(config.presets, Presets, Preset) /\ ActivationState \in Preset
  BY <1>1, StagedParts, ActivationStateType
<1> DEFINE presets == Put(config.presets, preset, ActivationState)
<1>4. IsMap(presets, Presets, Preset)
  BY <1>3, TableTypes
<1>5. preset \in DOMAIN presets
  BY DEF Put
<1> HIDE DEF presets
<1>6. config' = [skins |-> config.skins, rules |-> config.rules, presets |-> presets]
      /\ FlagsOK'
  BY <1>1, <1>2, StageFlags, StagedParts DEF presets
<1>7. IsStaged(config)'
  BY <1>1, <1>4, <1>6, StagedParts, StagedType
<1>8. KeepProfileEditor /\ KeepRuleEditor
  BY DEF AddPreset, editorVars, KeepProfileEditor, KeepRuleEditor
<1>9. ProfileEditorOK' /\ RuleEditorOK'
  BY <1>1, <1>6, <1>8, ProfileEditorStays, RuleEditorStays
<1> QED
  BY <1>2, <1>5, <1>6, <1>7, <1>9, FormsPartsNext DEF PresetOK

LEMMA SyncPresetNameForms ==
  ASSUME FormsInv, NEW preset \in Presets, SyncPresetName(preset)
  PROVE  FormsInv'
<1>1. /\ IsStaged(config) /\ FlagsOK /\ ProfileEditorOK /\ RuleEditorOK /\ PresetOK
  BY FormsParts
<1> DEFINE presets == Moved(config.presets, selected_preset, preset)
<1>2. IsMap(config.presets, Presets, Preset)
  BY <1>1, StagedParts
<1>3. IsMap(presets, Presets, Preset)
  BY <1>2, TableTypes
<1>4. preset \in DOMAIN presets
  BY <1>1 DEF SyncPresetName, PresetOK, Moved, Put
<1>5. config' = [skins |-> config.skins, rules |-> config.rules, presets |-> presets]
      /\ FlagsOK'
  BY <1>1, StageFlags, StagedParts DEF SyncPresetName
<1> HIDE DEF presets
<1>6. IsStaged(config)'
  BY <1>1, <1>3, <1>5, StagedParts, StagedType
<1>7. KeepProfileEditor /\ KeepRuleEditor
  BY DEF SyncPresetName, editorVars, KeepProfileEditor, KeepRuleEditor
<1>8. ProfileEditorOK' /\ RuleEditorOK'
  BY <1>1, <1>5, <1>7, ProfileEditorStays, RuleEditorStays
<1> QED
  BY <1>4, <1>5, <1>6, <1>8, FormsPartsNext DEF SyncPresetName, PresetOK

\* A preset changes which profiles and rules are enabled, and no more.
LEMMA ActivatedType ==
  ASSUME IsStaged(config), NEW preset \in Preset
  PROVE  /\ IsStaged(Activated(preset))
         /\ DOMAIN Activated(preset).skins = DOMAIN config.skins
         /\ DOMAIN Activated(preset).rules = DOMAIN config.rules
         /\ Activated(preset).presets = config.presets
         /\ \A s \in DOMAIN config.skins :
              Activated(preset).skins[s].enabled = Enables(preset.profiles, s)
         /\ \A i \in DOMAIN config.rules :
              /\ Key(Activated(preset).rules[i]) = Key(config.rules[i])
              /\ Activated(preset).rules[i].enabled
                   = Enables(preset.rules, Key(config.rules[i]))
<1> DEFINE skins == [s \in DOMAIN config.skins |->
                      [config.skins[s] EXCEPT !.enabled = Enables(preset.profiles, s)]]
           rules == [i \in DOMAIN config.rules |->
                      [config.rules[i] EXCEPT
                         !.enabled = Enables(preset.rules, Key(config.rules[i]))]]
<1>1. /\ IsMap(config.skins, Skins, SkinDefinition)
      /\ config.rules \in Seq(SkinRule) /\ Len(config.rules) <= MaxRules
      /\ \A i \in DOMAIN config.rules : config.rules[i] \in SkinRule
      /\ IsMap(config.presets, Presets, Preset)
  BY StagedParts
<1>2. \A entries, key : IsMap(entries, Skins, BOOLEAN) => Enables(entries, key) \in BOOLEAN
  BY DEF Enables, IsMap
<1>3. \A entries, key : IsMap(entries, Keys, BOOLEAN) => Enables(entries, key) \in BOOLEAN
  BY DEF Enables, IsMap
<1>4. /\ \A key : Enables(preset.profiles, key) \in BOOLEAN
      /\ \A key : Enables(preset.rules, key) \in BOOLEAN
  BY <1>2, <1>3, PresetParts
<1>5. ASSUME NEW s \in DOMAIN config.skins
      PROVE  skins[s] \in SkinDefinition
             /\ skins[s].enabled = Enables(preset.profiles, s)
  <2>1. config.skins[s] \in SkinDefinition
    BY <1>1 DEF IsMap
  <2> QED
    BY <1>4, <2>1 DEF SkinDefinition
<1>6. IsMap(skins, Skins, SkinDefinition) /\ DOMAIN skins = DOMAIN config.skins
  BY <1>1, <1>5 DEF IsMap
<1>7. ASSUME NEW i \in DOMAIN config.rules
      PROVE  /\ rules[i] \in SkinRule
             /\ Key(rules[i]) = Key(config.rules[i])
             /\ rules[i].enabled = Enables(preset.rules, Key(config.rules[i]))
  <2> DEFINE flag == Enables(preset.rules, Key(config.rules[i]))
  <2>1. rules[i] = [config.rules[i] EXCEPT !.enabled = flag]
    OBVIOUS
  <2>2. flag \in BOOLEAN /\ config.rules[i] \in SkinRule
    BY <1>1, <1>4
  <2> HIDE DEF flag, rules
  <2>3. /\ rules[i] \in SkinRule /\ Key(rules[i]) = Key(config.rules[i])
        /\ rules[i].enabled = flag
    BY <2>1, <2>2 DEF SkinRule, Key
  <2> QED
    BY <2>3 DEF flag
<1>8. rules \in Seq(SkinRule) /\ Len(rules) = Len(config.rules)
      /\ DOMAIN rules = DOMAIN config.rules
  <2>1. rules = [i \in DOMAIN config.rules |-> rules[i]]
    OBVIOUS
  <2> HIDE DEF rules
  <2> QED
    BY <1>1, <1>7, <2>1, SamePositions
<1>9. Activated(preset)
        = [skins |-> skins, rules |-> rules, presets |-> config.presets]
  BY Zenon DEF Activated
<1> HIDE DEF skins, rules
<1>10. IsStaged(Activated(preset))
  BY <1>1, <1>6, <1>8, <1>9, StagedType
<1> QED
  BY <1>5, <1>6, <1>7, <1>8, <1>9, <1>10

LEMMA SelectPresetForms ==
  ASSUME FormsInv, NEW preset \in Presets, SelectPreset(preset)
  PROVE  FormsInv'
<1>1. /\ IsStaged(config) /\ FlagsOK /\ ProfileEditorOK /\ RuleEditorOK /\ PresetOK
  BY FormsParts
<1>2. preset \in DOMAIN config.presets
  BY DEF SelectPreset
<1> DEFINE new == Activated(config.presets[preset])
<1>3. config.presets[preset] \in Preset
  BY <1>1, <1>2, StagedParts DEF IsMap
<1>4. /\ IsStaged(new) /\ DOMAIN new.skins = DOMAIN config.skins
      /\ DOMAIN new.rules = DOMAIN config.rules /\ new.presets = config.presets
  BY <1>1, <1>3, ActivatedType
<1>5. /\ Stage(new)
      /\ IF selected_skin = None THEN KeepProfileEditor ELSE ShowProfile(new, selected_skin)
      /\ IF selected_rule = 0 THEN KeepRuleEditor ELSE ShowRule(new, selected_rule)
  BY DEF SelectPreset
<1> HIDE DEF new
<1>6. config' = new /\ FlagsOK'
  BY <1>1, <1>5, StageFlags
<1>7. ProfileEditorOK'
  <2>1. CASE selected_skin = None
    BY <1>1, <1>5, <2>1 DEF ProfileEditorOK, KeepProfileEditor
  <2>2. CASE selected_skin # None
    <3>1. selected_skin \in DOMAIN config'.skins /\ ShowProfile(config', selected_skin)
      BY <1>1, <1>4, <1>5, <1>6, <2>2 DEF ProfileEditorOK
    <3> QED
      BY <1>4, <1>6, <3>1, ProfileEditorShows
  <2> QED
    BY <2>1, <2>2
<1>8. RuleEditorOK'
  <2>1. CASE selected_rule = 0
    BY <1>1, <1>5, <2>1 DEF RuleEditorOK, KeepRuleEditor
  <2>2. CASE selected_rule # 0
    <3>1. selected_rule \in DOMAIN config'.rules /\ ShowRule(config', selected_rule)
      BY <1>1, <1>4, <1>5, <1>6, <2>2 DEF RuleEditorOK
    <3> QED
      BY <1>4, <1>6, <3>1, RuleEditorShows
  <2> QED
    BY <2>1, <2>2
<1> QED
  BY <1>2, <1>4, <1>6, <1>7, <1>8, FormsPartsNext DEF SelectPreset, PresetOK

LEMMA DeletePresetForms ==
  ASSUME FormsInv, DeleteSelectedPreset
  PROVE  FormsInv'
<1>1. /\ IsStaged(config) /\ FlagsOK /\ ProfileEditorOK /\ RuleEditorOK /\ PresetOK
  BY FormsParts
<1> DEFINE presets == Without(config.presets, selected_preset)
<1>2. IsMap(presets, Presets, Preset)
  BY <1>1, StagedParts, TableTypes
<1>3. config' = [skins |-> config.skins, rules |-> config.rules, presets |-> presets]
      /\ FlagsOK'
  BY <1>1, StageFlags, StagedParts DEF DeleteSelectedPreset
<1> HIDE DEF presets
<1>4. IsStaged(config)'
  BY <1>1, <1>2, <1>3, StagedParts, StagedType
<1>5. KeepProfileEditor /\ KeepRuleEditor
  BY DEF DeleteSelectedPreset, editorVars, KeepProfileEditor, KeepRuleEditor
<1>6. ProfileEditorOK' /\ RuleEditorOK'
  BY <1>1, <1>3, <1>5, ProfileEditorStays, RuleEditorStays
<1> QED
  BY <1>3, <1>4, <1>6, FormsPartsNext DEF DeleteSelectedPreset, PresetOK

LEMMA FormsStep ==
  ASSUME FormsInv, [Next]_vars
  PROVE  FormsInv'
<1>1. CASE UNCHANGED vars
  BY <1>1 DEF FormsInv, TypeOK, EditorShowsSelection, vars, editorVars
<1>2. CASE LoadConfig \/ SaveConfig \/ DrawRuntimeSettings
  BY <1>2, FileForms, SettingsForms
<1>3. CASE DrawProfiles
  BY <1>3, AddProfileForms, SelectForms, SyncProfileIdForms, SyncProfileForms,
     DeleteProfileForms DEF DrawProfiles
<1>4. CASE DrawRules
  BY <1>4, AddRuleForms, SelectForms, SyncRuleProfileForms, SyncRuleForms,
     DeleteRuleForms DEF DrawRules
<1>5. CASE DrawPresets
  BY <1>5, AddPresetForms, SyncPresetNameForms, SelectPresetForms, DeletePresetForms
  DEF DrawPresets
<1> QED
  BY <1>1, <1>2, <1>3, <1>4, <1>5 DEF Next

LEMMA FormsAlways == Spec => []FormsInv
  BY InitForms, FormsStep, PTL DEF Spec

\* Whatever the user clicks and types, and whatever the file holds, the staged
\* configuration keeps its types, and the selections are of things that are
\* there: no frame of the editor indexes a table with a key that has gone.
THEOREM TypeCorrect == Spec => []TypeOK
<1>1. FormsInv => TypeOK
  BY DEF FormsInv
<1> QED
  BY <1>1, FormsAlways, PTL

\* The forms show what is staged for what is selected, after every widget, so
\* that writing a whole form back (sync_profile_fields, sync_rule_conditions)
\* changes only the field that was edited.
THEOREM FormsShowSelection == Spec => []EditorShowsSelection
<1>1. FormsInv => EditorShowsSelection
  BY DEF FormsInv
<1> QED
  BY <1>1, FormsAlways, PTL

-----------------------------------------------------------------------------
(***************************************************************************)
(* The entries of the presets.  What the editor deletes or renames it       *)
(* deletes or renames in every preset, so no entry is of something gone    *)
(* unless a file that is loaded already has such an entry.                 *)
(***************************************************************************)
StagedKeys(staged) == {Key(staged.rules[i]) : i \in DOMAIN staged.rules}

Living(preset, staged) ==
  /\ DOMAIN preset.profiles \subseteq DOMAIN staged.skins
  /\ DOMAIN preset.rules \subseteq StagedKeys(staged)

LEMMA LivingParts ==
  ASSUME NEW staged
  PROVE  NamesTheLiving(staged)
           <=> \A p \in DOMAIN staged.presets : Living(staged.presets[p], staged)
  BY DEF NamesTheLiving, Living, StagedKeys

\* Presets that are kept, while profiles and keys are only added.
LEMMA LivingStays ==
  ASSUME NamesTheLiving(config),
         DOMAIN config.skins \subseteq DOMAIN config'.skins,
         StagedKeys(config) \subseteq StagedKeys(config'),
         \A p \in DOMAIN config'.presets :
           p \in DOMAIN config.presets /\ config'.presets[p] = config.presets[p]
  PROVE  NamesTheLiving(config')
<1>1. ASSUME NEW p \in DOMAIN config'.presets PROVE Living(config'.presets[p], config')
  <2>1. Living(config.presets[p], config) /\ config'.presets[p] = config.presets[p]
    BY LivingParts
  <2> QED
    BY <2>1 DEF Living
<1> QED
  BY <1>1, LivingParts

\* Rules that are changed without their keys.
LEMMA SameKeys ==
  ASSUME NEW rules, NEW new, DOMAIN new = DOMAIN rules,
         \A i \in DOMAIN rules : Key(new[i]) = Key(rules[i])
  PROVE  {Key(new[i]) : i \in DOMAIN new} = {Key(rules[i]) : i \in DOMAIN rules}
  OBVIOUS

\* Renaming leaves no entry of the old name, and adds only the new one.
LEMMA MovedDomain ==
  ASSUME NEW map, NEW old, NEW new, NEW key \in DOMAIN Moved(map, old, new)
  PROVE  key = new \/ (key \in DOMAIN map /\ key # old)
<1>1. CASE old \in DOMAIN map
  BY <1>1 DEF Moved, Put, Without, Restrict
<1>2. CASE old \notin DOMAIN map
  BY <1>2 DEF Moved
<1> QED
  BY <1>1, <1>2

\* A table whose entries are of another's stays so when both are renamed.
LEMMA MovedTogether ==
  ASSUME NEW part, NEW whole, DOMAIN part \subseteq DOMAIN whole,
         NEW old \in DOMAIN whole, NEW new
  PROVE  DOMAIN Moved(part, old, new) \subseteq DOMAIN Moved(whole, old, new)
<1>1. DOMAIN Moved(whole, old, new) = (DOMAIN whole \ {old}) \cup {new}
  BY DEF Moved, Put, Without, Restrict
<1>2. ASSUME NEW key \in DOMAIN Moved(part, old, new)
      PROVE  key \in (DOMAIN whole \ {old}) \cup {new}
  <2>1. key = new \/ (key \in DOMAIN part /\ key # old)
    BY MovedDomain, Zenon
  <2> QED
    BY <2>1
<1> QED
  BY <1>1, <1>2, Zenon

LEMMA LoadLiving ==
  ASSUME FilesNameTheLiving, LoadConfig
  PROVE  NamesTheLiving(config')
<1>1. PICK loaded \in Loaded : config' = loaded.staged
  BY DEF LoadConfig
<1>2. DOMAIN NoConfig.presets = {}
  BY DEF NoConfig, EmptyMap
<1>3. NamesTheLiving(NoConfig)
  BY <1>2, LivingParts
<1> QED
  BY <1>1, <1>3, LoadedType DEF FilesNameTheLiving

LEMMA AddProfileLiving ==
  ASSUME FormsInv, NamesTheLiving(config), AddProfile
  PROVE  NamesTheLiving(config')
<1>1. PICK skin : Stage([config EXCEPT
                           !.skins = Put(@, skin, [enabled |-> TRUE, paths |-> NoPaths])])
  BY DEF AddProfile
<1>2. IsStaged(config)
  BY FormsParts
<1>3. /\ config'.skins = Put(config.skins, skin, [enabled |-> TRUE, paths |-> NoPaths])
      /\ config'.rules = config.rules /\ config'.presets = config.presets
  BY <1>1, <1>2, StagedParts DEF Stage
<1>4. DOMAIN config.skins \subseteq DOMAIN config'.skins
  BY <1>3 DEF Put
<1> QED
  BY <1>3, <1>4, LivingStays DEF StagedKeys

LEMMA SyncProfileIdLiving ==
  ASSUME FormsInv, NamesTheLiving(config), NEW skin \in Skins, SyncProfileId(skin)
  PROVE  NamesTheLiving(config')
<1>1. IsStaged(config) /\ selected_skin \in DOMAIN config.skins
  BY FormsParts DEF SyncProfileId, ProfileEditorOK
<1> DEFINE rules == [i \in DOMAIN config.rules |->
                      IF config.rules[i].profile_id = selected_skin
                      THEN [config.rules[i] EXCEPT !.profile_id = skin]
                      ELSE config.rules[i]]
<1>2. /\ config'.skins = Moved(config.skins, selected_skin, skin)
      /\ config'.rules = rules
      /\ config'.presets = [p \in DOMAIN config.presets |->
                             [config.presets[p] EXCEPT
                                !.profiles = Moved(@, selected_skin, skin)]]
  BY DEF SyncProfileId, Stage
<1>3. StagedKeys(config') = StagedKeys(config)
  <2>1. \A i \in DOMAIN config.rules : Key(rules[i]) = Key(config.rules[i])
    BY <1>1, StagedParts DEF SkinRule, Key
  <2>2. DOMAIN rules = DOMAIN config.rules
    OBVIOUS
  <2> HIDE DEF rules
  <2>3. {Key(rules[i]) : i \in DOMAIN rules}
          = {Key(config.rules[i]) : i \in DOMAIN config.rules}
    BY <2>1, <2>2, SameKeys
  <2> QED
    BY <1>2, <2>3 DEF StagedKeys
<1>4. ASSUME NEW p \in DOMAIN config.presets PROVE Living(config'.presets[p], config')
  <2>1. config.presets[p] \in Preset
    BY <1>1, StagedParts DEF IsMap
  <2>2. /\ config'.presets[p].profiles
             = Moved(config.presets[p].profiles, selected_skin, skin)
        /\ config'.presets[p].rules = config.presets[p].rules
    BY <1>2, <2>1 DEF Preset
  <2>3. Living(config.presets[p], config)
    BY LivingParts
  <2>4. DOMAIN config'.presets[p].profiles \subseteq DOMAIN config'.skins
    <3> DEFINE entries == config.presets[p].profiles
    <3>1. DOMAIN entries \subseteq DOMAIN config.skins
      BY <2>3 DEF Living
    <3> HIDE DEF entries
    <3>2. DOMAIN Moved(entries, selected_skin, skin)
            \subseteq DOMAIN Moved(config.skins, selected_skin, skin)
      BY <1>1, <3>1, MovedTogether, Zenon
    <3> QED
      BY <1>2, <2>2, <3>2 DEF entries
  <2> QED
    BY <1>3, <2>2, <2>3, <2>4 DEF Living
<1> QED
  BY <1>2, <1>4, LivingParts

LEMMA DeleteProfileLiving ==
  ASSUME FormsInv, NamesTheLiving(config), DeleteSelectedProfile
  PROVE  NamesTheLiving(config')
<1> DEFINE skin == selected_skin
<1>1. IsStaged(config)
  BY FormsParts
<1>2. config' = WithoutProfile(skin)
  BY DEF DeleteSelectedProfile, Stage
<1>3. /\ DOMAIN config'.skins = DOMAIN config.skins \ {skin}
      /\ config'.rules = RulesLeft(skin)
      /\ DOMAIN config'.presets = DOMAIN config.presets
  BY <1>2 DEF WithoutProfile, Without, Restrict
<1>4. ASSUME NEW p \in DOMAIN config.presets PROVE Living(config'.presets[p], config')
  <2>1. Living(config.presets[p], config)
    BY LivingParts
  <2>2. /\ DOMAIN config'.presets[p].profiles = DOMAIN config.presets[p].profiles \ {skin}
        /\ DOMAIN config'.presets[p].rules
             = DOMAIN config.presets[p].rules \ RemovedKeys(skin)
    BY <1>2 DEF WithoutProfile, Without, WithoutKeys, Restrict
  <2>3. ASSUME NEW key \in DOMAIN config.presets[p].rules \ RemovedKeys(skin)
        PROVE  key \in StagedKeys(config')
    <3>1. PICK i \in DOMAIN config.rules : Key(config.rules[i]) = key
      BY <2>1 DEF Living, StagedKeys
    <3>2. config.rules[i].profile_id # skin
      BY <3>1 DEF RemovedKeys
    <3>3. \E k \in DOMAIN RulesLeft(skin) : RulesLeft(skin)[k] = config.rules[i]
      <4> HIDE DEF skin
      <4>1. PICK from \in [DOMAIN RulesLeft(skin) -> DOMAIN config.rules] :
              /\ \A k \in DOMAIN RulesLeft(skin) :
                   RulesLeft(skin)[k] = config.rules[from[k]]
              /\ \A j \in DOMAIN config.rules :
                   config.rules[j].profile_id # skin =>
                     \E k \in DOMAIN RulesLeft(skin) : from[k] = j
        BY <1>1, RulesLeftType
      <4> QED
        BY <3>2, <4>1
    <3> QED
      BY <1>3, <3>1, <3>3 DEF StagedKeys
  <2> QED
    BY <1>3, <2>1, <2>2, <2>3 DEF Living
<1> QED
  BY <1>3, <1>4, LivingParts

\* What a field or the box of the selected profile stages: the box also writes
\* the selected preset's entry.
LEMMA SyncProfileParts ==
  ASSUME FormsInv,
         ToggleProfile \/ \E paths \in Paths : SyncProfileFields(paths)
  PROVE  /\ selected_skin \in DOMAIN config.skins
         /\ config'.rules = config.rules /\ selected_preset' = selected_preset
         /\ config'.skins = [config.skins EXCEPT ![selected_skin] = profile_form']
         /\ DOMAIN config'.presets = DOMAIN config.presets
         /\ \A p \in DOMAIN config.presets :
              /\ config'.presets[p].rules = config.presets[p].rules
              /\ config'.presets[p].profiles =
                   IF ToggleProfile /\ p = selected_preset
                   THEN Put(config.presets[p].profiles, selected_skin,
                            profile_form'.enabled)
                   ELSE config.presets[p].profiles
         /\ ~ ToggleProfile =>
              profile_form'.enabled = config.skins[selected_skin].enabled
<1>1. IsStaged(config) /\ PresetOK
  BY FormsParts
<1>2. /\ selected_skin \in DOMAIN config.skins
      /\ profile_form = config.skins[selected_skin]
      /\ config.skins[selected_skin] \in SkinDefinition
  <2>1. /\ selected_skin \in DOMAIN config.skins
        /\ profile_form = config.skins[selected_skin]
    BY FormsParts DEF ToggleProfile, SyncProfileFields, ProfileEditorOK
  <2> QED
    BY <1>1, <2>1, StagedParts DEF IsMap
<1> DEFINE skins  == [config.skins EXCEPT ![selected_skin] = profile_form']
           synced == [config EXCEPT !.skins[selected_skin] = profile_form']
<1>3. synced = [skins |-> skins, rules |-> config.rules, presets |-> config.presets]
  BY <1>1, StagedParts
<1>4. selected_preset' = selected_preset
  BY DEF ToggleProfile, SyncProfileFields
<1>5. ~ ToggleProfile => profile_form'.enabled = config.skins[selected_skin].enabled
  BY <1>2 DEF SyncProfileFields, SkinDefinition
<1>6. CASE ToggleProfile /\ selected_preset # None
  <2> DEFINE at      == selected_preset
             entries == Put(config.presets[at].profiles, selected_skin,
                            profile_form'.enabled)
             presets == [config.presets EXCEPT ![at] = [@ EXCEPT !.profiles = entries]]
  <2>1. at \in DOMAIN config.presets
    BY <1>1, <1>6 DEF PresetOK
  <2>2. config.presets[at] \in Preset
    BY <1>1, <2>1, StagedParts DEF IsMap
  <2>3. Stage([synced EXCEPT !.presets[at].profiles =
                               Put(@, selected_skin, profile_form'.enabled)])
    BY <1>6 DEF ToggleProfile
  <2>4. Stage([synced EXCEPT !.presets[at].profiles = entries])
    BY <2>3
  <2> HIDE DEF entries
  <2>5. [synced EXCEPT !.presets[at].profiles = entries]
          = [skins |-> skins, rules |-> config.rules, presets |-> presets]
    <3> HIDE DEF synced, skins
    <3> QED
      BY <1>3
  <2>6. /\ DOMAIN presets = DOMAIN config.presets
        /\ presets[at] = [config.presets[at] EXCEPT !.profiles = entries]
        /\ \A p \in DOMAIN config.presets \ {at} : presets[p] = config.presets[p]
    BY <2>1
  <2>7. presets[at].profiles = entries /\ presets[at].rules = config.presets[at].rules
    BY <2>2, <2>6 DEF Preset
  <2> HIDE DEF presets, skins, synced
  <2>8. config' = [skins |-> skins, rules |-> config.rules, presets |-> presets]
    BY <2>4, <2>5, Zenon DEF Stage
  <2>9. config'.skins = skins /\ config'.rules = config.rules /\ config'.presets = presets
    BY <2>8
  <2>10. ASSUME NEW p \in DOMAIN config.presets
         PROVE  /\ presets[p].rules = config.presets[p].rules
                /\ presets[p].profiles =
                     IF p = selected_preset
                     THEN Put(config.presets[p].profiles, selected_skin,
                              profile_form'.enabled)
                     ELSE config.presets[p].profiles
    BY <2>6, <2>7 DEF entries
  <2> QED
    BY <1>2, <1>4, <1>6, <2>6, <2>9, <2>10 DEF skins
<1>7. CASE ~ (ToggleProfile /\ selected_preset # None)
  <2>1. Stage(synced)
    BY <1>7 DEF ToggleProfile, SyncProfileFields
  <2> HIDE DEF synced, skins
  <2>2. config' = [skins |-> skins, rules |-> config.rules, presets |-> config.presets]
    BY <1>3, <2>1 DEF Stage
  <2>3. /\ config'.skins = skins /\ config'.rules = config.rules
        /\ config'.presets = config.presets
    BY <2>2
  <2>4. \A p \in DOMAIN config.presets : ~ (ToggleProfile /\ p = selected_preset)
    BY <1>1, <1>7, EditorAssumption, StagedParts DEF IsMap
  <2> QED
    BY <1>2, <1>4, <1>5, <2>3, <2>4 DEF skins
<1> QED
  BY <1>6, <1>7

LEMMA SyncProfileLiving ==
  ASSUME FormsInv, NamesTheLiving(config),
         ToggleProfile \/ \E paths \in Paths : SyncProfileFields(paths)
  PROVE  NamesTheLiving(config')
<1>1. /\ selected_skin \in DOMAIN config.skins
      /\ config'.rules = config.rules
      /\ config'.skins = [config.skins EXCEPT ![selected_skin] = profile_form']
      /\ DOMAIN config'.presets = DOMAIN config.presets
      /\ \A p \in DOMAIN config.presets :
           /\ config'.presets[p].rules = config.presets[p].rules
           /\ config'.presets[p].profiles =
                IF ToggleProfile /\ p = selected_preset
                THEN Put(config.presets[p].profiles, selected_skin, profile_form'.enabled)
                ELSE config.presets[p].profiles
  BY SyncProfileParts
<1>2. DOMAIN config'.skins = DOMAIN config.skins /\ StagedKeys(config') = StagedKeys(config)
  BY <1>1 DEF StagedKeys
<1>3. ASSUME NEW p \in DOMAIN config.presets PROVE Living(config'.presets[p], config')
  <2>1. Living(config.presets[p], config)
    BY LivingParts
  <2>2. DOMAIN config'.presets[p].profiles
          \subseteq DOMAIN config.presets[p].profiles \cup {selected_skin}
    BY <1>1 DEF Put
  <2> QED
    BY <1>1, <1>2, <2>1, <2>2 DEF Living
<1> QED
  BY <1>1, <1>3, LivingParts

LEMMA AddRuleLiving ==
  ASSUME FormsInv, NamesTheLiving(config), AddRule
  PROVE  NamesTheLiving(config')
<1>1. IsStaged(config)
  BY FormsParts
<1> DEFINE Rule(skin) == [ profile_id |-> skin, enabled |-> TRUE,
                           player_name |-> None, server_model_id |-> None ]
<1>2. PICK skin \in DOMAIN config.skins :
        Stage([config EXCEPT !.rules = Append(@, Rule(skin))])
  BY DEF AddRule
<1>3. Rule(skin) \in SkinRule
  BY <1>1, StagedParts DEF SkinRule, IsMap
<1> HIDE DEF Rule
<1>4. /\ config'.rules = Append(config.rules, Rule(skin))
      /\ config'.skins = config.skins /\ config'.presets = config.presets
  BY <1>1, <1>2, StagedParts DEF Stage
<1>5. /\ DOMAIN config.rules \subseteq DOMAIN config'.rules
      /\ \A i \in DOMAIN config.rules : config'.rules[i] = config.rules[i]
  BY <1>1, <1>3, <1>4, StagedParts, AddedRule
<1>6. StagedKeys(config) \subseteq StagedKeys(config')
  BY <1>5 DEF StagedKeys
<1> QED
  BY <1>4, <1>6, LivingStays

LEMMA SyncRuleProfileLiving ==
  ASSUME FormsInv, NamesTheLiving(config), NEW skin \in Skins, SyncRuleProfile(skin)
  PROVE  NamesTheLiving(config')
<1>1. IsStaged(config)
  BY FormsParts
<1> DEFINE rules == [config.rules EXCEPT ![selected_rule].profile_id = skin]
<1>2. /\ config'.rules = rules /\ config'.skins = config.skins
      /\ config'.presets = config.presets
  BY <1>1, StagedParts DEF SyncRuleProfile, Stage
<1>3. DOMAIN rules = DOMAIN config.rules
      /\ \A i \in DOMAIN config.rules : Key(rules[i]) = Key(config.rules[i])
  BY <1>1, StagedParts DEF SkinRule, Key
<1> HIDE DEF rules
<1>4. StagedKeys(config') = StagedKeys(config)
  BY <1>2, <1>3, SameKeys DEF StagedKeys
<1> QED
  BY <1>2, <1>4, LivingStays

\* What a condition or the box of the selected rule stages: a condition moves
\* the entries of the rule's key in every preset, the box writes the selected
\* preset's entry.
LEMMA SyncRuleEntries ==
  ASSUME FormsInv,
         \/ ToggleRule
         \/ \E name \in Names \cup {None}, model \in Models \cup {None} :
              SyncRuleConditions(name, model)
  PROVE  LET previous == Key(config.rules[selected_rule])
             rule     == FormRule(rule_form')
         IN  /\ rule \in SkinRule
             /\ DOMAIN config'.rules = DOMAIN config.rules
             /\ config'.rules[selected_rule] = rule
             /\ \A k \in DOMAIN config.rules \ {selected_rule} :
                  config'.rules[k] = config.rules[k]
             /\ \A p \in DOMAIN config.presets :
                  /\ config'.presets[p].profiles = config.presets[p].profiles
                  /\ config'.presets[p].rules =
                       IF ToggleRule /\ p = selected_preset
                       THEN Put(config.presets[p].rules, previous, rule.enabled)
                       ELSE IF Key(rule) = previous THEN config.presets[p].rules
                       ELSE Moved(config.presets[p].rules, previous, Key(rule))
             /\ ToggleRule => Key(rule) = previous
             /\ ~ ToggleRule => rule.enabled = config.rules[selected_rule].enabled
<1> DEFINE previous == Key(config.rules[selected_rule])
           rule     == FormRule(rule_form')
           synced   == WithConditions(rule_form')
           Entries(p) == IF Key(rule) = previous THEN config.presets[p].rules
                         ELSE Moved(config.presets[p].rules, previous, Key(rule))
<1>1. IsStaged(config) /\ PresetOK /\ RuleEditorOK
  BY FormsParts
<1>2. /\ selected_rule \in DOMAIN config.rules /\ rule_form' \in RuleForm
      /\ config'.rules = synced.rules
  BY SyncRuleParts
<1>3. /\ rule \in SkinRule /\ IsStaged(synced)
      /\ DOMAIN synced.rules = DOMAIN config.rules
      /\ synced.rules[selected_rule] = rule
      /\ \A k \in DOMAIN config.rules \ {selected_rule} :
           synced.rules[k] = config.rules[k]
      /\ DOMAIN synced.presets = DOMAIN config.presets
      /\ \A p \in DOMAIN config.presets :
           /\ synced.presets[p].profiles = config.presets[p].profiles
           /\ synced.presets[p].rules = Entries(p)
  BY <1>1, <1>2, WithConditionsType
<1>4. rule_form = Conditions(config.rules[selected_rule])
  BY <1>1 DEF RuleEditorOK, ToggleRule, SyncRuleConditions
<1>5. config.rules[selected_rule] \in SkinRule
  BY <1>1, <1>2, StagedParts
<1>6. ToggleRule => Key(rule) = previous
  BY <1>4, <1>5 DEF ToggleRule, FormRule, Key, Conditions, SkinRule
<1>7. ~ ToggleRule => rule.enabled = config.rules[selected_rule].enabled
  BY <1>4, <1>5 DEF SyncRuleConditions, FormRule, Conditions, SkinRule
<1>8. \A p \in DOMAIN config.presets :
        /\ config'.presets[p].profiles = config.presets[p].profiles
        /\ config'.presets[p].rules =
             IF ToggleRule /\ p = selected_preset
             THEN Put(config.presets[p].rules, previous, rule.enabled)
             ELSE Entries(p)
  <2>1. CASE ToggleRule
    <3>1. config' = PresetGetsFlag(synced, synced.rules[selected_rule])
      BY <2>1 DEF ToggleRule, Stage
    <3> HIDE DEF synced, rule, previous
    <3>2. config' = PresetGetsFlag(synced, rule)
      BY <1>3, <3>1
    <3>3. \A p \in DOMAIN config.presets :
            /\ PresetGetsFlag(synced, rule).presets[p].profiles
                 = synced.presets[p].profiles
            /\ PresetGetsFlag(synced, rule).presets[p].rules =
                 IF p = selected_preset
                 THEN Put(synced.presets[p].rules, Key(rule), rule.enabled)
                 ELSE synced.presets[p].rules
      BY <1>1, <1>3, PresetGetsFlagType
    <3> QED
      BY <1>3, <1>6, <2>1, <3>2, <3>3
  <2>2. CASE ~ ToggleRule
    <3>1. config' = synced
      BY <2>2 DEF SyncRuleConditions, Stage
    <3> HIDE DEF synced, rule, previous
    <3> QED
      BY <1>3, <2>2, <3>1
  <2> QED
    BY <2>1, <2>2
<1> HIDE DEF synced
<1>9. /\ DOMAIN config'.rules = DOMAIN config.rules /\ config'.rules[selected_rule] = rule
      /\ \A k \in DOMAIN config.rules \ {selected_rule} :
           config'.rules[k] = config.rules[k]
  BY <1>2, <1>3
<1> HIDE DEF rule, previous
<1>10. /\ rule \in SkinRule
       /\ DOMAIN config'.rules = DOMAIN config.rules
       /\ config'.rules[selected_rule] = rule
       /\ \A k \in DOMAIN config.rules \ {selected_rule} :
            config'.rules[k] = config.rules[k]
       /\ \A p \in DOMAIN config.presets :
            /\ config'.presets[p].profiles = config.presets[p].profiles
            /\ config'.presets[p].rules =
                 IF ToggleRule /\ p = selected_preset
                 THEN Put(config.presets[p].rules, previous, rule.enabled)
                 ELSE IF Key(rule) = previous THEN config.presets[p].rules
                 ELSE Moved(config.presets[p].rules, previous, Key(rule))
       /\ ToggleRule => Key(rule) = previous
       /\ ~ ToggleRule => rule.enabled = config.rules[selected_rule].enabled
  BY <1>3, <1>6, <1>7, <1>8, <1>9
<1> QED
  BY <1>10 DEF rule, previous

LEMMA SyncRuleLiving ==
  ASSUME FormsInv, NamesTheLiving(config),
         \/ ToggleRule
         \/ \E name \in Names \cup {None}, model \in Models \cup {None} :
              SyncRuleConditions(name, model)
  PROVE  NamesTheLiving(config')
<1> DEFINE previous == Key(config.rules[selected_rule])
           rule     == FormRule(rule_form')
<1>1. /\ selected_rule \in DOMAIN config.rules /\ config'.skins = config.skins
      /\ DOMAIN config'.presets = DOMAIN config.presets
  BY SyncRuleParts
<1>2. /\ DOMAIN config'.rules = DOMAIN config.rules /\ config'.rules[selected_rule] = rule
      /\ \A k \in DOMAIN config.rules \ {selected_rule} :
           config'.rules[k] = config.rules[k]
      /\ \A p \in DOMAIN config.presets :
           /\ config'.presets[p].profiles = config.presets[p].profiles
           /\ config'.presets[p].rules =
                IF ToggleRule /\ p = selected_preset
                THEN Put(config.presets[p].rules, previous, rule.enabled)
                ELSE IF Key(rule) = previous THEN config.presets[p].rules
                ELSE Moved(config.presets[p].rules, previous, Key(rule))
      /\ ToggleRule => Key(rule) = previous
  BY SyncRuleEntries
<1> HIDE DEF rule
<1>3. Key(rule) \in StagedKeys(config')
  BY <1>1, <1>2 DEF StagedKeys
<1>4. ASSUME NEW key \in StagedKeys(config), key # previous \/ Key(rule) = previous
      PROVE  key \in StagedKeys(config')
  <2>1. PICK i \in DOMAIN config.rules : key = Key(config.rules[i])
    BY DEF StagedKeys
  <2>2. CASE i = selected_rule
    BY <1>3, <1>4, <2>1, <2>2
  <2>3. CASE i # selected_rule
    BY <1>2, <2>1, <2>3 DEF StagedKeys
  <2> QED
    BY <2>2, <2>3
<1> HIDE DEF previous
<1>5. ASSUME NEW p \in DOMAIN config.presets PROVE Living(config'.presets[p], config')
  <2> DEFINE entries == config.presets[p].rules
  <2>1. Living(config.presets[p], config)
    BY LivingParts
  <2>2. DOMAIN entries \subseteq StagedKeys(config)
    BY <2>1 DEF Living
  <2>3. DOMAIN config'.presets[p].rules \subseteq StagedKeys(config')
    <3> HIDE DEF entries
    <3>1. CASE ToggleRule /\ p = selected_preset
      <4>1. config'.presets[p].rules = Put(entries, previous, rule.enabled)
        BY <1>2, <3>1 DEF entries
      <4>2. DOMAIN config'.presets[p].rules = DOMAIN entries \cup {previous}
        BY <4>1 DEF Put
      <4> QED
        BY <1>2, <1>3, <1>4, <2>2, <3>1, <4>2
    <3>2. CASE ~ (ToggleRule /\ p = selected_preset) /\ Key(rule) = previous
      <4>1. config'.presets[p].rules = entries
        BY <1>2, <3>2 DEF entries
      <4> QED
        BY <1>4, <2>2, <3>2, <4>1
    <3>3. CASE ~ (ToggleRule /\ p = selected_preset) /\ Key(rule) # previous
      <4>1. config'.presets[p].rules = Moved(entries, previous, Key(rule))
        BY <1>2, <3>3 DEF entries
      <4>2. ASSUME NEW key \in DOMAIN config'.presets[p].rules
            PROVE  key \in StagedKeys(config')
        <5>1. key = Key(rule) \/ (key \in DOMAIN entries /\ key # previous)
          BY <4>1, <4>2, MovedDomain, Zenon
        <5> QED
          BY <1>3, <1>4, <2>2, <5>1
      <4> QED
        BY <4>2
    <3> QED
      BY <3>1, <3>2, <3>3
  <2>4. config'.presets[p].profiles = config.presets[p].profiles
    BY <1>2
  <2> QED
    BY <1>1, <2>1, <2>3, <2>4 DEF Living
<1> QED
  BY <1>1, <1>5, LivingParts

\* The other rules all stay when one is deleted.
LEMMA DeleteRuleParts ==
  ASSUME FormsInv, DeleteSelectedRule
  PROVE  LET key == Key(config.rules[selected_rule])
         IN  /\ selected_rule \in DOMAIN config.rules
             /\ config'.skins = config.skins
             /\ DOMAIN config'.presets = DOMAIN config.presets
             /\ \A p \in DOMAIN config.presets :
                  /\ config'.presets[p].profiles = config.presets[p].profiles
                  /\ config'.presets[p].rules = Without(config.presets[p].rules, key)
             /\ \A k \in DOMAIN config'.rules :
                  LET from == IF k < selected_rule THEN k ELSE k + 1
                  IN  /\ from \in DOMAIN config.rules \ {selected_rule}
                      /\ config'.rules[k] = config.rules[from]
             /\ \A i \in DOMAIN config.rules \ {selected_rule} :
                  \E k \in DOMAIN config'.rules : config'.rules[k] = config.rules[i]
<1> DEFINE at  == selected_rule
           key == Key(config.rules[at])
<1>1. IsStaged(config) /\ at \in DOMAIN config.rules
  BY FormsParts DEF DeleteSelectedRule, RuleEditorOK
<1>2. /\ config'.skins = config.skins
      /\ config'.rules = RemoveAt(config.rules, at)
      /\ config'.presets = [p \in DOMAIN config.presets |->
                             [config.presets[p] EXCEPT !.rules = Without(@, key)]]
  BY DEF DeleteSelectedRule, Stage
<1> HIDE DEF key
<1>3. /\ DOMAIN config'.presets = DOMAIN config.presets
      /\ \A p \in DOMAIN config.presets :
           /\ config'.presets[p].profiles = config.presets[p].profiles
           /\ config'.presets[p].rules = Without(config.presets[p].rules, key)
  <2>1. \A p \in DOMAIN config.presets : config.presets[p] \in Preset
    BY <1>1, StagedParts DEF IsMap
  <2> QED
    BY <1>2, <2>1 DEF Preset
<1>4. /\ config.rules \in Seq(SkinRule) /\ Len(config.rules) \in Nat
      /\ DOMAIN config.rules = 1 .. Len(config.rules)
  BY <1>1, StagedParts
<1>5. /\ config'.rules \in Seq(SkinRule)
      /\ Len(config'.rules) = Len(config.rules) - 1
      /\ \A k \in DOMAIN config'.rules :
           config'.rules[k] = config.rules[IF k < at THEN k ELSE k + 1]
  <2> DEFINE rules == config.rules
  <2>1. rules \in Seq(SkinRule) /\ at \in DOMAIN rules /\ config'.rules = RemoveAt(rules, at)
    BY <1>1, <1>2, <1>4
  <2> HIDE DEF rules
  <2>2. /\ config'.rules \in Seq(SkinRule) /\ Len(config'.rules) = Len(rules) - 1
        /\ \A k \in DOMAIN config'.rules :
             config'.rules[k] = rules[IF k < at THEN k ELSE k + 1]
    BY <2>1, RemoveAtType
  <2> QED
    BY <2>2 DEF rules
<1>6. DOMAIN config'.rules = 1 .. Len(config.rules) - 1
  BY <1>5
<1>7. ASSUME NEW k \in DOMAIN config'.rules
      PROVE  (IF k < at THEN k ELSE k + 1) \in DOMAIN config.rules \ {at}
  BY <1>1, <1>4, <1>6
<1>8. ASSUME NEW i \in DOMAIN config.rules \ {at}
      PROVE  \E k \in DOMAIN config'.rules : config'.rules[k] = config.rules[i]
  <2> DEFINE k == IF i < at THEN i ELSE i - 1
  <2>1. k \in DOMAIN config'.rules /\ i = (IF k < at THEN k ELSE k + 1)
    BY <1>1, <1>4, <1>6
  <2> HIDE DEF k
  <2> QED
    BY <1>5, <2>1
<1> QED
  BY <1>1, <1>2, <1>3, <1>5, <1>7, <1>8 DEF key

LEMMA DeleteRuleLiving ==
  ASSUME FormsInv, NamesTheLiving(config), DeleteSelectedRule
  PROVE  NamesTheLiving(config')
<1> DEFINE at  == selected_rule
           gone == Key(config.rules[at])
<1>1. /\ config'.skins = config.skins
      /\ DOMAIN config'.presets = DOMAIN config.presets
      /\ \A p \in DOMAIN config.presets :
           /\ config'.presets[p].profiles = config.presets[p].profiles
           /\ config'.presets[p].rules = Without(config.presets[p].rules, gone)
      /\ \A i \in DOMAIN config.rules \ {at} :
           \E k \in DOMAIN config'.rules : config'.rules[k] = config.rules[i]
  BY DeleteRuleParts
<1>2. ASSUME NEW key \in StagedKeys(config), key # gone
      PROVE  key \in StagedKeys(config')
  <2>1. PICK i \in DOMAIN config.rules \ {at} : key = Key(config.rules[i])
    BY <1>2 DEF StagedKeys
  <2> QED
    BY <1>1, <2>1 DEF StagedKeys
<1> HIDE DEF gone
<1>3. ASSUME NEW p \in DOMAIN config.presets PROVE Living(config'.presets[p], config')
  <2>1. Living(config.presets[p], config)
    BY LivingParts
  <2>2. DOMAIN config'.presets[p].rules = DOMAIN config.presets[p].rules \ {gone}
    BY <1>1 DEF Without, Restrict
  <2> QED
    BY <1>1, <1>2, <2>1, <2>2 DEF Living
<1> QED
  BY <1>1, <1>3, LivingParts

LEMMA AddPresetLiving ==
  ASSUME FormsInv, NamesTheLiving(config), AddPreset
  PROVE  NamesTheLiving(config')
<1>1. IsStaged(config)
  BY FormsParts
<1>2. PICK preset \in Presets :
        Stage([config EXCEPT !.presets = Put(@, preset, ActivationState)])
  BY DEF AddPreset
<1>3. /\ config'.skins = config.skins /\ config'.rules = config.rules
      /\ config'.presets = Put(config.presets, preset, ActivationState)
  BY <1>1, <1>2, StagedParts DEF Stage
<1>4. Living(ActivationState, config)
  BY <1>1, ActivationStateType DEF Living, StagedKeys
<1>5. \A p \in DOMAIN config'.presets :
        \/ config'.presets[p] = ActivationState
        \/ p \in DOMAIN config.presets /\ config'.presets[p] = config.presets[p]
  BY <1>3 DEF Put
<1>6. \A p \in DOMAIN config'.presets : Living(config'.presets[p], config)
  BY <1>4, <1>5, LivingParts
<1> QED
  BY <1>3, <1>6, LivingParts DEF Living, StagedKeys

LEMMA SyncPresetNameLiving ==
  ASSUME FormsInv, NamesTheLiving(config), NEW preset \in Presets, SyncPresetName(preset)
  PROVE  NamesTheLiving(config')
<1>1. IsStaged(config)
  BY FormsParts
<1>2. /\ config'.skins = config.skins /\ config'.rules = config.rules
      /\ config'.presets = Moved(config.presets, selected_preset, preset)
  BY <1>1, StagedParts DEF SyncPresetName, Stage
<1>3. \A p \in DOMAIN config'.presets :
        \E q \in DOMAIN config.presets : config'.presets[p] = config.presets[q]
  BY <1>2 DEF Moved, Put, Without, Restrict
<1>4. \A p \in DOMAIN config'.presets : Living(config'.presets[p], config)
  BY <1>3, LivingParts
<1> QED
  BY <1>2, <1>4, LivingParts DEF Living, StagedKeys

LEMMA SelectPresetLiving ==
  ASSUME FormsInv, NamesTheLiving(config), NEW preset \in Presets, SelectPreset(preset)
  PROVE  NamesTheLiving(config')
<1>1. IsStaged(config) /\ preset \in DOMAIN config.presets
  BY FormsParts DEF SelectPreset
<1>2. config.presets[preset] \in Preset
  BY <1>1, StagedParts DEF IsMap
<1>3. config' = Activated(config.presets[preset])
  BY DEF SelectPreset, Stage
<1>4. /\ DOMAIN config'.skins = DOMAIN config.skins
      /\ config'.presets = config.presets
      /\ DOMAIN config'.rules = DOMAIN config.rules
      /\ \A i \in DOMAIN config.rules : Key(config'.rules[i]) = Key(config.rules[i])
  BY <1>1, <1>2, <1>3, ActivatedType
<1>5. StagedKeys(config') = StagedKeys(config)
  BY <1>4, SameKeys DEF StagedKeys
<1> QED
  BY <1>4, <1>5, LivingStays

LEMMA DeletePresetLiving ==
  ASSUME FormsInv, NamesTheLiving(config), DeleteSelectedPreset
  PROVE  NamesTheLiving(config')
<1>1. IsStaged(config)
  BY FormsParts
<1>2. /\ config'.skins = config.skins /\ config'.rules = config.rules
      /\ config'.presets = Without(config.presets, selected_preset)
  BY <1>1, StagedParts DEF DeleteSelectedPreset, Stage
<1>3. \A p \in DOMAIN config'.presets :
        p \in DOMAIN config.presets /\ config'.presets[p] = config.presets[p]
  BY <1>2 DEF Without, Restrict
<1> QED
  BY <1>2, <1>3, LivingStays DEF StagedKeys

\* Of all that the editor does only reading a file can bring in an entry of
\* something gone.
LEMMA LivingStep ==
  ASSUME FormsInv, PresetsNameTheLiving, [Next]_vars, ~ LoadConfig
  PROVE  PresetsNameTheLiving'
<1> USE DEF PresetsNameTheLiving
<1>1. CASE config' = config
  BY <1>1
<1>2. CASE DrawProfiles
  <2>1. ASSUME NEW skin \in Skins, SelectProfile(skin) PROVE config' = config
    BY <2>1 DEF SelectProfile
  <2> QED
    BY <1>1, <1>2, <2>1, AddProfileLiving, SyncProfileIdLiving, SyncProfileLiving,
       DeleteProfileLiving DEF DrawProfiles
<1>3. CASE DrawRules
  <2>1. ASSUME NEW index \in 1 .. MaxRules, SelectRule(index) PROVE config' = config
    BY <2>1 DEF SelectRule
  <2> QED
    BY <1>1, <1>3, <2>1, AddRuleLiving, SyncRuleProfileLiving, SyncRuleLiving,
       DeleteRuleLiving DEF DrawRules
<1>4. CASE DrawPresets
  BY <1>4, AddPresetLiving, SyncPresetNameLiving, SelectPresetLiving,
     DeletePresetLiving DEF DrawPresets
<1>5. UNCHANGED vars \/ SaveConfig \/ DrawRuntimeSettings => config' = config
  BY DEF vars, SaveConfig, DrawRuntimeSettings
<1> QED
  BY <1>1, <1>2, <1>3, <1>4, <1>5 DEF Next

LEMMA FilesLivingStep ==
  ASSUME FilesNameTheLiving, FormsInv, PresetsNameTheLiving, [Next]_vars
  PROVE  PresetsNameTheLiving'
<1>1. CASE LoadConfig
  BY <1>1, LoadLiving DEF PresetsNameTheLiving
<1> QED
  BY <1>1, LivingStep

\* Whatever a file holds, no edit leaves a preset with an entry for something
\* gone that had none: a profile or rule that is deleted takes its entries
\* along, one that is renamed or given other conditions moves them.
THEOREM EditsForgetTheDead ==
  Spec => [][PresetsNameTheLiving /\ ~ LoadConfig => PresetsNameTheLiving']_vars
<1>1. FormsInv /\ [Next]_vars => (PresetsNameTheLiving /\ ~ LoadConfig => PresetsNameTheLiving')
  BY LivingStep
<1> QED
  BY <1>1, FormsAlways, PTL DEF Spec

\* No preset has an entry for a profile or for conditions that are gone, so that
\* a new one of that name starts with no entry, as long as the files that are
\* loaded have none, as those have that the editor saved: load_config does not
\* look for such entries, and would keep them.
THEOREM PresetsForgetTheDead ==
  ASSUME FilesNameTheLiving
  PROVE  Spec => []PresetsNameTheLiving
<1>1. Init => PresetsNameTheLiving
  <2>1. NamesTheLiving(NoConfig)
    <3>1. DOMAIN NoConfig.presets = {}
      BY DEF NoConfig, EmptyMap
    <3> QED
      BY <3>1, LivingParts
  <2> QED
    BY <2>1 DEF Init, PresetsNameTheLiving
<1>2. FormsInv /\ PresetsNameTheLiving /\ [Next]_vars => PresetsNameTheLiving'
  BY FilesLivingStep
<1> QED
  BY <1>1, <1>2, FormsAlways, PTL DEF Spec

-----------------------------------------------------------------------------
(***************************************************************************)
(* The selected preset.  Its entries are written with what they mirror, or *)
(* both are written from it; the entries of presets name the living, so    *)
(* what is new has no entry yet.                                           *)
(***************************************************************************)
ProfilesMirror(preset, staged) ==
  \A s \in DOMAIN staged.skins :
    s \in DOMAIN preset.profiles => preset.profiles[s] = staged.skins[s].enabled

RulesMirror(preset, staged) ==
  \A i \in DOMAIN staged.rules :
    Key(staged.rules[i]) \in DOMAIN preset.rules =>
      preset.rules[Key(staged.rules[i])] = staged.rules[i].enabled

CrossingNoticed == KeysCross(config.rules) => crossed

MirrorsInv == FormsInv /\ PresetsNameTheLiving /\ CrossingNoticed /\ SelectedPresetMirrors

LEMMA MirrorsParts ==
  SelectedPresetMirrors
    <=> (selected_preset # None =>
           /\ ProfilesMirror(config.presets[selected_preset], config)
           /\ ~ crossed => RulesMirror(config.presets[selected_preset], config))
  BY DEF SelectedPresetMirrors, ProfilesMirror, RulesMirror

LEMMA MirrorsPartsNext ==
  SelectedPresetMirrors'
    <=> (selected_preset' # None =>
           /\ ProfilesMirror(config'.presets[selected_preset'], config')
           /\ ~ crossed' => RulesMirror(config'.presets[selected_preset'], config'))
  BY DEF SelectedPresetMirrors, ProfilesMirror, RulesMirror

\* The editor accepts no rules with the same conditions.
LEMMA ValidatedDoNotCross ==
  ASSUME NEW staged, NEW chosen, IsStaged(staged), Validates(staged, chosen)
  PROVE  ~ KeysCross(staged.rules)
<1> DEFINE rules == staged.rules
<1> SUFFICES ASSUME NEW i \in DOMAIN rules, NEW j \in DOMAIN rules, i # j,
                    Key(rules[i]) = Key(rules[j])
             PROVE  FALSE
  BY DEF KeysCross
<1>1. DOMAIN rules = 1 .. Len(rules) /\ Len(rules) \in Nat
  BY StagedParts
<1>2. \A k \in DOMAIN rules : \A previous \in 1 .. k - 1 :
        Key(rules[previous]) # Key(rules[k])
  BY DEF Validates
<1>3. i \in 1 .. j - 1 \/ j \in 1 .. i - 1
  BY <1>1
<1> QED
  BY <1>2, <1>3

\* Rules that are staged with the same conditions are noticed; a file with such
\* rules is refused.
LEMMA CrossingStep ==
  ASSUME FormsInv', CrossingNoticed, [Next]_vars
  PROVE  CrossingNoticed'
<1>1. ASSUME NEW new, Stage(new) PROVE CrossingNoticed'
  BY <1>1 DEF Stage, CrossingNoticed
<1>2. CASE config' = config /\ crossed' = crossed
  BY <1>2 DEF CrossingNoticed
<1>3. CASE LoadConfig
  <2>1. PICK loaded \in Loaded : config' = loaded.staged
    BY <1>3 DEF LoadConfig
  <2> QED
    BY <2>1, LoadedType, ValidatedDoNotCross DEF CrossingNoticed
<1>4. UNCHANGED vars \/ SaveConfig \/ DrawRuntimeSettings =>
        config' = config /\ crossed' = crossed
  BY DEF vars, SaveConfig, DrawRuntimeSettings
<1>5. DrawProfiles => \/ config' = config /\ crossed' = crossed
                      \/ \E new : Stage(new)
  BY Zenon DEF DrawProfiles, AddProfile, ToggleProfile, DeleteSelectedProfile, SelectProfile,
     SyncProfileId, SyncProfileFields
<1>6. DrawRules => \/ config' = config /\ crossed' = crossed
                   \/ \E new : Stage(new)
  BY Zenon DEF DrawRules, AddRule, ToggleRule, DeleteSelectedRule, SelectRule,
     SyncRuleProfile, SyncRuleConditions
<1>7. DrawPresets => \E new : Stage(new)
  BY Zenon DEF DrawPresets, AddPreset, DeleteSelectedPreset, SelectPreset, SyncPresetName
<1> QED
  BY <1>1, <1>2, <1>3, <1>4, <1>5, <1>6, <1>7 DEF Next

\* While no rules have had the same conditions, none have.
LEMMA NotCrossed ==
  ASSUME CrossingNoticed, NEW new, Stage(new), ~ crossed'
  PROVE  ~ crossed /\ ~ KeysCross(config.rules) /\ ~ KeysCross(new.rules)
  BY DEF CrossingNoticed, Stage

LEMMA AddProfileMirrors ==
  ASSUME MirrorsInv, AddProfile
  PROVE  SelectedPresetMirrors'
<1>1. IsStaged(config) /\ PresetOK
  BY FormsParts DEF MirrorsInv
<1> DEFINE draft == [enabled |-> TRUE, paths |-> NoPaths]
           at    == selected_preset
<1>2. PICK skin \in Skins \ DOMAIN config.skins :
        Stage([config EXCEPT !.skins = Put(@, skin, draft)])
  BY DEF AddProfile
<1>3. /\ config'.skins = Put(config.skins, skin, draft)
      /\ config'.rules = config.rules /\ config'.presets = config.presets
      /\ selected_preset' = selected_preset /\ (crossed => crossed')
  <2>1. selected_preset' = selected_preset /\ (crossed => crossed')
    BY <1>2, Zenon DEF Stage, AddProfile
  <2> HIDE DEF draft
  <2>2. /\ config'.skins = Put(config.skins, skin, draft)
        /\ config'.rules = config.rules /\ config'.presets = config.presets
    BY <1>1, <1>2, StagedParts DEF Stage
  <2> QED
    BY <2>1, <2>2
<1> SUFFICES ASSUME at # None
             PROVE  /\ ProfilesMirror(config.presets[at], config')
                    /\ ~ crossed' => RulesMirror(config.presets[at], config')
  BY <1>3, MirrorsPartsNext
<1>4. /\ ProfilesMirror(config.presets[at], config)
      /\ ~ crossed => RulesMirror(config.presets[at], config)
  BY MirrorsParts DEF MirrorsInv
<1>5. skin \notin DOMAIN config.presets[at].profiles
  BY <1>1, <1>2 DEF MirrorsInv, PresetOK, PresetsNameTheLiving, NamesTheLiving
<1>6. /\ DOMAIN config'.skins = DOMAIN config.skins \cup {skin}
      /\ \A s \in DOMAIN config.skins : config'.skins[s] = config.skins[s]
  BY <1>2, <1>3 DEF Put
<1>7. ProfilesMirror(config.presets[at], config')
  BY <1>4, <1>5, <1>6 DEF ProfilesMirror
<1>8. ~ crossed' => RulesMirror(config.presets[at], config')
  BY <1>3, <1>4 DEF RulesMirror
<1> QED
  BY <1>7, <1>8

LEMMA SyncProfileIdMirrors ==
  ASSUME MirrorsInv, NEW skin \in Skins, SyncProfileId(skin)
  PROVE  SelectedPresetMirrors'
<1> DEFINE at  == selected_preset
           old == selected_skin
<1>1. IsStaged(config) /\ PresetOK /\ old \in DOMAIN config.skins
      /\ skin \notin DOMAIN config.skins
  BY FormsParts DEF MirrorsInv, SyncProfileId, ProfileEditorOK
<1> DEFINE rules == [i \in DOMAIN config.rules |->
                      IF config.rules[i].profile_id = selected_skin
                      THEN [config.rules[i] EXCEPT !.profile_id = skin]
                      ELSE config.rules[i]]
<1>2. /\ config'.skins = Moved(config.skins, old, skin)
      /\ config'.rules = rules
      /\ config'.presets = [p \in DOMAIN config.presets |->
                             [config.presets[p] EXCEPT !.profiles = Moved(@, old, skin)]]
      /\ selected_preset' = selected_preset /\ (crossed => crossed')
  BY DEF SyncProfileId, Stage
<1> SUFFICES ASSUME at # None
             PROVE  /\ ProfilesMirror(config'.presets[at], config')
                    /\ ~ crossed' => RulesMirror(config'.presets[at], config')
  BY <1>2, MirrorsPartsNext
<1>3. /\ ProfilesMirror(config.presets[at], config)
      /\ ~ crossed => RulesMirror(config.presets[at], config)
  BY MirrorsParts DEF MirrorsInv
<1>4. at \in DOMAIN config.presets
  BY <1>1 DEF PresetOK
<1> DEFINE profiles == config.presets[at].profiles
<1>5. /\ config'.presets[at].profiles = Moved(profiles, old, skin)
      /\ config'.presets[at].rules = config.presets[at].rules
  <2>1. config.presets[at] \in Preset
    BY <1>1, <1>4, StagedParts DEF IsMap
  <2> QED
    BY <1>2, <1>4, <2>1 DEF Preset
<1>6. DOMAIN profiles \subseteq DOMAIN config.skins
  BY <1>4 DEF MirrorsInv, PresetsNameTheLiving, NamesTheLiving
<1> HIDE DEF profiles
<1>7. ASSUME NEW s \in DOMAIN config'.skins, s \in DOMAIN config'.presets[at].profiles
      PROVE  config'.presets[at].profiles[s] = config'.skins[s].enabled
  <2>1. \A t \in DOMAIN config.skins :
          t \in DOMAIN profiles => profiles[t] = config.skins[t].enabled
    BY <1>3 DEF ProfilesMirror, profiles
  <2>2. \A t \in DOMAIN profiles : t \in DOMAIN config.skins /\ t # skin
    BY <1>1, <1>6
  <2>3. /\ config'.skins[skin] = config.skins[old]
        /\ \A t \in DOMAIN config.skins \ {old} : config'.skins[t] = config.skins[t]
        /\ old # skin
    BY <1>1, <1>2 DEF Moved, Put, Without, Restrict
  <2>4. CASE old \in DOMAIN profiles
    <3>1. /\ config'.presets[at].profiles[skin] = profiles[old]
          /\ \A t \in DOMAIN profiles \ {old} :
               config'.presets[at].profiles[t] = profiles[t]
          /\ s = skin \/ s \in DOMAIN profiles \ {old}
      BY <1>5, <1>7, <2>2, <2>3, <2>4 DEF Moved, Put, Without, Restrict
    <3> QED
      BY <2>1, <2>2, <2>3, <2>4, <3>1
  <2>5. CASE old \notin DOMAIN profiles
    <3>1. config'.presets[at].profiles = profiles
      BY <1>5, <2>5 DEF Moved
    <3> QED
      BY <1>7, <2>1, <2>2, <2>3, <2>5, <3>1
  <2> QED
    BY <2>4, <2>5
<1>8. ASSUME ~ crossed' PROVE RulesMirror(config'.presets[at], config')
  <2>1. RulesMirror(config.presets[at], config)
    BY <1>2, <1>3, <1>8
  <2>2. /\ DOMAIN rules = DOMAIN config.rules
        /\ \A i \in DOMAIN config.rules :
             /\ Key(rules[i]) = Key(config.rules[i])
             /\ rules[i].enabled = config.rules[i].enabled
    BY <1>1, StagedParts DEF SkinRule, Key
  <2> HIDE DEF rules
  <2> QED
    BY <1>2, <1>5, <2>1, <2>2 DEF RulesMirror
<1> QED
  BY <1>7, <1>8 DEF ProfilesMirror

LEMMA SyncProfileMirrors ==
  ASSUME MirrorsInv,
         ToggleProfile \/ \E paths \in Paths : SyncProfileFields(paths)
  PROVE  SelectedPresetMirrors'
<1> DEFINE at == selected_preset
<1>1. FormsInv /\ PresetOK
  BY FormsParts DEF MirrorsInv
<1>2. /\ selected_skin \in DOMAIN config.skins
      /\ config'.rules = config.rules /\ selected_preset' = selected_preset
      /\ config'.skins = [config.skins EXCEPT ![selected_skin] = profile_form']
      /\ \A p \in DOMAIN config.presets :
           /\ config'.presets[p].rules = config.presets[p].rules
           /\ config'.presets[p].profiles =
                IF ToggleProfile /\ p = selected_preset
                THEN Put(config.presets[p].profiles, selected_skin, profile_form'.enabled)
                ELSE config.presets[p].profiles
      /\ ~ ToggleProfile => profile_form'.enabled = config.skins[selected_skin].enabled
  BY <1>1, SyncProfileParts
<1>3. crossed => crossed'
  BY DEF ToggleProfile, SyncProfileFields, Stage
<1> SUFFICES ASSUME at # None
             PROVE  /\ ProfilesMirror(config'.presets[at], config')
                    /\ ~ crossed' => RulesMirror(config'.presets[at], config')
  BY <1>2, MirrorsPartsNext
<1>4. /\ ProfilesMirror(config.presets[at], config)
      /\ ~ crossed => RulesMirror(config.presets[at], config)
  BY MirrorsParts DEF MirrorsInv
<1>5. at \in DOMAIN config.presets
  BY <1>1 DEF PresetOK
<1>6. /\ DOMAIN config'.skins = DOMAIN config.skins
      /\ config'.skins[selected_skin].enabled = profile_form'.enabled
      /\ \A s \in DOMAIN config.skins \ {selected_skin} :
           config'.skins[s] = config.skins[s]
  BY <1>2
<1> DEFINE profiles == config.presets[at].profiles
<1>7. \A s \in DOMAIN config.skins :
        s \in DOMAIN profiles => profiles[s] = config.skins[s].enabled
  BY <1>4 DEF ProfilesMirror
<1>8. ProfilesMirror(config'.presets[at], config')
  <2>1. CASE ToggleProfile
    <3>1. config'.presets[at].profiles = Put(profiles, selected_skin, profile_form'.enabled)
      BY <1>2, <1>5, <2>1
    <3> HIDE DEF profiles
    <3> QED
      BY <1>6, <1>7, <3>1 DEF ProfilesMirror, Put
  <2>2. CASE ~ ToggleProfile
    <3>1. config'.presets[at].profiles = profiles
      BY <1>2, <1>5, <2>2
    <3> HIDE DEF profiles
    <3>2. \A s \in DOMAIN config.skins : config'.skins[s].enabled = config.skins[s].enabled
      BY <1>2, <1>6, <2>2
    <3> QED
      BY <1>6, <1>7, <3>1, <3>2 DEF ProfilesMirror
  <2> QED
    BY <2>1, <2>2
<1>9. ~ crossed' => RulesMirror(config'.presets[at], config')
  BY <1>2, <1>3, <1>4, <1>5 DEF RulesMirror
<1> QED
  BY <1>8, <1>9

LEMMA DeleteProfileMirrors ==
  ASSUME MirrorsInv, DeleteSelectedProfile
  PROVE  SelectedPresetMirrors'
<1> DEFINE at   == selected_preset
           skin == selected_skin
<1>1. IsStaged(config) /\ PresetOK
  BY FormsParts DEF MirrorsInv
<1>2. /\ config'.skins = Without(config.skins, skin)
      /\ config'.rules = RulesLeft(skin)
      /\ config'.presets = [p \in DOMAIN config.presets |->
           [ profiles |-> Without(config.presets[p].profiles, skin),
             rules    |-> WithoutKeys(config.presets[p].rules, RemovedKeys(skin)) ]]
      /\ selected_preset' = selected_preset /\ (crossed => crossed')
  BY DEF DeleteSelectedProfile, Stage, WithoutProfile
<1> SUFFICES ASSUME at # None
             PROVE  /\ ProfilesMirror(config'.presets[at], config')
                    /\ ~ crossed' => RulesMirror(config'.presets[at], config')
  BY <1>2, MirrorsPartsNext
<1>3. /\ ProfilesMirror(config.presets[at], config)
      /\ ~ crossed => RulesMirror(config.presets[at], config)
  BY MirrorsParts DEF MirrorsInv
<1>4. at \in DOMAIN config.presets
  BY <1>1 DEF PresetOK
<1> DEFINE profiles == config.presets[at].profiles
           entries  == config.presets[at].rules
<1>5. /\ config'.presets[at].profiles = Without(profiles, skin)
      /\ config'.presets[at].rules = WithoutKeys(entries, RemovedKeys(skin))
  BY <1>2, <1>4
<1> HIDE DEF profiles, entries
<1>6. ProfilesMirror(config'.presets[at], config')
  <2>1. \A s \in DOMAIN config.skins :
          s \in DOMAIN profiles => profiles[s] = config.skins[s].enabled
    BY <1>3 DEF ProfilesMirror, profiles
  <2> QED
    BY <1>2, <1>5, <2>1 DEF ProfilesMirror, Without, Restrict
<1>7. ASSUME ~ crossed', NEW k \in DOMAIN config'.rules,
             Key(config'.rules[k]) \in DOMAIN config'.presets[at].rules
      PROVE  config'.presets[at].rules[Key(config'.rules[k])] = config'.rules[k].enabled
  <2>1. \A i \in DOMAIN config.rules : Key(config.rules[i]) \in DOMAIN entries =>
          entries[Key(config.rules[i])] = config.rules[i].enabled
    BY <1>2, <1>3, <1>7 DEF RulesMirror, entries
  <2>2. PICK i \in DOMAIN config.rules : config'.rules[k] = config.rules[i]
    <3> HIDE DEF skin
    <3>1. PICK from \in [DOMAIN RulesLeft(skin) -> DOMAIN config.rules] :
            \A j \in DOMAIN RulesLeft(skin) : RulesLeft(skin)[j] = config.rules[from[j]]
      BY <1>1, RulesLeftType
    <3> QED
      BY <1>2, <1>7, <3>1
  <2> DEFINE key == Key(config.rules[i])
  <2>3. key \in DOMAIN config'.presets[at].rules
    BY <1>7, <2>2
  <2>4. entries[key] = config.rules[i].enabled
    <3>1. key \in DOMAIN entries
      BY <1>5, <2>3 DEF WithoutKeys, Restrict
    <3> QED
      BY <2>1, <3>1
  <2> HIDE DEF key
  <2>5. config'.presets[at].rules[key] = entries[key]
    BY <1>5, <2>3 DEF WithoutKeys, Restrict
  <2> QED
    BY <2>2, <2>4, <2>5 DEF key
<1> QED
  BY <1>6, <1>7 DEF RulesMirror

LEMMA AddRuleMirrors ==
  ASSUME MirrorsInv, AddRule
  PROVE  SelectedPresetMirrors'
<1> DEFINE at == selected_preset
           Rule(skin) == [ profile_id |-> skin, enabled |-> TRUE,
                           player_name |-> None, server_model_id |-> None ]
           last == Len(config.rules) + 1
<1>1. IsStaged(config) /\ PresetOK
  BY FormsParts DEF MirrorsInv
<1>2. PICK skin \in DOMAIN config.skins :
        Stage([config EXCEPT !.rules = Append(@, Rule(skin))])
  BY DEF AddRule
<1>3. Rule(skin) \in SkinRule
  BY <1>1, StagedParts DEF SkinRule, IsMap
<1> HIDE DEF Rule
<1>4. /\ config'.rules = Append(config.rules, Rule(skin))
      /\ config'.skins = config.skins /\ config'.presets = config.presets
  BY <1>1, <1>2, StagedParts DEF Stage
<1>5. selected_preset' = selected_preset
  BY DEF AddRule
<1>6. /\ DOMAIN config'.rules = DOMAIN config.rules \cup {last}
      /\ \A i \in DOMAIN config.rules : config'.rules[i] = config.rules[i]
  BY <1>1, <1>3, <1>4, StagedParts, AddedRule
<1>7. last \notin DOMAIN config.rules
  BY <1>1, StagedParts
<1> HIDE DEF last
<1> SUFFICES ASSUME at # None
             PROVE  /\ ProfilesMirror(config.presets[at], config')
                    /\ ~ crossed' => RulesMirror(config.presets[at], config')
  BY <1>4, <1>5, MirrorsPartsNext
<1>8. /\ ProfilesMirror(config.presets[at], config)
      /\ ~ crossed => RulesMirror(config.presets[at], config)
  BY MirrorsParts DEF MirrorsInv
<1>9. ProfilesMirror(config.presets[at], config')
  BY <1>4, <1>8 DEF ProfilesMirror
<1>10. ASSUME ~ crossed' PROVE RulesMirror(config.presets[at], config')
  <2>1. ~ crossed /\ ~ KeysCross(config'.rules)
    BY <1>2, <1>10 DEF Stage
  <2>2. Key(config'.rules[last]) \notin DOMAIN config.presets[at].rules
    <3> SUFFICES ASSUME Key(config'.rules[last]) \in DOMAIN config.presets[at].rules
                 PROVE  FALSE
      OBVIOUS
    <3>1. PICK i \in DOMAIN config.rules : Key(config.rules[i]) = Key(config'.rules[last])
      BY <1>1 DEF MirrorsInv, PresetOK, PresetsNameTheLiving, NamesTheLiving
    <3>2. i # last /\ i \in DOMAIN config'.rules /\ last \in DOMAIN config'.rules
          /\ Key(config'.rules[i]) = Key(config'.rules[last])
      BY <1>6, <1>7, <3>1
    <3> QED
      BY <2>1, <3>2, Zenon DEF KeysCross
  <2>3. RulesMirror(config.presets[at], config)
    BY <1>8, <2>1
  <2> QED
    BY <1>6, <2>2, <2>3 DEF RulesMirror
<1> QED
  BY <1>9, <1>10

LEMMA SyncRuleProfileMirrors ==
  ASSUME MirrorsInv, NEW skin \in Skins, SyncRuleProfile(skin)
  PROVE  SelectedPresetMirrors'
<1> DEFINE at    == selected_preset
           rules == [config.rules EXCEPT ![selected_rule].profile_id = skin]
<1>1. IsStaged(config)
  BY FormsParts DEF MirrorsInv
<1>2. /\ config'.rules = rules /\ config'.skins = config.skins
      /\ config'.presets = config.presets
      /\ selected_preset' = selected_preset /\ (crossed => crossed')
  <2>1. selected_preset' = selected_preset /\ (crossed => crossed')
    BY DEF SyncRuleProfile, Stage
  <2>2. /\ config'.rules = rules /\ config'.skins = config.skins
        /\ config'.presets = config.presets
    BY <1>1, StagedParts DEF SyncRuleProfile, Stage
  <2> QED
    BY <2>1, <2>2
<1>3. /\ DOMAIN rules = DOMAIN config.rules
      /\ \A i \in DOMAIN config.rules : /\ Key(rules[i]) = Key(config.rules[i])
                                        /\ rules[i].enabled = config.rules[i].enabled
  BY <1>1, StagedParts DEF SkinRule, Key
<1> HIDE DEF rules
<1> QED
  BY <1>2, <1>3, MirrorsParts, MirrorsPartsNext
  DEF MirrorsInv, ProfilesMirror, RulesMirror

LEMMA SyncRuleMirrors ==
  ASSUME MirrorsInv,
         \/ ToggleRule
         \/ \E name \in Names \cup {None}, model \in Models \cup {None} :
              SyncRuleConditions(name, model)
  PROVE  SelectedPresetMirrors'
<1> DEFINE at       == selected_preset
           previous == Key(config.rules[selected_rule])
           rule     == FormRule(rule_form')
<1>1. FormsInv /\ PresetOK
  BY FormsParts DEF MirrorsInv
<1>2. /\ selected_rule \in DOMAIN config.rules /\ config'.skins = config.skins
      /\ selected_preset' = selected_preset
  BY <1>1, SyncRuleParts
<1>3. /\ DOMAIN config'.rules = DOMAIN config.rules /\ config'.rules[selected_rule] = rule
      /\ \A k \in DOMAIN config.rules \ {selected_rule} :
           config'.rules[k] = config.rules[k]
      /\ \A p \in DOMAIN config.presets :
           /\ config'.presets[p].profiles = config.presets[p].profiles
           /\ config'.presets[p].rules =
                IF ToggleRule /\ p = selected_preset
                THEN Put(config.presets[p].rules, previous, rule.enabled)
                ELSE IF Key(rule) = previous THEN config.presets[p].rules
                ELSE Moved(config.presets[p].rules, previous, Key(rule))
      /\ ToggleRule => Key(rule) = previous
      /\ ~ ToggleRule => rule.enabled = config.rules[selected_rule].enabled
  BY <1>1, SyncRuleEntries
<1>4. ~ crossed' => ~ crossed /\ ~ KeysCross(config.rules) /\ ~ KeysCross(config'.rules)
  <2>1. PICK new : Stage(new)
    BY Zenon DEF ToggleRule, SyncRuleConditions
  <2> QED
    BY <2>1 DEF Stage, MirrorsInv, CrossingNoticed
<1> SUFFICES ASSUME at # None
             PROVE  /\ ProfilesMirror(config'.presets[at], config')
                    /\ ~ crossed' => RulesMirror(config'.presets[at], config')
  BY <1>2, MirrorsPartsNext
<1>5. /\ ProfilesMirror(config.presets[at], config)
      /\ ~ crossed => RulesMirror(config.presets[at], config)
  BY MirrorsParts DEF MirrorsInv
<1>6. at \in DOMAIN config.presets
  BY <1>1 DEF PresetOK
<1>7. ProfilesMirror(config'.presets[at], config')
  BY <1>2, <1>3, <1>5, <1>6 DEF ProfilesMirror
<1> HIDE DEF rule
<1> DEFINE entries == config.presets[at].rules
           new     == config'.presets[at].rules
<1>8. ASSUME ~ crossed' PROVE RulesMirror(config'.presets[at], config')
  <2>1. ~ crossed /\ ~ KeysCross(config.rules) /\ ~ KeysCross(config'.rules)
    BY <1>4, <1>8
  <2>2. \A i \in DOMAIN config.rules : Key(config.rules[i]) \in DOMAIN entries =>
          entries[Key(config.rules[i])] = config.rules[i].enabled
    BY <1>5, <2>1 DEF RulesMirror
  <2>3. \A i \in DOMAIN config.rules \ {selected_rule} :
          Key(config.rules[i]) # previous /\ Key(config.rules[i]) # Key(rule)
    <3>1. \A i \in DOMAIN config.rules \ {selected_rule} : Key(config.rules[i]) # previous
      BY <1>2, <2>1, Zenon DEF KeysCross
    <3>2. \A i \in DOMAIN config.rules \ {selected_rule} :
            Key(config'.rules[i]) # Key(config'.rules[selected_rule])
      BY <1>2, <1>3, <2>1, Zenon DEF KeysCross
    <3> QED
      BY <1>3, <3>1, <3>2
  <2>4. DOMAIN entries \subseteq {Key(config.rules[i]) : i \in DOMAIN config.rules}
    BY <1>6 DEF MirrorsInv, PresetsNameTheLiving, NamesTheLiving
  <2>5. new = IF ToggleRule THEN Put(entries, previous, rule.enabled)
              ELSE IF Key(rule) = previous THEN entries
              ELSE Moved(entries, previous, Key(rule))
    BY <1>3, <1>6
  <2>6. previous \in DOMAIN entries => entries[previous] = config.rules[selected_rule].enabled
    BY <1>2, <2>2
  <2> DEFINE key == Key(rule)
  <2> HIDE DEF entries, new, previous, key
  <2>7. key \in DOMAIN new => new[key] = rule.enabled
    <3>1. CASE ToggleRule
      BY <1>3, <2>5, <3>1 DEF Put, key
    <3>2. CASE ~ ToggleRule /\ key = previous
      BY <1>3, <2>5, <2>6, <3>2 DEF key
    <3>3. CASE ~ ToggleRule /\ key # previous
      <4>1. new = Moved(entries, previous, key)
        BY <2>5, <3>3 DEF key
      <4>2. key \notin DOMAIN entries
        <5> SUFFICES ASSUME key \in DOMAIN entries PROVE FALSE
          OBVIOUS
        <5>1. PICK i \in DOMAIN config.rules : Key(config.rules[i]) = key
          BY <2>4
        <5> QED
          BY <2>3, <3>3, <5>1 DEF key, previous
      <4>3. CASE previous \in DOMAIN entries
        <5>1. new[key] = entries[previous]
          BY <4>1, <4>3 DEF Moved, Put
        <5> QED
          BY <1>3, <2>6, <3>3, <4>3, <5>1
      <4>4. CASE previous \notin DOMAIN entries
        BY <4>1, <4>2, <4>4 DEF Moved
      <4> QED
        BY <4>3, <4>4
    <3> QED
      BY <3>1, <3>2, <3>3
  <2>8. ASSUME NEW other, other # previous, other # key, other \in DOMAIN new
        PROVE  other \in DOMAIN entries /\ new[other] = entries[other]
    <3>1. CASE ToggleRule
      BY <2>5, <2>8, <3>1 DEF Put
    <3>2. CASE ~ ToggleRule /\ key = previous
      BY <2>5, <2>8, <3>2 DEF key
    <3>3. CASE ~ ToggleRule /\ key # previous
      <4>1. new = Moved(entries, previous, key)
        BY <2>5, <3>3 DEF key
      <4> QED
        BY <2>8, <4>1 DEF Moved, Put, Without, Restrict
    <3> QED
      BY <3>1, <3>2, <3>3
  <2>9. ASSUME NEW i \in DOMAIN config.rules, Key(config'.rules[i]) \in DOMAIN new
        PROVE  new[Key(config'.rules[i])] = config'.rules[i].enabled
    <3>1. CASE i = selected_rule
      BY <1>3, <2>7, <2>9, <3>1 DEF key
    <3>2. CASE i # selected_rule
      <4> DEFINE other == Key(config.rules[i])
      <4>1. config'.rules[i] = config.rules[i] /\ other # previous /\ other # key
        BY <1>3, <2>3, <3>2 DEF key
      <4>2. other \in DOMAIN new
        BY <2>9, <4>1
      <4>3. other \in DOMAIN entries => entries[other] = config.rules[i].enabled
        BY <2>2
      <4> HIDE DEF other
      <4>4. other \in DOMAIN entries /\ new[other] = entries[other]
        BY <2>8, <4>1, <4>2
      <4> QED
        BY <4>1, <4>3, <4>4 DEF other
    <3> QED
      BY <3>1, <3>2
  <2> QED
    BY <1>3, <2>9 DEF RulesMirror, new
<1> QED
  BY <1>7, <1>8

LEMMA DeleteRuleMirrors ==
  ASSUME MirrorsInv, DeleteSelectedRule
  PROVE  SelectedPresetMirrors'
<1> DEFINE at   == selected_preset
           gone == Key(config.rules[selected_rule])
<1>1. FormsInv /\ PresetOK
  BY FormsParts DEF MirrorsInv
<1>2. /\ config'.skins = config.skins
      /\ \A p \in DOMAIN config.presets :
           /\ config'.presets[p].profiles = config.presets[p].profiles
           /\ config'.presets[p].rules = Without(config.presets[p].rules, gone)
      /\ \A k \in DOMAIN config'.rules :
           \E i \in DOMAIN config.rules : config'.rules[k] = config.rules[i]
  BY <1>1, DeleteRuleParts
<1>3. selected_preset' = selected_preset /\ (crossed => crossed')
  BY DEF DeleteSelectedRule, Stage
<1> HIDE DEF gone
<1> SUFFICES ASSUME at # None
             PROVE  /\ ProfilesMirror(config'.presets[at], config')
                    /\ ~ crossed' => RulesMirror(config'.presets[at], config')
  BY <1>3, MirrorsPartsNext
<1>4. /\ ProfilesMirror(config.presets[at], config)
      /\ ~ crossed => RulesMirror(config.presets[at], config)
  BY MirrorsParts DEF MirrorsInv
<1>5. at \in DOMAIN config.presets
  BY <1>1 DEF PresetOK
<1>6. ProfilesMirror(config'.presets[at], config')
  BY <1>2, <1>4, <1>5 DEF ProfilesMirror
<1> DEFINE entries == config.presets[at].rules
<1>7. ASSUME ~ crossed', NEW k \in DOMAIN config'.rules,
             Key(config'.rules[k]) \in DOMAIN config'.presets[at].rules
      PROVE  config'.presets[at].rules[Key(config'.rules[k])] = config'.rules[k].enabled
  <2>1. \A i \in DOMAIN config.rules : Key(config.rules[i]) \in DOMAIN entries =>
          entries[Key(config.rules[i])] = config.rules[i].enabled
    BY <1>3, <1>4, <1>7 DEF RulesMirror
  <2>2. PICK i \in DOMAIN config.rules : config'.rules[k] = config.rules[i]
    BY <1>2
  <2>3. config'.presets[at].rules = Without(entries, gone)
    BY <1>2, <1>5
  <2> DEFINE key == Key(config.rules[i])
  <2>4. key \in DOMAIN config'.presets[at].rules
    BY <1>7, <2>2
  <2> HIDE DEF entries
  <2>5. key \in DOMAIN entries
    BY <2>3, <2>4 DEF Without, Restrict
  <2>6. entries[key] = config.rules[i].enabled
    BY <2>1, <2>5
  <2> HIDE DEF key
  <2>7. config'.presets[at].rules[key] = entries[key]
    BY <2>3, <2>4 DEF Without, Restrict
  <2> QED
    BY <2>2, <2>6, <2>7 DEF key
<1> QED
  BY <1>6, <1>7 DEF RulesMirror

LEMMA AddPresetMirrors ==
  ASSUME MirrorsInv, AddPreset
  PROVE  SelectedPresetMirrors'
<1>1. IsStaged(config)
  BY FormsParts DEF MirrorsInv
<1>2. PICK preset \in Presets :
        /\ Stage([config EXCEPT !.presets = Put(@, preset, ActivationState)])
        /\ selected_preset' = preset
  BY DEF AddPreset
<1>3. /\ config'.skins = config.skins /\ config'.rules = config.rules
      /\ config'.presets = Put(config.presets, preset, ActivationState)
  BY <1>1, <1>2, StagedParts DEF Stage
<1>4. config'.presets[preset] = ActivationState
  BY <1>3 DEF Put
<1>5. ~ crossed' => ~ KeysCross(config.rules)
  BY <1>2, <1>3 DEF Stage
<1>6. ProfilesMirror(ActivationState, config)
  BY <1>1, ActivationStateType DEF ProfilesMirror
<1>7. ~ crossed' => RulesMirror(ActivationState, config)
  BY <1>1, <1>5, ActivationStateType DEF RulesMirror
<1> QED
  BY <1>2, <1>3, <1>4, <1>6, <1>7, MirrorsPartsNext DEF ProfilesMirror, RulesMirror

LEMMA SyncPresetNameMirrors ==
  ASSUME MirrorsInv, NEW preset \in Presets, SyncPresetName(preset)
  PROVE  SelectedPresetMirrors'
<1> DEFINE at == selected_preset
<1>1. IsStaged(config) /\ at \in DOMAIN config.presets
  BY FormsParts DEF MirrorsInv, PresetOK, SyncPresetName
<1>2. /\ config'.skins = config.skins /\ config'.rules = config.rules
      /\ config'.presets = Moved(config.presets, at, preset)
  BY <1>1, StagedParts DEF SyncPresetName, Stage
<1>3. selected_preset' = preset /\ at # None /\ (crossed => crossed')
  BY DEF SyncPresetName, Stage
<1>4. config'.presets[preset] = config.presets[at]
  BY <1>1, <1>2 DEF Moved, Put
<1>5. /\ ProfilesMirror(config.presets[at], config)
      /\ ~ crossed => RulesMirror(config.presets[at], config)
  BY <1>3, MirrorsParts DEF MirrorsInv
<1> QED
  BY <1>2, <1>3, <1>4, <1>5, MirrorsPartsNext DEF ProfilesMirror, RulesMirror

\* What is enabled is what the preset says, where it says anything.
LEMMA SelectPresetMirrors ==
  ASSUME MirrorsInv, NEW preset \in Presets, SelectPreset(preset)
  PROVE  SelectedPresetMirrors'
<1> DEFINE new == config.presets[preset]
<1>1. IsStaged(config) /\ preset \in DOMAIN config.presets
  BY FormsParts DEF MirrorsInv, SelectPreset
<1>2. new \in Preset
  BY <1>1, StagedParts DEF IsMap
<1>3. config' = Activated(new) /\ selected_preset' = preset
  BY DEF SelectPreset, Stage
<1>4. /\ DOMAIN config'.skins = DOMAIN config.skins
      /\ DOMAIN config'.rules = DOMAIN config.rules
      /\ config'.presets = config.presets
      /\ \A s \in DOMAIN config.skins :
           config'.skins[s].enabled = Enables(new.profiles, s)
      /\ \A i \in DOMAIN config.rules :
           /\ Key(config'.rules[i]) = Key(config.rules[i])
           /\ config'.rules[i].enabled = Enables(new.rules, Key(config.rules[i]))
  BY <1>1, <1>2, <1>3, ActivatedType
<1>5. IsMap(new.profiles, Skins, BOOLEAN) /\ IsMap(new.rules, Keys, BOOLEAN)
  BY <1>2, PresetParts
<1> HIDE DEF new
<1>6. /\ \A s \in DOMAIN new.profiles : Enables(new.profiles, s) = new.profiles[s]
      /\ \A key \in DOMAIN new.rules : Enables(new.rules, key) = new.rules[key]
  <2>1. \A s \in DOMAIN new.profiles : Enables(new.profiles, s) = new.profiles[s]
    BY <1>5 DEF Enables, IsMap
  <2>2. \A key \in DOMAIN new.rules : Enables(new.rules, key) = new.rules[key]
    BY <1>5 DEF Enables, IsMap
  <2> QED
    BY <2>1, <2>2
<1>7. ProfilesMirror(new, config')
  BY <1>4, <1>6 DEF ProfilesMirror
<1>8. RulesMirror(new, config')
  BY <1>4, <1>6 DEF RulesMirror
<1> QED
  BY <1>3, <1>4, <1>7, <1>8, MirrorsPartsNext DEF new

LEMMA MirrorsStep ==
  ASSUME FilesNameTheLiving, MirrorsInv, [Next]_vars
  PROVE  MirrorsInv'
<1>1. FormsInv' /\ PresetsNameTheLiving' /\ CrossingNoticed'
  BY FormsStep, FilesLivingStep, CrossingStep DEF MirrorsInv
<1> SUFFICES SelectedPresetMirrors'
  BY <1>1 DEF MirrorsInv
<1>2. CASE /\ config' = config /\ selected_preset' = selected_preset
           /\ crossed' = crossed
  BY <1>2, MirrorsParts, MirrorsPartsNext DEF MirrorsInv
<1>3. CASE selected_preset' = None
  BY <1>3, MirrorsPartsNext
<1>4. CASE DrawProfiles
  <2>1. ASSUME NEW skin \in Skins, SelectProfile(skin)
        PROVE  config' = config /\ selected_preset' = selected_preset /\ crossed' = crossed
    BY <2>1 DEF SelectProfile
  <2> QED
    BY <1>2, <1>4, <2>1, AddProfileMirrors, SyncProfileIdMirrors, SyncProfileMirrors,
       DeleteProfileMirrors DEF DrawProfiles
<1>5. CASE DrawRules
  <2>1. ASSUME NEW index \in 1 .. MaxRules, SelectRule(index)
        PROVE  config' = config /\ selected_preset' = selected_preset /\ crossed' = crossed
    BY <2>1 DEF SelectRule
  <2> QED
    BY <1>2, <1>5, <2>1, AddRuleMirrors, SyncRuleProfileMirrors, SyncRuleMirrors,
       DeleteRuleMirrors DEF DrawRules
<1>6. CASE DrawPresets
  <2>1. DeleteSelectedPreset => selected_preset' = None
    BY DEF DeleteSelectedPreset
  <2> QED
    BY <1>3, <1>6, <2>1, AddPresetMirrors, SyncPresetNameMirrors, SelectPresetMirrors
    DEF DrawPresets
<1>7. /\ LoadConfig => selected_preset' = None
      /\ UNCHANGED vars \/ SaveConfig \/ DrawRuntimeSettings =>
           config' = config /\ selected_preset' = selected_preset /\ crossed' = crossed
  BY DEF LoadConfig, SaveConfig, DrawRuntimeSettings, vars
<1> QED
  BY <1>2, <1>3, <1>4, <1>5, <1>6, <1>7 DEF Next

\* While a preset is selected, it says of every profile and rule it mentions
\* what is staged for them: toggling writes both, selecting writes one from the
\* other, and renaming moves the entry (sync_selected_preset_skin,
\* sync_selected_preset_rule, apply_selected_preset).  For rules only as long as
\* no two have had the same conditions, for those share an entry.
THEOREM SelectedPresetIsStaged ==
  ASSUME FilesNameTheLiving
  PROVE  Spec => []SelectedPresetMirrors
<1>1. Init => MirrorsInv
  <2> SUFFICES ASSUME Init PROVE MirrorsInv
    OBVIOUS
  <2>1. FormsInv
    BY InitForms
  <2>2. PresetsNameTheLiving
    <3>1. DOMAIN NoConfig.presets = {}
      BY DEF NoConfig, EmptyMap
    <3> QED
      BY <3>1, LivingParts DEF Init, PresetsNameTheLiving
  <2>3. SelectedPresetMirrors
    BY DEF Init, SelectedPresetMirrors
  <2>4. CrossingNoticed
    <3>1. DOMAIN NoConfig.rules = {}
      BY DEF NoConfig
    <3> QED
      BY <3>1 DEF Init, CrossingNoticed, KeysCross
  <2> QED
    BY <2>1, <2>2, <2>3, <2>4 DEF MirrorsInv
<1>2. MirrorsInv /\ [Next]_vars => MirrorsInv'
  BY MirrorsStep
<1>3. MirrorsInv => SelectedPresetMirrors
  BY DEF MirrorsInv
<1> QED
  BY <1>1, <1>2, <1>3, PTL DEF Spec

LEMMA CrossingAlways == Spec => []CrossingNoticed
<1>1. Init => CrossingNoticed
  <2>1. DOMAIN NoConfig.rules = {}
    BY DEF NoConfig
  <2> QED
    BY <2>1 DEF Init, CrossingNoticed, KeysCross
<1>2. FormsInv' /\ CrossingNoticed /\ [Next]_vars => CrossingNoticed'
  BY CrossingStep
<1> QED
  BY <1>1, <1>2, FormsAlways, PTL DEF Spec

\* Selecting a preset that was added from what is staged (add_preset, then
\* apply_selected_preset) changes no profile and no rule.  Of rules that have
\* had the same conditions the last one decides for all.
THEOREM NewPresetChangesNothing ==
  Spec => [](~ crossed => Activated(ActivationState) = config)
<1>1. FormsInv /\ CrossingNoticed => (~ crossed => Activated(ActivationState) = config)
  <2> SUFFICES ASSUME FormsInv, ~ KeysCross(config.rules)
               PROVE  Activated(ActivationState) = config
    BY DEF CrossingNoticed
  <2> DEFINE state == ActivationState
             skins == [s \in DOMAIN config.skins |->
                        [config.skins[s] EXCEPT !.enabled = Enables(state.profiles, s)]]
             rules == [i \in DOMAIN config.rules |->
                        [config.rules[i] EXCEPT
                           !.enabled = Enables(state.rules, Key(config.rules[i]))]]
  <2>1. IsStaged(config)
    BY FormsParts
  <2>2. Activated(state) = [skins |-> skins, rules |-> rules, presets |-> config.presets]
    BY Zenon DEF Activated
  <2>3. /\ \A s \in DOMAIN config.skins :
             Enables(state.profiles, s) = config.skins[s].enabled
        /\ \A i \in DOMAIN config.rules :
             Enables(state.rules, Key(config.rules[i])) = config.rules[i].enabled
    <3>1. /\ DOMAIN state.profiles = DOMAIN config.skins
          /\ DOMAIN state.rules = {Key(config.rules[i]) : i \in DOMAIN config.rules}
          /\ \A s \in DOMAIN config.skins : state.profiles[s] = config.skins[s].enabled
          /\ \A i \in DOMAIN config.rules :
               state.rules[Key(config.rules[i])] = config.rules[i].enabled
      BY <2>1, ActivationStateType
    <3>2. /\ \A s \in DOMAIN config.skins : config.skins[s] \in SkinDefinition
          /\ \A i \in DOMAIN config.rules : config.rules[i] \in SkinRule
      BY <2>1, StagedParts DEF IsMap
    <3> HIDE DEF state
    <3> QED
      BY <3>1, <3>2 DEF Enables, SkinDefinition, SkinRule
  <2> HIDE DEF state
  <2>4. skins = config.skins
    <3>1. IsMap(config.skins, Skins, SkinDefinition)
      BY <2>1, StagedParts
    <3>2. \A s \in DOMAIN config.skins : skins[s] = config.skins[s]
      BY <2>3, <3>1 DEF IsMap, SkinDefinition
    <3> HIDE DEF skins
    <3> QED
      BY <3>1, <3>2 DEF IsMap, skins
  <2>5. rules = config.rules
    <3>1. /\ config.rules \in [DOMAIN config.rules -> SkinRule]
          /\ \A i \in DOMAIN config.rules : config.rules[i] \in SkinRule
      BY <2>1, StagedParts
    <3>2. \A i \in DOMAIN config.rules : rules[i] = config.rules[i]
      BY <2>3, <3>1 DEF SkinRule
    <3> QED
      BY <3>1, <3>2
  <2> HIDE DEF skins, rules
  <2> QED
    BY <2>1, <2>2, <2>4, <2>5, StagedParts DEF state
<1> QED
  BY <1>1, FormsAlways, CrossingAlways, PTL

-----------------------------------------------------------------------------
(***************************************************************************)
(* Two programs check what one file says: the editor before it writes it,  *)
(* the plugin when it has read it.                                         *)
(***************************************************************************)

\* A rule has a priority exactly when it has a condition.
LEMMA ConditionsGivePriority ==
  ASSUME NEW rule
  PROVE  Priority(rule) # 0 <=> Key(rule) # <<None, None>>
  BY DEF Priority, Key

\* A flag that is missing is set, by ensure_schema and by enabled_by_default.
LEMMA MissingFlags ==
  ASSUME NEW flag \in Flag
  PROVE  /\ WithDefault(flag, TRUE) \in BOOLEAN <=> flag \in BOOLEAN \cup {None}
         /\ WithDefault(flag, TRUE) = (IF flag = None THEN TRUE ELSE flag)
  BY FileAssumption DEF Flag, WithDefault

\* The two readings of the table of profiles.
LEMMA SkinReadings ==
  ASSUME NEW doc, IsDocument(doc)
  PROVE  LET entries == doc.skins.entries
             staged == StagedOf(doc).skins
             parsed == Deserialized(doc).skins
         IN  /\ DOMAIN staged = DOMAIN entries /\ DOMAIN parsed = DOMAIN entries
             /\ \A s \in DOMAIN entries :
                  /\ entries[s].paths \in Paths \cup {Junk}
                  /\ staged[s].paths = entries[s].paths
                  /\ parsed[s].paths = entries[s].paths
                  /\ staged[s].enabled = parsed[s].enabled
                  /\ staged[s].enabled \in BOOLEAN
                       <=> entries[s].enabled \in BOOLEAN \cup {None}
<1> DEFINE entries == doc.skins.entries
           staged == StagedOf(doc).skins
           parsed == Deserialized(doc).skins
<1>1. \A s \in DOMAIN entries : entries[s] \in SkinEntry
  BY DEF IsDocument, IsSkinTable, IsMap
<1>2. staged = [s \in DOMAIN entries |->
                 [ enabled |-> IF entries[s].enabled = None THEN TRUE
                               ELSE entries[s].enabled,
                   paths   |-> entries[s].paths ]]
  BY DEF StagedOf
<1>3. parsed = [s \in DOMAIN entries |->
                 [entries[s] EXCEPT !.enabled = WithDefault(@, TRUE)]]
  BY DEF Deserialized
<1> HIDE DEF entries, staged, parsed
<1>4. ASSUME NEW s \in DOMAIN entries
      PROVE  /\ entries[s].paths \in Paths \cup {Junk}
             /\ staged[s].paths = entries[s].paths
             /\ parsed[s].paths = entries[s].paths
             /\ staged[s].enabled = parsed[s].enabled
             /\ staged[s].enabled \in BOOLEAN
                  <=> entries[s].enabled \in BOOLEAN \cup {None}
  <2>1. entries[s] \in SkinEntry /\ entries[s].enabled \in Flag
    BY <1>1 DEF SkinEntry
  <2>2. /\ WithDefault(entries[s].enabled, TRUE) \in BOOLEAN
             <=> entries[s].enabled \in BOOLEAN \cup {None}
        /\ WithDefault(entries[s].enabled, TRUE)
             = IF entries[s].enabled = None THEN TRUE ELSE entries[s].enabled
    BY <2>1, MissingFlags
  <2>3. /\ staged[s].enabled = (IF entries[s].enabled = None THEN TRUE
                                ELSE entries[s].enabled)
        /\ staged[s].paths = entries[s].paths
    BY <1>2
  <2>4. /\ parsed[s].enabled = WithDefault(entries[s].enabled, TRUE)
        /\ parsed[s].paths = entries[s].paths
    BY <1>3, <2>1 DEF SkinEntry
  <2>5. entries[s].paths \in Paths \cup {Junk}
    BY <2>1 DEF SkinEntry
  <2> QED
    BY <2>2, <2>3, <2>4, <2>5
<1> QED
  BY <1>2, <1>3, <1>4 DEF entries, staged, parsed

\* The two readings of the list of rules.
LEMMA RuleReadings ==
  ASSUME NEW doc, IsDocument(doc)
  PROVE  LET entries == doc.rules.entries
             staged == StagedOf(doc).rules
             parsed == Deserialized(doc).rules
         IN  /\ DOMAIN staged = DOMAIN entries /\ DOMAIN parsed = DOMAIN entries
             /\ DOMAIN entries = 1 .. Len(entries) /\ Len(entries) \in Nat
             /\ \A i \in DOMAIN entries :
                  /\ entries[i] \in RuleEntry
                  /\ staged[i].profile_id = entries[i].profile_id
                  /\ parsed[i].profile_id = entries[i].profile_id
                  /\ staged[i].player_name = entries[i].player_name
                  /\ staged[i].server_model_id = entries[i].server_model_id
                  /\ Key(staged[i]) = Key(parsed[i])
                  /\ staged[i].enabled \in BOOLEAN
                       <=> entries[i].enabled \in BOOLEAN \cup {None}
<1> DEFINE entries == doc.rules.entries
           staged == StagedOf(doc).rules
           parsed == Deserialized(doc).rules
<1>1. /\ entries \in Seq(RuleEntry)
      /\ DOMAIN entries = 1 .. Len(entries) /\ Len(entries) \in Nat
      /\ \A i \in DOMAIN entries : entries[i] \in RuleEntry
  <2>1. entries \in Seq(RuleEntry)
    BY DEF IsDocument, IsRuleTable
  <2> HIDE DEF entries
  <2> QED
    BY <2>1
<1>2. staged = [i \in DOMAIN entries |->
                 [ profile_id      |-> entries[i].profile_id,
                   enabled         |-> IF entries[i].enabled = None THEN TRUE
                                       ELSE entries[i].enabled,
                   player_name     |-> entries[i].player_name,
                   server_model_id |-> entries[i].server_model_id ]]
  BY DEF StagedOf
<1>3. parsed = [i \in DOMAIN entries |->
                 [entries[i] EXCEPT !.enabled = WithDefault(@, TRUE)]]
  BY DEF Deserialized
<1> HIDE DEF entries, staged, parsed
<1>4. ASSUME NEW i \in DOMAIN entries
      PROVE  /\ entries[i] \in RuleEntry
             /\ staged[i].profile_id = entries[i].profile_id
             /\ parsed[i].profile_id = entries[i].profile_id
             /\ staged[i].player_name = entries[i].player_name
             /\ staged[i].server_model_id = entries[i].server_model_id
             /\ Key(staged[i]) = Key(parsed[i])
             /\ staged[i].enabled \in BOOLEAN
                  <=> entries[i].enabled \in BOOLEAN \cup {None}
  <2>1. entries[i] \in RuleEntry /\ entries[i].enabled \in Flag
    BY <1>1 DEF RuleEntry
  <2>2. /\ WithDefault(entries[i].enabled, TRUE) \in BOOLEAN
             <=> entries[i].enabled \in BOOLEAN \cup {None}
        /\ WithDefault(entries[i].enabled, TRUE)
             = IF entries[i].enabled = None THEN TRUE ELSE entries[i].enabled
    BY <2>1, MissingFlags
  <2>3. /\ staged[i].profile_id = entries[i].profile_id
        /\ staged[i].enabled = (IF entries[i].enabled = None THEN TRUE
                                ELSE entries[i].enabled)
        /\ staged[i].player_name = entries[i].player_name
        /\ staged[i].server_model_id = entries[i].server_model_id
    BY <1>2
  <2>4. /\ parsed[i].profile_id = entries[i].profile_id
        /\ parsed[i].player_name = entries[i].player_name
        /\ parsed[i].server_model_id = entries[i].server_model_id
    BY <1>3, <2>1 DEF RuleEntry
  <2> QED
    BY <2>1, <2>2, <2>3, <2>4 DEF Key
<1> QED
  BY <1>1, <1>2, <1>3, <1>4 DEF entries, staged, parsed

\* The shapes serde expects of the two tables; ensure_schema makes an empty table
\* of anything that is no table, and to Lua an empty list is an empty object.
HasShapes(doc) ==
  /\ doc.skins.shape \in {"map", "missing"}
  /\ doc.rules.shape \in {"list", "missing"}

HasNames(doc) == EmptyText \notin DOMAIN doc.skins.entries

\* What the two programs ask of the settings, the profiles and each rule.
SettingsValid(doc) ==
  /\ SettingsOf(doc).poll_interval_ms \in PollIntervalsMs
  /\ SettingsOf(doc).log_level \in LogLevels

SettingsRead(doc) ==
  /\ doc.poll_interval_ms \in Nat \cup {None}
  /\ doc.log_level \in LogLevels \cup {None}

SettingsParse(doc) ==
  WithDefault(doc.poll_interval_ms, DefaultPollIntervalMs) \in PollIntervalsMs

SkinsValid(doc) ==
  \A s \in DOMAIN StagedOf(doc).skins :
    /\ s # EmptyText
    /\ StagedOf(doc).skins[s].enabled \in BOOLEAN
    /\ StagedOf(doc).skins[s].paths \in Paths
    /\ StagedOf(doc).skins[s].enabled => StagedOf(doc).skins[s].paths # NoPaths

SkinsRead(doc) ==
  \A s \in DOMAIN doc.skins.entries :
    /\ doc.skins.entries[s].enabled \in BOOLEAN \cup {None}
    /\ doc.skins.entries[s].paths # Junk

SkinsParse(parsed) ==
  \A s \in DOMAIN parsed.skins :
    parsed.skins[s].enabled => parsed.skins[s].paths # NoPaths

RuleValid(staged, i) ==
  /\ staged.rules[i].enabled \in BOOLEAN
  /\ staged.rules[i].profile_id \in DOMAIN staged.skins
  /\ staged.rules[i].player_name \in Names \cup {None}
  /\ staged.rules[i].server_model_id \in ValidModelIds \cup {None}
  /\ Key(staged.rules[i]) # <<None, None>>

RuleReads(rule) ==
  /\ rule.profile_id # Junk
  /\ rule.enabled \in BOOLEAN \cup {None}
  /\ rule.player_name # Junk
  /\ rule.server_model_id \in I16 \cup {None}

RuleNamed(rule) ==
  /\ rule.profile_id # EmptyText
  /\ rule.player_name # EmptyText
  /\ rule.server_model_id \in ValidModelIds \cup {None}

RuleParses(parsed, i) ==
  /\ parsed.rules[i].profile_id \in DOMAIN parsed.skins
  /\ Priority(parsed.rules[i]) # 0

ValidFresh(staged, i) ==
  \A j \in 1 .. i - 1 : Key(staged.rules[j]) # Key(staged.rules[i])

ParsedFresh(parsed, i) ==
  \A j \in 1 .. i - 1 : ~ Duplicates(parsed.rules[i], parsed.rules[j])

LEMMA ValidatesParts ==
  ASSUME NEW doc
  PROVE  Validates(StagedOf(doc), SettingsOf(doc))
           <=> /\ SettingsValid(doc) /\ SkinsValid(doc)
               /\ \A i \in DOMAIN StagedOf(doc).rules :
                    RuleValid(StagedOf(doc), i) /\ ValidFresh(StagedOf(doc), i)
  BY Zenon DEF Validates, SettingsValid, SkinsValid, RuleValid, ValidFresh

LEMMA DeserializesParts ==
  ASSUME NEW doc
  PROVE  Deserializes(doc)
           <=> /\ SettingsRead(doc) /\ HasShapes(doc) /\ SkinsRead(doc)
               /\ \A i \in DOMAIN doc.rules.entries : RuleReads(doc.rules.entries[i])
  BY Zenon DEF Deserializes, SettingsRead, HasShapes, SkinsRead, RuleReads

LEMMA AcceptedParts ==
  ASSUME NEW parsed
  PROVE  Accepted(parsed)
           <=> /\ SkinsParse(parsed)
               /\ \A i \in DOMAIN parsed.rules :
                    RuleParses(parsed, i) /\ ParsedFresh(parsed, i)
  BY Zenon DEF Accepted, SkinsParse, RuleParses, ParsedFresh

LEMMA ParsesParts ==
  ASSUME NEW doc
  PROVE  Parses(doc)
           <=> /\ Deserializes(doc) /\ SettingsParse(doc)
               /\ \A i \in DOMAIN doc.rules.entries : RuleNamed(doc.rules.entries[i])
               /\ Accepted(Deserialized(doc))
  BY Zenon DEF Parses, SettingsParse, RuleNamed

\* Every model id there is fits an i16.
LEMMA ModelIdsFit == ValidModelIds \subseteq I16
<1>1. MaxI16 \in Nat /\ MaxModelId \in Nat /\ MaxModelId <= MaxI16
  BY DEF MaxI16, MaxModelId
<1> QED
  BY <1>1 DEF ValidModelIds, I16

LEMMA SettingsAgree ==
  ASSUME NEW doc, IsDocument(doc)
  PROVE  SettingsValid(doc) <=> SettingsRead(doc) /\ SettingsParse(doc)
<1> DEFINE interval == WithDefault(doc.poll_interval_ms, DefaultPollIntervalMs)
           level == WithDefault(doc.log_level, DefaultLogLevel)
<1>1. /\ SettingsOf(doc).poll_interval_ms = interval
      /\ SettingsOf(doc).log_level = level
  BY DEF SettingsOf
<1>2. interval \in PollIntervalsMs => doc.poll_interval_ms \in Nat \cup {None}
  <2>1. doc.poll_interval_ms = None \/ interval = doc.poll_interval_ms
    BY DEF WithDefault
  <2> HIDE DEF interval
  <2> QED
    BY <2>1, IntervalsAreNumbers
<1>3. level \in LogLevels <=> doc.log_level \in LogLevels \cup {None}
  BY EditorAssumption DEF WithDefault
<1> HIDE DEF level
<1> QED
  BY <1>1, <1>2, <1>3 DEF SettingsValid, SettingsRead, SettingsParse

LEMMA SkinsAgree ==
  ASSUME NEW doc, IsDocument(doc)
  PROVE  SkinsValid(doc)
           <=> HasNames(doc) /\ SkinsRead(doc) /\ SkinsParse(Deserialized(doc))
<1> DEFINE entries == doc.skins.entries
           staged == StagedOf(doc).skins
           parsed == Deserialized(doc).skins
<1>1. /\ DOMAIN staged = DOMAIN entries /\ DOMAIN parsed = DOMAIN entries
      /\ \A s \in DOMAIN entries :
           /\ entries[s].paths \in Paths \cup {Junk}
           /\ staged[s].paths = entries[s].paths
           /\ parsed[s].paths = entries[s].paths
           /\ staged[s].enabled = parsed[s].enabled
           /\ staged[s].enabled \in BOOLEAN <=> entries[s].enabled \in BOOLEAN \cup {None}
  BY SkinReadings
<1> HIDE DEF entries, staged, parsed
<1>2. Junk \notin Paths
  BY FileAssumption
<1>3. (\A s \in DOMAIN staged :
         /\ s # EmptyText
         /\ staged[s].enabled \in BOOLEAN
         /\ staged[s].paths \in Paths
         /\ staged[s].enabled => staged[s].paths # NoPaths)
        <=> /\ EmptyText \notin DOMAIN entries
            /\ \A s \in DOMAIN entries :
                 /\ entries[s].enabled \in BOOLEAN \cup {None}
                 /\ entries[s].paths # Junk
            /\ \A s \in DOMAIN parsed :
                 parsed[s].enabled => parsed[s].paths # NoPaths
  BY <1>1, <1>2
<1> QED
  BY <1>3 DEF entries, staged, parsed, SkinsValid, HasNames, SkinsRead, SkinsParse

LEMMA RulesAgree ==
  ASSUME NEW doc, IsDocument(doc), HasNames(doc), NEW i \in DOMAIN doc.rules.entries
  PROVE  /\ RuleValid(StagedOf(doc), i)
              <=> /\ RuleReads(doc.rules.entries[i]) /\ RuleNamed(doc.rules.entries[i])
                  /\ RuleParses(Deserialized(doc), i)
         /\ ValidFresh(StagedOf(doc), i) <=> ParsedFresh(Deserialized(doc), i)
<1> DEFINE entry == doc.rules.entries[i]
           rule == StagedOf(doc).rules[i]
           parsed == Deserialized(doc).rules[i]
           profiles == DOMAIN doc.skins.entries
           Flagged == entry.enabled \in BOOLEAN \cup {None}
           Numbered == entry.server_model_id \in ValidModelIds \cup {None}
           Assigned == entry.profile_id \in profiles
           Conditional == Key(parsed) # <<None, None>>
<1>1. /\ entry \in RuleEntry
      /\ rule.profile_id = entry.profile_id
      /\ parsed.profile_id = entry.profile_id
      /\ rule.player_name = entry.player_name
      /\ rule.server_model_id = entry.server_model_id
      /\ Key(rule) = Key(parsed)
      /\ rule.enabled \in BOOLEAN <=> Flagged
  BY RuleReadings
<1>2. /\ DOMAIN StagedOf(doc).skins = profiles
      /\ DOMAIN Deserialized(doc).skins = profiles
  BY SkinReadings
<1>3. profiles \subseteq Skins
  BY DEF IsDocument, IsSkinTable, IsMap, HasNames
<1>4. Priority(parsed) # 0 <=> Conditional
  BY ConditionsGivePriority
<1>5. entry.player_name \in Names \cup {None}
        <=> entry.player_name # Junk /\ entry.player_name # EmptyText
  <2>1. entry.player_name \in Names \cup {EmptyText, None, Junk}
    BY <1>1 DEF RuleEntry
  <2> HIDE DEF entry
  <2> QED
    BY <2>1, FileAssumption
<1>6. Numbered => entry.server_model_id \in I16 \cup {None}
  <2> HIDE DEF entry
  <2> QED
    BY ModelIdsFit
<1>7. Assigned => entry.profile_id # Junk /\ entry.profile_id # EmptyText
  <2> HIDE DEF entry, profiles
  <2> QED
    BY <1>3, FileAssumption
<1>8. RuleValid(StagedOf(doc), i)
        <=> /\ Flagged /\ Assigned /\ Numbered /\ Conditional
            /\ entry.player_name \in Names \cup {None}
  BY <1>1, <1>2, Zenon DEF RuleValid
<1>9. RuleParses(Deserialized(doc), i) <=> Assigned /\ Conditional
  BY <1>1, <1>2, <1>4, Zenon DEF RuleParses
<1>10. RuleReads(entry)
         <=> /\ entry.profile_id # Junk /\ Flagged /\ entry.player_name # Junk
             /\ entry.server_model_id \in I16 \cup {None}
  BY Zenon DEF RuleReads
<1>11. RuleNamed(entry)
         <=> entry.profile_id # EmptyText /\ entry.player_name # EmptyText /\ Numbered
  BY Zenon DEF RuleNamed
<1>12. ValidFresh(StagedOf(doc), i) <=> ParsedFresh(Deserialized(doc), i)
  <2> DEFINE staged == StagedOf(doc).rules
             read == Deserialized(doc).rules
  <2>1. ASSUME NEW j \in 1 .. i - 1
        PROVE  Key(staged[j]) # Key(staged[i]) <=> ~ Duplicates(read[i], read[j])
    <3>1. j \in DOMAIN doc.rules.entries
      BY RuleReadings
    <3>2. Key(staged[j]) = Key(read[j]) /\ Key(staged[i]) = Key(read[i])
      BY <3>1, RuleReadings
    <3> HIDE DEF staged, read
    <3> QED
      BY <3>2 DEF Key, Duplicates
  <2> QED
    BY <2>1, Zenon DEF ValidFresh, ParsedFresh
<1> HIDE DEF Flagged, Numbered, Assigned, Conditional
<1> QED
  BY <1>5, <1>6, <1>7, <1>8, <1>9, <1>10, <1>11, <1>12

\* load_config (ensure_schema, validate_config; wardrobe_ui.lua) and the plugin
\* (serde_json, parse; config.rs) take the same documents, whatever is missing,
\* out of range or of another type in their fields, with two exceptions: only the
\* editor reads profiles that are not in an object, and rules that are not in a
\* list, as if there were none, and only the plugin takes a profile without a
\* name.
THEOREM ValidatorsAgree ==
  ASSUME NEW doc, IsDocument(doc)
  PROVE  Validates(StagedOf(doc), SettingsOf(doc)) /\ HasShapes(doc)
           <=> Parses(doc) /\ HasNames(doc)
<1>1. /\ DOMAIN StagedOf(doc).rules = DOMAIN doc.rules.entries
      /\ DOMAIN Deserialized(doc).rules = DOMAIN doc.rules.entries
  BY RuleReadings
<1>2. Validates(StagedOf(doc), SettingsOf(doc)) => HasNames(doc)
  BY ValidatesParts, SkinsAgree
<1>3. ASSUME HasNames(doc)
      PROVE  Validates(StagedOf(doc), SettingsOf(doc)) /\ HasShapes(doc) <=> Parses(doc)
  <2> DEFINE RuleSame(i) ==
               /\ RuleReads(doc.rules.entries[i]) /\ RuleNamed(doc.rules.entries[i])
               /\ RuleParses(Deserialized(doc), i) /\ ParsedFresh(Deserialized(doc), i)
             Others ==
               /\ SettingsRead(doc) /\ SettingsParse(doc)
               /\ SkinsRead(doc) /\ SkinsParse(Deserialized(doc))
  <2>1. Parses(doc)
          <=> Others /\ HasShapes(doc) /\ \A i \in DOMAIN doc.rules.entries : RuleSame(i)
    BY <1>1, ParsesParts, DeserializesParts, AcceptedParts, Zenon
  <2>2. \A i \in DOMAIN doc.rules.entries :
          RuleValid(StagedOf(doc), i) /\ ValidFresh(StagedOf(doc), i) <=> RuleSame(i)
    BY <1>3, RulesAgree
  <2>3. SettingsValid(doc) /\ SkinsValid(doc) <=> Others
    BY <1>3, SettingsAgree, SkinsAgree
  <2> HIDE DEF RuleSame, Others
  <2> QED
    BY <1>1, <2>1, <2>2, <2>3, ValidatesParts
<1> QED
  BY <1>2, <1>3

-----------------------------------------------------------------------------
(***************************************************************************)
(* What is written.                                                        *)
(***************************************************************************)

\* A staged configuration that validates, as it is encoded, is read by serde in
\* the shapes it expects, and parse then has nothing to object to.
LEMMA EncodedParses ==
  ASSUME NEW staged, IsStaged(staged), NEW chosen \in Settings,
         Validates(staged, chosen), NEW emptyTable \in {"map", "list"}
  PROVE  Parses(Encoded(staged, chosen, emptyTable))
           <=> /\ DOMAIN staged.skins = {} => emptyTable = "map"
               /\ staged.rules = << >> => emptyTable = "list"
<1> DEFINE doc == Encoded(staged, chosen, emptyTable)
<1>1. /\ IsMap(staged.skins, Skins, SkinDefinition)
      /\ DOMAIN staged.rules = 1 .. Len(staged.rules)
      /\ \A i \in DOMAIN staged.rules : staged.rules[i] \in SkinRule
  BY StagedParts
<1>2. /\ doc.poll_interval_ms = chosen.poll_interval_ms
      /\ doc.log_level = chosen.log_level
      /\ doc.skins.shape = (IF DOMAIN staged.skins = {} THEN emptyTable ELSE "map")
      /\ doc.skins.entries = staged.skins
      /\ doc.rules.shape = (IF staged.rules = << >> THEN emptyTable ELSE "list")
      /\ doc.rules.entries = staged.rules
  BY DEF Encoded
<1> HIDE DEF doc
<1>3. /\ chosen.poll_interval_ms \in PollIntervalsMs
      /\ chosen.log_level \in LogLevels
  BY DEF Validates
<1>4. WithDefault(doc.poll_interval_ms, DefaultPollIntervalMs) = chosen.poll_interval_ms
  <2>1. chosen.poll_interval_ms \in Int
    BY <1>3, IntervalsAreNumbers
  <2>2. chosen.poll_interval_ms # None
    BY <2>1, FileAssumption
  <2> QED
    BY <1>2, <2>2 DEF WithDefault
<1>5. \A s \in DOMAIN staged.skins :
        /\ staged.skins[s] \in SkinDefinition
        /\ s # EmptyText
        /\ staged.skins[s].enabled => staged.skins[s].paths # NoPaths
  BY <1>1 DEF IsMap, Validates
<1>6. \A i \in DOMAIN staged.rules :
        /\ staged.rules[i] \in SkinRule
        /\ staged.rules[i].profile_id \in DOMAIN staged.skins
        /\ staged.rules[i].server_model_id \in ValidModelIds \cup {None}
        /\ Priority(staged.rules[i]) # 0
        /\ \A j \in 1 .. i - 1 : ~ Duplicates(staged.rules[i], staged.rules[j])
  <2>1. ASSUME NEW i \in DOMAIN staged.rules, NEW j \in 1 .. i - 1
        PROVE  ~ Duplicates(staged.rules[i], staged.rules[j])
    <3>1. Key(staged.rules[j]) # Key(staged.rules[i])
      BY DEF Validates
    <3> QED
      BY <3>1 DEF Key, Duplicates
  <2> QED
    BY <1>1, <2>1, ConditionsGivePriority DEF Validates
<1>7. /\ \A s \in DOMAIN staged.skins :
           [staged.skins[s] EXCEPT !.enabled = WithDefault(@, TRUE)] = staged.skins[s]
      /\ \A i \in DOMAIN staged.rules :
           [staged.rules[i] EXCEPT !.enabled = WithDefault(@, TRUE)] = staged.rules[i]
  <2>1. \A flag \in BOOLEAN : WithDefault(flag, TRUE) = flag
    BY FileAssumption DEF WithDefault
  <2>2. \A skin \in SkinDefinition :
          [skin EXCEPT !.enabled = WithDefault(@, TRUE)] = skin
    BY <2>1 DEF SkinDefinition
  <2>3. \A rule \in SkinRule : [rule EXCEPT !.enabled = WithDefault(@, TRUE)] = rule
    BY <2>1 DEF SkinRule
  <2> QED
    BY <1>1, <1>5, <2>2, <2>3
<1>8. Accepted(Deserialized(doc))
  <2> DEFINE parsed == Deserialized(doc)
  <2>1. /\ DOMAIN parsed.skins = DOMAIN staged.skins
        /\ \A s \in DOMAIN staged.skins : parsed.skins[s] = staged.skins[s]
        /\ DOMAIN parsed.rules = DOMAIN staged.rules
        /\ \A i \in DOMAIN staged.rules : parsed.rules[i] = staged.rules[i]
    BY <1>2, <1>7 DEF Deserialized
  <2>2. \A i \in DOMAIN staged.rules : \A j \in 1 .. i - 1 : j \in DOMAIN staged.rules
    BY <1>1
  <2> HIDE DEF parsed
  <2>3. Accepted(parsed)
    BY <1>5, <1>6, <2>1, <2>2 DEF Accepted
  <2> QED
    BY <2>3 DEF parsed
<1>9. SkinsRead(doc)
  <2>1. Junk \notin Paths
    BY FileAssumption
  <2> QED
    BY <1>2, <1>5, <2>1 DEF SkinDefinition, SkinsRead
<1>10. ASSUME NEW i \in DOMAIN staged.rules
       PROVE  RuleReads(staged.rules[i]) /\ RuleNamed(staged.rules[i])
  <2> DEFINE rule == staged.rules[i]
  <2>1. /\ rule.profile_id \in Skins /\ rule.enabled \in BOOLEAN
        /\ rule.player_name \in Names \cup {None}
    BY <1>6 DEF SkinRule
  <2>2. rule.server_model_id \in ValidModelIds \cup {None}
    BY <1>6
  <2> HIDE DEF rule
  <2>3. /\ rule.profile_id # Junk /\ rule.profile_id # EmptyText
        /\ rule.player_name # Junk /\ rule.player_name # EmptyText
    BY <2>1, FileAssumption
  <2>4. rule.server_model_id \in I16 \cup {None}
    BY <2>2, ModelIdsFit
  <2>5. RuleReads(rule) /\ RuleNamed(rule)
    BY <2>1, <2>2, <2>3, <2>4, Zenon DEF RuleReads, RuleNamed
  <2> QED
    BY <2>5 DEF rule
<1>11. SettingsRead(doc) /\ SettingsParse(doc)
  <2>1. chosen.poll_interval_ms \in Nat
    BY <1>3, IntervalsAreNumbers
  <2> QED
    BY <1>2, <1>3, <1>4, <2>1 DEF SettingsRead, SettingsParse
<1>12. HasShapes(doc)
         <=> /\ DOMAIN staged.skins = {} => emptyTable = "map"
             /\ staged.rules = << >> => emptyTable = "list"
  BY <1>2 DEF HasShapes
<1>13. Parses(doc) <=> HasShapes(doc)
  BY <1>2, <1>8, <1>9, <1>10, <1>11, ParsesParts, DeserializesParts
<1> QED
  BY <1>12, <1>13 DEF doc

\* What is saved replaces the plugin's configuration when it is read, if and only
\* if encodeJson wrote each empty table in the shape serde expects of its field:
\* validate_config leaves parse nothing else to refuse.
THEOREM SavesAreAccepted == Spec => SavedIsAccepted
<1> DEFINE accepted ==
             \A emptyTable \in {"map", "list"} :
               Parses(Encoded(config, settings, emptyTable))
                 <=> /\ DOMAIN config.skins = {} => emptyTable = "map"
                     /\ config.rules = << >> => emptyTable = "list"
           saved == dirty /\ ~ dirty' /\ UNCHANGED <<config, settings>> => accepted
<1>1. FormsInv /\ [Next]_vars => saved
  <2> SUFFICES ASSUME FormsInv, [Next]_vars, dirty, ~ dirty',
                      UNCHANGED <<config, settings>>
               PROVE  accepted
    OBVIOUS
  <2>1. Validates(config, settings)
    <3>1. ASSUME NEW new, Stage(new) PROVE FALSE
      BY <3>1 DEF Stage
    <3>2. UNCHANGED vars \/ DrawRuntimeSettings => FALSE
      BY DEF vars, DrawRuntimeSettings
    <3>3. CASE LoadConfig
      <4>1. PICK loaded \in Loaded :
              config' = loaded.staged /\ settings' = loaded.settings
        BY <3>3 DEF LoadConfig
      <4> QED
        BY <4>1, LoadedType
    <3>4. CASE SaveConfig
      BY <3>4 DEF SaveConfig
    <3>5. DrawProfiles => \/ dirty' = dirty
                          \/ \E new : Stage(new)
      BY Zenon DEF DrawProfiles, AddProfile, ToggleProfile, DeleteSelectedProfile, SelectProfile,
         SyncProfileId, SyncProfileFields
    <3>6. DrawRules => \/ dirty' = dirty
                       \/ \E new : Stage(new)
      BY Zenon DEF DrawRules, AddRule, ToggleRule, DeleteSelectedRule, SelectRule,
         SyncRuleProfile, SyncRuleConditions
    <3>7. DrawPresets => \E new : Stage(new)
      BY Zenon DEF DrawPresets, AddPreset, DeleteSelectedPreset, SelectPreset, SyncPresetName
    <3> QED
      BY <3>1, <3>2, <3>3, <3>4, <3>5, <3>6, <3>7 DEF Next
  <2> QED
    BY <2>1, FormsParts, EncodedParses DEF FlagsOK
<1> QED
  BY <1>1, FormsAlways, PTL DEF Spec, SavedIsAccepted
=============================================================================
