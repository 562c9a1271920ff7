----------------------------- MODULE WardrobeUi -----------------------------
(***************************************************************************)
(* The MoonLoader editor (moonloader/wardrobe_ui/wardrobe_ui.lua): a staged *)
(* copy of the configuration, forms that are written back as a whole, and  *)
(* presets that remember which profiles and rules are enabled.             *)
(*                                                                         *)
(* Every action is one widget used in one frame; a text field is written   *)
(* back with every key that is typed.  What others do to the file is in    *)
(* the choice of its content when it is read.                              *)
(*                                                                         *)
(* Abstracted: texts (a name, an id, the two paths of a profile are members *)
(* of sets; an id that is free, or the first of the sorted ones, is any    *)
(* one), the status line, the search fields, and fields used while nothing *)
(* is selected, which write nothing.                                       *)
(***************************************************************************)
EXTENDS ConfigFile, SequencesExt

CONSTANTS
  Files,       \* what may be in the file when it is read, None for no file
  Intervals,   \* what may be typed as the scan interval
  MaxRules,    \* bound: the rules that are staged at once
  MaxPresets   \* bound: the presets that are staged at once

NoConfig == [skins |-> EmptyMap, rules |-> << >>, presets |-> EmptyMap]

DefaultSettings == [ poll_interval_ms |-> DefaultPollIntervalMs,
                     log_level        |-> DefaultLogLevel ]

VARIABLES
  config,           \* state.config: the profiles, the rules and the presets
  settings,         \* state.config: poll_interval_ms and log_level
  dirty,            \* state.dirty
  selected_skin,    \* state.selected_skin, or None
  selected_rule,    \* state.selected_rule, or 0
  selected_preset,  \* state.selected_preset, or None
  profile_form,     \* the fields of the selected profile
  rule_form,        \* the fields of the selected rule
  crossed           \* history: two rules have had the same conditions

editorVars == <<selected_skin, selected_rule, profile_form, rule_form>>
vars == <<config, settings, dirty, editorVars, selected_preset, crossed>>

-----------------------------------------------------------------------------
(***************************************************************************)
(* The staged configuration                                                *)
(***************************************************************************)
Conditions(rule) ==
  [ player_name     |-> rule.player_name,
    server_model_id |-> rule.server_model_id,
    enabled         |-> rule.enabled ]

RuleForm == [ player_name     : Names \cup {None},
              server_model_id : Models \cup {None},
              enabled         : BOOLEAN ]

IsStaged(staged) ==
  /\ staged = [ skins |-> staged.skins, rules |-> staged.rules,
                presets |-> staged.presets ]
  /\ IsMap(staged.skins, Skins, SkinDefinition)
  /\ staged.rules \in Seq(SkinRule) /\ Len(staged.rules) <= MaxRules
  /\ IsMap(staged.presets, Presets, Preset)

Settings == [poll_interval_ms : Int, log_level : LogLevels]

\* A file is any document; where it names a model that a rule may name, the
\* model is one of Models, and it fits the bound on rules.
ASSUME EditorAssumption ==
  /\ None \notin Skins /\ None \notin Presets
  /\ NoPaths \in Paths
  /\ DefaultLogLevel \in LogLevels
  /\ Intervals \subseteq Int
  /\ MaxRules \in Nat
  /\ \A file \in Files \ {None} :
       /\ IsDocument(file)
       /\ Len(file.rules.entries) <= MaxRules
       /\ \A i \in DOMAIN file.rules.entries :
            file.rules.entries[i].server_model_id \in ValidModelIds =>
              file.rules.entries[i].server_model_id \in Models

KeysCross(rules) ==
  \E i, j \in DOMAIN rules : i # j /\ Key(rules[i]) = Key(rules[j])

Stage(new) ==
  /\ config' = new
  /\ crossed' = (crossed \/ KeysCross(new.rules))
  /\ dirty' = TRUE
  /\ UNCHANGED settings

-----------------------------------------------------------------------------
(***************************************************************************)
(* Selections.  Selecting copies the fields into the form.                 *)
(***************************************************************************)
ShowProfile(new, skin) ==
  /\ selected_skin' = skin
  /\ profile_form' = new.skins[skin]

ShowRule(new, index) ==
  /\ selected_rule' = index
  /\ rule_form' = Conditions(new.rules[index])

ClearProfileEditor ==
  /\ selected_skin' = None
  /\ profile_form' = None

ClearRuleEditor ==
  /\ selected_rule' = 0
  /\ rule_form' = None

KeepProfileEditor == UNCHANGED <<selected_skin, profile_form>>
KeepRuleEditor == UNCHANGED <<selected_rule, rule_form>>

Init ==
  /\ config = NoConfig
  /\ settings = DefaultSettings
  /\ dirty = FALSE
  /\ selected_skin = None
  /\ selected_rule = 0
  /\ selected_preset = None
  /\ profile_form = None
  /\ rule_form = None
  /\ crossed = FALSE

SelectProfile(skin) ==
  /\ skin \in DOMAIN config.skins
  /\ ShowProfile(config, skin)
  /\ KeepRuleEditor
  /\ UNCHANGED <<config, settings, dirty, selected_preset, crossed>>

SelectRule(index) ==
  /\ index \in DOMAIN config.rules
  /\ ShowRule(config, index)
  /\ KeepProfileEditor
  /\ UNCHANGED <<config, settings, dirty, selected_preset, crossed>>

-----------------------------------------------------------------------------
(***************************************************************************)
(* The file.  A read that fails, and a save that does, change nothing.     *)
(***************************************************************************)
\* state.config for the files that load_config does not refuse.
Loaded ==
  {[staged |-> NoConfig, settings |-> DefaultSettings] : file \in Files \cap {None}}
  \cup
  {[staged |-> StagedOf(file), settings |-> SettingsOf(file)] :
     file \in {file \in Files \ {None} :
                Validates(StagedOf(file), SettingsOf(file))}}

LoadConfig ==
  /\ \E loaded \in Loaded :
       /\ config' = loaded.staged
       /\ settings' = loaded.settings
  /\ dirty' = FALSE
  /\ selected_preset' = None
  /\ crossed' = FALSE
  /\ ClearProfileEditor
  /\ ClearRuleEditor

SaveConfig ==
  /\ Validates(config, settings)
  /\ dirty' = FALSE
  /\ UNCHANGED <<config, settings, editorVars, selected_preset, crossed>>

-----------------------------------------------------------------------------
(***************************************************************************)
(* The runtime settings.  What is typed is staged, in range or not.        *)
(***************************************************************************)
DrawRuntimeSettings ==
  /\ \/ \E interval \in Intervals :
          settings' = [settings EXCEPT !.poll_interval_ms = interval]
     \/ \E level \in LogLevels :
          settings' = [settings EXCEPT !.log_level = level]
  /\ dirty' = TRUE
  /\ UNCHANGED <<config, editorVars, selected_preset, crossed>>

-----------------------------------------------------------------------------
(***************************************************************************)
(* Profiles                                                                *)
(***************************************************************************)
AddProfile ==
  /\ \E skin \in Skins \ DOMAIN config.skins :
       LET new == [config EXCEPT
                     !.skins = Put(@, skin, [enabled |-> TRUE, paths |-> NoPaths])]
       IN  Stage(new) /\ ShowProfile(new, skin)
  /\ KeepRuleEditor
  /\ UNCHANGED selected_preset

Moved(map, old, new) ==
  IF old \in DOMAIN map THEN Put(Without(map, old), new, map[old]) ELSE map

SyncProfileId(skin) ==
  /\ selected_skin # None
  /\ skin \notin DOMAIN config.skins
  /\ Stage([ skins   |-> Moved(config.skins, selected_skin, skin),
             rules   |-> [i \in DOMAIN config.rules |->
                           IF config.rules[i].profile_id = selected_skin
                           THEN [config.rules[i] EXCEPT !.profile_id = skin]
                           ELSE config.rules[i]],
             presets |-> [p \in DOMAIN config.presets |->
                           [config.presets[p] EXCEPT
                              !.profiles = Moved(@, selected_skin, skin)]] ])
  /\ selected_skin' = skin
  /\ UNCHANGED <<profile_form, selected_preset>>
  /\ KeepRuleEditor

\* sync_profile_fields, for a path that was typed.
SyncProfileFields(paths) ==
  /\ selected_skin # None
  /\ LET form == [profile_form EXCEPT !.paths = paths]
     IN  /\ profile_form' = form
         /\ Stage([config EXCEPT !.skins[selected_skin] = form])
  /\ UNCHANGED <<selected_skin, selected_preset>>
  /\ KeepRuleEditor

\* The checkbox: sync_profile_fields, then sync_selected_preset_skin.
ToggleProfile ==
  /\ selected_skin # None
  /\ LET form == [profile_form EXCEPT !.enabled = ~ @]
         synced == [config EXCEPT !.skins[selected_skin] = form]
     IN  /\ profile_form' = form
         /\ Stage(IF selected_preset = None THEN synced
                  ELSE [synced EXCEPT !.presets[selected_preset].profiles =
                                        Put(@, selected_skin, form.enabled)])
  /\ UNCHANGED <<selected_skin, selected_preset>>
  /\ KeepRuleEditor

WithoutKeys(map, keys) == Restrict(map, DOMAIN map \ keys)

\* Mutant: the rules that go leave their entries in the presets.
RemovedKeysForgotten(skin) == {}

\* The keys of the rules that go with the profile.
RemovedKeys(skin) ==
  {Key(config.rules[i]) :
     i \in {i \in DOMAIN config.rules : config.rules[i].profile_id = skin}}

\* Some of the positions of a list, in their order.
InOrder(positions) ==
  CHOOSE order \in [1 .. Cardinality(positions) -> positions] :
    \A i, j \in DOMAIN order : i < j => order[i] < order[j]

\* The rules that stay close up (table.remove).
RulesLeft(skin) ==
  LET left == InOrder({i \in DOMAIN config.rules :
                         config.rules[i].profile_id # skin})
  IN  [k \in DOMAIN left |-> config.rules[left[k]]]

WithoutProfile(skin) ==
  [ skins   |-> Without(config.skins, skin),
    rules   |-> RulesLeft(skin),
    presets |-> [p \in DOMAIN config.presets |->
                  [ profiles |-> Without(config.presets[p].profiles, skin),
                    rules    |-> WithoutKeys(config.presets[p].rules,
                                             RemovedKeys(skin)) ]] ]

\* Mutant: the rule that was selected stays so, by its index.
DeleteProfileOnly ==
  /\ selected_skin # None
  /\ Stage(WithoutProfile(selected_skin))
  /\ ClearProfileEditor
  /\ KeepRuleEditor
  /\ UNCHANGED selected_preset

DeleteSelectedProfile ==
  /\ selected_skin # None
  /\ Stage(WithoutProfile(selected_skin))
  /\ ClearProfileEditor
  /\ ClearRuleEditor
  /\ UNCHANGED selected_preset

-----------------------------------------------------------------------------
(***************************************************************************)
(* Rules                                                                   *)
(***************************************************************************)
AddRule ==
  /\ Len(config.rules) < MaxRules
  /\ \E skin \in DOMAIN config.skins :
       LET new == [config EXCEPT
                     !.rules = Append(@, [ profile_id      |-> skin,
                                           enabled         |-> TRUE,
                                           player_name     |-> None,
                                           server_model_id |-> None ])]
       IN  Stage(new) /\ ShowRule(new, Len(new.rules))
  /\ KeepProfileEditor
  /\ UNCHANGED selected_preset

SyncRuleProfile(skin) ==
  /\ selected_rule # 0
  /\ skin \in DOMAIN config.skins
  /\ Stage([config EXCEPT !.rules[selected_rule].profile_id = skin])
  /\ UNCHANGED <<editorVars, selected_preset>>

\* sync_rule_conditions writes the form into the rule and moves its entries.
WithConditions(form) ==
  LET rule == [ profile_id      |-> config.rules[selected_rule].profile_id,
                enabled         |-> form.enabled,
                player_name     |-> form.player_name,
                server_model_id |-> form.server_model_id ]
      previous == Key(config.rules[selected_rule])
  IN  [ skins   |-> config.skins,
        rules   |-> [config.rules EXCEPT ![selected_rule] = rule],
        presets |-> [p \in DOMAIN config.presets |->
          IF Key(rule) = previous THEN config.presets[p]
          ELSE [config.presets[p] EXCEPT
                  !.rules = Moved(@, previous, Key(rule))]] ]

SyncRuleConditions(name, model) ==
  /\ selected_rule # 0
  /\ LET form == [rule_form EXCEPT !.player_name = name, !.server_model_id = model]
     IN  /\ rule_form' = form
         /\ Stage(WithConditions(form))
  /\ UNCHANGED <<selected_rule, selected_preset>>
  /\ KeepProfileEditor

\* Mutant: the preset gets the flag the rule had.
PresetGetsOldFlag(synced, rule) ==
  IF selected_preset = None THEN synced
  ELSE [synced EXCEPT !.presets[selected_preset].rules =
                        Put(@, Key(rule), config.rules[selected_rule].enabled)]

\* sync_selected_preset_rule, in the configuration synced.
PresetGetsFlag(synced, rule) ==
  IF selected_preset = None THEN synced
  ELSE [synced EXCEPT !.presets[selected_preset].rules =
                        Put(@, Key(rule), rule.enabled)]

\* The checkbox: sync_rule_conditions, then sync_selected_preset_rule.
ToggleRule ==
  /\ selected_rule # 0
  /\ LET form == [rule_form EXCEPT !.enabled = ~ @]
         synced == WithConditions(form)
     IN  /\ rule_form' = form
         /\ Stage(PresetGetsFlag(synced, synced.rules[selected_rule]))
  /\ UNCHANGED <<selected_rule, selected_preset>>
  /\ KeepProfileEditor

DeleteSelectedRule ==
  /\ selected_rule # 0
  /\ LET key == Key(config.rules[selected_rule])
     IN  Stage([ skins   |-> config.skins,
                 rules   |-> RemoveAt(config.rules, selected_rule),
                 presets |-> [p \in DOMAIN config.presets |->
                   [config.presets[p] EXCEPT !.rules = Without(@, key)]] ])
  /\ ClearRuleEditor
  /\ KeepProfileEditor
  /\ UNCHANGED selected_preset

-----------------------------------------------------------------------------
(***************************************************************************)
(* Presets                                                                 *)
(***************************************************************************)
\* preset_activation_state: of rules with one key the last one counts.
ActivationState ==
  [ profiles |-> [s \in DOMAIN config.skins |-> config.skins[s].enabled],
    rules    |-> [key \in {Key(config.rules[i]) : i \in DOMAIN config.rules} |->
                    \E i \in DOMAIN config.rules :
                      /\ Key(config.rules[i]) = key
                      /\ config.rules[i].enabled
                      /\ \A j \in i + 1 .. Len(config.rules) :
                           Key(config.rules[j]) # key] ]

AddPreset ==
  /\ Cardinality(DOMAIN config.presets) < MaxPresets
  /\ \E preset \in Presets \ DOMAIN config.presets :
       /\ Stage([config EXCEPT !.presets = Put(@, preset, ActivationState)])
       /\ selected_preset' = preset
  /\ UNCHANGED editorVars

SyncPresetName(preset) ==
  /\ selected_preset # None
  /\ preset \notin DOMAIN config.presets
  /\ Stage([config EXCEPT !.presets = Moved(@, selected_preset, preset)])
  /\ selected_preset' = preset
  /\ UNCHANGED editorVars

\* An entry that is missing disables.
Enables(entries, key) == key \in DOMAIN entries /\ entries[key]

Activated(preset) ==
  [ skins   |-> [s \in DOMAIN config.skins |->
                   [config.skins[s] EXCEPT
                      !.enabled = Enables(preset.profiles, s)]],
    rules   |-> [i \in DOMAIN config.rules |->
                   [config.rules[i] EXCEPT
                      !.enabled = Enables(preset.rules, Key(config.rules[i]))]],
    presets |-> config.presets ]

\* Mutant: the forms are not filled again.
SelectPresetOnly(preset) ==
  /\ preset \in DOMAIN config.presets
  /\ selected_preset' = preset
  /\ Stage(Activated(config.presets[preset]))
  /\ UNCHANGED editorVars

\* A click on a preset: select_preset, then apply_selected_preset.
SelectPreset(preset) ==
  /\ preset \in DOMAIN config.presets
  /\ selected_preset' = preset
  /\ LET new == Activated(config.presets[preset])
     IN  /\ Stage(new)
         /\ IF selected_skin = None THEN KeepProfileEditor
            ELSE ShowProfile(new, selected_skin)
         /\ IF selected_rule = 0 THEN KeepRuleEditor
            ELSE ShowRule(new, selected_rule)

DeleteSelectedPreset ==
  /\ selected_preset # None
  /\ Stage([config EXCEPT !.presets = Without(@, selected_preset)])
  /\ selected_preset' = None
  /\ UNCHANGED editorVars

-----------------------------------------------------------------------------
DrawProfiles ==
  \/ AddProfile
  \/ ToggleProfile
  \/ DeleteSelectedProfile
  \/ \E skin \in Skins : SelectProfile(skin) \/ SyncProfileId(skin)
  \/ \E paths \in Paths : SyncProfileFields(paths)

DrawRules ==
  \/ AddRule
  \/ ToggleRule
  \/ DeleteSelectedRule
  \/ \E index \in 1 .. MaxRules : SelectRule(index)
  \/ \E skin \in Skins : SyncRuleProfile(skin)
  \/ \E name \in Names \cup {None}, model \in Models \cup {None} :
       SyncRuleConditions(name, model)

DrawPresets ==
  \/ AddPreset
  \/ DeleteSelectedPreset
  \/ \E preset \in Presets : SelectPreset(preset) \/ SyncPresetName(preset)

Next ==
  \/ LoadConfig
  \/ SaveConfig
  \/ DrawRuntimeSettings
  \/ DrawProfiles
  \/ DrawRules
  \/ DrawPresets

Spec == Init /\ [][Next]_vars
-----------------------------------------------------------------------------
(***************************************************************************)
(* Properties                                                              *)
(***************************************************************************)

\* Every variable has the type of the field it stands for, and what is
\* selected exists: drawing a rule indexes the list with the selection.
TypeOK ==
  /\ IsStaged(config)
  /\ settings \in Settings
  /\ {dirty, crossed} \subseteq BOOLEAN
  /\ selected_skin \in DOMAIN config.skins \cup {None}
  /\ selected_rule \in DOMAIN config.rules \cup {0}
  /\ selected_preset \in DOMAIN config.presets \cup {None}
  /\ profile_form \in SkinDefinition \cup {None}
  /\ rule_form \in RuleForm \cup {None}

\* What the forms show is what is staged for the selection.  Each widget writes
\* its whole form back (sync_profile_fields, sync_rule_conditions), so a field
\* that were out of date would be staged with the next edit of another one.
EditorShowsSelection ==
  /\ selected_skin # None => profile_form = config.skins[selected_skin]
  /\ selected_rule # 0 => rule_form = Conditions(config.rules[selected_rule])

NamesTheLiving(staged) ==
  \A p \in DOMAIN staged.presets :
    /\ DOMAIN staged.presets[p].profiles \subseteq DOMAIN staged.skins
    /\ DOMAIN staged.presets[p].rules
         \subseteq {Key(staged.rules[i]) : i \in DOMAIN staged.rules}

\* What the editor is given: load_config does not look for entries of what was
\* deleted from the file by other means.
FilesNameTheLiving ==
  \A file \in Files \ {None} : NamesTheLiving(StagedOf(file))

\* A preset has no entry for a profile or for conditions that are gone: it
\* would come back to life with the next profile or rule of that name.
PresetsNameTheLiving == NamesTheLiving(config)

\* While a preset is selected, what it says of a profile or a rule is what is
\* staged ("Toggle changes update the selected preset"), whatever is renamed or
\* given other conditions meanwhile.  Rules that have had the same conditions,
\* as while one is typed, share an entry from then on.
SelectedPresetMirrors ==
  selected_preset # None =>
    LET preset == config.presets[selected_preset]
    IN  /\ \A s \in DOMAIN config.skins \cap DOMAIN preset.profiles :
             preset.profiles[s] = config.skins[s].enabled
        /\ \A i \in DOMAIN config.rules :
             ~ crossed /\ Key(config.rules[i]) \in DOMAIN preset.rules =>
               preset.rules[Key(config.rules[i])] = config.rules[i].enabled

\* What is saved is accepted by the plugin's parse ("Saved. The loader will
\* reload it within one second."), though the two check it independently, if and
\* only if encodeJson writes each empty table in the shape serde expects there.
\* So a save without profiles and without rules is refused whatever it writes.
SavedIsAccepted ==
  [][dirty /\ ~ dirty' /\ UNCHANGED <<config, settings>> =>
       \A emptyTable \in {"map", "list"} :
         Parses(Encoded(config, settings, emptyTable))
           <=> /\ DOMAIN config.skins = {} => emptyTable = "map"
               /\ config.rules = << >> => emptyTable = "list"]_vars
=============================================================================
