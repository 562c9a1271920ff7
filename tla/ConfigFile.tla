----------------------------- MODULE ConfigFile ------------------------------
(***************************************************************************)
(* wardrobe.json as its two readers see it: the plugin, where serde_json   *)
(* and parse (config.rs) take it or leave it, and the editor               *)
(* (wardrobe_ui.lua), where decodeJson, ensure_schema and validate_config  *)
(* do; and as the editor writes it with encodeJson.                        *)
(*                                                                         *)
(* A document is a JSON object after decoding.  A field may be missing     *)
(* (None) or hold something of another type (Junk; an entry that is no     *)
(* object holds nothing else).  The table of profiles and the list of      *)
(* rules keep the shape they have in the text, because Lua has one value   *)
(* for an empty object and an empty list and serde has not.                *)
(*                                                                         *)
(* Not modelled: a null, an integer written with a fraction, profiles in a *)
(* list and rules in an object that are not empty, and fields that neither *)
(* reader knows.                                                           *)
(***************************************************************************)
EXTENDS WardrobeConfig, Integers

CONSTANTS
  EmptyText,  \* the empty string, as a name or as an id
  Junk,       \* a value of another type than the field's
  LogLevels,  \* the names of the log levels
  Presets     \* preset ids

ASSUME FileAssumption ==
  /\ EmptyText \notin Names \cup Skins \cup {None}
  /\ Junk \notin Int \cup BOOLEAN \cup LogLevels \cup Names \cup Skins \cup Paths
  /\ Junk \notin {EmptyText, None}
  /\ None \notin Int \cup BOOLEAN \cup LogLevels
  /\ Models \subseteq Int

DefaultPollIntervalMs == 2000
MinPollIntervalMs == 100
MaxPollIntervalMs == 60000
PollIntervalsMs == MinPollIntervalMs .. MaxPollIntervalMs
DefaultLogLevel == "info"

\* is_valid_model_id
MaxModelId == 19999
ValidModelIds == 0 .. MaxModelId

MaxI16 == 32767
I16 == -(MaxI16 + 1) .. MaxI16

\* rule_preset_key
Key(rule) == <<rule.player_name, rule.server_model_id>>

Keys == (Names \cup {None}) \X (Models \cup {None})

Preset == [profiles : UNION {[S -> BOOLEAN] : S \in SUBSET Skins},
           rules    : UNION {[S -> BOOLEAN] : S \in SUBSET Keys}]

-----------------------------------------------------------------------------
(***************************************************************************)
(* Documents                                                               *)
(***************************************************************************)
Flag == BOOLEAN \cup {None, Junk}

SkinEntry == [enabled : Flag, paths : Paths \cup {Junk}]

RuleEntry == [ profile_id      : Skins \cup {EmptyText, Junk},
               enabled         : Flag,
               player_name     : Names \cup {EmptyText, None, Junk},
               server_model_id : Int \cup {None, Junk} ]

\* shape: "map" for an object, "list" for a list, "missing", "other".
IsSkinTable(table) ==
  /\ table = [shape |-> table.shape, entries |-> table.entries]
  /\ table.shape \in {"map", "list", "missing", "other"}
  /\ IsMap(table.entries, Skins \cup {EmptyText}, SkinEntry)
  /\ table.shape # "map" => DOMAIN table.entries = {}

IsRuleTable(table) ==
  /\ table = [shape |-> table.shape, entries |-> table.entries]
  /\ table.shape \in {"map", "list", "missing", "other"}
  /\ table.entries \in Seq(RuleEntry)
  /\ table.shape # "list" => table.entries = << >>

\* Presets are the editor's alone, which reads every other value as some preset.
IsDocument(doc) ==
  /\ doc.poll_interval_ms \in Int \cup {None, Junk}
  /\ doc.log_level \in LogLevels \cup {None, Junk}
  /\ IsSkinTable(doc.skins)
  /\ IsRuleTable(doc.rules)
  /\ IsMap(doc.presets, Presets, Preset)

WithDefault(value, default) == IF value = None THEN default ELSE value

-----------------------------------------------------------------------------
(***************************************************************************)
(* The plugin                                                              *)
(***************************************************************************)
\* serde_json::from_str::<SkinConfig>
Deserializes(doc) ==
  /\ doc.poll_interval_ms \in Nat \cup {None}
  /\ doc.log_level \in LogLevels \cup {None}
  /\ doc.skins.shape \in {"map", "missing"}
  /\ \A s \in DOMAIN doc.skins.entries :
       /\ doc.skins.entries[s].enabled \in BOOLEAN \cup {None}
       /\ doc.skins.entries[s].paths # Junk
  /\ doc.rules.shape \in {"list", "missing"}
  /\ \A i \in DOMAIN doc.rules.entries :
       LET rule == doc.rules.entries[i]
       IN  /\ rule.profile_id # Junk
           /\ rule.enabled \in BOOLEAN \cup {None}
           /\ rule.player_name # Junk
           /\ rule.server_model_id \in I16 \cup {None}

\* enabled_by_default
Deserialized(doc) ==
  [ skins |-> [s \in DOMAIN doc.skins.entries |->
                [doc.skins.entries[s] EXCEPT !.enabled = WithDefault(@, TRUE)]],
    rules |-> [i \in DOMAIN doc.rules.entries |->
                [doc.rules.entries[i] EXCEPT !.enabled = WithDefault(@, TRUE)]] ]

\* parse
Parses(doc) ==
  /\ Deserializes(doc)
  /\ WithDefault(doc.poll_interval_ms, DefaultPollIntervalMs) \in PollIntervalsMs
  /\ \A i \in DOMAIN doc.rules.entries :
       LET rule == doc.rules.entries[i]
       IN  /\ rule.profile_id # EmptyText
           /\ rule.player_name # EmptyText
           /\ rule.server_model_id \in ValidModelIds \cup {None}
  /\ Accepted(Deserialized(doc))

-----------------------------------------------------------------------------
(***************************************************************************)
(* The editor                                                              *)
(***************************************************************************)
\* ensure_schema: what is no table becomes an empty one.
StagedOf(doc) ==
  [ skins   |-> [s \in DOMAIN doc.skins.entries |->
                  LET skin == doc.skins.entries[s]
                  IN  [ enabled |-> IF skin.enabled = None THEN TRUE
                                    ELSE skin.enabled,
                        paths   |-> skin.paths ]],
    rules   |-> [i \in DOMAIN doc.rules.entries |->
                  LET rule == doc.rules.entries[i]
                  IN  [ profile_id      |-> rule.profile_id,
                        enabled         |-> IF rule.enabled = None THEN TRUE
                                            ELSE rule.enabled,
                        player_name     |-> rule.player_name,
                        server_model_id |-> rule.server_model_id ]],
    presets |-> doc.presets ]

SettingsOf(doc) ==
  [ poll_interval_ms |-> WithDefault(doc.poll_interval_ms, DefaultPollIntervalMs),
    log_level        |-> WithDefault(doc.log_level, DefaultLogLevel) ]

\* Mutant: rules with the same conditions are let through.
ValidatesEachRule(staged, options) ==
  /\ options.poll_interval_ms \in PollIntervalsMs
  /\ options.log_level \in LogLevels
  /\ \A s \in DOMAIN staged.skins :
       staged.skins[s].enabled => staged.skins[s].paths # NoPaths
  /\ \A i \in DOMAIN staged.rules :
       /\ staged.rules[i].profile_id \in DOMAIN staged.skins
       /\ Key(staged.rules[i]) # <<None, None>>

\* validate_config
Validates(staged, options) ==
  /\ options.poll_interval_ms \in PollIntervalsMs
  /\ options.log_level \in LogLevels
  /\ \A s \in DOMAIN staged.skins :
       /\ s # EmptyText
       /\ staged.skins[s].enabled \in BOOLEAN
       /\ staged.skins[s].paths \in Paths
       /\ staged.skins[s].enabled => staged.skins[s].paths # NoPaths
  /\ \A i \in DOMAIN staged.rules :
       LET rule == staged.rules[i]
       IN  /\ rule.enabled \in BOOLEAN
           /\ rule.profile_id \in DOMAIN staged.skins
           /\ rule.player_name \in Names \cup {None}
           /\ rule.server_model_id \in ValidModelIds \cup {None}
           /\ Key(rule) # <<None, None>>
           /\ \A previous \in 1 .. i - 1 : Key(staged.rules[previous]) # Key(rule)

\* encodeJson: an empty Lua table is written in the one shape emptyTable,
\* whichever field it is the value of.
Encoded(staged, options, emptyTable) ==
  [ poll_interval_ms |-> options.poll_interval_ms,
    log_level        |-> options.log_level,
    skins   |-> [ shape   |-> IF DOMAIN staged.skins = {} THEN emptyTable
                              ELSE "map",
                  entries |-> staged.skins ],
    rules   |-> [ shape   |-> IF staged.rules = << >> THEN emptyTable ELSE "list",
                  entries |-> staged.rules ],
    presets |-> staged.presets ]
=============================================================================
