--------------------------- MODULE WardrobeConfig ---------------------------
(***************************************************************************)
(* The configuration of Wardrobe (src/config.rs) and the choice of a rule  *)
(* for a ped.  A Rust Option is a value or None; the result of a search    *)
(* that may find nothing is a set with at most one element.                *)
(*                                                                         *)
(* Abstracted: names, profile ids and the pair of asset paths of a profile *)
(* are members of sets.  The scan interval and the log level decide when a *)
(* scan runs and what is logged, not what it does: with the types and the  *)
(* ranges of the fields in the text they are in ConfigFile.                *)
(***************************************************************************)
EXTENDS Naturals, Sequences, Functions

CONSTANTS
  Names,      \* player names
  Models,     \* server model ids
  Skins,      \* profile ids, the keys of SkinConfig::skins
  Paths,      \* (txd_path, dff_path) of a profile
  NoPaths,    \* the paths of a draft: one of the two is empty
  None        \* Rust's None

ASSUME ConfigAssumption ==
  /\ None \notin Names
  /\ None \notin Models

(***************************************************************************)
(* Maps (HashMap): functions on some of the keys.                          *)
(***************************************************************************)
IsMap(map, Keys, Values) ==
  /\ DOMAIN map \subseteq Keys
  /\ map \in [DOMAIN map -> Values]

EmptyMap == [x \in {} |-> None]

Put(map, key, value) ==
  [k \in DOMAIN map \cup {key} |-> IF k = key THEN value ELSE map[k]]

Without(map, key) == Restrict(map, DOMAIN map \ {key})

(***************************************************************************)
(* Types                                                                   *)
(***************************************************************************)
SkinDefinition == [enabled : BOOLEAN, paths : Paths]

SkinRule == [ profile_id      : Skins,
              enabled         : BOOLEAN,
              player_name     : Names \cup {None},
              server_model_id : Models \cup {None} ]

IsSkinConfig(config) ==
  /\ config = [skins |-> config.skins, rules |-> config.rules]
  /\ IsMap(config.skins, Skins, SkinDefinition)
  /\ config.rules \in Seq(SkinRule)

(***************************************************************************)
(* The part of parse about profiles and rules: what they must satisfy to   *)
(* replace the active ones (Parses of ConfigFile is the whole of it).      *)
(***************************************************************************)
Priority(rule) ==
  (IF rule.player_name # None THEN 2 ELSE 0)
    + (IF rule.server_model_id # None THEN 1 ELSE 0)

Duplicates(rule, previous) ==
  /\ previous.player_name = rule.player_name
  /\ previous.server_model_id = rule.server_model_id

Accepted(config) ==
  /\ \A skin \in DOMAIN config.skins :
       config.skins[skin].enabled => config.skins[skin].paths # NoPaths
  /\ \A i \in DOMAIN config.rules :
       /\ config.rules[i].profile_id \in DOMAIN config.skins
       /\ Priority(config.rules[i]) # 0
       /\ \A j \in 1 .. i - 1 : ~ Duplicates(config.rules[i], config.rules[j])

(***************************************************************************)
(* matching_rule                                                           *)
(***************************************************************************)
Matches(rule, name, model) ==
  /\ rule.enabled
  /\ rule.player_name \in {None, name}
  /\ rule.server_model_id \in {None, model}

EnabledProfile(config, skin) ==
  skin \in DOMAIN config.skins /\ config.skins[skin].enabled

Eligible(config, name, model) ==
  {i \in DOMAIN config.rules :
     /\ Priority(config.rules[i]) \in 1 .. 3
     /\ Matches(config.rules[i], name, model)
     /\ EnabledProfile(config, config.rules[i].profile_id)}

\* Rule i is found before rule j: a higher priority, or an earlier position.
FoundBefore(config, i, j) ==
  \/ Priority(config.rules[i]) > Priority(config.rules[j])
  \/ Priority(config.rules[i]) = Priority(config.rules[j]) /\ i < j

\* The profile of the rule matching_rule returns, as a set: {} for None.
MatchingProfile(config, name, model) ==
  LET eligible == Eligible(config, name, model)
  IN  {config.rules[i].profile_id :
         i \in {i \in eligible :
                  \A j \in eligible \ {i} : FoundBefore(config, i, j)}}

(***************************************************************************)
(* SkinManager::apply_config: the profiles an enabled rule still needs.    *)
(***************************************************************************)
ReferencedSkins(config) ==
  {skin \in DOMAIN config.skins :
     /\ config.skins[skin].enabled
     /\ \E i \in DOMAIN config.rules :
          config.rules[i].enabled /\ config.rules[i].profile_id = skin}
=============================================================================
