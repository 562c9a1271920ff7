---------------------------- MODULE MCWardrobeUi ----------------------------
(***************************************************************************)
(* Instances of WardrobeUi small enough for TLC.                           *)
(***************************************************************************)
EXTENDS WardrobeUi

CONSTANTS x1

Rule(skin, name) == [ profile_id      |-> skin,
                      enabled         |-> TRUE,
                      player_name     |-> name,
                      server_model_id |-> None ]

\* What has a default is left out, and a preset disables the first rule.
Written(skin, first, second, preset) ==
  [ poll_interval_ms |-> None,
    log_level        |-> None,
    skins   |-> [ shape   |-> "map",
                  entries |-> [s \in {skin} |-> [enabled |-> None, paths |-> x1]] ],
    rules   |-> [ shape   |-> "list",
                  entries |-> << Rule(skin, first), Rule(skin, second) >> ],
    presets |-> [p \in {preset} |->
      [ profiles |-> [s \in {skin} |-> TRUE],
        rules    |-> [key \in {<<first, None>>, <<second, None>>} |->
                       key = <<second, None>>] ]] ]

\* Each is refused by the check of one field.
Broken(doc) ==
  { [doc EXCEPT !.poll_interval_ms = 99],
    [doc EXCEPT !.poll_interval_ms = Junk],
    [doc EXCEPT !.log_level = Junk],
    [doc EXCEPT !.skins.entries = Put(@, EmptyText, [enabled |-> FALSE, paths |-> x1])],
    [doc EXCEPT !.rules.entries[1].enabled = Junk],
    [doc EXCEPT !.rules.entries[1].profile_id = EmptyText],
    [doc EXCEPT !.rules.entries[1].player_name = EmptyText],
    [doc EXCEPT !.rules.entries[1].player_name = None],
    [doc EXCEPT !.rules.entries[1].server_model_id = 20000],
    [doc EXCEPT !.rules.entries[2] = doc.rules.entries[1]] }

WrittenFiles ==
  {None} \cup
  UNION {LET doc == Written(skin, first, second, preset)
         IN  {doc} \cup Broken(doc)
           : skin \in Skins, first \in Names, second \in Names, preset \in Presets}

Symmetry ==
  Permutations(Presets) \cup Permutations(Names) \cup Permutations(Skins)
=============================================================================
