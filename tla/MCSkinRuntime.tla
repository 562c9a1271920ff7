--------------------------- MODULE MCSkinRuntime ----------------------------
(***************************************************************************)
(* Instances of SkinRuntime small enough for TLC.                          *)
(***************************************************************************)
EXTENDS SkinRuntime, TLC

CONSTANTS p1, p2, n1, n2, m1, m2, s1, s2, x1, x2, a1, a2, a3, g1, g2

Rule(profile, name, model) ==
  [ profile_id      |-> profile,
    enabled         |-> TRUE,
    player_name     |-> name,
    server_model_id |-> model ]

Profile(paths) == [enabled |-> TRUE, paths |-> paths]

NoRules == [skins |-> EmptyMap, rules |-> << >>]

\* Every ped of model m1 wears s1.
ByModel == [ skins |-> (s1 :> Profile(x1)),
             rules |-> << Rule(s1, None, m1) >> ]

\* The same rule with other asset files: the shared source must be replaced.
Repainted == [ skins |-> (s1 :> Profile(x2)),
               rules |-> << Rule(s1, None, m1) >> ]

\* A rule by name that outranks the rule by model, for another profile.
ByName == [ skins |-> (s1 :> Profile(x1)) @@ (s2 :> Profile(x1)),
            rules |-> << Rule(s1, None, m1), Rule(s2, n1, None) >> ]

\* The profile is disabled, its rule is not.
Disabled == [ByModel EXCEPT
               !.skins = (s1 :> [enabled |-> FALSE, paths |-> x1])]

Symmetry == Permutations(Addresses) \cup Permutations(Geometries)
PlayerSymmetry == Symmetry \cup Permutations(PlayerIds)

SharedConfigs == {NoRules, ByModel, Repainted}
SwitchConfigs == {ByModel, ByName}
ReleaseConfigs == {NoRules, ByModel, Disabled, ByName}
=============================================================================
