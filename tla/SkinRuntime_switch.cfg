\* Two profiles, a rule by name that outranks a rule by model, and model ids
\* that change under an unchanged clump.
SPECIFICATION Spec
CONSTANTS
  p1 = p1
  p2 = p2
  n1 = n1
  n2 = n2
  m1 = m1
  m2 = m2
  s1 = s1
  s2 = s2
  x1 = x1
  x2 = x2
  a1 = a1
  a2 = a2
  a3 = a3
  g1 = g1
  g2 = g2
  Names = {n1, n2}
  Models = {m1, m2}
  Skins = {s1, s2}
  Paths = {x1}
  NoPaths = NoPaths
  None = None
  Addresses = {a1, a2, a3}
  Geometries = {g1, g2}
  NullAddress = NullAddress
  FileRevisions = {f1, f2}
  MaxGeneration = 2
  PlayerIds = {p1}
  Configs <- SwitchConfigs
  InPlaceModelChanges = TRUE
  UnverifiedInstalls = FALSE
SYMMETRY Symmetry
INVARIANTS NoDanglingClone WornCloneIsRemembered
PROPERTIES ServerModelPreserved
