\* A clone that can neither be verified nor removed.
SPECIFICATION Spec
CONSTANTS
  p1 = p1
  p2 = p2
  n1 = n1
  n2 = n2
  m1 = m1
  m2 = m2
  s1 = s1
  s2 = s2
  x1 = x1
  x2 = x2
  a1 = a1
  a2 = a2
  a3 = a3
  g1 = g1
  g2 = g2
  Names = {n1}
  Models = {m1}
  Skins = {s1}
  Paths = {x1, x2}
  NoPaths = NoPaths
  None = None
  Addresses = {a1, a2, a3}
  Geometries = {g1, g2}
  NullAddress = NullAddress
  FileRevisions = {f1}
  MaxGeneration = 2
  PlayerIds = {p1, p2}
  Configs <- SharedConfigs
  InPlaceModelChanges = FALSE
  UnverifiedInstalls = TRUE
SYMMETRY PlayerSymmetry
INVARIANTS NoDanglingClone
