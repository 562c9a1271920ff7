\* Writers against a check and a load.
SPECIFICATION FairSpec
CONSTANTS
  Names = {}
  Models = {m1}
  Skins = {s1}
  Paths = {x1, x2}
  NoPaths = NoPaths
  None = None
  Addresses = {}
  Geometries = {g1}
  NullAddress = NullAddress
  FileRevisions <- AssetRevisions
  MaxGeneration = 1
  Profile = s1
  MaxWrites = 3
INVARIANTS TypeOK NoHiddenChange
PROPERTIES CallIsLoadOrStatus AssetsPickedUp
