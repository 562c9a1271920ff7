\* Two profiles and two rules edited in every order, with one preset; an interval
\* that is out of range.
SPECIFICATION Spec
CONSTANTS
  x1 = x1
  Names = {n1, n2}
  Models = {}
  Skins = {s1, s2}
  Paths = {x1, NoPaths}
  NoPaths = NoPaths
  None = None
  EmptyText = EmptyText
  Junk = Junk
  LogLevels = {"info"}
  Presets = {d1, d2}
  Files <- WrittenFiles
  Intervals = {99, 2000}
  MaxRules = 2
  MaxPresets = 1
SYMMETRY Symmetry
INVARIANTS TypeOK EditorShowsSelection PresetsNameTheLiving SelectedPresetMirrors
PROPERTIES SavedIsAccepted
