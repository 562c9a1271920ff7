\* Three profiles over three slots.  The pool may end full of rejected clumps:
\* then nothing can be loaded and nothing is left to release.
SPECIFICATION Spec
CONSTANTS
  Profiles = {p1, p2, p3}
  Slots = {s1, s2, s3}
  Game = Game
  None = None
CHECK_DEADLOCK FALSE
INVARIANTS NoDanglingTextures CurrentTxdRestored NoLeakedSlot SourcesAreWhole
