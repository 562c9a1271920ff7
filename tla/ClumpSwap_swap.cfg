\* One ped, swapped again and again; any read that follows a change may
\* fail.
SPECIFICATION Spec
CONSTANTS
  Addresses = {a1, a2, a3, a4}
  Null = Null
SYMMETRY Symmetry
INVARIANTS TypeOK NoDanglingAnims AnimationsKept PedWearsLiveClump
PROPERTIES NoLeakedClump SwapImplementsOutcomes
