\* A delete that cannot be verified is not recovered from.
SPECIFICATION Spec
CONSTANTS
  Addresses = {a1, a2, a3, a4}
  Null = Null
SYMMETRY Symmetry
PROPERTIES FailedApplyRecovers
