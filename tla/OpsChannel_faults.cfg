SPECIFICATION Spec
CONSTANTS
  Backends = {b1, b2}
  NumRegions = 2
  Ops = {o1, o2}
  NoOp = NoOp
  Faults <- AllFaults
SYMMETRY Symmetry
INVARIANTS
  LockSound
  RegionsSound
  AnswerMatches
  ChildPerRegion
PROPERTIES
  HolderDecides
