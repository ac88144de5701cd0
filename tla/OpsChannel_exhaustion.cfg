SPECIFICATION Spec
CONSTANTS
  Backends = {b1, b2}
  NumRegions = 1
  Ops = {o1}
  NoOp = NoOp
  Faults <- NoFaults
INVARIANT ServerAssert
CHECK_DEADLOCK FALSE
