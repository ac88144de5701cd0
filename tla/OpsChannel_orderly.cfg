SPECIFICATION FairSpec
CONSTANTS
  Backends = {b1, b2}
  NumRegions = 2
  Ops = {o1, o2}
  NoOp = NoOp
  Faults <- Reconnects

  
PROPERTIES
  OperationsComplete
  ImplementsService
