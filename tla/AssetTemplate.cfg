SPECIFICATION Spec
CONSTANTS
  Buffers <- MCBuffers
  Sets <- MCOneSet
  Groups <- MCOneGroup
  Freed <- MCOneGroup
  LastBinding <- MCTwoBindings
  UpdateKinds = {"template"}
  TrimBoundary = "frames"
  DumpsBesideCalls = FALSE
  MaxContent = 1
  MaxWrites = 2
CHECK_DEADLOCK FALSE
INVARIANTS
  StaleDescriptorsAreIgnored
