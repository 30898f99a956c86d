SPECIFICATION Spec
CONSTANTS
  Buffers <- MCBuffers
  Sets <- MCSets
  Groups <- MCGroups
  Freed <- MCFreed
  LastBinding <- MCLastBinding
  UpdateKinds = {"write"}
  TrimBoundary = "frames"
  DumpsBesideCalls = FALSE
  MaxContent = 1
  MaxWrites = 2
CHECK_DEADLOCK FALSE
INVARIANTS
  TypeOK
  CleanBuffersAreInTheFile
  SnapshotIsRestored
  ExecutesWhatIsReferenced
