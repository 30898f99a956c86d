SPECIFICATION Spec
CONSTANTS
  MaxBlocks = 3
  kMaxFrame = 99
  Inputs <- MCInputs
INVARIANTS
  TypeOK
  NextFrameIsNextToRead
PROPERTIES
  ImplementsFrameReplay
