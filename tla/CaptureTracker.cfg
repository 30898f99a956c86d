SPECIFICATION Spec
CONSTANTS
  presenter = presenter
  caller = caller
  Threads <- MCThreads
  Boundary = presenter
  Inputs <- MCInputs
  CallLimit <- MCCallLimit
CHECK_DEADLOCK FALSE
INVARIANTS
  TrackerExistsWhenUsed
