SPECIFICATION FairReplaySpec
CONSTANTS
  Inputs <- MCInputs
  kLowWater = 0
  kSoftLowWater = 1
  kAsyncDecompressNever = 1
  kAsyncDecompressOptimized = 2
  kAsyncDecompressAlways = 3
  kMaxBatchCount = 999
  kMaxFrame = 99
  NoBatch = NoBatch
INVARIANTS
  NeverPastTheEndWithinLimits
  NoReadingWhileMeasured
  PreloadedFramesAreTheRange
PROPERTIES
  ImplementsFrameReplay
  ReplayEnds
