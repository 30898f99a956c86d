SPECIFICATION FairSpec
CONSTANTS
  Inputs <- MCThrottleInputs
  kLowWater = 0
  kSoftLowWater = 1
  kAsyncDecompressNever = 1
  kAsyncDecompressOptimized = 2
  kAsyncDecompressAlways = 3
  kMaxBatchCount = 999
  NoBatch = NoBatch
PROPERTIES
  DestructorReturns
