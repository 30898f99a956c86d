SPECIFICATION FairSpec
CONSTANTS
  Inputs <- MCInputs
  kLowWater = 0
  kSoftLowWater = 1
  kAsyncDecompressNever = 1
  kAsyncDecompressOptimized = 2
  kAsyncDecompressAlways = 3
  kMaxBatchCount = 999
  NoBatch = NoBatch
INVARIANTS
  TypeOK
  TagsAccountForBatches
  CaughtUpIsNotified
  BacklogBoundedBetweenFrames
  NoMutualBlocking
  PreloadOnBatchBoundaries
  PreloadedBlocksAreDecompressed
  StreamIsSequential
PROPERTIES
  EndIsReached
