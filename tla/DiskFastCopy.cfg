SPECIFICATION FairSpec
CONSTANTS
  Sizes = {1, 2, 3, 5, 6}
  FileSizes = {1, 4, 6}
  Stride = 2
INVARIANTS TypeOK LoopComplete SuccessLands
PROPERTIES BufferLeftAlone Copies
CHECK_DEADLOCK FALSE
