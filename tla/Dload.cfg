SPECIFICATION FairSpec
CONSTANTS
  Operations = {"image", "xml", "gpp", "load"}
  Files = 2
  Sizes = {1}
  FileSizes = {3}
  Attempts = 2
  MaxRecords = 5
  ChunkSize = 2
  Segment = 3
INVARIANTS TypeOK HeldSoFar Connects StartedWhole
PROPERTIES Copies SessionEnds
CHECK_DEADLOCK FALSE
