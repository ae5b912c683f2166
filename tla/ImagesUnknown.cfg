SPECIFICATION Spec
CONSTANTS
  DiskSectors = 8
  Luns = 1
  Buffer = 2
  Word = 3
  Blocks = {0, 1, 2}
  BlockSectors = 2
  Descriptors = 3
  Stores = 2
  Lbas = {0, 3}
  Chunk = 3
  First = 1
  Bounds = {1, 3, 7}
  FileSectors = {1, 3}
  ChunkSizes = {1, 2, 4}
  Lun = 1
  MaxFiles = 2
  MaxCommands = 3
INVARIANT OnlyNamed
CHECK_DEADLOCK FALSE
