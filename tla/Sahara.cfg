SPECIFICATION FairSpec
CONSTANTS
  Operations = {"load", "info", "debug"}
  ImageSize = 2
  FileSizes = {1, 2}
  BufSize = 1
  Word = 3
  MaxRequest = 3
  Requests = 3
  Tries = 2
INVARIANTS TypeOK PblRecovers ImageLoaded InfoIsOwn
PROPERTY Returns
CHECK_DEADLOCK FALSE
