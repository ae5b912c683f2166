SPECIFICATION Spec
CONSTANTS
  Sizes = {1, 3}
  FileSizes = {4}
  Stride = 2
INVARIANT WithinRange
CHECK_DEADLOCK FALSE
