CONSTANTS
  Drives = {0, 1}
  Volumes = 1
  MaxOptions = 3
  MaxXml = 2
  MaxLuns = 2

SPECIFICATION Spec

INVARIANT
  OpenFailureSeen

\* the program ends
CHECK_DEADLOCK FALSE
