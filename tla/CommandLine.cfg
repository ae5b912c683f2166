CONSTANTS
  Drives = {0, 1}
  Volumes = 2
  MaxOptions = 4
  MaxXml = 2
  MaxLuns = 2

SPECIFICATION Spec

INVARIANTS
  ReadyFirst
  DiskAsGiven
  TrustedSuccess

\* the program ends
CHECK_DEADLOCK FALSE
