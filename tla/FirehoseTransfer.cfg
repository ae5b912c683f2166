SPECIFICATION FairSpec
CONSTANTS
  Ops = {"program", "programFrom", "zero", "write", "dump", "read"}
  Sizes = {1, 2, 3, 5}
  Packet = 2
  FileSectors = 6
INVARIANTS NakStopsTransfer LinkLeftEmpty
PROPERTIES Copies Returns
CHECK_DEADLOCK FALSE
