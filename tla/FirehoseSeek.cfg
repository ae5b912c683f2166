SPECIFICATION Spec
CONSTANTS
  Ops = {"programFrom"}
  Sizes = {2}
  Packet = 2
  FileSectors = 6
INVARIANT PayloadOnlyAfterAck
CHECK_DEADLOCK FALSE
