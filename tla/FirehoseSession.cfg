SPECIFICATION FairSpec
CONSTANTS
  Sessions = {"program", "gpp", "active", "erase"}
  Sizes = {1, 2, 3}
  DefaultSize = 2
  MAX_RETRY = 2
INVARIANTS SizesFit OwnAnswer SuccessIsEarned
PROPERTY SessionEnds
CHECK_DEADLOCK FALSE
