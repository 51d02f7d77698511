SPECIFICATION FairSpec
CONSTANTS
  Policies = {1, 2, 3, 4}
  Statuses = {"draft", "active"}
  Filters = {"draft"}
  Limits = {0, 1, 2, 4}
  DefaultLimit = 3
  MaxLimit = 3
  None = None
  MaxTime = 2
INVARIANTS TypeOK ScanDescends ScanComplete ScanIsBounded
PROPERTIES PagesBringRows ScanEnds
CHECK_DEADLOCK FALSE
