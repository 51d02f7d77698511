SPECIFICATION FairSpec
CONSTANTS
  r1 = r1
  None = None
  Replicas = {r1}
  Latest = 3
  MaxInFlight = 1
  MaxStarts = 1
PROPERTIES ShutdownCompletes
CHECK_DEADLOCK FALSE
