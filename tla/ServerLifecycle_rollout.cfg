SPECIFICATION FairSpec
CONSTANTS
  r1 = r1
  r2 = r2
  r3 = r3
  None = None
  Replicas = {r1, r2, r3}
  Latest = 3
  MaxInFlight = 1
  MaxStarts = 4
INVARIANTS TypeOK ServesMigrated
PROPERTIES StartupDecides
CHECK_DEADLOCK FALSE
