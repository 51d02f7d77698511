SPECIFICATION SystemSerialSpec
CONSTANTS
  h1 = h1
  h2 = h2
  p1 = p1
  n1 = n1
  f1 = f1
  bad = bad
  None = None
  Handlers = {h1, h2}
  Policies = {p1}
  Numbers = {n1}
  Fields = {f1}
  BadFields = {bad}
  Ops <- WriteOps
  Reasons <- CallerReasons
  Unstorable = {}
  MaxRequests = 6
  maxRetries = 1
  TicksPerSecond = 2
SYMMETRY HandlerSymmetry
INVARIANTS HistoryIsPath NewestTellsStatus LossIsVisible
PROPERTIES UpdatedAtAdvances LifecycleKept
CHECK_DEADLOCK FALSE
