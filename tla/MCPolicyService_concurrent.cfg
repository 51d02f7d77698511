SPECIFICATION Spec
CONSTANTS
  h1 = h1
  h2 = h2
  p1 = p1
  p2 = p2
  n1 = n1
  n2 = n2
  f1 = f1
  nul = nul
  bad = bad
  None = None
  Handlers = {h1, h2}
  Policies = {p1, p2}
  Numbers = {n1, n2}
  Fields = {f1, nul}
  BadFields = {bad}
  Ops <- AllOps
  Reasons <- AnyReasons
  Unstorable = {nul, "NUL"}
  MaxRequests = 5
SYMMETRY Symmetry
INVARIANTS TypeOK HistoryCausal NoPhantomEvents
  CoverWasApproved LockHoldersGoOn
PROPERTIES AnsweredOkIsRecorded HistoryKept
CHECK_DEADLOCK FALSE
