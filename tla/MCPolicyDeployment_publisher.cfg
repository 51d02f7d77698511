SPECIFICATION FairDeploymentSpec
CONSTANTS
  h1 = h1
  h2 = h2
  p1 = p1
  n1 = n1
  f1 = f1
  None = None
  Handlers = {h1, h2}
  Policies = {p1}
  Numbers = {n1}
  Fields = {f1}
  BadFields = {}
  Ops = {"create", "submit"}
  Reasons = {""}
  Unstorable = {}
  MaxRequests = 2
  Events <- FirstEvents
  maxRetries = 3
  MaxRestarts = 1
  TicksPerSecond = 2
INVARIANTS TypeOK PublishedIsStored CopiesWithinAttempts
PROPERTIES SystemKept StreamPromiseKept AttemptsRunOut EveryAnnouncementEnds
CHECK_DEADLOCK FALSE
