SPECIFICATION FairSpec
CONSTANTS
  h1 = h1
  h2 = h2
  h3 = h3
  p1 = p1
  n1 = n1
  f1 = f1
  nul = nul
  bad = bad
  None = None
  Handlers = {h1, h2, h3}
  Policies = {p1}
  Numbers = {n1}
  Fields = {f1, nul}
  BadFields = {bad}
  Ops <- DraftOps
  Reasons <- CallerReasons
  Unstorable = {nul}
  MaxRequests = 4
PROPERTIES Answered
CHECK_DEADLOCK FALSE
