SPECIFICATION Spec
CONSTANTS
  h1 = h1
  h2 = h2
  p1 = p1
  n1 = n1
  f1 = f1
  bad = bad
  None = None
  Handlers = {h1, h2}
  Policies = {p1}
  Numbers = {n1}
  Fields = {f1}
  BadFields = {bad}
  Ops <- RoutedOps
  Reasons <- CallerReasons
  Unstorable = {}
  MaxRequests = 5
PROPERTIES TerminalIsFinal
CHECK_DEADLOCK FALSE
