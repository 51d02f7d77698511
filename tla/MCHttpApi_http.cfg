SPECIFICATION HttpSpec
CONSTANTS
  h1 = h1
  h2 = h2
  p1 = p1
  p2 = p2
  n1 = n1
  f1 = f1
  nul = nul
  inverted = inverted
  incomplete = incomplete
  None = None
  Handlers = {h1, h2}
  Policies = {p1, p2}
  Numbers = {n1}
  Fields = {f1, nul}
  BadFields = {inverted, incomplete}
  Incomplete = {incomplete}
  Ops <- HttpOps
  Reasons <- AnyReasons
  Unstorable = {nul, "NUL"}
  MaxRequests = 3
  MaxOthers = 1
SYMMETRY Symmetry
INVARIANTS HttpTypeOK
PROPERTIES AnswerTellsEffect ServerErrorHasCause CreatedOnce ScopesKept
  NothingWithoutDatabase
CHECK_DEADLOCK FALSE
