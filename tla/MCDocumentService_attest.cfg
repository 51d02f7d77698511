SPECIFICATION Spec
CONSTANTS
  h1 = h1
  h2 = h2
  p1 = p1
  p2 = p2
  None = None
  Handlers = {h1, h2}
  Policies = {p1, p2}
  Statuses <- SomeStatuses
  MaxRequests = 3
  MaxChanges = 1
  MaxSecond = 1
SYMMETRY Symmetry
INVARIANTS TypeOK RecordedIsStored OrphansHaveFailed
PROPERTIES GrantedWhileEligible
CHECK_DEADLOCK FALSE
