SPECIFICATION Spec
CONSTANTS
  h1 = h1
  h2 = h2
  p1 = p1
  None = None
  Handlers = {h1, h2}
  Policies = {p1}
  Statuses <- SomeStatuses
  MaxRequests = 2
  MaxChanges = 1
  MaxSecond = 1
PROPERTIES ArchiveKept
CHECK_DEADLOCK FALSE
