\* A gap longer than a history page.
CONSTANTS
  p1 = p1  p2 = p2
  Pages = {p1}
  OwnMessages = {}
  PageSize = 1
  QueueSize = 6
  JobsSize = 1
  Workers = 1
  Translating = FALSE
  Focused = FALSE
  MaxMessages = 3
  MaxSubs = 2
  MaxRefreshes = 0
SPECIFICATION Spec
CHECK_DEADLOCK FALSE
INVARIANTS GapCovered
