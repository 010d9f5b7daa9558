\* One page on one connection, two messages under translation and a job queue of one.
CONSTANTS
  p1 = p1  p2 = p2
  Pages = {p1}
  OwnMessages = {}
  PageSize = 2
  QueueSize = 12
  JobsSize = 1
  Workers = 1
  Translating = TRUE
  Focused = FALSE
  MaxMessages = 2
  MaxSubs = 1
  MaxRefreshes = 0
SPECIFICATION Spec
CHECK_DEADLOCK FALSE
INVARIANTS FeedInv PendingOwed
