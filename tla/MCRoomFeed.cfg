\* One page without translation that connects twice and refreshes, with a queue that overflows.
CONSTANTS
  p1 = p1  p2 = p2
  Pages = {p1}
  OwnMessages = {2}
  PageSize = 2
  QueueSize = 3
  JobsSize = 1
  Workers = 1
  Translating = FALSE
  Focused = TRUE
  MaxMessages = 2
  MaxSubs = 2
  MaxRefreshes = 1
SPECIFICATION Spec
CHECK_DEADLOCK FALSE
INVARIANTS FeedInv BadgeExact
