\* One page that connects twice while its message is translated; everything settles.
CONSTANTS
  p1 = p1  p2 = p2
  Pages = {p1}
  OwnMessages = {}
  PageSize = 1
  QueueSize = 6
  JobsSize = 1
  Workers = 1
  Translating = TRUE
  Focused = FALSE
  MaxMessages = 1
  MaxSubs = 2
  MaxRefreshes = 0
SPECIFICATION FairSpec
CHECK_DEADLOCK FALSE
PROPERTIES PendingSettles LoopAdvances
