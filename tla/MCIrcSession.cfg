\* Two connections, two rooms, one sender.
CONSTANTS
  s1 = s1  r1 = r1  r2 = r2
  JoinOrder <- TwoRooms
  Senders = {s1}
  EventsSize = 1
  InboxSize = 1
  MaxConns = 2
SPECIFICATION FairSpec
CHECK_DEADLOCK FALSE
INVARIANTS SessionInv ToldTheTruth
PROPERTIES SessionEnds
