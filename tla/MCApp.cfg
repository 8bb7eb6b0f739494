SPECIFICATION Spec
CONSTANTS
  r1 = r1
  c1 = c1
  Rooms = {r1}
  Convs = {c1}
  None = None
  Backlogs <- NoneOrBoth
  FeedCap = 2
  MaxKeys = 3
  MaxOutside = 1
INVARIANTS
  BadgesMatch
  TotalMatches
  RoomIsShown
CHECK_DEADLOCK FALSE
