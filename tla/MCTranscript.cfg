SPECIFICATION Spec
CONSTANTS
  Rooms = {r1, r2}
  Convs = {c1, c2}
  None = None
  HistoryCap = 1
  MaxMessages = 2
  MaxOpens = 2
  MaxFaults = 1
SYMMETRY Symmetry
INVARIANTS
  
  LoadingEnds
  InOrder
  ForeignCause
  
CHECK_DEADLOCK FALSE
