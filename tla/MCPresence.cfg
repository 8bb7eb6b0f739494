SPECIFICATION Spec
CONSTANTS
  Programs = {p1, p2}
  Names = {n1, n2}
  Passwords = {w1, w2}
  None = None
  Rooms = {r1}
  MaxSubmits = 3
  MaxFailures = 1
  MaxRequests = 3
  MaxDrops = 1
SYMMETRY Symmetry
INVARIANTS
  TypeOK TokenIsOwn  
PROPERTIES
  ImplementsAccounts
CHECK_DEADLOCK FALSE
