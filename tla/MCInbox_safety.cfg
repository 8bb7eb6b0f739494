SPECIFICATION Spec
CONSTANTS
  alice = alice
  bob = bob
  p1 = p1
  p2 = p2
  Users = {alice, bob}
  Rooms = {r1}
  Requests = {p1, p2}
  QueueCap = 2
  MaxEvents = 4
  MaxMessages = 2
  MaxResets = 1
  MaxCrashes = 1
  MaxFaults = 1
SYMMETRY Symmetry
INVARIANTS
  TypeOK Accounting  
PROPERTIES
  MissedOnlyEarly
CHECK_DEADLOCK FALSE
