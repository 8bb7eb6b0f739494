SPECIFICATION Spec
CONSTANTS
  alice = alice
  bob = bob
  p1 = p1
  p2 = p2
  Users = {alice, bob}
  Rooms = {r1}
  Requests = {p1, p2}
  QueueCap = 2
  MaxEvents = 4
  MaxMessages = 2
  MaxResets = 0
  MaxCrashes = 0
  MaxFaults = 0
SYMMETRY Symmetry
INVARIANTS
  RecipientIsCounted
CHECK_DEADLOCK FALSE
