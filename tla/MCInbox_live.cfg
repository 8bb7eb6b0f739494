SPECIFICATION LiveSpec
CONSTANTS
  alice = alice
  bob = bob
  p1 = p1
  p2 = p2
  Users = {alice, bob}
  Rooms = {r1}
  Requests = {p1, p2}
  QueueCap = 1
  MaxEvents = 3
  MaxMessages = 2
  MaxResets = 1
  MaxCrashes = 1
  MaxFaults = 1
PROPERTIES
  EventsAreHandled 
CHECK_DEADLOCK FALSE
