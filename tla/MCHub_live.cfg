SPECIFICATION LiveSpec
CONSTANTS
  alice = alice
  bob = bob
  a1 = a1
  a2 = a2
  b1 = b1
  Users = {alice, bob}
  Sessions = {a1, b1}
  Rooms = {}
  UserOf <- UserOfActive
  NoSession = NoSession
  SendCap = 1
  BroadcastCap = 1
  MaxID = 2
  MaxPush = 0
PROPERTIES
  RequestServed StoredIsRouted QueuedIsWritten DisconnectedIsForgotten
CHECK_DEADLOCK FALSE
