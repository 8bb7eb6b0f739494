SPECIFICATION Spec
CONSTANTS
  alice = alice
  bob = bob
  a1 = a1
  a2 = a2
  b1 = b1
  Users = {alice, bob}
  Sessions = {a1, b1}
  Rooms = {r1}
  UserOf <- UserOfActive
  NoSession = NoSession
  SendCap = 2
  BroadcastCap = 2
  MaxID = 2
  MaxPush = 0
INVARIANTS
  SenderOrder SameOrder SeenIsStored
CHECK_DEADLOCK FALSE
