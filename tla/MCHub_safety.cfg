SPECIFICATION Spec
CONSTANTS
  alice = alice
  bob = bob
  a1 = a1
  a2 = a2
  b1 = b1
  Users = {alice, bob}
  Sessions = {a1, a2}
  Rooms = {r1}
  UserOf <- UserOfActive
  NoSession = NoSession
  SendCap = 1
  BroadcastCap = 1
  MaxID = 1
  MaxPush = 1
INVARIANTS
  TypeOK OpenClients SessionRouted  
PROPERTIES
  ImplementsFeeds
CHECK_DEADLOCK FALSE
