------------------------------ MODULE Presence ------------------------------
(***************************************************************************)
(* Rooms: the members that the database has, and the rooms to which the    *)
(* hub routes a user's session (server: handlers/rooms.go, handlers/ws.go, *)
(* room/service.go).                                                       *)
(*                                                                         *)
(* A request to join or to leave changes the database, and then the hub if *)
(* the user has a session; one that creates a room never tells the hub.    *)
(* An upgrade to a WebSocket reads the user's rooms, and registers the     *)
(* session with them later.  Requests and upgrades of the programs that a  *)
(* user is logged in with (module Auth) run side by side.                  *)
(*                                                                         *)
(* A user has one session at a time here: what two do to the hub is Hub's  *)
(* subject.                                                                *)
(***************************************************************************)
EXTENDS Auth

CONSTANTS
  Rooms,
  MaxRequests, \* bound: requests and upgrades
  MaxDrops     \* bound: sessions lost

ASSUME PresenceAssumption == {MaxRequests, MaxDrops} \subseteq Nat

VARIABLES
  rooms,    \* the table of rooms
  members,  \* the table of room members: pairs of user and room
  requests, \* requests and upgrades under way
  online,   \* users with a session in the hub
  routed,   \* rooms of the hub's sessions: pairs of user and room
  started, drops, \* requests and lost sessions so far
  crossed   \* history: pairs for which the hub may have missed or misordered a change

presenceVars == <<rooms, members, requests, online, routed, started, drops, crossed>>
vars == <<authVars, presenceVars>>

Request(n, do, r) ==
  [id |-> started, user |-> n, do |-> do, room |-> r, at |-> "store", read |-> {}]
Upgrading(n) == {q \in requests : q.user = n /\ q.do = "upgrade" /\ q.at = "register"}
Pending == {<<q.user, q.room>> : q \in {x \in requests : x.do # "upgrade"}}

(* Requests that have changed the table, and have to tell the hub. *)
Told == {q \in requests : q.at = "notify"}
Pair(q) == <<q.user, q.room>>

PresenceTypeOK ==
  /\ rooms \subseteq Rooms
  /\ members \subseteq Names \X rooms
  /\ requests \subseteq [id: 0..MaxRequests, user: Names,
                         do: {"create", "join", "leave", "upgrade"}, room: Rooms \cup {None},
                         at: {"store", "notify", "register"}, read: SUBSET Rooms]
  /\ online \subseteq Names
  /\ routed \subseteq online \X rooms
  /\ crossed \subseteq Names \X Rooms

TypeOK == AuthTypeOK /\ PresenceTypeOK

Init ==
  /\ AuthInit
  /\ rooms \in SUBSET Rooms /\ members = {} /\ requests = {} /\ online = {} /\ routed = {}
  /\ started = 0 /\ drops = 0 /\ crossed = {}

----------------------------------------------------------------------------
(* A program with a token that is valid yet starts a request; rooms to     *)
(* join and to leave are known from a list.                                *)
Start(p, do, r) ==
  /\ token[p] # None /\ p \notin expired
  /\ do \in {"join", "leave"} => r \in rooms
  /\ started < MaxRequests
  /\ started' = started + 1
  /\ requests' = requests \cup {Request(token[p], do, r)}
  /\ UNCHANGED <<authVars, rooms, members, online, routed, drops, crossed>>

(* Service.Create, one transaction; its slug must be new. *)
CreateRoom(q) ==
  /\ q \in requests /\ q.do = "create" /\ q.at = "store"
  /\ requests' = requests \ {q}
  /\ IF q.room \in rooms
     THEN UNCHANGED <<rooms, members, crossed>>
     ELSE /\ rooms' = rooms \cup {q.room}
          /\ members' = members \cup {<<q.user, q.room>>}
          /\ crossed' = IF q.user \in online \/ Upgrading(q.user) # {}
                        THEN crossed \cup {<<q.user, q.room>>} ELSE crossed
  /\ UNCHANGED <<authVars, online, routed, started, drops>>

(* Is the hub told of another change of the pair after this one, or will a *)
(* session be registered that has not read it?                             *)
Crossing(q) ==
  \/ Upgrading(q.user) # {}
  \/ \E o \in requests : o.user = q.user /\ o.room = q.room /\ o.at = "notify" /\ o.do # q.do

(* Service.Join and Leave *)
JoinOrLeave(q) ==
  /\ q \in requests /\ q.do \in {"join", "leave"} /\ q.at = "store"
  /\ requests' = (requests \ {q}) \cup {[q EXCEPT !.at = "notify"]}
  /\ members' = IF q.do = "join" THEN members \cup {<<q.user, q.room>>}
                                ELSE members \ {<<q.user, q.room>>}
  /\ crossed' = IF Crossing(q) THEN crossed \cup {<<q.user, q.room>>} ELSE crossed
  /\ UNCHANGED <<authVars, rooms, online, routed, started, drops>>

(* Mutant of UpdateUserRoomState: the hub is told of joins only. *)
UpdateUserRoomStateOfJoin(q) ==
  /\ q \in requests /\ q.at = "notify"
  /\ requests' = requests \ {q}
  /\ routed' = IF q.user \in online /\ q.do = "join" THEN routed \cup {<<q.user, q.room>>}
                                                     ELSE routed
  /\ UNCHANGED <<authVars, rooms, members, online, started, drops, crossed>>

(* UpdateUserRoomState, done by the hub: for a user with a session. *)
UpdateUserRoomState(q) ==
  /\ q \in requests /\ q.at = "notify"
  /\ requests' = requests \ {q}
  /\ routed' = CASE q.user \notin online -> routed
                 [] q.user \in online /\ q.do = "join"  -> routed \cup {<<q.user, q.room>>}
                 [] q.user \in online /\ q.do = "leave" -> routed \ {<<q.user, q.room>>}
  /\ UNCHANGED <<authVars, rooms, members, online, started, drops, crossed>>

(* A statement fails, or the connection cannot be upgraded. *)
RequestFails(q) ==
  /\ q \in requests /\ q.at # "notify" /\ drops < MaxDrops
  /\ drops' = drops + 1
  /\ requests' = requests \ {q}
  /\ UNCHANGED <<authVars, rooms, members, online, routed, started, crossed>>

(* Upgrade: GetRoomsForUser.  What was missed before does not matter from  *)
(* here, unless the hub will yet be told.                                  *)
ReadRooms(q) ==
  /\ q \in requests /\ q.do = "upgrade" /\ q.at = "store"
  /\ requests' = (requests \ {q}) \cup
       {[q EXCEPT !.at = "register", !.read = {r \in Rooms : <<q.user, r>> \in members}]}
  /\ crossed' = IF q.user \in online \/ Upgrading(q.user) # {} THEN crossed
                ELSE {x \in crossed : x[1] # q.user \/ x \in Pending}
  /\ UNCHANGED <<authVars, rooms, members, online, routed, started, drops>>

RegisterSession(q) ==
  /\ q \in requests /\ q.at = "register" /\ q.user \notin online
  /\ requests' = requests \ {q}
  /\ online' = online \cup {q.user}
  /\ routed' = routed \cup {<<q.user, r>> : r \in q.read}
  /\ UNCHANGED <<authVars, rooms, members, started, drops, crossed>>

(* Mutant of Drop: the rooms are not forgotten. *)
DropKeepingRooms(n) ==
  /\ n \in online /\ drops < MaxDrops
  /\ drops' = drops + 1
  /\ online' = online \ {n}
  /\ UNCHANGED <<authVars, rooms, members, requests, routed, started, crossed>>

(* The session is lost, and unregistered. *)
Drop(n) ==
  /\ n \in online /\ drops < MaxDrops
  /\ drops' = drops + 1
  /\ online' = online \ {n}
  /\ routed' = {x \in routed : x[1] # n}
  /\ UNCHANGED <<authVars, rooms, members, requests, started, crossed>>

----------------------------------------------------------------------------
PresenceNext ==
  \/ \E p \in Programs, do \in {"create", "join", "leave"}, r \in Rooms : Start(p, do, r)
  \/ \E p \in Programs : Start(p, "upgrade", None)
  \/ \E q \in requests :
        \/ CreateRoom(q) \/ JoinOrLeave(q) \/ UpdateUserRoomState(q) \/ RequestFails(q)
        \/ ReadRooms(q) \/ RegisterSession(q)
  \/ \E n \in Names : Drop(n)

Next == (AuthNext /\ UNCHANGED presenceVars) \/ PresenceNext

Spec == Init /\ [][Next]_vars

----------------------------------------------------------------------------
(* The hub routes to a session the rooms of which its user is a member,    *)
(* and no others, up to changes of the table that it is about to be told,  *)
(* unless a change crossed an upgrade or an opposite change, or the user   *)
(* created the room.                                                       *)
RoomsAreMembers ==
  \A n \in online, r \in Rooms :
     \/ <<n, r>> \in routed <=> <<n, r>> \in members
     \/ <<n, r>> \in crossed
     \/ \E q \in Told : Pair(q) = <<n, r>>
============================================================================
