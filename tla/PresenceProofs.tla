--------------------------- MODULE PresenceProofs ---------------------------
(***************************************************************************)
(* Theorems about members and the rooms that the hub routes, for any       *)
(* number of users, rooms, requests and lost sessions, together with the   *)
(* logins of module Auth.                                                  *)
(***************************************************************************)
EXTENDS Presence, AuthProofs

----------------------------------------------------------------------------
(* The steps of Presence are steps of Auth, or leave its state alone.      *)
LEMMA ImpliesAuth == Spec => AuthSpec
<1>1. Init => AuthInit
  BY DEF Init
<1>2. [Next]_vars => [AuthNext]_authVars
  <2> SUFFICES ASSUME Next, ~AuthNext PROVE UNCHANGED authVars
    BY DEF vars
  <2>1. PresenceNext
    BY DEF Next
  <2>2. ASSUME NEW p \in Programs, NEW do, NEW r, Start(p, do, r) PROVE UNCHANGED authVars
    BY <2>2 DEF Start
  <2>3. ASSUME NEW q \in requests,
               \/ CreateRoom(q) \/ JoinOrLeave(q) \/ UpdateUserRoomState(q) \/ RequestFails(q)
               \/ ReadRooms(q) \/ RegisterSession(q)
        PROVE  UNCHANGED authVars
    BY <2>3 DEF CreateRoom, JoinOrLeave, UpdateUserRoomState, RequestFails, ReadRooms,
                RegisterSession
  <2>4. ASSUME NEW n \in Names, Drop(n) PROVE UNCHANGED authVars
    BY <2>4 DEF Drop
  <2>5. QED
    BY <2>1, <2>2, <2>3, <2>4 DEF PresenceNext
<1>3. QED
  BY <1>1, <1>2, PTL DEF Spec, AuthSpec

(* A program acts only for a user whose password it gave (auth/service.go),*)
(* in this composition, too.                                               *)
THEOREM PresenceTokensAreOwn == Spec => []TokenIsOwn
BY ImpliesAuth, TokensAreOwn

(* No name is registered twice (auth/service.go:66-80).                    *)
THEOREM PresenceNamesOnce == Spec => []RegisteredOnce
BY ImpliesAuth, NamesRegisteredOnce

(* A form loads exactly while its one submission is under way              *)
(* (ui/auth/model.go:111-125).                                             *)
THEOREM PresenceForms == Spec => []LoadingIsUnderway
BY ImpliesAuth, FormsLoad

(* Registration and login take effect in one step each.                    *)
THEOREM PresenceRefinement == Spec => ImplementsAccounts
BY ImpliesAuth, Refinement

----------------------------------------------------------------------------
(* The inductive invariant.                                                *)
RequestsAreSound ==
  \A q \in requests :
     /\ q.at = "notify" => q.do \in {"join", "leave"}
     /\ q.at = "register" => q.do = "upgrade"
     /\ q.do # "upgrade" => q.room \in Rooms
     /\ q.do \in {"join", "leave"} => q.room \in rooms
     /\ q.read \subseteq rooms

(* What the hub will be told last of a pair is what the table has.         *)
ToldIsStored ==
  \A q \in Told : Pair(q) \in crossed \/ (Pair(q) \in members <=> q.do = "join")

(* What an upgrade has read still is what the table has.                   *)
ReadIsStored ==
  \A q \in requests, r \in Rooms :
     q.at = "register" => \/ <<q.user, r>> \in crossed
                          \/ r \in q.read <=> <<q.user, r>> \in members

PresenceInv ==
  /\ PresenceTypeOK /\ started \in 0..MaxRequests /\ drops \in Nat
  /\ RequestsAreSound /\ ToldIsStored /\ ReadIsStored /\ RoomsAreMembers

(* Initially nobody is a member or online. *)
LEMMA PresenceInitInv == Init => PresenceInv
BY PresenceAssumption
   DEF Init, PresenceInv, PresenceTypeOK, RequestsAreSound, ToldIsStored, Told, ReadIsStored,
       RoomsAreMembers

(* The fields of a request.                                                *)
LEMMA RequestFields ==
  ASSUME PresenceInv, NEW q \in requests
  PROVE  /\ q \in [id: 0..MaxRequests, user: Names,
                   do: {"create", "join", "leave", "upgrade"}, room: Rooms \cup {None},
                   at: {"store", "notify", "register"}, read: SUBSET Rooms]
         /\ q.user \in Names
BY DEF PresenceInv, PresenceTypeOK

(* A new request has changed nothing yet. *)
LEMMA StartInv ==
  ASSUME PresenceInv, AuthTypeOK, NEW p \in Programs,
         NEW do \in {"create", "join", "leave", "upgrade"}, NEW r \in Rooms \cup {None},
         do # "upgrade" => r \in Rooms, Start(p, do, r)
  PROVE  PresenceInv'
<1> DEFINE q == Request(token[p], do, r)
<1>1. /\ q.user = token[p] /\ q.do = do /\ q.room = r /\ q.at = "store" /\ q.read = {}
      /\ q \in [id: 0..MaxRequests, user: Names,
                do: {"create", "join", "leave", "upgrade"}, room: Rooms \cup {None},
                at: {"store", "notify", "register"}, read: SUBSET Rooms]
  <2>1. token[p] \in Names /\ started \in 0..MaxRequests
    BY DEF PresenceInv, AuthTypeOK, Start
  <2>2. q = [id |-> started, user |-> token[p], do |-> do, room |-> r, at |-> "store",
             read |-> {}]
    BY DEF Request
  <2> HIDE DEF q
  <2>3. QED
    BY <2>1, <2>2
<1>2. /\ requests' = requests \cup {q}
      /\ UNCHANGED <<rooms, members, online, routed, drops, crossed>>
      /\ do \in {"join", "leave"} => r \in rooms
      /\ started' = started + 1 /\ started < MaxRequests
  BY DEF Start
<1> HIDE DEF q
<1>3. PresenceTypeOK' /\ started' \in 0..MaxRequests /\ drops' \in Nat
  BY <1>1, <1>2, PresenceAssumption DEF PresenceInv, PresenceTypeOK
<1>4. RequestsAreSound'
  BY <1>1, <1>2 DEF PresenceInv, RequestsAreSound
<1>5. Told' = Told
  BY <1>1, <1>2 DEF Told
<1>6. ToldIsStored' /\ RoomsAreMembers'
  BY <1>2, <1>5 DEF PresenceInv, ToldIsStored, RoomsAreMembers
<1>7. ReadIsStored'
  BY <1>1, <1>2 DEF PresenceInv, ReadIsStored
<1>8. QED
  BY <1>3, <1>4, <1>6, <1>7 DEF PresenceInv

(* A new room has no pair that others know. *)
LEMMA CreateRoomInv ==
  ASSUME PresenceInv, NEW q \in requests, CreateRoom(q)
  PROVE  PresenceInv'
<1>1. /\ q.user \in Names /\ q.room \in Rooms
      /\ requests' = requests \ {q} /\ Told' = Told
      /\ UNCHANGED <<online, routed, started, drops>>
  BY RequestFields DEF CreateRoom, Told, PresenceInv, RequestsAreSound
<1>2. CASE q.room \in rooms
  <2>1. UNCHANGED <<rooms, members, crossed>>
    BY <1>2 DEF CreateRoom
  <2>2. QED
    BY <1>1, <2>1
       DEF PresenceInv, PresenceTypeOK, RequestsAreSound, ToldIsStored, ReadIsStored, RoomsAreMembers
<1>3. CASE q.room \notin rooms
  <2>1. /\ rooms' = rooms \cup {q.room}
        /\ members' = members \cup {<<q.user, q.room>>}
        /\ crossed' = IF q.user \in online \/ Upgrading(q.user) # {}
                      THEN crossed \cup {<<q.user, q.room>>} ELSE crossed
    BY <1>3 DEF CreateRoom
  <2>2. PresenceTypeOK' /\ started' \in 0..MaxRequests /\ drops' \in Nat
    BY <1>1, <2>1 DEF PresenceInv, PresenceTypeOK
  <2>3. RequestsAreSound'
    BY <1>1, <2>1 DEF PresenceInv, RequestsAreSound
  <2>4. ToldIsStored'
    <3>1. \A o \in Told : Pair(o) # <<q.user, q.room>>
      BY <1>3 DEF PresenceInv, RequestsAreSound, Told, Pair
    <3>2. QED
      BY <1>1, <2>1, <3>1 DEF PresenceInv, ToldIsStored, Pair
  <2>5. ReadIsStored'
    <3>1. SUFFICES ASSUME NEW o \in requests, NEW r \in Rooms, o.at = "register"
                   PROVE  \/ <<o.user, r>> \in crossed'
                          \/ r \in o.read <=> <<o.user, r>> \in members'
      BY <1>1 DEF ReadIsStored
    <3>2. CASE o.user = q.user /\ r = q.room
      BY <2>1, <3>1, <3>2 DEF Upgrading, PresenceInv, RequestsAreSound
    <3>3. CASE ~(o.user = q.user /\ r = q.room)
      BY <2>1, <3>1, <3>3 DEF PresenceInv, ReadIsStored
    <3>4. QED
      BY <3>2, <3>3
  <2>6. RoomsAreMembers'
    BY <1>1, <2>1 DEF PresenceInv, RoomsAreMembers
  <2>7. QED
    BY <2>2, <2>3, <2>4, <2>5, <2>6 DEF PresenceInv
<1>4. QED
  BY <1>2, <1>3

(* The table is changed, and the hub will be told. *)
LEMMA JoinOrLeaveInv ==
  ASSUME PresenceInv, NEW q \in requests, JoinOrLeave(q)
  PROVE  PresenceInv'
<1> DEFINE d == [q EXCEPT !.at = "notify"]
<1>1. /\ q.user \in Names /\ q.room \in Rooms /\ q.room \in rooms /\ q.do \in {"join", "leave"}
      /\ q.read \subseteq rooms /\ q.at = "store"
  BY RequestFields DEF JoinOrLeave, PresenceInv, RequestsAreSound
<1>2. /\ d \in [id: 0..MaxRequests, user: Names,
                do: {"create", "join", "leave", "upgrade"}, room: Rooms \cup {None},
                at: {"store", "notify", "register"}, read: SUBSET Rooms]
      /\ d.user = q.user /\ d.do = q.do /\ d.room = q.room /\ d.at = "notify" /\ d.read = q.read
  BY RequestFields
<1>3. /\ requests' = (requests \ {q}) \cup {d}
      /\ members' = IF q.do = "join" THEN members \cup {<<q.user, q.room>>}
                                    ELSE members \ {<<q.user, q.room>>}
      /\ crossed' = IF Crossing(q) THEN crossed \cup {<<q.user, q.room>>} ELSE crossed
      /\ UNCHANGED <<rooms, online, routed, started, drops>>
  BY DEF JoinOrLeave
<1> HIDE DEF d
<1>4. Told' = Told \cup {d}
  BY <1>1, <1>2, <1>3 DEF Told
<1>5. PresenceTypeOK' /\ started' \in 0..MaxRequests /\ drops' \in Nat
  <2>1. members' \subseteq Names \X rooms /\ crossed' \subseteq Names \X Rooms
    BY <1>1, <1>3 DEF PresenceInv, PresenceTypeOK
  <2>2. QED
    BY <1>2, <1>3, <2>1 DEF PresenceInv, PresenceTypeOK
<1>6. RequestsAreSound'
  BY <1>1, <1>2, <1>3 DEF PresenceInv, RequestsAreSound
<1>7. ToldIsStored'
  <2>1. SUFFICES ASSUME NEW o \in Told \cup {d}
                 PROVE  Pair(o) \in crossed' \/ (Pair(o) \in members' <=> o.do = "join")
    BY <1>4 DEF ToldIsStored
  <2>2. Pair(o) = <<o.user, o.room>> /\ Pair(d) = <<q.user, q.room>>
    BY <1>2 DEF Pair
  <2>3. CASE o = d
    BY <1>1, <1>2, <1>3, <2>2, <2>3
  <2>4. CASE o \in Told /\ Pair(o) = Pair(d)
    <3>1. o.do # q.do => Crossing(q)
      BY <2>2, <2>4 DEF Told, Crossing
    <3>2. QED
      BY <1>1, <1>3, <2>2, <2>4, <3>1 DEF Told, PresenceInv, RequestsAreSound
  <2>5. CASE o \in Told /\ Pair(o) # Pair(d)
    BY <1>3, <2>2, <2>5 DEF PresenceInv, ToldIsStored
  <2>6. QED
    BY <2>1, <2>3, <2>4, <2>5
<1>8. ReadIsStored'
  <2>1. SUFFICES ASSUME NEW o \in requests, NEW r \in Rooms, o.at = "register"
                 PROVE  \/ <<o.user, r>> \in crossed'
                        \/ r \in o.read <=> <<o.user, r>> \in members'
    BY <1>2, <1>3 DEF ReadIsStored
  <2>2. CASE o.user = q.user /\ r = q.room
    <3>1. Crossing(q)
      BY <2>1, <2>2 DEF Crossing, Upgrading, PresenceInv, RequestsAreSound
    <3>2. QED
      BY <1>3, <2>2, <3>1
  <2>3. CASE ~(o.user = q.user /\ r = q.room)
    BY <1>3, <2>1, <2>3 DEF PresenceInv, ReadIsStored
  <2>4. QED
    BY <2>2, <2>3
<1>9. RoomsAreMembers'
  <2>1. SUFFICES ASSUME NEW n \in online, NEW r \in Rooms
                 PROVE  \/ <<n, r>> \in routed <=> <<n, r>> \in members'
                        \/ <<n, r>> \in crossed'
                        \/ \E o \in Told \cup {d} : Pair(o) = <<n, r>>
    BY <1>3, <1>4 DEF RoomsAreMembers
  <2>2. CASE n = q.user /\ r = q.room
    BY <1>2, <2>2 DEF Pair
  <2>3. CASE ~(n = q.user /\ r = q.room)
    BY <1>3, <2>3 DEF PresenceInv, RoomsAreMembers
  <2>4. QED
    BY <2>2, <2>3
<1>10. QED
  BY <1>5, <1>6, <1>7, <1>8, <1>9 DEF PresenceInv

(* The hub is told of the change. *)
LEMMA UpdateUserRoomStateInv ==
  ASSUME PresenceInv, NEW q \in requests, UpdateUserRoomState(q)
  PROVE  PresenceInv'
<1>1. /\ q.do \in {"join", "leave"} /\ q.room \in rooms /\ q \in Told
  BY DEF UpdateUserRoomState, PresenceInv, RequestsAreSound, Told
<1>2. /\ requests' = requests \ {q} /\ Told' = Told \ {q}
      /\ UNCHANGED <<rooms, members, online, started, drops, crossed>>
  BY DEF UpdateUserRoomState, Told
<1>3. /\ q.user \notin online => routed' = routed
      /\ q.user \in online /\ q.do = "join" => routed' = routed \cup {<<q.user, q.room>>}
      /\ q.user \in online /\ q.do = "leave" => routed' = routed \ {<<q.user, q.room>>}
  BY DEF UpdateUserRoomState
<1>4. PresenceTypeOK' /\ started' \in 0..MaxRequests /\ drops' \in Nat
  <2>1. routed' \subseteq online \X rooms
    BY <1>1, <1>3 DEF PresenceInv, PresenceTypeOK
  <2>2. QED
    BY <1>2, <2>1 DEF PresenceInv, PresenceTypeOK
<1>5. RequestsAreSound' /\ ToldIsStored' /\ ReadIsStored'
  BY <1>2 DEF PresenceInv, RequestsAreSound, ToldIsStored, ReadIsStored
<1>6. RoomsAreMembers'
  <2>1. SUFFICES ASSUME NEW n \in online, NEW r \in Rooms
                 PROVE  \/ <<n, r>> \in routed' <=> <<n, r>> \in members
                        \/ <<n, r>> \in crossed
                        \/ \E o \in Told \ {q} : Pair(o) = <<n, r>>
    BY <1>2 DEF RoomsAreMembers
  <2>2. CASE n = q.user /\ r = q.room
    <3>1. <<n, r>> \in crossed \/ (<<n, r>> \in members <=> q.do = "join")
      BY <1>1, <2>2 DEF PresenceInv, ToldIsStored, Pair
    <3>2. QED
      BY <1>1, <1>3, <2>2, <3>1
  <2>3. CASE ~(n = q.user /\ r = q.room)
    <3>1. <<n, r>> \in routed' <=> <<n, r>> \in routed
      BY <1>1, <1>3, <2>3
    <3>2. Pair(q) # <<n, r>>
      BY <2>3 DEF Pair
    <3>3. QED
      BY <3>1, <3>2 DEF PresenceInv, RoomsAreMembers
  <2>4. QED
    BY <2>2, <2>3
<1>7. QED
  BY <1>4, <1>5, <1>6 DEF PresenceInv

(* A request that fails has changed nothing. *)
LEMMA RequestFailsInv ==
  ASSUME PresenceInv, NEW q \in requests, RequestFails(q)
  PROVE  PresenceInv'
<1>1. Told' = Told
  BY DEF RequestFails, Told
<1>2. QED
  BY <1>1 DEF RequestFails, PresenceInv, PresenceTypeOK, RequestsAreSound, ToldIsStored,
              ReadIsStored, RoomsAreMembers

(* An upgrade reads what the table has. *)
LEMMA ReadRoomsInv ==
  ASSUME PresenceInv, NEW q \in requests, ReadRooms(q)
  PROVE  PresenceInv'
<1> DEFINE R == {r \in Rooms : <<q.user, r>> \in members}
           d == [q EXCEPT !.at = "register", !.read = R]
<1>1. /\ q.user \in Names /\ q.do = "upgrade" /\ q.at = "store" /\ R \subseteq rooms
  BY RequestFields DEF ReadRooms, PresenceInv, PresenceTypeOK
<1>2. /\ d \in [id: 0..MaxRequests, user: Names,
                do: {"create", "join", "leave", "upgrade"}, room: Rooms \cup {None},
                at: {"store", "notify", "register"}, read: SUBSET Rooms]
      /\ d.user = q.user /\ d.do = q.do /\ d.room = q.room /\ d.at = "register" /\ d.read = R
  BY RequestFields
<1>3. /\ requests' = (requests \ {q}) \cup {d}
      /\ crossed' = IF q.user \in online \/ Upgrading(q.user) # {} THEN crossed
                    ELSE {x \in crossed : x[1] # q.user \/ x \in Pending}
      /\ UNCHANGED <<rooms, members, online, routed, started, drops>>
  BY DEF ReadRooms
<1> HIDE DEF d
<1>4. Told' = Told
  BY <1>1, <1>2, <1>3 DEF Told
<1>5. PresenceTypeOK' /\ started' \in 0..MaxRequests /\ drops' \in Nat
  BY <1>2, <1>3 DEF PresenceInv, PresenceTypeOK
<1>6. RequestsAreSound'
  BY <1>1, <1>2, <1>3 DEF PresenceInv, RequestsAreSound
<1>7. ToldIsStored'
  <2>1. ASSUME NEW o \in Told, Pair(o) \in crossed PROVE Pair(o) \in crossed'
    <3>1. Pair(o) \in Pending
      BY DEF Pair, Pending, Told, PresenceInv, RequestsAreSound
    <3>2. QED
      BY <1>3, <2>1, <3>1
  <2>2. QED
    BY <1>3, <1>4, <2>1 DEF PresenceInv, ToldIsStored
<1>8. ReadIsStored'
  <2>1. SUFFICES ASSUME NEW o \in requests', NEW r \in Rooms, o.at = "register"
                 PROVE  \/ <<o.user, r>> \in crossed'
                        \/ r \in o.read <=> <<o.user, r>> \in members
    BY <1>3 DEF ReadIsStored
  <2>2. CASE o = d
    BY <1>2, <2>2
  <2>3. CASE o \in requests /\ o.user = q.user
    <3>1. o \in Upgrading(q.user)
      BY <2>1, <2>3 DEF Upgrading, PresenceInv, RequestsAreSound
    <3>2. QED
      BY <1>3, <2>1, <2>3, <3>1 DEF PresenceInv, ReadIsStored
  <2>4. CASE o \in requests /\ o.user # q.user
    <3>1. <<o.user, r>> \in crossed => <<o.user, r>> \in crossed'
      BY <1>3, <2>4
    <3>2. QED
      BY <2>1, <2>4, <3>1 DEF PresenceInv, ReadIsStored
  <2>5. QED
    BY <1>3, <2>2, <2>3, <2>4
<1>9. RoomsAreMembers'
  <2>1. ASSUME NEW n \in online, NEW r \in Rooms, <<n, r>> \in crossed PROVE <<n, r>> \in crossed'
    BY <1>3, <2>1
  <2>2. QED
    BY <1>3, <1>4, <2>1 DEF PresenceInv, RoomsAreMembers
<1>10. QED
  BY <1>5, <1>6, <1>7, <1>8, <1>9 DEF PresenceInv

(* The session is routed the rooms that were read. *)
LEMMA RegisterSessionInv ==
  ASSUME PresenceInv, NEW q \in requests, RegisterSession(q)
  PROVE  PresenceInv'
<1>1. /\ q.user \in Names /\ q.user \notin online /\ q.at = "register" /\ q.read \subseteq rooms
      /\ requests' = requests \ {q} /\ Told' = Told
      /\ online' = online \cup {q.user}
      /\ routed' = routed \cup {<<q.user, r>> : r \in q.read}
      /\ UNCHANGED <<rooms, members, started, drops, crossed>>
  BY RequestFields DEF RegisterSession, Told, PresenceInv, RequestsAreSound
<1>2. PresenceTypeOK' /\ started' \in 0..MaxRequests /\ drops' \in Nat
  <2>1. routed' \subseteq online' \X rooms
    BY <1>1 DEF PresenceInv, PresenceTypeOK
  <2>2. QED
    BY <1>1, <2>1 DEF PresenceInv, PresenceTypeOK
<1>3. RequestsAreSound' /\ ToldIsStored' /\ ReadIsStored'
  BY <1>1 DEF PresenceInv, RequestsAreSound, ToldIsStored, ReadIsStored
<1>4. RoomsAreMembers'
  <2>1. SUFFICES ASSUME NEW n \in online', NEW r \in Rooms
                 PROVE  \/ <<n, r>> \in routed' <=> <<n, r>> \in members
                        \/ <<n, r>> \in crossed
                        \/ \E o \in Told : Pair(o) = <<n, r>>
    BY <1>1 DEF RoomsAreMembers
  <2>2. CASE n = q.user
    <3>1. <<n, r>> \notin routed
      BY <1>1, <2>2 DEF PresenceInv, PresenceTypeOK
    <3>2. <<n, r>> \in routed' <=> r \in q.read
      BY <1>1, <2>2, <3>1
    <3>3. QED
      BY <1>1, <2>2, <3>2 DEF PresenceInv, ReadIsStored
  <2>3. CASE n # q.user
    <3>1. n \in online /\ (<<n, r>> \in routed' <=> <<n, r>> \in routed)
      BY <1>1, <2>3
    <3>2. QED
      BY <3>1 DEF PresenceInv, RoomsAreMembers
  <2>4. QED
    BY <2>2, <2>3
<1>5. QED
  BY <1>2, <1>3, <1>4 DEF PresenceInv

(* A session that is lost is routed nothing. *)
LEMMA DropInv ==
  ASSUME PresenceInv, NEW n \in Names, Drop(n)
  PROVE  PresenceInv'
<1>1. /\ online' = online \ {n} /\ routed' = {x \in routed : x[1] # n}
      /\ drops' = drops + 1 /\ Told' = Told
      /\ UNCHANGED <<rooms, members, requests, started, crossed>>
  BY DEF Drop, Told
<1>2. PresenceTypeOK' /\ started' \in 0..MaxRequests /\ drops' \in Nat
  BY <1>1 DEF PresenceInv, PresenceTypeOK
<1>3. RequestsAreSound' /\ ToldIsStored' /\ ReadIsStored'
  BY <1>1 DEF PresenceInv, RequestsAreSound, ToldIsStored, ReadIsStored
<1>4. RoomsAreMembers'
  BY <1>1 DEF PresenceInv, RoomsAreMembers
<1>5. QED
  BY <1>2, <1>3, <1>4 DEF PresenceInv

(* Every step preserves the invariant. *)
LEMMA PresenceNextInv == PresenceInv /\ AuthTypeOK /\ [Next]_vars => PresenceInv'
<1> SUFFICES ASSUME PresenceInv, AuthTypeOK, [Next]_vars PROVE PresenceInv'
  OBVIOUS
<1>1. CASE UNCHANGED presenceVars
  BY <1>1 DEF presenceVars, PresenceInv, PresenceTypeOK, RequestsAreSound, ToldIsStored, Told,
              ReadIsStored, RoomsAreMembers
<1>2. ASSUME NEW p \in Programs, NEW do \in {"create", "join", "leave"}, NEW r \in Rooms,
             Start(p, do, r)
      PROVE  PresenceInv'
  BY <1>2, StartInv
<1>3. ASSUME NEW p \in Programs, Start(p, "upgrade", None) PROVE PresenceInv'
  BY <1>3, StartInv
<1>4. ASSUME NEW q \in requests,
             \/ CreateRoom(q) \/ JoinOrLeave(q) \/ UpdateUserRoomState(q) \/ RequestFails(q)
             \/ ReadRooms(q) \/ RegisterSession(q)
      PROVE  PresenceInv'
  BY <1>4, CreateRoomInv, JoinOrLeaveInv, UpdateUserRoomStateInv, RequestFailsInv, ReadRoomsInv,
     RegisterSessionInv
<1>5. ASSUME NEW n \in Names, Drop(n) PROVE PresenceInv'
  BY <1>5, DropInv
<1>6. QED
  BY <1>1, <1>2, <1>3, <1>4, <1>5 DEF Next, PresenceNext, vars

(* The invariant holds in every state. *)
LEMMA PresenceInvariance == Spec => []PresenceInv
<1>1. Spec => []AuthTypeOK
  BY ImpliesAuth, AuthTypeCorrect
<1>2. QED
  BY <1>1, PresenceInitInv, PresenceNextInv, PTL DEF Spec

----------------------------------------------------------------------------
(* Type correctness of the tables, the requests and the hub's rooms.       *)
THEOREM PresenceTypeCorrect == Spec => []TypeOK
<1>1. PresenceInv /\ AuthTypeOK => TypeOK
  BY DEF PresenceInv, TypeOK
<1>2. QED
  BY <1>1, PresenceInvariance, ImpliesAuth, AuthTypeCorrect, PTL

(* What the hub routes to a session is what the table of members has, for  *)
(* any number of requests, upgrades and losses side by side, save for the  *)
(* changes that cross (handlers/rooms.go:96-138, handlers/ws.go:50-70).    *)
THEOREM RoutedRoomsAreMembers == Spec => []RoomsAreMembers
<1>1. PresenceInv => RoomsAreMembers
  BY DEF PresenceInv
<1>2. QED
  BY <1>1, PresenceInvariance, PTL
=============================================================================
