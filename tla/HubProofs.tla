----------------------------- MODULE HubProofs -----------------------------
(***************************************************************************)
(* Theorems about the hub, for any number of users, sessions and rooms and *)
(* any channel capacities.                                                 *)
(***************************************************************************)
EXTENDS Hub, SequenceTheorems, TLAPS

----------------------------------------------------------------------------
(* Taking a message from a channel leaves a channel. *)
LEMMA HeadTail ==
  ASSUME NEW S, NEW q \in Seq(S), q # <<>>
  PROVE  Head(q) \in S /\ Tail(q) \in Seq(S)
OBVIOUS

(* The maps keep their types when a presence is recorded. *)
LEMMA SetPresenceType ==
  ASSUME rooms \in [Rooms -> SUBSET Users], roomIDs \in [Sessions -> SUBSET Rooms],
         NEW u \in Users, NEW t \in Sessions, NEW r \in Rooms, NEW p \in BOOLEAN,
         SetPresence(u, t, r, p)
  PROVE  rooms' \in [Rooms -> SUBSET Users] /\ roomIDs' \in [Sessions -> SUBSET Rooms]
BY DEF SetPresence

(* Type correctness: in every state of the hub the variables have their    *)
(* types, and a ReadPump that posts a message or updates a presence holds  *)
(* one.                                                                    *)
THEOREM TypeCorrect == Spec => []TypeOK
<1> USE HubAssumption
<1>1. Init => TypeOK
  <2> SUFFICES ASSUME Init PROVE TypeOK
    OBVIOUS
  <2>1. /\ clients \in [Users -> Sessions \cup {NoSession}]
        /\ rooms \in [Rooms -> SUBSET Users]
        /\ broadcast \in Seq(Msg)
        /\ roomIDs \in [Sessions -> SUBSET Rooms]
    BY DEF Init
  <2>2. /\ send \in [Sessions -> Seq(Msg)]
        /\ wire \in [Sessions -> Seq(Msg)]
        /\ job \in [Sessions -> ChatMsg \cup Presence \cup {NoJob}]
    BY DEF Init
  <2>3. /\ reader \in [Sessions -> ReaderStates]
        /\ \A s \in Sessions : reader[s] = "off"
    BY DEF Init, ReaderStates
  <2>4. QED
    BY <2>1, <2>2, <2>3 DEF Init, TypeOK, Panics
<1>2. TypeOK /\ [Next]_vars => TypeOK'
  <2> SUFFICES ASSUME TypeOK, [Next]_vars PROVE TypeOK'
    OBVIOUS
  <2> USE DEF TypeOK, ReaderStates, Panics, hubVars, sessionVars, dbVars, ghostVars
  <2>1. ASSUME NEW s \in Sessions, RegisterClient(s) PROVE TypeOK'
    BY <2>1 DEF RegisterClient
  <2>2. ASSUME NEW s \in Sessions, UnregisterClient(s) PROVE TypeOK'
    <3>1. CASE closed[s]
      BY <2>2, <3>1 DEF UnregisterClient
    <3>2. CASE ~closed[s]
      <4>1. rooms' \in [Rooms -> SUBSET Users]
        <5>1. rooms' = [r \in Rooms |-> IF r \in roomIDs[s]
                                        THEN rooms[r] \ {UserOf[s]} ELSE rooms[r]]
          BY <2>2, <3>2 DEF UnregisterClient
        <5>2. QED
          BY <5>1
      <4>2. /\ clients' = [clients EXCEPT ![UserOf[s]] = NoSession]
            /\ closed' = [closed EXCEPT ![s] = TRUE]
            /\ reader' = [reader EXCEPT ![s] = "done"]
        BY <2>2, <3>2 DEF UnregisterClient
      <4>3. /\ clients' \in [Users -> Sessions \cup {NoSession}]
            /\ closed' \in [Sessions -> BOOLEAN]
        BY <4>2
      <4>4. QED
        BY <2>2, <3>2, <4>1, <4>2, <4>3 DEF UnregisterClient
    <3>3. QED
      BY <3>1, <3>2
  <2>3. ASSUME NEW u \in Users, NEW r \in Rooms, NEW p \in BOOLEAN,
               UpdateUserPresenceInRoom(u, r, p)
        PROVE  TypeOK'
    <3>1. clients[u] \in Sessions
      BY <2>3 DEF UpdateUserPresenceInRoom
    <3>2. rooms' \in [Rooms -> SUBSET Users] /\ roomIDs' \in [Sessions -> SUBSET Rooms]
      BY <2>3, <3>1, SetPresenceType DEF UpdateUserPresenceInRoom
    <3>3. QED
      BY <2>3, <3>2 DEF UpdateUserPresenceInRoom
  <2>4. CASE BroadcastMessage
    <3> DEFINE m    == Head(broadcast)
               to   == {clients[u] : u \in Targets(m)}
               full == {s \in to \cap Sessions : Len(send[s]) >= SendCap}
    <3>1. m \in Msg /\ Tail(broadcast) \in Seq(Msg)
      BY <2>4, HeadTail DEF BroadcastMessage
    <3>2. panic' \in Panics
      BY <2>4 DEF BroadcastMessage, RoutingPanic
    <3>3. CASE panic' = "none"
      <4>1. /\ send' = [s \in Sessions |-> IF s \in to \ full
                                           THEN Append(send[s], m) ELSE send[s]]
            /\ KickClient(full)
            /\ broadcast' = Tail(broadcast)
        BY <2>4, <3>3 DEF BroadcastMessage
      <4>2. send' \in [Sessions -> Seq(Msg)]
        BY <3>1, <4>1
      <4>3. /\ closed' \in [Sessions -> BOOLEAN]
            /\ clients' \in [Users -> Sessions \cup {NoSession}]
            /\ rooms' \in [Rooms -> SUBSET Users]
        BY <4>1 DEF KickClient
      <4>4. QED
        BY <2>4, <3>1, <3>2, <4>1, <4>2, <4>3 DEF BroadcastMessage
    <3>4. CASE panic' # "none"
      BY <2>4, <3>2, <3>4 DEF BroadcastMessage
    <3>5. QED
      BY <3>3, <3>4
  <2>5. ASSUME NEW s \in Sessions, NEW R \in SUBSET Rooms, Upgrade(s, R) PROVE TypeOK'
    BY <2>5 DEF Upgrade
  <2>6. ASSUME NEW s \in Sessions, NEW r \in Rooms, DispatchRoomMessage(s, r)
        PROVE  TypeOK'
    BY <2>6 DEF DispatchRoomMessage, Persist, ChatMsg, RoomMsg
  <2>7. ASSUME NEW s \in Sessions, NEW u \in Users, DispatchDirectMessage(s, u)
        PROVE  TypeOK'
    BY <2>7 DEF DispatchDirectMessage, Persist, ChatMsg, DirectMsg
  <2>8. ASSUME NEW s \in Sessions, PostBroadcast(s) PROVE TypeOK'
    BY <2>8 DEF PostBroadcast, Msg
  <2>9. ASSUME NEW s \in Sessions, NEW r \in Rooms, NEW p \in BOOLEAN,
               DispatchUserRoomUpdate(s, r, p)
        PROVE  TypeOK'
    BY <2>9 DEF DispatchUserRoomUpdate, Presence
  <2>10. ASSUME NEW s \in Sessions, ApplyPresence(s) PROVE TypeOK'
    <3>1. /\ job[s] \in Presence
          /\ UserOf[s] \in Users
      BY <2>10 DEF ApplyPresence
    <3>2. /\ job[s].target \in Sessions
          /\ job[s].room \in Rooms
          /\ job[s].present \in BOOLEAN
      BY <3>1 DEF Presence
    <3>3. rooms' \in [Rooms -> SUBSET Users] /\ roomIDs' \in [Sessions -> SUBSET Rooms]
      BY <2>10, <3>1, <3>2, SetPresenceType DEF ApplyPresence
    <3>4. QED
      BY <2>10, <3>3 DEF ApplyPresence
  <2>11. ASSUME NEW s \in Sessions, MapRace(s) PROVE TypeOK'
    BY <2>11 DEF MapRace
  <2>12. ASSUME NEW s \in Sessions, ReadError(s) PROVE TypeOK'
    BY <2>12 DEF ReadError
  <2>13. ASSUME NEW s \in Sessions, WriteMessage(s) PROVE TypeOK'
    <3>1. Head(send[s]) \in Msg /\ Tail(send[s]) \in Seq(Msg)
      BY <2>13, HeadTail DEF WriteMessage
    <3>2. send' \in [Sessions -> Seq(Msg)]
      <4>1. send' = [send EXCEPT ![s] = Tail(send[s])]
        BY <2>13 DEF WriteMessage
      <4>2. QED
        BY <3>1, <4>1
    <3>3. wire' \in [Sessions -> Seq(Msg)]
      <4>1. \/ wire' = [wire EXCEPT ![s] = Append(wire[s], Head(send[s]))]
            \/ wire' = wire
        BY <2>13 DEF WriteMessage
      <4>2. Append(wire[s], Head(send[s])) \in Seq(Msg)
        BY <3>1
      <4>3. QED
        BY <4>1, <4>2
    <3>4. writer' \in [Sessions -> {"off", "running", "done"}]
      BY <2>13 DEF WriteMessage
    <3>5. QED
      BY <2>13, <3>2, <3>3, <3>4 DEF WriteMessage
  <2>14. ASSUME NEW s \in Sessions, WriteClosed(s) PROVE TypeOK'
    BY <2>14 DEF WriteClosed
  <2>15. ASSUME NEW s \in Sessions, ConnLost(s) PROVE TypeOK'
    BY <2>15 DEF ConnLost
  <2>16. ASSUME NEW u \in Users, HandleInboxEntryUpdated(u) PROVE TypeOK'
    BY <2>16 DEF HandleInboxEntryUpdated, Msg, InboxMsg
  <2>17. CASE UNCHANGED vars
    BY <2>17 DEF vars
  <2>18. QED
    BY <2>1, <2>2, <2>3, <2>4, <2>5, <2>6, <2>7, <2>8, <2>9, <2>10, <2>11, <2>12,
       <2>13, <2>14, <2>15, <2>16, <2>17
       DEF Next, HubStep, ReadPump, WritePump, Environment
<1>3. QED
  BY <1>1, <1>2, PTL DEF Spec

----------------------------------------------------------------------------
(***************************************************************************)
(* Most steps touch neither the maps nor the channels' state.  A quiet step*)
(* may move a ReadPump within the states in which its session counts as    *)
(* fresh, registered or done, and may end the process by a map race.       *)
(***************************************************************************)
Fresh(s) == reader[s] \in {"off", "registering"}

Quiet ==
  /\ UNCHANGED <<clients, rooms, roomIDs, closed, ghostVars>>
  /\ \A s \in Sessions : /\ Registered(s)' <=> Registered(s)
                         /\ Fresh(s)' <=> Fresh(s)
                         /\ reader'[s] = "done" <=> reader[s] = "done"
  /\ panic' = panic \/ panic' = "map_race"

(* Every step of the hub is one of six that move the maps, or quiet. *)
LEMMA Steps ==
  ASSUME TypeOK, [Next]_vars
  PROVE  \/ \E s \in Sessions : RegisterClient(s) \/ UnregisterClient(s)
         \/ \E u \in Users, r \in Rooms, p \in BOOLEAN : UpdateUserPresenceInRoom(u, r, p)
         \/ BroadcastMessage
         \/ \E s \in Sessions, R \in SUBSET Rooms : Upgrade(s, R)
         \/ \E s \in Sessions : ApplyPresence(s)
         \/ Quiet
<1> USE DEF TypeOK, hubVars, sessionVars, dbVars, ghostVars, Quiet, Registered, Fresh
<1>1. ASSUME NEW s \in Sessions, NEW r \in Rooms, DispatchRoomMessage(s, r) PROVE Quiet
  BY <1>1 DEF DispatchRoomMessage, Persist
<1>2. ASSUME NEW s \in Sessions, NEW u \in Users, DispatchDirectMessage(s, u) PROVE Quiet
  BY <1>2 DEF DispatchDirectMessage, Persist
<1>3. ASSUME NEW s \in Sessions, NEW r \in Rooms, NEW p \in BOOLEAN,
             DispatchUserRoomUpdate(s, r, p)
      PROVE  Quiet
  BY <1>3 DEF DispatchUserRoomUpdate
<1>4. ASSUME NEW s \in Sessions, PostBroadcast(s) PROVE Quiet
  BY <1>4 DEF PostBroadcast
<1>5. ASSUME NEW s \in Sessions, MapRace(s) PROVE Quiet
  BY <1>5 DEF MapRace
<1>6. ASSUME NEW s \in Sessions, ReadError(s) PROVE Quiet
  BY <1>6 DEF ReadError
<1>7. ASSUME NEW s \in Sessions, WritePump(s) PROVE Quiet
  BY <1>7 DEF WritePump, WriteMessage, WriteClosed
<1>8. ASSUME NEW s \in Sessions, ConnLost(s) PROVE Quiet
  BY <1>8 DEF ConnLost
<1>9. ASSUME NEW u \in Users, HandleInboxEntryUpdated(u) PROVE Quiet
  BY <1>9 DEF HandleInboxEntryUpdated
<1>10. CASE UNCHANGED vars
  BY <1>10 DEF vars
<1>11. QED
  BY <1>1, <1>2, <1>3, <1>4, <1>5, <1>6, <1>7, <1>8, <1>9, <1>10
     DEF Next, HubStep, ReadPump, Environment

(* Messages are routed to users only. *)
LEMMA TargetsAreUsers ==
  ASSUME TypeOK, NEW m \in Msg
  PROVE  Targets(m) \subseteq Users
<1>1. CASE m.kind = "room"
  <2>1. m.room \in Rooms
    BY <1>1 DEF Msg, ChatMsg, RoomMsg, DirectMsg, InboxMsg
  <2>2. QED
    BY <1>1, <2>1 DEF Targets, TypeOK
<1>2. CASE m.kind = "direct"
  <2>1. m.from \in Sessions /\ m.to \in Users
    BY <1>2 DEF Msg, ChatMsg, RoomMsg, DirectMsg, InboxMsg
  <2>2. QED
    BY <1>2, <2>1, HubAssumption DEF Targets
<1>3. CASE m.kind \notin {"room", "direct"}
  <2>1. m.to \in Users
    BY <1>3 DEF Msg, ChatMsg, RoomMsg, DirectMsg, InboxMsg
  <2>2. QED
    BY <1>3, <2>1 DEF Targets
<1>4. QED
  BY <1>1, <1>2, <1>3

(* What broadcastMessage does to the maps when nothing panics. *)
LEMMA BroadcastEffect ==
  ASSUME TypeOK, BroadcastMessage
  PROVE  \/ /\ panic' \in {"nil_client", "send_closed"}
            /\ UNCHANGED <<hubVars, closed>>
         \/ /\ panic' = "none"
            /\ \E full \in SUBSET Sessions :
                  /\ \A s \in full : \E u \in Users : clients[u] = s
                  /\ KickClient(full)
<1> DEFINE m    == Head(broadcast)
           to   == {clients[u] : u \in Targets(m)}
           full == {s \in to \cap Sessions : Len(send[s]) >= SendCap}
<1>1. m \in Msg
  BY HeadTail DEF BroadcastMessage, TypeOK
<1>2. Targets(m) \subseteq Users
  BY <1>1, TargetsAreUsers
<1>3. \A s \in full : \E u \in Users : clients[u] = s
  BY <1>2
<1>4. full \in SUBSET Sessions
  OBVIOUS
<1>5. panic' \in {"none", "nil_client", "send_closed"}
  BY DEF BroadcastMessage, RoutingPanic
<1>6. CASE panic' = "none"
  <2>1. KickClient(full)
    BY <1>6 DEF BroadcastMessage
  <2>2. QED
    BY <1>3, <1>4, <1>6, <2>1
<1>7. CASE panic' # "none"
  BY <1>5, <1>7 DEF BroadcastMessage, hubVars
<1>8. QED
  BY <1>6, <1>7

----------------------------------------------------------------------------
(* A session that has not been registered yet has an open channel.  It is  *)
(* what OpenClients needs in order to be inductive: registerClient makes   *)
(* such a session a client.                                                *)
FreshOpen == \A s \in Sessions : Fresh(s) => ~closed[s]

OpenInv == FreshOpen /\ OpenClients

(* Every step preserves OpenInv. *)
LEMMA OpenInvStep ==
  ASSUME TypeOK, OpenInv, [Next]_vars
  PROVE  OpenInv'
<1> USE HubAssumption DEF OpenInv, FreshOpen, OpenClients, Fresh, Registered, TypeOK
<1>1. ASSUME NEW s \in Sessions, RegisterClient(s) PROVE OpenInv'
  BY <1>1 DEF RegisterClient
<1>2. ASSUME NEW s \in Sessions, UnregisterClient(s) PROVE OpenInv'
  <2>1. CASE closed[s]
    BY <1>2, <2>1 DEF UnregisterClient, hubVars
  <2>2. CASE ~closed[s]
    <3>1. /\ clients' = [clients EXCEPT ![UserOf[s]] = NoSession]
          /\ closed' = [closed EXCEPT ![s] = TRUE]
          /\ reader' = [reader EXCEPT ![s] = "done"]
      BY <1>2, <2>2 DEF UnregisterClient
    <3>2. QED
      BY <3>1
  <2>3. QED
    BY <2>1, <2>2
<1>3. ASSUME NEW u \in Users, NEW r \in Rooms, NEW p \in BOOLEAN,
             UpdateUserPresenceInRoom(u, r, p)
      PROVE  OpenInv'
  BY <1>3 DEF UpdateUserPresenceInRoom
<1>4. CASE BroadcastMessage
  <2>1. reader' = reader
    BY <1>4 DEF BroadcastMessage
  <2>2. CASE UNCHANGED <<hubVars, closed>>
    BY <2>1, <2>2 DEF hubVars
  <2>3. ASSUME NEW full \in SUBSET Sessions,
               \A s \in full : \E u \in Users : clients[u] = s,
               KickClient(full)
        PROVE  OpenInv'
    <3>1. FreshOpen'
      <4> SUFFICES ASSUME NEW t \in Sessions, Fresh(t)' PROVE ~closed'[t]
        BY DEF FreshOpen
      <4>1. Fresh(t) /\ ~Registered(t)
        BY <2>1
      <4>2. t \notin full
        BY <2>3, <4>1
      <4>3. QED
        BY <2>3, <4>1, <4>2 DEF KickClient
    <3>2. OpenClients'
      <4> SUFFICES ASSUME NEW v \in Users, clients'[v] # NoSession
                   PROVE  /\ UserOf[clients'[v]] = v
                          /\ ~closed'[clients'[v]]
                          /\ reader'[clients'[v]] \in
                               {"reading", "posting", "presence", "unregistering"}
        BY DEF OpenClients
      <4>1. clients'[v] = clients[v] /\ clients[v] \notin full /\ clients[v] \in Sessions
        BY <2>3 DEF KickClient
      <4>2. closed'[clients[v]] = closed[clients[v]]
        BY <2>3, <4>1 DEF KickClient
      <4>3. QED
        BY <2>1, <4>1, <4>2
    <3>3. QED
      BY <3>1, <3>2
  <2>4. QED
    BY <1>4, <2>2, <2>3, BroadcastEffect
<1>5. ASSUME NEW s \in Sessions, NEW R \in SUBSET Rooms, Upgrade(s, R) PROVE OpenInv'
  BY <1>5 DEF Upgrade, hubVars
<1>6. ASSUME NEW s \in Sessions, ApplyPresence(s) PROVE OpenInv'
  BY <1>6 DEF ApplyPresence
<1>7. CASE Quiet
  BY <1>7 DEF Quiet
<1> HIDE DEF OpenInv, TypeOK
<1>8. QED
  BY <1>1, <1>2, <1>3, <1>4, <1>5, <1>6, <1>7, Steps

(* The hub never routes to a session whose channel it has closed, nor to   *)
(* one of another user.                                                    *)
THEOREM OpenClientsAlways == Spec => []OpenClients
<1>1. Init => OpenInv
  BY DEF Init, OpenInv, FreshOpen, OpenClients, TypeOK
<1>2. TypeOK /\ OpenInv /\ [Next]_vars => OpenInv'
  BY OpenInvStep
<1>3. OpenInv => OpenClients
  BY DEF OpenInv
<1>4. QED
  BY <1>1, <1>2, <1>3, TypeCorrect, PTL DEF Spec

----------------------------------------------------------------------------
(* A presence update applied to the client the hub holds for the user      *)
(* keeps rooms and roomIDs in agreement.                                   *)
LEMMA PresenceKeepsMatch ==
  ASSUME TypeOK, OpenClients, RoomsMatchClients, ~overlapped, ~stale,
         NEW u \in Users, NEW r \in Rooms, NEW p \in BOOLEAN,
         clients[u] # NoSession,
         SetPresence(u, clients[u], r, p), clients' = clients
  PROVE  RoomsMatchClients'
<1>1. clients[u] \in Sessions
  BY DEF TypeOK
<1>2. \A v \in Users : v # u /\ clients[v] # NoSession => clients[v] # clients[u]
  BY DEF OpenClients
<1>3. SUFFICES ASSUME NEW q \in Rooms, NEW v \in Users
               PROVE  v \in rooms'[q] <=> /\ clients[v] # NoSession
                                          /\ q \in roomIDs'[clients[v]]
  BY DEF RoomsMatchClients
<1>4. v \in rooms[q] <=> clients[v] # NoSession /\ q \in roomIDs[clients[v]]
  BY DEF RoomsMatchClients
<1>5. clients[v] # NoSession => clients[v] \in Sessions
  BY DEF TypeOK
<1>6. \/ /\ p
         /\ rooms' = [rooms EXCEPT ![r] = rooms[r] \cup {u}]
         /\ roomIDs' = [roomIDs EXCEPT ![clients[u]] = roomIDs[clients[u]] \cup {r}]
      \/ /\ ~p
         /\ rooms' = [rooms EXCEPT ![r] = rooms[r] \ {u}]
         /\ roomIDs' = [roomIDs EXCEPT ![clients[u]] = roomIDs[clients[u]] \ {r}]
  BY DEF SetPresence
<1>7. rooms \in [Rooms -> SUBSET Users] /\ roomIDs \in [Sessions -> SUBSET Rooms]
  BY DEF TypeOK
<1>8. CASE v = u
  BY <1>1, <1>4, <1>6, <1>7, <1>8
<1>9. CASE v # u
  <2>1. v \in rooms'[q] <=> v \in rooms[q]
    BY <1>6, <1>7, <1>9
  <2>2. clients[v] # NoSession => roomIDs'[clients[v]] = roomIDs[clients[v]]
    BY <1>1, <1>2, <1>5, <1>6, <1>7, <1>9
  <2>3. QED
    BY <1>4, <2>1, <2>2
<1>10. QED
  BY <1>8, <1>9

RouteInv == SessionRouted /\ RoomsMatchClients

(* Every step preserves RouteInv. *)
LEMMA RouteInvStep ==
  ASSUME TypeOK, OpenInv, RouteInv, [Next]_vars
  PROVE  RouteInv'
<1> USE HubAssumption
<1> USE DEF RouteInv, SessionRouted, OpenInv, OpenClients, Registered, TypeOK
<1>1. ASSUME NEW s \in Sessions, RegisterClient(s) PROVE RouteInv'
  <2> DEFINE u == UserOf[s]
  <2>1. /\ rooms' = [r \in Rooms |-> IF r \in roomIDs[s] THEN rooms[r] \cup {u}
                                                        ELSE rooms[r]]
        /\ clients' = [clients EXCEPT ![u] = s]
        /\ overlapped' = (overlapped \/ clients[u] # NoSession)
        /\ reader' = [reader EXCEPT ![s] = "reading"]
        /\ UNCHANGED <<roomIDs, closed, stale>>
    BY <1>1 DEF RegisterClient
  <2>2. u \in Users
    OBVIOUS
  <2>3. SessionRouted'
    <3> SUFFICES ASSUME ~overlapped', NEW t \in Sessions,
                        Registered(t)', ~closed'[t]
                 PROVE  clients'[UserOf[t]] = t
      BY DEF SessionRouted
    <3>1. clients[u] = NoSession /\ ~overlapped
      BY <2>1
    <3>2. CASE t = s
      BY <2>1, <2>2, <3>2
    <3>3. CASE t # s
      <4>1. clients[UserOf[t]] = t
        BY <2>1, <3>1, <3>3
      <4>2. UserOf[t] # u
        BY <3>1, <4>1
      <4>3. QED
        BY <2>1, <4>1, <4>2
    <3>4. QED
      BY <3>2, <3>3
  <2>4. RoomsMatchClients'
    <3> SUFFICES ASSUME ~overlapped', ~stale', NEW q \in Rooms, NEW v \in Users
                 PROVE  v \in rooms'[q] <=> /\ clients'[v] # NoSession
                                            /\ q \in roomIDs'[clients'[v]]
      BY DEF RoomsMatchClients
    <3>1. clients[u] = NoSession /\ ~overlapped /\ ~stale
      BY <2>1
    <3>2. v \in rooms[q] <=> clients[v] # NoSession /\ q \in roomIDs[clients[v]]
      BY <3>1 DEF RoomsMatchClients
    <3>3. CASE v = u
      <4>1. v \in rooms'[q] <=> q \in roomIDs[s]
        BY <2>1, <3>1, <3>2, <3>3
      <4>2. clients'[v] = s
        BY <2>1, <3>3
      <4>3. QED
        BY <2>1, <4>1, <4>2
    <3>4. CASE v # u
      <4>1. v \in rooms'[q] <=> v \in rooms[q]
        BY <2>1, <3>4
      <4>2. clients'[v] = clients[v]
        BY <2>1, <3>4
      <4>3. QED
        BY <2>1, <3>2, <4>1, <4>2
    <3>5. QED
      BY <3>3, <3>4
  <2>5. QED
    BY <2>3, <2>4
<1>2. ASSUME NEW s \in Sessions, UnregisterClient(s) PROVE RouteInv'
  <2> DEFINE u == UserOf[s]
  <2>1. CASE closed[s]
    BY <1>2, <2>1 DEF UnregisterClient, hubVars, ghostVars, RoomsMatchClients
  <2>2. CASE ~closed[s]
    <3>1. /\ rooms' = [r \in Rooms |-> IF r \in roomIDs[s] THEN rooms[r] \ {u}
                                                          ELSE rooms[r]]
          /\ clients' = [clients EXCEPT ![u] = NoSession]
          /\ closed' = [closed EXCEPT ![s] = TRUE]
          /\ reader' = [reader EXCEPT ![s] = "done"]
          /\ UNCHANGED <<roomIDs, overlapped, stale>>
      BY <1>2, <2>2 DEF UnregisterClient, ghostVars
    <3>2. u \in Users
      OBVIOUS
    <3>3. reader[s] = "unregistering"
      BY <1>2 DEF UnregisterClient
    <3>4. ~overlapped => clients[u] = s
      BY <2>2, <3>3
    <3>5. SessionRouted'
      BY <3>1, <3>2, <3>4
    <3>6. RoomsMatchClients'
      BY <3>1, <3>2, <3>4 DEF RoomsMatchClients
    <3>7. QED
      BY <3>5, <3>6
  <2>3. QED
    BY <2>1, <2>2
<1>3. ASSUME NEW u \in Users, NEW r \in Rooms, NEW p \in BOOLEAN,
             UpdateUserPresenceInRoom(u, r, p)
      PROVE  RouteInv'
  <2>1. UNCHANGED <<clients, closed, reader, overlapped, stale>>
    BY <1>3 DEF UpdateUserPresenceInRoom, ghostVars
  <2>2. SessionRouted'
    BY <2>1
  <2>3. RoomsMatchClients'
    BY <1>3, <2>1, PresenceKeepsMatch
       DEF UpdateUserPresenceInRoom, RoomsMatchClients
  <2>4. QED
    BY <2>2, <2>3
<1>4. CASE BroadcastMessage
  <2>1. UNCHANGED <<reader, roomIDs, overlapped, stale>>
    BY <1>4 DEF BroadcastMessage, ghostVars
  <2>2. CASE UNCHANGED <<hubVars, closed>>
    BY <2>1, <2>2 DEF hubVars, RoomsMatchClients
  <2>3. ASSUME NEW full \in SUBSET Sessions,
               \A s \in full : \E u \in Users : clients[u] = s,
               KickClient(full)
        PROVE  RouteInv'
    <3>1. SessionRouted'
      <4> SUFFICES ASSUME ~overlapped', NEW t \in Sessions,
                          Registered(t)', ~closed'[t]
                   PROVE  clients'[UserOf[t]] = t
        BY DEF SessionRouted
      <4>1. ~closed[t] /\ t \notin full
        BY <2>3 DEF KickClient
      <4>2. clients[UserOf[t]] = t
        BY <2>1, <4>1
      <4>3. QED
        BY <2>3, <4>1, <4>2 DEF KickClient
    <3>2. RoomsMatchClients'
      BY <2>1, <2>3 DEF KickClient, RoomsMatchClients
    <3>3. QED
      BY <3>1, <3>2
  <2>4. QED
    BY <1>4, <2>2, <2>3, BroadcastEffect
<1>5. ASSUME NEW s \in Sessions, NEW R \in SUBSET Rooms, Upgrade(s, R) PROVE RouteInv'
  <2>1. /\ reader[s] = "off"
        /\ roomIDs' = [roomIDs EXCEPT ![s] = R]
        /\ reader' = [reader EXCEPT ![s] = "registering"]
        /\ UNCHANGED <<clients, rooms, closed, overlapped, stale>>
    BY <1>5 DEF Upgrade, hubVars, ghostVars
  <2>2. SessionRouted'
    BY <2>1
  <2>3. \A v \in Users : clients[v] # s
    <3>1. ~Registered(s) /\ s # NoSession
      BY <2>1
    <3>2. QED
      BY <3>1
  <2>4. RoomsMatchClients'
    BY <2>1, <2>3 DEF RoomsMatchClients
  <2>5. QED
    BY <2>2, <2>4
<1>6. ASSUME NEW s \in Sessions, ApplyPresence(s) PROVE RouteInv'
  <2>1. /\ reader[s] = "presence"
        /\ reader' = [reader EXCEPT ![s] = "reading"]
        /\ stale' = (stale \/ clients[UserOf[s]] # job[s].target)
        /\ UNCHANGED <<clients, closed, overlapped>>
    BY <1>6 DEF ApplyPresence
  <2>2. SessionRouted'
    BY <2>1
  <2>3. job[s].target \in Sessions /\ job[s].room \in Rooms /\ job[s].present \in BOOLEAN
    BY <2>1 DEF Presence
  <2>4. RoomsMatchClients'
    <3> DEFINE u == UserOf[s]
    <3>1. CASE overlapped' \/ stale'
      BY <3>1 DEF RoomsMatchClients
    <3>2. CASE ~overlapped' /\ ~stale'
      <4>1. ~overlapped /\ ~stale /\ clients[u] = job[s].target
        BY <2>1, <3>2
      <4>2. u \in Users /\ clients[u] # NoSession
        BY <2>3, <4>1
      <4>3. SetPresence(u, clients[u], job[s].room, job[s].present)
        BY <1>6, <4>1 DEF ApplyPresence
      <4>4. TypeOK /\ OpenClients /\ RoomsMatchClients /\ clients' = clients
        BY <2>1
      <4> HIDE DEF TypeOK, OpenClients, u
      <4>5. QED
        BY <2>3, <4>1, <4>2, <4>3, <4>4, PresenceKeepsMatch
    <3>3. QED
      BY <3>1, <3>2
  <2>5. QED
    BY <2>2, <2>4
<1>7. CASE Quiet
  BY <1>7 DEF Quiet, ghostVars, RoomsMatchClients
<1>8. QED
  BY <1>1, <1>2, <1>3, <1>4, <1>5, <1>6, <1>7, Steps

(* OpenInv and RouteInv hold in every state. *)
LEMMA InductiveInv == Spec => [](OpenInv /\ RouteInv)
<1>1. Init => OpenInv /\ RouteInv
  BY DEF Init, OpenInv, FreshOpen, OpenClients, RouteInv, SessionRouted,
         RoomsMatchClients, Registered
<1>2. TypeOK /\ OpenInv /\ RouteInv /\ [Next]_vars => (OpenInv /\ RouteInv)'
  BY OpenInvStep, RouteInvStep
<1>3. QED
  BY <1>1, <1>2, TypeCorrect, PTL DEF Spec

(* As long as no session is registered over another one of its user, every *)
(* session that is registered and was not kicked is the one its user's     *)
(* messages go to.                                                         *)
THEOREM SessionRoutedAlways == Spec => []SessionRouted
<1>1. RouteInv => SessionRouted
  BY DEF RouteInv
<1>2. QED
  BY <1>1, InductiveInv, PTL

(* As long as, further, no presence update comes too late, the hub's rooms *)
(* are exactly what its clients' roomIDs say.                              *)
THEOREM RoomsMatchClientsAlways == Spec => []RoomsMatchClients
<1>1. RouteInv => RoomsMatchClients
  BY DEF RouteInv
<1>2. QED
  BY <1>1, InductiveInv, PTL

----------------------------------------------------------------------------
(* Every step preserves PanicCause, because of OpenInv and RouteInv. *)
LEMMA PanicCauseStep ==
  ASSUME TypeOK, OpenInv, RouteInv, PanicCause, [Next]_vars
  PROVE  PanicCause'
<1> USE DEF PanicCause, Kicked
<1>1. ASSUME NEW s \in Sessions, RegisterClient(s) PROVE PanicCause'
  BY <1>1 DEF RegisterClient
<1>2. ASSUME NEW s \in Sessions, UnregisterClient(s) PROVE PanicCause'
  BY <1>2 DEF UnregisterClient
<1>3. ASSUME NEW u \in Users, NEW r \in Rooms, NEW p \in BOOLEAN,
             UpdateUserPresenceInRoom(u, r, p)
      PROVE  PanicCause'
  BY <1>3 DEF UpdateUserPresenceInRoom
<1>4. CASE BroadcastMessage
  <2> DEFINE m == Head(broadcast)
  <2>1. m \in Msg /\ Targets(m) \subseteq Users
    BY <1>4, TargetsAreUsers, HeadTail DEF BroadcastMessage, TypeOK
  <2>2. panic' = RoutingPanic(m) /\ UNCHANGED <<overlapped, stale>>
    BY <1>4 DEF BroadcastMessage, ghostVars
  <2>3. ASSUME NEW u \in Targets(m), clients[u] = NoSession
        PROVE  overlapped \/ stale
    <3>1. m.kind = "room" /\ m.room \in Rooms /\ u \in rooms[m.room]
      BY <2>1, <2>3 DEF Targets, Msg, ChatMsg, RoomMsg, DirectMsg, InboxMsg
    <3>2. QED
      BY <2>1, <2>3, <3>1 DEF RouteInv, RoomsMatchClients
  <2>4. ASSUME NEW u \in Targets(m), clients[u] # NoSession
        PROVE  ~closed[clients[u]]
    BY <2>1, <2>4 DEF OpenInv, OpenClients
  <2>5. QED
    BY <2>2, <2>3, <2>4 DEF RoutingPanic
<1>5. ASSUME NEW s \in Sessions, NEW R \in SUBSET Rooms, Upgrade(s, R) PROVE PanicCause'
  BY <1>5 DEF Upgrade
<1>6. ASSUME NEW s \in Sessions, ApplyPresence(s) PROVE PanicCause'
  BY <1>6 DEF ApplyPresence
<1>7. CASE Quiet
  BY <1>7 DEF Quiet, ghostVars
<1>8. QED
  BY <1>1, <1>2, <1>3, <1>4, <1>5, <1>6, <1>7, Steps

(* The hub dereferences a missing client only after two sessions of a user *)
(* overlapped or a presence update came too late, closes a channel twice   *)
(* only for a kicked session, and never sends on a closed channel.         *)
THEOREM PanicCauseAlways == Spec => []PanicCause
<1>1. Init => PanicCause
  BY DEF Init, PanicCause
<1>2. TypeOK /\ OpenInv /\ RouteInv /\ PanicCause /\ [Next]_vars => PanicCause'
  BY PanicCauseStep
<1>3. QED
  BY <1>1, <1>2, TypeCorrect, InductiveInv, PTL DEF Spec

----------------------------------------------------------------------------
(* The order of messages.  A message on its way to a session stands in one *)
(* line: what the connection carried, then what WritePump has yet to       *)
(* write, then what the hub has yet to route.  A step of the system        *)
(* removes some messages from the lines (routed to others, the session     *)
(* kicked, the connection lost), or appends one message to all of them.    *)
Line(s) == Feed(s) \o broadcast

(* p is q without some of its elements. *)
Thinned(p, q) ==
  \E f \in [1..Len(p) -> 1..Len(q)] :
     /\ \A i \in 1..Len(p) : p[i] = q[f[i]]
     /\ \A i, j \in 1..Len(p) : i < j => f[i] < f[j]

(* p is q with m behind. *)
Extended(p, q, m) ==
  /\ Len(p) = Len(q) + 1
  /\ p[Len(p)] = m
  /\ \A i \in 1..Len(q) : p[i] = q[i]

----------------------------------------------------------------------------
(* Three sequences in a line, and what the steps do to such a line *)

(* A session's line is its wire, its channel and the hub's queue. *)
LEMMA LineIsSeq ==
  ASSUME TypeOK, NEW s \in Sessions
  PROVE  Feed(s) \in Seq(Msg) /\ Line(s) \in Seq(Msg)
BY DEF TypeOK, Feed, Line

(* A sequence is itself without no element. *)
LEMMA SameIsThinned ==
  ASSUME NEW S, NEW q \in Seq(S)
  PROVE  Thinned(q, q)
<1> DEFINE f == [i \in 1..Len(q) |-> i]
<1>1. /\ f \in [1..Len(q) -> 1..Len(q)]
      /\ \A i \in 1..Len(q) : q[i] = q[f[i]]
      /\ \A i, j \in 1..Len(q) : i < j => f[i] < f[j]
  OBVIOUS
<1>2. QED
  BY <1>1 DEF Thinned

(* The first element of the middle or of the last of three sequences goes. *)
LEMMA TailIsThinned ==
  ASSUME NEW S, NEW a \in Seq(S), NEW b \in Seq(S), NEW c \in Seq(S), b # <<>>
  PROVE  Thinned((a \o Tail(b)) \o c, (a \o b) \o c)
<1> DEFINE p == (a \o Tail(b)) \o c
           q == (a \o b) \o c
           f == [i \in 1..Len(p) |-> IF i <= Len(a) THEN i ELSE i + 1]
<1>1. /\ Len(b) \in Nat \ {0} /\ Len(a) \in Nat /\ Len(c) \in Nat
      /\ Tail(b) \in Seq(S) /\ Len(Tail(b)) = Len(b) - 1
      /\ \A i \in 1..Len(b) - 1 : Tail(b)[i] = b[i + 1]
  OBVIOUS
<1>2. /\ Len(p) = Len(a) + (Len(b) - 1) + Len(c)
      /\ Len(q) = Len(a) + Len(b) + Len(c)
  BY <1>1
<1>3. f \in [1..Len(p) -> 1..Len(q)]
  BY <1>1, <1>2
<1>4. ASSUME NEW i \in 1..Len(p) PROVE p[i] = q[f[i]]
  <2>1. CASE i <= Len(a)
    BY <1>1, <1>2, <2>1
  <2>2. CASE i > Len(a) /\ i <= Len(a) + (Len(b) - 1)
    <3>1. p[i] = (a \o Tail(b))[i] /\ (a \o Tail(b))[i] = Tail(b)[i - Len(a)]
      BY <1>1, <1>2, <2>2
    <3>2. Tail(b)[i - Len(a)] = b[i - Len(a) + 1]
      BY <1>1, <1>2, <2>2
    <3>3. q[i + 1] = (a \o b)[i + 1] /\ (a \o b)[i + 1] = b[i + 1 - Len(a)]
      BY <1>1, <1>2, <2>2
    <3>4. i + 1 - Len(a) = i - Len(a) + 1 /\ f[i] = i + 1
      BY <1>1, <1>2, <2>2
    <3>5. QED
      BY <3>1, <3>2, <3>3, <3>4
  <2>3. CASE i > Len(a) + (Len(b) - 1)
    <3>1. p[i] = c[i - (Len(a) + (Len(b) - 1))]
      BY <1>1, <1>2, <2>3
    <3>2. q[i + 1] = c[i + 1 - (Len(a) + Len(b))]
      BY <1>1, <1>2, <2>3
    <3>3. i - (Len(a) + (Len(b) - 1)) = i + 1 - (Len(a) + Len(b)) /\ f[i] = i + 1
      BY <1>1, <1>2, <2>3
    <3>4. QED
      BY <3>1, <3>2, <3>3
  <2>4. QED
    BY <1>1, <2>1, <2>2, <2>3
<1>5. ASSUME NEW i \in 1..Len(p), NEW j \in 1..Len(p), i < j PROVE f[i] < f[j]
  BY <1>1, <1>2, <1>5
<1> HIDE DEF p, q, f
<1>6. Thinned(p, q)
  BY <1>3, <1>4, <1>5 DEF Thinned
<1>7. QED
  BY <1>6 DEF p, q

(* The first element of the last of two sequences goes. *)
LEMMA TailEndIsThinned ==
  ASSUME NEW S, NEW a \in Seq(S), NEW b \in Seq(S), b # <<>>
  PROVE  Thinned(a \o Tail(b), a \o b)
<1>1. <<>> \in Seq(S) /\ a \o Tail(b) \in Seq(S) /\ a \o b \in Seq(S)
  OBVIOUS
<1>2. Thinned((a \o Tail(b)) \o <<>>, (a \o b) \o <<>>)
  BY <1>1, TailIsThinned
<1>3. (a \o Tail(b)) \o <<>> = a \o Tail(b) /\ (a \o b) \o <<>> = a \o b
  BY <1>1, ConcatEmptySeq
<1>4. QED
  BY <1>2, <1>3

(* The first element of a sequence goes to the end of the one before it. *)
LEMMA MoveKeeps ==
  ASSUME NEW S, NEW b \in Seq(S), NEW c \in Seq(S), c # <<>>
  PROVE  Append(b, Head(c)) \o Tail(c) = b \o c
<1>1. /\ Len(b) \in Nat /\ Len(c) \in Nat \ {0}
      /\ Tail(c) \in Seq(S) /\ Len(Tail(c)) = Len(c) - 1 /\ Head(c) = c[1]
      /\ \A i \in 1..Len(c) - 1 : Tail(c)[i] = c[i + 1]
      /\ Append(b, Head(c)) \in Seq(S)
  OBVIOUS
<1>2. QED
  BY <1>1

(* So it does when a third sequence stands before the two. *)
LEMMA MoveIsThinned ==
  ASSUME NEW S, NEW a \in Seq(S), NEW b \in Seq(S), NEW c \in Seq(S), c # <<>>
  PROVE  Thinned((a \o Append(b, Head(c))) \o Tail(c), (a \o b) \o c)
<1> DEFINE d == Append(b, Head(c))
           e == Tail(c)
<1>1. d \in Seq(S) /\ e \in Seq(S) /\ d \o e = b \o c
  BY MoveKeeps
<1> HIDE DEF d, e
<1>2. \A v, w \in Seq(S) : (a \o v) \o w = a \o (v \o w)
  BY ConcatAssociative
<1>3. Thinned((a \o b) \o c, (a \o b) \o c)
  <2>1. (a \o b) \o c \in Seq(S)
    OBVIOUS
  <2>2. QED
    BY <2>1, SameIsThinned
<1>4. (a \o d) \o e = (a \o b) \o c
  <2>1. (a \o d) \o e = a \o (d \o e)
    BY <1>1, <1>2
  <2>2. (a \o b) \o c = a \o (b \o c)
    BY <1>2
  <2>3. QED
    BY <1>1, <2>1, <2>2
<1>5. Thinned((a \o d) \o e, (a \o b) \o c)
  BY <1>3, <1>4
<1>6. QED
  BY <1>5 DEF d, e

(* A message joins the last of the sequences. *)
LEMMA AppendIsExtended ==
  ASSUME NEW S, NEW a \in Seq(S), NEW b \in Seq(S), NEW m \in S
  PROVE  Extended(a \o Append(b, m), a \o b, m)
BY DEF Extended

----------------------------------------------------------------------------
(* What keeps the lines in order *)

(* Along a line the messages of one sender have rising ids. *)
SenderSorted(q) ==
  \A i, j \in 1..Len(q) :
     i < j /\ IsChat(q[i]) /\ IsChat(q[j]) /\ q[i].from = q[j].from
       => q[i].id < q[j].id

(* What two lines share stands in the same order in both. *)
Agree(p, q) ==
  \A i, j \in 1..Len(p) : \A k, l \in 1..Len(q) :
     p[i] = q[k] /\ p[j] = q[l] /\ i < j => k < l

(* A message in a line is stored, or is a notification handed over before. *)
Known(m) ==
  /\ IsChat(m) => m \in persisted
  /\ m.kind = "inbox" => m.id <= pushes

(* A message that its reader is about to post is the session's own, is     *)
(* stored, and is newer than all of the session's messages in a line.      *)
JobIsNewest(s) ==
  reader[s] = "posting" =>
     /\ job[s].from = s
     /\ job[s] \in persisted
     /\ \A t \in Sessions : \A i \in 1..Len(Line(t)) :
          IsChat(Line(t)[i]) /\ Line(t)[i].from = s => Line(t)[i].id < job[s].id

(* The session is one that m is addressed to. *)
IsFor(m, s) ==
  /\ m.kind = "direct" => UserOf[s] \in {UserOf[m.from], m.to}
  /\ m.kind = "inbox" => UserOf[s] = m.to

OrderInv ==
  /\ \A s \in Sessions : SenderSorted(Line(s))
  /\ \A s, t \in Sessions : Agree(Line(s), Line(t))
  /\ \A s \in Sessions : \A i \in 1..Len(Line(s)) : Known(Line(s)[i])
  /\ \A s \in Sessions : \A i \in 1..Len(Feed(s)) : IsFor(Feed(s)[i], s)
  /\ \A s \in Sessions : JobIsNewest(s)
  /\ \A m \in persisted : m.id <= lastID

----------------------------------------------------------------------------
(* Steps that only thin the lines *)

(* Order survives when messages leave a line. *)
LEMMA ThinnedKeepsOrder ==
  ASSUME NEW p, NEW q, NEW x, NEW y, Len(p) \in Nat, Len(q) \in Nat,
         Len(x) \in Nat, Len(y) \in Nat, Thinned(p, q), Thinned(x, y)
  PROVE  /\ SenderSorted(q) => SenderSorted(p)
         /\ Agree(q, y) => Agree(p, x)
<1>1. PICK f \in [1..Len(p) -> 1..Len(q)] :
         /\ \A i \in 1..Len(p) : p[i] = q[f[i]]
         /\ \A i, j \in 1..Len(p) : i < j => f[i] < f[j]
  BY DEF Thinned
<1>2. PICK g \in [1..Len(x) -> 1..Len(y)] :
         /\ \A i \in 1..Len(x) : x[i] = y[g[i]]
         /\ \A i, j \in 1..Len(x) : i < j => g[i] < g[j]
  BY DEF Thinned
<1>3. ASSUME SenderSorted(q),
             NEW i \in 1..Len(p), NEW j \in 1..Len(p),
             i < j, IsChat(p[i]), IsChat(p[j]), p[i].from = p[j].from
      PROVE  p[i].id < p[j].id
  <2>1. /\ f[i] \in 1..Len(q) /\ f[j] \in 1..Len(q) /\ f[i] < f[j]
        /\ p[i] = q[f[i]] /\ p[j] = q[f[j]]
    BY <1>1, <1>3
  <2>2. QED
    BY <1>3, <2>1 DEF SenderSorted
<1>4. ASSUME Agree(q, y),
             NEW i \in 1..Len(p), NEW j \in 1..Len(p),
             NEW k \in 1..Len(x), NEW l \in 1..Len(x),
             p[i] = x[k], p[j] = x[l], i < j
      PROVE  k < l
  <2>1. /\ f[i] \in 1..Len(q) /\ f[j] \in 1..Len(q) /\ f[i] < f[j]
        /\ p[i] = q[f[i]] /\ p[j] = q[f[j]]
    BY <1>1, <1>4
  <2>2. /\ g[k] \in 1..Len(y) /\ g[l] \in 1..Len(y)
        /\ x[k] = y[g[k]] /\ x[l] = y[g[l]]
        /\ l < k => g[l] < g[k]
    BY <1>2
  <2>3. g[k] < g[l]
    BY <1>4, <2>1, <2>2 DEF Agree
  <2>4. QED
    BY <2>2, <2>3
<1>5. QED
  BY <1>3, <1>4 DEF Agree, SenderSorted

(* A step that thins the lines, gives no session a message that is not for *)
(* it, and starts no posting preserves OrderInv.                           *)
LEMMA ThinningStep ==
  ASSUME TypeOK, TypeOK', OrderInv,
         \A s \in Sessions : Thinned(Line(s)', Line(s)),
         \A s \in Sessions : \A i \in 1..Len(Feed(s)') : IsFor(Feed(s)'[i], s),
         persisted' = persisted, lastID' = lastID, pushes' = pushes,
         \A s \in Sessions : reader'[s] = "posting" =>
            reader[s] = "posting" /\ job'[s] = job[s]
  PROVE  OrderInv'
<1>1. \A s \in Sessions : /\ Line(s) \in Seq(Msg) /\ Line(s)' \in Seq(Msg)
                          /\ Len(Line(s)) \in Nat /\ Len(Line(s)') \in Nat
  <2>1. ASSUME NEW s \in Sessions PROVE Line(s)' \in Seq(Msg)
    BY DEF TypeOK, Line, Feed
  <2>2. QED
    BY <2>1, LineIsSeq
<1>2. \A s \in Sessions : SenderSorted(Line(s)')
  BY <1>1, ThinnedKeepsOrder DEF OrderInv
<1>3. \A s, t \in Sessions : Agree(Line(s)', Line(t)')
  BY <1>1, ThinnedKeepsOrder DEF OrderInv
<1>4. \A s \in Sessions : \A i \in 1..Len(Line(s)') :
         \E k \in 1..Len(Line(s)) : Line(s)'[i] = Line(s)[k]
  BY DEF Thinned
<1>5. \A s \in Sessions : \A i \in 1..Len(Line(s)') :
         /\ IsChat(Line(s)'[i]) => Line(s)'[i] \in persisted'
         /\ Line(s)'[i].kind = "inbox" => Line(s)'[i].id <= pushes'
  BY <1>4 DEF OrderInv, Known, IsChat
<1>6. \A s \in Sessions : JobIsNewest(s)'
  <2> SUFFICES ASSUME NEW s \in Sessions, reader'[s] = "posting"
               PROVE  /\ job'[s].from = s /\ job'[s] \in persisted'
                      /\ \A t \in Sessions : \A i \in 1..Len(Line(t)') :
                           IsChat(Line(t)'[i]) /\ Line(t)'[i].from = s
                             => Line(t)'[i].id < job'[s].id
    BY DEF JobIsNewest, IsChat
  <2>1. reader[s] = "posting" /\ job'[s] = job[s] /\ JobIsNewest(s)
    BY DEF OrderInv
  <2>2. QED
    BY <1>4, <2>1 DEF JobIsNewest
<1>7. \A m \in persisted' : m.id <= lastID'
  BY DEF OrderInv
<1>8. QED
  BY <1>2, <1>3, <1>5, <1>6, <1>7 DEF OrderInv, SenderSorted, Agree, IsFor, IsChat, Known

----------------------------------------------------------------------------
(* Steps that append a message to the lines *)

(* Order survives when a message that no line holds joins two lines. *)
LEMMA ExtendedKeepsOrder ==
  ASSUME NEW p, NEW q, NEW x, NEW y, NEW m, Len(q) \in Nat, Len(y) \in Nat,
         Extended(p, q, m), Extended(x, y, m),
         \A i \in 1..Len(q) : q[i] # m, \A i \in 1..Len(y) : y[i] # m
  PROVE  Agree(q, y) => Agree(p, x)
<1> SUFFICES ASSUME Agree(q, y),
                    NEW i \in 1..Len(p), NEW j \in 1..Len(p),
                    NEW k \in 1..Len(x), NEW l \in 1..Len(x),
                    p[i] = x[k], p[j] = x[l], i < j
             PROVE  k < l
  BY DEF Agree
<1>1. /\ i \in 1..Len(q) /\ p[i] = q[i] /\ p[i] # m
      /\ j \in 1..Len(q) => p[j] = q[j] /\ p[j] # m
      /\ j \notin 1..Len(q) => p[j] = m
  BY DEF Extended
<1>2. /\ k \in 1..Len(y) /\ x[k] = y[k]
      /\ l \in 1..Len(y) => x[l] = y[l] /\ x[l] # m
      /\ l \notin 1..Len(y) => l = Len(y) + 1 /\ x[l] = m
  <2>1. /\ Len(x) = Len(y) + 1 /\ x[Len(y) + 1] = m
        /\ \A n \in 1..Len(y) : x[n] = y[n]
    BY DEF Extended
  <2>2. \A n \in 1..Len(x) : n \in 1..Len(y) \/ n = Len(y) + 1
    BY <2>1
  <2>3. k # Len(y) + 1
    BY <1>1, <2>1
  <2>4. QED
    BY <2>1, <2>2, <2>3
<1>3. CASE l \in 1..Len(y)
  BY <1>1, <1>2, <1>3 DEF Agree
<1>4. CASE l \notin 1..Len(y)
  BY <1>2, <1>4
<1>5. QED
  BY <1>3, <1>4

(* A step that appends to all lines a message that is known, is newer than *)
(* its sender's messages in them, and is no longer about to be posted,     *)
(* preserves OrderInv.                                                     *)
LEMMA ExtendingStep ==
  ASSUME TypeOK, TypeOK', OrderInv, NEW m \in Msg,
         \A s \in Sessions : Extended(Line(s)', Line(s), m),
         \A s \in Sessions : Feed(s)' = Feed(s),
         \A s \in Sessions : \A i \in 1..Len(Line(s)) :
            /\ Line(s)[i] # m
            /\ IsChat(Line(s)[i]) /\ IsChat(m) /\ Line(s)[i].from = m.from
                 => Line(s)[i].id < m.id,
         IsChat(m) => m \in persisted',
         m.kind = "inbox" => m.id <= pushes',
         persisted' = persisted, lastID' = lastID, pushes' >= pushes,
         \A s \in Sessions : reader'[s] = "posting" =>
            /\ reader[s] = "posting" /\ job'[s] = job[s]
            /\ ~(IsChat(m) /\ m.from = s)
  PROVE  OrderInv'
<1>1. \A s \in Sessions : Line(s) \in Seq(Msg) /\ Len(Line(s)) \in Nat
  BY LineIsSeq
<1>2. \A s \in Sessions : \A i \in 1..Len(Line(s)') :
         \/ i \in 1..Len(Line(s)) /\ Line(s)'[i] = Line(s)[i]
         \/ i = Len(Line(s)) + 1 /\ Line(s)'[i] = m
  BY <1>1 DEF Extended
<1>3. \A s \in Sessions : SenderSorted(Line(s)')
  BY <1>1, <1>2 DEF OrderInv, SenderSorted
<1>4. \A s, t \in Sessions : Agree(Line(s)', Line(t)')
  BY <1>1, ExtendedKeepsOrder DEF OrderInv
<1>5. ASSUME NEW s \in Sessions, NEW i \in 1..Len(Line(s)')
      PROVE  /\ IsChat(Line(s)'[i]) => Line(s)'[i] \in persisted'
             /\ Line(s)'[i].kind = "inbox" => Line(s)'[i].id <= pushes'
  <2>1. CASE i \in 1..Len(Line(s)) /\ Line(s)'[i] = Line(s)[i]
    <3>1. Known(Line(s)[i]) /\ Line(s)[i] \in Msg
      BY <1>1, <2>1 DEF OrderInv
    <3>2. Line(s)[i].kind = "inbox" => Line(s)[i].id \in Nat
      BY <3>1 DEF Msg, ChatMsg, RoomMsg, DirectMsg, InboxMsg
    <3>3. QED
      BY <2>1, <3>1, <3>2 DEF Known, TypeOK
  <2>2. CASE Line(s)'[i] = m
    BY <2>2
  <2>3. QED
    BY <1>2, <2>1, <2>2
<1>6. \A s \in Sessions : JobIsNewest(s)'
  <2> SUFFICES ASSUME NEW s \in Sessions, reader'[s] = "posting"
               PROVE  /\ job'[s].from = s /\ job'[s] \in persisted'
                      /\ \A t \in Sessions : \A i \in 1..Len(Line(t)') :
                           IsChat(Line(t)'[i]) /\ Line(t)'[i].from = s
                             => Line(t)'[i].id < job'[s].id
    BY DEF JobIsNewest, IsChat
  <2>1. reader[s] = "posting" /\ job'[s] = job[s] /\ JobIsNewest(s)
    BY DEF OrderInv
  <2>2. QED
    BY <1>2, <2>1 DEF JobIsNewest
<1>7. \A s \in Sessions : \A i \in 1..Len(Feed(s)') : IsFor(Feed(s)'[i], s)
  BY DEF OrderInv
<1>8. QED
  BY <1>3, <1>4, <1>5, <1>6, <1>7
     DEF OrderInv, SenderSorted, Agree, IsFor, IsChat, Known

----------------------------------------------------------------------------
(* The steps of the system *)

(* A step that leaves channels, wires and the queue alone moves no line. *)
LEMMA LinesKept ==
  ASSUME TypeOK, UNCHANGED <<wire, send, broadcast>>, NEW s \in Sessions
  PROVE  Feed(s)' = Feed(s) /\ Line(s)' = Line(s) /\ Thinned(Line(s)', Line(s))
<1>1. Feed(s)' = Feed(s) /\ Line(s)' = Line(s)
  BY DEF Feed, Line
<1>2. QED
  BY <1>1, LineIsSeq, SameIsThinned

(* Storing a message: its id is above all others. *)
LEMMA PersistOrder ==
  ASSUME TypeOK, OrderInv, UNCHANGED <<wire, send, broadcast, pushes>>,
         NEW s \in Sessions, NEW m \in ChatMsg, m.from = s, m.id = lastID + 1,
         Persist(s, m)
  PROVE  OrderInv'
<1>1. \A t \in Sessions : Feed(t)' = Feed(t) /\ Line(t)' = Line(t)
  BY LinesKept
<1>2. persisted' = persisted \cup {m} /\ lastID' = lastID + 1 /\ lastID \in Nat
  BY DEF Persist, TypeOK
<1>3. \A n \in persisted : n.id <= lastID /\ n.id \in Nat
  BY DEF OrderInv, TypeOK, ChatMsg, RoomMsg, DirectMsg
<1>4. \A n \in persisted' : n.id <= lastID'
  BY <1>2, <1>3
<1>5. ASSUME NEW t \in Sessions, reader'[t] = "posting"
      PROVE  /\ job'[t].from = t /\ job'[t] \in persisted'
             /\ \A u \in Sessions : \A i \in 1..Len(Line(u)) :
                  IsChat(Line(u)[i]) /\ Line(u)[i].from = t
                    => Line(u)[i].id < job'[t].id
  <2>1. CASE t = s
    <3>1. job'[t] = m
      BY <2>1 DEF Persist, TypeOK
    <3>2. ASSUME NEW u \in Sessions, NEW i \in 1..Len(Line(u)), IsChat(Line(u)[i])
          PROVE  Line(u)[i].id < m.id
      <4>1. Line(u)[i] \in persisted
        BY <3>2 DEF OrderInv, Known
      <4>2. QED
        BY <1>2, <1>3, <4>1
    <3>3. QED
      BY <1>2, <2>1, <3>1, <3>2
  <2>2. CASE t # s
    <3>1. reader[t] = "posting" /\ job'[t] = job[t]
      BY <1>5, <2>2 DEF Persist, TypeOK
    <3>2. QED
      BY <1>2, <3>1 DEF OrderInv, JobIsNewest
  <2>3. QED
    BY <2>1, <2>2
<1>6. QED
  BY <1>1, <1>2, <1>4, <1>5
     DEF OrderInv, SenderSorted, Agree, IsFor, IsChat, Known, JobIsNewest

(* What a ReadPump posts is newer than what its session posted before. *)
LEMMA PostOrder ==
  ASSUME TypeOK, TypeOK', OrderInv, NEW s \in Sessions, PostBroadcast(s)
  PROVE  OrderInv'
<1> DEFINE m == job[s]
<1>1. m \in ChatMsg /\ m \in Msg /\ IsChat(m) /\ m.id \in Nat /\ m.kind # "inbox"
  BY DEF PostBroadcast, TypeOK, Msg, ChatMsg, RoomMsg, DirectMsg, IsChat
<1>2. /\ m.from = s /\ m \in persisted
      /\ \A t \in Sessions : \A i \in 1..Len(Line(t)) :
           IsChat(Line(t)[i]) /\ Line(t)[i].from = s => Line(t)[i].id < m.id
  BY DEF PostBroadcast, OrderInv, JobIsNewest
<1>3. /\ UNCHANGED <<wire, send, persisted, lastID, pushes>>
      /\ broadcast' = Append(broadcast, m)
  BY DEF PostBroadcast, dbVars
<1>4. ASSUME NEW t \in Sessions
      PROVE  /\ Feed(t)' = Feed(t)
             /\ Extended(Line(t)', Line(t), m)
  <2>1. Feed(t)' = Feed(t) /\ Line(t)' = Feed(t) \o Append(broadcast, m)
    BY <1>3 DEF Feed, Line
  <2>2. QED
    BY <1>1, <2>1, LineIsSeq, AppendIsExtended DEF TypeOK, Line
<1>5. ASSUME NEW t \in Sessions, NEW i \in 1..Len(Line(t))
      PROVE  /\ Line(t)[i] # m
             /\ IsChat(Line(t)[i]) /\ Line(t)[i].from = m.from => Line(t)[i].id < m.id
  BY <1>1, <1>2
<1>6. \A t \in Sessions : reader'[t] = "posting" =>
         reader[t] = "posting" /\ job'[t] = job[t] /\ t # s
  BY DEF PostBroadcast, TypeOK
<1> HIDE DEF m
<1>7. pushes' >= pushes
  BY <1>3 DEF TypeOK
<1>8. QED
  BY <1>1, <1>2, <1>3, <1>4, <1>5, <1>6, <1>7, ExtendingStep

(* A notification from the event bus has a number of its own. *)
LEMMA NotifyOrder ==
  ASSUME TypeOK, TypeOK', OrderInv, NEW u \in Users, HandleInboxEntryUpdated(u)
  PROVE  OrderInv'
<1> DEFINE m == [kind |-> "inbox", id |-> pushes + 1, to |-> u]
<1>1. m \in Msg /\ ~IsChat(m) /\ m.id = pushes + 1 /\ m.kind = "inbox"
  BY DEF TypeOK, Msg, InboxMsg, IsChat
<1>2. /\ UNCHANGED <<wire, send, persisted, lastID, reader, job>>
      /\ broadcast' = Append(broadcast, m)
      /\ pushes' = pushes + 1 /\ pushes \in Nat
  BY DEF HandleInboxEntryUpdated, sessionVars, dbVars, TypeOK
<1> HIDE DEF m
<1>3. ASSUME NEW t \in Sessions
      PROVE  /\ Feed(t)' = Feed(t)
             /\ Extended(Line(t)', Line(t), m)
  <2>1. Feed(t)' = Feed(t) /\ Line(t)' = Feed(t) \o Append(broadcast, m)
    BY <1>2 DEF Feed, Line
  <2>2. QED
    BY <1>1, <2>1, LineIsSeq, AppendIsExtended DEF TypeOK, Line
<1>4. ASSUME NEW t \in Sessions, NEW i \in 1..Len(Line(t))
      PROVE  Line(t)[i] # m
  BY <1>1, <1>2 DEF OrderInv, Known
<1>5. QED
  BY <1>1, <1>2, <1>3, <1>4, ExtendingStep

(* Routing moves the message that heads the queue to the channels of       *)
(* sessions that it is for, and out of all other lines.                    *)
LEMMA RouteOrder ==
  ASSUME TypeOK, TypeOK', OpenInv, OrderInv, BroadcastMessage
  PROVE  OrderInv'
<1> DEFINE m    == Head(broadcast)
           to   == {clients[u] : u \in Targets(m)}
           full == {s \in to \cap Sessions : Len(send[s]) >= SendCap}
<1>1. m \in Msg /\ Targets(m) \subseteq Users /\ Tail(broadcast) \in Seq(Msg)
  BY TargetsAreUsers, HeadTail DEF BroadcastMessage, TypeOK
<1>2. UNCHANGED <<wire, persisted, lastID, pushes, reader, job>>
  BY DEF BroadcastMessage, dbVars
<1>3. CASE panic' # "none"
  <2>1. UNCHANGED <<wire, send, broadcast>>
    BY <1>2, <1>3 DEF BroadcastMessage, hubVars
  <2>2. \A s \in Sessions : \A i \in 1..Len(Feed(s)') : IsFor(Feed(s)'[i], s)
    BY <2>1, LinesKept DEF OrderInv
  <2>3. QED
    BY <1>2, <2>1, <2>2, LinesKept, ThinningStep
<1>4. CASE panic' = "none"
  <2>1. /\ send' = [s \in Sessions |-> IF s \in to \ full
                                       THEN Append(send[s], m) ELSE send[s]]
        /\ broadcast' = Tail(broadcast)
    BY <1>4 DEF BroadcastMessage
  <2>2. broadcast # <<>> /\ broadcast \in Seq(Msg)
    BY DEF BroadcastMessage, TypeOK
  <2>3. ASSUME NEW s \in Sessions, s \in to PROVE IsFor(m, s)
    <3>1. PICK u \in Targets(m) : s = clients[u]
      BY <2>3
    <3>2. UserOf[s] = u
      BY <1>1, <2>3, <3>1, HubAssumption DEF OpenInv, OpenClients
    <3>3. QED
      BY <3>1, <3>2 DEF IsFor, Targets
  <2>4. ASSUME NEW s \in Sessions
        PROVE  /\ Thinned(Line(s)', Line(s))
               /\ \A i \in 1..Len(Feed(s)') : IsFor(Feed(s)'[i], s)
    <3>1. wire[s] \in Seq(Msg) /\ send[s] \in Seq(Msg) /\ Feed(s) \in Seq(Msg)
      BY LineIsSeq DEF TypeOK
    <3>2. CASE s \in to \ full
      <4>1. Feed(s)' = wire[s] \o Append(send[s], m)
        BY <1>2, <2>1, <3>2 DEF Feed
      <4>2. Line(s)' = (wire[s] \o Append(send[s], m)) \o Tail(broadcast)
        BY <2>1, <4>1 DEF Line
      <4>3. Thinned(Line(s)', Line(s))
        BY <2>2, <3>1, <4>2, MoveIsThinned DEF Line, Feed
      <4>4. Extended(Feed(s)', Feed(s), m)
        BY <1>1, <3>1, <4>1, AppendIsExtended DEF Feed
      <4>5. \A i \in 1..Len(Feed(s)') :
               \/ i \in 1..Len(Feed(s)) /\ Feed(s)'[i] = Feed(s)[i]
               \/ Feed(s)'[i] = m
        BY <3>1, <4>4 DEF Extended
      <4>6. QED
        BY <2>3, <3>2, <4>3, <4>5 DEF OrderInv
    <3>3. CASE s \notin to \ full
      <4>1. Feed(s)' = Feed(s)
        BY <1>2, <2>1, <3>3 DEF Feed
      <4>2. Line(s)' = Feed(s) \o Tail(broadcast)
        BY <2>1, <4>1 DEF Line
      <4>3. Thinned(Line(s)', Line(s))
        BY <2>2, <3>1, <4>2, TailEndIsThinned DEF Line
      <4>4. QED
        BY <4>1, <4>3 DEF OrderInv
    <3>4. QED
      BY <3>2, <3>3
  <2>5. QED
    BY <1>2, <2>4, ThinningStep
<1>5. QED
  BY <1>3, <1>4

(* Writing moves the message that heads a channel to the wire, or loses it. *)
LEMMA WriteOrder ==
  ASSUME TypeOK, TypeOK', OrderInv, NEW s \in Sessions, WriteMessage(s)
  PROVE  OrderInv'
<1>1. UNCHANGED <<broadcast, persisted, lastID, pushes, reader, job>>
  BY DEF WriteMessage, hubVars, dbVars
<1>2. ASSUME NEW t \in Sessions, t # s
      PROVE  /\ Thinned(Line(t)', Line(t))
             /\ \A i \in 1..Len(Feed(t)') : IsFor(Feed(t)'[i], t)
  <2>1. wire'[t] = wire[t] /\ send'[t] = send[t]
    BY <1>2 DEF WriteMessage, TypeOK
  <2>2. Feed(t)' = Feed(t) /\ Line(t)' = Line(t)
    BY <1>1, <2>1 DEF Feed, Line
  <2>3. QED
    BY <2>2, LineIsSeq, SameIsThinned DEF OrderInv
<1>3. /\ Thinned(Line(s)', Line(s))
      /\ \A i \in 1..Len(Feed(s)') : IsFor(Feed(s)'[i], s)
  <2>1. /\ wire[s] \in Seq(Msg) /\ send[s] \in Seq(Msg) /\ broadcast \in Seq(Msg)
        /\ send[s] # <<>> /\ send'[s] = Tail(send[s])
    BY DEF WriteMessage, TypeOK
  <2>2. CASE wire'[s] = Append(wire[s], Head(send[s]))
    <3>1. Append(wire[s], Head(send[s])) \o Tail(send[s]) = wire[s] \o send[s]
      BY <2>1, MoveKeeps
    <3>2. Feed(s)' = Feed(s) /\ Line(s)' = Line(s)
      BY <1>1, <2>1, <2>2, <3>1 DEF Feed, Line
    <3>3. QED
      BY <3>2, LineIsSeq, SameIsThinned DEF OrderInv
  <2>3. CASE wire'[s] = wire[s]
    <3>1. Feed(s)' = wire[s] \o Tail(send[s])
      BY <2>1, <2>3 DEF Feed
    <3>2. Line(s)' = (wire[s] \o Tail(send[s])) \o broadcast
      BY <1>1, <3>1 DEF Line
    <3>3. Thinned(Line(s)', Line(s))
      BY <2>1, <3>2, TailIsThinned DEF Line, Feed
    <3>4. Thinned(Feed(s)', Feed(s))
      BY <2>1, <3>1, TailEndIsThinned DEF Feed
    <3>5. \A i \in 1..Len(Feed(s)') : \E k \in 1..Len(Feed(s)) : Feed(s)'[i] = Feed(s)[k]
      BY <3>4 DEF Thinned
    <3>6. QED
      BY <3>3, <3>5 DEF OrderInv
  <2>4. QED
    BY <2>2, <2>3 DEF WriteMessage, TypeOK
<1>4. QED
  BY <1>1, <1>2, <1>3, ThinningStep

(* A step that moves no line and posts nothing preserves OrderInv. *)
LEMMA IdleOrder ==
  ASSUME TypeOK, TypeOK', OrderInv,
         UNCHANGED <<wire, send, broadcast, persisted, lastID, pushes>>,
         \A s \in Sessions : reader'[s] = "posting" =>
            reader[s] = "posting" /\ job'[s] = job[s]
  PROVE  OrderInv'
<1>1. \A s \in Sessions : \A i \in 1..Len(Feed(s)') : IsFor(Feed(s)'[i], s)
  BY LinesKept DEF OrderInv
<1>2. QED
  BY <1>1, LinesKept, ThinningStep

(* Every step preserves OrderInv. *)
LEMMA OrderInvStep ==
  ASSUME TypeOK, TypeOK', OpenInv, OrderInv, [Next]_vars
  PROVE  OrderInv'
<1> DEFINE Idle ==
      /\ UNCHANGED <<wire, send, broadcast, persisted, lastID, pushes>>
      /\ \A s \in Sessions : reader'[s] = "posting" =>
            reader[s] = "posting" /\ job'[s] = job[s]
<1> USE DEF hubVars, sessionVars, dbVars, ghostVars
<1>1. ASSUME NEW s \in Sessions, RegisterClient(s) \/ UnregisterClient(s) PROVE Idle
  BY <1>1 DEF RegisterClient, UnregisterClient, TypeOK
<1>2. ASSUME NEW u \in Users, NEW r \in Rooms, NEW p \in BOOLEAN,
             UpdateUserPresenceInRoom(u, r, p)
      PROVE  Idle
  BY <1>2 DEF UpdateUserPresenceInRoom
<1>3. ASSUME NEW s \in Sessions, NEW R \in SUBSET Rooms, Upgrade(s, R) PROVE Idle
  BY <1>3 DEF Upgrade, TypeOK
<1>4. ASSUME NEW s \in Sessions, NEW r \in Rooms, DispatchRoomMessage(s, r)
      PROVE  OrderInv'
  <2> DEFINE m == [kind |-> "room", id |-> lastID + 1, from |-> s, room |-> r]
  <2>1. m \in ChatMsg /\ m.from = s /\ m.id = lastID + 1
    BY DEF TypeOK, ChatMsg, RoomMsg
  <2>2. Persist(s, m) /\ UNCHANGED <<wire, send, broadcast, pushes>>
    BY <1>4 DEF DispatchRoomMessage
  <2> HIDE DEF m
  <2>3. QED
    BY <2>1, <2>2, PersistOrder
<1>5. ASSUME NEW s \in Sessions, NEW u \in Users, DispatchDirectMessage(s, u)
      PROVE  OrderInv'
  <2> DEFINE m == [kind |-> "direct", id |-> lastID + 1, from |-> s, to |-> u]
  <2>1. m \in ChatMsg /\ m.from = s /\ m.id = lastID + 1
    BY DEF TypeOK, ChatMsg, DirectMsg
  <2>2. Persist(s, m) /\ UNCHANGED <<wire, send, broadcast, pushes>>
    BY <1>5 DEF DispatchDirectMessage
  <2> HIDE DEF m
  <2>3. QED
    BY <2>1, <2>2, PersistOrder
<1>6. ASSUME NEW s \in Sessions, NEW r \in Rooms, NEW p \in BOOLEAN,
             DispatchUserRoomUpdate(s, r, p)
      PROVE  Idle
  BY <1>6 DEF DispatchUserRoomUpdate, TypeOK
<1>7. ASSUME NEW s \in Sessions, ApplyPresence(s) PROVE Idle
  BY <1>7 DEF ApplyPresence, TypeOK
<1>8. ASSUME NEW s \in Sessions, MapRace(s) \/ ReadError(s) PROVE Idle
  BY <1>8 DEF MapRace, ReadError, TypeOK
<1>9. ASSUME NEW s \in Sessions, WriteClosed(s) \/ ConnLost(s) PROVE Idle
  BY <1>9 DEF WriteClosed, ConnLost
<1>10. ASSUME UNCHANGED vars PROVE Idle
  BY <1>10 DEF vars
<1>11. Idle => OrderInv'
  BY IdleOrder
<1> HIDE DEF Idle
<1>12. QED
  BY <1>1, <1>2, <1>3, <1>4, <1>5, <1>6, <1>7, <1>8, <1>9, <1>10, <1>11,
     PostOrder, NotifyOrder, RouteOrder, WriteOrder
     DEF Next, HubStep, ReadPump, WritePump, Environment

----------------------------------------------------------------------------
(* The lines are in order in every state. *)
LEMMA OrderAlways == Spec => [](TypeOK /\ OrderInv)
<1>1. Init => OrderInv
  <2> SUFFICES ASSUME Init PROVE OrderInv
    OBVIOUS
  <2>1. \A s \in Sessions : Feed(s) = <<>> /\ Line(s) = <<>>
    BY DEF Init, Feed, Line
  <2>2. QED
    BY <2>1 DEF Init, OrderInv, SenderSorted, Agree, JobIsNewest
<1>2. TypeOK /\ TypeOK' /\ OpenInv /\ OrderInv /\ [Next]_vars => OrderInv'
  BY OrderInvStep
<1>3. QED
  BY <1>1, <1>2, TypeCorrect, InductiveInv, PTL DEF Spec

(* What a session was fed is the beginning of its line. *)
LEMMA FeedIsFirst ==
  ASSUME TypeOK, NEW s \in Sessions
  PROVE  \A i \in 1..Len(Feed(s)) : i \in 1..Len(Line(s)) /\ Feed(s)[i] = Line(s)[i]
<1>1. Feed(s) \in Seq(Msg) /\ broadcast \in Seq(Msg)
  BY LineIsSeq DEF TypeOK
<1>2. QED
  BY <1>1 DEF Line

(* The messages of one sender reach every session in the order in which    *)
(* the server stored them, and none comes twice.                           *)
THEOREM SenderOrderAlways == Spec => []SenderOrder
<1>1. TypeOK /\ OrderInv => SenderOrder
  BY FeedIsFirst DEF OrderInv, SenderSorted, SenderOrder
<1>2. QED
  BY <1>1, OrderAlways, PTL

(* Any two sessions see the messages they both get in the same order. *)
THEOREM SameOrderAlways == Spec => []SameOrder
<1>1. TypeOK /\ OrderInv => SameOrder
  <2> SUFFICES ASSUME TypeOK, OrderInv, NEW s \in Sessions, NEW t \in Sessions,
                      NEW i \in 1..Len(Feed(s)), NEW j \in 1..Len(Feed(s)),
                      NEW k \in 1..Len(Feed(t)), NEW l \in 1..Len(Feed(t)),
                      Feed(s)[i] = Feed(t)[k], Feed(s)[j] = Feed(t)[l], i < j
               PROVE  k < l
    BY DEF SameOrder
  <2>1. Agree(Line(s), Line(t))
    BY DEF OrderInv
  <2>2. QED
    BY <2>1, FeedIsFirst DEF Agree
<1>2. QED
  BY <1>1, OrderAlways, PTL

(* What a session gets to see is stored and is for the session's user. *)
THEOREM SeenIsStoredAlways == Spec => []SeenIsStored
<1>1. TypeOK /\ OrderInv => SeenIsStored
  BY FeedIsFirst DEF OrderInv, Known, IsFor, SeenIsStored
<1>2. QED
  BY <1>1, OrderAlways, PTL

----------------------------------------------------------------------------
(* The hub implements the feeds.                                           *)

(* A session with a WritePump has been registered. *)
Started == \A s \in Sessions : writer[s] # "off" => s \in Opened

LEMMA StartedStep ==
  ASSUME TypeOK, Started, [Next]_vars
  PROVE  Started'
<1> USE DEF TypeOK, Started, Opened, hubVars, sessionVars
<1>1. ASSUME NEW s \in Sessions, RegisterClient(s) \/ UnregisterClient(s) PROVE Started'
  BY <1>1 DEF RegisterClient, UnregisterClient
<1>2. ASSUME NEW u \in Users, NEW r \in Rooms, NEW p \in BOOLEAN,
             UpdateUserPresenceInRoom(u, r, p)
      PROVE  Started'
  BY <1>2 DEF UpdateUserPresenceInRoom
<1>3. CASE BroadcastMessage
  BY <1>3 DEF BroadcastMessage
<1>4. ASSUME NEW s \in Sessions, ReadPump(s) PROVE Started'
  BY <1>4 DEF ReadPump, DispatchRoomMessage, DispatchDirectMessage, Persist, PostBroadcast,
              DispatchUserRoomUpdate, ApplyPresence, MapRace, ReadError
<1>5. ASSUME NEW s \in Sessions, WritePump(s) PROVE Started'
  BY <1>5 DEF WritePump, WriteMessage, WriteClosed
<1>6. CASE Environment
  BY <1>6 DEF Environment, ConnLost, Upgrade, HandleInboxEntryUpdated
<1>7. CASE UNCHANGED vars
  BY <1>7 DEF vars
<1>8. QED
  BY <1>1, <1>2, <1>3, <1>4, <1>5, <1>6, <1>7 DEF Next, HubStep

(* What a ReadPump posts is a message. *)
LEMMA HeldIsMessage ==
  ASSUME TypeOK, NEW s \in Sessions, reader[s] = "posting"
  PROVE  Held[s] = job[s] /\ job[s] # NoJob
<1>1. job[s] \in ChatMsg
  BY DEF TypeOK
<1>2. job[s].kind \in {"room", "direct"}
  BY <1>1 DEF ChatMsg, RoomMsg, DirectMsg
<1>3. NoJob.kind = "none"
  BY DEF NoJob
<1>4. QED
  BY <1>2, <1>3 DEF Held

(* A ReadPump that moves otherwise holds nothing. *)
LEMMA HeldStays ==
  ASSUME TypeOK,
         \A s \in Sessions : /\ reader'[s] = "posting" <=> reader[s] = "posting"
                             /\ reader[s] = "posting" => job'[s] = job[s]
  PROVE  Held' = Held
BY DEF Held

(* What no user can see. *)
Visible == <<dbVars, pushes, Held, broadcast, clients, Opened, Cut, send, wire>>

LEMMA PersistSends ==
  ASSUME TypeOK, NEW s \in Sessions, NEW m, Persist(s, m), reader[s] = "reading", conn[s],
         UNCHANGED <<conn, pushes, broadcast, clients, send, wire>>, m.id \in Nat
  PROVE  Abstract!Send(s, m)
<1>1. Held[s] = NoJob
  BY DEF Held
<1>2. Held' = [Held EXCEPT ![s] = m]
  BY DEF Persist, Held, TypeOK
<1>3. Opened' = Opened /\ Cut' = Cut
  BY DEF Persist, Opened, Cut, TypeOK
<1>4. lastID' = m.id /\ persisted' = persisted \cup {m}
  BY DEF Persist
<1>5. QED
  BY <1>1, <1>2, <1>3, <1>4 DEF Abstract!Send

(* Storing a message, and posting it. *)
LEMMA ReadPumpSends ==
  ASSUME TypeOK, NEW s \in Sessions, ReadPump(s)
  PROVE  [Abstract!Next]_Visible
<1>1. ASSUME NEW r \in Rooms, DispatchRoomMessage(s, r) PROVE Abstract!SendToRoom(s, r)
  <2> DEFINE m == [kind |-> "room", id |-> lastID + 1, from |-> s, room |-> r]
  <2>1. m.id \in Nat
    BY DEF TypeOK
  <2>2. /\ Persist(s, m) /\ reader[s] = "reading" /\ conn[s]
        /\ UNCHANGED <<conn, pushes, broadcast, clients, send, wire>>
    BY <1>1 DEF DispatchRoomMessage, hubVars
  <2> HIDE DEF m
  <2>3. Abstract!Send(s, m)
    BY <2>1, <2>2, PersistSends
  <2>4. QED
    BY <2>3 DEF m, Abstract!SendToRoom
<1>2. ASSUME NEW u \in Users, DispatchDirectMessage(s, u) PROVE Abstract!SendToUser(s, u)
  <2> DEFINE m == [kind |-> "direct", id |-> lastID + 1, from |-> s, to |-> u]
  <2>1. m.id \in Nat
    BY DEF TypeOK
  <2>2. /\ Persist(s, m) /\ reader[s] = "reading" /\ conn[s] /\ u # UserOf[s]
        /\ UNCHANGED <<conn, pushes, broadcast, clients, send, wire>>
    BY <1>2 DEF DispatchDirectMessage, hubVars
  <2> HIDE DEF m
  <2>3. Abstract!Send(s, m)
    BY <2>1, <2>2, PersistSends
  <2>4. QED
    BY <2>2, <2>3 DEF m, Abstract!SendToUser
<1>3. ASSUME PostBroadcast(s) PROVE Abstract!Post(s)
  <2>1. Held[s] = job[s] /\ Held[s] # NoJob
    BY <1>3, HeldIsMessage DEF PostBroadcast
  <2>2. Held' = [Held EXCEPT ![s] = NoJob]
    BY <1>3 DEF PostBroadcast, Held, TypeOK
  <2>3. Opened' = Opened /\ Cut' = Cut
    BY <1>3 DEF PostBroadcast, Opened, Cut, TypeOK
  <2>4. QED
    BY <1>3, <2>1, <2>2, <2>3 DEF PostBroadcast, Abstract!Post, dbVars
<1>4. ASSUME \/ \E r \in Rooms, p \in BOOLEAN : DispatchUserRoomUpdate(s, r, p)
             \/ ApplyPresence(s) \/ MapRace(s) \/ ReadError(s)
      PROVE  UNCHANGED Visible
  <2>1. /\ \A t \in Sessions : /\ reader'[t] = "posting" <=> reader[t] = "posting"
                               /\ reader[t] = "posting" => job'[t] = job[t]
                               /\ t \in Opened' <=> t \in Opened
                               /\ t \in Cut' <=> t \in Cut
        /\ UNCHANGED <<dbVars, pushes, broadcast, clients, send, wire>>
    BY <1>4 DEF DispatchUserRoomUpdate, ApplyPresence, MapRace, ReadError, Opened, Cut, TypeOK,
                hubVars, sessionVars
  <2>2. Held' = Held
    BY <2>1, HeldStays
  <2>3. Opened' = Opened /\ Cut' = Cut
    BY <2>1 DEF Opened, Cut
  <2>4. QED
    BY <2>1, <2>2, <2>3 DEF Visible
<1>5. QED
  BY <1>1, <1>2, <1>3, <1>4 DEF ReadPump, Abstract!Next

(* A session is opened by the hub, and its user's messages go to it. *)
LEMMA RegisterOpens ==
  ASSUME TypeOK, NEW s \in Sessions, RegisterClient(s)
  PROVE  Abstract!Open(s)
<1>1. s \notin Opened /\ Opened' = Opened \cup {s} /\ Cut' = Cut
  BY DEF RegisterClient, Opened, Cut, TypeOK
<1>2. Held' = Held
  BY HeldStays DEF RegisterClient, TypeOK
<1>3. clients' = [clients EXCEPT ![UserOf[s]] = s]
      /\ UNCHANGED <<lastID, persisted, pushes, broadcast, send, wire>>
  BY DEF RegisterClient, dbVars
<1>4. QED
  BY <1>1, <1>2, <1>3 DEF Abstract!Open

(* It is closed when it is unregistered, or nothing happens there. *)
LEMMA UnregisterCloses ==
  ASSUME TypeOK, NEW s \in Sessions, UnregisterClient(s)
  PROVE  [Abstract!Next]_Visible
<1>1. Opened' = Opened /\ Cut' = Cut
  BY DEF UnregisterClient, Opened, Cut, TypeOK
<1>2. Held' = Held
  BY HeldStays DEF UnregisterClient, TypeOK
<1>3. UNCHANGED <<lastID, persisted, pushes, broadcast, send, wire>>
  BY DEF UnregisterClient, dbVars, hubVars
<1>4. clients' = clients \/ clients' = [clients EXCEPT ![UserOf[s]] = NoSession]
  BY DEF UnregisterClient, hubVars
<1>5. UserOf[s] \in Users
  BY HubAssumption
<1>6. CASE clients' = clients
  BY <1>1, <1>2, <1>3, <1>6 DEF Visible, dbVars
<1>7. CASE clients' = [clients EXCEPT ![UserOf[s]] = NoSession]
  <2>1. Abstract!Close(UserOf[s])
    BY <1>1, <1>2, <1>3, <1>7 DEF Abstract!Close
  <2>2. QED
    BY <1>5, <2>1 DEF Abstract!Next
<1>8. QED
  BY <1>4, <1>6, <1>7

(* The hub routes a message to one of its audiences: to whom it is         *)
(* addressed and online, and for a room to users with a client.            *)
LEMMA TargetsAreAudience ==
  ASSUME TypeOK, NEW m \in Msg, RoutingPanic(m) = "none"
  PROVE  Targets(m) \in Abstract!Audiences(m)
<1>1. Targets(m) \subseteq Users
  BY TargetsAreUsers
<1>2. \A u \in Targets(m) : clients[u] # NoSession
  BY DEF RoutingPanic
<1>3. CASE m.kind = "room"
  BY <1>1, <1>2, <1>3 DEF Abstract!Audiences, Abstract!Online
<1>4. CASE m.kind = "direct"
  <2>1. UserOf[m.from] \in Users /\ m.to \in Users
    BY <1>4, HubAssumption DEF Msg, ChatMsg, RoomMsg, DirectMsg, InboxMsg
  <2>2. Targets(m) = {UserOf[m.from], m.to} \cap Abstract!Online
    BY <1>4, <2>1 DEF Targets, Abstract!Online
  <2>3. QED
    BY <1>4, <2>2 DEF Abstract!Audiences
<1>5. CASE m.kind = "inbox"
  <2>1. m.to \in Users
    BY <1>5 DEF Msg, ChatMsg, RoomMsg, DirectMsg, InboxMsg
  <2>2. Targets(m) = {m.to} \cap Abstract!Online
    BY <1>5, <2>1 DEF Targets, Abstract!Online
  <2>3. QED
    BY <1>5, <2>2 DEF Abstract!Audiences
<1>6. QED
  BY <1>3, <1>4, <1>5 DEF Msg, ChatMsg, RoomMsg, DirectMsg, InboxMsg

(* A session that a message cannot be given to is kicked, and so nothing   *)
(* is missing in what it gets.                                             *)
LEMMA BroadcastDelivers ==
  ASSUME TypeOK, BroadcastMessage
  PROVE  [Abstract!Next]_Visible
<1> DEFINE m    == Head(broadcast)
           G    == Targets(m)
           to   == {clients[u] : u \in G}
           full == {s \in to \cap Sessions : Len(send[s]) >= SendCap}
<1>1. m \in Msg /\ broadcast # <<>>
  BY HeadTail DEF BroadcastMessage, TypeOK
<1>2. Opened' = Opened /\ Cut' = Cut /\ Held' = Held
  BY DEF BroadcastMessage, Opened, Cut, Held
<1>3. UNCHANGED <<lastID, persisted, pushes, wire>> /\ panic' = RoutingPanic(m)
  BY DEF BroadcastMessage, dbVars
<1>4. CASE panic' # "none"
  <2>1. UNCHANGED <<hubVars, send, closed>>
    BY <1>4 DEF BroadcastMessage
  <2>2. QED
    BY <1>2, <1>3, <2>1 DEF Visible, hubVars, dbVars
<1>5. CASE panic' = "none"
  <2>1. /\ send' = [s \in Sessions |-> IF s \in to \ full THEN Append(send[s], m) ELSE send[s]]
        /\ KickClient(full) /\ broadcast' = Tail(broadcast)
    BY <1>5 DEF BroadcastMessage
  <2>2. clients' = [u \in Users |-> IF clients[u] \in full THEN NoSession ELSE clients[u]]
    BY <2>1 DEF KickClient
  <2>3. G \in Abstract!Audiences(m)
    BY <1>1, <1>3, <1>5, TargetsAreAudience
  <2>4. full \subseteq to /\ full \in SUBSET Sessions /\ G \in SUBSET Users
    BY <1>1, TargetsAreUsers
  <2> HIDE DEF full
  <2>5. Abstract!Deliver(G, full)
    BY <1>1, <1>2, <1>3, <2>1, <2>2, <2>3, <2>4 DEF Abstract!Deliver
  <2> HIDE DEF G
  <2>6. QED
    BY <2>4, <2>5 DEF Abstract!Next
<1>6. QED
  BY <1>4, <1>5

(* WritePump shows a message, or loses it with the connection. *)
LEMMA WritePumpShows ==
  ASSUME TypeOK, Started, NEW s \in Sessions, WritePump(s)
  PROVE  [Abstract!Next]_Visible
<1>1. /\ Opened' = Opened /\ Cut' = Cut /\ Held' = Held
      /\ UNCHANGED <<lastID, persisted, pushes, broadcast, clients>>
  BY DEF WritePump, WriteMessage, WriteClosed, Opened, Cut, Held, dbVars, hubVars
<1>2. CASE WriteMessage(s) /\ conn[s]
  <2>1. s \notin Cut
    BY <1>2 DEF Cut
  <2>2. Abstract!See(s)
    BY <1>1, <1>2, <2>1 DEF WriteMessage, Abstract!See
  <2>3. QED
    BY <2>2 DEF Abstract!Next
<1>3. CASE WriteMessage(s) /\ ~conn[s]
  <2>1. s \in Cut
    BY <1>3 DEF Cut, Started, Opened, WriteMessage
  <2>2. Abstract!Lose(s)
    BY <1>1, <1>3, <2>1 DEF WriteMessage, Abstract!Lose
  <2>3. QED
    BY <2>2 DEF Abstract!Next
<1>4. CASE WriteClosed(s)
  BY <1>1, <1>4 DEF WriteClosed, Visible, dbVars
<1>5. QED
  BY <1>2, <1>3, <1>4 DEF WritePump

(* Connections come and go, and the event bus notifies. *)
LEMMA EnvironmentShows ==
  ASSUME TypeOK, Environment
  PROVE  [Abstract!Next]_Visible
<1>1. ASSUME NEW s \in Sessions, ConnLost(s) PROVE [Abstract!Next]_Visible
  <2>1. /\ Opened' = Opened /\ Held' = Held
        /\ UNCHANGED <<lastID, persisted, pushes, broadcast, clients, send, wire>>
    BY <1>1 DEF ConnLost, Opened, Held, dbVars, hubVars
  <2>2. Cut' = Cut \/ Cut' = Cut \cup {s}
    BY <1>1 DEF ConnLost, Cut, TypeOK
  <2>3. CASE Cut' = Cut
    BY <2>1, <2>3 DEF Visible, dbVars
  <2>4. CASE Cut' = Cut \cup {s}
    BY <2>1, <2>4 DEF Abstract!Cut, Abstract!Next
  <2>5. QED
    BY <2>2, <2>3, <2>4
<1>2. ASSUME NEW s \in Sessions, NEW R \in SUBSET Rooms, Upgrade(s, R)
      PROVE  UNCHANGED Visible
  <2>1. Opened' = Opened /\ Cut' = Cut
    BY <1>2 DEF Upgrade, Opened, Cut, TypeOK
  <2>2. Held' = Held
    BY <1>2, HeldStays DEF Upgrade, TypeOK
  <2>3. QED
    BY <1>2, <2>1, <2>2 DEF Upgrade, Visible, hubVars
<1>3. ASSUME NEW u \in Users, HandleInboxEntryUpdated(u) PROVE Abstract!Notify(u)
  BY <1>3 DEF HandleInboxEntryUpdated, Abstract!Notify, Opened, Cut, Held, sessionVars, dbVars
<1>4. QED
  BY <1>1, <1>2, <1>3 DEF Environment, Abstract!Next

(* Every step is one of Feeds, or changes nothing there. *)
LEMMA StepFeeds ==
  ASSUME TypeOK, Started, [Next]_vars
  PROVE  [Abstract!Next]_Visible
<1>1. ASSUME NEW s \in Sessions, RegisterClient(s) PROVE [Abstract!Next]_Visible
  BY <1>1, RegisterOpens DEF Abstract!Next
<1>2. ASSUME NEW u \in Users, NEW r \in Rooms, NEW p \in BOOLEAN,
             UpdateUserPresenceInRoom(u, r, p)
      PROVE  UNCHANGED Visible
  BY <1>2 DEF UpdateUserPresenceInRoom, Visible, Opened, Cut, Held
<1>3. CASE UNCHANGED vars
  BY <1>3 DEF vars, hubVars, sessionVars, Visible, Opened, Cut, Held
<1>4. QED
  BY <1>1, <1>2, <1>3, UnregisterCloses, BroadcastDelivers, ReadPumpSends, WritePumpShows,
     EnvironmentShows DEF Next, HubStep

(* To the users the hub is one ordered queue in which everybody finds what *)
(* is addressed to them, without a gap until the session ends: the         *)
(* refinement that the run checks, for any number of sessions.             *)
THEOREM Refinement == Spec => ImplementsFeeds
<1>1. Init => Started /\ Abstract!Init
  BY DEF Init, Started, Held, Opened, Cut, Abstract!Init
<1>2. TypeOK /\ Started /\ [Next]_vars => Started' /\ [Abstract!Next]_(Abstract!vars)
  BY StartedStep, StepFeeds DEF Visible, Abstract!vars, dbVars
<1>3. QED
  BY <1>1, <1>2, TypeCorrect, PTL DEF Spec, ImplementsFeeds, Abstract!Spec
=============================================================================
