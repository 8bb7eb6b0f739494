-------------------------------- MODULE Hub --------------------------------
(***************************************************************************)
(* The WebSocket hub of the chat server (cmd/server/internal/ws): the      *)
(* goroutine that runs Hub.Run, and for every session (one Client value,   *)
(* one WebSocket connection) the goroutine in ReadPump and the one in      *)
(* WritePump.                                                              *)
(*                                                                         *)
(* A hub step is one iteration of the select loop of Hub.Run.  The hub     *)
(* never blocks inside an iteration (every send to a client has a default  *)
(* branch), so an iteration is one action.  The exception is the presence  *)
(* update that ReadPump makes by calling updateUserPresenceInRoom itself,  *)
(* outside the hub goroutine: it looks the client up in one step and       *)
(* writes the maps in another, and the hub may run in between.             *)
(*                                                                         *)
(* A room absent from the Go map h.rooms and a room mapped to an empty set *)
(* are both modelled by the empty set: no handler tells them apart, since  *)
(* a client that has a room in its roomIDs has created the room's entry.   *)
(***************************************************************************)
EXTENDS Integers, Sequences, FiniteSets

CONSTANTS
  Users,         \* user ids
  Sessions,      \* Client values, one for each WebSocket connection ever made
  Rooms,         \* room ids
  UserOf,        \* the user whose token opened the session
  NoSession,     \* h.clients has no entry for the user
  SendCap,       \* capacity of Client.send (256 in the code)
  BroadcastCap,  \* capacity of Hub.broadcast (256 in the code)
  MaxID,         \* bound: chat messages the database stores
  MaxPush        \* bound: inbox notifications the event bus hands to the hub

ASSUME HubAssumption ==
  /\ UserOf \in [Sessions -> Users]
  /\ NoSession \notin Sessions
  /\ SendCap \in Nat \ {0}
  /\ BroadcastCap \in Nat \ {0}
  /\ MaxID \in Nat
  /\ MaxPush \in Nat

VARIABLES
  clients,     \* Hub.clients: user -> the session messages for it go to
  rooms,       \* Hub.rooms: room -> users registered as being in it
  broadcast,   \* Hub.broadcast: the queue of messages to route
  roomIDs,     \* Client.roomIDs
  send,        \* Client.send: messages queued for WritePump
  closed,      \* has Client.send been closed?
  reader,      \* where the session's ReadPump goroutine is
  writer,      \* where the session's WritePump goroutine is
  job,         \* what ReadPump holds while it is posting or updating presence
  conn,        \* do Read and Write on the connection still succeed?
  wire,        \* what WritePump has written to the connection, in order
  panic,       \* "none", or the run-time panic that ended the server process
  lastID,      \* the last id the messages table gave out
  persisted,   \* the messages table
  pushes,      \* number of inbox notifications received from the event bus
  overlapped,  \* has a session been registered over another one of its user?
  stale        \* has a presence update been applied to a replaced session?

hubVars     == <<clients, rooms, broadcast>>
sessionVars == <<roomIDs, send, closed, reader, writer, job, conn, wire>>
dbVars      == <<lastID, persisted>>
ghostVars   == <<overlapped, stale>>
vars == <<hubVars, sessionVars, dbVars, ghostVars, panic, pushes>>

----------------------------------------------------------------------------
(* Messages and presence updates *)

RoomMsg   == [kind: {"room"}, id: Nat, from: Sessions, room: Rooms]
DirectMsg == [kind: {"direct"}, id: Nat, from: Sessions, to: Users]
InboxMsg  == [kind: {"inbox"}, id: Nat, to: Users]
ChatMsg   == RoomMsg \cup DirectMsg
Msg       == ChatMsg \cup InboxMsg

Presence  == [kind: {"presence"}, target: Sessions, room: Rooms, present: BOOLEAN]
NoJob     == [kind |-> "none"]

ReaderStates == {"off", "registering", "reading", "posting", "presence",
                 "unregistering", "done"}
Panics == {"none", "nil_client", "double_close", "send_closed", "map_race"}

(* The session has passed registerClient and not yet unregisterClient. *)
Registered(s) == reader[s] \in {"reading", "posting", "presence", "unregistering"}

TypeOK ==
  /\ clients \in [Users -> Sessions \cup {NoSession}]
  /\ rooms \in [Rooms -> SUBSET Users]
  /\ broadcast \in Seq(Msg)
  /\ roomIDs \in [Sessions -> SUBSET Rooms]
  /\ send \in [Sessions -> Seq(Msg)]
  /\ closed \in [Sessions -> BOOLEAN]
  /\ reader \in [Sessions -> ReaderStates]
  /\ writer \in [Sessions -> {"off", "running", "done"}]
  /\ job \in [Sessions -> ChatMsg \cup Presence \cup {NoJob}]
  /\ \A s \in Sessions : /\ reader[s] = "posting" => job[s] \in ChatMsg
                         /\ reader[s] = "presence" => job[s] \in Presence
  /\ conn \in [Sessions -> BOOLEAN]
  /\ wire \in [Sessions -> Seq(Msg)]
  /\ panic \in Panics
  /\ lastID \in Nat
  /\ persisted \in SUBSET ChatMsg
  /\ pushes \in Nat
  /\ overlapped \in BOOLEAN
  /\ stale \in BOOLEAN

Init ==
  /\ clients = [u \in Users |-> NoSession]
  /\ rooms = [r \in Rooms |-> {}]
  /\ broadcast = <<>>
  /\ roomIDs = [s \in Sessions |-> {}]
  /\ send = [s \in Sessions |-> <<>>]
  /\ closed = [s \in Sessions |-> FALSE]
  /\ reader = [s \in Sessions |-> "off"]
  /\ writer = [s \in Sessions |-> "off"]
  /\ job = [s \in Sessions |-> NoJob]
  /\ conn = [s \in Sessions |-> FALSE]
  /\ wire = [s \in Sessions |-> <<>>]
  /\ panic = "none"
  /\ lastID = 0
  /\ persisted = {}
  /\ pushes = 0
  /\ overlapped = FALSE
  /\ stale = FALSE

----------------------------------------------------------------------------
(* The hub goroutine: one action for each case of the select in Hub.Run *)

(* case c := <-h.register.  The handler of /ws resumes behind Register: it *)
(* starts WritePump and enters ReadPump.                                   *)
RegisterClient(s) ==
  LET u == UserOf[s] IN
  /\ panic = "none" /\ reader[s] = "registering"
  /\ rooms' = [r \in Rooms |-> IF r \in roomIDs[s] THEN rooms[r] \cup {u}
                                                   ELSE rooms[r]]
  /\ clients' = [clients EXCEPT ![u] = s]
  /\ overlapped' = (overlapped \/ clients[u] # NoSession)
  /\ reader' = [reader EXCEPT ![s] = "reading"]
  /\ writer' = [writer EXCEPT ![s] = "running"]
  /\ UNCHANGED <<broadcast, roomIDs, send, closed, job, conn, wire, dbVars,
                 stale, panic, pushes>>

(* Mutant: the client's entry in h.clients is not deleted. *)
UnregisterClientKeepsClient(s) ==
  LET u == UserOf[s] IN
  /\ panic = "none" /\ reader[s] = "unregistering"
  /\ IF closed[s]
     THEN /\ panic' = "double_close"
          /\ UNCHANGED <<hubVars, closed, reader>>
     ELSE /\ rooms' = [r \in Rooms |-> IF r \in roomIDs[s] THEN rooms[r] \ {u}
                                                           ELSE rooms[r]]
          /\ closed' = [closed EXCEPT ![s] = TRUE]
          /\ reader' = [reader EXCEPT ![s] = "done"]
          /\ UNCHANGED <<clients, broadcast, panic>>
  /\ UNCHANGED <<roomIDs, send, writer, job, conn, wire, dbVars, ghostVars, pushes>>

(* Mutant: unregistering waits until the channel is drained. *)
UnregisterClientDrained(s) ==
  LET u == UserOf[s] IN
  /\ panic = "none" /\ reader[s] = "unregistering"
  /\ closed[s] \/ send[s] = <<>>
  /\ IF closed[s]
     THEN /\ panic' = "double_close"
          /\ UNCHANGED <<hubVars, closed, reader>>
     ELSE /\ rooms' = [r \in Rooms |-> IF r \in roomIDs[s] THEN rooms[r] \ {u}
                                                           ELSE rooms[r]]
          /\ clients' = [clients EXCEPT ![u] = NoSession]
          /\ closed' = [closed EXCEPT ![s] = TRUE]
          /\ reader' = [reader EXCEPT ![s] = "done"]
          /\ UNCHANGED <<broadcast, panic>>
  /\ UNCHANGED <<roomIDs, send, writer, job, conn, wire, dbVars, ghostVars, pushes>>

(* case c := <-h.unregister.  The entry of the session's USER is deleted,  *)
(* whichever session it holds.  Closing a closed channel panics, which     *)
(* ends the process: nothing else of that iteration remains.               *)
UnregisterClient(s) ==
  LET u == UserOf[s] IN
  /\ panic = "none" /\ reader[s] = "unregistering"
  /\ IF closed[s]
     THEN /\ panic' = "double_close"
          /\ UNCHANGED <<hubVars, closed, reader>>
     ELSE /\ rooms' = [r \in Rooms |-> IF r \in roomIDs[s] THEN rooms[r] \ {u}
                                                           ELSE rooms[r]]
          /\ clients' = [clients EXCEPT ![u] = NoSession]
          /\ closed' = [closed EXCEPT ![s] = TRUE]
          /\ reader' = [reader EXCEPT ![s] = "done"]
          /\ UNCHANGED <<broadcast, panic>>
  /\ UNCHANGED <<roomIDs, send, writer, job, conn, wire, dbVars, ghostVars, pushes>>

(* The effect of updateUserPresenceInRoom on the maps, t being the client  *)
(* that it looked up for user u.                                           *)
SetPresence(u, t, r, present) ==
  IF present
  THEN /\ rooms' = [rooms EXCEPT ![r] = @ \cup {u}]
       /\ roomIDs' = [roomIDs EXCEPT ![t] = @ \cup {r}]
  ELSE /\ rooms' = [rooms EXCEPT ![r] = @ \ {u}]
       /\ roomIDs' = [roomIDs EXCEPT ![t] = @ \ {r}]

(* case upd := <-h.userRoomUpdate: an HTTP request to join or leave a room *)
(* called UpdateUserRoomState.  The channel is unbuffered, so the send and *)
(* the iteration of the hub are one step; any request may come at any time.*)
UpdateUserPresenceInRoom(u, r, present) ==
  /\ panic = "none" /\ clients[u] # NoSession
  /\ SetPresence(u, clients[u], r, present)
  /\ UNCHANGED <<clients, broadcast, send, closed, reader, writer, job, conn,
                 wire, dbVars, ghostVars, panic, pushes>>

(* The users a message is routed to.  A room message goes to everyone in   *)
(* the room, with or without a client; other messages only to clients.     *)
Targets(m) ==
  IF m.kind = "room" THEN rooms[m.room]
  ELSE {u \in (IF m.kind = "direct" THEN {UserOf[m.from], m.to} ELSE {m.to}) :
          clients[u] # NoSession}

(* Mutants of KickClient: the user stays in h.clients; the user stays in   *)
(* h.rooms; the channel is not closed.                                     *)
KickClientKeepsClient(S) ==
  /\ closed' = [s \in Sessions |-> closed[s] \/ s \in S]
  /\ UNCHANGED <<clients, rooms>>

KickClientKeepsRooms(S) ==
  /\ closed' = [s \in Sessions |-> closed[s] \/ s \in S]
  /\ clients' = [u \in Users |-> IF clients[u] \in S THEN NoSession ELSE clients[u]]
  /\ UNCHANGED rooms

KickClientKeepsChannel(S) ==
  /\ clients' = [u \in Users |-> IF clients[u] \in S THEN NoSession ELSE clients[u]]
  /\ rooms' = [r \in Rooms |->
       rooms[r] \ {u \in Users : clients[u] \in S /\ r \in roomIDs[clients[u]]}]
  /\ UNCHANGED closed

(* kickClient, for every session of S. *)
KickClient(S) ==
  /\ closed' = [s \in Sessions |-> closed[s] \/ s \in S]
  /\ clients' = [u \in Users |-> IF clients[u] \in S THEN NoSession ELSE clients[u]]
  /\ rooms' = [r \in Rooms |->
       rooms[r] \ {u \in Users : clients[u] \in S /\ r \in roomIDs[clients[u]]}]

(* What happens to the process when message m is routed: a target without  *)
(* a client is a nil dereference, and a send on a closed channel panics.   *)
RoutingPanic(m) ==
  IF \E u \in Targets(m) : clients[u] = NoSession   THEN "nil_client"
  ELSE IF \E u \in Targets(m) : closed[clients[u]]  THEN "send_closed"
  ELSE "none"

(* Mutant: the send to a client has no default branch, so the hub waits    *)
(* for room in every target's channel.                                     *)
BroadcastMessageBlocking ==
  /\ panic = "none" /\ broadcast # <<>>
  /\ LET m  == Head(broadcast)
         to == {clients[u] : u \in Targets(m)} \cap Sessions
     IN /\ \A s \in to : Len(send[s]) < SendCap
        /\ panic' = RoutingPanic(m)
        /\ send' = [s \in Sessions |-> IF s \in to THEN Append(send[s], m) ELSE send[s]]
        /\ broadcast' = Tail(broadcast)
  /\ UNCHANGED <<clients, rooms, closed, roomIDs, reader, writer, job, conn, wire,
                 dbVars, ghostVars, pushes>>

(* Mutant: a session whose channel is full misses the message and stays. *)
BroadcastMessageSkipping ==
  /\ panic = "none" /\ broadcast # <<>>
  /\ LET m  == Head(broadcast)
         to == {s \in {clients[u] : u \in Targets(m)} \cap Sessions : Len(send[s]) < SendCap}
     IN /\ panic' = RoutingPanic(m)
        /\ send' = [s \in Sessions |-> IF s \in to THEN Append(send[s], m) ELSE send[s]]
        /\ broadcast' = Tail(broadcast)
  /\ UNCHANGED <<clients, rooms, closed, roomIDs, reader, writer, job, conn, wire,
                 dbVars, ghostVars, pushes>>

(* case msg := <-h.broadcast.  A session whose channel is full is kicked   *)
(* instead of served.                                                      *)
BroadcastMessage ==
  /\ panic = "none" /\ broadcast # <<>>
  /\ LET m    == Head(broadcast)
         to   == {clients[u] : u \in Targets(m)}
         full == {s \in to \cap Sessions : Len(send[s]) >= SendCap}
     IN /\ panic' = RoutingPanic(m)
        /\ IF panic' = "none"
           THEN /\ send' = [s \in Sessions |-> IF s \in to \ full
                                               THEN Append(send[s], m) ELSE send[s]]
                /\ KickClient(full)
                /\ broadcast' = Tail(broadcast)
           ELSE UNCHANGED <<hubVars, send, closed>>
  /\ UNCHANGED <<roomIDs, reader, writer, job, conn, wire, dbVars, ghostVars, pushes>>

----------------------------------------------------------------------------
(* The goroutine that serves /ws: Upgrade, then ReadPump *)

(* Upgrade: the token is valid, the user's rooms are R, the connection is  *)
(* accepted, and the goroutine waits in Register.                          *)
Upgrade(s, R) ==
  /\ panic = "none" /\ reader[s] = "off"
  /\ roomIDs' = [roomIDs EXCEPT ![s] = R]
  /\ conn' = [conn EXCEPT ![s] = TRUE]
  /\ reader' = [reader EXCEPT ![s] = "registering"]
  /\ UNCHANGED <<hubVars, send, closed, writer, job, wire, dbVars, ghostVars,
                 panic, pushes>>

(* Mutants of Persist: the message goes on although storing it failed; the *)
(* message to post is lost.                                                *)
PersistFailed(s, m) ==
  /\ lastID' = m.id
  /\ job' = [job EXCEPT ![s] = m]
  /\ reader' = [reader EXCEPT ![s] = "posting"]
  /\ UNCHANGED persisted

PersistWithoutJob(s, m) ==
  /\ lastID' = m.id
  /\ persisted' = persisted \cup {m}
  /\ reader' = [reader EXCEPT ![s] = "posting"]
  /\ UNCHANGED job

(* The service stored m and ReadPump goes on to send it to the hub. *)
Persist(s, m) ==
  /\ lastID' = m.id
  /\ persisted' = persisted \cup {m}
  /\ job' = [job EXCEPT ![s] = m]
  /\ reader' = [reader EXCEPT ![s] = "posting"]

(* dispatchRoomMessage up to the send to the hub.  A message that fails    *)
(* the validation, or that the service fails to store, changes nothing.    *)
DispatchRoomMessage(s, r) ==
  /\ panic = "none" /\ reader[s] = "reading" /\ conn[s] /\ lastID < MaxID
  /\ r \in roomIDs[s]
  /\ Persist(s, [kind |-> "room", id |-> lastID + 1, from |-> s, room |-> r])
  /\ UNCHANGED <<hubVars, roomIDs, send, closed, writer, conn, wire, ghostVars,
                 panic, pushes>>

(* dispatchDirectMessage up to the send to the hub.  The conversations     *)
(* table refuses a conversation of a user with itself.                     *)
DispatchDirectMessage(s, u) ==
  /\ panic = "none" /\ reader[s] = "reading" /\ conn[s] /\ lastID < MaxID
  /\ u # UserOf[s]
  /\ Persist(s, [kind |-> "direct", id |-> lastID + 1, from |-> s, to |-> u])
  /\ UNCHANGED <<hubVars, roomIDs, send, closed, writer, conn, wire, ghostVars,
                 panic, pushes>>

(* Mutant: the message overtakes those already in the queue. *)
PostBroadcastFirst(s) ==
  /\ panic = "none" /\ reader[s] = "posting" /\ Len(broadcast) < BroadcastCap
  /\ broadcast' = <<job[s]>> \o broadcast
  /\ reader' = [reader EXCEPT ![s] = "reading"]
  /\ job' = [job EXCEPT ![s] = NoJob]
  /\ UNCHANGED <<clients, rooms, roomIDs, send, closed, writer, conn, wire, dbVars,
                 ghostVars, panic, pushes>>

(* c.hub.broadcast <- broadcastMsg, which waits while the queue is full. *)
PostBroadcast(s) ==
  /\ panic = "none" /\ reader[s] = "posting" /\ Len(broadcast) < BroadcastCap
  /\ broadcast' = Append(broadcast, job[s])
  /\ reader' = [reader EXCEPT ![s] = "reading"]
  /\ job' = [job EXCEPT ![s] = NoJob]
  /\ UNCHANGED <<clients, rooms, roomIDs, send, closed, writer, conn, wire, dbVars,
                 ghostVars, panic, pushes>>

(* dispatchUserRoomUpdate: ReadPump itself calls updateUserPresenceInRoom, *)
(* which first looks the user's client up in h.clients ...                 *)
DispatchUserRoomUpdate(s, r, present) ==
  /\ panic = "none" /\ reader[s] = "reading" /\ conn[s]
  /\ clients[UserOf[s]] # NoSession
  /\ job' = [job EXCEPT ![s] = [kind |-> "presence", target |-> clients[UserOf[s]],
                                room |-> r, present |-> present]]
  /\ reader' = [reader EXCEPT ![s] = "presence"]
  /\ UNCHANGED <<hubVars, roomIDs, send, closed, writer, conn, wire, dbVars,
                 ghostVars, panic, pushes>>

(* ... and then writes h.rooms and the client's roomIDs. *)
ApplyPresence(s) ==
  /\ panic = "none" /\ reader[s] = "presence"
  /\ SetPresence(UserOf[s], job[s].target, job[s].room, job[s].present)
  /\ stale' = (stale \/ clients[UserOf[s]] # job[s].target)
  /\ reader' = [reader EXCEPT ![s] = "reading"]
  /\ job' = [job EXCEPT ![s] = NoJob]
  /\ UNCHANGED <<clients, broadcast, send, closed, writer, conn, wire, dbVars,
                 overlapped, panic, pushes>>

(* ReadPump reads c.roomIDs to validate a room message, and reads and      *)
(* writes the maps in a presence update, without synchronisation.  Either  *)
(* may overlap a map write of the hub goroutine (a request over HTTP or a  *)
(* new session gives it one at any moment), and the Go runtime ends the    *)
(* process when it notices.                                                *)
MapRace(s) ==
  /\ panic = "none"
  /\ reader[s] = "presence" \/ (reader[s] = "reading" /\ conn[s])
  /\ panic' = "map_race"
  /\ UNCHANGED <<hubVars, sessionVars, dbVars, ghostVars, pushes>>

(* conn.Read returns an error: the deferred send to h.unregister begins. *)
ReadError(s) ==
  /\ panic = "none" /\ reader[s] = "reading" /\ ~conn[s]
  /\ reader' = [reader EXCEPT ![s] = "unregistering"]
  /\ UNCHANGED <<hubVars, roomIDs, send, closed, writer, job, conn, wire, dbVars,
                 ghostVars, panic, pushes>>

----------------------------------------------------------------------------
(* The goroutine in WritePump *)

(* Mutant: the newest queued message is written first. *)
WriteMessageNewest(s) ==
  LET n == Len(send[s]) IN
  /\ panic = "none" /\ writer[s] = "running" /\ send[s] # <<>>
  /\ send' = [send EXCEPT ![s] = SubSeq(@, 1, n - 1)]
  /\ wire' = [wire EXCEPT ![s] = Append(@, send[s][n])]
  /\ UNCHANGED <<hubVars, roomIDs, closed, reader, writer, job, conn, dbVars,
                 ghostVars, panic, pushes>>

WriteMessage(s) ==
  /\ panic = "none" /\ writer[s] = "running" /\ send[s] # <<>>
  /\ send' = [send EXCEPT ![s] = Tail(@)]
  /\ IF conn[s] THEN /\ wire' = [wire EXCEPT ![s] = Append(@, Head(send[s]))]
                     /\ UNCHANGED writer
                ELSE /\ writer' = [writer EXCEPT ![s] = "done"]
                     /\ UNCHANGED wire
  /\ UNCHANGED <<hubVars, roomIDs, closed, reader, job, conn, dbVars, ghostVars,
                 panic, pushes>>

(* Mutant: WritePump returns without draining the closed channel. *)
WriteClosedUndrained(s) ==
  /\ panic = "none" /\ writer[s] = "running" /\ closed[s]
  /\ writer' = [writer EXCEPT ![s] = "done"]
  /\ UNCHANGED <<hubVars, roomIDs, send, closed, reader, job, conn, wire, dbVars,
                 ghostVars, panic, pushes>>

(* The channel is closed and drained: WritePump returns, and leaves the    *)
(* connection as it is.                                                    *)
WriteClosed(s) ==
  /\ panic = "none" /\ writer[s] = "running" /\ send[s] = <<>> /\ closed[s]
  /\ writer' = [writer EXCEPT ![s] = "done"]
  /\ UNCHANGED <<hubVars, roomIDs, send, closed, reader, job, conn, wire, dbVars,
                 ghostVars, panic, pushes>>

----------------------------------------------------------------------------
(* The environment *)

(* The peer closes the connection, or the network does. *)
ConnLost(s) ==
  /\ panic = "none" /\ conn[s]
  /\ conn' = [conn EXCEPT ![s] = FALSE]
  /\ UNCHANGED <<hubVars, roomIDs, send, closed, reader, writer, job, wire, dbVars,
                 ghostVars, panic, pushes>>

(* A goroutine of the event bus runs handleInboxEntryUpdated for user u. *)
HandleInboxEntryUpdated(u) ==
  /\ panic = "none" /\ pushes < MaxPush /\ Len(broadcast) < BroadcastCap
  /\ pushes' = pushes + 1
  /\ broadcast' = Append(broadcast, [kind |-> "inbox", id |-> pushes + 1, to |-> u])
  /\ UNCHANGED <<clients, rooms, sessionVars, dbVars, ghostVars, panic>>

----------------------------------------------------------------------------
HubStep ==
  \/ \E s \in Sessions : RegisterClient(s) \/ UnregisterClient(s)
  \/ \E u \in Users, r \in Rooms, p \in BOOLEAN : UpdateUserPresenceInRoom(u, r, p)
  \/ BroadcastMessage

ReadPump(s) ==
  \/ \E r \in Rooms : DispatchRoomMessage(s, r)
  \/ \E u \in Users : DispatchDirectMessage(s, u)
  \/ \E r \in Rooms, p \in BOOLEAN : DispatchUserRoomUpdate(s, r, p)
  \/ PostBroadcast(s)
  \/ ApplyPresence(s)
  \/ MapRace(s)
  \/ ReadError(s)

WritePump(s) == WriteMessage(s) \/ WriteClosed(s)

Environment ==
  \/ \E s \in Sessions : ConnLost(s) \/ \E R \in SUBSET Rooms : Upgrade(s, R)
  \/ \E u \in Users : HandleInboxEntryUpdated(u)

Next ==
  \/ HubStep
  \/ \E s \in Sessions : ReadPump(s) \/ WritePump(s)
  \/ Environment

Spec == Init /\ [][Next]_vars

(***************************************************************************)
(* Fairness.  The hub goroutine runs whenever a case of its select is      *)
(* ready, select picks among ready cases uniformly at random, and each     *)
(* hub iteration ends: a ready case is eventually taken.  Senders blocked  *)
(* on a full channel are queued first in, first out: a sender for which    *)
(* there is room again and again gets its turn.  A goroutine that is not   *)
(* blocked goes on.  Peers and HTTP requests promise nothing: a Write may  *)
(* wait for ever for a peer that does not read.                            *)
(***************************************************************************)
Fairness ==
  /\ \A s \in Sessions :
       /\ WF_vars(RegisterClient(s)) /\ WF_vars(UnregisterClient(s))
       /\ SF_vars(PostBroadcast(s))
       /\ WF_vars(ApplyPresence(s)) /\ WF_vars(ReadError(s))
       /\ WF_vars(WriteClosed(s)) /\ WF_vars(~conn[s] /\ WriteMessage(s))
  /\ WF_vars(BroadcastMessage)

LiveSpec == Spec /\ Fairness

----------------------------------------------------------------------------
(* Safety *)

(* The hub never holds a session whose channel it has closed, nor one of   *)
(* another user: the only reason why the sends in broadcastMessage         *)
(* (hub.go:158, 168) do not panic.                                         *)
OpenClients ==
  \A u \in Users : clients[u] # NoSession =>
     /\ UserOf[clients[u]] = u
     /\ ~closed[clients[u]]
     /\ Registered(clients[u])

(* While no session has been registered over another one of its user, a    *)
(* session that is registered, and has not been kicked, is the one its     *)
(* user's messages are routed to (hub.go:114, 125, 182).                   *)
SessionRouted ==
  ~overlapped => \A s \in Sessions :
     Registered(s) /\ ~closed[s] => clients[UserOf[s]] = s

(* The two maps of the hub and the roomIDs of its clients are three copies *)
(* of one relation, updated by four handlers.  They agree as long as no    *)
(* session was registered over another one and no presence update from a   *)
(* ReadPump was applied to a session that had been replaced meanwhile.     *)
RoomsMatchClients ==
  ~overlapped /\ ~stale => \A r \in Rooms, u \in Users :
     u \in rooms[r] <=> /\ clients[u] # NoSession
                        /\ r \in roomIDs[clients[u]]

(* kickClient closed the session's channel, and its ReadPump lives on. *)
Kicked(s) == closed[s] /\ reader[s] # "done"

(* What it takes to bring the process down: broadcastMessage meets a user  *)
(* without a client only after sessions of one user overlapped or a        *)
(* presence update came too late; unregisterClient closes a channel twice  *)
(* only for a session that was kicked; no send ever hits a closed channel. *)
PanicCause ==
  /\ panic = "nil_client" => overlapped \/ stale
  /\ panic = "double_close" => \E s \in Sessions : Kicked(s)
  /\ panic # "send_closed"

(* What the session's connection has carried and its channel still holds. *)
Feed(s) == wire[s] \o send[s]

IsChat(m) == m.kind # "inbox"

(* Messages of one sender reach every session in the order in which the    *)
(* server stored them, and none comes twice, although they pass through    *)
(* three goroutines and two queues (client.go:102-122, hub.go:158).        *)
SenderOrder ==
  \A s \in Sessions : \A i, j \in 1..Len(Feed(s)) :
     LET a == Feed(s)[i]
         b == Feed(s)[j]
     IN i < j /\ IsChat(a) /\ IsChat(b) /\ a.from = b.from => a.id < b.id

(* Any two sessions see the messages they both get in the same order, also *)
(* when they come from different senders or from the event bus: the hub    *)
(* goroutine orders them (hub.go:92-105).                                  *)
SameOrder ==
  \A s, t \in Sessions : \A i, j \in 1..Len(Feed(s)) : \A k, l \in 1..Len(Feed(t)) :
     Feed(s)[i] = Feed(t)[k] /\ Feed(s)[j] = Feed(t)[l] /\ i < j => k < l

(* A chat message that a session gets to see has been stored, and it is a  *)
(* room message or one of the session's own user's conversations           *)
(* (client.go:102-111, 141-150).                                           *)
SeenIsStored ==
  \A s \in Sessions : \A i \in 1..Len(Feed(s)) :
     LET m == Feed(s)[i]
     IN /\ IsChat(m) => m \in persisted
        /\ m.kind = "direct" => UserOf[s] \in {UserOf[m.from], m.to}
        /\ m.kind = "inbox" => UserOf[s] = m.to

(* To the users, all of this is one ordered queue: a session gets what is  *)
(* addressed to its user in the order of the queue, and nothing is missing *)
(* between what it gets, although channels overflow, sessions are kicked   *)
(* and replaced, and ReadPumps wait for room in the queue                  *)
(* (hub.go:92-105, 155-182, client.go:59-76).                              *)
Held   == [s \in Sessions |-> IF reader[s] = "posting" THEN job[s] ELSE NoJob]
Opened == {s \in Sessions : reader[s] \notin {"off", "registering"}}
Cut    == {s \in Sessions : reader[s] # "off" /\ ~conn[s]}

Abstract == INSTANCE Feeds WITH
  Nothing <- NoJob, last <- lastID, stored <- persisted, noticed <- pushes, held <- Held,
  queue <- broadcast, route <- clients, opened <- Opened, cut <- Cut, due <- send, seen <- wire

ImplementsFeeds == Abstract!Spec

----------------------------------------------------------------------------
(* Liveness *)

Dead == panic # "none"

(* No ReadPump goroutine waits for the hub for ever, neither to register,  *)
(* nor to post a message, nor to unregister (hub.go:194, client.go:29,     *)
(* 122), however slow or dead the peers of other sessions are.             *)
RequestServed ==
  \A s \in Sessions : \A p \in {"registering", "posting", "unregistering"} :
     reader[s] = p ~> reader[s] # p \/ Dead

(* The id is with a ReadPump or in the hub's queue. *)
Underway(id) ==
  \/ \E s \in Sessions : reader[s] = "posting" /\ job[s].id = id
  \/ \E i \in 1..Len(broadcast) : IsChat(broadcast[i]) /\ broadcast[i].id = id

(* Every message that was stored is routed by the hub in the end. *)
StoredIsRouted ==
  \A id \in 1..MaxID : lastID >= id ~> ~Underway(id) \/ Dead

(* What is queued for a session whose peer reads is written to its         *)
(* connection, even after the session was kicked, unless the connection    *)
(* fails (client.go:59-76).                                                *)
QueuedIsWritten ==
  \A s \in Sessions : WF_vars(WritePump(s)) => \A id \in 1..MaxID :
     (\E i \in 1..Len(send[s]) : IsChat(send[s][i]) /\ send[s][i].id = id)
       ~> \/ \E i \in 1..Len(wire[s]) : IsChat(wire[s][i]) /\ wire[s][i].id = id
          \/ ~conn[s] \/ Dead

(* A session whose connection failed leaves the hub's map (client.go:28).  *)
DisconnectedIsForgotten ==
  \A s \in Sessions :
     reader[s] # "off" /\ ~conn[s] ~> clients[UserOf[s]] # s \/ Dead

----------------------------------------------------------------------------
(* What the comments and tests of the code say, and the code does not do *)

(* hub_test.go:309, "Unregister without register: no panic". *)
UnregisterNeverPanics == panic # "double_close"
============================================================================
