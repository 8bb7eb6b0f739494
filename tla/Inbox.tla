------------------------------- MODULE Inbox -------------------------------
(***************************************************************************)
(* How a stored message becomes an unread count: the services that store   *)
(* messages and memberships (cmd/server/internal/conversation, room), the  *)
(* in-process event bus (bus) and the inbox service (inbox), over the      *)
(* tables room_members, conversations, messages, inbox_events and          *)
(* inbox_conversations.                                                    *)
(*                                                                         *)
(* A request (an HTTP handler, or a ReadPump serving a chat message)       *)
(* commits to the database in one step and publishes its events in later   *)
(* ones.  The dispatcher of the bus takes events in order, but starts a    *)
(* goroutine for each, so their handlers run in any order.  A handler does *)
(* one statement on the database per step.                                 *)
(*                                                                         *)
(* A conversation is the set of its two users: the conversations table is  *)
(* unique in the pair and refuses a user paired with itself.               *)
(***************************************************************************)
EXTENDS Integers, Sequences, FiniteSets, Functions

CONSTANTS
  Users,      \* user ids
  Rooms,      \* room ids
  Requests,   \* goroutines that serve requests
  QueueCap,   \* capacity of the bus queue (queueChanSize, 512 in the code)
  MaxEvents,  \* bound: events that requests publish
  MaxMessages,\* bound: messages stored
  MaxResets,  \* bound: calls of MarkAsRead
  MaxCrashes, \* bound: crashes of the server process
  MaxFaults   \* bound: statements that fail

Conversations == UNION {{{u, v} : v \in Users \ {u}} : u \in Users}

ASSUME InboxAssumption ==
  /\ Rooms \cap Conversations = {}
  /\ QueueCap \in Nat \ {0}
  /\ {MaxEvents, MaxMessages, MaxResets, MaxCrashes, MaxFaults} \subseteq Nat

Threads == Rooms \cup Conversations
Cursors == Users \X Threads

VARIABLES
  members,   \* room_members: room -> users
  existing,  \* rooms: the rooms created
  convs,     \* conversations
  messages,  \* messages: [id, thread, from]
  rows,      \* inbox_events: who is told about which room event
  cursors,   \* inbox_conversations: its (user, thread) pairs
  unread,    \* inbox_conversations.unread_count
  todo,      \* per request, the events it has committed to and must publish
  queue,     \* the bus queue
  running,   \* handler goroutines
  badge,     \* the count last handed to the hub for a cursor's owner
  handed,    \* how many counts were handed to the hub
  lastEvent, \* the number of events requests have made
  resets, crashes, faults,  \* what the environment has done so far
  read,      \* unread counts that MarkAsRead took away, summed up
  missed,    \* (message, user) pairs whose handler found no cursor
  overtaken  \* cursors of which two counts were on their way to the hub at once

tables   == <<members, existing, convs, messages>>
busVars  == <<todo, queue, running>>
hubVars  == <<badge, handed>>
envVars  == <<resets, crashes, faults>>
ghostVars == <<read, missed, overtaken>>
vars == <<tables, rows, cursors, unread, busVars, hubVars, lastEvent, envVars, ghostVars>>

----------------------------------------------------------------------------
(* Events, and the goroutines that handle them.  n tells events apart; the *)
(* events a handler publishes have the number of the event it handles.     *)

RoomEvent(kind, u, r) == [kind |-> kind, n |-> lastEvent + 1, user |-> u, room |-> r]

MessageEvent(n, m) ==
  [kind |-> IF m.thread \in Rooms THEN "room_message" ELSE "direct_message",
   n |-> n, id |-> m.id, from |-> m.from, thread |-> m.thread]

ConversationCreated(c) == [kind |-> "conversation_created", n |-> lastEvent + 1, conv |-> c]

IsMessage(e) == e.kind \in {"room_message", "direct_message"}

(* A handler: what it does next, the users whose cursor it has still to    *)
(* create, the events it has still to publish.                             *)
Handler(e) ==
  [ev |-> e,
   at |-> CASE e.kind \in {"room_join", "room_leave"} -> "save"
            [] e.kind = "conversation_created"        -> "upsert"
            [] IsMessage(e)                           -> "update"
            [] OTHER                                  -> "notify",
   left |-> CASE e.kind = "room_join"            -> {e.user}
              [] e.kind = "conversation_created" -> e.conv
              [] OTHER                           -> {},
   out |-> {}]

(* Handler g goes on as h; with nothing left to do it ends. *)
Finished(h) == (h.at = "upsert" /\ h.left = {}) \/ (h.at = "publish" /\ h.out = {})

Continue(g, h) ==
  running' = (running \ {g}) \cup (IF Finished(h) THEN {} ELSE {h})

End(g) == running' = running \ {g}

(* The users a message is meant for, and those it is counted for. *)
Addressees(e) == IF e.thread \in Rooms THEN Users \ {e.from} ELSE e.thread \ {e.from}
Counted(e) == {u \in Addressees(e) : <<u, e.thread>> \in cursors}

(* All events on their way: still to publish, queued, being handled. *)
InFlight ==
  (UNION {Range(todo[p]) : p \in Requests}) \cup Range(queue) \cup {g.ev : g \in running}
    \cup (UNION {g.out : g \in running})

(* The counts on their way to the hub for cursor c. *)
Underway(c) == {e \in InFlight : /\ e.kind = "inbox_entry_updated"
                                 /\ e.user = c[1] /\ e.thread = c[2]}

TypeOK ==
  /\ members \in [Rooms -> SUBSET Users]
  /\ existing \in SUBSET Rooms
  /\ convs \in SUBSET Conversations
  /\ messages \in SUBSET [id: 1..MaxMessages, thread: existing \cup convs, from: Users]
  /\ cursors \in SUBSET Cursors
  /\ \A c \in cursors : c[2] \in Conversations => c[1] \in c[2] /\ c[2] \in convs
  /\ unread \in [Cursors -> Nat]
  /\ \A c \in Cursors \ cursors : unread[c] = 0
  /\ Len(queue) <= QueueCap
  /\ \A g \in running : /\ g.at \in {"save", "upsert", "update", "publish", "notify"}
                        /\ g.left \subseteq Users
  /\ badge \in [Cursors -> Nat] /\ handed \in [Cursors -> Nat]
  /\ lastEvent \in 0..MaxEvents
  /\ read \in [Cursors -> Nat]
  /\ missed \in SUBSET ((1..MaxMessages) \X Users)
  /\ overtaken \in SUBSET Cursors

Init ==
  /\ members = [r \in Rooms |-> {}]
  /\ existing = {} /\ convs = {} /\ messages = {} /\ rows = {} /\ cursors = {}
  /\ unread = [c \in Cursors |-> 0]
  /\ todo = [p \in Requests |-> <<>>] /\ queue = <<>> /\ running = {}
  /\ badge = [c \in Cursors |-> 0] /\ handed = [c \in Cursors |-> 0]
  /\ lastEvent = 0 /\ resets = 0 /\ crashes = 0 /\ faults = 0
  /\ read = [c \in Cursors |-> 0] /\ missed = {} /\ overtaken = {}

----------------------------------------------------------------------------
(* The services: a transaction, and the events to publish once it is       *)
(* committed.  A request that fails before that changes nothing.           *)

(* Request p has made the k events of sequence es. *)
Commit(p, es) ==
  /\ todo[p] = <<>> /\ lastEvent + Len(es) <= MaxEvents
  /\ todo' = [todo EXCEPT ![p] = es]
  /\ lastEvent' = lastEvent + Len(es)
  /\ UNCHANGED <<rows, cursors, unread, queue, running, hubVars, envVars, ghostVars>>

(* room.Service.Create: the room and its creator's membership. *)
CreateRoom(p, u, r) ==
  /\ r \notin existing
  /\ existing' = existing \cup {r}
  /\ members' = [members EXCEPT ![r] = {u}]
  /\ Commit(p, <<RoomEvent("room_join", u, r)>>)
  /\ UNCHANGED <<convs, messages>>

(* room.Service.Join and Leave: joining twice, or leaving a room one is    *)
(* not in, changes no row, is no error, and is announced like the rest.    *)
Join(p, u, r) ==
  /\ r \in existing
  /\ members' = [members EXCEPT ![r] = @ \cup {u}]
  /\ Commit(p, <<RoomEvent("room_join", u, r)>>)
  /\ UNCHANGED <<existing, convs, messages>>

Leave(p, u, r) ==
  /\ r \in existing
  /\ members' = [members EXCEPT ![r] = @ \ {u}]
  /\ Commit(p, <<RoomEvent("room_leave", u, r)>>)
  /\ UNCHANGED <<existing, convs, messages>>

Store(t, u) == [id |-> Cardinality(messages) + 1, thread |-> t, from |-> u]

(* room.Service.SendRoomMessage, which asks for no membership. *)
SendRoomMessage(p, u, r) ==
  LET m == Store(r, u) IN
  /\ r \in existing /\ Cardinality(messages) < MaxMessages
  /\ messages' = messages \cup {m}
  /\ Commit(p, <<MessageEvent(lastEvent + 1, m)>>)
  /\ UNCHANGED <<members, existing, convs>>

(* conversation.Service.SendDirectMessage. *)
SendDirectMessage(p, u, v) ==
  LET c == {u, v}
      m == Store(c, u)
  IN
  /\ u # v /\ Cardinality(messages) < MaxMessages
  /\ convs' = convs \cup {c}
  /\ messages' = messages \cup {m}
  /\ Commit(p, IF c \in convs THEN <<MessageEvent(lastEvent + 1, m)>>
               ELSE <<ConversationCreated(c), MessageEvent(lastEvent + 2, m)>>)
  /\ UNCHANGED <<members, existing>>

----------------------------------------------------------------------------
(* The bus *)

(* Bus.Publish by a request, which waits while the queue is full. *)
Publish(p) ==
  /\ todo[p] # <<>> /\ Len(queue) < QueueCap
  /\ queue' = Append(queue, Head(todo[p]))
  /\ todo' = [todo EXCEPT ![p] = Tail(@)]
  /\ UNCHANGED <<tables, rows, cursors, unread, running, hubVars, lastEvent, envVars,
                 ghostVars>>

(* Mutant: the dispatcher calls the handler and waits for it. *)
DispatchInline ==
  /\ queue # <<>> /\ running = {}
  /\ queue' = Tail(queue)
  /\ running' = {Handler(Head(queue))}
  /\ UNCHANGED <<tables, rows, cursors, unread, todo, hubVars, lastEvent, envVars,
                 ghostVars>>

(* One iteration of dispatch: every kind of event has one handler. *)
Dispatch ==
  /\ queue # <<>>
  /\ queue' = Tail(queue)
  /\ running' = running \cup {Handler(Head(queue))}
  /\ UNCHANGED <<tables, rows, cursors, unread, todo, hubVars, lastEvent, envVars,
                 ghostVars>>

----------------------------------------------------------------------------
(* The handlers of the inbox service *)

(* SaveInboxRoomEvent: a row for every other member of the room. *)
SaveRoomEvent(g) ==
  /\ g \in running /\ g.at = "save"
  /\ rows' = rows \cup {[user |-> u, ev |-> g.ev] : u \in members[g.ev.room] \ {g.ev.user}}
  /\ Continue(g, [g EXCEPT !.at = "upsert"])
  /\ UNCHANGED <<tables, cursors, unread, todo, queue, hubVars, lastEvent, envVars,
                 ghostVars>>

CursorThread(e) == IF e.kind = "room_join" THEN e.room ELSE e.conv

(* Mutant: the handler returns after the first cursor. *)
UpsertCursorOfOne(g, u) ==
  /\ g \in running /\ g.at = "upsert" /\ u \in g.left
  /\ cursors' = cursors \cup {<<u, CursorThread(g.ev)>>}
  /\ Continue(g, [g EXCEPT !.left = {}])
  /\ UNCHANGED <<tables, rows, unread, todo, queue, hubVars, lastEvent, envVars,
                 ghostVars>>

(* UpsertInboxConversationCursor, which leaves an existing cursor alone.   *)
(* Which of two users comes first is the order of their ids, left open.    *)
UpsertCursor(g, u) ==
  /\ g \in running /\ g.at = "upsert" /\ u \in g.left
  /\ cursors' = cursors \cup {<<u, CursorThread(g.ev)>>}
  /\ Continue(g, [g EXCEPT !.left = @ \ {u}])
  /\ UNCHANGED <<tables, rows, unread, todo, queue, hubVars, lastEvent, envVars,
                 ghostVars>>

(* Mutant: the sender is not left out. *)
UpdateCursorsOfAll(g) ==
  LET e == g.ev
      to == {u \in Users : <<u, e.thread>> \in cursors}
  IN
  /\ g \in running /\ g.at = "update"
  /\ unread' = [c \in Cursors |-> IF c[2] = e.thread /\ c[1] \in to
                                  THEN unread[c] + 1 ELSE unread[c]]
  /\ missed' = missed \cup {<<e.id, u>> : u \in Addressees(e) \ to}
  /\ Continue(g, [g EXCEPT !.at = "publish", !.out =
       {[kind |-> "inbox_entry_updated", n |-> e.n, user |-> u, thread |-> e.thread,
         unread |-> unread'[<<u, e.thread>>]] : u \in to}])
  /\ overtaken' = overtaken \cup {c \in Cursors : unread'[c] > unread[c] /\ Underway(c) # {}}
  /\ UNCHANGED <<tables, rows, cursors, todo, queue, hubVars, lastEvent, envVars, read>>

(* Mutant: a message is counted where there is no cursor, too. *)
UpdateCursorsOrCount(g) ==
  LET e == g.ev IN
  /\ g \in running /\ g.at = "update"
  /\ unread' = [c \in Cursors |-> IF c[2] = e.thread /\ c[1] \in Addressees(e)
                                  THEN unread[c] + 1 ELSE unread[c]]
  /\ End(g)
  /\ UNCHANGED <<tables, rows, cursors, todo, queue, hubVars, lastEvent, envVars,
                 ghostVars>>

(* UpdateInboxCursorOnRoomMessage and ...OnDMMessage: one statement, which *)
(* returns the new counts.                                                 *)
UpdateCursors(g) ==
  LET e == g.ev IN
  /\ g \in running /\ g.at = "update"
  /\ unread' = [c \in Cursors |-> IF c[2] = e.thread /\ c[1] \in Counted(e)
                                  THEN unread[c] + 1 ELSE unread[c]]
  /\ missed' = missed \cup {<<e.id, u>> : u \in Addressees(e) \ Counted(e)}
  /\ Continue(g, [g EXCEPT !.at = "publish", !.out =
       {[kind |-> "inbox_entry_updated", n |-> e.n, user |-> u, thread |-> e.thread,
         unread |-> unread'[<<u, e.thread>>]] : u \in Counted(e)}])
  /\ overtaken' = overtaken \cup {c \in Cursors : unread'[c] > unread[c] /\ Underway(c) # {}}
  /\ UNCHANGED <<tables, rows, cursors, todo, queue, hubVars, lastEvent, envVars, read>>

(* Mutant: an update that finds the queue full is dropped. *)
PublishUpdateDropping(g, e) ==
  /\ g \in running /\ g.at = "publish" /\ e \in g.out
  /\ queue' = IF Len(queue) < QueueCap THEN Append(queue, e) ELSE queue
  /\ Continue(g, [g EXCEPT !.out = @ \ {e}])
  /\ UNCHANGED <<tables, rows, cursors, unread, todo, hubVars, lastEvent, envVars,
                 ghostVars>>

(* Bus.Publish by a handler, for each row in the order the database chose. *)
PublishUpdate(g, e) ==
  /\ g \in running /\ g.at = "publish" /\ e \in g.out /\ Len(queue) < QueueCap
  /\ queue' = Append(queue, e)
  /\ Continue(g, [g EXCEPT !.out = @ \ {e}])
  /\ UNCHANGED <<tables, rows, cursors, unread, todo, hubVars, lastEvent, envVars,
                 ghostVars>>

(* Mutant: only the first count reaches the hub. *)
NotifyHubOnce(g) ==
  LET c == <<g.ev.user, g.ev.thread>> IN
  /\ g \in running /\ g.at = "notify"
  /\ badge' = [badge EXCEPT ![c] = IF @ = 0 THEN g.ev.unread ELSE @]
  /\ handed' = [handed EXCEPT ![c] = @ + 1]
  /\ End(g)
  /\ UNCHANGED <<tables, rows, cursors, unread, todo, queue, lastEvent, envVars,
                 ghostVars>>

(* handleInboxEntryUpdated of the hub: the count goes into Hub.broadcast.  *)
NotifyHub(g) ==
  LET c == <<g.ev.user, g.ev.thread>> IN
  /\ g \in running /\ g.at = "notify"
  /\ badge' = [badge EXCEPT ![c] = g.ev.unread]
  /\ handed' = [handed EXCEPT ![c] = @ + 1]
  /\ End(g)
  /\ UNCHANGED <<tables, rows, cursors, unread, todo, queue, lastEvent, envVars,
                 ghostVars>>

(* A statement fails: a handler of a room event gives up, one that creates *)
(* cursors goes on with the next, one of a message has no rows to publish. *)
StoreFails(g) ==
  /\ g \in running /\ faults < MaxFaults
  /\ \/ g.at \in {"save", "update"} /\ End(g)
     \/ /\ g.at = "upsert"
        /\ \E u \in g.left : Continue(g, [g EXCEPT !.left = @ \ {u}])
  /\ faults' = faults + 1
  /\ UNCHANGED <<tables, rows, cursors, unread, todo, queue, hubVars, lastEvent, resets,
                 crashes, ghostVars>>

----------------------------------------------------------------------------
(* MarkAsRead, for one thread or for all of the user's. *)
MarkAsRead(u, T) ==
  LET hit == {c \in cursors : c[1] = u /\ c[2] \in T} IN
  /\ resets < MaxResets
  /\ unread' = [c \in Cursors |-> IF c \in hit THEN 0 ELSE unread[c]]
  /\ read' = [c \in Cursors |-> IF c \in hit THEN read[c] + unread[c] ELSE read[c]]
  /\ resets' = resets + 1
  /\ UNCHANGED <<tables, rows, cursors, busVars, hubVars, lastEvent, crashes, faults, missed,
                 overtaken>>

(* The process ends and is started again: only the database survives. *)
Crash ==
  /\ crashes < MaxCrashes
  /\ todo' = [p \in Requests |-> <<>>] /\ queue' = <<>> /\ running' = {}
  /\ crashes' = crashes + 1
  /\ UNCHANGED <<tables, rows, cursors, unread, hubVars, lastEvent, resets, faults, ghostVars>>

Request(p) ==
  \/ \E u \in Users, r \in Rooms :
        CreateRoom(p, u, r) \/ Join(p, u, r) \/ Leave(p, u, r) \/ SendRoomMessage(p, u, r)
  \/ \E u, v \in Users : SendDirectMessage(p, u, v)

Handle(g) ==
  \/ SaveRoomEvent(g)
  \/ \E u \in Users : UpsertCursor(g, u)
  \/ UpdateCursors(g)
  \/ \E e \in g.out : PublishUpdate(g, e)
  \/ NotifyHub(g)

Next ==
  \/ \E p \in Requests : Request(p) \/ Publish(p)
  \/ Dispatch
  \/ \E g \in running : Handle(g) \/ StoreFails(g)
  \/ \E u \in Users : (\E t \in Threads : MarkAsRead(u, {t})) \/ MarkAsRead(u, Threads)
  \/ Crash

Spec == Init /\ [][Next]_vars

(***************************************************************************)
(* Fairness.  Goroutines that are not blocked go on.  Publishers blocked   *)
(* on the full queue are served first in, first out, so that one for which *)
(* there is room again and again gets it.  Nobody has to make a request.   *)
(***************************************************************************)
Numbers == 1..MaxEvents

Fairness ==
  /\ WF_vars(Dispatch)
  /\ \A p \in Requests : SF_vars(Publish(p))
  /\ \A n \in Numbers : SF_vars(\E g \in running : g.ev.n = n /\ Handle(g))

LiveSpec == Spec /\ Fairness

----------------------------------------------------------------------------
(* Safety *)

Undisturbed == crashes = 0 /\ faults = 0

Others(c) == {m \in messages : m.thread = c[2] /\ m.from # c[1]}

(* Messages whose handler has not come to its update yet. *)
Pending == {e.id : e \in {x \in (UNION {Range(todo[p]) : p \in Requests}) \cup Range(queue)
                                 \cup {g.ev : g \in {h \in running : h.at = "update"}} :
                            IsMessage(x)}}

(* Every message is counted at most once for every user other than its     *)
(* sender, and exactly once or, if the user had no cursor, not at all when *)
(* no statement fails and the process does not crash: however the handlers *)
(* interleave, and although counts are reset meanwhile                     *)
(* (inbox/service.go:131-170, store/inbox.sql.go:177-287).                 *)
Accounting ==
  \A c \in {d \in Cursors : d[2] \in Rooms \/ d[1] \in d[2]} :
     LET done == unread[c] + read[c]
                  + Cardinality({m \in Others(c) : <<m.id, c[1]>> \in missed})
                  + Cardinality({m \in Others(c) : m.id \in Pending})
     IN /\ done <= Cardinality(Others(c))
        /\ Undisturbed => done = Cardinality(Others(c))

(* Each increment of a count is handed to the hub once, as long as the     *)
(* process lives (inbox/service.go:144-147, 165-168, hub.go:232).          *)
CountsAreHanded ==
  \A c \in Cursors :
     LET sent == handed[c] + Cardinality(Underway(c))
     IN /\ sent <= unread[c] + read[c]
        /\ crashes = 0 => sent = unread[c] + read[c]

(* When all is handled and nothing was reset, the count that a user was    *)
(* told last is the count, unless two counts of the cursor were on their   *)
(* way at once: these may arrive in the wrong order, and the older one     *)
(* stays (bus.go:57; event.go:69 and app.go:97 suggest that it does not).  *)
LastCountIsTold ==
  InFlight = {} /\ crashes = 0 /\ resets = 0 =>
     \A c \in Cursors \ overtaken : badge[c] = unread[c]

(* A message is counted for nobody else but those whose cursor was still   *)
(* being made: a direct message passes its recipient by, or a room message *)
(* a member, only while the event that announced the conversation, or that *)
(* the member joined, is on its way (inbox/service.go:63-129, bus.go:57).  *)
MissedOnlyEarly ==
  [][\A m \in messages, u \in Users :
        <<m.id, u>> \in missed' \ missed /\ Undisturbed =>
           IF m.thread \in Rooms
           THEN u \in members[m.thread] =>
                  \E e \in InFlight : e.kind = "room_join" /\ e.user = u /\ e.room = m.thread
           ELSE \E e \in InFlight : e.kind = "conversation_created" /\ e.conv = m.thread]_vars

(* To the users, all of this is one counter for each cursor: a message is  *)
(* counted at one moment for all readers, each is told the count of that   *)
(* moment, and only failures lose anything, although events are handled    *)
(* concurrently and in any order, and publish others                       *)
(* (bus.go:37-64, inbox/service.go:63-190, store/inbox.sql.go:177-287).    *)
Uncounted == {m \in messages : m.id \in Pending}
Untold == {e \in InFlight : e.kind = "inbox_entry_updated"}

Abstract == INSTANCE Counters WITH
  waiting <- Uncounted, news <- Untold, told <- badge, failures <- crashes + faults

ImplementsCounters == Abstract!Spec

(* Every event that was published, or that waits to be, is handled in the  *)
(* end, and so are those its handler publishes: neither the full queue nor *)
(* handlers that publish to it stop the dispatcher (bus.go:41, 49-64).     *)
EventsAreHandled ==
  \A n \in Numbers : (\E e \in InFlight : e.n = n) ~> ~(\E e \in InFlight : e.n = n)

----------------------------------------------------------------------------
(* What tests and comments of the code say, and the code does not do *)

(* inbox/service_integration_test.go:239, HandleDMSent "UpdatesCursorFor-  *)
(* Recipient": a direct message is counted for its recipient.              *)
RecipientIsCounted ==
  Undisturbed => \A m \in messages : \A u \in Users :
     m.thread \in Conversations => <<m.id, u>> \notin missed
============================================================================
