# chattui in TLA+

Specifications of chattui, a chat server with a terminal client, written from
its Go source: what each concurrent part does, which properties it has on small
instances (checked with TLC), and which it has for all parameters (proved with
TLAPS). The configurations whose names say what they refute document where the
code does not do what a comment or a test says.

## The system

The server keeps users, rooms, conversations and messages in PostgreSQL and talks
to its clients over HTTP and, for chat, over one WebSocket per session.

| part | source | state | operations | talks to |
|---|---|---|---|---|
| hub | `cmd/server/internal/ws/hub.go` | `clients` (user → session), `rooms` (room → users), the queue `broadcast` | the four cases of the select in `Run`; `kickClient` | sessions, by channels; the bus, as a subscriber |
| session | `ws/client.go` | `roomIDs`, the channel `send` | `ReadPump` and `WritePump`, a goroutine each | hub, room and conversation services, the peer |
| `/ws` handler | `api/handlers/ws.go` | none | `Upgrade`: token, the user's rooms, `Register`, start of the pumps | room service, hub |
| room service | `room/service.go` | tables `rooms`, `room_members`, `messages` | `Create`, `Join`, `Leave`, `SendRoomMessage` | bus |
| conversation service | `conversation/service.go` | tables `conversations`, `messages` | `SendDirectMessage` | bus |
| event bus | `bus/bus.go` | a queue of 512 events | `Publish` (waits when full), `dispatch` (a goroutine for each event) | its subscribers |
| inbox service | `inbox/service.go` | tables `inbox_events`, `inbox_conversations` | a handler for each of five kinds of event; `MarkAsRead` | bus, hub (through `inbox_entry_updated`) |
| HTTP handlers | `api/handlers` | none | room Create/Join/Leave update the database, Join and Leave then the hub | services, hub |
| auth | `auth/service.go` | table `users`; tokens with an expiry | `Register`, `Login`, `ParseToken` | |
| WebSocket client | `cmd/client/internal/ws/client.go` | `conn`, `sendCh` (64 messages) | `Connect`, retry loop, read loop, write loop, `Send` | the event loop, by `program.Send` |
| application | `cmd/client/internal/ui/app.go` | active screen, unread badges, connection indicator | `Update`, one message at a time | everything on the client |
| chat screens | `ui/chat`, `ui/dmchat` | the transcript | history over HTTP, messages over the WebSocket | HTTP API, WebSocket client |
| inbox screen | `ui/inbox` | the feed | load, upsert on push, mark as read | HTTP API, application |
| room and conversation lists | `ui/rooms`, `ui/dm` | lists, the forms for a new room or peer, shared badges | load, join, create, find a peer | HTTP API, application |
| login screen | `ui/auth` | mode, `loading` | `submit`, `toggleMode` | HTTP API, application |

What makes these parts correct, and what is hard about them:

- *Hub and sessions.* Three copies of "who is in which room with which session"
  (`clients`, `rooms`, `roomIDs`) must agree, whatever the order of connecting,
  disconnecting, kicking a slow client and changing rooms; a send to a missing
  client or on a closed channel, and closing a channel twice, end the process.
  Every goroutine of the server waits for the hub at some point, so the hub must
  wait for none. Messages must keep their order, and what is shown must be stored.
- *Bus and inbox.* Handlers run in any order and concurrently; a count of unread
  messages is incremented by some and reset by others. Each message counts once
  for each reader, each count is announced once, and a bus whose handlers publish
  to the same bus must not block itself. A crash may lose events, not double them.
- *WebSocket client.* Loops of an old connection may still run beside those of
  the new one. Messages must not be doubled or overtake each other; the loss of a
  connection must be noticed, shown and answered by a new attempt; the event loop
  must not hang.
- *Application.* Commands run beside the event loop and their results come in any
  order, to whatever screen is active by then. Snapshots of the unread counts fetched
  over HTTP race with updates pushed over the WebSocket; each path alone must lead to
  the counts of the server once all is at rest, and no late result may crash the program.
- *Chat screens.* A history fetched over HTTP meets messages that come live: nothing may
  be missing, doubled or of another chat, and the indicator must tell the truth.
- *Rooms.* A request changes the database first and the hub later, and an upgrade reads
  the database first and registers later: both together must leave the hub with the
  rooms of which the user is a member.
- *Login.* Two registrations of one name race between lookup and insertion; a form must
  neither submit twice nor be stuck; nobody may get a token with a wrong password.

`PROJECT.json` lists all components and, under "hazards", each of these risks at
the line where it bites.

## Modules

| module | what it is |
|---|---|
| `Hub` | hub, ReadPump, WritePump, connections |
| `Feeds` | abstract: one ordered queue, of which each session sees a part; `Hub` implements it |
| `HubProofs` | theorems about `Hub`: its maps, what ends the process, the order of messages, the refinement of `Feeds` |
| `MCHub` | users and sessions for TLC |
| `Inbox` | room, conversation and inbox services over the event bus |
| `Counters` | abstract: one counter for each user and thread; `Inbox` implements it |
| `BusProofs` | the invariant of `Inbox` that theorems about it rest on: where events are |
| `InboxProofs` | theorems about `Inbox`, the refinement of `Counters` among them |
| `MCInbox` | names and symmetry for TLC |
| `ClientWS` | the client's loops and its event loop |
| `Outbox` | abstract: what becomes of a message that the user types; `ClientWS` implements it |
| `ClientWSProofs` | theorems about `ClientWS`, the refinement of `Outbox` among them |
| `MCClientWS` | the module TLC runs it from |
| `Auth` | login screens, registration and login |
| `Accounts` | abstract: registering and logging in, one step each; `Auth` implements it |
| `AuthProofs` | theorems about `Auth`, the refinement of `Accounts` among them |
| `Presence` | extends `Auth`: the requests of users logged in to create, join and leave rooms, and upgrades, against the hub's rooms |
| `PresenceProofs` | theorems about the composition |
| `MCPresence` | names and symmetry for TLC |
| `App` | the application: screens, commands, badges, with the counts of the server |
| `AppProofs` | theorems about `App` |
| `MCApp` | what may await the user, for TLC |
| `Transcript` | the chat screens, histories and live messages, the connection indicator |
| `TranscriptProofs` | theorems about `Transcript` |
| `MCTranscript` | names and symmetry for TLC |

The modules meet where the parts do: the `read` and `pushes` of `App` are the resets and
notifications of `Inbox`, the `routed` of `Presence` are the rooms that a session of
`Hub` starts with and is told of, the `feed` of `Transcript` is what the read loop of
`ClientWS` delivers. Each module takes of its neighbour what can reach it, and no more,
so that TLC can exhaust it.

A definition marked "Mutant" in a module is not part of the specification. It is
a changed version of the definition behind it, a bug one could make there; put in
that definition's place it makes a property fail that holds otherwise
(`PROJECT.json`, "mutants").

### Hub

One iteration of `Hub.Run` is one action, because the hub never blocks inside an
iteration: `RegisterClient`, `UnregisterClient`, `UpdateUserPresenceInRoom`,
`BroadcastMessage`. `ReadPump` is a process with the states of `reader`: after
storing a message it holds it in `job` ("posting") until there is room in
`broadcast`; a presence update that it applies itself takes two steps, since it is
outside the hub goroutine (`DispatchUserRoomUpdate` looks the client up,
`ApplyPresence` writes the maps). `WritePump` moves messages from `send` to
`wire`, the list of what was written to the connection.

Run-time panics are states, not errors of the model: `panic` names the one that
ended the process. A map race that the Go runtime may detect is the
nondeterministic action `MapRace`. `overlapped` and `stale` are history variables:
has a session been registered over another of its user; was a presence update
applied to a session already replaced.

Left open, so that any value may occur: the rooms a session starts with (the
snapshot `Upgrade` takes from the database), and when HTTP requests make someone
join or leave. Left out: message bodies, timestamps, JSON.

`Abstract` is an instance of `Feeds`: what a session has in `job` is held, the client of a
user is the session its messages are routed to, what is in a channel is due, what was
written is seen, and what is left in the channel of a connection that is lost may be dropped.

### Inbox

A request commits in one step and keeps the events it must still publish in
`todo`; `Publish` waits while the queue is full. `Dispatch` starts a handler, a
record in `running` that says what it does next; each database statement is one
step. The statement that updates the cursors of a room increments all counts at
once and returns them, and the handler then publishes them one by one, through the
same queue. `NotifyHub` stands for the hub's handler. `Crash` empties everything
but the tables, `StoreFails` makes one statement fail.

History variables: `read` sums up what `MarkAsRead` took away, `missed` holds
messages that found no cursor for a reader, `overtaken` the cursors of which two
counts were on their way at once.

`Abstract` is an instance of `Counters`, in which a message waits as long as its event does, the
counts published and not handed over are news, and crashes and faults are failures.

### ClientWS

The event loop is `ui`: "idle", or "sending" while it waits in `Client.Send` for
room in `sendCh`. All who call `program.Send` wait until the loop is idle and takes
their message (the `Take...` actions). Each pair of loops has a number; `cancelled`
holds those whose context is done. The loops use `Client.conn` when they call it,
which may be the next connection already: then a call with a cancelled context may
close that one (`FailCancelled`). Failing to dial starts two loops all the same, on
the lost connection, as the `continue` in `runLoopsWithRetry` does. How long the
backoff is and whether a token is still valid is left out: dialling may fail at any
time. `Close` has no caller and is not modelled.

`Abstract` is an instance of `Outbox` in which what is on the wire is sent, and what
is in `lost` is dropped.

### Auth and Presence

In `Auth` a form is submitted as a call, a record in `calls` that says which statement
is next. `Lookup` and `CreateUser` are the two statements of `Register`, and any error
of the lookup counts as "not found", as in the code; the unique index of the table is
in `CreateUser`. `Login` reads one row and compares. Answers wait in `answers` for the
program's event loop; `CallFails` and `AnswerLost` differ in whether the call took
effect. History: `password` is what a program gave for its token, `created` counts the
registrations that succeeded.

`Presence` adds requests of programs with a valid token. `JoinOrLeave` is the
statement, `UpdateUserRoomState` the later call to the hub; `ReadRooms` and
`RegisterSession` are the two halves of `Upgrade`; `CreateRoom` has no second half, as
in the code. `crossed` is a history variable: the pairs of user and room for which a
change came between the halves of an upgrade, or the opposite change had not been told
yet, or the room was created by the user with a session. A user has one session at a
time in this module; what two do to the hub's maps is the subject of `Hub`.

### App

One action for each case of `App.Update` and of the lists' and the inbox's `Update`
(`Take...`), for each key that starts something (`Press...`), and for what the server
does with a request (`Serve...`). `work` and `mail` are bags, since neither commands
nor their results keep an order. `Message`, `RoomEvent`, `Connect` and `Disconnect` are
the rest of the world: a count goes up and is pushed, or not if the hub has no session.
`TakeShowList`, `TakeOpenRoom` and so on make new models, with what `Init` of each
starts. A result for a screen that is gone is `TakeForeign`. Counts carry the version
of the server's count that they were read from, a history variable to tell an older
count from a newer one; `behind` and `stray` are history variables, too. The inbox's list
and the answers that fill it are sets of entries: how they are sorted plays no part in what
is counted. The feed of the server keeps its order, since `GetInbox` returns the first 50.

### Transcript

`Open` is `New` and `Init` of a chat, `TakeHistory` appends a history, `TakeIncoming` a
live message, in `Shows` by the rule of each kind of chat. An answer carries no chat, so
any chat of the kind takes it. A message is stored, routed to the session later and in
any order (`Route`), and lost if there is none. `TakeError`, `TakeClient` and
`TakeNotice` move the indicator. `openedAt`, `failed`, `overlap`, `raced` and `misled`
are history variables, which name the races that the properties except.

## What is checked

All runs switch TLC's deadlock check off: the bounds and crashes stop the systems, and a peer
or a user may do nothing for ever. That nobody waits for ever is stated by the
liveness properties instead.

| run | instance | shows |
|---|---|---|
| `hub_safety` | 2 sessions of one user, a second user, 1 room, channels of capacity 1, a message and a notification | `OpenClients`, `SessionRouted`, `RoomsMatchClients`, `PanicCause`, `ImplementsFeeds`, `TypeOK` |
| `hub_order` | 2 sessions of two users, channels of capacity 2, 2 messages | `SenderOrder`, `SameOrder`, `SeenIsStored` |
| `hub_live` | 2 sessions of two users, no room, capacity 1, 2 messages | `RequestServed`, `StoredIsRouted`, `QueuedIsWritten`, `DisconnectedIsForgotten` |
| `inbox_safety` | 2 users, 1 room, 2 requests, queue of 2, 4 events, a reset, a crash, a failing statement | `Accounting`, `CountsAreHanded`, `LastCountIsTold`, `MissedOnlyEarly`, `TypeOK` |
| `inbox_live` | queue of 1, 3 events, a reset, a crash, a failing statement | `EventsAreHandled`, `ImplementsCounters` |
| `client` | `sendCh` of 2, 3 messages, 2 pairs of loops | `SentInOrder`, `MessagesAccounted`, `GivenUpIsClosed`, `ImplementsOutbox`, `LossIsShown`, `LossIsRetried`, `TypeOK` |
| `presence` | 2 programs, 2 names, 2 passwords, 1 room, 3 forms, 3 requests, a failing statement or lost answer, a lost session | `TokenIsOwn`, `LoadingIsUnderway`, `ImplementsAccounts`, `RoomsAreMembers`, `TypeOK` |
| `app` | 1 room, 1 conversation, either nothing unread or both, feed of 2, 3 keys, 1 event from outside | `BadgesMatch`, `TotalMatches`, `RoomIsShown` |
| `transcript` | 2 rooms, 2 conversations, histories of 1, 2 messages, 2 chats opened, a fault | `NothingMissing`, `LoadingEnds`, `InOrder`, `ForeignCause`, `StatusIsTrue` |

Why the bounds are enough to be interesting: capacities of 1 and 2 make every queue
fill up and every client be kicked; two sessions of one user are what it takes to
overlap; two messages can overtake each other; four events on the bus are a new
conversation with its first message and two more events in any order, and their
updates queue up behind them; a second pair of loops meets late survivors of the first
(what any number of pairs does is proved, below); two programs and three forms are a
race of registrations and a login; three requests are an upgrade with a change inside,
or two opposite changes and an upgrade; three keys leave a list, come back, and mark or open
something before the answers arrive, and a feed of 2 is full as soon as a room event
joins it; a history of 1 cuts off the older of two messages, and the second chat opened
meets the late answer of the first. The bounds are constants named in each module (`MaxID`, `MaxPush`,
`MaxEvents`, `MaxTyped`, `MaxSubmits`, `MaxRequests`, `MaxKeys`, `MaxOutside`, `MaxOpens`, ...) and appear only in guards of actions that produce new
work. Users and requests of `Inbox`, programs, names and passwords of `Presence`, and rooms
and conversations of `Transcript` are interchangeable, and TLC uses that (`Symmetry`)
where only safety is checked.

What the properties say, in short:

- `OpenClients`: a session the hub would send to has an open channel. `SessionRouted`,
  `RoomsMatchClients`: the hub's maps agree with the sessions, unless sessions of one
  user overlapped or a presence update came late, which do break them (see below).
  `PanicCause` lists what can end the process.
- `SenderOrder`, `SameOrder`: one order for all. `SeenIsStored`: nothing is shown
  that was not stored, and no direct message to a third user. `ImplementsFeeds` adds that
  nothing is missing in between: a session gets all that is addressed to its user, in the
  order of the queue, until it gets no more at all: a session whose channel is full misses
  this message and all that follow. Who is in a room is left open there; that is the
  subject of `RoomsMatchClients`.
- `Accounting`: for every reader of a thread, messages counted, read, missed and pending
  add up to the messages of others, exactly as long as nothing fails, and never exceed
  them. `CountsAreHanded`: the same between increments and notifications.
  `LastCountIsTold`: once the events are handled, the user was last told the present
  count, unless two updates of it were under way at once. `MissedOnlyEarly`: the only reason for a
  reader to be passed by is a cursor that is still being made. `ImplementsCounters`: all of it
  amounts to counting each message at one moment for all who have a cursor then, and telling
  each of them that count, in any order; and only a failure takes anything away.
- `SentInOrder`, `MessagesAccounted`: what the user typed is in one place, is sent once
  and in order, and each pair of loops drops one message at most. `GivenUpIsClosed`:
  two pairs of loops never both believe in their connection. `ImplementsOutbox`: all of it
  amounts to sending each message once at most, in order, or dropping it for good.
- `TokenIsOwn`: a token only for the user's own password. `LoadingIsUnderway`: a form
  loads exactly while its one submission is under way. `ImplementsAccounts`: with all
  the races, registering and logging in are one step each.
- `RoomsAreMembers`: the hub routes to a session the rooms of which its user is a member,
  up to changes that it is about to be told, and those that crossed.
- `BadgesMatch`: at rest, badges are the counts of the server, unless a named race put a
  thread behind or its entry is beyond the feed. `TotalMatches`: the badge of the other
  tab agrees with the badges of its list. `RoomIsShown`: the application knows a room
  exactly while its chat is shown, so that leaving it finds one.
- `NothingMissing`, `InOrder`, `ForeignCause`: at rest, a chat shows what was stored for
  its thread; in order and none twice unless history and live messages met; and of other
  threads only what the code lets in. `LoadingEnds`: only a failed request leaves a chat
  loading. `StatusIsTrue`: at rest, the indicator tells how the connection is, unless
  something else changed it last.

### Where code and comments disagree

Each of these runs checks one statement of a comment or test, and TLC refutes it.

| run | statement | what happens |
|---|---|---|
| `hub_double_close` | unregistering does not panic | a kicked session unregisters when its connection ends: its channel is closed twice and the server dies |
| `inbox_recipient` | a direct message is counted for its recipient | the first one may be handled before the cursor exists |
| `client_send_returns` | `Send` enqueues a message | the event loop and the write loop wait for each other |

More that the models show without a run of its own; the properties that hold name each
of these as the exception that they make:

- With two sessions of one user, the end of one leaves the user in `rooms` without a
  client, and the next message there is a nil dereference (`RoomsMatchClients`,
  `PanicCause`). `ReadPump` writes the hub's maps itself, although a comment calls the hub
  goroutine their sole owner (`ApplyPresence`, `MapRace`).
- A kicked session's connection is never closed, and its peer can go on sending.
- Two updates of a count may be handed over in the wrong order, and the older one stays on
  the screen (`LastCountIsTold`). Former members of a room are still counted and notified,
  since leaving keeps the cursor.
- The message a write loop holds when its connection fails is dropped, and so may be one
  more after each failed attempt to reconnect, since new loops start on the lost connection.
- Creating a room never tells the hub: messages of the new room do not reach the user who
  created it before the next upgrade, or a Join (`RoomsAreMembers`, `crossed`).
- Two keys in a row, esc twice for one, send `LeaveRoomMsg` to an application without a
  room, which dereferences nil (`RoomIsShown`, `stray`).
- Badges fetched before an update was pushed overwrite it, and nothing fetches them again
  before a screen changes (`BadgesMatch`, `behind`).
- An inbox that is left and opened again before the answer to a mark applies it to a list
  that is still empty, from which it computes all badges; entries that were fetched before the
  mark then bring the old count back (`TakeMarked`, `behind`). Where this breaks `BadgesMatch` is
  beyond the bounds of the run: the proof did not go through before the race was named.
- A push for a thread of the other list changes its badge but not the total of the tab
  (`TotalMatches`, `late`).
- A failed request for a history leaves the chat loading, and the messages that come live
  hidden, until it is opened again (`LoadingEnds`). It also turns the connection
  indicator to offline on a working connection (`StatusIsTrue`, `misled`).
- The history of a conversation left early is shown in the conversation opened next,
  although `dmchat` is written to show messages of its own peer only (`ForeignCause`,
  `overlap`); a chat of a room shows live messages of every room.

### Fairness

Safety is checked without fairness. The liveness runs and `client` use `LiveSpec`:

- a goroutine that can go on does (weak fairness): Go's scheduler is preemptive;
- a case of the hub's select that stays ready is taken (weak fairness): select picks
  at random among ready cases and every iteration ends;
- a sender that waits on a channel is served if there is room again and again
  (strong fairness of `PostBroadcast`, `Publish`, the steps of handlers, and the
  event loop's `Take...` actions): the runtime queues waiting senders first in,
  first out;
- nothing is assumed of peers (a write may wait for one that does not read for ever;
  `QueuedIsWritten` is about peers that do), users, HTTP requests, the network or the database's
  choices: no session need connect, no connection need break, no dial succeed.

Each property of the hub allows for the end of the process (`Dead`), and each of the
client's for an event loop that hangs, which a run above shows to be possible.

## What is proved

Eight modules hold proofs, for all values of the constants that satisfy the `ASSUME` of
the module they are about (bounds are natural numbers, capacities too, `None` is none of the
rest; each session has a user; no room is a conversation; the user of `App` has finitely many
threads, and none of them twice in what awaits the user).

| module | theorem | says |
|---|---|---|
| `HubProofs` | `TypeCorrect` | `TypeOK` |
| | `OpenClientsAlways` | `OpenClients` |
| | `SessionRoutedAlways` | `SessionRouted` |
| | `RoomsMatchClientsAlways` | `RoomsMatchClients` |
| | `PanicCauseAlways` | `PanicCause` |
| | `SenderOrderAlways` | `SenderOrder` |
| | `SameOrderAlways` | `SameOrder` |
| | `SeenIsStoredAlways` | `SeenIsStored` |
| | `Refinement` | `ImplementsFeeds` |
| `BusProofs` | `TypeCorrect` | `TypeOK` of `Inbox` |
| `InboxProofs` | `CountedOnce` | `Accounting` |
| | `CountHandedOnce` | `CountsAreHanded` |
| | `PassedByEarly` | `MissedOnlyEarly` |
| | `LastTold` | `LastCountIsTold` |
| | `Refinement` | `ImplementsCounters` |
| `ClientWSProofs` | `TypeCorrect` | `TypeOK` |
| | `LoopsGivenUpAreClosed` | `GivenUpIsClosed` |
| | `SentStaysInOrder` | `SentInOrder` |
| | `Refinement` | `ImplementsOutbox` |
| | `NothingDisappears` | `MessagesAccounted` |
| `AuthProofs` | `AuthTypeCorrect`, `TokensAreOwn`, `NamesRegisteredOnce`, `FormsLoad`, `Refinement` | the same of `Auth` by itself as the next rows of the composition |
| `PresenceProofs` | `PresenceTypeCorrect` | `TypeOK` |
| | `PresenceTokensAreOwn` | `TokenIsOwn` |
| | `PresenceNamesOnce` | `RegisteredOnce` (at most one registration of a name succeeds) |
| | `PresenceForms` | `LoadingIsUnderway` |
| | `PresenceRefinement` | `ImplementsAccounts` |
| | `RoutedRoomsAreMembers` | `RoomsAreMembers` |
| `AppProofs` | `TypeCorrect` | `TypeOK` |
| | `RoomShown` | `RoomIsShown` |
| | `Total` | `TotalMatches` |
| | `Badges` | `BadgesMatch` |
| `TranscriptProofs` | `TypeCorrect` | `TypeOK` |
| | `Complete` | `NothingMissing` |
| | `Loads` | `LoadingEnds` |
| | `Ordered` | `InOrder` |
| | `Foreign` | `ForeignCause` |
| | `Indicates` | `StatusIsTrue` |

**Hub.** `TypeOK` is inductive by itself. `OpenClients` is not: `RegisterClient` makes a session
a client, so that one must know that a session not yet registered has an open channel
(`FreshOpen`); the two together, `OpenInv`, are inductive. `SessionRouted` and
`RoomsMatchClients` are inductive relative to it, as `RouteInv`: unregistering deletes a
user's entry whichever session it holds, and it is the right one because a session that
is registered and open is the one routed to; kicking removes a session from the rooms in
its own `roomIDs`, and that is enough because these and `rooms` agree. `PanicCause` then
follows from both. Most actions touch none of this: the lemma `Steps` splits a step into
the five that do and a "quiet" rest, so that each invariant has only those cases to
prove; `BroadcastEffect` says what routing a message does to the maps.

For the order of messages, the module puts what a session was sent, what its channel
holds and the hub's queue into one `Line`. `OrderInv` says of all lines what `SenderOrder` and
`SameOrder` say of what was sent, and that a message about to be posted is stored and newer
than its sender's messages in the lines (`JobIsNewest`). Each step thins the lines
(`ThinningStep`), appends one message to all (`ExtendingStep`), or stores a message with a
new id (`PersistOrder`). That messages go to their addressees only needs `OpenInv`: the client
of a user is a session of that user.

`Refinement` maps each step of the hub to one of `Feeds`, or to none: there is a lemma for
each of `Send`, `Post`, `Notify`, `Open`, `Close`, `Deliver`, `See`, `Cut` and `Lose`. It needs
`TypeOK`, and that a session with a `WritePump` has been registered (`Started`), so that what a
`WritePump` drops when it ends is a session's whose connection was opened and lost. The heart is
`BroadcastDelivers`: the clients that `BroadcastMessage` finds are an audience of the message
(`TargetsAreAudience`), and those with a full channel are exactly those that are kicked. A
broadcast that ends the process delivers nothing.

**Bus and inbox.** `TypeOK` alone is far from inductive: a handler that updates cursors must
have an event of a message in its hand, one that makes cursors a join or a new conversation.
`BusInv` says what each handler holds (`HandlerOK`), that every event is in one place only
(`Apart`), that those of messages speak of stored messages and differ in them (`MessagesOK`,
`Numbered`), and that no count of a message is published before its cursors are updated.
Each action has a lemma (`...Inv`) that it keeps `BusInv`, and what it does to the messages
that wait and to the counts on their way; `BusStep` sorts the steps by that into `Kinds`, of
which only a send, an update of cursors, a hand-over, a fault and a crash matter. The four theorems
each add a conjunct about one cursor: the ledger balances (`Balanced`, with `Fresh`: nobody
misses a message before its handler runs); what was handed and what is underway make up the
count (`HandedAll`); one count at most is underway where none was overtaken (`Told`); and who
is entitled to a cursor has it, or an event is in flight whose handler has it still to make
(`Coming`). Cardinalities change by one at a time, because `Numbered` and `Apart` show
what is added to be new and what is removed to be unique.

`Refinement` needs no more than `BusInv`. `Underlying` says which messages wait in terms of
events that are not served. `UpdateCursors` is the `Count` of `Counters`, because its one statement
finds the readers and increments their counts at once (`UpdateCounts`), `NotifyHub` is its
`Tell`, and a handler or a crash that drops events is its `Fail`; what publishes and dispatches
between them is invisible (`Unseen`).

**WebSocket client.** `TypeOK` is not inductive, since loops are started with the number after
the last: `LoopInv` adds that loops of the future are off, those of the past are given up,
that the retry loop goes on only when the last loops are, and that whoever failed on the
present connection did so because it is closed. Together, `ClientInv`, they give
`GivenUpIsClosed`. For the messages, `OrderInv` orders the wire, the message in the hand of the
loop not given up, `sendCh` and the message that waits in `Send`; `LostInv` keeps dropped
messages out of all these places. A loop that was given up may hold a message older than
the last on the wire, so that the order holds of the hand of the other loop only: the old one
can only drop its message, which is why `Outbox` lets any unsent message be dropped at any time.
`MovesOrUnmoved` leaves the few actions that move a message.

`MessagesAccounted` is a sum over all the places where a message can be, and needs
`MsgInv`, the above together, for each step of it: a message moves from one place to the next,
and the number in each changes by one since the order forbids that it was there already
(`Counts`, `Unheld`). How many were dropped is bounded by counting the pairs of loops that
have ended: a write loop drops what it holds when it ends, and only then.

**Registration and login.** `AuthInv` adds to `TokenIsOwn` and `LoadingIsUnderway` that an answer
which grants a token is true (`AnswersAreTrue`), that `created` counts what is in the table
(`CreatedIsStored`), and that nobody loads who left the screen (`LoadingIsOnScreen`): so a
program that takes an answer has no token yet, which is what `Accounts` asks for.
Every step is a stutter of `Accounts` but the insertion and the taking of a token.

**Rooms.** `PresenceInv` adds to `RoomsAreMembers` that what the hub is about to be told
is what the table has (`ToldIsStored`), and that so is what an upgrade has read
(`ReadIsStored`), each unless the pair is in `crossed`: then every half finished request
carries the truth to the hub. `ImpliesAuth` shows that each step of the composition is one of
`Auth` or leaves its state alone, so that the theorems of `AuthProofs` hold in it unchanged.

**Application.** `TypeOK` says little of what messages carry; `AppTypes` adds that each message
names a thread of its kind and that lists hold entries of threads. `RoomIsShown` is then
inductive, and so is `TotalInv`, that the total is the sum of all badges unless a push was late;
`Totals` splits that sum in rooms and conversations. Most actions keep both (`Steady`).
`BadgesMatch` is about rest, so that its invariant must say how the application gets there.
`OldInv`: every count on its way, in a list or a message, is the server's or of an
earlier version. `SettledInv`: for each thread, the badge is right, or the thread is behind, or
not in the feed, or a chat is shown, or something that brings the server's count is under way
(`Pending`: a fetch of all badges, a message with the count, a push). A step that takes such a thing
either makes the badge right or overwrites it by an older count, which is what the history
variable `behind` records; `OldInv` shows that there is no third possibility.

**Transcripts.** `TypeInv` knows that all messages in the feed, in histories and on the screen are
stored ones. `NumbersOnce` and `CountOK` identify a request and its answer by the number of the chat that asked;
`LoadingInv` follows the one of the present chat, and gives `LoadingEnds`. `StatusInv` says
that the last notice under way is true, and that the indicator is when there is none.
`ForeignInv`: an answer for another chat is awaited only if chats overlapped. `OrderInv` is about the
chats with neither race nor overlap: the feed is in the order stored, what is shown comes before
what the history will show, and both before what is to come. `MissingInv` says of each
message of the thread where it is: shown, lost, to be routed, in the feed, in the history
under way, or older than what a history holds; the last by counting the newer ones (`HistoryLists`).

`TypeOK` of `App` and of `Transcript` is proved and not in the runs.

Only model-checked: the liveness properties, which are out of reach of the prover as are
`ENABLED` and induction over data, and the statements that the runs refute. The formulas that
carry the proofs of `App` and `Transcript` were checked with TLC as invariants of the runs
before they were proved.

## Plan

Done of the plan so far: `Hub`, `Inbox`, `ClientWS`, the composition of rooms and logins,
the application's badges, the transcripts, four refinements, and the proofs of all safety
properties and refinements. Left is to check pure functions against reference definitions:
`parseLimit`, the validation in `MarkAsRead`, the mapping of feed rows.

## Not modelled

Drawing, typing and filtering of the client, layout and themes, configuration, start-up, routing and error
formatting, the generated query code beyond the statements the services use, and the
lookup of users beyond whether a peer is found: they keep no state that others depend
on. Hashing of passwords and signing of tokens: a password is compared, a token is the
user it was made for. `PROJECT.json` gives the reason for each.
