------------------------------- MODULE Feeds -------------------------------
(***************************************************************************)
(* What the hub promises the users, without channels that are full, maps   *)
(* of rooms, kicks and goroutines.  All messages go through one queue.     *)
(* Each goes to the sessions that it is addressed to at that time, and a   *)
(* session to which it cannot be given gets none any more: what a session  *)
(* has got is in the order of the queue, and nothing addressed to its user *)
(* is missing in between.  Who is in a room is left open.  Module Hub      *)
(* implements it.                                                          *)
(***************************************************************************)
EXTENDS Integers, Sequences

CONSTANTS
  Users, Sessions, Rooms,
  UserOf,     \* the user of a session
  NoSession,  \* nothing is routed to the user
  Nothing     \* the session holds no message

VARIABLES
  last,     \* the messages stored so far
  stored,
  noticed,  \* the number of notifications so far
  held,     \* the message that a session has stored and not posted
  queue,    \* the messages to route
  route,    \* the session that a user's messages go to
  opened,   \* the sessions that messages ever went to
  cut,      \* the sessions whose connection is lost
  due,      \* what a session is still to see
  seen      \* what it has seen

vars == <<last, stored, noticed, held, queue, route, opened, cut, due, seen>>

Init ==
  /\ last = 0 /\ stored = {} /\ noticed = 0
  /\ held = [s \in Sessions |-> Nothing]
  /\ queue = <<>>
  /\ route = [u \in Users |-> NoSession]
  /\ opened = {} /\ cut = {}
  /\ due = [s \in Sessions |-> <<>>]
  /\ seen = [s \in Sessions |-> <<>>]

(* A session sends a message, which is stored. *)
Send(s, m) ==
  /\ held[s] = Nothing
  /\ last' = m.id
  /\ stored' = stored \cup {m}
  /\ held' = [held EXCEPT ![s] = m]
  /\ UNCHANGED <<noticed, queue, route, opened, cut, due, seen>>

SendToRoom(s, r) == Send(s, [kind |-> "room", id |-> last + 1, from |-> s, room |-> r])

SendToUser(s, u) ==
  /\ u # UserOf[s]
  /\ Send(s, [kind |-> "direct", id |-> last + 1, from |-> s, to |-> u])

(* It is posted before the session sends another. *)
Post(s) ==
  /\ held[s] # Nothing
  /\ queue' = Append(queue, held[s])
  /\ held' = [held EXCEPT ![s] = Nothing]
  /\ UNCHANGED <<last, stored, noticed, route, opened, cut, due, seen>>

Notify(u) ==
  /\ noticed' = noticed + 1
  /\ queue' = Append(queue, [kind |-> "inbox", id |-> noticed + 1, to |-> u])
  /\ UNCHANGED <<last, stored, held, route, opened, cut, due, seen>>

(* A user's messages go to session s from now on, for the only time. *)
Open(s) ==
  /\ s \notin opened
  /\ opened' = opened \cup {s}
  /\ route' = [route EXCEPT ![UserOf[s]] = s]
  /\ UNCHANGED <<last, stored, noticed, held, queue, cut, due, seen>>

Close(u) ==
  /\ route' = [route EXCEPT ![u] = NoSession]
  /\ UNCHANGED <<last, stored, noticed, held, queue, opened, cut, due, seen>>

Online == {u \in Users : route[u] # NoSession}

(* The sets of users that message m may go to. *)
Audiences(m) ==
  CASE m.kind = "room"   -> SUBSET Online
    [] m.kind = "direct" -> {{UserOf[m.from], m.to} \cap Online}
    [] m.kind = "inbox"  -> {{m.to} \cap Online}

(* The next message goes to users G, and those whose sessions are in F     *)
(* miss it.                                                                *)
Deliver(G, F) ==
  LET m == Head(queue)
      to == {route[u] : u \in G}
  IN /\ queue # <<>> /\ queue' = Tail(queue)
     /\ G \in Audiences(m) /\ F \subseteq to
     /\ due' = [s \in Sessions |-> IF s \in to \ F THEN Append(due[s], m) ELSE due[s]]
     /\ route' = [u \in Users |-> IF route[u] \in F THEN NoSession ELSE route[u]]
     /\ UNCHANGED <<last, stored, noticed, held, opened, cut, seen>>

See(s) ==
  /\ s \notin cut /\ due[s] # <<>>
  /\ due' = [due EXCEPT ![s] = Tail(@)]
  /\ seen' = [seen EXCEPT ![s] = Append(@, Head(due[s]))]
  /\ UNCHANGED <<last, stored, noticed, held, queue, route, opened, cut>>

Cut(s) ==
  /\ cut' = cut \cup {s}
  /\ UNCHANGED <<last, stored, noticed, held, queue, route, opened, due, seen>>

(* What a session without a connection was to see it never sees. *)
Lose(s) ==
  /\ s \in cut /\ due[s] # <<>>
  /\ due' = [due EXCEPT ![s] = Tail(@)]
  /\ UNCHANGED <<last, stored, noticed, held, queue, route, opened, cut, seen>>

Next ==
  \/ \E s \in Sessions :
       \/ \E r \in Rooms : SendToRoom(s, r)
       \/ \E u \in Users : SendToUser(s, u)
       \/ Post(s) \/ Open(s) \/ See(s) \/ Cut(s) \/ Lose(s)
  \/ \E u \in Users : Notify(u) \/ Close(u)
  \/ \E G \in SUBSET Users, F \in SUBSET Sessions : Deliver(G, F)

Spec == Init /\ [][Next]_vars
============================================================================
