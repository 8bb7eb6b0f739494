----------------------------- MODULE BusProofs -----------------------------
(***************************************************************************)
(* Where events are, for any users, rooms, requests, capacity of the queue *)
(* and bounds: every event is in one place, has the type that its handler  *)
(* expects, and speaks of a message that is stored.  Each action keeps     *)
(* this invariant; what it does to the events that count is stated beside. *)
(***************************************************************************)
EXTENDS Inbox, FiniteSetTheorems, TLAPS

----------------------------------------------------------------------------
(* Sequences *)

Injective(q) == \A i, j \in 1..Len(q) : q[i] = q[j] => i = j

(* The elements of a sequence are those at its places. *)
LEMMA RangeOfSeq ==
  ASSUME NEW S, NEW q \in Seq(S)
  PROVE  /\ Range(q) = {q[i] : i \in 1..Len(q)}
         /\ Range(q) \subseteq S
         /\ \A i \in 1..Len(q) : q[i] \in Range(q)
BY DEF Range

(* Taking the first of a sequence without repetitions removes it. *)
LEMMA TakeFirst ==
  ASSUME NEW S, NEW q \in Seq(S), q # <<>>, Injective(q)
  PROVE  /\ Head(q) \in S /\ Head(q) \in Range(q)
         /\ Tail(q) \in Seq(S) /\ Len(Tail(q)) = Len(q) - 1 /\ Injective(Tail(q))
         /\ Range(Tail(q)) = Range(q) \ {Head(q)}
<1>1. /\ Len(q) \in Nat \ {0} /\ Head(q) = q[1] /\ Tail(q) \in Seq(S) /\ Len(Tail(q)) = Len(q) - 1
      /\ \A i \in 1..(Len(q) - 1) : Tail(q)[i] = q[i + 1]
  OBVIOUS
<1>2. Injective(Tail(q))
  BY <1>1 DEF Injective
<1>3. \A x \in Range(Tail(q)) : x \in Range(q) /\ x # Head(q)
  <2>1. SUFFICES ASSUME NEW i \in 1..Len(Tail(q))
                 PROVE  Tail(q)[i] \in Range(q) /\ Tail(q)[i] # Head(q)
    <3>1. Range(Tail(q)) = {Tail(q)[i] : i \in 1..Len(Tail(q))}
      BY <1>1, RangeOfSeq
    <3>2. QED
      BY <3>1
  <2>2. i + 1 \in 1..Len(q) /\ 1 \in 1..Len(q) /\ i + 1 # 1 /\ Tail(q)[i] = q[i + 1]
    BY <1>1
  <2>3. QED
    BY <1>1, <2>2, RangeOfSeq DEF Injective
<1>4. \A x \in Range(q) : x # Head(q) => x \in Range(Tail(q))
  <2>1. SUFFICES ASSUME NEW i \in 1..Len(q), q[i] # Head(q) PROVE q[i] \in Range(Tail(q))
    BY <1>1, RangeOfSeq
  <2>2. i - 1 \in 1..Len(Tail(q)) /\ Tail(q)[i - 1] = q[i]
    BY <1>1, <2>1
  <2>3. QED
    BY <1>1, <2>2, RangeOfSeq
<1>5. QED
  BY <1>1, <1>2, <1>3, <1>4, RangeOfSeq

(* Appending something new adds it. *)
LEMMA AppendNew ==
  ASSUME NEW S, NEW q \in Seq(S), NEW x \in S
  PROVE  /\ Append(q, x) \in Seq(S) /\ Len(Append(q, x)) = Len(q) + 1
         /\ Range(Append(q, x)) = Range(q) \cup {x}
         /\ Injective(q) /\ x \notin Range(q) => Injective(Append(q, x))
<1> DEFINE r == Append(q, x)
<1>1. /\ r \in Seq(S) /\ Len(r) = Len(q) + 1 /\ Len(q) \in Nat /\ r[Len(q) + 1] = x
      /\ \A i \in 1..Len(q) : r[i] = q[i]
  OBVIOUS
<1>2. 1..Len(r) = (1..Len(q)) \cup {Len(q) + 1}
  BY <1>1
<1>3. Range(r) = Range(q) \cup {x}
  <2>1. Range(r) = {r[i] : i \in 1..Len(r)} /\ Range(q) = {q[i] : i \in 1..Len(q)}
    BY <1>1, RangeOfSeq
  <2>2. QED
    BY <1>1, <1>2, <2>1
<1>4. ASSUME Injective(q), x \notin Range(q) PROVE Injective(r)
  <2>1. \A i \in 1..Len(q) : q[i] # x
    BY <1>4, RangeOfSeq
  <2>2. QED
    BY <1>1, <1>2, <1>4, <2>1 DEF Injective
<1>5. QED
  BY <1>1, <1>3, <1>4

----------------------------------------------------------------------------
(* The types of events and handlers, and what a handler is about to do for *)
(* which kind of event.                                                    *)
MsgEvents ==
  [kind: {"room_message", "direct_message"}, n: 1..MaxEvents, id: 1..MaxMessages, from: Users,
   thread: Threads]
RoomEvents == [kind: {"room_join", "room_leave"}, n: 1..MaxEvents, user: Users, room: Rooms]
ConvEvents == [kind: {"conversation_created"}, n: 1..MaxEvents, conv: Conversations]
Updates ==
  [kind: {"inbox_entry_updated"}, n: 1..MaxEvents, user: Users, thread: Threads, unread: Nat]

Requested == MsgEvents \cup RoomEvents \cup ConvEvents
Events == Requested \cup Updates

HandlerOK(g) ==
  /\ g \in [ev: Events, at: {"save", "upsert", "update", "publish", "notify"},
            left: SUBSET Users, out: SUBSET Updates]
  /\ g.at = "save" => g.ev \in RoomEvents
  /\ g.at = "upsert" => g.ev \in RoomEvents \cup ConvEvents
  /\ g.at \in {"update", "publish"} => g.ev \in MsgEvents
  /\ g.at = "notify" => g.ev \in Updates
  /\ g.left # {} => \/ g.ev \in ConvEvents /\ g.left \subseteq g.ev.conv
                    \/ g.ev \in RoomEvents /\ g.ev.kind = "room_join"
  /\ g.out # {} => g.at = "publish"
  /\ \A e \in g.out : e.n = g.ev.n

EventsOK ==
  /\ todo \in [Requests -> Seq(Requested)]
  /\ queue \in Seq(Events)
  /\ \A g \in running : HandlerOK(g)
  /\ \A e \in InFlight : e.n <= lastEvent
  /\ \A e \in InFlight \cap ConvEvents : e.conv \in convs
  /\ {resets, crashes, faults} \subseteq Nat

(* Messages are numbered, and those that events speak of are stored. *)
MessageOf(e) == [id |-> e.id, thread |-> e.thread, from |-> e.from]

MessagesOK ==
  /\ IsFiniteSet(messages)
  /\ \A m \in messages : m.id <= Cardinality(messages)
  /\ \A m, o \in messages : m.id = o.id => m = o
  /\ \A x \in missed : x[1] <= Cardinality(messages)
  /\ \A e \in InFlight \cap MsgEvents : MessageOf(e) \in messages

(* No two events in different places are the same ... *)
Apart ==
  /\ Injective(queue)
  /\ \A p \in Requests : Injective(todo[p]) /\ Range(todo[p]) \cap Range(queue) = {}
  /\ \A p, q \in Requests : p # q => Range(todo[p]) \cap Range(todo[q]) = {}
  /\ \A g \in running : g.ev \notin Range(queue) /\ g.out \cap Range(queue) = {}
  /\ \A g \in running, p \in Requests : g.ev \notin Range(todo[p])
  /\ \A g, h \in running : (g.ev = h.ev => g = h) /\ g.ev \notin h.out
  /\ \A g, h \in running : g # h => g.out \cap h.out = {}

(* ... those that requests made differ in their numbers, and those for     *)
(* messages in the message; and no count for a message was published while *)
(* its handler has yet to update the cursors.                              *)
Unserved ==
  (UNION {Range(todo[p]) : p \in Requests}) \cup Range(queue)
    \cup {g.ev : g \in {h \in running : h.at = "update"}}

Numbered ==
  /\ \A e, f \in InFlight \cap MsgEvents : e.id = f.id \/ e.n = f.n => e = f
  /\ \A e \in Unserved \cap MsgEvents, u \in InFlight \cap Updates : u.n # e.n

BusInv == TypeOK /\ EventsOK /\ MessagesOK /\ Apart /\ Numbered

(* What is in flight, place by place.                                      *)
LEMMA FlightPlaces ==
  ASSUME NEW x
  PROVE  /\ x \in InFlight <=> \/ \E p \in Requests : x \in Range(todo[p])
                              \/ x \in Range(queue)
                              \/ \E g \in running : x = g.ev \/ x \in g.out
         /\ x \in Unserved <=> \/ \E p \in Requests : x \in Range(todo[p])
                              \/ x \in Range(queue)
                              \/ \E g \in running : x = g.ev /\ g.at = "update"
<1>1. x \in UNION {Range(todo[p]) : p \in Requests} <=> \E p \in Requests : x \in Range(todo[p])
  OBVIOUS
<1>2. x \in {g.ev : g \in running} <=> \E g \in running : x = g.ev
  OBVIOUS
<1>3. x \in UNION {g.out : g \in running} <=> \E g \in running : x \in g.out
  OBVIOUS
<1>4. x \in {g.ev : g \in {h \in running : h.at = "update"}}
        <=> \E g \in running : x = g.ev /\ g.at = "update"
  OBVIOUS
<1>5. QED
  BY <1>1, <1>2, <1>3, <1>4 DEF InFlight, Unserved

(* The same after a step. *)
LEMMA FlightPlacesNext ==
  ASSUME NEW x
  PROVE  /\ x \in InFlight' <=> \/ \E p \in Requests : x \in Range(todo'[p])
                               \/ x \in Range(queue')
                               \/ \E g \in running' : x = g.ev \/ x \in g.out
         /\ x \in Unserved' <=> \/ \E p \in Requests : x \in Range(todo'[p])
                               \/ x \in Range(queue')
                               \/ \E g \in running' : x = g.ev /\ g.at = "update"
<1>1. x \in UNION {Range(todo'[p]) : p \in Requests} <=> \E p \in Requests : x \in Range(todo'[p])
  OBVIOUS
<1>2. x \in {g.ev : g \in running'} <=> \E g \in running' : x = g.ev
  OBVIOUS
<1>3. x \in UNION {g.out : g \in running'} <=> \E g \in running' : x \in g.out
  OBVIOUS
<1>4. x \in {g.ev : g \in {h \in running' : h.at = "update"}}
        <=> \E g \in running' : x = g.ev /\ g.at = "update"
  OBVIOUS
<1>5. QED
  BY <1>1, <1>2, <1>3, <1>4 DEF InFlight, Unserved

(* A conversation is a set of users, and of its two. *)
LEMMA ConversationUsers ==
  /\ \A c \in Conversations : c \subseteq Users
  /\ \A u, v \in Users : u # v => {u, v} \in Conversations
BY DEF Conversations

(* Initially there is nothing. *)
LEMMA BusInitInv == Init => BusInv
<1> SUFFICES ASSUME Init PROVE BusInv
  OBVIOUS
<1> USE DEF Init
<1>1. /\ \A p \in Requests : Range(todo[p]) = {} /\ Injective(todo[p])
      /\ Range(queue) = {} /\ Injective(queue)
  BY DEF Range, Injective
<1>2. InFlight = {} /\ Unserved = {}
  BY <1>1 DEF InFlight, Unserved
<1>3. TypeOK
  BY InboxAssumption DEF TypeOK
<1>4. EventsOK
  BY <1>2 DEF EventsOK
<1>5. MessagesOK
  BY <1>2, FS_EmptySet DEF MessagesOK
<1>6. Apart /\ Numbered
  BY <1>1, <1>2 DEF Apart, Numbered
<1>7. QED
  BY <1>3, <1>4, <1>5, <1>6 DEF BusInv

----------------------------------------------------------------------------
(* Numbers and capacities. *)
LEMMA Bounds ==
  ASSUME BusInv
  PROVE  /\ lastEvent \in Nat /\ MaxEvents \in Nat /\ MaxMessages \in Nat
         /\ Cardinality(messages) \in Nat
BY InboxAssumption, FS_CardinalityType DEF BusInv, TypeOK, MessagesOK

(* What is in flight are events, which their kinds tell apart.             *)
LEMMA EventTypes ==
  ASSUME BusInv
  PROVE  /\ InFlight \subseteq Events /\ Unserved \subseteq InFlight
         /\ \A x \in Events : /\ IsMessage(x) <=> x \in MsgEvents
                              /\ x.kind = "inbox_entry_updated" <=> x \in Updates
         /\ \A x \in InFlight : x.n \in Int /\ x.n <= lastEvent
<1>1. InFlight \subseteq Events
  <2>1. SUFFICES ASSUME NEW x \in InFlight PROVE x \in Events
    OBVIOUS
  <2>2. ASSUME NEW q \in Requests, x \in Range(todo[q]) PROVE x \in Events
    BY <2>2, RangeOfSeq DEF BusInv, EventsOK, Events
  <2>3. x \in Range(queue) => x \in Events
    BY RangeOfSeq DEF BusInv, EventsOK
  <2>4. ASSUME NEW g \in running, x = g.ev \/ x \in g.out PROVE x \in Events
    BY <2>4 DEF BusInv, EventsOK, HandlerOK, Events
  <2>5. QED
    BY <2>2, <2>3, <2>4, FlightPlaces
<1>2. Unserved \subseteq InFlight
  BY FlightPlaces
<1>3. \A x \in Events : /\ IsMessage(x) <=> x \in MsgEvents
                        /\ x.kind = "inbox_entry_updated" <=> x \in Updates
  BY DEF IsMessage, Events, Requested, MsgEvents, RoomEvents, ConvEvents, Updates
<1>4. \A x \in InFlight : x.n \in Int /\ x.n <= lastEvent
  BY <1>1 DEF BusInv, EventsOK, Events, Requested, MsgEvents, RoomEvents, ConvEvents, Updates
<1>5. QED
  BY <1>1, <1>2, <1>3, <1>4

(* A request commits: its events, which are new, are in flight as well.    *)
LEMMA CommitInv ==
  ASSUME BusInv, NEW p \in Requests, NEW es \in Seq(Requested), Commit(p, es), Injective(es),
         convs \subseteq convs', messages \subseteq messages',
         \A x \in Range(es) : x.n \in (lastEvent + 1)..(lastEvent + Len(es)),
         \A x \in Range(es) \cap ConvEvents : x.conv \in convs',
         \A x, y \in Range(es) \cap MsgEvents : x = y,
         \A x \in Range(es) \cap MsgEvents :
            x.id = Cardinality(messages) + 1 /\ MessageOf(x) \in messages'
  PROVE  /\ EventsOK' /\ Apart' /\ Numbered'
         /\ InFlight' = InFlight \cup Range(es) /\ Unserved' = Unserved \cup Range(es)
         /\ \A e \in InFlight' \cap MsgEvents : MessageOf(e) \in messages'
<1>1. /\ todo[p] = <<>> /\ todo' = [todo EXCEPT ![p] = es] /\ lastEvent' = lastEvent + Len(es)
      /\ UNCHANGED <<queue, running, resets, crashes, faults>>
  BY DEF Commit, envVars
<1>2. /\ todo' \in [Requests -> Seq(Requested)] /\ todo'[p] = es
      /\ \A q \in Requests : q # p => todo'[q] = todo[q]
  BY <1>1 DEF BusInv, EventsOK
<1>3. Range(todo[p]) = {}
  BY <1>1 DEF Range
<1>4. \A x : x \in InFlight' <=> x \in InFlight \/ x \in Range(es)
  BY <1>1, <1>2, <1>3, FlightPlaces, FlightPlacesNext
<1>5. \A x : x \in Unserved' <=> x \in Unserved \/ x \in Range(es)
  BY <1>1, <1>2, <1>3, FlightPlaces, FlightPlacesNext
<1>6. \A x \in InFlight : x.n \in Int /\ x.n <= lastEvent
  BY EventTypes
<1>7. \A x \in Range(es) : x \notin InFlight /\ x \in Requested
  BY <1>6, Bounds, RangeOfSeq
<1>8. EventsOK'
  <2>1. \A x \in InFlight' : x.n <= lastEvent'
    BY <1>1, <1>4, <1>6, Bounds
  <2>2. \A x \in InFlight' \cap ConvEvents : x.conv \in convs'
    BY <1>4 DEF BusInv, EventsOK
  <2>3. QED
    BY <1>1, <1>2, <2>1, <2>2 DEF BusInv, EventsOK, HandlerOK
<1>9. Apart'
  <2>1. /\ \A g \in running : g.ev \notin Range(es) /\ g.ev \in InFlight
        /\ Range(queue) \cap Range(es) = {}
        /\ \A q \in Requests : Range(todo[q]) \cap Range(es) = {}
    BY <1>7, FlightPlaces
  <2>2. QED
    BY <1>1, <1>2, <2>1 DEF BusInv, Apart
<1>10. \A e \in InFlight' \cap MsgEvents : MessageOf(e) \in messages'
  BY <1>4 DEF BusInv, MessagesOK
<1>11. Numbered'
  <2>1. \A e \in InFlight \cap MsgEvents : e.id \in Nat /\ e.id <= Cardinality(messages)
    <3>1. SUFFICES ASSUME NEW e \in InFlight \cap MsgEvents
                   PROVE  e.id \in Nat /\ e.id <= Cardinality(messages)
      OBVIOUS
    <3>2. MessageOf(e) \in messages /\ MessageOf(e).id = e.id /\ e.id \in 1..MaxMessages
      BY DEF BusInv, MessagesOK, MessageOf, MsgEvents
    <3>3. QED
      BY <3>2, Bounds DEF BusInv, MessagesOK
  <2>2. \A e, f \in InFlight' \cap MsgEvents : e.id = f.id \/ e.n = f.n => e = f
    <3>1. ASSUME NEW e \in Range(es) \cap MsgEvents, NEW f \in InFlight \cap MsgEvents
          PROVE  e.id # f.id /\ e.n # f.n
      BY <1>6, <2>1, Bounds
    <3>2. QED
      BY <1>4, <3>1 DEF BusInv, Numbered
  <2>3. \A e \in Unserved' \cap MsgEvents, u \in InFlight' \cap Updates : u.n # e.n
    <3>1. InFlight' \cap Updates = InFlight \cap Updates
      BY <1>4, <1>7 DEF Requested, MsgEvents, RoomEvents, ConvEvents, Updates
    <3>2. ASSUME NEW e \in Range(es), NEW u \in InFlight \cap Updates PROVE u.n # e.n
      BY <1>6, Bounds
    <3>3. QED
      BY <1>5, <3>1, <3>2 DEF BusInv, Numbered
  <2>4. QED
    BY <2>2, <2>3 DEF Numbered
<1>12. QED
  BY <1>4, <1>5, <1>8, <1>9, <1>10, <1>11

(* What the steps do to the events that count: those of messages that wait *)
(* to be counted, and the counts on their way to the hub.                  *)
SameUnserved == Unserved' \cap MsgEvents = Unserved \cap MsgEvents
SameUpdates == InFlight' \cap Updates = InFlight \cap Updates

(* And to those that announce a member or a conversation.                  *)
News == RoomEvents \cup ConvEvents
KeepsNews == InFlight \cap News \subseteq InFlight'

(* Sequences of events: one.                                               *)
LEMMA OneEvent ==
  ASSUME NEW e \in Requested
  PROVE  /\ <<e>> \in Seq(Requested) /\ Injective(<<e>>) /\ Len(<<e>>) = 1
         /\ Range(<<e>>) = {e}
BY DEF Injective, Range

(* Two different events.                                                   *)
LEMMA TwoEvents ==
  ASSUME NEW e \in Requested, NEW f \in Requested, e # f
  PROVE  /\ <<e, f>> \in Seq(Requested) /\ Injective(<<e, f>>) /\ Len(<<e, f>>) = 2
         /\ Range(<<e, f>>) = {e, f}
<1>1. /\ <<e, f>> \in Seq(Requested) /\ Len(<<e, f>>) = 2
      /\ <<e, f>>[1] = e /\ <<e, f>>[2] = f /\ 1..2 = {1, 2}
  OBVIOUS
<1>2. Range(<<e, f>>) = {<<e, f>>[i] : i \in 1..2}
  BY <1>1, RangeOfSeq
<1>3. QED
  BY <1>1, <1>2 DEF Injective

(* Requests about rooms.                                                   *)
LEMMA RoomRequestInv ==
  ASSUME BusInv, NEW p \in Requests, NEW u \in Users, NEW r \in Rooms,
         CreateRoom(p, u, r) \/ Join(p, u, r) \/ Leave(p, u, r)
  PROVE  /\ BusInv' /\ SameUnserved /\ SameUpdates /\ KeepsNews
         /\ UNCHANGED <<messages, unread, hubVars, envVars, ghostVars>>
<1>1. PICK k \in {"room_join", "room_leave"} : Commit(p, <<RoomEvent(k, u, r)>>)
  BY DEF CreateRoom, Join, Leave
<1> DEFINE e == RoomEvent(k, u, r)
<1>2. /\ members' \in [Rooms -> SUBSET Users] /\ existing' \in SUBSET Rooms
      /\ existing \subseteq existing' /\ UNCHANGED <<convs, messages>>
  BY DEF BusInv, TypeOK, CreateRoom, Join, Leave
<1>3. lastEvent + 1 <= MaxEvents
  BY <1>1 DEF Commit
<1>4. e \in Requested /\ e \notin MsgEvents /\ e \notin ConvEvents /\ e \notin Updates
      /\ e.n = lastEvent + 1
  BY <1>3, Bounds DEF RoomEvent, Requested, RoomEvents, MsgEvents, ConvEvents, Updates
<1>5. /\ EventsOK' /\ Apart' /\ Numbered'
      /\ InFlight' = InFlight \cup {e} /\ Unserved' = Unserved \cup {e}
      /\ \A x \in InFlight' \cap MsgEvents : MessageOf(x) \in messages'
  <2> HIDE DEF e
  <2>1. Range(<<e>>) \cap MsgEvents = {} /\ Range(<<e>>) \cap ConvEvents = {}
        /\ \A x \in Range(<<e>>) : x.n \in (lastEvent + 1)..(lastEvent + Len(<<e>>))
    BY <1>4, OneEvent, Bounds
  <2>2. Commit(p, <<e>>)
    BY <1>1 DEF e
  <2>3. QED
    BY <1>2, <1>4, <2>1, <2>2, OneEvent, CommitInv
<1>6. UNCHANGED <<rows, cursors, unread, queue, running, hubVars, envVars, ghostVars>>
      /\ lastEvent' = lastEvent + 1
  BY <1>1 DEF Commit
<1>7. TypeOK'
  BY <1>2, <1>3, <1>6, Bounds DEF BusInv, TypeOK, hubVars, ghostVars
<1>8. MessagesOK'
  BY <1>2, <1>5, <1>6 DEF BusInv, MessagesOK, ghostVars
<1>9. QED
  BY <1>2, <1>4, <1>5, <1>6, <1>7, <1>8 DEF BusInv, SameUnserved, SameUpdates, KeepsNews

(* A message is stored under the next number.                              *)
LEMMA StoreInv ==
  ASSUME BusInv, NEW u \in Users, NEW t, Cardinality(messages) < MaxMessages,
         messages' = messages \cup {Store(t, u)}
  PROVE  /\ Store(t, u).id = Cardinality(messages) + 1 /\ Store(t, u).id \in 1..MaxMessages
         /\ Store(t, u).thread = t /\ Store(t, u).from = u
         /\ Store(t, u) \notin messages
         /\ IsFiniteSet(messages') /\ Cardinality(messages') = Cardinality(messages) + 1
         /\ \A m \in messages' : m.id <= Cardinality(messages')
         /\ \A m, o \in messages' : m.id = o.id => m = o
         /\ \A x \in missed : x[1] <= Cardinality(messages')
<1> DEFINE s == Store(t, u)
<1>1. s.id = Cardinality(messages) + 1 /\ s.thread = t /\ s.from = u /\ s.id \in 1..MaxMessages
  BY Bounds DEF Store
<1>2. \A m \in messages : m.id \in Nat /\ m.id <= Cardinality(messages)
  BY DEF BusInv, TypeOK, MessagesOK
<1>3. s \notin messages
  BY <1>1, <1>2, Bounds
<1>4. IsFiniteSet(messages') /\ Cardinality(messages') = Cardinality(messages) + 1
  BY <1>3, FS_AddElement DEF BusInv, MessagesOK
<1>5. \A x \in missed : x[1] \in Nat /\ x[1] <= Cardinality(messages)
  BY DEF BusInv, TypeOK, MessagesOK
<1> HIDE DEF s
<1>6. messages' = messages \cup {s}
  BY DEF s
<1>7. /\ \A m \in messages' : m.id <= Cardinality(messages')
      /\ \A x \in missed : x[1] <= Cardinality(messages')
  <2>1. Cardinality(messages') \in Nat /\ s.id = Cardinality(messages')
    BY <1>1, <1>4, Bounds
  <2>2. ASSUME NEW i \in Nat, i <= Cardinality(messages) PROVE i <= Cardinality(messages')
    BY <1>4, <2>2, Bounds
  <2>3. QED
    BY <1>2, <1>5, <1>6, <2>1, <2>2
<1>8. \A m, o \in messages' : m.id = o.id => m = o
  BY <1>1, <1>2, <1>6, Bounds DEF BusInv, MessagesOK
<1>9. QED
  BY <1>1, <1>3, <1>4, <1>7, <1>8 DEF s

(* A message is sent: it is new, and its event is the only new one that    *)
(* counts.                                                                 *)
Sent(m) ==
  /\ messages' = messages \cup {m} /\ m \notin messages
  /\ m.id = Cardinality(messages) + 1
  /\ \E e \in MsgEvents :
        /\ MessageOf(e) = m
        /\ Unserved' \cap MsgEvents = (Unserved \cap MsgEvents) \cup {e}

(* A request that stores a message commits, for either kind of message.    *)
LEMMA SendInv ==
  ASSUME BusInv, NEW p \in Requests, NEW u \in Users, NEW t \in existing' \cup convs',
         t \in Threads, Cardinality(messages) < MaxMessages,
         messages' = messages \cup {Store(t, u)},
         UNCHANGED <<members, existing>>, convs' \in SUBSET Conversations, convs \subseteq convs',
         NEW e, NEW n \in 1..MaxEvents, e = MessageEvent(n, Store(t, u)),
         NEW es \in Seq(Requested), Commit(p, es), Injective(es),
         \A x \in Range(es) : x.n \in (lastEvent + 1)..(lastEvent + Len(es)),
         \A x \in Range(es) \cap ConvEvents : x.conv \in convs',
         Range(es) \cap MsgEvents \subseteq {e}, e \in Range(es)
  PROVE  /\ BusInv' /\ Sent(Store(t, u)) /\ SameUpdates /\ KeepsNews
         /\ UNCHANGED <<unread, hubVars, envVars, ghostVars>>
<1> DEFINE s == Store(t, u)
<1>1. e \in MsgEvents /\ MessageOf(e) = s /\ e.id = Cardinality(messages) + 1
  BY StoreInv DEF MessageEvent, MsgEvents, MessageOf, Store
<1>2. s \in messages' /\ messages \subseteq messages'
  OBVIOUS
<1>3. /\ EventsOK' /\ Apart' /\ Numbered'
      /\ InFlight' = InFlight \cup Range(es) /\ Unserved' = Unserved \cup Range(es)
      /\ \A x \in InFlight' \cap MsgEvents : MessageOf(x) \in messages'
  <2> HIDE DEF s
  <2>1. \A x, y \in Range(es) \cap MsgEvents : x = y
    OBVIOUS
  <2>2. \A x \in Range(es) \cap MsgEvents :
          x.id = Cardinality(messages) + 1 /\ MessageOf(x) \in messages'
    BY <1>1, <1>2
  <2>3. QED
    BY <1>2, <2>1, <2>2, CommitInv
<1>4. /\ UNCHANGED <<rows, cursors, unread, queue, running, hubVars, envVars, ghostVars>>
      /\ lastEvent' = lastEvent + Len(es) /\ lastEvent' \in 0..MaxEvents
  BY Bounds DEF Commit
<1>5. TypeOK'
  <2>1. s \in [id: 1..MaxMessages, thread: existing' \cup convs', from: Users]
    BY StoreInv DEF Store
  <2>2. messages' \in SUBSET [id: 1..MaxMessages, thread: existing' \cup convs', from: Users]
    BY <2>1 DEF BusInv, TypeOK
  <2>3. QED
    BY <1>4, <2>2 DEF BusInv, TypeOK, hubVars, ghostVars
<1>6. MessagesOK'
  BY <1>3, <1>4, StoreInv DEF MessagesOK, ghostVars
<1>7. Sent(s)
  <2>1. Unserved' \cap MsgEvents = (Unserved \cap MsgEvents) \cup {e}
    BY <1>1, <1>3
  <2>2. QED
    BY <1>1, <2>1, StoreInv DEF Sent
<1>8. SameUpdates
  <2>1. Range(es) \subseteq Requested
    BY RangeOfSeq
  <2>2. Requested \cap Updates = {}
    BY DEF Requested, MsgEvents, RoomEvents, ConvEvents, Updates
  <2>3. QED
    BY <1>3, <2>1, <2>2 DEF SameUpdates
<1>9. QED
  BY <1>3, <1>4, <1>5, <1>6, <1>7, <1>8 DEF BusInv, KeepsNews

(* A message to a room.                                                    *)
LEMMA SendRoomMessageInv ==
  ASSUME BusInv, NEW p \in Requests, NEW u \in Users, NEW r \in Rooms, SendRoomMessage(p, u, r)
  PROVE  /\ BusInv' /\ Sent(Store(r, u)) /\ SameUpdates /\ KeepsNews
         /\ UNCHANGED <<unread, hubVars, envVars, ghostVars>>
<1> DEFINE s == Store(r, u)
           e == MessageEvent(lastEvent + 1, s)
<1>1. /\ r \in existing' \cup convs' /\ r \in Threads /\ Cardinality(messages) < MaxMessages
      /\ messages' = messages \cup {s} /\ Commit(p, <<e>>)
      /\ UNCHANGED <<members, existing, convs>> /\ convs' \in SUBSET Conversations
  BY DEF SendRoomMessage, BusInv, TypeOK, Threads
<1>2. lastEvent + 1 \in 1..MaxEvents
  BY <1>1, Bounds DEF Commit
<1>3. e \in MsgEvents /\ e.n = lastEvent + 1 /\ e \notin ConvEvents
  BY <1>1, <1>2, StoreInv DEF MessageEvent, MsgEvents, ConvEvents, Store
<1> HIDE DEF e, s
<1>4. /\ <<e>> \in Seq(Requested) /\ Injective(<<e>>) /\ Len(<<e>>) = 1 /\ Range(<<e>>) = {e}
  BY <1>3, OneEvent DEF Requested
<1>5. /\ \A x \in Range(<<e>>) : x.n \in (lastEvent + 1)..(lastEvent + Len(<<e>>))
      /\ \A x \in Range(<<e>>) \cap ConvEvents : x.conv \in convs'
      /\ Range(<<e>>) \cap MsgEvents \subseteq {e} /\ e \in Range(<<e>>)
  BY <1>3, <1>4, Bounds
<1>6. convs \subseteq convs'
  BY <1>1
<1>7. QED
  BY <1>1, <1>2, <1>4, <1>5, <1>6, SendInv DEF e, s

(* A direct message, the first of its conversation or a later one.         *)
LEMMA SendDirectMessageInv ==
  ASSUME BusInv, NEW p \in Requests, NEW u \in Users, NEW v \in Users,
         SendDirectMessage(p, u, v)
  PROVE  /\ BusInv' /\ Sent(Store({u, v}, u)) /\ SameUpdates /\ KeepsNews
         /\ UNCHANGED <<unread, hubVars, envVars, ghostVars>>
<1> DEFINE c == {u, v}
           s == Store(c, u)
<1>1. /\ c \in Conversations /\ c \in existing' \cup convs' /\ c \in Threads /\ c \in convs'
      /\ Cardinality(messages) < MaxMessages /\ messages' = messages \cup {s}
      /\ UNCHANGED <<members, existing>>
      /\ convs' \in SUBSET Conversations /\ convs \subseteq convs'
  BY ConversationUsers DEF SendDirectMessage, BusInv, TypeOK, Threads
<1>2. CASE c \in convs
  <2> DEFINE e == MessageEvent(lastEvent + 1, s)
  <2>1. Commit(p, <<e>>)
    BY <1>2 DEF SendDirectMessage
  <2>2. lastEvent + 1 \in 1..MaxEvents
    BY <2>1, Bounds DEF Commit
  <2>3. e \in MsgEvents /\ e.n = lastEvent + 1 /\ e \notin ConvEvents
    BY <1>1, <2>2, StoreInv DEF MessageEvent, MsgEvents, ConvEvents, Store
  <2> HIDE DEF e, s, c
  <2>4. /\ <<e>> \in Seq(Requested) /\ Injective(<<e>>) /\ Len(<<e>>) = 1 /\ Range(<<e>>) = {e}
    BY <2>3, OneEvent DEF Requested
  <2>5. /\ \A x \in Range(<<e>>) : x.n \in (lastEvent + 1)..(lastEvent + Len(<<e>>))
        /\ \A x \in Range(<<e>>) \cap ConvEvents : x.conv \in convs'
        /\ Range(<<e>>) \cap MsgEvents \subseteq {e} /\ e \in Range(<<e>>)
    BY <2>3, <2>4, Bounds
  <2>6. QED
    BY <1>1, <2>1, <2>2, <2>4, <2>5, SendInv DEF e, s, c
<1>3. CASE c \notin convs
  <2> DEFINE d == ConversationCreated(c)
             e == MessageEvent(lastEvent + 2, s)
  <2>1. Commit(p, <<d, e>>)
    BY <1>3 DEF SendDirectMessage
  <2>2. lastEvent + 1 \in 1..MaxEvents /\ lastEvent + 2 \in 1..MaxEvents
    BY <2>1, Bounds DEF Commit
  <2>3. e \in MsgEvents /\ e.n = lastEvent + 2 /\ e \notin ConvEvents
    BY <1>1, <2>2, StoreInv DEF MessageEvent, MsgEvents, ConvEvents, Store
  <2>4. d \in ConvEvents /\ d.n = lastEvent + 1 /\ d.conv = c /\ d \notin MsgEvents
    BY <1>1, <2>2 DEF ConversationCreated, ConvEvents, MsgEvents
  <2> HIDE DEF e, s, c, d
  <2>5. /\ <<d, e>> \in Seq(Requested) /\ Injective(<<d, e>>) /\ Len(<<d, e>>) = 2
        /\ Range(<<d, e>>) = {d, e}
    BY <2>3, <2>4, TwoEvents DEF Requested
  <2>6. \A x \in Range(<<d, e>>) : x.n \in (lastEvent + 1)..(lastEvent + Len(<<d, e>>))
    BY <2>3, <2>4, <2>5, Bounds
  <2>7. /\ \A x \in Range(<<d, e>>) \cap ConvEvents : x.conv \in convs'
        /\ Range(<<d, e>>) \cap MsgEvents \subseteq {e} /\ e \in Range(<<d, e>>)
    BY <1>1, <2>3, <2>4, <2>5
  <2>8. QED
    BY <1>1, <2>1, <2>2, <2>5, <2>6, <2>7, SendInv DEF e, s, c
<1>4. QED
  BY <1>2, <1>3

----------------------------------------------------------------------------
(* A step that adds nothing to what is in flight.                          *)
LEMMA SettlesInv ==
  ASSUME BusInv, InFlight' \subseteq InFlight, Unserved' \cap MsgEvents \subseteq Unserved,
         UNCHANGED <<tables, lastEvent, missed>>, {resets', crashes', faults'} \subseteq Nat,
         todo' \in [Requests -> Seq(Requested)], queue' \in Seq(Events),
         \A g \in running' : HandlerOK(g)
  PROVE  EventsOK' /\ MessagesOK' /\ Numbered'
<1>1. EventsOK'
  BY DEF BusInv, EventsOK, HandlerOK, tables
<1>2. MessagesOK'
  BY DEF BusInv, MessagesOK, tables
<1>3. Numbered'
  BY DEF BusInv, Numbered
<1>4. QED
  BY <1>1, <1>2, <1>3

(* A step of the bus changes no table and no count.                        *)
LEMMA TypesUnmoved ==
  ASSUME BusInv, UNCHANGED <<tables, cursors, unread, hubVars, lastEvent, ghostVars>>,
         Len(queue') <= QueueCap, \A g \in running' : HandlerOK(g)
  PROVE  TypeOK'
BY DEF BusInv, TypeOK, HandlerOK, tables, hubVars, ghostVars

(* An event moves from its request to the queue.                           *)
LEMMA PublishInv ==
  ASSUME BusInv, NEW p \in Requests, Publish(p)
  PROVE  /\ BusInv' /\ SameUnserved /\ SameUpdates /\ KeepsNews
         /\ UNCHANGED <<messages, unread, hubVars, envVars, ghostVars>>
<1> DEFINE e == Head(todo[p])
<1>1. /\ todo[p] # <<>> /\ queue' = Append(queue, e) /\ todo' = [todo EXCEPT ![p] = Tail(@)]
      /\ UNCHANGED <<tables, rows, cursors, unread, running, hubVars, lastEvent, envVars,
                     ghostVars>>
      /\ Len(queue) < QueueCap
  BY DEF Publish
<1>2. /\ todo \in [Requests -> Seq(Requested)] /\ queue \in Seq(Events)
      /\ \A q \in Requests : Injective(todo[q])
      /\ Injective(queue) /\ \A q \in Requests : Range(todo[q]) \cap Range(queue) = {}
  BY DEF BusInv, EventsOK, Apart
<1>3. /\ e \in Requested /\ e \in Events /\ e \in Range(todo[p])
      /\ todo'[p] = Tail(todo[p]) /\ \A q \in Requests : q # p => todo'[q] = todo[q]
      /\ todo' \in [Requests -> Seq(Requested)] /\ Injective(todo'[p])
      /\ Range(todo'[p]) = Range(todo[p]) \ {e}
  BY <1>1, <1>2, TakeFirst DEF Events
<1> HIDE DEF e
<1>4. /\ queue' \in Seq(Events) /\ Len(queue') = Len(queue) + 1 /\ Injective(queue')
      /\ Range(queue') = Range(queue) \cup {e}
  BY <1>1, <1>2, <1>3, AppendNew
<1>5. \A x : x \in InFlight' <=> x \in InFlight
  BY <1>1, <1>3, <1>4, FlightPlaces, FlightPlacesNext
<1>6. \A x : x \in Unserved' <=> x \in Unserved
  BY <1>1, <1>3, <1>4, FlightPlaces, FlightPlacesNext
<1>7. Apart'
  <2>1. \A g \in running : g.ev # e /\ e \notin g.out
    <3>1. Requested \cap Updates = {}
      BY DEF Requested, MsgEvents, RoomEvents, ConvEvents, Updates
    <3>2. QED
      BY <1>3, <3>1 DEF BusInv, Apart, EventsOK, HandlerOK
  <2>2. \A q \in Requests : q # p => e \notin Range(todo[q])
    BY <1>3 DEF BusInv, Apart
  <2>3. \A q \in Requests : /\ Injective(todo'[q]) /\ e \notin Range(todo'[q])
                            /\ Range(todo'[q]) \subseteq Range(todo[q])
    BY <1>2, <1>3, <2>2
  <2>4. \A q \in Requests : Range(todo'[q]) \cap Range(queue') = {}
    BY <1>2, <1>4, <2>3
  <2>5. \A q, r \in Requests : q # r => Range(todo'[q]) \cap Range(todo'[r]) = {}
    BY <2>3 DEF BusInv, Apart
  <2>6. /\ \A g \in running : g.ev \notin Range(queue') /\ g.out \cap Range(queue') = {}
        /\ \A g \in running, q \in Requests : g.ev \notin Range(todo'[q])
    BY <1>4, <2>1, <2>3 DEF BusInv, Apart
  <2>7. /\ \A g, h \in running : (g.ev = h.ev => g = h) /\ g.ev \notin h.out
        /\ \A g, h \in running : g # h => g.out \cap h.out = {}
    BY DEF BusInv, Apart
  <2>8. QED
    BY <1>1, <1>4, <2>3, <2>4, <2>5, <2>6, <2>7 DEF Apart
<1>8. EventsOK' /\ MessagesOK' /\ Numbered'
  <2>1. \A g \in running' : HandlerOK(g)
    BY <1>1 DEF BusInv, EventsOK
  <2>2. {resets', crashes', faults'} \subseteq Nat
    BY <1>1 DEF BusInv, EventsOK, envVars
  <2>3. QED
    BY <1>1, <1>3, <1>4, <1>5, <1>6, <2>1, <2>2, SettlesInv DEF ghostVars
<1>9. TypeOK'
  <2>1. \A g \in running' : HandlerOK(g)
    BY <1>1 DEF BusInv, EventsOK
  <2>2. Len(queue') <= QueueCap
    BY <1>1, <1>2, <1>4, InboxAssumption
  <2>3. QED
    BY <1>1, <2>1, <2>2, TypesUnmoved
<1>10. QED
  BY <1>1, <1>5, <1>6, <1>7, <1>8, <1>9 DEF BusInv, SameUnserved, SameUpdates, KeepsNews, tables

(* The handler of an event can handle it. *)
LEMMA NewHandlerOK ==
  ASSUME BusInv, NEW e \in Events
  PROVE  /\ HandlerOK(Handler(e)) /\ Handler(e).ev = e /\ Handler(e).out = {}
         /\ Handler(e).at = "update" <=> e \in MsgEvents
<1>1. CASE e \in MsgEvents
  BY <1>1 DEF Handler, HandlerOK, MsgEvents, IsMessage, Events, Requested
<1>2. CASE e \in RoomEvents
  BY <1>2 DEF Handler, HandlerOK, RoomEvents, MsgEvents, IsMessage, Events, Requested
<1>3. CASE e \in ConvEvents
  BY <1>3, ConversationUsers DEF Handler, HandlerOK, ConvEvents, MsgEvents, IsMessage, Events,
     Requested
<1>4. CASE e \in Updates
  BY <1>4 DEF Handler, HandlerOK, Updates, MsgEvents, IsMessage, Events
<1>5. QED
  BY <1>1, <1>2, <1>3, <1>4 DEF Events, Requested

(* An event moves from the queue to its handler. *)
LEMMA DispatchInv ==
  ASSUME BusInv, Dispatch
  PROVE  /\ BusInv' /\ SameUnserved /\ SameUpdates /\ KeepsNews
         /\ UNCHANGED <<messages, unread, hubVars, envVars, ghostVars>>
<1> DEFINE e == Head(queue)
           h == Handler(e)
<1>1. /\ queue # <<>> /\ queue' = Tail(queue) /\ running' = running \cup {h}
      /\ UNCHANGED <<tables, rows, cursors, unread, todo, hubVars, lastEvent, envVars, ghostVars>>
  BY DEF Dispatch
<1>2. queue \in Seq(Events) /\ Injective(queue)
  BY DEF BusInv, EventsOK, Apart
<1>3. /\ e \in Events /\ e \in Range(queue)
      /\ queue' \in Seq(Events) /\ Len(queue') = Len(queue) - 1 /\ Injective(queue')
      /\ Range(queue') = Range(queue) \ {e}
  BY <1>1, <1>2, TakeFirst
<1>4. HandlerOK(h) /\ h.ev = e /\ h.out = {} /\ (h.at = "update" <=> e \in MsgEvents)
  BY <1>3, NewHandlerOK
<1> HIDE DEF e, h
<1>5. \A x : x \in InFlight' <=> x \in InFlight
  BY <1>1, <1>3, <1>4, FlightPlaces, FlightPlacesNext
<1>6. \A x : x \in Unserved' <=> x \in Unserved /\ (x = e => e \in MsgEvents)
  <2>1. \A g \in running : g.ev # e
    BY <1>3 DEF BusInv, Apart
  <2>2. \A p \in Requests : e \notin Range(todo[p])
    BY <1>3 DEF BusInv, Apart
  <2>3. QED
    BY <1>1, <1>3, <1>4, <2>1, <2>2, FlightPlaces, FlightPlacesNext
<1>7. Apart'
  <2>1. /\ \A g \in running : g.ev # e /\ e \notin g.out
        /\ \A p \in Requests : e \notin Range(todo[p])
    BY <1>3 DEF BusInv, Apart
  <2>2. QED
    BY <1>1, <1>3, <1>4, <2>1 DEF BusInv, Apart
<1>8. \A g \in running' : HandlerOK(g)
  BY <1>1, <1>4 DEF BusInv, EventsOK
<1>9. EventsOK' /\ MessagesOK' /\ Numbered'
  <2>1. /\ {resets', crashes', faults'} \subseteq Nat /\ todo' \in [Requests -> Seq(Requested)]
    BY <1>1 DEF BusInv, EventsOK, envVars
  <2>2. QED
    BY <1>1, <1>3, <1>5, <1>6, <1>8, <2>1, SettlesInv DEF ghostVars
<1>10. TypeOK'
  <2>1. Len(queue') <= QueueCap
    BY <1>2, <1>3, InboxAssumption DEF BusInv, TypeOK
  <2>2. QED
    BY <1>1, <1>8, <2>1, TypesUnmoved
<1>11. QED
  BY <1>1, <1>5, <1>6, <1>7, <1>9, <1>10 DEF BusInv, SameUnserved, SameUpdates, KeepsNews, tables

(* A handler goes on, or ends: there is nothing new in flight.             *)
LEMMA HandlerGoesOn ==
  ASSUME BusInv, NEW g \in running, NEW h, HandlerOK(h), h.ev = g.ev, h.out \subseteq g.out,
         h.at # "update",
         running \ {g} \subseteq running', running' \subseteq (running \ {g}) \cup {h},
         UNCHANGED <<todo, queue>>
  PROVE  /\ InFlight' \subseteq InFlight /\ Unserved' \subseteq Unserved
         /\ Unserved \ {g.ev} \subseteq Unserved'
         /\ InFlight \ ({g.ev} \cup g.out) \subseteq InFlight'
         /\ g.at # "update" => Unserved' = Unserved
         /\ g.at # "update" /\ g.ev \notin Updates /\ g.out = {} => SameUpdates
         /\ Apart' /\ \A k \in running' : HandlerOK(k)
<1>1. \A x : x \in InFlight' => x \in InFlight
  BY FlightPlaces, FlightPlacesNext
<1>2. \A x : x \in Unserved' => x \in Unserved
  BY FlightPlaces, FlightPlacesNext
<1>3. \A x : x \in InFlight /\ x # g.ev /\ x \notin g.out => x \in InFlight'
  BY FlightPlaces, FlightPlacesNext
<1>4. \A x : x \in Unserved /\ (x # g.ev \/ g.at # "update") => x \in Unserved'
  BY FlightPlaces, FlightPlacesNext
<1>5. Apart'
  <2>1. \A k \in running' : (k \in running /\ k # g) \/ k = h
    OBVIOUS
  <2>2. \A k \in running' : \E o \in running :
          k.ev = o.ev /\ k.out \subseteq o.out /\ (k = h => o = g) /\ (k # h => o = k)
    BY <2>1
  <2>3. \A k, l \in running' : /\ k.ev = l.ev => k = l
                               /\ k.ev \notin l.out
                               /\ k # l => k.out \cap l.out = {}
    <3>1. SUFFICES ASSUME NEW k \in running', NEW l \in running'
                   PROVE  /\ k.ev = l.ev => k = l
                          /\ k.ev \notin l.out
                          /\ k # l => k.out \cap l.out = {}
      OBVIOUS
    <3>2. CASE k = h /\ l = h
      BY <3>2 DEF BusInv, Apart
    <3>3. CASE k = h /\ l # h
      BY <2>1, <3>3 DEF BusInv, Apart
    <3>4. CASE k # h /\ l = h
      BY <2>1, <3>4 DEF BusInv, Apart
    <3>5. CASE k # h /\ l # h
      BY <2>1, <3>5 DEF BusInv, Apart
    <3>6. QED
      BY <3>2, <3>3, <3>4, <3>5
  <2>4. \A k \in running' : /\ k.ev \notin Range(queue) /\ k.out \cap Range(queue) = {}
                            /\ \A p \in Requests : k.ev \notin Range(todo[p])
    BY <2>2 DEF BusInv, Apart
  <2>5. QED
    BY <2>3, <2>4 DEF BusInv, Apart
<1>6. \A k \in running' : HandlerOK(k)
  BY DEF BusInv, EventsOK
<1>7. ASSUME g.ev \notin Updates, g.out = {} PROVE SameUpdates
  BY <1>1, <1>3, <1>7 DEF SameUpdates
<1>8. QED
  BY <1>1, <1>2, <1>3, <1>4, <1>5, <1>6, <1>7

(* A handler that makes rows or cursors goes on with the next.             *)
LEMMA SilentHandler ==
  ASSUME NEW g, HandlerOK(g), g.at \in {"save", "upsert"},
         NEW h, h = [g EXCEPT !.at = "upsert"] \/ \E u \in g.left : h = [g EXCEPT !.left = @ \ {u}]
  PROVE  HandlerOK(h) /\ h.ev = g.ev /\ h.out = {} /\ h.at # "update"
BY DEF HandlerOK

(* The steps of handlers that do not count: rows and cursors are made, or  *)
(* the statement for that fails.                                           *)
Silent(g, h) ==
  /\ g \in running /\ g.at \in {"save", "upsert"}
  /\ HandlerOK(h) /\ h.ev = g.ev /\ h.out = {} /\ h.at # "update"
  /\ Continue(g, h) \/ End(g)
  /\ UNCHANGED <<tables, unread, todo, queue, hubVars, lastEvent, missed, read, overtaken>>
  /\ resets' = resets /\ crashes' = crashes /\ faults' \in Nat /\ faults' >= faults

(* Such a step leaves messages, and their counts, alone.                   *)
LEMMA SilentInv ==
  ASSUME BusInv, NEW g, NEW h, Silent(g, h)
  PROVE  /\ EventsOK' /\ MessagesOK' /\ Apart' /\ Numbered'
         /\ SameUnserved /\ SameUpdates /\ InFlight \ {g.ev} \subseteq InFlight'
<1>1. g \in running /\ HandlerOK(g) /\ g.at \in {"save", "upsert"}
  BY DEF Silent, BusInv, EventsOK
<1>2. g.out = {} /\ g.ev \in RoomEvents \cup ConvEvents /\ g.ev \notin Updates
  BY <1>1 DEF HandlerOK, RoomEvents, ConvEvents, Updates
<1>3. HandlerOK(h) /\ h.ev = g.ev /\ h.out = {} /\ h.at # "update"
  BY DEF Silent
<1>4. running \ {g} \subseteq running' /\ running' \subseteq (running \ {g}) \cup {h}
  BY DEF Silent, Continue, End
<1>5. UNCHANGED <<todo, queue, tables, lastEvent, missed>>
      /\ {resets', crashes', faults'} \subseteq Nat
  BY DEF Silent, BusInv, EventsOK
<1>6. /\ InFlight \ {g.ev} \subseteq InFlight' /\ InFlight' \subseteq InFlight
      /\ Unserved' = Unserved /\ SameUpdates
      /\ Apart' /\ \A k \in running' : HandlerOK(k)
  BY <1>1, <1>2, <1>3, <1>4, <1>5, HandlerGoesOn
<1>7. EventsOK' /\ MessagesOK' /\ Numbered'
  <2>1. todo' \in [Requests -> Seq(Requested)] /\ queue' \in Seq(Events)
    BY <1>5 DEF BusInv, EventsOK
  <2>2. QED
    BY <1>5, <1>6, <2>1, SettlesInv
<1>8. QED
  BY <1>6, <1>7 DEF SameUnserved

(* Rows about a room event are saved.                                      *)
LEMMA SaveRoomEventInv ==
  ASSUME BusInv, NEW g, SaveRoomEvent(g)
  PROVE  /\ BusInv' /\ SameUnserved /\ SameUpdates /\ InFlight \ {g.ev} \subseteq InFlight'
         /\ UNCHANGED <<messages, unread, hubVars, envVars, ghostVars>>
<1> DEFINE h == [g EXCEPT !.at = "upsert"]
<1>1. Silent(g, h)
  <2>1. HandlerOK(g) /\ g.at = "save" /\ h = [g EXCEPT !.at = "upsert"]
    BY DEF SaveRoomEvent, BusInv, EventsOK
  <2>2. HandlerOK(h) /\ h.ev = g.ev /\ h.out = {} /\ h.at # "update"
    BY <2>1, SilentHandler
  <2>3. Continue(g, h)
    BY DEF SaveRoomEvent
  <2> HIDE DEF h
  <2>4. QED
    BY <2>2, <2>3 DEF SaveRoomEvent, Silent, BusInv, EventsOK, envVars, ghostVars
<1> HIDE DEF h
<1>2. /\ EventsOK' /\ MessagesOK' /\ Apart' /\ Numbered' /\ SameUnserved /\ SameUpdates
      /\ InFlight \ {g.ev} \subseteq InFlight'
  BY <1>1, SilentInv
<1>3. UNCHANGED <<tables, cursors, unread, queue, hubVars, lastEvent, envVars, ghostVars>>
  BY DEF SaveRoomEvent
<1>4. TypeOK'
  <2>1. Len(queue') <= QueueCap /\ \A k \in running' : HandlerOK(k)
    BY <1>2, <1>3 DEF BusInv, TypeOK, EventsOK
  <2>2. QED
    BY <1>3, <2>1, TypesUnmoved
<1>5. QED
  BY <1>2, <1>3, <1>4 DEF BusInv, tables

(* A cursor is made: in a room, or for a user of a conversation that is.   *)
LEMMA UpsertCursorInv ==
  ASSUME BusInv, NEW g, NEW u \in Users, UpsertCursor(g, u)
  PROVE  /\ BusInv' /\ SameUnserved /\ SameUpdates /\ InFlight \ {g.ev} \subseteq InFlight'
         /\ UNCHANGED <<messages, unread, hubVars, envVars, ghostVars>>
<1> DEFINE h == [g EXCEPT !.left = @ \ {u}]
           c == <<u, CursorThread(g.ev)>>
<1>1. Silent(g, h)
  <2>1. g \in running /\ HandlerOK(g) /\ g.at = "upsert" /\ u \in g.left /\ Continue(g, h)
    BY DEF UpsertCursor, BusInv, EventsOK
  <2>2. HandlerOK(h) /\ h.ev = g.ev /\ h.out = {} /\ h.at # "update"
    BY <2>1, SilentHandler
  <2> HIDE DEF h
  <2>3. QED
    BY <2>1, <2>2 DEF UpsertCursor, Silent, BusInv, EventsOK, envVars, ghostVars
<1> HIDE DEF h
<1>2. /\ EventsOK' /\ MessagesOK' /\ Apart' /\ Numbered' /\ SameUnserved /\ SameUpdates
      /\ InFlight \ {g.ev} \subseteq InFlight'
  BY <1>1, SilentInv
<1>3. /\ UNCHANGED <<tables, unread, queue, hubVars, lastEvent, envVars, ghostVars>>
      /\ cursors' = cursors \cup {c} /\ g \in running /\ u \in g.left /\ HandlerOK(g)
  BY DEF UpsertCursor, BusInv, EventsOK
<1>4. /\ c \in Cursors
      /\ c[2] \in Conversations => c[1] \in c[2] /\ c[2] \in convs
  <2>1. CASE g.ev \in ConvEvents
    <3>1. g.ev.conv \in Conversations /\ u \in g.ev.conv /\ CursorThread(g.ev) = g.ev.conv
      BY <1>3, <2>1 DEF HandlerOK, ConvEvents, RoomEvents, CursorThread
    <3>2. g.ev \in InFlight
      BY <1>3, FlightPlaces
    <3>3. g.ev.conv \in convs
      BY <2>1, <3>2 DEF BusInv, EventsOK
    <3>4. QED
      BY <3>1, <3>3 DEF Cursors, Threads
  <2>2. CASE g.ev \in RoomEvents /\ g.ev.kind = "room_join"
    BY <2>2, InboxAssumption DEF RoomEvents, CursorThread, Cursors, Threads
  <2>3. QED
    BY <1>3, <2>1, <2>2 DEF HandlerOK
<1> HIDE DEF c
<1>5. TypeOK'
  <2>1. /\ cursors' \in SUBSET Cursors
        /\ \A d \in cursors' : d[2] \in Conversations => d[1] \in d[2] /\ d[2] \in convs
        /\ \A d \in Cursors \ cursors' : unread[d] = 0
    BY <1>3, <1>4 DEF BusInv, TypeOK
  <2>2. \A k \in running' : /\ k.at \in {"save", "upsert", "update", "publish", "notify"}
                            /\ k.left \subseteq Users
    BY <1>2 DEF EventsOK, HandlerOK
  <2>3. QED
    BY <1>3, <2>1, <2>2 DEF BusInv, TypeOK, tables, hubVars, ghostVars
<1>6. QED
  BY <1>2, <1>3, <1>5 DEF BusInv, tables

(* A statement fails: at most a message is not counted.                    *)
LEMMA StoreFailsInv ==
  ASSUME BusInv, NEW g, StoreFails(g)
  PROVE  /\ BusInv' /\ Unserved' \cap MsgEvents \subseteq Unserved /\ SameUpdates
         /\ UNCHANGED <<messages, unread, hubVars, crashes, ghostVars>> /\ faults' # 0
<1>1. /\ g \in running /\ HandlerOK(g) /\ faults \in Nat /\ faults' = faults + 1
      /\ UNCHANGED <<tables, cursors, unread, todo, queue, hubVars, lastEvent, resets, crashes,
                     ghostVars>>
      /\ {resets', crashes', faults'} \subseteq Nat
  BY DEF StoreFails, BusInv, EventsOK
<1>2. CASE g.at = "update" /\ End(g)
  <2> DEFINE h == [g EXCEPT !.at = "publish", !.out = {}]
  <2>1. HandlerOK(h) /\ h.ev = g.ev /\ h.out = {} /\ h.at = "publish" /\ g.out = {}
        /\ g.ev \in MsgEvents /\ g.ev \notin Updates
    BY <1>1, <1>2 DEF HandlerOK, MsgEvents, Updates
  <2>2. running' = running \ {g}
    BY <1>2 DEF End
  <2> HIDE DEF h
  <2>3. /\ InFlight' \subseteq InFlight /\ Unserved' \subseteq Unserved
        /\ InFlight \ {g.ev} \subseteq InFlight' /\ Apart' /\ \A k \in running' : HandlerOK(k)
    BY <1>1, <2>1, <2>2, HandlerGoesOn
  <2>4. EventsOK' /\ MessagesOK' /\ Numbered'
    <3>1. todo' \in [Requests -> Seq(Requested)] /\ queue' \in Seq(Events)
      BY <1>1 DEF BusInv, EventsOK
    <3>2. QED
      BY <1>1, <2>3, <3>1, SettlesInv DEF ghostVars
  <2>5. TypeOK'
    <3>1. Len(queue') <= QueueCap
      BY <1>1 DEF BusInv, TypeOK
    <3>2. QED
      BY <1>1, <2>3, <3>1, TypesUnmoved
  <2>6. QED
    BY <1>1, <2>1, <2>3, <2>4, <2>5 DEF BusInv, SameUpdates, tables
<1>3. ASSUME NEW h, Silent(g, h) PROVE BusInv' /\ SameUnserved /\ SameUpdates
  <2>1. EventsOK' /\ MessagesOK' /\ Apart' /\ Numbered' /\ SameUnserved /\ SameUpdates
    BY <1>3, SilentInv
  <2>2. Len(queue') <= QueueCap /\ \A k \in running' : HandlerOK(k)
    BY <1>1, <2>1 DEF BusInv, TypeOK, EventsOK
  <2>3. TypeOK'
    BY <1>1, <2>2, TypesUnmoved
  <2>4. QED
    BY <2>1, <2>3 DEF BusInv
<1>4. CASE g.at = "save" /\ End(g)
  <2> DEFINE h == [g EXCEPT !.at = "upsert"]
  <2>1. HandlerOK(h) /\ h.ev = g.ev /\ h.out = {} /\ h.at # "update"
    BY <1>1, <1>4, SilentHandler
  <2> HIDE DEF h
  <2>2. Silent(g, h)
    BY <1>1, <1>4, <2>1 DEF Silent, ghostVars
  <2>3. QED
    BY <1>1, <1>3, <2>2 DEF tables, SameUnserved
<1>5. ASSUME NEW u \in g.left, g.at = "upsert", Continue(g, [g EXCEPT !.left = @ \ {u}])
      PROVE  BusInv' /\ SameUnserved /\ SameUpdates
  <2> DEFINE h == [g EXCEPT !.left = @ \ {u}]
  <2>1. Continue(g, h) /\ HandlerOK(h) /\ h.ev = g.ev /\ h.out = {} /\ h.at # "update"
    BY <1>1, <1>5, SilentHandler
  <2> HIDE DEF h
  <2>2. Silent(g, h)
    BY <1>1, <1>5, <2>1 DEF Silent, ghostVars
  <2>3. QED
    BY <1>3, <2>2
<1>6. \/ g.at = "update" /\ End(g)
      \/ g.at = "save" /\ End(g)
      \/ g.at = "upsert" /\ \E u \in g.left : Continue(g, [g EXCEPT !.left = @ \ {u}])
  BY DEF StoreFails
<1>7. BusInv' /\ Unserved' \cap MsgEvents \subseteq Unserved /\ SameUpdates
  <2>1. SameUnserved => Unserved' \cap MsgEvents \subseteq Unserved
    BY DEF SameUnserved
  <2>2. QED
    BY <1>2, <1>4, <1>5, <1>6, <2>1
<1>8. QED
  BY <1>1, <1>7 DEF tables

(* The clearing of counts. *)
LEMMA MarkAsReadInv ==
  ASSUME BusInv, NEW u \in Users, NEW T, MarkAsRead(u, T)
  PROVE  /\ BusInv' /\ SameUnserved /\ SameUpdates /\ KeepsNews
         /\ resets' # 0
         /\ UNCHANGED <<messages, hubVars, crashes, faults, missed, overtaken>>
         /\ \A c \in Cursors : unread'[c] + read'[c] = unread[c] + read[c]
<1> DEFINE hit == {c \in cursors : c[1] = u /\ c[2] \in T}
<1>1. /\ unread' = [c \in Cursors |-> IF c \in hit THEN 0 ELSE unread[c]]
      /\ read' = [c \in Cursors |-> IF c \in hit THEN read[c] + unread[c] ELSE read[c]]
      /\ resets' = resets + 1
      /\ UNCHANGED <<tables, rows, cursors, todo, queue, running, hubVars, lastEvent, crashes,
                     faults, missed, overtaken>>
  BY DEF MarkAsRead, busVars
<1> HIDE DEF hit
<1>2. unread \in [Cursors -> Nat] /\ read \in [Cursors -> Nat]
  BY DEF BusInv, TypeOK
<1>3. TypeOK'
  <2>1. unread' \in [Cursors -> Nat] /\ read' \in [Cursors -> Nat]
    BY <1>1, <1>2
  <2>2. \A c \in Cursors \ cursors' : unread'[c] = 0
    BY <1>1 DEF BusInv, TypeOK
  <2>3. QED
    BY <1>1, <2>1, <2>2 DEF BusInv, TypeOK, tables, hubVars
<1>4. InFlight' = InFlight /\ Unserved' = Unserved
  BY <1>1 DEF InFlight, Unserved
<1>5. Apart'
  BY <1>1 DEF BusInv, Apart
<1>6. EventsOK' /\ MessagesOK' /\ Numbered'
  <2>1. /\ {resets', crashes', faults'} \subseteq Nat /\ todo' \in [Requests -> Seq(Requested)]
        /\ queue' \in Seq(Events) /\ \A g \in running' : HandlerOK(g)
    BY <1>1 DEF BusInv, EventsOK
  <2>2. QED
    BY <1>1, <1>4, <2>1, SettlesInv
<1>7. resets' # 0
  BY <1>1 DEF BusInv, EventsOK
<1>8. QED
  BY <1>1, <1>2, <1>3, <1>4, <1>5, <1>6, <1>7 DEF BusInv, SameUnserved, SameUpdates, KeepsNews,
     tables

(* After a crash nothing is in flight. *)
LEMMA CrashInv ==
  ASSUME BusInv, Crash
  PROVE  /\ BusInv' /\ Unserved' = {} /\ InFlight' = {} /\ crashes' # 0
         /\ UNCHANGED <<messages, unread, hubVars, faults, ghostVars>>
<1>1. /\ todo' = [p \in Requests |-> <<>>] /\ queue' = <<>> /\ running' = {}
      /\ crashes' = crashes + 1
      /\ UNCHANGED <<tables, rows, cursors, unread, hubVars, lastEvent, resets, faults, ghostVars>>
  BY DEF Crash
<1>2. /\ \A p \in Requests : Range(todo'[p]) = {} /\ Injective(todo'[p])
      /\ Range(queue') = {} /\ Injective(queue')
  BY <1>1 DEF Range, Injective
<1>3. InFlight' = {} /\ Unserved' = {}
  BY <1>1, <1>2 DEF InFlight, Unserved
<1>4. TypeOK'
  BY <1>1, InboxAssumption DEF BusInv, TypeOK, tables, hubVars, ghostVars
<1>5. Apart'
  BY <1>1, <1>2 DEF Apart
<1>6. EventsOK' /\ MessagesOK' /\ Numbered'
  <2>1. /\ {resets', crashes', faults'} \subseteq Nat /\ todo' \in [Requests -> Seq(Requested)]
        /\ queue' \in Seq(Events) /\ \A g \in running' : HandlerOK(g)
    BY <1>1 DEF BusInv, EventsOK
  <2>2. QED
    BY <1>1, <1>3, <2>1, SettlesInv DEF ghostVars
<1>7. crashes' # 0
  BY <1>1 DEF BusInv, EventsOK
<1>8. QED
  BY <1>1, <1>3, <1>4, <1>5, <1>6, <1>7 DEF BusInv, tables

(* A count is handed to the hub, and is in flight no more.                 *)
LEMMA NotifyHubInv ==
  ASSUME BusInv, NEW g, NotifyHub(g)
  PROVE  /\ BusInv' /\ SameUnserved /\ g \in running /\ g.ev \in Updates /\ g.ev \in InFlight
         /\ InFlight' = InFlight \ {g.ev}
         /\ handed' = [handed EXCEPT ![<<g.ev.user, g.ev.thread>>] = @ + 1]
         /\ UNCHANGED <<messages, unread, envVars, ghostVars>>
<1> DEFINE c == <<g.ev.user, g.ev.thread>>
           h == [g EXCEPT !.at = "notify"]
<1>1. /\ g \in running /\ g.at = "notify" /\ HandlerOK(g) /\ running' = running \ {g}
      /\ badge' = [badge EXCEPT ![c] = g.ev.unread] /\ handed' = [handed EXCEPT ![c] = @ + 1]
      /\ UNCHANGED <<tables, rows, cursors, unread, todo, queue, lastEvent, envVars, ghostVars>>
  BY DEF NotifyHub, End, BusInv, EventsOK
<1>2. g.ev \in Updates /\ g.out = {} /\ g.ev \in InFlight
  BY <1>1, FlightPlaces DEF HandlerOK
<1>3. HandlerOK(h) /\ h.ev = g.ev /\ h.out = {} /\ h.at # "update"
  BY <1>1, <1>2 DEF HandlerOK
<1> HIDE DEF h
<1>4. /\ InFlight' \subseteq InFlight /\ Unserved' = Unserved
      /\ InFlight \ {g.ev} \subseteq InFlight'
      /\ Apart' /\ \A k \in running' : HandlerOK(k)
  BY <1>1, <1>2, <1>3, HandlerGoesOn
<1>5. g.ev \notin InFlight'
  BY <1>1, FlightPlacesNext DEF BusInv, Apart
<1>6. EventsOK' /\ MessagesOK' /\ Numbered'
  <2>1. /\ {resets', crashes', faults'} \subseteq Nat /\ todo' \in [Requests -> Seq(Requested)]
        /\ queue' \in Seq(Events)
    BY <1>1 DEF BusInv, EventsOK, envVars
  <2>2. QED
    BY <1>1, <1>4, <2>1, SettlesInv DEF ghostVars
<1>7. TypeOK'
  <2>1. c \in Cursors /\ g.ev.unread \in Nat
    BY <1>2 DEF Updates, Cursors
  <2>2. badge' \in [Cursors -> Nat] /\ handed' \in [Cursors -> Nat]
    BY <1>1, <2>1 DEF BusInv, TypeOK
  <2>3. \A k \in running' : k \in running
    BY <1>1
  <2>4. QED
    BY <1>1, <2>2, <2>3 DEF BusInv, TypeOK, tables, ghostVars
<1>8. QED
  BY <1>1, <1>2, <1>4, <1>5, <1>6, <1>7 DEF BusInv, SameUnserved, tables

(* A handler's event, a count, moves to the queue.                         *)
LEMMA PublishUpdateInv ==
  ASSUME BusInv, NEW g, NEW e, PublishUpdate(g, e)
  PROVE  /\ BusInv' /\ SameUnserved /\ SameUpdates /\ KeepsNews
         /\ UNCHANGED <<messages, unread, hubVars, envVars, ghostVars>>
<1> DEFINE h == [g EXCEPT !.out = @ \ {e}]
<1>1. /\ g \in running /\ g.at = "publish" /\ e \in g.out /\ Len(queue) < QueueCap
      /\ queue' = Append(queue, e) /\ Continue(g, h)
      /\ UNCHANGED <<tables, rows, cursors, unread, todo, hubVars, lastEvent, envVars, ghostVars>>
  BY DEF PublishUpdate
<1>2. HandlerOK(g) /\ e \in Updates /\ e \in Events /\ g.ev \in MsgEvents /\ g.ev \notin Updates
  BY <1>1 DEF BusInv, EventsOK, HandlerOK, Events, MsgEvents, Updates
<1>3. HandlerOK(h) /\ h.ev = g.ev /\ h.out = g.out \ {e} /\ h.at = "publish"
  BY <1>1, <1>2 DEF HandlerOK
<1>4. /\ running \ {g} \subseteq running' /\ running' \subseteq (running \ {g}) \cup {h}
      /\ h.out # {} => h \in running'
  BY <1>1, <1>3 DEF Continue, Finished
<1> HIDE DEF h
<1>5. /\ queue \in Seq(Events) /\ Injective(queue)
      /\ e \notin Range(queue) /\ \A k \in running : k.ev # e
      /\ \A k \in running : k # g => e \notin k.out
  BY <1>1 DEF BusInv, EventsOK, Apart
<1>6. \A p \in Requests : e \notin Range(todo[p])
  <2>1. \A p \in Requests : Range(todo[p]) \subseteq Requested
    BY RangeOfSeq DEF BusInv, EventsOK
  <2>2. e \notin Requested
    BY <1>2 DEF Requested, MsgEvents, RoomEvents, ConvEvents, Updates
  <2>3. QED
    BY <2>1, <2>2
<1>7. /\ queue' \in Seq(Events) /\ Len(queue') = Len(queue) + 1 /\ Injective(queue')
      /\ Range(queue') = Range(queue) \cup {e}
  BY <1>1, <1>2, <1>5, AppendNew
<1>8. \A x : x \in InFlight' => x \in InFlight
  BY <1>1, <1>3, <1>4, <1>7, FlightPlaces, FlightPlacesNext
<1>9. \A x : x \in InFlight /\ x # g.ev => x \in InFlight'
  <2>1. SUFFICES ASSUME NEW x \in InFlight, x # g.ev PROVE x \in InFlight'
    OBVIOUS
  <2>2. ASSUME NEW p \in Requests, x \in Range(todo[p]) PROVE x \in InFlight'
    BY <1>1, <2>2, FlightPlacesNext
  <2>3. x \in Range(queue) \/ x = e => x \in InFlight'
    BY <1>7, FlightPlacesNext
  <2>4. ASSUME NEW k \in running, k # g, x = k.ev \/ x \in k.out PROVE x \in InFlight'
    BY <1>4, <2>4, FlightPlacesNext
  <2>5. ASSUME x \in g.out, x # e PROVE x \in InFlight'
    BY <1>3, <1>4, <2>5, FlightPlacesNext
  <2>6. QED
    BY <2>1, <2>2, <2>3, <2>4, <2>5, FlightPlaces
<1>10. Unserved' \cap MsgEvents = Unserved \cap MsgEvents
  <2>1. \A x : x \in Unserved' => x \in Unserved \/ x = e
    BY <1>1, <1>3, <1>4, <1>7, FlightPlaces, FlightPlacesNext
  <2>2. \A x : x \in Unserved => x \in Unserved'
    BY <1>1, <1>3, <1>4, <1>7, FlightPlaces, FlightPlacesNext
  <2>3. e \notin MsgEvents
    BY <1>2 DEF MsgEvents, Updates
  <2>4. QED
    BY <2>1, <2>2, <2>3
<1>11. Apart'
  <2>1. \A k \in running' : \E o \in running :
          /\ k.ev = o.ev /\ k.out \subseteq o.out /\ e \notin k.out
          /\ (k = h => o = g) /\ (k # h => o = k /\ k # g)
    BY <1>1, <1>3, <1>4, <1>5
  <2>2. \A k, l \in running' : /\ k.ev = l.ev => k = l
                               /\ k.ev \notin l.out
                               /\ k # l => k.out \cap l.out = {}
    <3>1. SUFFICES ASSUME NEW k \in running', NEW l \in running'
                   PROVE  /\ k.ev = l.ev => k = l
                          /\ k.ev \notin l.out
                          /\ k # l => k.out \cap l.out = {}
      OBVIOUS
    <3>2. PICK o \in running : /\ k.ev = o.ev /\ k.out \subseteq o.out
                               /\ (k = h => o = g) /\ (k # h => o = k /\ k # g)
      BY <2>1
    <3>3. PICK q \in running : /\ l.ev = q.ev /\ l.out \subseteq q.out
                               /\ (l = h => q = g) /\ (l # h => q = l /\ l # g)
      BY <2>1
    <3>4. k # l => o # q
      BY <3>2, <3>3
    <3>5. (o.ev = q.ev => o = q) /\ o.ev \notin q.out /\ (o # q => o.out \cap q.out = {})
      BY DEF BusInv, Apart
    <3>6. QED
      BY <3>2, <3>3, <3>4, <3>5
  <2>3. \A k \in running' : /\ k.ev \notin Range(queue') /\ k.out \cap Range(queue') = {}
                            /\ \A p \in Requests : k.ev \notin Range(todo[p])
    BY <1>5, <1>7, <2>1 DEF BusInv, Apart
  <2>4. \A p \in Requests : Range(todo[p]) \cap Range(queue') = {}
    BY <1>6, <1>7 DEF BusInv, Apart
  <2>5. QED
    BY <1>1, <1>7, <2>2, <2>3, <2>4 DEF BusInv, Apart
<1>12. \A k \in running' : HandlerOK(k)
  BY <1>3, <1>4 DEF BusInv, EventsOK
<1>13. EventsOK' /\ MessagesOK' /\ Numbered'
  <2>1. /\ {resets', crashes', faults'} \subseteq Nat /\ todo' \in [Requests -> Seq(Requested)]
    BY <1>1 DEF BusInv, EventsOK, envVars
  <2>2. QED
    BY <1>1, <1>7, <1>8, <1>10, <1>12, <2>1, SettlesInv DEF ghostVars
<1>14. TypeOK'
  <2>1. Len(queue') <= QueueCap
    BY <1>1, <1>5, <1>7, InboxAssumption
  <2>2. QED
    BY <1>1, <1>12, <2>1, TypesUnmoved
<1>15. SameUpdates
  BY <1>2, <1>8, <1>9 DEF SameUpdates
<1>16. KeepsNews
  BY <1>2, <1>9 DEF KeepsNews, News, RoomEvents, ConvEvents, MsgEvents
<1>17. QED
  BY <1>1, <1>10, <1>11, <1>13, <1>14, <1>15, <1>16 DEF BusInv, SameUnserved, tables

(* The counts that the handler of a message has to publish.                *)
Counts(g) ==
  {[kind |-> "inbox_entry_updated", n |-> g.ev.n, user |-> u, thread |-> g.ev.thread,
    unread |-> unread'[<<u, g.ev.thread>>]] : u \in Counted(g.ev)}

(* A message is counted: the counts are new, and it is unserved no more.    *)
LEMMA UpdateCursorsInv ==
  ASSUME BusInv, NEW g, UpdateCursors(g)
  PROVE  /\ BusInv' /\ g.ev \in Unserved \cap MsgEvents /\ KeepsNews
         /\ Unserved' \cap MsgEvents = (Unserved \cap MsgEvents) \ {g.ev}
         /\ InFlight' \cap Updates = (InFlight \cap Updates) \cup Counts(g)
         /\ \A x \in Counts(g) : x \notin InFlight
         /\ unread' = [c \in Cursors |-> IF c[2] = g.ev.thread /\ c[1] \in Counted(g.ev)
                                         THEN unread[c] + 1 ELSE unread[c]]
         /\ missed' = missed \cup {<<g.ev.id, u>> : u \in Addressees(g.ev) \ Counted(g.ev)}
         /\ UNCHANGED <<messages, cursors, hubVars, envVars, read>>
<1> DEFINE e == g.ev
           O == Counts(g)
           h == [g EXCEPT !.at = "publish", !.out = O]
<1>1. /\ g \in running /\ g.at = "update"
      /\ unread' = [c \in Cursors |-> IF c[2] = e.thread /\ c[1] \in Counted(e)
                                      THEN unread[c] + 1 ELSE unread[c]]
      /\ missed' = missed \cup {<<e.id, u>> : u \in Addressees(e) \ Counted(e)}
      /\ Continue(g, h)
      /\ overtaken' = overtaken \cup {c \in Cursors : unread'[c] > unread[c] /\ Underway(c) # {}}
      /\ UNCHANGED <<tables, rows, cursors, todo, queue, hubVars, lastEvent, envVars, read>>
  BY DEF UpdateCursors, Counts
<1>2. HandlerOK(g) /\ e \in MsgEvents /\ g.out = {}
  BY <1>1 DEF BusInv, EventsOK, HandlerOK
<1>3. unread' \in [Cursors -> Nat] /\ Counted(e) \subseteq Users /\ e.thread \in Threads
  <2>1. Counted(e) \subseteq Users
    BY <1>2, ConversationUsers DEF Counted, Addressees, MsgEvents, Threads
  <2>2. QED
    BY <1>1, <1>2, <2>1 DEF BusInv, TypeOK, MsgEvents
<1>4. O \subseteq Updates /\ \A x \in O : x.n = e.n
  <2>1. \A u \in Counted(e) : <<u, e.thread>> \in Cursors /\ unread'[<<u, e.thread>>] \in Nat
    BY <1>3 DEF Cursors
  <2>2. e.n \in 1..MaxEvents
    BY <1>2 DEF MsgEvents
  <2> DEFINE o(u) == [kind |-> "inbox_entry_updated", n |-> e.n, user |-> u,
                      thread |-> e.thread, unread |-> unread'[<<u, e.thread>>]]
  <2>3. \A u \in Counted(e) : o(u) \in Updates /\ o(u).n = e.n
    BY <1>3, <2>1, <2>2 DEF Updates
  <2>4. O = {o(u) : u \in Counted(e)}
    BY DEF Counts
  <2> HIDE DEF o, O
  <2>5. QED
    BY <2>3, <2>4
<1> HIDE DEF O
<1>5. HandlerOK(h) /\ h.ev = e /\ h.out = O /\ h.at = "publish"
  BY <1>1, <1>2, <1>4 DEF HandlerOK
<1>6. /\ running \ {g} \subseteq running' /\ running' \subseteq (running \ {g}) \cup {h}
      /\ O # {} => h \in running'
  BY <1>1, <1>5 DEF Continue, Finished
<1> HIDE DEF h
<1>7. e \in Unserved \cap MsgEvents /\ e \in InFlight
  BY <1>1, <1>2, FlightPlaces
<1>8. \A x \in O : x \notin InFlight
  BY <1>4, <1>7 DEF BusInv, Numbered
<1>9. \A x : x \in InFlight' => x \in InFlight \/ x \in O
  BY <1>1, <1>5, <1>6, FlightPlaces, FlightPlacesNext
<1>10. \A x : x \in InFlight /\ x # e => x \in InFlight'
  BY <1>1, <1>2, <1>6, FlightPlaces, FlightPlacesNext
<1>11. \A x : x \in O => x \in InFlight'
  BY <1>5, <1>6, FlightPlacesNext
<1>12. \A x : x \in Unserved' <=> x \in Unserved /\ x # e
  <2>1. /\ \A p \in Requests : e \notin Range(todo[p])
        /\ e \notin Range(queue) /\ \A k \in running : k # g => k.ev # e
    BY <1>1 DEF BusInv, Apart
  <2>2. QED
    BY <1>1, <1>5, <1>6, <2>1, FlightPlaces, FlightPlacesNext
<1>13. Apart'
  <2>1. \A k \in running' : \/ k = h
                            \/ k \in running /\ k # g /\ k # h /\ k.out \cap O = {}
    BY <1>6, <1>8, FlightPlaces
  <2>2. \A k \in running : k.ev \notin O
    BY <1>8, FlightPlaces
  <2>3. \A k, l \in running' : /\ k.ev = l.ev => k = l
                               /\ k.ev \notin l.out
                               /\ k # l => k.out \cap l.out = {}
    BY <1>1, <1>5, <2>1, <2>2 DEF BusInv, Apart
  <2>4. O \cap Range(queue) = {}
    BY <1>8, FlightPlaces
  <2>5. \A k \in running' : /\ k.ev \notin Range(queue) /\ k.out \cap Range(queue) = {}
                            /\ \A p \in Requests : k.ev \notin Range(todo[p])
    BY <1>1, <1>5, <2>1, <2>4 DEF BusInv, Apart
  <2>6. QED
    BY <1>1, <2>3, <2>5 DEF BusInv, Apart
<1>14. EventsOK'
  <2>1. \A x \in InFlight' : x.n <= lastEvent
    BY <1>4, <1>7, <1>9, EventTypes
  <2>2. \A x \in InFlight' \cap ConvEvents : x.conv \in convs
    BY <1>4, <1>9 DEF BusInv, EventsOK, ConvEvents, Updates
  <2>3. QED
    BY <1>1, <1>5, <1>6, <2>1, <2>2 DEF BusInv, EventsOK, tables, envVars
<1>15. MessagesOK'
  <2>1. e.id <= Cardinality(messages)
    BY <1>7 DEF BusInv, MessagesOK, MessageOf
  <2>2. \A x \in missed' : x[1] <= Cardinality(messages)
    BY <1>1, <2>1 DEF BusInv, MessagesOK
  <2>3. \A x \in InFlight' \cap MsgEvents : x \in InFlight
    BY <1>4, <1>9 DEF MsgEvents, Updates
  <2>4. QED
    BY <1>1, <2>2, <2>3 DEF BusInv, MessagesOK, tables
<1>16. Numbered'
  <2>1. \A x \in InFlight' \cap MsgEvents : x \in InFlight
    BY <1>4, <1>9 DEF MsgEvents, Updates
  <2>2. ASSUME NEW f \in Unserved' \cap MsgEvents, NEW u \in InFlight' \cap Updates
        PROVE  u.n # f.n
    <3>1. f \in Unserved \cap MsgEvents /\ f # e /\ f \in InFlight
      BY <1>12, <2>2, EventTypes
    <3>2. f.n # e.n
      BY <1>7, <3>1 DEF BusInv, Numbered
    <3>3. QED
      BY <1>4, <1>9, <2>2, <3>1, <3>2 DEF BusInv, Numbered
  <2>3. QED
    BY <2>1, <2>2 DEF BusInv, Numbered
<1>17. TypeOK'
  <2>1. missed' \in SUBSET ((1..MaxMessages) \X Users)
    <3>1. e.id \in 1..MaxMessages /\ Addressees(e) \subseteq Users
      BY <1>2, ConversationUsers DEF MsgEvents, Addressees, Threads
    <3>2. QED
      BY <1>1, <3>1 DEF BusInv, TypeOK
  <2>2. \A c \in Cursors \ cursors' : unread'[c] = 0
    <3>1. \A c \in Cursors \ cursors : ~(c[2] = e.thread /\ c[1] \in Counted(e))
      BY DEF Cursors, Counted
    <3>2. QED
      BY <1>1, <3>1 DEF BusInv, TypeOK
  <2>3. \A k \in running' : /\ k.at \in {"save", "upsert", "update", "publish", "notify"}
                            /\ k.left \subseteq Users
    BY <1>5, <1>6 DEF BusInv, TypeOK, HandlerOK
  <2>4. QED
    BY <1>1, <1>3, <2>1, <2>2, <2>3 DEF BusInv, TypeOK, tables, hubVars
<1>18. InFlight' \cap Updates = (InFlight \cap Updates) \cup O
  <2>1. e \notin Updates
    BY <1>2 DEF MsgEvents, Updates
  <2>2. QED
    BY <1>4, <1>9, <1>10, <1>11, <2>1
<1>19. Unserved' \cap MsgEvents = (Unserved \cap MsgEvents) \ {e}
  BY <1>12
<1>20. KeepsNews
  BY <1>2, <1>10 DEF KeepsNews, News, RoomEvents, ConvEvents, MsgEvents
<1>21. QED
  BY <1>1, <1>7, <1>8, <1>13, <1>14, <1>15, <1>16, <1>17, <1>18, <1>19, <1>20
     DEF BusInv, tables, O

----------------------------------------------------------------------------
(* A step that is neither a send, nor a count, nor a hand-over, nor a fault *)
(* changes nothing that is counted.                                        *)
Quiet ==
  /\ SameUnserved /\ SameUpdates
  /\ UNCHANGED <<messages, hubVars, crashes, faults, missed, overtaken>>
  /\ \A c \in Cursors : unread'[c] + read'[c] = unread[c] + read[c]
  /\ resets' = 0 => resets = 0 /\ unread' = unread

Sends(m) == Sent(m) /\ SameUpdates /\ UNCHANGED <<unread, hubVars, envVars, ghostVars>>

Kinds ==
  \/ Quiet
  \/ \E m : Sends(m)
  \/ \E g \in running : UpdateCursors(g) \/ NotifyHub(g) \/ StoreFails(g)
  \/ Crash

(* Every step keeps the invariant, and is of one of these kinds.           *)
LEMMA BusStep == ASSUME BusInv, [Next]_vars PROVE BusInv' /\ Kinds
<1>1. ASSUME SameUnserved, SameUpdates,
             UNCHANGED <<messages, unread, hubVars, envVars, ghostVars>>
      PROVE  Quiet
  BY <1>1 DEF Quiet, envVars, ghostVars
<1>2. ASSUME UNCHANGED vars PROVE BusInv' /\ Kinds
  <2>1. /\ UNCHANGED <<tables, cursors, unread, todo, queue, running, hubVars, lastEvent, resets,
                       crashes, faults, missed, read, overtaken, envVars, ghostVars, messages>>
    BY <1>2 DEF vars, tables, busVars, envVars, ghostVars
  <2>2. InFlight' = InFlight /\ Unserved' = Unserved
    BY <2>1 DEF InFlight, Unserved
  <2>3. \A g \in running' : HandlerOK(g)
    BY <2>1 DEF BusInv, EventsOK
  <2>4. EventsOK' /\ MessagesOK' /\ Numbered'
    <3>1. /\ {resets', crashes', faults'} \subseteq Nat /\ todo' \in [Requests -> Seq(Requested)]
          /\ queue' \in Seq(Events)
      BY <2>1 DEF BusInv, EventsOK
    <3>2. QED
      BY <2>1, <2>2, <2>3, <3>1, SettlesInv
  <2>5. TypeOK'
    <3>1. Len(queue') <= QueueCap
      BY <2>1 DEF BusInv, TypeOK
    <3>2. QED
      BY <2>1, <2>3, <3>1, TypesUnmoved
  <2>6. Apart'
    BY <2>1 DEF BusInv, Apart
  <2>7. QED
    BY <1>1, <2>1, <2>2, <2>4, <2>5, <2>6 DEF BusInv, Kinds, SameUnserved, SameUpdates
<1>3. ASSUME NEW p \in Requests, Request(p) PROVE BusInv' /\ Kinds
  <2>1. ASSUME NEW u \in Users, NEW r \in Rooms,
               CreateRoom(p, u, r) \/ Join(p, u, r) \/ Leave(p, u, r)
        PROVE  BusInv' /\ Kinds
    BY <1>1, <2>1, RoomRequestInv DEF Kinds
  <2>2. ASSUME NEW u \in Users, NEW r \in Rooms, SendRoomMessage(p, u, r) PROVE BusInv' /\ Kinds
    BY <2>2, SendRoomMessageInv DEF Kinds, Sends
  <2>3. ASSUME NEW u \in Users, NEW v \in Users, SendDirectMessage(p, u, v)
        PROVE  BusInv' /\ Kinds
    BY <2>3, SendDirectMessageInv DEF Kinds, Sends
  <2>4. QED
    BY <1>3, <2>1, <2>2, <2>3 DEF Request
<1>4. ASSUME NEW p \in Requests, Publish(p) PROVE BusInv' /\ Kinds
  BY <1>1, <1>4, PublishInv DEF Kinds
<1>5. ASSUME Dispatch PROVE BusInv' /\ Kinds
  BY <1>1, <1>5, DispatchInv DEF Kinds
<1>6. ASSUME NEW g \in running, Handle(g) PROVE BusInv' /\ Kinds
  <2>1. ASSUME SaveRoomEvent(g) PROVE BusInv' /\ Kinds
    BY <1>1, <2>1, SaveRoomEventInv DEF Kinds
  <2>2. ASSUME NEW u \in Users, UpsertCursor(g, u) PROVE BusInv' /\ Kinds
    BY <1>1, <2>2, UpsertCursorInv DEF Kinds
  <2>3. ASSUME UpdateCursors(g) PROVE BusInv' /\ Kinds
    BY <2>3, UpdateCursorsInv DEF Kinds
  <2>4. ASSUME NEW e \in g.out, PublishUpdate(g, e) PROVE BusInv' /\ Kinds
    BY <1>1, <2>4, PublishUpdateInv DEF Kinds
  <2>5. ASSUME NotifyHub(g) PROVE BusInv' /\ Kinds
    BY <2>5, NotifyHubInv DEF Kinds
  <2>6. QED
    BY <1>6, <2>1, <2>2, <2>3, <2>4, <2>5 DEF Handle
<1>7. ASSUME NEW g \in running, StoreFails(g) PROVE BusInv' /\ Kinds
  BY <1>7, StoreFailsInv DEF Kinds
<1>8. ASSUME NEW u \in Users, NEW T, MarkAsRead(u, T) PROVE BusInv' /\ Kinds
  BY <1>8, MarkAsReadInv DEF Kinds, Quiet
<1>9. ASSUME Crash PROVE BusInv' /\ Kinds
  BY <1>9, CrashInv DEF Kinds
<1>10. QED
  BY <1>2, <1>3, <1>4, <1>5, <1>6, <1>7, <1>8, <1>9 DEF Next

(* Everything keeps its type: cursors are those of rooms, or of one of the *)
(* two users of a conversation that exists, and a count is 0 where there   *)
(* is no cursor (store/inbox.sql.go, conversation/service.go).             *)
THEOREM TypeCorrect == Spec => []TypeOK
<1>1. BusInv /\ [Next]_vars => BusInv'
  BY BusStep
<1>2. BusInv => TypeOK
  BY DEF BusInv
<1>3. QED
  BY <1>1, <1>2, BusInitInv, PTL DEF Spec

=============================================================================
