---------------------------- MODULE InboxProofs ----------------------------
(***************************************************************************)
(* Theorems about unread counts, for any users, rooms, requests, capacity  *)
(* of the queue and bounds: each message is counted once, each count is    *)
(* handed to the hub once, only those whose cursor is still being made are *)
(* passed by, and the last count of a cursor that was not overtaken is the *)
(* one its owner is told.                                                  *)
(***************************************************************************)
EXTENDS BusProofs

----------------------------------------------------------------------------
(* Counting, for the cursors that can be: the messages of others that were *)
(* missed, and those that wait to be counted.                              *)
Sound == {c \in Cursors : c[2] \in Rooms \/ c[1] \in c[2]}
Missing(c) == {m \in Others(c) : <<m.id, c[1]>> \in missed}
Waiting(c) == {m \in Others(c) : m.id \in Pending}

(* No message was missed by anyone before its handler came to it. *)
Fresh == \A e \in Unserved \cap MsgEvents, u \in Users : <<e.id, u>> \notin missed

Ledger(c) == unread[c] + read[c] + Cardinality(Missing(c)) + Cardinality(Waiting(c))
Balanced(c) == /\ Ledger(c) <= Cardinality(Others(c))
               /\ Undisturbed => Ledger(c) = Cardinality(Others(c))

AccountInv == BusInv /\ Fresh /\ \A c \in Sound : Balanced(c)

(* What waits, in terms of events; and that all of it is finite. *)
WaitingEvents == \A i : i \in Pending <=> \E e \in Unserved \cap MsgEvents : e.id = i
Measured ==
  \A c \in Cursors :
     /\ unread[c] \in Nat /\ read[c] \in Nat
     /\ IsFiniteSet(Others(c)) /\ IsFiniteSet(Missing(c)) /\ IsFiniteSet(Waiting(c))
     /\ Cardinality(Others(c)) \in Nat /\ Cardinality(Missing(c)) \in Nat
     /\ Cardinality(Waiting(c)) \in Nat

(* Both hold in every state. *)
LEMMA PendingIs == BusInv => WaitingEvents /\ Measured
<1> SUFFICES ASSUME BusInv PROVE WaitingEvents /\ Measured
  OBVIOUS
<1>1. WaitingEvents
  <2>1. Pending = {e.id : e \in {x \in Unserved : IsMessage(x)}}
    BY DEF Pending, Unserved
  <2>2. \A x \in Unserved : IsMessage(x) <=> x \in MsgEvents
    BY EventTypes
  <2>3. QED
    BY <2>1, <2>2 DEF WaitingEvents
<1>2. ASSUME NEW c \in Cursors
      PROVE  /\ IsFiniteSet(Others(c)) /\ IsFiniteSet(Missing(c)) /\ IsFiniteSet(Waiting(c))
             /\ unread[c] \in Nat /\ read[c] \in Nat
  <2>1. /\ Others(c) \subseteq messages /\ Missing(c) \subseteq messages
        /\ Waiting(c) \subseteq messages
    BY DEF Others, Missing, Waiting
  <2>2. IsFiniteSet(messages)
    BY DEF BusInv, MessagesOK
  <2>3. QED
    BY <2>1, <2>2, FS_Subset DEF BusInv, TypeOK
<1>3. QED
  BY <1>1, <1>2, FS_CardinalityType DEF Measured

(* The same after a step. *)
LEMMA PendingIsNext == BusInv' => WaitingEvents' /\ Measured'
BY PendingIs, PTL

(* A quiet step leaves the ledger as it is.                                *)
LEMMA QuietAccount == ASSUME AccountInv, BusInv', Quiet PROVE AccountInv'
<1>1. WaitingEvents /\ Measured /\ WaitingEvents' /\ Measured'
  BY PendingIs, PendingIsNext DEF AccountInv
<1>2. messages' = messages /\ missed' = missed /\ (Undisturbed' <=> Undisturbed)
  BY DEF Quiet, Undisturbed
<1>3. \A i : i \in Pending' <=> i \in Pending
  BY <1>1 DEF Quiet, SameUnserved, WaitingEvents
<1>4. Fresh'
  BY <1>2 DEF AccountInv, Fresh, Quiet, SameUnserved
<1>5. ASSUME NEW c \in Sound PROVE Balanced(c)'
  <2>1. Others(c)' = Others(c) /\ Missing(c)' = Missing(c) /\ Waiting(c)' = Waiting(c)
    BY <1>2, <1>3 DEF Others, Missing, Waiting
  <2>2. unread'[c] + read'[c] = unread[c] + read[c]
    BY DEF Quiet, Sound
  <2>3. QED
    BY <1>2, <2>1, <2>2 DEF AccountInv, Balanced, Ledger
<1>6. QED
  BY <1>4, <1>5 DEF AccountInv, Sound

(* A message that is sent waits to be counted for all but its sender.      *)
LEMMA SendAccount == ASSUME AccountInv, BusInv', NEW m, Sends(m) PROVE AccountInv'
<1>1. WaitingEvents /\ Measured /\ WaitingEvents' /\ Measured'
  BY PendingIs, PendingIsNext DEF AccountInv
<1>2. /\ messages' = messages \cup {m} /\ m \notin messages /\ m.id = Cardinality(messages) + 1
      /\ missed' = missed /\ (Undisturbed' <=> Undisturbed)
      /\ UNCHANGED <<unread, read>>
  BY DEF Sends, Sent, Undisturbed, envVars, ghostVars
<1>3. PICK e \in MsgEvents : /\ MessageOf(e) = m
                             /\ Unserved' \cap MsgEvents = (Unserved \cap MsgEvents) \cup {e}
  BY DEF Sends, Sent
<1>4. e.id = m.id
  BY <1>3 DEF MessageOf
<1>5. /\ \A o \in messages : o.id \in Nat /\ o.id # m.id
      /\ \A x \in missed : x[1] # m.id
  <2>1. /\ \A o \in messages : o.id \in Nat /\ o.id <= Cardinality(messages)
        /\ \A x \in missed : x[1] \in Nat /\ x[1] <= Cardinality(messages)
    BY DEF AccountInv, BusInv, TypeOK, MessagesOK
  <2>2. Cardinality(messages) \in Nat
    BY Bounds DEF AccountInv
  <2>3. QED
    BY <1>2, <2>1, <2>2
<1>6. \A i : i \in Pending' <=> i \in Pending \/ i = m.id
  BY <1>1, <1>3, <1>4 DEF WaitingEvents
<1>7. Fresh'
  BY <1>2, <1>3, <1>4, <1>5 DEF AccountInv, Fresh
<1>8. ASSUME NEW c \in Sound PROVE Balanced(c)'
  <2>1. c \in Cursors
    BY DEF Sound
  <2>2. Missing(c)' = Missing(c)
    BY <1>2, <1>5 DEF Missing, Others
  <2>3. CASE m.thread = c[2] /\ m.from # c[1]
    <3>1. /\ Others(c)' = Others(c) \cup {m} /\ m \notin Others(c)
          /\ Waiting(c)' = Waiting(c) \cup {m} /\ m \notin Waiting(c)
      BY <1>2, <1>5, <1>6, <2>3 DEF Others, Waiting
    <3>2. /\ Cardinality(Others(c)') = Cardinality(Others(c)) + 1
          /\ Cardinality(Waiting(c)') = Cardinality(Waiting(c)) + 1
      BY <1>1, <2>1, <3>1, FS_AddElement DEF Measured
    <3>3. QED
      BY <1>1, <1>2, <2>1, <2>2, <3>2 DEF AccountInv, Balanced, Ledger, Measured
  <2>4. CASE ~(m.thread = c[2] /\ m.from # c[1])
    <3>1. Others(c)' = Others(c) /\ Waiting(c)' = Waiting(c)
      BY <1>2, <1>5, <1>6, <2>4 DEF Others, Waiting
    <3>2. QED
      BY <1>2, <2>2, <3>1 DEF AccountInv, Balanced, Ledger
  <2>5. QED
    BY <2>3, <2>4
<1>9. QED
  BY <1>7, <1>8 DEF AccountInv, Sound

(* A step that loses events, by a crash or a fault, only takes away from   *)
(* what waits.                                                             *)
LEMMA LossAccount ==
  ASSUME AccountInv, BusInv', UNCHANGED <<messages, unread, read, missed>>,
         Unserved' \cap MsgEvents \subseteq Unserved, ~Undisturbed'
  PROVE  AccountInv'
<1>1. WaitingEvents /\ Measured /\ WaitingEvents' /\ Measured'
  BY PendingIs, PendingIsNext DEF AccountInv
<1>2. \A i : i \in Pending' => i \in Pending
  BY <1>1 DEF WaitingEvents
<1>3. Fresh'
  BY DEF AccountInv, Fresh
<1>4. ASSUME NEW c \in Sound PROVE Balanced(c)'
  <2>1. c \in Cursors
    BY DEF Sound
  <2>2. Others(c)' = Others(c) /\ Missing(c)' = Missing(c) /\ Waiting(c)' \subseteq Waiting(c)
    BY <1>2 DEF Others, Missing, Waiting
  <2>3. Cardinality(Waiting(c)') <= Cardinality(Waiting(c))
    BY <1>1, <2>1, <2>2, FS_Subset DEF Measured
  <2>4. QED
    BY <1>1, <2>1, <2>2, <2>3 DEF AccountInv, Balanced, Ledger, Measured
<1>5. QED
  BY <1>3, <1>4 DEF AccountInv, Sound

(* A message is counted, or missed, for everyone but its sender.           *)
LEMMA CountAccount ==
  ASSUME AccountInv, BusInv', NEW g \in running, UpdateCursors(g)
  PROVE  AccountInv'
<1> DEFINE e == g.ev
           m == MessageOf(e)
<1>1. WaitingEvents /\ Measured /\ WaitingEvents' /\ Measured'
  BY PendingIs, PendingIsNext DEF AccountInv
<1>2. /\ e \in Unserved \cap MsgEvents
      /\ Unserved' \cap MsgEvents = (Unserved \cap MsgEvents) \ {e}
      /\ unread' = [c \in Cursors |-> IF c[2] = e.thread /\ c[1] \in Counted(e)
                                      THEN unread[c] + 1 ELSE unread[c]]
      /\ missed' = missed \cup {<<e.id, u>> : u \in Addressees(e) \ Counted(e)}
      /\ UNCHANGED <<messages, cursors, read>> /\ (Undisturbed' <=> Undisturbed)
  BY UpdateCursorsInv DEF AccountInv, envVars, Undisturbed
<1>3. /\ e \in InFlight \cap MsgEvents /\ m \in messages
      /\ m.id = e.id /\ m.thread = e.thread /\ m.from = e.from
  BY <1>2, EventTypes DEF AccountInv, BusInv, MessagesOK, MessageOf
<1>4. \A f \in Unserved \cap MsgEvents : f.id = e.id => f = e
  BY <1>3, EventTypes DEF AccountInv, BusInv, Numbered
<1>5. \A o \in messages : o.id = m.id => o = m
  BY <1>3 DEF AccountInv, BusInv, MessagesOK
<1> HIDE DEF m
<1>6. \A i : i \in Pending' <=> i \in Pending /\ i # e.id
  BY <1>1, <1>2, <1>4 DEF WaitingEvents
<1>7. e.id \in Pending
  BY <1>1, <1>2 DEF WaitingEvents
<1>8. Fresh'
  BY <1>2, <1>4 DEF AccountInv, Fresh
<1>9. ASSUME NEW c \in Sound PROVE Balanced(c)'
  <2>1. c \in Cursors /\ c = <<c[1], c[2]>> /\ c[1] \in Users
    BY DEF Sound, Cursors
  <2>2. Others(c)' = Others(c)
    BY <1>2 DEF Others
  <2>3. CASE m \in Others(c)
    <3>1. e.thread = c[2] /\ e.from # c[1] /\ c[1] \in Addressees(e)
      BY <1>3, <2>1, <2>3 DEF Others, Addressees, Sound
    <3>2. /\ Waiting(c)' = Waiting(c) \ {m} /\ m \in Waiting(c)
      BY <1>3, <1>5, <1>6, <1>7, <2>2, <2>3 DEF Waiting, Others
    <3>3. Cardinality(Waiting(c)') = Cardinality(Waiting(c)) - 1
      BY <1>1, <2>1, <3>2, FS_RemoveElement DEF Measured
    <3>4. CASE c \in cursors
      <4>1. c[1] \in Counted(e)
        BY <2>1, <3>1, <3>4 DEF Counted
      <4>2. unread'[c] = unread[c] + 1
        BY <1>2, <2>1, <3>1, <4>1
      <4>3. Missing(c)' = Missing(c)
        BY <1>2, <2>1, <2>2, <4>1 DEF Missing
      <4>4. QED
        BY <1>1, <1>2, <2>1, <2>2, <3>3, <4>2, <4>3 DEF AccountInv, Balanced, Ledger, Measured
    <3>5. CASE c \notin cursors
      <4>1. c[1] \notin Counted(e)
        BY <2>1, <3>1, <3>5 DEF Counted
      <4>2. unread'[c] = unread[c]
        BY <1>2, <2>1, <4>1
      <4>3. Missing(c)' = Missing(c) \cup {m}
        BY <1>2, <1>3, <1>5, <2>1, <2>2, <2>3, <3>1, <4>1 DEF Missing, Others
      <4>4. m \notin Missing(c)
        BY <1>2, <1>3, <2>1 DEF AccountInv, Fresh, Missing
      <4>5. Cardinality(Missing(c)') = Cardinality(Missing(c)) + 1
        BY <1>1, <2>1, <4>3, <4>4, FS_AddElement DEF Measured
      <4>6. QED
        BY <1>1, <1>2, <2>1, <2>2, <3>3, <4>2, <4>5 DEF AccountInv, Balanced, Ledger, Measured
    <3>6. QED
      BY <3>4, <3>5
  <2>4. CASE m \notin Others(c)
    <3>1. \A o \in Others(c) : o.id # e.id
      BY <1>3, <1>5, <2>4 DEF Others
    <3>2. Waiting(c)' = Waiting(c) /\ Missing(c)' = Missing(c)
      BY <1>2, <1>6, <2>2, <3>1 DEF Waiting, Missing
    <3>3. ~(c[2] = e.thread /\ c[1] \in Counted(e))
      BY <1>3, <2>4 DEF Others, Counted, Addressees
    <3>4. unread'[c] = unread[c]
      BY <1>2, <2>1, <3>3
    <3>5. QED
      BY <1>2, <2>2, <3>2, <3>4 DEF AccountInv, Balanced, Ledger
  <2>5. QED
    BY <2>3, <2>4
<1>10. QED
  BY <1>8, <1>9 DEF AccountInv, Sound

(* Initially nothing is counted. *)
LEMMA AccountInit == Init => AccountInv
<1> SUFFICES ASSUME Init PROVE AccountInv
  OBVIOUS
<1>1. BusInv /\ WaitingEvents /\ Measured
  BY BusInitInv, PendingIs
<1>2. Unserved = {}
  BY DEF Init, Unserved, Range
<1>3. ASSUME NEW c \in Sound PROVE Balanced(c)
  <2>1. Others(c) = {} /\ Missing(c) = {} /\ Waiting(c) = {} /\ unread[c] = 0 /\ read[c] = 0
    BY DEF Init, Others, Missing, Waiting, Sound
  <2>2. QED
    BY <2>1, FS_EmptySet DEF Balanced, Ledger
<1>4. QED
  BY <1>1, <1>2, <1>3 DEF AccountInv, Fresh

(* Every step keeps the ledger balanced. *)
LEMMA AccountStep == AccountInv /\ [Next]_vars => AccountInv'
<1> SUFFICES ASSUME AccountInv, [Next]_vars PROVE AccountInv'
  OBVIOUS
<1>1. BusInv' /\ Kinds
  BY BusStep DEF AccountInv
<1>2. ASSUME NEW g \in running, NotifyHub(g) PROVE AccountInv'
  <2>1. /\ SameUnserved /\ UNCHANGED <<messages, unread, read, missed, crashes, faults>>
    BY <1>2, NotifyHubInv DEF AccountInv, envVars, ghostVars
  <2>2. WaitingEvents /\ WaitingEvents'
    BY <1>1, PendingIs, PendingIsNext DEF AccountInv
  <2>3. \A i : i \in Pending' <=> i \in Pending
    BY <2>1, <2>2 DEF SameUnserved, WaitingEvents
  <2>4. ASSUME NEW c \in Sound PROVE Balanced(c)'
    <3>1. Others(c)' = Others(c) /\ Missing(c)' = Missing(c) /\ Waiting(c)' = Waiting(c)
      BY <2>1, <2>3 DEF Others, Missing, Waiting
    <3>2. QED
      BY <2>1, <3>1 DEF AccountInv, Balanced, Ledger, Undisturbed
  <2>5. QED
    BY <1>1, <2>1, <2>4 DEF AccountInv, Fresh, SameUnserved, Sound
<1>3. ASSUME NEW g \in running, StoreFails(g) PROVE AccountInv'
  <2>1. /\ UNCHANGED <<messages, unread, read, missed>> /\ ~Undisturbed'
        /\ Unserved' \cap MsgEvents \subseteq Unserved
    BY <1>3, StoreFailsInv DEF AccountInv, ghostVars, Undisturbed
  <2>2. QED
    BY <1>1, <2>1, LossAccount
<1>4. ASSUME Crash PROVE AccountInv'
  <2>1. /\ UNCHANGED <<messages, unread, read, missed>> /\ ~Undisturbed'
        /\ Unserved' \cap MsgEvents \subseteq Unserved
    BY <1>4, CrashInv DEF AccountInv, ghostVars, Undisturbed
  <2>2. QED
    BY <1>1, <2>1, LossAccount
<1>5. QED
  BY <1>1, <1>2, <1>3, <1>4, QuietAccount, SendAccount, CountAccount DEF Kinds

(* Every message is counted at most once for every user other than its     *)
(* sender, and, without faults and crashes, exactly once or, where there   *)
(* was no cursor, not at all: for any number of requests and handlers, in  *)
(* any order (inbox/service.go:131-170, store/inbox.sql.go:177-287).       *)
THEOREM CountedOnce == Spec => []Accounting
<1>1. AccountInv => Accounting
  BY DEF AccountInv, Accounting, Balanced, Ledger, Sound, Missing, Waiting
<1>2. QED
  BY <1>1, AccountInit, AccountStep, PTL DEF Spec

----------------------------------------------------------------------------
(* Handing over *)

(* The counts for cursor c on their way, which are finite, and those that  *)
(* were handed over make up the count, but for those a crash has lost.     *)
HandedAll(c) ==
  LET sent == handed[c] + Cardinality(Underway(c))
  IN /\ IsFiniteSet(Underway(c))
     /\ sent <= unread[c] + read[c]
     /\ crashes = 0 => sent = unread[c] + read[c]

HandInv == BusInv /\ \A c \in Cursors : HandedAll(c)

UpdatesFor(c) == {x \in InFlight \cap Updates : x.user = c[1] /\ x.thread = c[2]}

UnderwayUpdates == \A c \in Cursors : Underway(c) = UpdatesFor(c)

(* What is underway are the updates in flight. *)
LEMMA UnderwayIs == BusInv => UnderwayUpdates
<1>1. ASSUME BusInv PROVE \A x \in InFlight : x.kind = "inbox_entry_updated" <=> x \in Updates
  <2>1. \A x \in InFlight : x \in Events
    BY <1>1, EventTypes
  <2>2. QED
    BY <1>1, <2>1, EventTypes
<1>2. QED
  BY <1>1 DEF UnderwayUpdates, Underway, UpdatesFor

(* The same after a step. *)
LEMMA UnderwayIsNext == BusInv' => UnderwayUpdates'
BY UnderwayIs, PTL

(* Steps that leave the updates in flight as they are. *)
LEMMA SameHanded ==
  ASSUME HandInv, BusInv', SameUpdates, UNCHANGED handed,
         \A c \in Cursors : unread'[c] + read'[c] = unread[c] + read[c],
         crashes' = crashes
  PROVE  HandInv'
<1>1. UnderwayUpdates /\ UnderwayUpdates'
  BY UnderwayIs, UnderwayIsNext DEF HandInv
<1>2. ASSUME NEW c \in Cursors PROVE HandedAll(c)'
  <2>1. Underway(c)' = Underway(c)
    BY <1>1 DEF UnderwayUpdates, UpdatesFor, SameUpdates
  <2>2. QED
    BY <2>1 DEF HandInv, HandedAll
<1>3. QED
  BY <1>2 DEF HandInv

(* A message is counted: each new count is on its way. *)
LEMMA CountHanded ==
  ASSUME HandInv, BusInv', NEW g \in running, UpdateCursors(g)
  PROVE  HandInv'
<1>1. UnderwayUpdates /\ UnderwayUpdates'
  BY UnderwayIs, UnderwayIsNext DEF HandInv
<1>2. /\ InFlight' \cap Updates = (InFlight \cap Updates) \cup Counts(g)
      /\ \A x \in Counts(g) : x \notin InFlight
      /\ unread' = [c \in Cursors |-> IF c[2] = g.ev.thread /\ c[1] \in Counted(g.ev)
                                      THEN unread[c] + 1 ELSE unread[c]]
      /\ UNCHANGED <<handed, crashes, read>>
  BY UpdateCursorsInv DEF HandInv, hubVars, envVars
<1>3. ASSUME NEW c \in Cursors PROVE HandedAll(c)'
  <2>1. Underway(c)' = Underway(c) \cup {x \in Counts(g) : x.user = c[1] /\ x.thread = c[2]}
    BY <1>1, <1>2 DEF UnderwayUpdates, UpdatesFor
  <2>2. /\ IsFiniteSet(Underway(c)) /\ Cardinality(Underway(c)) \in Nat
        /\ handed[c] \in Nat /\ unread[c] \in Nat /\ read[c] \in Nat
    BY FS_CardinalityType DEF HandInv, HandedAll, BusInv, TypeOK
  <2> DEFINE o(u) == [kind |-> "inbox_entry_updated", n |-> g.ev.n, user |-> u,
                      thread |-> g.ev.thread, unread |-> unread'[<<u, g.ev.thread>>]]
  <2>3. Counts(g) = {o(u) : u \in Counted(g.ev)}
    BY DEF Counts
  <2>4. \A u : o(u).user = u /\ o(u).thread = g.ev.thread
    OBVIOUS
  <2> HIDE DEF o
  <2>5. CASE c[2] = g.ev.thread /\ c[1] \in Counted(g.ev)
    <3>1. {x \in Counts(g) : x.user = c[1] /\ x.thread = c[2]} = {o(c[1])}
      BY <2>3, <2>4, <2>5
    <3>2. o(c[1]) \notin Underway(c)
      BY <1>2, <2>3, <2>5 DEF Underway
    <3>3. /\ IsFiniteSet(Underway(c)')
          /\ Cardinality(Underway(c)') = Cardinality(Underway(c)) + 1
      <4>1. Underway(c)' = Underway(c) \cup {o(c[1])}
        BY <2>1, <3>1
      <4>2. IsFiniteSet(Underway(c))
        BY <2>2
      <4>3. QED
        BY <3>2, <4>1, <4>2, FS_AddElement
    <3>4. unread'[c] = unread[c] + 1
      BY <1>2, <2>5
    <3>5. QED
      BY <1>2, <2>2, <3>3, <3>4 DEF HandInv, HandedAll
  <2>6. CASE ~(c[2] = g.ev.thread /\ c[1] \in Counted(g.ev))
    <3>1. {x \in Counts(g) : x.user = c[1] /\ x.thread = c[2]} = {}
      BY <2>3, <2>4, <2>6
    <3>2. Underway(c)' = Underway(c) /\ unread'[c] = unread[c]
      BY <1>2, <2>1, <2>6, <3>1
    <3>3. QED
      BY <1>2, <3>2 DEF HandInv, HandedAll
  <2>7. QED
    BY <2>5, <2>6
<1>4. QED
  BY <1>3 DEF HandInv

(* A count is handed over, and is on its way no more. *)
LEMMA NotifyHanded ==
  ASSUME HandInv, BusInv', NEW g \in running, NotifyHub(g)
  PROVE  HandInv'
<1> DEFINE d == <<g.ev.user, g.ev.thread>>
<1>1. UnderwayUpdates /\ UnderwayUpdates'
  BY UnderwayIs, UnderwayIsNext DEF HandInv
<1>2. /\ g.ev \in InFlight \cap Updates /\ InFlight' = InFlight \ {g.ev}
      /\ handed' = [handed EXCEPT ![d] = @ + 1] /\ UNCHANGED <<unread, read, crashes>>
  BY NotifyHubInv DEF HandInv, envVars, ghostVars
<1>3. d \in Cursors /\ d[1] = g.ev.user /\ d[2] = g.ev.thread
  BY <1>2 DEF Updates, Cursors
<1> HIDE DEF d
<1>4. ASSUME NEW c \in Cursors PROVE HandedAll(c)'
  <2>1. /\ IsFiniteSet(Underway(c)) /\ Cardinality(Underway(c)) \in Nat
        /\ handed \in [Cursors -> Nat] /\ unread[c] \in Nat /\ read[c] \in Nat
    BY FS_CardinalityType DEF HandInv, HandedAll, BusInv, TypeOK
  <2>2. CASE c = d
    <3>1. g.ev \in Underway(c) /\ Underway(c)' = Underway(c) \ {g.ev}
      BY <1>1, <1>2, <1>3, <2>2 DEF UnderwayUpdates, UpdatesFor
    <3>2. /\ IsFiniteSet(Underway(c)')
          /\ Cardinality(Underway(c)') = Cardinality(Underway(c)) - 1
      <4>1. IsFiniteSet(Underway(c))
        BY <2>1
      <4>2. QED
        BY <3>1, <4>1, FS_RemoveElement
    <3>3. handed'[c] = handed[c] + 1
      BY <1>2, <1>3, <2>1, <2>2
    <3>4. QED
      BY <1>2, <2>1, <3>2, <3>3 DEF HandInv, HandedAll
  <2>3. CASE c # d
    <3>1. ~(g.ev.user = c[1] /\ g.ev.thread = c[2])
      BY <2>3 DEF Cursors, d
    <3>2. Underway(c)' = Underway(c)
      BY <1>1, <1>2, <3>1 DEF UnderwayUpdates, UpdatesFor
    <3>3. handed'[c] = handed[c]
      BY <1>2, <2>1, <2>3
    <3>4. QED
      BY <1>2, <3>2, <3>3 DEF HandInv, HandedAll
  <2>4. QED
    BY <2>2, <2>3
<1>5. QED
  BY <1>4 DEF HandInv

(* A crash loses what is on its way. *)
LEMMA CrashHanded == ASSUME HandInv, BusInv', Crash PROVE HandInv'
<1>1. InFlight' = {} /\ crashes' # 0 /\ UNCHANGED <<handed, unread, read>>
  BY CrashInv DEF HandInv, hubVars, ghostVars
<1>2. ASSUME NEW c \in Cursors PROVE HandedAll(c)'
  <2>1. Underway(c)' = {}
    BY <1>1 DEF Underway
  <2>2. /\ IsFiniteSet(Underway(c)) /\ Cardinality(Underway(c)) \in Nat
        /\ handed[c] \in Nat /\ unread[c] \in Nat /\ read[c] \in Nat
    BY FS_CardinalityType DEF HandInv, HandedAll, BusInv, TypeOK
  <2>3. QED
    BY <1>1, <2>1, <2>2, FS_EmptySet DEF HandInv, HandedAll
<1>3. QED
  BY <1>2 DEF HandInv

(* Initially nothing is on its way. *)
LEMMA HandInit == Init => HandInv
<1> SUFFICES ASSUME Init PROVE HandInv
  OBVIOUS
<1>1. BusInv
  BY BusInitInv
<1>2. InFlight = {}
  BY DEF Init, InFlight, Range
<1>3. ASSUME NEW c \in Cursors PROVE HandedAll(c)
  <2>1. Underway(c) = {} /\ handed[c] = 0 /\ unread[c] = 0 /\ read[c] = 0
    BY <1>2 DEF Underway, Init
  <2>2. QED
    BY <2>1, FS_EmptySet DEF HandedAll
<1>4. QED
  BY <1>1, <1>3 DEF HandInv

(* Every step keeps what was handed over, and is on its way, to the count. *)
LEMMA HandStep == HandInv /\ [Next]_vars => HandInv'
<1> SUFFICES ASSUME HandInv, [Next]_vars PROVE HandInv'
  OBVIOUS
<1>1. BusInv' /\ Kinds
  BY BusStep DEF HandInv
<1>2. ASSUME Quiet PROVE HandInv'
  BY <1>1, <1>2, SameHanded DEF Quiet, hubVars
<1>3. ASSUME NEW m, Sends(m) PROVE HandInv'
  <2>1. SameUpdates /\ UNCHANGED <<handed, unread, read, crashes>>
    BY <1>3 DEF Sends, hubVars, envVars, ghostVars
  <2>2. QED
    BY <1>1, <2>1, SameHanded
<1>4. ASSUME NEW g \in running, StoreFails(g) PROVE HandInv'
  <2>1. SameUpdates /\ UNCHANGED <<handed, unread, read, crashes>>
    BY <1>4, StoreFailsInv DEF HandInv, hubVars, ghostVars
  <2>2. QED
    BY <1>1, <2>1, SameHanded
<1>5. QED
  BY <1>1, <1>2, <1>3, <1>4, CountHanded, NotifyHanded, CrashHanded DEF Kinds

(* Each increment of a count is handed to the hub once, or is on its way   *)
(* to it, as long as the process lives; and no count is handed over that   *)
(* was not counted (inbox/service.go:144-147, 165-168, hub.go:232).        *)
THEOREM CountHandedOnce == Spec => []CountsAreHanded
<1>1. HandInv => CountsAreHanded
  BY DEF HandInv, CountsAreHanded, HandedAll
<1>2. QED
  BY <1>1, HandInit, HandStep, PTL DEF Spec

----------------------------------------------------------------------------
(* Who is missed *)

(* Event e will make cursor c, and its handler has not done so yet.        *)
Announces(e, c) ==
  IF c[2] \in Rooms THEN e.kind = "room_join" /\ e.user = c[1] /\ e.room = c[2]
  ELSE e.kind = "conversation_created" /\ e.conv = c[2]

Comes(e, c) == Announces(e, c) /\ \A g \in running : g.ev = e => c[1] \in g.left

Coming(c) == c \in cursors \/ \E e \in InFlight : Comes(e, c)

(* The members of rooms and the users of conversations have a cursor, or   *)
(* will have it.                                                           *)
Entitled(c) == IF c[2] \in Rooms THEN c[1] \in members[c[2]] ELSE c[2] \in convs /\ c[1] \in c[2]

EarlyInv == BusInv /\ (Undisturbed => \A c \in Cursors : Entitled(c) => Coming(c))

(* What announces a cursor is a join, or a new conversation. *)
LEMMA AnnouncesNews ==
  ASSUME BusInv, NEW c, NEW e \in InFlight, Announces(e, c)
  PROVE  /\ e \in News
         /\ c[2] \in Rooms => e \in RoomEvents /\ e.user = c[1] /\ e.room = c[2]
         /\ c[2] \notin Rooms => e \in ConvEvents /\ e.conv = c[2]
         /\ c[2] = CursorThread(e)
<1>1. e \in Events
  BY EventTypes
<1>2. QED
  BY <1>1 DEF Announces, News, Events, Requested, MsgEvents, RoomEvents, ConvEvents, Updates,
     CursorThread

(* Steps that keep the news, and the handlers of news.                     *)
LEMMA KeepsComing ==
  ASSUME BusInv, KeepsNews, cursors \subseteq cursors',
         \A g \in running' : g.ev \in News =>
            \E h \in running : h.ev = g.ev /\ h.left \subseteq g.left,
         NEW c, Coming(c)
  PROVE  Coming(c)'
<1>1. CASE c \in cursors
  BY <1>1 DEF Coming
<1>2. ASSUME NEW e \in InFlight, Comes(e, c) PROVE Coming(c)'
  <2>1. e \in News /\ Announces(e, c)
    BY <1>2, AnnouncesNews DEF Comes
  <2>2. e \in InFlight'
    BY <2>1 DEF KeepsNews
  <2>3. \A g \in running' : g.ev = e => c[1] \in g.left
    BY <1>2, <2>1 DEF Comes
  <2>4. QED
    BY <2>1, <2>2, <2>3 DEF Coming, Comes, Announces
<1>3. QED
  BY <1>1, <1>2 DEF Coming

(* Then also what the invariant says is kept, if nobody is entitled anew.  *)
LEMMA KeepsEarly ==
  ASSUME EarlyInv, BusInv', KeepsNews, cursors \subseteq cursors', Undisturbed' => Undisturbed,
         \A g \in running' : g.ev \in News =>
            \E h \in running : h.ev = g.ev /\ h.left \subseteq g.left,
         \A c \in Cursors : Entitled(c)' /\ ~Entitled(c) => Coming(c)'
  PROVE  EarlyInv'
<1>1. ASSUME Undisturbed', NEW c \in Cursors, Entitled(c)' PROVE Coming(c)'
  <2>1. CASE Entitled(c)
    BY <1>1, <2>1, KeepsComing DEF EarlyInv
  <2>2. QED
    BY <1>1, <2>1
<1>2. QED
  BY <1>1 DEF EarlyInv, Cursors

(* What a request is about to publish is no handler's event.               *)
LEMMA AnnouncedComes ==
  ASSUME BusInv', NEW p \in Requests, NEW e \in Range(todo'[p]), NEW c, Announces(e, c)
  PROVE  Coming(c)'
<1>1. e \in InFlight'
  BY FlightPlacesNext
<1>2. \A g \in running' : g.ev # e
  BY DEF BusInv, Apart
<1>3. QED
  BY <1>1, <1>2 DEF Coming, Comes, Announces

(* Members come and go. *)
LEMMA RoomRequestEarly ==
  ASSUME EarlyInv, NEW p \in Requests, NEW u \in Users, NEW r \in Rooms,
         CreateRoom(p, u, r) \/ Join(p, u, r) \/ Leave(p, u, r)
  PROVE  EarlyInv'
<1> DEFINE e == RoomEvent("room_join", u, r)
<1>1. BusInv' /\ KeepsNews /\ UNCHANGED <<envVars>>
  BY RoomRequestInv DEF EarlyInv
<1>2. UNCHANGED <<cursors, running, convs>> /\ members \in [Rooms -> SUBSET Users]
  BY DEF CreateRoom, Join, Leave, Commit, EarlyInv, BusInv, TypeOK
<1>3. ASSUME NEW c \in Cursors, Entitled(c)', ~Entitled(c) PROVE Coming(c)'
  <2>1. c[2] \in Rooms /\ c[1] \in members'[c[2]] /\ c[1] \notin members[c[2]]
    BY <1>2, <1>3 DEF Entitled
  <2>2. ~Leave(p, u, r) /\ c[2] = r /\ c[1] = u
    BY <1>2, <2>1 DEF CreateRoom, Join, Leave
  <2>3. Commit(p, <<e>>)
    BY <2>2 DEF CreateRoom, Join
  <2>4. Announces(e, c)
    BY <2>1, <2>2 DEF Announces, RoomEvent
  <2> HIDE DEF e
  <2>5. todo'[p] = <<e>>
    BY <2>3 DEF Commit, EarlyInv, BusInv, EventsOK
  <2>6. e \in Range(todo'[p])
    BY <2>5 DEF Range
  <2>7. QED
    BY <1>1, <2>4, <2>6, AnnouncedComes
<1>4. QED
  BY <1>1, <1>2, <1>3, KeepsEarly DEF Undisturbed, envVars

(* A message opens its conversation. *)
LEMMA SendEarly ==
  ASSUME EarlyInv, NEW p \in Requests, NEW u \in Users, NEW t,
         \/ t \in Rooms /\ SendRoomMessage(p, u, t)
         \/ t \in Users /\ SendDirectMessage(p, u, t)
  PROVE  EarlyInv'
<1>1. BusInv' /\ KeepsNews /\ UNCHANGED <<envVars>>
  BY SendRoomMessageInv, SendDirectMessageInv DEF EarlyInv
<1>2. UNCHANGED <<cursors, running, members>>
  BY DEF SendRoomMessage, SendDirectMessage, Commit
<1>3. ASSUME NEW c \in Cursors, Entitled(c)', ~Entitled(c) PROVE Coming(c)'
  <2>1. c[2] \notin Rooms /\ c[2] \in convs' /\ c[2] \notin convs
    BY <1>2, <1>3 DEF Entitled
  <2>2. SendDirectMessage(p, u, t) /\ c[2] = {u, t}
    BY <2>1 DEF SendRoomMessage, SendDirectMessage
  <2> DEFINE e == ConversationCreated({u, t})
             f == MessageEvent(lastEvent + 2, Store({u, t}, u))
  <2>3. Commit(p, <<e, f>>)
    BY <2>1, <2>2 DEF SendDirectMessage
  <2>4. Announces(e, c)
    BY <2>1, <2>2 DEF Announces, ConversationCreated
  <2> HIDE DEF e, f
  <2>5. todo'[p] = <<e, f>>
    BY <2>3 DEF Commit, EarlyInv, BusInv, EventsOK
  <2>6. e \in Range(todo'[p])
    BY <2>5 DEF Range
  <2>7. QED
    BY <1>1, <2>4, <2>6, AnnouncedComes
<1>4. QED
  BY <1>1, <1>2, <1>3, KeepsEarly DEF Undisturbed, envVars

(* A new handler has all cursors still to make. *)
LEMMA DispatchEarly == ASSUME EarlyInv, Dispatch PROVE EarlyInv'
<1> DEFINE h == Handler(Head(queue))
<1>1. /\ BusInv /\ BusInv' /\ KeepsNews /\ running' = running \cup {h}
      /\ UNCHANGED <<envVars, cursors, members, convs>>
  BY DispatchInv DEF EarlyInv, Dispatch, tables
<1>2. ASSUME NEW c \in Cursors, Entitled(c), NEW e \in InFlight, Comes(e, c)
      PROVE  Coming(c)'
  <2>1. e \in News /\ Announces(e, c) /\ e \in InFlight'
    BY <1>1, <1>2, AnnouncesNews DEF Comes, KeepsNews
  <2>2. h.ev = e => c[1] \in h.left
    <3>1. h.ev = e => h = Handler(e)
      BY DEF Handler
    <3>2. c[1] \in Handler(e).left
      BY <1>2, <2>1 DEF Announces, Entitled, Handler
    <3>3. QED
      BY <3>1, <3>2
  <2> HIDE DEF h
  <2>3. QED
    BY <1>1, <1>2, <2>1, <2>2 DEF Coming, Comes, Announces
<1> HIDE DEF h
<1>3. ASSUME Undisturbed', NEW c \in Cursors, Entitled(c)' PROVE Coming(c)'
  BY <1>1, <1>2, <1>3 DEF EarlyInv, Undisturbed, envVars, Entitled, Coming
<1>4. QED
  BY <1>1, <1>3 DEF EarlyInv, Cursors

(* A handler makes what it has announced. *)
LEMMA MakesEarly ==
  ASSUME EarlyInv, NEW g, SaveRoomEvent(g) \/ \E u \in Users : UpsertCursor(g, u)
  PROVE  EarlyInv'
<1>1. /\ BusInv /\ BusInv' /\ g \in running /\ HandlerOK(g) /\ InFlight \ {g.ev} \subseteq InFlight'
      /\ UNCHANGED <<envVars, members, convs>> /\ cursors \subseteq cursors'
  BY SaveRoomEventInv, UpsertCursorInv
     DEF EarlyInv, SaveRoomEvent, UpsertCursor, BusInv, EventsOK, tables
<1>2. PICK h : /\ Continue(g, h) /\ h.ev = g.ev /\ h.at = "upsert"
               /\ \A u \in g.left : u \in h.left \/ <<u, CursorThread(g.ev)>> \in cursors'
  <2>1. CASE SaveRoomEvent(g)
    <3> DEFINE h == [g EXCEPT !.at = "upsert"]
    <3>1. Continue(g, h) /\ h.ev = g.ev /\ h.at = "upsert" /\ h.left = g.left
      BY <1>1, <2>1 DEF SaveRoomEvent, HandlerOK
    <3> HIDE DEF h
    <3>2. QED
      BY <3>1
  <2>2. ASSUME NEW u \in Users, UpsertCursor(g, u)
        PROVE  \E h : /\ Continue(g, h) /\ h.ev = g.ev /\ h.at = "upsert"
                      /\ \A v \in g.left : v \in h.left \/ <<v, CursorThread(g.ev)>> \in cursors'
    <3> DEFINE h == [g EXCEPT !.left = @ \ {u}]
    <3>1. Continue(g, h) /\ h.ev = g.ev /\ h.at = "upsert" /\ h.left = g.left \ {u}
      BY <1>1, <2>2 DEF UpsertCursor, HandlerOK
    <3>2. <<u, CursorThread(g.ev)>> \in cursors'
      BY <2>2 DEF UpsertCursor
    <3> HIDE DEF h
    <3>3. QED
      BY <3>1, <3>2
  <2>3. QED
    BY <2>1, <2>2
<1>3. /\ \A k \in running' : k = h \/ (k \in running /\ k # g)
      /\ h.left # {} => h \in running'
  <2>1. running' = (running \ {g}) \cup (IF Finished(h) THEN {} ELSE {h})
    BY <1>2 DEF Continue
  <2>2. Finished(h) <=> h.left = {}
    BY <1>2 DEF Finished
  <2>3. CASE h.left = {}
    BY <2>1, <2>2, <2>3
  <2>4. CASE h.left # {}
    <3>1. running' = (running \ {g}) \cup {h}
      BY <2>1, <2>2, <2>4
    <3>2. QED
      BY <2>4, <3>1
  <2>5. QED
    BY <2>3, <2>4
<1>4. ASSUME NEW c \in Cursors, NEW e \in InFlight, Comes(e, c) PROVE Coming(c)'
  <2>1. Announces(e, c) /\ c[2] = CursorThread(e) /\ c = <<c[1], c[2]>>
    BY <1>1, <1>4, AnnouncesNews DEF Comes, Cursors
  <2>2. CASE e # g.ev
    <3>1. e \in InFlight' /\ \A k \in running' : k.ev = e => c[1] \in k.left
      BY <1>1, <1>2, <1>3, <1>4, <2>2 DEF Comes
    <3>2. QED
      BY <2>1, <3>1 DEF Coming, Comes, Announces
  <2>3. CASE e = g.ev /\ c[1] \in h.left
    <3>1. e \in InFlight'
      BY <1>2, <1>3, <2>3, FlightPlacesNext
    <3>2. \A k \in running' : k.ev = e => c[1] \in k.left
      BY <1>3, <1>4, <2>3 DEF Comes
    <3>3. QED
      BY <2>1, <3>1, <3>2 DEF Coming, Comes, Announces
  <2>4. CASE e = g.ev /\ c[1] \notin h.left
    <3>1. c[1] \in g.left
      BY <1>1, <1>4, <2>4 DEF Comes
    <3>2. c \in cursors'
      BY <1>2, <2>1, <2>4, <3>1
    <3>3. QED
      BY <3>2 DEF Coming
  <2>5. QED
    BY <2>2, <2>3, <2>4
<1>5. ASSUME Undisturbed', NEW c \in Cursors, Entitled(c)' PROVE Coming(c)'
  BY <1>1, <1>4, <1>5 DEF EarlyInv, Undisturbed, envVars, Entitled, Coming
<1>6. QED
  BY <1>1, <1>5 DEF EarlyInv, Cursors

(* The other steps of handlers and of the bus leave announcements alone.   *)
LEMMA OtherEarly ==
  ASSUME EarlyInv,
         \/ \E p \in Requests : Publish(p)
         \/ \E g \in running : UpdateCursors(g) \/ NotifyHub(g) \/ \E e \in g.out : PublishUpdate(g, e)
         \/ \E u \in Users : \E T : MarkAsRead(u, T)
  PROVE  EarlyInv'
<1>1. /\ BusInv' /\ KeepsNews /\ UNCHANGED <<cursors, members, convs>>
      /\ crashes' = crashes /\ faults' = faults
      /\ \A k \in running' : k.ev \in News => k \in running
  <2>1. ASSUME NEW p \in Requests, Publish(p)
        PROVE  /\ BusInv' /\ KeepsNews /\ UNCHANGED <<cursors, tables, crashes, faults, running>>
    BY <2>1, PublishInv DEF EarlyInv, Publish, envVars
  <2>2. ASSUME NEW u \in Users, NEW T, MarkAsRead(u, T)
        PROVE  /\ BusInv' /\ KeepsNews /\ UNCHANGED <<cursors, tables, crashes, faults, running>>
    BY <2>2, MarkAsReadInv DEF EarlyInv, MarkAsRead, busVars
  <2>3. ASSUME NEW g \in running, NotifyHub(g)
        PROVE  /\ BusInv' /\ KeepsNews /\ UNCHANGED <<cursors, tables, crashes, faults>>
               /\ \A k \in running' : k \in running
    <3>1. /\ BusInv' /\ g.ev \in Updates /\ InFlight' = InFlight \ {g.ev}
      BY <2>3, NotifyHubInv DEF EarlyInv
    <3>2. g.ev \notin News
      BY <3>1 DEF News, Updates, RoomEvents, ConvEvents
    <3>3. QED
      BY <2>3, <3>1, <3>2 DEF KeepsNews, NotifyHub, End, envVars
  <2>4. ASSUME NEW g \in running, NEW h, Continue(g, h), h.ev = g.ev, g.ev \in MsgEvents
        PROVE  \A k \in running' : k.ev \in News => k \in running
    <3>1. g.ev \notin News
      BY <2>4 DEF News, MsgEvents, RoomEvents, ConvEvents
    <3>2. running' \subseteq running \cup {h}
      BY <2>4 DEF Continue
    <3>3. QED
      BY <2>4, <3>1, <3>2
  <2>5. ASSUME NEW g \in running, UpdateCursors(g)
        PROVE  /\ BusInv' /\ KeepsNews /\ UNCHANGED <<cursors, tables, crashes, faults>>
               /\ \A k \in running' : k.ev \in News => k \in running
    <3>1. /\ BusInv' /\ KeepsNews /\ g.ev \in MsgEvents
      BY <2>5, UpdateCursorsInv DEF EarlyInv
    <3>2. PICK h : Continue(g, h) /\ h.ev = g.ev
      <4> DEFINE h == [g EXCEPT !.at = "publish", !.out = Counts(g)]
      <4>1. HandlerOK(g)
        BY DEF EarlyInv, BusInv, EventsOK
      <4>2. h.ev = g.ev
        BY <4>1 DEF HandlerOK
      <4>3. Continue(g, h)
        BY <2>5 DEF UpdateCursors, Counts
      <4> HIDE DEF h
      <4>4. QED
        BY <4>2, <4>3
    <3>3. QED
      BY <2>4, <2>5, <3>1, <3>2 DEF UpdateCursors, envVars
  <2>6. ASSUME NEW g \in running, NEW e \in g.out, PublishUpdate(g, e)
        PROVE  /\ BusInv' /\ KeepsNews /\ UNCHANGED <<cursors, tables, crashes, faults>>
               /\ \A k \in running' : k.ev \in News => k \in running
    <3>1. /\ BusInv' /\ KeepsNews
      BY <2>6, PublishUpdateInv DEF EarlyInv
    <3>2. HandlerOK(g) /\ g.ev \in MsgEvents
      BY <2>6 DEF EarlyInv, BusInv, EventsOK, HandlerOK
    <3>3. PICK h : Continue(g, h) /\ h.ev = g.ev
      <4> DEFINE h == [g EXCEPT !.out = @ \ {e}]
      <4>1. h.ev = g.ev
        BY <3>2 DEF HandlerOK
      <4>2. Continue(g, h)
        BY <2>6 DEF PublishUpdate
      <4> HIDE DEF h
      <4>3. QED
        BY <4>1, <4>2
    <3>4. QED
      BY <2>4, <2>6, <3>1, <3>2, <3>3 DEF PublishUpdate, envVars
  <2>7. QED
    BY <2>1, <2>2, <2>3, <2>5, <2>6 DEF tables
<1>2. BusInv /\ \A c \in Cursors : Entitled(c)' => Entitled(c)
  BY <1>1 DEF EarlyInv, Entitled
<1>3. QED
  BY <1>1, <1>2, KeepsEarly DEF Undisturbed

(* Without faults and crashes, nobody is passed by for good.               *)
LEMMA EarlyStep == EarlyInv /\ [Next]_vars => EarlyInv'
<1> SUFFICES ASSUME EarlyInv, [Next]_vars PROVE EarlyInv'
  OBVIOUS
<1>1. BusInv'
  BY BusStep DEF EarlyInv
<1>2. ASSUME NEW p \in Requests, Request(p) PROVE EarlyInv'
  <2>1. ASSUME NEW u \in Users, NEW r \in Rooms,
               CreateRoom(p, u, r) \/ Join(p, u, r) \/ Leave(p, u, r)
        PROVE  EarlyInv'
    BY <2>1, RoomRequestEarly
  <2>2. ASSUME NEW u \in Users, NEW r \in Rooms, SendRoomMessage(p, u, r) PROVE EarlyInv'
    BY <2>2, SendEarly
  <2>3. ASSUME NEW u \in Users, NEW v \in Users, SendDirectMessage(p, u, v) PROVE EarlyInv'
    BY <2>3, SendEarly
  <2>4. QED
    BY <1>2, <2>1, <2>2, <2>3 DEF Request
<1>3. ASSUME NEW g \in running, Handle(g) PROVE EarlyInv'
  BY <1>3, MakesEarly, OtherEarly DEF Handle
<1>4. ASSUME NEW g \in running, StoreFails(g) PROVE EarlyInv'
  BY <1>1, <1>4, StoreFailsInv DEF EarlyInv, Undisturbed
<1>5. ASSUME Crash PROVE EarlyInv'
  BY <1>1, <1>5, CrashInv DEF EarlyInv, Undisturbed
<1>6. ASSUME UNCHANGED vars PROVE EarlyInv'
  <2>1. UNCHANGED <<members, convs, cursors, todo, queue, running, crashes, faults>>
    BY <1>6 DEF vars, tables, busVars, envVars
  <2>2. InFlight' = InFlight
    BY <2>1 DEF InFlight
  <2>3. \A c \in Cursors : (Entitled(c)' <=> Entitled(c)) /\ (Coming(c) => Coming(c)')
    BY <2>1, <2>2 DEF Entitled, Coming, Comes, Announces
  <2>4. QED
    BY <1>1, <2>1, <2>3 DEF EarlyInv, Undisturbed, Cursors
<1>7. QED
  BY <1>2, <1>3, <1>4, <1>5, <1>6, DispatchEarly, OtherEarly DEF Next

(* Initially there are no members and no conversations. *)
LEMMA EarlyInit == Init => EarlyInv
BY BusInitInv DEF Init, EarlyInv, Entitled

(* A message is counted for nobody else but those whose cursor was still   *)
(* being made: as long as no statement fails and the process lives, a      *)
(* direct message passes its recipient by, or a room message a member,     *)
(* only while the event that announced the conversation, or that the       *)
(* member joined, is on its way (inbox/service.go:63-129, bus.go:57).      *)
THEOREM PassedByEarly == Spec => MissedOnlyEarly
<1> DEFINE A == \A m \in messages, u \in Users :
                  <<m.id, u>> \in missed' \ missed /\ Undisturbed =>
                    IF m.thread \in Rooms
                    THEN u \in members[m.thread] =>
                           \E e \in InFlight : e.kind = "room_join" /\ e.user = u
                                               /\ e.room = m.thread
                    ELSE \E e \in InFlight : e.kind = "conversation_created"
                                             /\ e.conv = m.thread
<1>1. ASSUME EarlyInv, [Next]_vars PROVE [A]_vars
  <2>1. CASE missed' = missed
    BY <2>1
  <2>2. ASSUME NEW g \in running, UpdateCursors(g) PROVE A
    <3>1. SUFFICES ASSUME NEW m \in messages, NEW u \in Users, Undisturbed,
                          <<m.id, u>> \in missed', <<m.id, u>> \notin missed
                   PROVE  IF m.thread \in Rooms
                          THEN u \in members[m.thread] =>
                                 \E e \in InFlight : e.kind = "room_join" /\ e.user = u
                                                     /\ e.room = m.thread
                          ELSE \E e \in InFlight : e.kind = "conversation_created"
                                                   /\ e.conv = m.thread
      OBVIOUS
    <3> DEFINE c == <<u, m.thread>>
    <3>2. /\ missed' = missed \cup {<<g.ev.id, v>> : v \in Addressees(g.ev) \ Counted(g.ev)}
          /\ g.ev \in InFlight \cap MsgEvents
      BY <1>1, <2>2, UpdateCursorsInv, EventTypes DEF EarlyInv
    <3>3. m.id = g.ev.id /\ u \in Addressees(g.ev) /\ u \notin Counted(g.ev)
      BY <3>1, <3>2
    <3>4. m = MessageOf(g.ev)
      BY <1>1, <3>2, <3>3 DEF EarlyInv, BusInv, MessagesOK, MessageOf
    <3>5. m.thread = g.ev.thread
      BY <3>4 DEF MessageOf
    <3>6. c \in Cursors /\ c[1] = u /\ c[2] = m.thread /\ c \notin cursors
      BY <3>2, <3>3, <3>5 DEF Cursors, MsgEvents, Counted
    <3>7. m.thread \in Rooms \/ m.thread \in convs
      BY <1>1 DEF EarlyInv, BusInv, TypeOK
    <3>8. m.thread \notin Rooms => u \in m.thread
      BY <3>3, <3>5 DEF Addressees
    <3>9. Entitled(c) => \E e \in InFlight : Announces(e, c)
      BY <1>1, <3>1, <3>6 DEF EarlyInv, Coming, Comes
    <3> HIDE DEF c
    <3>10. QED
      BY <3>6, <3>7, <3>8, <3>9 DEF Entitled, Announces
  <2>3. BusInv /\ Kinds
    BY <1>1, BusStep DEF EarlyInv
  <2>4. \/ missed' = missed
        \/ \E g \in running : UpdateCursors(g)
    BY <2>3, StoreFailsInv, NotifyHubInv, CrashInv DEF Kinds, Quiet, Sends, ghostVars
  <2>5. QED
    BY <2>1, <2>2, <2>4
<1>2. EarlyInv /\ [Next]_vars => EarlyInv'
  BY EarlyStep
<1>3. QED
  BY <1>1, <1>2, EarlyInit, PTL DEF Spec, MissedOnlyEarly

----------------------------------------------------------------------------
(* The last count *)

(* Of a cursor that was not overtaken, one count at most is on its way: the *)
(* last one; and when there is none, the hub was told.                     *)
Told(c) ==
  \/ Underway(c) = {} /\ badge[c] = unread[c]
  \/ \E e : Underway(c) = {e} /\ e.unread = unread[c]

LastInv ==
  BusInv /\ (crashes = 0 /\ resets = 0 => \A c \in Cursors \ overtaken : Told(c))

(* Steps that leave the counts, and those on their way, as they are.       *)
LEMMA SameTold ==
  ASSUME LastInv, BusInv', SameUpdates, UNCHANGED <<badge, overtaken>>,
         crashes' = 0 /\ resets' = 0 => crashes = 0 /\ resets = 0 /\ unread' = unread
  PROVE  LastInv'
<1>1. UnderwayUpdates /\ UnderwayUpdates'
  BY UnderwayIs, UnderwayIsNext DEF LastInv
<1>2. ASSUME crashes' = 0, resets' = 0, NEW c \in Cursors \ overtaken PROVE Told(c)'
  <2>1. Underway(c)' = Underway(c)
    BY <1>1, <1>2 DEF UnderwayUpdates, UpdatesFor, SameUpdates
  <2>2. QED
    BY <1>2, <2>1 DEF LastInv, Told
<1>3. QED
  BY <1>2 DEF LastInv, Cursors

(* A message is counted: a cursor with a count on its way is overtaken.    *)
LEMMA CountTold ==
  ASSUME LastInv, BusInv', NEW g \in running, UpdateCursors(g)
  PROVE  LastInv'
<1>1. UnderwayUpdates /\ UnderwayUpdates'
  BY UnderwayIs, UnderwayIsNext DEF LastInv
<1>2. /\ InFlight' \cap Updates = (InFlight \cap Updates) \cup Counts(g)
      /\ unread' = [c \in Cursors |-> IF c[2] = g.ev.thread /\ c[1] \in Counted(g.ev)
                                      THEN unread[c] + 1 ELSE unread[c]]
      /\ UNCHANGED <<badge, crashes, resets>>
      /\ unread \in [Cursors -> Nat]
  BY UpdateCursorsInv DEF LastInv, hubVars, envVars, BusInv, TypeOK
<1>3. overtaken' = overtaken \cup {c \in Cursors : unread'[c] > unread[c] /\ Underway(c) # {}}
  BY DEF UpdateCursors
<1>4. ASSUME crashes = 0, resets = 0, NEW c \in Cursors \ overtaken' PROVE Told(c)'
  <2>1. Underway(c)' = Underway(c) \cup {x \in Counts(g) : x.user = c[1] /\ x.thread = c[2]}
    BY <1>1, <1>2 DEF UnderwayUpdates, UpdatesFor
  <2>2. Told(c) /\ c = <<c[1], c[2]>>
    BY <1>3, <1>4 DEF LastInv, Cursors
  <2> DEFINE o(u) == [kind |-> "inbox_entry_updated", n |-> g.ev.n, user |-> u,
                      thread |-> g.ev.thread, unread |-> unread'[<<u, g.ev.thread>>]]
  <2>3. Counts(g) = {o(u) : u \in Counted(g.ev)}
    BY DEF Counts
  <2>4. \A u : /\ o(u).user = u /\ o(u).thread = g.ev.thread
               /\ o(u).unread = unread'[<<u, g.ev.thread>>]
    OBVIOUS
  <2> HIDE DEF o
  <2>5. CASE c[2] = g.ev.thread /\ c[1] \in Counted(g.ev)
    <3>1. unread'[c] = unread[c] + 1 /\ unread[c] \in Nat
      BY <1>2, <2>5
    <3>2. Underway(c) = {}
      BY <1>3, <1>4, <3>1
    <3>3. {x \in Counts(g) : x.user = c[1] /\ x.thread = c[2]} = {o(c[1])}
      BY <2>3, <2>4, <2>5
    <3>4. Underway(c)' = {o(c[1])} /\ o(c[1]).unread = unread'[c]
      BY <2>1, <2>2, <2>4, <2>5, <3>2, <3>3
    <3>5. QED
      BY <3>4 DEF Told
  <2>6. CASE ~(c[2] = g.ev.thread /\ c[1] \in Counted(g.ev))
    <3>1. {x \in Counts(g) : x.user = c[1] /\ x.thread = c[2]} = {}
      BY <2>3, <2>4, <2>6
    <3>2. Underway(c)' = Underway(c) /\ unread'[c] = unread[c] /\ badge' = badge
      BY <1>2, <2>1, <2>6, <3>1
    <3>3. QED
      BY <2>2, <3>2 DEF Told
  <2>7. QED
    BY <2>5, <2>6
<1>5. QED
  BY <1>2, <1>4 DEF LastInv, Cursors

(* A count is handed over: it is the only one on its way.                  *)
LEMMA NotifyTold ==
  ASSUME LastInv, BusInv', NEW g \in running, NotifyHub(g)
  PROVE  LastInv'
<1> DEFINE d == <<g.ev.user, g.ev.thread>>
<1>1. UnderwayUpdates /\ UnderwayUpdates'
  BY UnderwayIs, UnderwayIsNext DEF LastInv
<1>2. /\ g.ev \in InFlight \cap Updates /\ InFlight' = InFlight \ {g.ev}
      /\ UNCHANGED <<unread, crashes, resets, overtaken>>
  BY NotifyHubInv DEF LastInv, envVars, ghostVars
<1>3. badge' = [badge EXCEPT ![d] = g.ev.unread] /\ badge \in [Cursors -> Nat]
  BY DEF NotifyHub, LastInv, BusInv, TypeOK
<1>4. d \in Cursors /\ d[1] = g.ev.user /\ d[2] = g.ev.thread
  BY <1>2 DEF Updates, Cursors
<1> HIDE DEF d
<1>5. ASSUME crashes = 0, resets = 0, NEW c \in Cursors \ overtaken PROVE Told(c)'
  <2>1. Told(c)
    BY <1>5 DEF LastInv
  <2>2. CASE c = d
    <3>1. g.ev \in Underway(c) /\ Underway(c)' = Underway(c) \ {g.ev}
      BY <1>1, <1>2, <1>4, <2>2 DEF UnderwayUpdates, UpdatesFor
    <3>2. Underway(c) = {g.ev} /\ g.ev.unread = unread[c]
      BY <2>1, <3>1 DEF Told
    <3>3. badge'[c] = g.ev.unread
      BY <1>3, <1>4, <2>2
    <3>4. QED
      BY <1>2, <3>1, <3>2, <3>3 DEF Told
  <2>3. CASE c # d
    <3>1. ~(g.ev.user = c[1] /\ g.ev.thread = c[2])
      BY <2>3 DEF Cursors, d
    <3>2. Underway(c)' = Underway(c)
      BY <1>1, <1>2, <3>1 DEF UnderwayUpdates, UpdatesFor
    <3>3. badge'[c] = badge[c]
      BY <1>3, <2>3
    <3>4. QED
      BY <1>2, <2>1, <3>2, <3>3 DEF Told
  <2>4. QED
    BY <2>2, <2>3
<1>6. QED
  BY <1>2, <1>5 DEF LastInv, Cursors

(* Every step keeps the last count of a cursor told, or on its way.        *)
LEMMA LastStep == LastInv /\ [Next]_vars => LastInv'
<1> SUFFICES ASSUME LastInv, [Next]_vars PROVE LastInv'
  OBVIOUS
<1>1. BusInv' /\ Kinds
  BY BusStep DEF LastInv
<1>2. ASSUME Quiet PROVE LastInv'
  <2>1. /\ SameUpdates /\ UNCHANGED <<badge, overtaken>>
        /\ crashes' = 0 /\ resets' = 0 => crashes = 0 /\ resets = 0 /\ unread' = unread
    BY <1>2 DEF Quiet, hubVars
  <2>2. QED
    BY <1>1, <2>1, SameTold
<1>3. ASSUME NEW m, Sends(m) PROVE LastInv'
  <2>1. SameUpdates /\ UNCHANGED <<badge, unread, overtaken, crashes, resets>>
    BY <1>3 DEF Sends, hubVars, envVars, ghostVars
  <2>2. QED
    BY <1>1, <2>1, SameTold
<1>4. ASSUME NEW g \in running, StoreFails(g) PROVE LastInv'
  <2>1. SameUpdates /\ UNCHANGED <<badge, unread, overtaken, crashes, resets>>
    BY <1>4, StoreFailsInv DEF LastInv, hubVars, ghostVars, StoreFails
  <2>2. QED
    BY <1>1, <2>1, SameTold
<1>5. ASSUME Crash PROVE LastInv'
  BY <1>1, <1>5, CrashInv DEF LastInv
<1>6. QED
  BY <1>1, <1>2, <1>3, <1>4, <1>5, CountTold, NotifyTold DEF Kinds

(* When all is handled, and neither a crash nor a reset intervened, what   *)
(* the owner of a cursor was told last is its count, unless two counts of  *)
(* the cursor were on their way at once (bus.go:57, event.go:69).          *)
THEOREM LastTold == Spec => []LastCountIsTold
<1>1. Init => LastInv
  <2>1. ASSUME Init PROVE \A c \in Cursors : Underway(c) = {} /\ badge[c] = unread[c]
    BY <2>1 DEF Init, Underway, InFlight, Range
  <2>2. QED
    BY <2>1, BusInitInv DEF LastInv, Told
<1>2. LastInv => LastCountIsTold
  BY DEF LastInv, LastCountIsTold, Told, Underway
<1>3. QED
  BY <1>1, <1>2, LastStep, PTL DEF Spec
----------------------------------------------------------------------------
(* The services implement the counters.                                    *)
Seen == <<messages, Uncounted, cursors, unread, Untold, badge, crashes + faults>>

(* What is yet to be counted, and to be told, in terms of events. *)
UnderlyingEvents ==
  /\ \A m \in messages : m \in Uncounted <=> \E e \in Unserved \cap MsgEvents : e.id = m.id
  /\ Untold = InFlight \cap Updates

LEMMA Underlying == BusInv => UnderlyingEvents
<1> SUFFICES ASSUME BusInv PROVE UnderlyingEvents
  OBVIOUS
<1>1. WaitingEvents
  BY PendingIs
<1>2. QED
  BY <1>1, EventTypes DEF Uncounted, Untold, WaitingEvents, UnderlyingEvents

LEMMA UnderlyingNext == BusInv' => UnderlyingEvents'
  BY Underlying, PTL

(* Most steps count and tell nothing. *)
LEMMA Unseen ==
  ASSUME BusInv, BusInv', SameUnserved, SameUpdates,
         UNCHANGED <<messages, cursors, unread, hubVars, crashes, faults>>
  PROVE  UNCHANGED Seen
<1>1. Uncounted \subseteq messages /\ Uncounted' \subseteq messages'
  BY DEF Uncounted
<1>2. Uncounted' = Uncounted
  BY <1>1, Underlying, UnderlyingNext DEF SameUnserved, UnderlyingEvents
<1>3. Untold' = Untold
  BY Underlying, UnderlyingNext DEF SameUpdates, UnderlyingEvents
<1>4. QED
  BY <1>2, <1>3 DEF Seen, hubVars

(* A message is sent. *)
LEMMA StoreSends ==
  ASSUME BusInv, BusInv', NEW t \in Threads, NEW u \in Users, Sent(Store(t, u)), SameUpdates,
         UNCHANGED <<cursors, unread, hubVars, envVars>>
  PROVE  Abstract!Send(t, u)
<1> DEFINE m == Store(t, u)
<1>1. messages' = messages \cup {m} /\ m \notin messages
  BY DEF Sent
<1>2. PICK e \in MsgEvents : /\ MessageOf(e) = m
                             /\ Unserved' \cap MsgEvents = (Unserved \cap MsgEvents) \cup {e}
  BY DEF Sent
<1>3. e.id = m.id /\ m.id = Cardinality(messages) + 1 /\ \A o \in messages : o.id # m.id
  <2>1. \A o \in messages : o.id \in Nat /\ o.id <= Cardinality(messages)
    BY DEF BusInv, TypeOK, MessagesOK
  <2>2. e.id = m.id /\ m.id = Cardinality(messages) + 1
    BY <1>2 DEF MessageOf, Sent
  <2>3. QED
    BY <2>1, <2>2, Bounds
<1>4. Uncounted \subseteq messages /\ Uncounted' \subseteq messages'
  BY DEF Uncounted
<1>5. m = [id |-> Cardinality(messages) + 1, thread |-> t, from |-> u]
  BY DEF Store
<1> HIDE DEF m
<1>6. \A o \in messages : o \in Uncounted' <=> o \in Uncounted
  BY <1>1, <1>2, <1>3, Underlying, UnderlyingNext DEF UnderlyingEvents
<1>7. m \in Uncounted'
  BY <1>1, <1>2, <1>3, UnderlyingNext DEF UnderlyingEvents
<1>8. Uncounted' = Uncounted \cup {m}
  BY <1>1, <1>4, <1>6, <1>7
<1>9. Untold' = Untold
  BY Underlying, UnderlyingNext DEF SameUpdates, UnderlyingEvents
<1>10. badge' = badge /\ crashes' + faults' = crashes + faults
  BY DEF hubVars, envVars
<1>11. messages' = messages \cup {[id |-> Cardinality(messages) + 1, thread |-> t, from |-> u]}
  BY <1>1, <1>5
<1>12. Uncounted' = Uncounted \cup {[id |-> Cardinality(messages) + 1, thread |-> t, from |-> u]}
  BY <1>5, <1>8
<1>13. Abstract!Cardinality(messages) = Cardinality(messages)
  BY DEF Abstract!Cardinality, Cardinality
<1>14. QED
  BY <1>9, <1>10, <1>11, <1>12, <1>13 DEF Abstract!Send

(* One statement counts a message for all of its readers, and each of them *)
(* is to be told.                                                          *)
LEMMA UpdateCounts ==
  ASSUME BusInv, NEW g \in running, UpdateCursors(g)
  PROVE  [Abstract!Next]_Seen
<1> DEFINE e == g.ev
           m == MessageOf(e)
<1>1. /\ BusInv' /\ e \in Unserved \cap MsgEvents
      /\ Unserved' \cap MsgEvents = (Unserved \cap MsgEvents) \ {e}
      /\ InFlight' \cap Updates = (InFlight \cap Updates) \cup Counts(g)
      /\ unread' = [c \in Cursors |-> IF c[2] = e.thread /\ c[1] \in Counted(e)
                                      THEN unread[c] + 1 ELSE unread[c]]
      /\ UNCHANGED <<messages, cursors, hubVars, envVars>>
  BY UpdateCursorsInv
<1>2. e \in InFlight \cap MsgEvents /\ m \in messages
  BY <1>1, EventTypes DEF BusInv, MessagesOK
<1>3. m.id = e.id /\ m.thread = e.thread /\ m.from = e.from
  BY DEF MessageOf
<1>4. \A f \in Unserved \cap MsgEvents : f.id = e.id => f = e
  BY <1>2, EventTypes DEF BusInv, Numbered
<1>5. \A o \in messages : o.id = m.id => o = m
  BY <1>2 DEF BusInv, MessagesOK
<1>6. \A x \in Untold : x.n # e.n
  BY <1>1, Underlying DEF BusInv, Numbered, UnderlyingEvents
<1>7. e.n \in Numbers
  BY <1>1 DEF MsgEvents, Numbers
<1> DEFINE R == Abstract!Readers(m)
<1>8. /\ R \subseteq Cursors
      /\ \A c \in Cursors : c \in R <=> c[2] = e.thread /\ c[1] \in Counted(e)
  <2>1. cursors \subseteq Cursors
    BY DEF BusInv, TypeOK
  <2>2. ASSUME NEW c \in Cursors
        PROVE  c \in R <=> c[2] = e.thread /\ c[1] \in Counted(e)
    <3>1. c = <<c[1], c[2]>> /\ c[1] \in Users
      BY DEF Cursors
    <3>2. c \in cursors => c[2] \in Rooms \/ c[1] \in c[2]
      BY DEF BusInv, TypeOK, Cursors, Threads
    <3>3. e.thread \in Rooms \/ e.thread \notin Rooms
      OBVIOUS
    <3>4. QED
      BY <1>3, <3>1, <3>2 DEF Abstract!Readers, Counted, Addressees
  <2>3. QED
    BY <2>1, <2>2 DEF Abstract!Readers
<1>9. Counts(g) = {[kind |-> "inbox_entry_updated", n |-> e.n, user |-> c[1], thread |-> c[2],
                    unread |-> unread'[c]] : c \in R}
  <2>1. \A u \in Counted(e) : <<u, e.thread>> \in R
    <3>1. Counted(e) \subseteq Users /\ \A u \in Counted(e) : <<u, e.thread>> \in cursors
      BY <1>2, ConversationUsers DEF Counted, Addressees, MsgEvents, Threads, BusInv, TypeOK, Cursors
    <3>2. QED
      BY <1>8, <3>1 DEF BusInv, TypeOK
  <2>2. \A c \in R : c = <<c[1], e.thread>> /\ c[1] \in Counted(e)
    BY <1>8 DEF Cursors
  <2> DEFINE New(c) == [kind |-> "inbox_entry_updated", n |-> e.n, user |-> c[1],
                        thread |-> c[2], unread |-> unread'[c]]
             Old(u) == [kind |-> "inbox_entry_updated", n |-> e.n, user |-> u,
                        thread |-> e.thread, unread |-> unread'[<<u, e.thread>>]]
  <2>3. \A u \in Counted(e) : New(<<u, e.thread>>) = Old(u)
    OBVIOUS
  <2>4. \A c \in R : New(c) = Old(c[1])
    BY <2>2
  <2>5. Counts(g) = {Old(u) : u \in Counted(e)}
    BY DEF Counts
  <2> HIDE DEF New, Old, R
  <2>6. {Old(u) : u \in Counted(e)} = {New(c) : c \in R}
    BY <2>1, <2>2, <2>3, <2>4
  <2>7. QED
    BY <2>5, <2>6 DEF New
<1>10. unread' = [c \in Cursors |-> IF c \in R THEN unread[c] + 1 ELSE unread[c]]
  BY <1>1, <1>8
<1>11. m \in Uncounted /\ Uncounted' = Uncounted \ {m}
  <2>1. Uncounted \subseteq messages /\ Uncounted' \subseteq messages'
    BY DEF Uncounted
  <2>2. m \in Uncounted
    BY <1>1, <1>2, <1>3, Underlying DEF UnderlyingEvents
  <2>3. \A o \in messages : o \in Uncounted' <=> o \in Uncounted /\ o.id # e.id
    BY <1>1, <1>4, Underlying, UnderlyingNext DEF UnderlyingEvents
  <2>4. QED
    BY <1>1, <1>2, <1>3, <1>5, <2>1, <2>2, <2>3
<1>12. Untold' = Untold \cup Counts(g)
  BY <1>1, Underlying, UnderlyingNext DEF UnderlyingEvents
<1> HIDE DEF m, R
<1>13. Abstract!Count(m, e.n)
  BY <1>1, <1>6, <1>9, <1>10, <1>11, <1>12
     DEF Abstract!Count, Abstract!Cursors, Cursors, hubVars, envVars, R
<1>14. QED
  BY <1>7, <1>11, <1>13 DEF Abstract!Next

(* A count is handed to the hub. *)
LEMMA NotifyTells ==
  ASSUME BusInv, NEW g \in running, NotifyHub(g)
  PROVE  [Abstract!Next]_Seen
<1>1. /\ BusInv' /\ SameUnserved /\ g.ev \in Updates /\ g.ev \in InFlight
      /\ InFlight' = InFlight \ {g.ev} /\ UNCHANGED <<messages, unread, envVars>>
  BY NotifyHubInv
<1>2. /\ badge' = [badge EXCEPT ![<<g.ev.user, g.ev.thread>>] = g.ev.unread]
      /\ cursors' = cursors
  BY DEF NotifyHub
<1>3. Uncounted \subseteq messages /\ Uncounted' \subseteq messages'
  BY DEF Uncounted
<1>4. Uncounted' = Uncounted
  BY <1>1, <1>3, Underlying, UnderlyingNext DEF SameUnserved, UnderlyingEvents
<1>5. g.ev \in Untold /\ Untold' = Untold \ {g.ev}
  BY <1>1, Underlying, UnderlyingNext DEF UnderlyingEvents
<1>6. Abstract!Tell(g.ev)
  BY <1>1, <1>2, <1>4, <1>5 DEF Abstract!Tell, envVars
<1>7. QED
  BY <1>5, <1>6 DEF Abstract!Next

(* Only failures lose messages that are to be counted, and counts that are *)
(* to be told.                                                             *)
LEMMA FailureFails ==
  ASSUME BusInv, BusInv', UNCHANGED <<messages, cursors, unread, badge>>,
         crashes' + faults' = crashes + faults + 1,
         Unserved' \cap MsgEvents \subseteq Unserved, InFlight' \cap Updates \subseteq InFlight
  PROVE  [Abstract!Next]_Seen
<1>1. Uncounted' \subseteq Uncounted
  <2>1. Uncounted' \subseteq messages'
    BY DEF Uncounted
  <2>2. QED
    BY <2>1, Underlying, UnderlyingNext DEF UnderlyingEvents
<1>2. Untold' \subseteq Untold
  BY Underlying, UnderlyingNext DEF UnderlyingEvents
<1>3. Abstract!Fail(Uncounted \ Uncounted', Untold \ Untold')
  BY <1>1, <1>2 DEF Abstract!Fail
<1>4. Uncounted \ Uncounted' \in SUBSET Uncounted /\ Untold \ Untold' \in SUBSET Untold
  OBVIOUS
<1>5. QED
  BY <1>3, <1>4 DEF Abstract!Next

(* A cursor is made, or counts are reset. *)
LEMMA CursorOpens ==
  ASSUME BusInv, NEW g \in running, NEW u \in Users, UpsertCursor(g, u)
  PROVE  [Abstract!Next]_Seen
<1> DEFINE c == <<u, CursorThread(g.ev)>>
<1>1. /\ BusInv' /\ SameUnserved /\ SameUpdates
      /\ UNCHANGED <<messages, unread, hubVars, envVars>>
  BY UpsertCursorInv
<1>2. cursors' = cursors \cup {c}
  BY DEF UpsertCursor
<1>3. c \in Cursors
  BY <1>1, <1>2 DEF BusInv, TypeOK
<1>4. Uncounted' = Uncounted /\ Untold' = Untold
  <2>1. Uncounted \subseteq messages /\ Uncounted' \subseteq messages'
    BY DEF Uncounted
  <2>2. QED
    BY <1>1, <2>1, Underlying, UnderlyingNext DEF SameUnserved, SameUpdates, UnderlyingEvents
<1> HIDE DEF c
<1>5. CASE c \in cursors
  BY <1>1, <1>2, <1>4, <1>5 DEF Seen, hubVars, envVars
<1>6. CASE c \notin cursors
  <2>1. Abstract!Open(c)
    BY <1>1, <1>2, <1>4, <1>6 DEF Abstract!Open, hubVars, envVars
  <2>2. QED
    BY <1>3, <2>1 DEF Abstract!Next, Abstract!Cursors, Cursors
<1>7. QED
  BY <1>5, <1>6

LEMMA ResetReads ==
  ASSUME BusInv, NEW u \in Users, NEW T \in SUBSET Threads, MarkAsRead(u, T)
  PROVE  [Abstract!Next]_Seen
<1> DEFINE C == ({u} \X T) \cap cursors
<1>1. /\ BusInv' /\ SameUnserved /\ SameUpdates
      /\ UNCHANGED <<messages, hubVars, crashes, faults>>
  BY MarkAsReadInv
<1>2. cursors' = cursors
  BY DEF MarkAsRead
<1>3. unread' = [c \in Cursors |-> IF c \in C THEN 0 ELSE unread[c]]
  <2>1. unread' = [c \in Cursors |-> IF c \in {d \in cursors : d[1] = u /\ d[2] \in T}
                                     THEN 0 ELSE unread[c]]
    BY DEF MarkAsRead
  <2>2. C = {d \in cursors : d[1] = u /\ d[2] \in T}
    BY DEF BusInv, TypeOK, Cursors
  <2>3. QED
    BY <2>1, <2>2
<1>4. Uncounted' = Uncounted /\ Untold' = Untold
  <2>1. Uncounted \subseteq messages /\ Uncounted' \subseteq messages'
    BY DEF Uncounted
  <2>2. QED
    BY <1>1, <2>1, Underlying, UnderlyingNext DEF SameUnserved, SameUpdates, UnderlyingEvents
<1> HIDE DEF C
<1>5. Abstract!Read(C)
  BY <1>1, <1>2, <1>3, <1>4 DEF Abstract!Read, Abstract!Cursors, Cursors, hubVars
<1>6. QED
  BY <1>5 DEF C, Abstract!Next

(* Every step is one of Counters, or changes nothing there. *)
LEMMA StepCounts ==
  ASSUME BusInv, [Next]_vars
  PROVE  [Abstract!Next]_Seen
<1>1. BusInv'
  BY BusStep
<1>2. ASSUME NEW p \in Requests, Request(p) PROVE [Abstract!Next]_Seen
  <2>1. cursors' = cursors
    BY <1>2 DEF Request, CreateRoom, Join, Leave, SendRoomMessage, SendDirectMessage, Commit
  <2>2. ASSUME NEW u \in Users, NEW r \in Rooms,
               CreateRoom(p, u, r) \/ Join(p, u, r) \/ Leave(p, u, r)
        PROVE  UNCHANGED Seen
    BY <1>1, <2>1, <2>2, RoomRequestInv, Unseen DEF envVars
  <2>3. ASSUME NEW u \in Users, NEW r \in Rooms, SendRoomMessage(p, u, r)
        PROVE  Abstract!Next
    <3>1. Abstract!Send(r, u)
      BY <1>1, <2>1, <2>3, SendRoomMessageInv, StoreSends DEF Threads
    <3>2. QED
      BY <3>1 DEF Abstract!Next, Threads
  <2>4. ASSUME NEW u \in Users, NEW v \in Users, SendDirectMessage(p, u, v)
        PROVE  Abstract!Next
    <3>1. {u, v} \in Threads
      BY <2>4, ConversationUsers DEF SendDirectMessage, Threads
    <3>2. Abstract!Send({u, v}, u)
      BY <1>1, <2>1, <2>4, <3>1, SendDirectMessageInv, StoreSends
    <3>3. QED
      BY <3>1, <3>2 DEF Abstract!Next
  <2>5. QED
    BY <1>2, <2>2, <2>3, <2>4 DEF Request
<1>3. ASSUME NEW p \in Requests, Publish(p) PROVE UNCHANGED Seen
  BY <1>1, <1>3, PublishInv, Unseen DEF Publish, envVars
<1>4. ASSUME Dispatch PROVE UNCHANGED Seen
  BY <1>1, <1>4, DispatchInv, Unseen DEF Dispatch, envVars
<1>5. ASSUME NEW g \in running, Handle(g) PROVE [Abstract!Next]_Seen
  <2>1. ASSUME SaveRoomEvent(g) PROVE UNCHANGED Seen
    BY <1>1, <2>1, SaveRoomEventInv, Unseen DEF SaveRoomEvent, envVars
  <2>2. ASSUME NEW e \in g.out, PublishUpdate(g, e) PROVE UNCHANGED Seen
    BY <1>1, <2>2, PublishUpdateInv, Unseen DEF PublishUpdate, envVars
  <2>3. QED
    BY <1>5, <2>1, <2>2, UpdateCounts, NotifyTells, CursorOpens DEF Handle
<1>6. ASSUME NEW g \in running, StoreFails(g) PROVE [Abstract!Next]_Seen
  <2>1. /\ UNCHANGED <<messages, cursors, unread, badge, crashes>> /\ faults' = faults + 1
        /\ Unserved' \cap MsgEvents \subseteq Unserved /\ InFlight' \cap Updates \subseteq InFlight
    BY <1>6, StoreFailsInv DEF StoreFails, SameUpdates, hubVars
  <2>2. crashes' + faults' = crashes + faults + 1
    BY <2>1 DEF BusInv, EventsOK
  <2>3. QED
    BY <1>1, <2>1, <2>2, FailureFails
<1>7. ASSUME NEW u \in Users, \/ \E t \in Threads : MarkAsRead(u, {t})
                              \/ MarkAsRead(u, Threads)
      PROVE  [Abstract!Next]_Seen
  BY <1>7, ResetReads
<1>8. ASSUME Crash PROVE [Abstract!Next]_Seen
  <2>1. /\ UNCHANGED <<messages, cursors, unread, badge, faults>> /\ crashes' = crashes + 1
        /\ Unserved' = {} /\ InFlight' = {}
    BY <1>8, CrashInv DEF Crash, hubVars
  <2>2. crashes' + faults' = crashes + faults + 1
    BY <2>1 DEF BusInv, EventsOK
  <2>3. QED
    BY <1>1, <2>1, <2>2, FailureFails
<1>9. CASE UNCHANGED vars
  <2>1. UNCHANGED <<messages, cursors, unread, badge, crashes, faults>>
    BY <1>9 DEF vars, tables, hubVars, envVars
  <2>2. InFlight' = InFlight /\ Unserved' = Unserved
    BY <1>9 DEF vars, busVars, InFlight, Unserved
  <2>3. SameUnserved /\ SameUpdates
    BY <2>2 DEF SameUnserved, SameUpdates
  <2>4. UNCHANGED hubVars
    BY <1>9 DEF vars, hubVars
  <2>5. UNCHANGED Seen
    BY <1>1, <2>1, <2>3, <2>4, Unseen
  <2>6. QED
    BY <2>5
<1>10. QED
  BY <1>2, <1>3, <1>4, <1>5, <1>6, <1>7, <1>8, <1>9 DEF Next

(* To the users the services are one counter for each cursor: a message is *)
(* counted at one moment for all readers, each is told the count of that   *)
(* moment, and only failures lose anything: the refinement that the run    *)
(* checks, for any number of requests, events and handlers.                *)
THEOREM Refinement == Spec => ImplementsCounters
<1>1. Init => Abstract!Init
  <2>1. ASSUME Init PROVE Uncounted = {} /\ Untold = {}
    BY <2>1 DEF Init, Uncounted, Untold, InFlight, Range
  <2>2. QED
    BY <2>1 DEF Init, Abstract!Init, Abstract!Cursors, Cursors
<1>2. BusInv /\ [Next]_vars => BusInv' /\ [Abstract!Next]_(Abstract!vars)
  BY BusStep, StepCounts DEF Seen, Abstract!vars
<1>3. QED
  BY <1>1, <1>2, BusInitInv, PTL DEF Spec, ImplementsCounters, Abstract!Spec
=============================================================================
