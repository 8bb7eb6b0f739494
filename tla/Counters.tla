------------------------------ MODULE Counters ------------------------------
(***************************************************************************)
(* What the services promise about unread counts, without bus, queue and   *)
(* handlers: a message is counted once, at one moment, for all who have a  *)
(* cursor of its thread, the sender excepted; each of them is told the     *)
(* count of that moment, in any order; reading resets a count at once; and *)
(* only a failure takes anything away.  Module Inbox implements it.        *)
(***************************************************************************)
EXTENDS Integers, FiniteSets

CONSTANTS
  Users, Threads,
  Numbers     \* what tells news apart

Cursors == Users \X Threads

VARIABLES
  messages,  \* the messages stored
  waiting,   \* those that are not counted
  cursors,   \* who is counted for, and in which thread
  unread,    \* the counts
  news,      \* the counts that their users are to be told
  told,      \* the count that a user was told last
  failures   \* the number of failures so far

vars == <<messages, waiting, cursors, unread, news, told, failures>>

Init ==
  /\ messages = {} /\ waiting = {} /\ cursors = {} /\ news = {}
  /\ unread = [c \in Cursors |-> 0] /\ told = [c \in Cursors |-> 0]
  /\ failures = 0

Send(t, u) ==
  LET m == [id |-> Cardinality(messages) + 1, thread |-> t, from |-> u] IN
  /\ messages' = messages \cup {m}
  /\ waiting' = waiting \cup {m}
  /\ UNCHANGED <<cursors, unread, news, told, failures>>

Open(c) ==
  /\ c \notin cursors
  /\ cursors' = cursors \cup {c}
  /\ UNCHANGED <<messages, waiting, unread, news, told, failures>>

Readers(m) == {c \in cursors : c[2] = m.thread /\ c[1] # m.from}

Count(m, n) ==
  /\ unread' = [c \in Cursors |-> IF c \in Readers(m) THEN unread[c] + 1 ELSE unread[c]]
  /\ waiting' = waiting \ {m}
  /\ \A x \in news : x.n # n
  /\ news' = news \cup {[kind |-> "inbox_entry_updated", n |-> n, user |-> c[1], thread |-> c[2],
                         unread |-> unread'[c]] : c \in Readers(m)}
  /\ UNCHANGED <<messages, cursors, told, failures>>

Tell(x) ==
  /\ told' = [told EXCEPT ![<<x.user, x.thread>>] = x.unread]
  /\ news' = news \ {x}
  /\ UNCHANGED <<messages, waiting, cursors, unread, failures>>

Read(C) ==
  /\ unread' = [c \in Cursors |-> IF c \in C THEN 0 ELSE unread[c]]
  /\ UNCHANGED <<messages, waiting, cursors, news, told, failures>>

Fail(M, N) ==
  /\ failures' = failures + 1
  /\ waiting' = waiting \ M /\ news' = news \ N
  /\ UNCHANGED <<messages, cursors, unread, told>>

Next ==
  \/ \E t \in Threads, u \in Users : Send(t, u)
  \/ \E c \in Cursors : Open(c)
  \/ \E m \in waiting, n \in Numbers : Count(m, n)
  \/ \E x \in news : Tell(x)
  \/ \E u \in Users, T \in SUBSET Threads : Read(({u} \X T) \cap cursors)
  \/ \E M \in SUBSET waiting, N \in SUBSET news : Fail(M, N)

Spec == Init /\ [][Next]_vars
=============================================================================
