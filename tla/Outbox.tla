------------------------------- MODULE Outbox -------------------------------
(***************************************************************************)
(* What the client promises for the messages that its user types, without  *)
(* connections, loops and channels: each is sent once at most, in the      *)
(* order typed, or dropped for good.  Module ClientWS implements it.       *)
(***************************************************************************)
EXTENDS Integers, Sequences, Functions

VARIABLES
  typed,  \* number of the message typed last
  sent,   \* the messages sent, in order
  dropped \* the messages that never will be

Init == typed = 0 /\ sent = <<>> /\ dropped = {}

Unsent == (1..typed) \ (Range(sent) \cup dropped)

Type == typed' = typed + 1 /\ UNCHANGED <<sent, dropped>>

Send(i) ==
  /\ \A j \in Range(sent) : j < i
  /\ sent' = Append(sent, i)
  /\ UNCHANGED <<typed, dropped>>

Drop(i) ==
  /\ dropped' = dropped \cup {i}
  /\ UNCHANGED <<typed, sent>>

Next == Type \/ \E i \in Unsent : Send(i) \/ Drop(i)

Spec == Init /\ [][Next]_<<typed, sent, dropped>>
============================================================================
