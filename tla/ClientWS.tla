------------------------------ MODULE ClientWS ------------------------------
(***************************************************************************)
(* The WebSocket client of the terminal program (cmd/client/internal/ws)   *)
(* and the event loop of the user interface that it talks to.              *)
(*                                                                         *)
(* The event loop handles one message at a time.  Whoever has a message    *)
(* for it waits in program.Send until the loop takes it; and the loop      *)
(* itself waits in Client.Send, in the middle of handling a key press,     *)
(* while sendCh is full.  A goroutine may be preempted before it enters    *)
(* program.Send, so waiting messages are taken in any order.               *)
(*                                                                         *)
(* runLoopsWithRetry starts a read loop and a write loop, waits until one  *)
(* of them gives up, waits a while (the length is left out), dials, and    *)
(* starts the next two loops: also when dialling failed, and then on the   *)
(* connection that was lost.  It does not wait for the loops before to     *)
(* end.                                                                    *)
(***************************************************************************)
EXTENDS Integers, Sequences, FiniteSets, Functions

CONSTANTS
  SendCap,  \* capacity of sendCh (64 in the code)
  MaxTyped, \* bound: chat messages that the user types
  MaxLoops  \* bound: how often loops are started

ASSUME ClientAssumption == SendCap \in Nat \ {0} /\ {MaxTyped, MaxLoops} \subseteq Nat

Loops == 1..MaxLoops
Typed == 1..MaxTyped

VARIABLES
  ui,        \* "idle", or the event loop waits to send the message typed last
  typed,     \* number of the message typed last
  known,     \* has the application got the ws.Client?
  hud,       \* the connection indicator on the screen
  connect,   \* the command that makes the first connection
  retry,     \* where runLoopsWithRetry is
  gen,       \* number of the loops started last
  conn,      \* Client.conn, the connections being numbered
  up,        \* has Client.conn not been closed?
  uses,      \* the connection on which loops were started
  cancelled, \* loops whose context is cancelled
  reader,    \* where the read loops are
  writer,    \* where the write loops are
  hand,      \* the message that a write loop has taken from sendCh
  sendCh,    \* Client.sendCh
  wire,      \* what was written to connections, in order
  lost       \* what was taken from sendCh and not written

uiVars   == <<ui, typed, known, hud>>
connVars == <<conn, up>>
loopVars == <<gen, uses, cancelled, reader, writer, hand>>
msgVars  == <<sendCh, wire, lost>>
vars == <<uiVars, connect, retry, connVars, loopVars, msgVars>>

TypeOK ==
  /\ ui \in {"idle", "sending"}
  /\ typed \in 0..MaxTyped
  /\ known \in BOOLEAN
  /\ hud \in {"connecting", "live", "offline"}
  /\ connect \in {"dialing", "reporting", "failing", "done"}
  /\ retry \in {"off", "waiting", "lost", "backoff", "connected"}
  /\ gen \in 0..MaxLoops
  /\ conn \in 0..MaxLoops
  /\ up \in BOOLEAN
  /\ uses \in [Loops -> 0..MaxLoops]
  /\ cancelled \in SUBSET (1..gen)
  /\ reader \in [Loops -> {"off", "read", "deliver", "report", "cancel", "done"}]
  /\ writer \in [Loops -> {"off", "select", "write", "report", "cancel", "done"}]
  /\ hand \in [Loops -> 0..MaxTyped]
  /\ sendCh \in Seq(Typed) /\ Len(sendCh) <= SendCap
  /\ wire \in Seq(Typed)
  /\ lost \in SUBSET Typed

(* The user has just logged in, and the command connectWS has been started. *)
Init ==
  /\ ui = "idle" /\ typed = 0 /\ known = FALSE /\ hud = "connecting"
  /\ connect = "dialing" /\ retry = "off"
  /\ gen = 0 /\ conn = 0 /\ up = FALSE
  /\ uses = [g \in Loops |-> 0] /\ cancelled = {}
  /\ reader = [g \in Loops |-> "off"] /\ writer = [g \in Loops |-> "off"]
  /\ hand = [g \in Loops |-> 0]
  /\ sendCh = <<>> /\ wire = <<>> /\ lost = {}

----------------------------------------------------------------------------
(* Connecting *)

(* runWithConn: the next two loops, on connection c. *)
StartLoops(c) ==
  /\ gen' = gen + 1
  /\ uses' = [uses EXCEPT ![gen + 1] = c]
  /\ reader' = [reader EXCEPT ![gen + 1] = "read"]
  /\ writer' = [writer EXCEPT ![gen + 1] = "select"]
  /\ retry' = "waiting"
  /\ UNCHANGED <<cancelled, hand>>

(* Connect, called by the command connectWS. *)
Connect ==
  /\ connect = "dialing" /\ gen < MaxLoops
  /\ connect' = "reporting"
  /\ conn' = conn + 1 /\ up' = TRUE
  /\ StartLoops(conn + 1)
  /\ UNCHANGED <<uiVars, msgVars>>

ConnectFails ==
  /\ connect = "dialing"
  /\ connect' = "failing"
  /\ UNCHANGED <<uiVars, retry, connVars, loopVars, msgVars>>

(* The loops' context is done: runWithConn reports it, and the retry loop  *)
(* has a ReconnectingMsg for the event loop.                               *)
LoopsEnded ==
  /\ retry = "waiting" /\ gen \in cancelled
  /\ retry' = "lost"
  /\ UNCHANGED <<uiVars, connect, connVars, loopVars, msgVars>>

(* The backoff is over.  Dialling fails: the network is still down, or the *)
(* token in the headers has expired.                                       *)
RedialFails ==
  /\ retry = "backoff" /\ gen < MaxLoops
  /\ StartLoops(conn)
  /\ UNCHANGED <<uiVars, connect, connVars, msgVars>>

Redial ==
  /\ retry = "backoff" /\ gen < MaxLoops
  /\ conn' = conn + 1 /\ up' = TRUE
  /\ retry' = "connected"
  /\ UNCHANGED <<uiVars, connect, loopVars, msgVars>>

(* The connection breaks, or the server closes it. *)
ConnLost ==
  /\ up /\ up' = FALSE
  /\ UNCHANGED <<uiVars, connect, retry, conn, loopVars, msgVars>>

----------------------------------------------------------------------------
(* The event loop: one action for each kind of message *)

(* The first connection, or the failure to make it. *)
TakeFirst ==
  /\ ui = "idle" /\ connect = "reporting"
  /\ connect' = "done" /\ known' = TRUE /\ hud' = "live"
  /\ UNCHANGED <<ui, typed, retry, connVars, loopVars, msgVars>>

TakeFirstError ==
  /\ ui = "idle" /\ connect = "failing"
  /\ connect' = "done" /\ hud' = "offline"
  /\ UNCHANGED <<ui, typed, known, retry, connVars, loopVars, msgVars>>

TakeReconnecting ==
  /\ ui = "idle" /\ retry = "lost"
  /\ retry' = "backoff" /\ hud' = "connecting"
  /\ UNCHANGED <<ui, typed, known, connect, connVars, loopVars, msgVars>>

(* ConnectedMsg; the retry loop goes on and starts loops. *)
TakeConnected ==
  /\ ui = "idle" /\ retry = "connected"
  /\ hud' = "live"
  /\ StartLoops(conn)
  /\ UNCHANGED <<ui, typed, known, connect, connVars, msgVars>>

(* IncomingMsg; the read loop goes on. *)
TakeIncoming(g) ==
  /\ ui = "idle" /\ reader[g] = "deliver"
  /\ reader' = [reader EXCEPT ![g] = "read"]
  /\ UNCHANGED <<uiVars, connect, retry, connVars, gen, uses, cancelled, writer, hand,
                 msgVars>>

(* Mutant: the read loop ends without cancelling its context. *)
TakeReadErrorOnly(g) ==
  /\ ui = "idle" /\ reader[g] = "report"
  /\ hud' = "offline"
  /\ reader' = [reader EXCEPT ![g] = "done"]
  /\ UNCHANGED <<ui, typed, known, connect, retry, connVars, gen, uses, cancelled, writer,
                 hand, msgVars>>

(* ErrorMsg from a read or write loop, which goes on to cancel. *)
TakeReadError(g) ==
  /\ ui = "idle" /\ reader[g] = "report"
  /\ hud' = "offline"
  /\ reader' = [reader EXCEPT ![g] = "cancel"]
  /\ UNCHANGED <<ui, typed, known, connect, retry, connVars, gen, uses, cancelled, writer,
                 hand, msgVars>>

TakeWriteError(g) ==
  /\ ui = "idle" /\ writer[g] = "report"
  /\ hud' = "offline"
  /\ writer' = [writer EXCEPT ![g] = "cancel"]
  /\ UNCHANGED <<ui, typed, known, connect, retry, connVars, gen, uses, cancelled, reader,
                 hand, msgVars>>

(* A request over HTTP for the history of a chat fails: an ErrorMsg, too. *)
TakeHistoryError ==
  /\ ui = "idle" /\ hud' = "offline"
  /\ UNCHANGED <<ui, typed, known, connect, retry, connVars, loopVars, msgVars>>

(* Mutant: sendCh has no bound. *)
TypeUnbounded ==
  /\ ui = "idle" /\ known /\ typed < MaxTyped
  /\ typed' = typed + 1
  /\ sendCh' = Append(sendCh, typed')
  /\ UNCHANGED <<ui, known, hud, connect, retry, connVars, loopVars, wire, lost>>

(* Enter is pressed in a chat: Client.Send, which waits while sendCh is    *)
(* full.  Without a client the key does nothing.                           *)
Type ==
  /\ ui = "idle" /\ known /\ typed < MaxTyped
  /\ typed' = typed + 1
  /\ IF Len(sendCh) < SendCap
     THEN sendCh' = Append(sendCh, typed') /\ UNCHANGED ui
     ELSE ui' = "sending" /\ UNCHANGED sendCh
  /\ UNCHANGED <<known, hud, connect, retry, connVars, loopVars, wire, lost>>

SendUnblocks ==
  /\ ui = "sending" /\ Len(sendCh) < SendCap
  /\ sendCh' = Append(sendCh, typed)
  /\ ui' = "idle"
  /\ UNCHANGED <<typed, known, hud, connect, retry, connVars, loopVars, wire, lost>>

----------------------------------------------------------------------------
(* The read loop *)

(* Mutant: a message that does not parse ends the loop. *)
ReadIncomingOrEnd(g) ==
  /\ reader[g] = "read" /\ up /\ g \notin cancelled
  /\ \E s \in {"deliver", "cancel"} : reader' = [reader EXCEPT ![g] = s]
  /\ UNCHANGED <<uiVars, connect, retry, connVars, gen, uses, cancelled, writer, hand,
                 msgVars>>

ReadIncoming(g) ==
  /\ reader[g] = "read" /\ up /\ g \notin cancelled
  /\ reader' = [reader EXCEPT ![g] = "deliver"]
  /\ UNCHANGED <<uiVars, connect, retry, connVars, gen, uses, cancelled, writer, hand,
                 msgVars>>

(* Mutant: the loop ends without a word. *)
ReadFailsSilently(g) ==
  /\ reader[g] = "read" /\ ~up /\ g \notin cancelled
  /\ reader' = [reader EXCEPT ![g] = "done"]
  /\ UNCHANGED <<uiVars, connect, retry, connVars, gen, uses, cancelled, writer, hand,
                 msgVars>>

ReadFails(g) ==
  /\ reader[g] = "read" /\ ~up /\ g \notin cancelled
  /\ reader' = [reader EXCEPT ![g] = "report"]
  /\ UNCHANGED <<uiVars, connect, retry, connVars, gen, uses, cancelled, writer, hand,
                 msgVars>>

(* A call with a cancelled context fails, and may close the connection it  *)
(* is made on: that is Client.conn, and may be the next one by now.        *)
FailCancelled(g) ==
  /\ up' \in (IF uses[g] # conn THEN {up, FALSE} ELSE {up})
  /\ UNCHANGED conn

ReadCancelled(g) ==
  /\ reader[g] = "read" /\ g \in cancelled
  /\ FailCancelled(g)
  /\ reader' = [reader EXCEPT ![g] = "done"]
  /\ UNCHANGED <<uiVars, connect, retry, gen, uses, cancelled, writer, hand, msgVars>>

(* cancel(), called by the read loop and by the write loop. *)
ReaderCancels(g) ==
  /\ reader[g] = "cancel"
  /\ reader' = [reader EXCEPT ![g] = "done"]
  /\ cancelled' = cancelled \cup {g}
  /\ UNCHANGED <<uiVars, connect, retry, connVars, gen, uses, writer, hand, msgVars>>

WriterCancels(g) ==
  /\ writer[g] = "cancel"
  /\ writer' = [writer EXCEPT ![g] = "done"]
  /\ cancelled' = cancelled \cup {g}
  /\ UNCHANGED <<uiVars, connect, retry, connVars, gen, uses, reader, hand, msgVars>>

----------------------------------------------------------------------------
(* The write loop *)

WriterStops(g) ==
  /\ writer[g] = "select" /\ g \in cancelled
  /\ writer' = [writer EXCEPT ![g] = "done"]
  /\ UNCHANGED <<uiVars, connect, retry, connVars, gen, uses, cancelled, reader, hand,
                 msgVars>>

(* select takes any ready case: a message also when the context is done. *)
TakeFromSendCh(g) ==
  /\ writer[g] = "select" /\ sendCh # <<>>
  /\ hand' = [hand EXCEPT ![g] = Head(sendCh)]
  /\ sendCh' = Tail(sendCh)
  /\ writer' = [writer EXCEPT ![g] = "write"]
  /\ UNCHANGED <<uiVars, connect, retry, connVars, gen, uses, cancelled, reader, wire,
                 lost>>

(* Mutant: the loop writes without its context, so that one that was given *)
(* up writes to the next connection.                                       *)
WriteLate(g) ==
  /\ writer[g] = "write" /\ up
  /\ wire' = Append(wire, hand[g])
  /\ hand' = [hand EXCEPT ![g] = 0]
  /\ writer' = [writer EXCEPT ![g] = "select"]
  /\ UNCHANGED <<uiVars, connect, retry, connVars, gen, uses, cancelled, reader, sendCh,
                 lost>>

Write(g) ==
  /\ writer[g] = "write" /\ up /\ g \notin cancelled
  /\ wire' = Append(wire, hand[g])
  /\ hand' = [hand EXCEPT ![g] = 0]
  /\ writer' = [writer EXCEPT ![g] = "select"]
  /\ UNCHANGED <<uiVars, connect, retry, connVars, gen, uses, cancelled, reader, sendCh,
                 lost>>

(* Mutant of DropMessage: the message goes back to the end of sendCh. *)
DropMessageRequeued(g) ==
  /\ sendCh' = IF Len(sendCh) < SendCap THEN Append(sendCh, hand[g]) ELSE sendCh
  /\ hand' = [hand EXCEPT ![g] = 0]
  /\ UNCHANGED <<wire, lost>>

(* The message in hand is dropped. *)
DropMessage(g) ==
  /\ lost' = lost \cup {hand[g]}
  /\ hand' = [hand EXCEPT ![g] = 0]
  /\ UNCHANGED <<sendCh, wire>>

(* Mutant: the loop goes on with the next message after an error. *)
WriteFailsOn(g) ==
  /\ writer[g] = "write" /\ ~up /\ g \notin cancelled
  /\ DropMessage(g)
  /\ writer' = [writer EXCEPT ![g] = "select"]
  /\ UNCHANGED <<uiVars, connect, retry, connVars, gen, uses, cancelled, reader>>

WriteFails(g) ==
  /\ writer[g] = "write" /\ ~up /\ g \notin cancelled
  /\ DropMessage(g)
  /\ writer' = [writer EXCEPT ![g] = "report"]
  /\ UNCHANGED <<uiVars, connect, retry, connVars, gen, uses, cancelled, reader>>

WriteCancelled(g) ==
  /\ writer[g] = "write" /\ g \in cancelled
  /\ DropMessage(g)
  /\ FailCancelled(g)
  /\ writer' = [writer EXCEPT ![g] = "done"]
  /\ UNCHANGED <<uiVars, connect, retry, gen, uses, cancelled, reader>>

----------------------------------------------------------------------------
EventLoop ==
  \/ TakeFirst \/ TakeFirstError \/ TakeReconnecting \/ TakeConnected \/ TakeHistoryError
  \/ \E g \in Loops : TakeIncoming(g) \/ TakeReadError(g) \/ TakeWriteError(g)
  \/ Type \/ SendUnblocks

RetryLoop == LoopsEnded \/ RedialFails \/ Redial

ReadLoop(g) == ReadIncoming(g) \/ ReadFails(g) \/ ReadCancelled(g) \/ ReaderCancels(g)

WriteLoop(g) ==
  \/ WriterStops(g) \/ TakeFromSendCh(g)
  \/ Write(g) \/ WriteFails(g) \/ WriteCancelled(g) \/ WriterCancels(g)

Next ==
  \/ Connect \/ ConnectFails \/ ConnLost
  \/ EventLoop
  \/ RetryLoop
  \/ \E g \in Loops : ReadLoop(g) \/ WriteLoop(g)

Spec == Init /\ [][Next]_vars

(***************************************************************************)
(* Fairness.  A goroutine that can go on does; dialling ends, in one way   *)
(* or the other.  The channel into the event loop is unbuffered and its    *)
(* senders wait in line, so that a sender to whom the event loop comes     *)
(* back again and again is served.  The server promises no messages, the   *)
(* user no key presses.                                                    *)
(***************************************************************************)
Fairness ==
  /\ SF_vars(TakeFirst) /\ SF_vars(TakeFirstError)
  /\ SF_vars(TakeReconnecting) /\ SF_vars(TakeConnected)
  /\ WF_vars(Connect \/ ConnectFails) /\ WF_vars(RetryLoop) /\ WF_vars(SendUnblocks)
  /\ \A g \in Loops :
       /\ SF_vars(TakeIncoming(g)) /\ SF_vars(TakeReadError(g)) /\ SF_vars(TakeWriteError(g))
       /\ WF_vars(ReadFails(g) \/ ReadCancelled(g) \/ ReaderCancels(g))
       /\ WF_vars(WriteLoop(g))

LiveSpec == Spec /\ Fairness

----------------------------------------------------------------------------
(* Safety *)

(* The messages on the wire are in the order in which they were typed, and *)
(* none is there twice, although loops that were given up may still run    *)
(* beside those of the next connection (client.go:77-97, 185-204).         *)
SentInOrder ==
  \A i, j \in 1..Len(wire) : i < j => wire[i] < wire[j]

(* Where a typed message can be. *)
Held == {hand[g] : g \in {h \in Loops : writer[h] = "write"}}

Waiting == IF ui = "sending" THEN {typed} ELSE {}

(* No message disappears: what was typed is still to be sent, in sendCh,   *)
(* with a write loop, on the wire or dropped, and in one place only.       *)
(* Every write loop drops one message at most, the one with which it ends  *)
(* (client.go:198-205).                                                    *)
MessagesAccounted ==
  /\ 1..typed = Waiting \cup Range(sendCh) \cup Held \cup Range(wire) \cup lost
  /\ typed = Cardinality(Waiting) + Len(sendCh) + Cardinality(Held) + Len(wire)
              + Cardinality(lost)
  /\ Cardinality(lost) <= Cardinality({g \in 1..gen : writer[g] \in {"report", "cancel", "done"}})

(* To the user, all of this is one outbox: a message typed is sent once at *)
(* most, in order, or dropped for good, whatever becomes of connections,   *)
(* loops and contexts, and although no loop waits for the one before it.   *)
Abstract == INSTANCE Outbox WITH sent <- wire, dropped <- lost

ImplementsOutbox == Abstract!Spec

(* Loops are given up only when their connection is closed, and before the *)
(* next ones start: there are never two pairs that believe in theirs.      *)
GivenUpIsClosed ==
  /\ \A g \in 1..(gen - 1) : g \in cancelled
  /\ \A g \in cancelled : uses[g] = conn => ~up

----------------------------------------------------------------------------
(* Liveness *)

(* The event loop waits in Send; no more loops within the bound. *)
Hangs == ui = "sending"
Bounded == gen = MaxLoops /\ retry = "backoff"

(* A connection that is lost does not show as live for ever, not even when *)
(* the news of the first connection comes behind the news of its loss,     *)
(* unless the event loop hangs in Send (app.go:91-95, 157-169).            *)
LossIsShown == known /\ ~up ~> hud # "live" \/ up \/ Hangs \/ Bounded

(* A connection that is lost leads to the next attempt to connect, unless  *)
(* the event loop hangs in Send (client.go:73-97).                         *)
LossIsRetried == retry = "waiting" /\ ~up ~> retry = "backoff" \/ Hangs

----------------------------------------------------------------------------
(* What the comments say, and the code does not do *)

(* client.go:108, "Send enqueues a message": the event loop comes back     *)
(* from Send.                                                              *)
SendReturns == ui = "sending" ~> ui = "idle"
============================================================================
