--------------------------- MODULE ClientWSProofs ---------------------------
(***************************************************************************)
(* Theorems about the WebSocket client, for any capacity of sendCh, any    *)
(* number of messages and any number of loops.                             *)
(***************************************************************************)
EXTENDS ClientWS, FiniteSetTheorems, SequenceTheorems, TLAPS

----------------------------------------------------------------------------
(* The loops: those of the future are off; those of the past are given up; *)
(* the retry loop goes on only when the last ones are; and what failed on  *)
(* the present connection did because it is closed.  And what waits in     *)
(* Send has been typed.                                                    *)
LoopInv ==
  /\ ui = "sending" => typed # 0
  /\ \A g \in Loops : g > gen => reader[g] = "off" /\ writer[g] = "off"
  /\ \A g \in Loops : uses[g] <= conn
  /\ \A g \in Loops : writer[g] = "write" => hand[g] # 0
  /\ \A g \in 1..(gen - 1) : g \in cancelled
  /\ retry = "off" => gen = 0 /\ conn = 0
  /\ connect = "dialing" => retry = "off"
  /\ retry \in {"lost", "backoff", "connected"} => gen \in cancelled
  /\ conn <= IF retry = "connected" THEN gen + 1 ELSE gen
  /\ retry = "connected" => gen < MaxLoops
  /\ \A g \in Loops :
       reader[g] \in {"report", "cancel"} \/ writer[g] \in {"report", "cancel"} \/ g \in cancelled
         => (uses[g] = conn => ~up)

ClientInv == TypeOK /\ LoopInv

(* What taking the first of a queue leaves. *)
LEMMA HeadTail ==
  ASSUME NEW S, NEW q \in Seq(S), q # <<>>
  PROVE  Head(q) \in S /\ Tail(q) \in Seq(S) /\ Len(Tail(q)) = Len(q) - 1
OBVIOUS

(* Initially no loop was started. *)
LEMMA ClientInitInv == Init => ClientInv
<1> USE ClientAssumption DEF Loops, Typed
<1> SUFFICES ASSUME Init PROVE ClientInv
  OBVIOUS
<1>1. /\ sendCh \in Seq(Typed) /\ Len(sendCh) <= SendCap /\ wire \in Seq(Typed)
      /\ lost \in SUBSET Typed
  BY DEF Init
<1>2. /\ uses \in [Loops -> 0..MaxLoops] /\ hand \in [Loops -> 0..MaxTyped]
      /\ \A g \in Loops : uses[g] = 0
  BY DEF Init
<1>3. /\ reader \in [Loops -> {"off", "read", "deliver", "report", "cancel", "done"}]
      /\ writer \in [Loops -> {"off", "select", "write", "report", "cancel", "done"}]
      /\ \A g \in Loops : reader[g] = "off" /\ writer[g] = "off"
  BY DEF Init
<1>4. TypeOK
  <2>1. gen \in 0..MaxLoops /\ conn \in 0..MaxLoops /\ typed \in 0..MaxTyped
    BY DEF Init
  <2>2. cancelled \in SUBSET (1..gen)
    BY DEF Init
  <2>3. QED
    BY <1>1, <1>2, <1>3, <2>1, <2>2 DEF Init, TypeOK
<1>5. LoopInv
  BY <1>2, <1>3 DEF Init, LoopInv
<1>6. QED
  BY <1>4, <1>5 DEF ClientInv

(* StartLoops keeps what the caller has made sure of: the last loops are   *)
(* given up, or there are none, and c is the connection.                   *)
LEMMA StartLoopsInv ==
  ASSUME ClientInv, gen < MaxLoops, gen # 0 => gen \in cancelled,
         conn' \in 0..(gen + 1), conn' >= conn, up' \in BOOLEAN,
         conn' = conn => up' = up, StartLoops(conn'),
         UNCHANGED msgVars, UNCHANGED <<ui, typed, known>>, connect' # "dialing",
         connect' \in {"dialing", "reporting", "failing", "done"},
         hud' \in {"connecting", "live", "offline"}
  PROVE  ClientInv'
<1> USE ClientAssumption DEF Loops, Typed
<1>1. /\ gen \in 0..MaxLoops /\ conn \in 0..MaxLoops /\ gen + 1 \in Loops
  BY DEF ClientInv, TypeOK
<1>2. /\ gen' = gen + 1
      /\ uses' = [uses EXCEPT ![gen + 1] = conn']
      /\ reader' = [reader EXCEPT ![gen + 1] = "read"]
      /\ writer' = [writer EXCEPT ![gen + 1] = "select"]
      /\ retry' = "waiting"
      /\ UNCHANGED <<cancelled, hand>>
  BY DEF StartLoops
<1>3. TypeOK'
  BY <1>1, <1>2 DEF ClientInv, TypeOK, msgVars
<1>4. ASSUME NEW g \in Loops
      PROVE  /\ g > gen' => reader'[g] = "off" /\ writer'[g] = "off"
             /\ uses'[g] <= conn'
             /\ writer'[g] = "write" => hand'[g] # 0
             /\ g < gen' => g \in cancelled'
  <2>1. /\ g > gen => reader[g] = "off" /\ writer[g] = "off"
        /\ uses[g] <= conn
        /\ writer[g] = "write" => hand[g] # 0
        /\ g < gen => g \in cancelled
    BY <1>1 DEF ClientInv, LoopInv
  <2>2. uses[g] \in 0..MaxLoops /\ uses[g] <= conn'
    <3>1. uses[g] \in 0..MaxLoops /\ MaxLoops \in Nat
      BY DEF ClientInv, TypeOK
    <3>2. QED
      BY <1>1, <2>1, <3>1
  <2>3. /\ reader' = [reader EXCEPT ![gen + 1] = "read"] /\ g \in DOMAIN reader
        /\ writer' = [writer EXCEPT ![gen + 1] = "select"] /\ g \in DOMAIN writer
        /\ uses' = [uses EXCEPT ![gen + 1] = conn'] /\ g \in DOMAIN uses
    BY <1>2 DEF ClientInv, TypeOK
  <2>4. QED
    BY <1>1, <1>2, <2>1, <2>2, <2>3
<1>5. /\ conn' <= gen' /\ gen' # 0 /\ retry' = "waiting"
  BY <1>1, <1>2
<1>6. ASSUME NEW g \in Loops, uses'[g] = conn',
             reader'[g] \in {"report", "cancel"} \/ writer'[g] \in {"report", "cancel"}
               \/ g \in cancelled'
      PROVE  ~up'
  <2>1. g # gen + 1
    BY <1>1, <1>2, <1>6 DEF ClientInv, TypeOK
  <2>2. uses[g] = conn' /\ uses[g] <= conn
    BY <1>2, <1>6, <2>1 DEF ClientInv, TypeOK, LoopInv
  <2>3. conn' = conn
    BY <1>1, <2>2 DEF ClientInv, TypeOK
  <2>4. QED
    BY <1>2, <1>6, <2>1, <2>2, <2>3 DEF ClientInv, TypeOK, LoopInv
<1>7. LoopInv'
  <2>1. \A g \in 1..(gen' - 1) : g \in cancelled'
    BY <1>1, <1>2, <1>4
  <2>2. ui' = "sending" => typed' # 0
    BY DEF ClientInv, LoopInv
  <2>3. QED
    BY <1>4, <1>5, <1>6, <2>1, <2>2 DEF LoopInv
<1>8. QED
  BY <1>3, <1>7 DEF ClientInv

(* The first connection is number 1. *)
LEMMA ConnectInv ==
  ASSUME ClientInv, Connect
  PROVE  ClientInv'
<1>1. gen = 0 /\ conn = 0 /\ gen < MaxLoops
  BY DEF ClientInv, LoopInv, Connect
<1>2. /\ connect' = "reporting" /\ conn' = conn + 1 /\ up' = TRUE
      /\ StartLoops(conn') /\ UNCHANGED uiVars /\ UNCHANGED msgVars
  BY DEF Connect
<1>3. hud' \in {"connecting", "live", "offline"} /\ UNCHANGED <<ui, typed, known>>
  BY <1>2 DEF ClientInv, TypeOK, uiVars
<1>4. QED
  BY <1>1, <1>2, <1>3, StartLoopsInv

(* A failed attempt leads to the next loops, on the lost connection. *)
LEMMA RedialFailsInv ==
  ASSUME ClientInv, RedialFails
  PROVE  ClientInv'
<1>1. gen < MaxLoops /\ gen \in cancelled /\ connect # "dialing"
  BY DEF ClientInv, LoopInv, RedialFails
<1>2. conn \in 0..(gen + 1) /\ conn \in Nat
  BY DEF ClientInv, TypeOK, LoopInv, RedialFails
<1>3. /\ connect' = connect /\ conn' = conn /\ up' = up
      /\ StartLoops(conn') /\ UNCHANGED uiVars /\ UNCHANGED msgVars
  BY DEF RedialFails, connVars
<1>4. /\ hud' \in {"connecting", "live", "offline"} /\ UNCHANGED <<ui, typed, known>>
      /\ connect' \in {"dialing", "reporting", "failing", "done"} /\ up' \in BOOLEAN
  BY <1>3 DEF ClientInv, TypeOK, uiVars
<1>5. conn' \in 0..(gen + 1) /\ conn' >= conn
  BY <1>2, <1>3
<1>6. QED
  BY <1>1, <1>3, <1>4, <1>5, StartLoopsInv

(* The event loop learns of a connection that was made again. *)
LEMMA TakeConnectedInv ==
  ASSUME ClientInv, TakeConnected
  PROVE  ClientInv'
<1>1. gen < MaxLoops /\ gen \in cancelled /\ connect # "dialing"
  BY DEF ClientInv, LoopInv, TakeConnected
<1>2. conn \in 0..(gen + 1) /\ conn \in Nat
  BY DEF ClientInv, TypeOK, LoopInv, TakeConnected
<1>3. /\ connect' = connect /\ conn' = conn /\ up' = up /\ hud' = "live"
      /\ StartLoops(conn') /\ UNCHANGED <<ui, typed, known>> /\ UNCHANGED msgVars
  BY DEF TakeConnected, connVars
<1>4. /\ connect' \in {"dialing", "reporting", "failing", "done"} /\ up' \in BOOLEAN
  BY <1>3 DEF ClientInv, TypeOK
<1>5. conn' \in 0..(gen + 1) /\ conn' >= conn
  BY <1>2, <1>3
<1>6. QED
  BY <1>1, <1>3, <1>4, <1>5, StartLoopsInv

(* A new attempt makes the next connection. *)
LEMMA RedialInv ==
  ASSUME ClientInv, Redial
  PROVE  ClientInv'
<1>1. /\ gen \in cancelled /\ gen < MaxLoops /\ conn <= gen
      /\ gen \in Nat /\ conn \in Nat /\ MaxLoops \in Nat
  BY ClientAssumption DEF ClientInv, TypeOK, LoopInv, Redial
<1>2. conn' = conn + 1 /\ up' = TRUE /\ retry' = "connected" /\ conn' \in 0..MaxLoops
  BY <1>1 DEF Redial
<1>3. UNCHANGED <<ui, typed, known, hud, connect, gen, uses, cancelled, reader, writer, hand,
                  sendCh, wire, lost>>
  BY DEF Redial, uiVars, loopVars, msgVars
<1>4. TypeOK'
  BY <1>2, <1>3 DEF ClientInv, TypeOK
<1>5. \A g \in Loops : uses'[g] < conn'
  BY <1>1, <1>2, <1>3 DEF ClientInv, TypeOK, LoopInv
<1>6. LoopInv'
  BY <1>1, <1>2, <1>3, <1>5 DEF ClientInv, TypeOK, LoopInv, Redial
<1>7. QED
  BY <1>4, <1>6 DEF ClientInv

(* Other steps of the retry loop, the first connection and the network.    *)
LEMMA RetryInv ==
  ASSUME ClientInv,
         \/ ConnectFails \/ LoopsEnded \/ ConnLost
         \/ TakeFirst \/ TakeFirstError \/ TakeReconnecting \/ TakeHistoryError
  PROVE  ClientInv'
<1> USE DEF ClientInv, TypeOK, LoopInv, uiVars, connVars, loopVars, msgVars
<1>1. CASE ConnectFails
  BY <1>1 DEF ConnectFails
<1>2. CASE LoopsEnded
  BY <1>2 DEF LoopsEnded
<1>3. CASE ConnLost
  BY <1>3 DEF ConnLost
<1>4. CASE TakeFirst
  BY <1>4 DEF TakeFirst
<1>5. CASE TakeFirstError
  BY <1>5 DEF TakeFirstError
<1>6. CASE TakeReconnecting
  BY <1>6 DEF TakeReconnecting
<1>7. CASE TakeHistoryError
  BY <1>7 DEF TakeHistoryError
<1>8. QED
  BY <1>1, <1>2, <1>3, <1>4, <1>5, <1>6, <1>7

(* A key press: Send appends, now or later.                                *)
LEMMA TypeInv ==
  ASSUME ClientInv, Type \/ SendUnblocks
  PROVE  ClientInv'
<1> USE DEF Typed
<1>1. /\ ui \in {"idle", "sending"} /\ typed \in 0..MaxTyped /\ sendCh \in Seq(Typed)
      /\ Len(sendCh) <= SendCap /\ MaxTyped \in Nat /\ SendCap \in Nat
  BY ClientAssumption DEF ClientInv, TypeOK
<1>2. UNCHANGED <<known, hud, connect, retry, conn, up, gen, uses, cancelled, reader, writer,
                  hand, wire, lost>>
  BY DEF Type, SendUnblocks, connVars, loopVars
<1>3. typed' \in 0..MaxTyped /\ ui' \in {"idle", "sending"}
  BY <1>1 DEF Type, SendUnblocks
<1>4. sendCh' \in Seq(Typed) /\ Len(sendCh') <= SendCap
  <2>1. CASE Type
    BY <1>1, <2>1 DEF Type
  <2>2. CASE SendUnblocks
    <3>1. typed \in Typed
      BY <1>1, <2>2 DEF SendUnblocks, ClientInv, LoopInv
    <3>2. QED
      BY <1>1, <2>2, <3>1 DEF SendUnblocks
  <2>3. QED
    BY <2>1, <2>2
<1>5. ui' = "sending" => typed' # 0
  BY <1>1 DEF Type, SendUnblocks
<1>6. QED
  BY <1>2, <1>3, <1>4, <1>5 DEF ClientInv, TypeOK, LoopInv

(* What a step of a read or a write loop may do to LoopInv: loop g moves,  *)
(* it may be given up, its connection may close, and if it fails on the    *)
(* present connection then that is closed.                                 *)
LEMMA LoopStep ==
  ASSUME ClientInv, NEW g \in Loops, reader[g] # "off" \/ writer[g] # "off",
         NEW a, NEW b, NEW m,
         reader' = [reader EXCEPT ![g] = a], writer' = [writer EXCEPT ![g] = b],
         hand' = [hand EXCEPT ![g] = m], b = "write" => m # 0,
         UNCHANGED <<ui, typed, connect, retry, conn, gen, uses>>,
         up' \in BOOLEAN, up' => up, cancelled' \in {cancelled, cancelled \cup {g}},
         a \in {"report", "cancel"} \/ b \in {"report", "cancel"} \/ g \in cancelled'
           => (uses[g] = conn => ~up')
  PROVE  LoopInv' /\ g \in 1..gen /\ cancelled' \in SUBSET (1..gen)
<1>1. /\ reader' = [reader EXCEPT ![g] = a] /\ DOMAIN reader = Loops
      /\ writer' = [writer EXCEPT ![g] = b] /\ DOMAIN writer = Loops
      /\ hand' = [hand EXCEPT ![g] = m] /\ DOMAIN hand = Loops
      /\ gen \in 0..MaxLoops /\ up \in BOOLEAN /\ cancelled \in SUBSET (1..gen)
  BY DEF ClientInv, TypeOK
<1>2. g \in 1..gen
  BY <1>1, ClientAssumption DEF ClientInv, LoopInv, Loops
<1>3. /\ \A h \in Loops : h > gen => reader'[h] = "off" /\ writer'[h] = "off"
      /\ \A h \in Loops : writer'[h] = "write" => hand'[h] # 0
  BY <1>1, <1>2 DEF ClientInv, LoopInv, Loops
<1>4. \A h \in Loops :
        reader'[h] \in {"report", "cancel"} \/ writer'[h] \in {"report", "cancel"}
          \/ h \in cancelled'
          => (uses[h] = conn => ~up')
  BY <1>1 DEF ClientInv, LoopInv
<1>5. LoopInv'
  BY <1>3, <1>4 DEF ClientInv, LoopInv
<1>6. QED
  BY <1>1, <1>2, <1>5

(* The read loops.                                                         *)
LEMMA ReadLoopInv ==
  ASSUME ClientInv, NEW g \in Loops,
         TakeIncoming(g) \/ TakeReadError(g) \/ ReadLoop(g)
  PROVE  ClientInv'
<1> USE DEF uiVars, connVars, msgVars
<1>1. /\ writer' = [writer EXCEPT ![g] = writer[g]] /\ hand' = [hand EXCEPT ![g] = hand[g]]
      /\ writer[g] = "write" => hand[g] # 0
      /\ UNCHANGED <<ui, typed, known, connect, retry, conn, gen, uses, writer, hand, sendCh, wire,
                     lost>>
      /\ hud' \in {"connecting", "live", "offline"}
      /\ up' \in BOOLEAN /\ (up' => up)
      /\ cancelled' \in {cancelled, cancelled \cup {g}}
  <2>1. UNCHANGED <<ui, typed, known, connect, retry, conn, gen, uses, writer, hand, sendCh, wire,
                    lost>>
    BY DEF TakeIncoming, TakeReadError, ReadLoop, ReadIncoming, ReadFails, ReadCancelled,
           FailCancelled, ReaderCancels
  <2>2. hud' \in {hud, "offline"} /\ up' \in {up, FALSE}
    BY DEF TakeIncoming, TakeReadError, ReadLoop, ReadIncoming, ReadFails, ReadCancelled,
           FailCancelled, ReaderCancels
  <2>3. cancelled' \in {cancelled, cancelled \cup {g}}
    BY DEF TakeIncoming, TakeReadError, ReadLoop, ReadIncoming, ReadFails, ReadCancelled,
           ReaderCancels
  <2>4. up \in BOOLEAN /\ hud \in {"connecting", "live", "offline"}
    BY DEF ClientInv, TypeOK
  <2>5. /\ writer' = [writer EXCEPT ![g] = writer[g]] /\ hand' = [hand EXCEPT ![g] = hand[g]]
        /\ writer[g] = "write" => hand[g] # 0
    BY <2>1 DEF ClientInv, TypeOK, LoopInv
  <2>6. up' \in BOOLEAN /\ (up' => up)
    <3>1. CASE up' = up
      BY <2>4, <3>1
    <3>2. CASE up' = FALSE
      BY <3>2
    <3>3. QED
      BY <2>2, <3>1, <3>2
  <2>7. hud' \in {"connecting", "live", "offline"}
    BY <2>2, <2>4
  <2>8. QED
    BY <2>1, <2>3, <2>5, <2>6, <2>7
<1>2. PICK a \in {"read", "deliver", "report", "cancel", "done"} :
        /\ reader' = [reader EXCEPT ![g] = a] /\ reader[g] # "off"
        /\ a \in {"report", "cancel"} \/ writer[g] \in {"report", "cancel"} \/ g \in cancelled'
             => (uses[g] = conn => ~up')
  <2>1. reader[g] \in {"report", "cancel"} \/ writer[g] \in {"report", "cancel"} \/ g \in cancelled
          => (uses[g] = conn => ~up')
    BY <1>1 DEF ClientInv, LoopInv
  <2>2. CASE TakeIncoming(g)
    BY <1>1, <2>1, <2>2 DEF TakeIncoming
  <2>3. CASE TakeReadError(g)
    BY <1>1, <2>1, <2>3 DEF TakeReadError
  <2>4. CASE ReadIncoming(g)
    BY <1>1, <2>1, <2>4 DEF ReadIncoming
  <2>5. CASE ReadFails(g)
    BY <1>1, <2>1, <2>5 DEF ReadFails
  <2>6. CASE ReadCancelled(g)
    BY <1>1, <2>1, <2>6 DEF ReadCancelled
  <2>7. CASE ReaderCancels(g)
    BY <1>1, <2>1, <2>7 DEF ReaderCancels
  <2>8. QED
    BY <2>2, <2>3, <2>4, <2>5, <2>6, <2>7 DEF ReadLoop
<1>3. LoopInv' /\ g \in 1..gen /\ cancelled' \in SUBSET (1..gen)
  BY <1>1, <1>2, LoopStep
<1>4. TypeOK'
  BY <1>1, <1>2, <1>3 DEF ClientInv, TypeOK
<1>5. QED
  BY <1>3, <1>4 DEF ClientInv

(* The write loops.                                                        *)
LEMMA WriteLoopInv ==
  ASSUME ClientInv, NEW g \in Loops, TakeWriteError(g) \/ WriteLoop(g)
  PROVE  ClientInv'
<1> USE DEF uiVars, connVars, msgVars
<1>1. /\ reader' = [reader EXCEPT ![g] = reader[g]]
      /\ UNCHANGED <<ui, typed, known, connect, retry, conn, gen, uses, reader>>
      /\ hud' \in {"connecting", "live", "offline"}
      /\ up' \in BOOLEAN /\ (up' => up)
      /\ cancelled' \in {cancelled, cancelled \cup {g}}
  <2> USE DEF TakeWriteError, WriteLoop, WriterStops, TakeFromSendCh, Write, WriteFails,
              WriteCancelled, FailCancelled, DropMessage, WriterCancels
  <2>1. UNCHANGED <<ui, typed, known, connect, retry, conn, gen, uses, reader>>
    OBVIOUS
  <2>2. hud' \in {hud, "offline"} /\ up' \in {up, FALSE}
    OBVIOUS
  <2>3. cancelled' \in {cancelled, cancelled \cup {g}}
    OBVIOUS
  <2>4. up \in BOOLEAN /\ hud \in {"connecting", "live", "offline"}
    BY DEF ClientInv, TypeOK
  <2>5. reader' = [reader EXCEPT ![g] = reader[g]]
    BY <2>1 DEF ClientInv, TypeOK
  <2>6. up' \in BOOLEAN /\ (up' => up)
    <3>1. CASE up' = up
      BY <2>4, <3>1
    <3>2. CASE up' = FALSE
      BY <3>2
    <3>3. QED
      BY <2>2, <3>1, <3>2
  <2>7. hud' \in {"connecting", "live", "offline"}
    BY <2>2, <2>4
  <2>8. QED
    BY <2>1, <2>3, <2>5, <2>6, <2>7
<1>2. /\ sendCh \in Seq(Typed) /\ wire \in Seq(Typed) /\ Len(sendCh) <= SendCap
      /\ Typed \subseteq 0..MaxTyped /\ 0 \in 0..MaxTyped /\ \A i \in Typed : i # 0
      /\ SendCap \in Nat /\ Typed \subseteq Nat
      /\ hand[g] \in 0..MaxTyped /\ (writer[g] = "write" => hand[g] \in Typed)
  BY ClientAssumption DEF ClientInv, TypeOK, LoopInv, Typed
<1>3. /\ sendCh' \in Seq(Typed) /\ Len(sendCh') <= SendCap
      /\ wire' \in Seq(Typed) /\ lost' \in SUBSET Typed
  <2>1. CASE UNCHANGED <<sendCh, wire, lost>>
    BY <1>2, <2>1 DEF ClientInv, TypeOK
  <2>2. CASE TakeFromSendCh(g)
    <3>1. Tail(sendCh) \in Seq(Typed) /\ Len(Tail(sendCh)) = Len(sendCh) - 1
      BY <1>2, <2>2, HeadTail DEF TakeFromSendCh
    <3>2. Len(sendCh) \in Nat
      BY <1>2
    <3>3. QED
      BY <1>2, <2>2, <3>1, <3>2 DEF TakeFromSendCh, ClientInv, TypeOK
  <2>3. CASE Write(g)
    BY <1>2, <2>3 DEF Write, ClientInv, TypeOK
  <2>4. CASE DropMessage(g) /\ writer[g] = "write"
    BY <1>2, <2>4 DEF DropMessage, ClientInv, TypeOK
  <2>5. QED
    BY <2>1, <2>2, <2>3, <2>4
       DEF TakeWriteError, WriteLoop, WriterStops, WriteFails, WriteCancelled, WriterCancels
<1>4. PICK b \in {"select", "write", "report", "cancel", "done"}, m \in 0..MaxTyped :
        /\ writer' = [writer EXCEPT ![g] = b] /\ writer[g] # "off"
        /\ hand' = [hand EXCEPT ![g] = m] /\ (b = "write" => m # 0)
        /\ reader[g] \in {"report", "cancel"} \/ b \in {"report", "cancel"} \/ g \in cancelled'
             => (uses[g] = conn => ~up')
  <2>1. reader[g] \in {"report", "cancel"} \/ writer[g] \in {"report", "cancel"} \/ g \in cancelled
          => (uses[g] = conn => ~up')
    BY <1>1 DEF ClientInv, LoopInv
  <2>2. hand = [hand EXCEPT ![g] = hand[g]]
    BY DEF ClientInv, TypeOK
  <2>3. CASE TakeWriteError(g)
    BY <1>1, <1>2, <2>1, <2>2, <2>3 DEF TakeWriteError, ClientInv, LoopInv
  <2>4. CASE WriterStops(g)
    BY <1>1, <1>2, <2>1, <2>2, <2>4 DEF WriterStops
  <2>5. CASE TakeFromSendCh(g)
    <3>1. Head(sendCh) \in Typed
      BY <1>2, <2>5, HeadTail DEF TakeFromSendCh
    <3>2. QED
      BY <1>1, <1>2, <2>1, <2>5, <3>1 DEF TakeFromSendCh
  <2>6. CASE Write(g)
    BY <1>1, <1>2, <2>1, <2>6 DEF Write
  <2>7. CASE WriteFails(g)
    BY <1>1, <1>2, <2>1, <2>7 DEF WriteFails, DropMessage
  <2>8. CASE WriteCancelled(g)
    BY <1>1, <1>2, <2>1, <2>8 DEF WriteCancelled, DropMessage
  <2>9. CASE WriterCancels(g)
    BY <1>1, <1>2, <2>1, <2>2, <2>9 DEF WriterCancels
  <2>10. QED
    BY <2>3, <2>4, <2>5, <2>6, <2>7, <2>8, <2>9 DEF WriteLoop
<1>5. LoopInv' /\ g \in 1..gen /\ cancelled' \in SUBSET (1..gen)
  BY <1>1, <1>4, LoopStep
<1>6. TypeOK'
  <2>1. writer' \in [Loops -> {"off", "select", "write", "report", "cancel", "done"}]
    BY <1>4 DEF ClientInv, TypeOK
  <2>2. hand' \in [Loops -> 0..MaxTyped]
    BY <1>4 DEF ClientInv, TypeOK
  <2>3. QED
    BY <1>1, <1>3, <1>5, <2>1, <2>2 DEF ClientInv, TypeOK
<1>7. QED
  BY <1>5, <1>6 DEF ClientInv

(* Every step preserves the invariant of the loops. *)
LEMMA ClientNextInv == ClientInv /\ [Next]_vars => ClientInv'
<1> SUFFICES ASSUME ClientInv, [Next]_vars PROVE ClientInv'
  OBVIOUS
<1>1. ASSUME NEW g \in Loops,
             ReadLoop(g) \/ WriteLoop(g) \/ TakeIncoming(g) \/ TakeReadError(g) \/ TakeWriteError(g)
      PROVE  ClientInv'
  BY <1>1, ReadLoopInv, WriteLoopInv
<1>2. ASSUME RetryLoop \/ Connect \/ ConnectFails \/ ConnLost
      PROVE  ClientInv'
  BY <1>2, ConnectInv, RedialInv, RedialFailsInv, RetryInv DEF RetryLoop
<1>3. ASSUME EventLoop
      PROVE  ClientInv'
  BY <1>1, <1>3, RetryInv, TakeConnectedInv, TypeInv DEF EventLoop
<1>4. CASE UNCHANGED vars
  BY <1>4 DEF ClientInv, TypeOK, LoopInv, vars, uiVars, connVars, loopVars, msgVars
<1>5. QED
  BY <1>1, <1>2, <1>3, <1>4 DEF Next

(* The invariant of the loops holds in every state. *)
LEMMA ClientInvariance == Spec => []ClientInv
BY ClientInitInv, ClientNextInv, PTL DEF Spec

(* Type correctness: in particular sendCh never holds more than SendCap    *)
(* messages, and only loops that were started are given up.                *)
THEOREM TypeCorrect == Spec => []TypeOK
<1>1. ClientInv => TypeOK
  BY DEF ClientInv
<1>2. QED
  BY <1>1, ClientInvariance, PTL

(* However often the client reconnects, all loops but the last have been   *)
(* given up, and no loops are given up while their connection is open      *)
(* (client.go:73-97, 131-206).                                             *)
THEOREM LoopsGivenUpAreClosed == Spec => []GivenUpIsClosed
<1>1. ClientInv => GivenUpIsClosed
  <2>1. ClientInv => cancelled \subseteq Loops
    BY ClientAssumption DEF ClientInv, TypeOK, Loops
  <2>2. QED
    BY <2>1 DEF ClientInv, LoopInv, GivenUpIsClosed
<1>2. QED
  BY <1>1, ClientInvariance, PTL

----------------------------------------------------------------------------
(* The order of messages: those on the wire were typed before those in     *)
(* sendCh, and in between are those that the write loops have taken.  A    *)
(* loop that is given up may have taken one that is older than what the    *)
(* next loop has written: it will be dropped.                              *)
Last == IF ui = "sending" THEN typed - 1 ELSE typed

Writing(g) == writer[g] = "write"

OrderInv ==
  /\ \A i, j \in 1..Len(wire) : i < j => wire[i] < wire[j]
  /\ \A i, j \in 1..Len(sendCh) : i < j => sendCh[i] < sendCh[j]
  /\ \A i \in 1..Len(wire), j \in 1..Len(sendCh) : wire[i] < sendCh[j]
  /\ \A g \in Loops, j \in 1..Len(sendCh) : Writing(g) => hand[g] < sendCh[j]
  /\ \A g \in Loops, i \in 1..Len(wire) :
       Writing(g) => hand[g] # wire[i] /\ (g \notin cancelled => wire[i] < hand[g])
  /\ \A g, h \in Loops : Writing(g) /\ Writing(h) /\ hand[g] = hand[h] => g = h

LostInv ==
  /\ \A g \in Loops : Writing(g) => hand[g] \notin lost /\ hand[g] <= Last
  /\ \A j \in 1..Len(sendCh) : sendCh[j] \notin lost /\ sendCh[j] <= Last
  /\ \A i \in 1..Len(wire) : wire[i] <= Last
  /\ \A x \in lost : x <= Last

MsgInv == ClientInv /\ OrderInv /\ LostInv

(* Initially nothing was typed. *)
LEMMA MsgInitInv == Init => OrderInv /\ LostInv
BY DEF Init, OrderInv, LostInv, Writing

(* What the sequences hold, as numbers. *)
LEMMA MsgTypes ==
  ASSUME ClientInv
  PROVE  /\ sendCh \in Seq(Nat) /\ wire \in Seq(Nat)
         /\ \A j \in 1..Len(sendCh) : sendCh[j] \in Nat
         /\ \A i \in 1..Len(wire) : wire[i] \in Nat
         /\ \A g \in Loops : hand[g] \in Nat
         /\ lost \subseteq Nat /\ typed \in Nat /\ Last \in Int /\ Last <= typed
         /\ Len(sendCh) \in Nat /\ Len(wire) \in Nat
<1>1. Typed \subseteq Nat /\ 0..MaxTyped \subseteq Nat
  BY ClientAssumption DEF Typed
<1>2. sendCh \in Seq(Typed) /\ wire \in Seq(Typed) /\ typed \in Nat
  BY <1>1 DEF ClientInv, TypeOK
<1>3. \A g \in Loops : hand[g] \in Nat
  BY <1>1 DEF ClientInv, TypeOK
<1>4. lost \subseteq Nat
  BY <1>1 DEF ClientInv, TypeOK
<1>5. sendCh \in Seq(Nat) /\ wire \in Seq(Nat)
  BY <1>1, <1>2, SeqMonotonic
<1>6. Last \in Int /\ Last <= typed
  BY <1>2 DEF Last
<1>7. QED
  BY <1>2, <1>3, <1>4, <1>5, <1>6

(* Steps that move no message, by whichever loops they start or end.       *)
LEMMA MsgStutter ==
  ASSUME MsgInv, UNCHANGED <<ui, typed, sendCh, wire, lost, hand>>,
         cancelled \subseteq cancelled',
         \A g \in Loops : writer'[g] = "write" => writer[g] = "write"
  PROVE  OrderInv' /\ LostInv'
<1>1. \A g \in Loops : Writing(g)' => Writing(g)
  BY DEF Writing
<1>2. Last' = Last
  BY DEF Last
<1>3. OrderInv'
  BY <1>1 DEF MsgInv, OrderInv
<1>4. LostInv'
  BY <1>1, <1>2 DEF MsgInv, LostInv
<1>5. QED
  BY <1>3, <1>4

(* A message enters sendCh that is greater than all others. *)
LEMMA AppendMsg ==
  ASSUME MsgInv, NEW n \in Nat, Last < n, Last' = n, sendCh' = Append(sendCh, n),
         UNCHANGED <<wire, lost, hand, writer, cancelled>>
  PROVE  OrderInv' /\ LostInv'
<1>1. /\ Len(sendCh') = Len(sendCh) + 1 /\ Len(sendCh) \in Nat
      /\ \A j \in 1..Len(sendCh) : sendCh'[j] = sendCh[j]
      /\ sendCh'[Len(sendCh) + 1] = n
  BY MsgTypes DEF MsgInv
<1>2. \A j \in 1..Len(sendCh') : j \in 1..Len(sendCh) \/ j = Len(sendCh) + 1
  BY <1>1
<1>3. /\ \A g \in Loops : Writing(g)' <=> Writing(g)
      /\ Last \in Int
  BY MsgTypes DEF Writing, MsgInv
<1>4. /\ \A j \in 1..Len(sendCh) : sendCh[j] < n
      /\ \A i \in 1..Len(wire) : wire[i] < n
      /\ \A g \in Loops : Writing(g) => hand[g] < n
      /\ \A x \in lost : x < n
  BY <1>3, MsgTypes DEF MsgInv, LostInv
<1>5. OrderInv'
  <2>1. \A i, j \in 1..Len(sendCh') : i < j => sendCh'[i] < sendCh'[j]
    BY <1>1, <1>2, <1>4 DEF MsgInv, OrderInv
  <2>2. \A i \in 1..Len(wire), j \in 1..Len(sendCh') : wire[i] < sendCh'[j]
    BY <1>1, <1>2, <1>4 DEF MsgInv, OrderInv
  <2>3. \A g \in Loops, j \in 1..Len(sendCh') : Writing(g) => hand[g] < sendCh'[j]
    BY <1>1, <1>2, <1>4 DEF MsgInv, OrderInv
  <2>4. QED
    BY <1>3, <2>1, <2>2, <2>3 DEF MsgInv, OrderInv
<1>6. LostInv'
  <2>1. \A j \in 1..Len(sendCh') : sendCh'[j] \notin lost /\ sendCh'[j] <= n
    BY <1>1, <1>2, <1>4, MsgTypes DEF MsgInv, LostInv
  <2>2. /\ \A g \in Loops : Writing(g) => hand[g] \notin lost /\ hand[g] <= n
        /\ \A i \in 1..Len(wire) : wire[i] <= n
        /\ \A x \in lost : x <= n
    BY <1>4, MsgTypes DEF MsgInv, LostInv
  <2>3. QED
    BY <1>3, <2>1, <2>2 DEF LostInv
<1>7. QED
  BY <1>5, <1>6

(* A message typed is later than all others. *)
LEMMA TypeMsgInv ==
  ASSUME MsgInv, Type \/ SendUnblocks
  PROVE  OrderInv' /\ LostInv'
<1>1. UNCHANGED <<wire, lost, hand, writer, cancelled>> /\ typed \in Nat
  BY MsgTypes DEF Type, SendUnblocks, loopVars, MsgInv
<1>2. CASE Type /\ Len(sendCh) < SendCap
  <2>1. Last = typed /\ Last' = typed + 1 /\ sendCh' = Append(sendCh, typed + 1)
    BY <1>2 DEF Type, Last
  <2>2. QED
    BY <1>1, <2>1, AppendMsg
<1>3. CASE Type /\ ~(Len(sendCh) < SendCap)
  <2>1. Last' = Last /\ sendCh' = sendCh
    BY <1>1, <1>3 DEF Type, Last
  <2>2. \A g \in Loops : Writing(g)' <=> Writing(g)
    BY <1>1 DEF Writing
  <2>3. QED
    BY <1>1, <2>1, <2>2 DEF MsgInv, OrderInv, LostInv
<1>4. CASE SendUnblocks
  <2>1. Last = typed - 1 /\ Last' = typed /\ sendCh' = Append(sendCh, typed)
    BY <1>4 DEF SendUnblocks, Last
  <2>2. QED
    BY <1>1, <2>1, AppendMsg
<1>5. QED
  BY <1>2, <1>3, <1>4

(* A write loop takes the oldest message of sendCh. *)
LEMMA TakeFromSendChMsgInv ==
  ASSUME MsgInv, NEW g \in Loops, TakeFromSendCh(g)
  PROVE  OrderInv' /\ LostInv'
<1> DEFINE n == Len(sendCh)
<1>1. /\ writer[g] = "select" /\ sendCh # <<>> /\ sendCh' = Tail(sendCh)
      /\ hand' = [hand EXCEPT ![g] = Head(sendCh)]
      /\ writer' = [writer EXCEPT ![g] = "write"]
      /\ UNCHANGED <<ui, typed, cancelled, wire, lost>>
  BY DEF TakeFromSendCh, uiVars
<1>2. /\ n \in Nat /\ n # 0 /\ Head(sendCh) = sendCh[1] /\ Len(sendCh') = n - 1
      /\ \A j \in 1..(n - 1) : sendCh'[j] = sendCh[j + 1]
  BY <1>1, MsgTypes DEF MsgInv
<1>3. /\ hand'[g] = sendCh[1] /\ ~Writing(g) /\ Last' = Last
      /\ \A h \in Loops : h # g => hand'[h] = hand[h] /\ (Writing(h)' <=> Writing(h))
  BY <1>1, <1>2 DEF MsgInv, ClientInv, TypeOK, Writing, Last
<1>4. \A j \in 1..(n - 1) : j \in 1..n /\ j + 1 \in 1..n /\ 1 < j + 1 /\ 1 \in 1..n
  BY <1>2
<1>5. \A i, j \in 1..(n - 1) : i < j => sendCh'[i] < sendCh'[j]
  BY <1>2, <1>4 DEF MsgInv, OrderInv
<1>6. \A i \in 1..Len(wire), j \in 1..(n - 1) : wire[i] < sendCh'[j]
  BY <1>2, <1>4 DEF MsgInv, OrderInv
<1>7. ASSUME NEW h \in Loops, Writing(h)'
      PROVE  /\ \A j \in 1..(n - 1) : hand'[h] < sendCh'[j]
             /\ \A i \in 1..Len(wire) :
                  hand'[h] # wire[i] /\ (h \notin cancelled => wire[i] < hand'[h])
             /\ hand'[h] \notin lost /\ hand'[h] <= Last
  <2>1. CASE h = g
    <3>1. 1 \in 1..n /\ \A i \in 1..Len(wire) : wire[i] \in Nat /\ wire[i] < sendCh[1]
      BY <1>2, MsgTypes DEF MsgInv, OrderInv
    <3>2. \A j \in 1..(n - 1) : sendCh[1] < sendCh'[j]
      BY <1>2, <1>4 DEF MsgInv, OrderInv
    <3>3. sendCh[1] \notin lost /\ sendCh[1] <= Last
      BY <3>1 DEF MsgInv, LostInv
    <3>4. QED
      BY <1>3, <2>1, <3>1, <3>2, <3>3
  <2>2. CASE h # g
    BY <1>2, <1>3, <1>4, <1>7, <2>2 DEF MsgInv, OrderInv, LostInv
  <2>3. QED
    BY <2>1, <2>2
<1>8. ASSUME NEW h \in Loops, Writing(h)', hand'[h] = hand'[g] PROVE h = g
  <2>1. SUFFICES ASSUME h # g PROVE FALSE
    OBVIOUS
  <2>2. 1 \in 1..n /\ Writing(h) /\ hand[h] = sendCh[1] /\ hand[h] \in Nat
    BY <1>2, <1>3, <1>8, <2>1, MsgTypes DEF MsgInv
  <2>3. hand[h] < sendCh[1]
    BY <2>2 DEF MsgInv, OrderInv
  <2>4. QED
    BY <2>2, <2>3
<1>9. \A h, k \in Loops : Writing(h)' /\ Writing(k)' /\ hand'[h] = hand'[k] => h = k
  BY <1>3, <1>8 DEF MsgInv, OrderInv
<1>10. OrderInv'
  BY <1>1, <1>2, <1>5, <1>6, <1>7, <1>9 DEF MsgInv, OrderInv
<1>11. LostInv'
  <2>1. \A j \in 1..(n - 1) : sendCh'[j] \notin lost /\ sendCh'[j] <= Last
    BY <1>2, <1>4 DEF MsgInv, LostInv
  <2>2. QED
    BY <1>1, <1>2, <1>3, <1>7, <2>1 DEF MsgInv, LostInv
<1>12. QED
  BY <1>10, <1>11

(* Only the last loops write, and their message is later than the wire.    *)
LEMMA WriteMsgInv ==
  ASSUME MsgInv, NEW g \in Loops, Write(g)
  PROVE  OrderInv' /\ LostInv'
<1> DEFINE n == Len(wire)
<1>1. /\ Writing(g) /\ g \notin cancelled /\ wire' = Append(wire, hand[g])
      /\ hand' = [hand EXCEPT ![g] = 0]
      /\ writer' = [writer EXCEPT ![g] = "select"]
      /\ UNCHANGED <<ui, typed, cancelled, sendCh, lost>>
  BY DEF Write, uiVars, Writing
<1>2. /\ n \in Nat /\ Len(wire') = n + 1 /\ wire'[n + 1] = hand[g] /\ hand[g] \in Nat
      /\ \A i \in 1..n : wire'[i] = wire[i] /\ wire[i] \in Nat
      /\ \A i \in 1..(n + 1) : i \in 1..n \/ i = n + 1
  BY <1>1, MsgTypes DEF MsgInv
<1>3. /\ Last' = Last /\ ~Writing(g)'
      /\ \A h \in Loops : h # g => hand'[h] = hand[h] /\ (Writing(h)' <=> Writing(h))
  BY <1>1 DEF MsgInv, ClientInv, TypeOK, Writing, Last
<1>4. \A h \in Loops : Writing(h) /\ h \notin cancelled => h = gen
  BY ClientAssumption DEF MsgInv, ClientInv, TypeOK, LoopInv, Loops, Writing
<1>5. \A i \in 1..n : wire[i] < hand[g]
  BY <1>1 DEF MsgInv, OrderInv
<1>6. \A i, j \in 1..(n + 1) : i < j => wire'[i] < wire'[j]
  BY <1>2, <1>5 DEF MsgInv, OrderInv
<1>7. \A i \in 1..(n + 1), j \in 1..Len(sendCh) : wire'[i] < sendCh[j]
  BY <1>1, <1>2 DEF MsgInv, OrderInv
<1>8. ASSUME NEW h \in Loops, Writing(h)'
      PROVE  /\ h # g /\ Writing(h) /\ hand'[h] = hand[h]
             /\ \A i \in 1..(n + 1) :
                  hand[h] # wire'[i] /\ (h \notin cancelled => wire'[i] < hand[h])
  <2>1. h # g /\ Writing(h) /\ hand'[h] = hand[h]
    BY <1>3, <1>8
  <2>2. hand[h] # hand[g] /\ h \in cancelled
    BY <1>1, <1>4, <2>1 DEF MsgInv, OrderInv
  <2>3. QED
    BY <1>2, <2>1, <2>2 DEF MsgInv, OrderInv
<1>9. OrderInv'
  BY <1>1, <1>2, <1>6, <1>7, <1>8 DEF MsgInv, OrderInv
<1>10. LostInv'
  <2>1. \A i \in 1..(n + 1) : wire'[i] <= Last
    BY <1>1, <1>2 DEF MsgInv, LostInv
  <2>2. QED
    BY <1>1, <1>2, <1>3, <1>8, <2>1 DEF MsgInv, LostInv
<1>11. QED
  BY <1>9, <1>10

(* A write loop drops the message that it holds. *)
LEMMA DropMsgInv ==
  ASSUME MsgInv, NEW g \in Loops, WriteFails(g) \/ WriteCancelled(g)
  PROVE  OrderInv' /\ LostInv'
<1>1. /\ Writing(g) /\ lost' = lost \cup {hand[g]}
      /\ hand' = [hand EXCEPT ![g] = 0]
      /\ UNCHANGED <<ui, typed, cancelled, sendCh, wire>>
  BY DEF WriteFails, WriteCancelled, DropMessage, uiVars, Writing
<1>2. /\ Last' = Last /\ ~Writing(g)'
      /\ \A h \in Loops : h # g => hand'[h] = hand[h] /\ (Writing(h)' <=> Writing(h))
  BY <1>1 DEF WriteFails, WriteCancelled, MsgInv, ClientInv, TypeOK, Writing, Last
<1>3. \A h \in Loops : Writing(h)' => h # g /\ Writing(h) /\ hand'[h] = hand[h]
  BY <1>2
<1>4. OrderInv'
  BY <1>1, <1>3 DEF MsgInv, OrderInv
<1>5. LostInv'
  <2>1. \A h \in Loops : Writing(h)' => hand'[h] # hand[g]
    BY <1>1, <1>3 DEF MsgInv, OrderInv
  <2>2. \A j \in 1..Len(sendCh) : sendCh[j] # hand[g]
    BY <1>1, MsgTypes DEF MsgInv, OrderInv
  <2>3. hand[g] <= Last
    BY <1>1 DEF MsgInv, LostInv
  <2>4. QED
    BY <1>1, <1>2, <1>3, <2>1, <2>2, <2>3 DEF MsgInv, LostInv
<1>6. QED
  BY <1>4, <1>5

(* The write loops that have come to their end. *)
Ended == {g \in 1..gen : writer[g] \in {"report", "cancel", "done"}}

(* The steps that move no message. *)
Unmoved ==
  /\ UNCHANGED <<ui, typed, sendCh, wire, lost, hand>>
  /\ cancelled \subseteq cancelled'
  /\ \A g \in Loops : writer'[g] = "write" <=> writer[g] = "write"
  /\ Ended \subseteq Ended'

Moves ==
  \/ Type \/ SendUnblocks
  \/ \E g \in Loops : TakeFromSendCh(g) \/ Write(g) \/ WriteFails(g) \/ WriteCancelled(g)

(* Starting loops moves no message. *)
LEMMA StartLoopsUnmoved ==
  ASSUME MsgInv, NEW c, StartLoops(c), UNCHANGED <<ui, typed, sendCh, wire, lost>>
  PROVE  Unmoved
<1>1. /\ gen' = gen + 1 /\ writer' = [writer EXCEPT ![gen + 1] = "select"] /\ DOMAIN writer = Loops
      /\ UNCHANGED <<cancelled, hand>>
  BY DEF StartLoops, MsgInv, ClientInv, TypeOK
<1>2. gen \in Nat /\ \A g \in 1..gen : g \in Loops /\ g # gen + 1 /\ g \in 1..(gen + 1)
  BY ClientAssumption DEF MsgInv, ClientInv, TypeOK, Loops
<1>3. ASSUME NEW g \in Loops PROVE writer'[g] = "write" <=> writer[g] = "write"
  <2>1. CASE g = gen + 1
    <3>1. writer[g] = "off"
      BY <1>2, <2>1, ClientAssumption DEF MsgInv, ClientInv, LoopInv, Loops
    <3>2. QED
      BY <1>1, <2>1, <3>1
  <2>2. QED
    BY <1>1, <2>1
<1>4. Ended \subseteq Ended'
  BY <1>1, <1>2 DEF Ended
<1>5. QED
  BY <1>1, <1>3, <1>4 DEF Unmoved

(* All other actions move no message. *)
LEMMA MovesOrUnmoved ==
  ASSUME MsgInv, [Next]_vars, ~Moves
  PROVE  Unmoved
<1> USE DEF uiVars, connVars, loopVars, msgVars
<1>1. ASSUME Connect \/ RedialFails \/ TakeConnected PROVE Unmoved
  <2>1. PICK c : StartLoops(c) /\ UNCHANGED <<ui, typed, sendCh, wire, lost>>
    BY <1>1 DEF Connect, RedialFails, TakeConnected
  <2>2. QED
    BY <2>1, StartLoopsUnmoved
<1>2. ASSUME \/ ConnectFails \/ LoopsEnded \/ Redial \/ ConnLost
             \/ TakeFirst \/ TakeFirstError \/ TakeReconnecting \/ TakeHistoryError
      PROVE  Unmoved
  BY <1>2 DEF ConnectFails, LoopsEnded, Redial, ConnLost, TakeFirst, TakeFirstError,
              TakeReconnecting, TakeHistoryError, Unmoved, Ended
<1>3. ASSUME NEW g \in Loops, TakeIncoming(g) \/ TakeReadError(g) \/ ReadLoop(g) PROVE Unmoved
  BY <1>3 DEF TakeIncoming, TakeReadError, ReadLoop, ReadIncoming, ReadFails, ReadCancelled,
              ReaderCancels, Unmoved, Ended
<1>4. ASSUME NEW g \in Loops, TakeWriteError(g) \/ WriterStops(g) \/ WriterCancels(g)
      PROVE  Unmoved
  <2>1. PICK b \in {"cancel", "done"} :
          writer' = [writer EXCEPT ![g] = b] /\ writer[g] # "write" /\ gen' = gen
    BY <1>4 DEF TakeWriteError, WriterStops, WriterCancels
  <2>2. \A h \in Loops : writer'[h] = "write" <=> writer[h] = "write"
    BY <2>1 DEF MsgInv, ClientInv, TypeOK
  <2>3. Ended \subseteq Ended'
    BY <2>1, ClientAssumption DEF Ended, MsgInv, ClientInv, TypeOK, Loops
  <2>4. QED
    BY <1>4, <2>2, <2>3 DEF TakeWriteError, WriterStops, WriterCancels, Unmoved
<1>5. CASE UNCHANGED vars
  BY <1>5 DEF vars, Unmoved, Ended
<1>6. ASSUME NEW g \in Loops, WriteLoop(g) PROVE Unmoved
  BY <1>4, <1>6 DEF WriteLoop, Moves
<1>7. QED
  BY <1>1, <1>2, <1>3, <1>4, <1>5, <1>6 DEF Next, EventLoop, RetryLoop, Moves

(* Every step preserves the invariant of the messages. *)
LEMMA MsgNextInv == MsgInv /\ [Next]_vars => MsgInv'
<1> SUFFICES ASSUME MsgInv, [Next]_vars PROVE MsgInv'
  OBVIOUS
<1>1. ClientInv'
  BY ClientNextInv DEF MsgInv
<1>2. CASE Moves
  BY <1>1, <1>2, TypeMsgInv, TakeFromSendChMsgInv, WriteMsgInv, DropMsgInv DEF Moves, MsgInv
<1>3. CASE ~Moves
  <2>1. Unmoved
    BY <1>3, MovesOrUnmoved
  <2>2. QED
    BY <1>1, <2>1, MsgStutter DEF Unmoved, MsgInv
<1>4. QED
  BY <1>2, <1>3

(* The invariant of the messages holds in every state. *)
LEMMA MsgInvariance == Spec => []MsgInv
<1>1. Init => MsgInv
  BY ClientInitInv, MsgInitInv DEF MsgInv
<1>2. QED
  BY <1>1, MsgNextInv, PTL DEF Spec

(* The wire carries the messages in the order typed and none twice,        *)
(* however many loops that were given up still run beside the last ones    *)
(* (client.go:77-97, 185-204).                                             *)
THEOREM SentStaysInOrder == Spec => []SentInOrder
<1>1. MsgInv => SentInOrder
  BY DEF MsgInv, OrderInv, SentInOrder
<1>2. QED
  BY <1>1, MsgInvariance, PTL

----------------------------------------------------------------------------
(* Every step is one of Outbox, or changes nothing there.                  *)
LEMMA WriteSends ==
  ASSUME MsgInv, NEW g \in Loops, Write(g)
  PROVE  Abstract!Next
<1>1. /\ Writing(g) /\ g \notin cancelled /\ wire' = Append(wire, hand[g])
      /\ UNCHANGED <<typed, lost>>
  BY DEF Write, uiVars, Writing
<1>2. DOMAIN wire = 1..Len(wire)
  BY MsgTypes DEF MsgInv
<1>3. \A j \in Abstract!Range(wire) : j < hand[g] /\ j # hand[g]
  BY <1>1, <1>2, MsgTypes DEF Abstract!Range, MsgInv, OrderInv
<1>4. hand[g] \in 1..typed
  BY <1>1, MsgTypes DEF MsgInv, LostInv, ClientInv, LoopInv, Writing
<1>5. hand[g] \in Abstract!Unsent
  BY <1>1, <1>3, <1>4 DEF Abstract!Unsent, MsgInv, LostInv
<1>6. Abstract!Send(hand[g])
  BY <1>1, <1>3 DEF Abstract!Send
<1>7. QED
  BY <1>5, <1>6 DEF Abstract!Next

(* A message that is dropped was not sent, and never will be. *)
LEMMA DropDrops ==
  ASSUME MsgInv, NEW g \in Loops, WriteFails(g) \/ WriteCancelled(g)
  PROVE  Abstract!Next
<1>1. /\ Writing(g) /\ lost' = lost \cup {hand[g]} /\ UNCHANGED <<typed, wire>>
  BY DEF WriteFails, WriteCancelled, DropMessage, uiVars, Writing
<1>2. DOMAIN wire = 1..Len(wire)
  BY MsgTypes DEF MsgInv
<1>3. hand[g] \notin Abstract!Range(wire)
  BY <1>1, <1>2 DEF Abstract!Range, MsgInv, OrderInv
<1>4. hand[g] \in 1..typed
  BY <1>1, MsgTypes DEF MsgInv, LostInv, ClientInv, LoopInv, Writing
<1>5. hand[g] \in Abstract!Unsent
  BY <1>1, <1>3, <1>4 DEF Abstract!Unsent, MsgInv, LostInv
<1>6. Abstract!Drop(hand[g])
  BY <1>1 DEF Abstract!Drop
<1>7. QED
  BY <1>5, <1>6 DEF Abstract!Next

(* Every step is one of Outbox, or changes nothing there. *)
LEMMA StepImplements ==
  ASSUME MsgInv, [Next]_vars
  PROVE  [Abstract!Next]_<<typed, wire, lost>>
<1>1. CASE Type
  BY <1>1 DEF Type, Abstract!Type, Abstract!Next
<1>2. CASE SendUnblocks
  BY <1>2 DEF SendUnblocks
<1>3. ASSUME NEW g \in Loops, TakeFromSendCh(g) PROVE UNCHANGED <<typed, wire, lost>>
  BY <1>3 DEF TakeFromSendCh, uiVars
<1>4. CASE ~Moves
  BY <1>4, MovesOrUnmoved DEF Unmoved
<1>5. QED
  BY <1>1, <1>2, <1>3, <1>4, WriteSends, DropDrops DEF Moves

(* To its user the client is an outbox that sends each message once at     *)
(* most, in order, or drops it for good: the refinement that the run       *)
(* checks, for any number of reconnections.                                *)
THEOREM Refinement == Spec => ImplementsOutbox
<1>1. Init => Abstract!Init
  BY DEF Init, Abstract!Init
<1>2. MsgInv /\ [Next]_vars => [Abstract!Next]_<<typed, wire, lost>>
  BY StepImplements
<1>3. QED
  BY <1>1, <1>2, MsgInvariance, PTL DEF Spec, ImplementsOutbox, Abstract!Spec

----------------------------------------------------------------------------
(* What appending to a sequence, and taking its first, does to its range.  *)
LEMMA RangeAppend ==
  ASSUME NEW S, NEW s \in Seq(S), NEW x \in S
  PROVE  Range(Append(s, x)) = Range(s) \cup {x} /\ Len(Append(s, x)) = Len(s) + 1
<1>1. /\ Append(s, x) \in Seq(S) /\ Len(Append(s, x)) = Len(s) + 1 /\ Len(s) \in Nat
      /\ \A i \in 1..Len(s) : Append(s, x)[i] = s[i]
      /\ Append(s, x)[Len(s) + 1] = x
  OBVIOUS
<1>2. DOMAIN s = 1..Len(s) /\ DOMAIN Append(s, x) = 1..(Len(s) + 1)
  BY <1>1
<1>3. 1..(Len(s) + 1) = (1..Len(s)) \cup {Len(s) + 1}
  BY <1>1
<1>4. QED
  BY <1>1, <1>2, <1>3 DEF Range

LEMMA RangeHeadTail ==
  ASSUME NEW S, NEW s \in Seq(S), s # <<>>
  PROVE  /\ Range(s) = {Head(s)} \cup Range(Tail(s)) /\ Len(s) = Len(Tail(s)) + 1
<1> DEFINE t == Tail(s)
<1>1. /\ t \in Seq(S) /\ Len(s) \in Nat \ {0} /\ Len(t) = Len(s) - 1 /\ Head(s) = s[1]
      /\ \A i \in 1..Len(t) : t[i] = s[i + 1]
  OBVIOUS
<1>2. DOMAIN s = 1..Len(s) /\ DOMAIN t = 1..Len(t)
  BY <1>1
<1>3. ASSUME NEW i \in 1..Len(s) PROVE s[i] = Head(s) \/ \E j \in 1..Len(t) : t[j] = s[i]
  <2>1. CASE i = 1
    BY <1>1, <2>1
  <2>2. CASE i # 1
    <3>1. i - 1 \in 1..Len(t) /\ (i - 1) + 1 = i
      BY <1>1, <2>2
    <3>2. t[i - 1] = s[i]
      BY <1>1, <3>1
    <3>3. QED
      BY <3>1, <3>2
  <2>3. QED
    BY <2>1, <2>2
<1>4. ASSUME NEW j \in 1..Len(t) PROVE \E i \in 1..Len(s) : s[i] = t[j]
  <2>1. j + 1 \in 1..Len(s)
    BY <1>1
  <2>2. QED
    BY <1>1, <2>1
<1>5. Head(s) = s[1] /\ 1 \in 1..Len(s)
  BY <1>1
<1> HIDE DEF t
<1>6. Range(s) \subseteq {Head(s)} \cup Range(t)
  BY <1>2, <1>3 DEF Range
<1>7. {Head(s)} \cup Range(t) \subseteq Range(s)
  BY <1>2, <1>4, <1>5 DEF Range
<1>8. QED
  BY <1>1, <1>6, <1>7 DEF t

(* The sets that are counted are finite, and nothing waits while the event *)
(* loop does not.                                                          *)
LEMMA Counts ==
  ASSUME ClientInv
  PROVE  /\ IsFiniteSet(Held) /\ IsFiniteSet(lost) /\ IsFiniteSet(Ended)
         /\ Cardinality(Held) \in Nat /\ Cardinality(lost) \in Nat /\ Cardinality(Ended) \in Nat
         /\ Cardinality({}) = 0 /\ \A x : Cardinality({x}) = 1
         /\ Cardinality(Waiting) \in Nat
<1>1. IsFiniteSet(0..MaxTyped) /\ IsFiniteSet(1..gen)
  BY FS_Interval, ClientAssumption DEF ClientInv, TypeOK
<1>2. Held \in SUBSET (0..MaxTyped) /\ lost \in SUBSET (0..MaxTyped) /\ Ended \in SUBSET (1..gen)
  BY ClientAssumption DEF Held, Ended, ClientInv, TypeOK, Typed
<1>3. IsFiniteSet(Held) /\ IsFiniteSet(lost) /\ IsFiniteSet(Ended)
  BY <1>1, <1>2, FS_Subset
<1>4. /\ Cardinality(Held) \in Nat /\ Cardinality(lost) \in Nat /\ Cardinality(Ended) \in Nat
  BY <1>3, FS_CardinalityType
<1>5. Cardinality({}) = 0 /\ \A x : Cardinality({x}) = 1
  BY FS_EmptySet, FS_Singleton
<1>6. Cardinality(Waiting) \in Nat
  <2>1. Waiting = {} \/ Waiting = {typed}
    BY DEF Waiting
  <2>2. Cardinality(Waiting) = 0 \/ Cardinality(Waiting) = 1
    BY <1>5, <2>1, Zenon
  <2>3. QED
    BY <2>2
<1>7. QED
  BY <1>3, <1>4, <1>5, <1>6

(* Nothing was typed, and all places are empty. *)
LEMMA AccountedInit == Init => MessagesAccounted
<1> SUFFICES ASSUME Init PROVE MessagesAccounted
  OBVIOUS
<1>1. ClientInv /\ Waiting = {} /\ Held = {} /\ Range(sendCh) = {} /\ Range(wire) = {}
  BY ClientInitInv DEF Init, Waiting, Held, Range
<1>2. Cardinality({}) = 0 /\ Cardinality(Ended) \in Nat
  BY <1>1, Counts
<1>3. 1..typed = {}
  BY DEF Init
<1>4. QED
  BY <1>1, <1>2, <1>3 DEF Init, MessagesAccounted, Ended

(* What waits for Send depends on the event loop only. *)
LEMMA WaitingStays ==
  ASSUME MsgInv, UNCHANGED <<ui, typed>>
  PROVE  Waiting' = Waiting /\ Cardinality(Waiting) \in Nat
<1>1. Cardinality(Waiting) \in Nat
  BY Counts DEF MsgInv
<1>2. Waiting' = Waiting
  BY DEF Waiting
<1>3. QED
  BY <1>1, <1>2

(* Where nothing moves, the accounts stay, and no write loop comes back    *)
(* from its end.                                                           *)
LEMMA UnmovedAccounted ==
  ASSUME MsgInv, ClientInv', MessagesAccounted, Unmoved
  PROVE  MessagesAccounted'
<1>1. Waiting' = Waiting /\ Held' = Held
  BY DEF Unmoved, Waiting, Held
<1>2. Cardinality(Ended') \in Nat /\ Cardinality(Ended) <= Cardinality(Ended')
  <2>1. IsFiniteSet(1..gen') /\ Ended' \in SUBSET (1..gen')
    BY FS_Interval, ClientAssumption DEF Ended, ClientInv, TypeOK
  <2>2. IsFiniteSet(Ended') /\ Ended \in SUBSET Ended'
    BY <2>1, FS_Subset DEF Unmoved
  <2>3. Cardinality(Ended') \in Nat /\ Cardinality(Ended) <= Cardinality(Ended')
    BY <2>2, FS_Subset, FS_CardinalityType
  <2>4. QED
    BY <2>3
<1>3. /\ Cardinality(lost) \in Nat /\ Cardinality(Ended) \in Nat
      /\ Cardinality(lost) <= Cardinality(Ended)
  BY Counts DEF MessagesAccounted, Ended, MsgInv
<1>4. Cardinality(lost') <= Cardinality(Ended')
  <2>1. lost' = lost
    BY DEF Unmoved
  <2>2. Cardinality(lost) <= Cardinality(Ended')
    BY <1>2, <1>3
  <2>3. QED
    BY <2>1, <2>2
<1>5. QED
  BY <1>1, <1>4 DEF MessagesAccounted, Unmoved, Ended

(* A key press adds one message, in one place; Send moves it on later. *)
LEMMA TypeAccounted ==
  ASSUME MsgInv, MessagesAccounted, Type \/ SendUnblocks
  PROVE  MessagesAccounted'
<1>1. /\ UNCHANGED <<wire, lost, hand, writer, gen>> /\ Held' = Held /\ Ended' = Ended
  BY DEF Type, SendUnblocks, loopVars, Held, Ended
<1>2. /\ typed \in Nat /\ sendCh \in Seq(Nat) /\ Len(sendCh) \in Nat /\ Len(wire) \in Nat
      /\ 1..(typed + 1) = (1..typed) \cup {typed + 1}
  BY MsgTypes DEF MsgInv
<1>3. /\ Cardinality(Held) \in Nat /\ Cardinality(lost) \in Nat
      /\ Cardinality({}) = 0 /\ \A x : Cardinality({x}) = 1
  BY Counts DEF MsgInv
<1>4. Cardinality(lost') <= Cardinality(Ended')
  BY <1>1 DEF MessagesAccounted, Ended
<1> DEFINE elsewhere == Cardinality(Held) + Len(wire) + Cardinality(lost)
<1>5. /\ typed = Cardinality(Waiting) + Len(sendCh) + elsewhere /\ elsewhere \in Nat
      /\ Cardinality(Waiting) \in Nat /\ Len(wire') = Len(wire)
      /\ Cardinality(Held') = Cardinality(Held) /\ Cardinality(lost') = Cardinality(lost)
  BY <1>1, <1>2, <1>3, Counts DEF MessagesAccounted, MsgInv
<1>6. ASSUME NEW w \in Nat, NEW n \in Nat, Cardinality(Waiting') = w, Len(sendCh') = n,
              typed' = w + n + elsewhere
       PROVE  typed' = Cardinality(Waiting') + Len(sendCh') + Cardinality(Held') + Len(wire')
                         + Cardinality(lost')
  <2>1. elsewhere = Cardinality(Held') + Len(wire') + Cardinality(lost')
    BY <1>5
  <2>2. /\ Cardinality(Held') \in Nat /\ Len(wire') \in Nat /\ Cardinality(lost') \in Nat
    BY <1>2, <1>3, <1>5
  <2> HIDE DEF elsewhere
  <2>3. QED
    BY <1>6, <2>1, <2>2
<1> HIDE DEF elsewhere
<1>7. /\ typed \in Nat /\ Len(sendCh) \in Nat /\ elsewhere \in Nat
       /\ typed = Cardinality(Waiting) + Len(sendCh) + elsewhere
  BY <1>2, <1>5
<1>8. CASE Type /\ Len(sendCh) < SendCap
  <2>1. /\ Waiting = {} /\ Waiting' = {} /\ typed' = typed + 1
        /\ sendCh' = Append(sendCh, typed + 1) /\ typed + 1 \in Nat
    BY <1>2, <1>8 DEF Type, Waiting
  <2>2. Range(sendCh') = Range(sendCh) \cup {typed + 1} /\ Len(sendCh') = Len(sendCh) + 1
    BY <1>2, <2>1, RangeAppend
  <2>3. 1..typed' = Waiting' \cup Range(sendCh') \cup Held' \cup Range(wire') \cup lost'
    BY <1>1, <1>2, <2>1, <2>2 DEF MessagesAccounted
  <2>4. Cardinality(Waiting) = 0 /\ Cardinality(Waiting') = 0
    BY <1>3, <2>1
  <2>5. typed' = Cardinality(Waiting') + Len(sendCh') + Cardinality(Held') + Len(wire')
                   + Cardinality(lost')
    <3>1. typed' = typed + 1
      BY <2>1
    <3>2. typed' = 0 + (Len(sendCh) + 1) + elsewhere
      BY <1>7, <2>4, <3>1
    <3>3. QED
      BY <1>6, <1>7, <2>2, <2>4, <3>2
  <2>6. QED
    BY <1>4, <2>3, <2>5 DEF MessagesAccounted, Ended
<1>9. CASE Type /\ ~(Len(sendCh) < SendCap)
  <2>1. /\ Waiting = {} /\ Waiting' = {typed + 1} /\ typed' = typed + 1 /\ sendCh' = sendCh
    BY <1>9 DEF Type, Waiting
  <2>2. 1..typed' = Waiting' \cup Range(sendCh') \cup Held' \cup Range(wire') \cup lost'
    BY <1>1, <1>2, <2>1 DEF MessagesAccounted
  <2>3. Cardinality(Waiting) = 0 /\ Cardinality(Waiting') = 1
    BY <1>3, <2>1
  <2>4. typed' = Cardinality(Waiting') + Len(sendCh') + Cardinality(Held') + Len(wire')
                   + Cardinality(lost')
    <3>1. typed' = typed + 1 /\ sendCh' = sendCh
      BY <2>1
    <3>2. typed' = 1 + Len(sendCh) + elsewhere
      BY <1>7, <2>3, <3>1
    <3>3. QED
      BY <1>6, <1>7, <2>3, <3>1, <3>2
  <2>5. QED
    BY <1>4, <2>2, <2>4 DEF MessagesAccounted, Ended
<1>10. CASE SendUnblocks
  <2>1. /\ Waiting = {typed} /\ Waiting' = {} /\ typed' = typed /\ sendCh' = Append(sendCh, typed)
    BY <1>10 DEF SendUnblocks, Waiting
  <2>2. Range(sendCh') = Range(sendCh) \cup {typed} /\ Len(sendCh') = Len(sendCh) + 1
    BY <1>2, <2>1, RangeAppend
  <2>3. 1..typed' = Waiting' \cup Range(sendCh') \cup Held' \cup Range(wire') \cup lost'
    BY <1>1, <2>1, <2>2 DEF MessagesAccounted
  <2>4. Cardinality(Waiting) = 1 /\ Cardinality(Waiting') = 0
    BY <1>3, <2>1
  <2>5. typed' = Cardinality(Waiting') + Len(sendCh') + Cardinality(Held') + Len(wire')
                   + Cardinality(lost')
    <3>1. typed' = typed
      BY <2>1
    <3>2. typed' = 0 + (Len(sendCh) + 1) + elsewhere
      BY <1>7, <2>4, <3>1
    <3>3. QED
      BY <1>6, <1>7, <2>2, <2>4, <3>2
  <2>6. QED
    BY <1>4, <2>3, <2>5 DEF MessagesAccounted, Ended
<1>11. QED
  BY <1>8, <1>9, <1>10

(* A write loop takes the first of sendCh, which no other has. *)
LEMMA TakeAccounted ==
  ASSUME MsgInv, MessagesAccounted, NEW g \in Loops, TakeFromSendCh(g)
  PROVE  MessagesAccounted'
<1> DEFINE x == Head(sendCh)
<1>1. /\ writer[g] = "select" /\ sendCh # <<>> /\ sendCh' = Tail(sendCh)
      /\ hand' = [hand EXCEPT ![g] = x]
      /\ writer' = [writer EXCEPT ![g] = "write"]
      /\ UNCHANGED <<ui, typed, gen, wire, lost>>
  BY DEF TakeFromSendCh, uiVars
<1>2. /\ sendCh \in Seq(Nat) /\ Len(sendCh) \in Nat /\ Len(wire) \in Nat /\ typed \in Nat
      /\ Cardinality(Held) \in Nat /\ Cardinality(lost) \in Nat /\ IsFiniteSet(Held)
  BY MsgTypes, Counts DEF MsgInv
<1>3. /\ Range(sendCh) = {x} \cup Range(sendCh') /\ Len(sendCh) = Len(sendCh') + 1
  BY <1>1, <1>2, RangeHeadTail
<1>4. Held' = Held \cup {x}
  BY <1>1 DEF Held, MsgInv, ClientInv, TypeOK
<1>5. x \notin Held
  <2>1. x = sendCh[1] /\ 1 \in 1..Len(sendCh) /\ x \in Nat
    BY <1>1, <1>2
  <2>2. \A h \in Loops : writer[h] = "write" => hand[h] < x /\ hand[h] \in Nat
    BY <2>1, MsgTypes DEF MsgInv, OrderInv, Writing
  <2>3. QED
    BY <2>1, <2>2 DEF Held
<1>6. Cardinality(Held') = Cardinality(Held) + 1
  BY <1>2, <1>4, <1>5, FS_AddElement
<1>7. Waiting' = Waiting /\ Cardinality(Waiting) \in Nat
  BY <1>1, WaitingStays
<1>8. 1..typed' = Waiting' \cup Range(sendCh') \cup Held' \cup Range(wire') \cup lost'
  BY <1>1, <1>3, <1>4, <1>7 DEF MessagesAccounted
<1>9. Len(sendCh') \in Nat
  BY <1>1, <1>2, HeadTail
<1>10. typed' = Cardinality(Waiting') + Len(sendCh') + Cardinality(Held') + Len(wire')
                  + Cardinality(lost')
  BY <1>1, <1>2, <1>3, <1>6, <1>7, <1>9 DEF MessagesAccounted
<1>11. Ended' = Ended
  BY <1>1, ClientAssumption DEF Ended, MsgInv, ClientInv, TypeOK, Loops
<1>12. QED
  BY <1>1, <1>8, <1>10, <1>11 DEF MessagesAccounted, Ended

(* What a write loop has in hand no other has: without it, one less is     *)
(* held.                                                                   *)
LEMMA Unheld ==
  ASSUME MsgInv, NEW g \in Loops, Writing(g), NEW b, b # "write",
         hand' = [hand EXCEPT ![g] = 0], writer' = [writer EXCEPT ![g] = b]
  PROVE  /\ hand[g] \in Held /\ Held' = Held \ {hand[g]}
         /\ Cardinality(Held) = Cardinality(Held') + 1 /\ Cardinality(Held') \in Nat
<1>1. hand[g] \in Held
  BY DEF Held, Writing
<1>2. \A h \in Loops : writer[h] = "write" /\ h # g => hand[h] # hand[g]
  BY DEF MsgInv, OrderInv, Writing
<1>3. /\ \A h \in Loops : writer'[h] = "write" <=> (writer[h] = "write" /\ h # g)
      /\ \A h \in Loops : h # g => hand'[h] = hand[h]
  BY DEF MsgInv, ClientInv, TypeOK
<1>4. Held' = Held \ {hand[g]}
  BY <1>2, <1>3 DEF Held
<1>5. IsFiniteSet(Held) /\ Cardinality(Held) \in Nat
  BY Counts DEF MsgInv
<1>6. /\ Cardinality(Held') = Cardinality(Held) - 1 /\ IsFiniteSet(Held')
  BY <1>1, <1>4, <1>5, FS_RemoveElement
<1>7. Cardinality(Held') \in Nat
  BY <1>6, FS_CardinalityType
<1>8. QED
  BY <1>1, <1>4, <1>5, <1>6, <1>7

(* A message that was written has moved from a hand to the wire. *)
LEMMA WriteAccounted ==
  ASSUME MsgInv, MessagesAccounted, NEW g \in Loops, Write(g)
  PROVE  MessagesAccounted'
<1>1. /\ Writing(g) /\ wire' = Append(wire, hand[g])
      /\ hand' = [hand EXCEPT ![g] = 0]
      /\ writer' = [writer EXCEPT ![g] = "select"]
      /\ UNCHANGED <<ui, typed, gen, sendCh, lost>>
  BY DEF Write, uiVars, Writing
<1>2. /\ wire \in Seq(Nat) /\ Len(sendCh) \in Nat /\ Len(wire) \in Nat /\ hand[g] \in Nat
      /\ Cardinality(lost) \in Nat
  BY MsgTypes, Counts DEF MsgInv
<1>3. Range(wire') = Range(wire) \cup {hand[g]} /\ Len(wire') = Len(wire) + 1
  BY <1>1, <1>2, RangeAppend
<1>4. /\ hand[g] \in Held /\ Held' = Held \ {hand[g]}
      /\ Cardinality(Held) = Cardinality(Held') + 1 /\ Cardinality(Held') \in Nat
  BY <1>1, Unheld
<1>5. Waiting' = Waiting /\ Cardinality(Waiting) \in Nat
  BY <1>1, WaitingStays
<1>6. 1..typed' = Waiting' \cup Range(sendCh') \cup Held' \cup Range(wire') \cup lost'
  BY <1>1, <1>3, <1>4, <1>5 DEF MessagesAccounted
<1>7. typed' = Cardinality(Waiting') + Len(sendCh') + Cardinality(Held') + Len(wire')
                 + Cardinality(lost')
  BY <1>1, <1>2, <1>3, <1>4, <1>5 DEF MessagesAccounted
<1>8. Ended' = Ended
  BY <1>1, ClientAssumption DEF Ended, Writing, MsgInv, ClientInv, TypeOK, Loops
<1>9. QED
  BY <1>1, <1>6, <1>7, <1>8 DEF MessagesAccounted, Ended

(* A message is dropped with the end of the write loop that had it. *)
LEMMA DropAccounted ==
  ASSUME MsgInv, MessagesAccounted, NEW g \in Loops, WriteFails(g) \/ WriteCancelled(g)
  PROVE  MessagesAccounted'
<1>1. PICK b \in {"report", "done"} :
        /\ Writing(g) /\ lost' = lost \cup {hand[g]}
        /\ hand' = [hand EXCEPT ![g] = 0]
        /\ writer' = [writer EXCEPT ![g] = b]
        /\ UNCHANGED <<ui, typed, gen, sendCh, wire>>
  BY DEF WriteFails, WriteCancelled, DropMessage, uiVars, Writing
<1>2. /\ Len(sendCh) \in Nat /\ Len(wire) \in Nat
      /\ IsFiniteSet(lost) /\ Cardinality(lost) \in Nat
      /\ IsFiniteSet(Ended) /\ Cardinality(Ended) \in Nat
  BY MsgTypes, Counts DEF MsgInv
<1>3. /\ hand[g] \in Held /\ Held' = Held \ {hand[g]}
      /\ Cardinality(Held) = Cardinality(Held') + 1 /\ Cardinality(Held') \in Nat
  BY <1>1, Unheld
<1>4. hand[g] \notin lost
  BY <1>1 DEF MsgInv, LostInv
<1>5. Cardinality(lost') = Cardinality(lost) + 1
  BY <1>1, <1>2, <1>4, FS_AddElement
<1>6. Waiting' = Waiting /\ Cardinality(Waiting) \in Nat
  BY <1>1, WaitingStays
<1>7. 1..typed' = Waiting' \cup Range(sendCh') \cup Held' \cup Range(wire') \cup lost'
  BY <1>1, <1>3, <1>6 DEF MessagesAccounted
<1>8. typed' = Cardinality(Waiting') + Len(sendCh') + Cardinality(Held') + Len(wire')
                 + Cardinality(lost')
  BY <1>1, <1>2, <1>3, <1>5, <1>6 DEF MessagesAccounted
<1>9. Ended' = Ended \cup {g} /\ g \notin Ended
  <2>1. g \in 1..gen /\ 1..gen \subseteq Loops
    BY <1>1, ClientAssumption DEF Writing, MsgInv, ClientInv, TypeOK, LoopInv, Loops
  <2>2. \A h \in Loops : writer'[h] = IF h = g THEN b ELSE writer[h]
    BY <1>1 DEF MsgInv, ClientInv, TypeOK
  <2>3. QED
    BY <1>1, <2>1, <2>2 DEF Ended, Writing
<1>10. Cardinality(Ended') = Cardinality(Ended) + 1
  BY <1>2, <1>9, FS_AddElement
<1>11. Cardinality(lost') <= Cardinality(Ended')
  BY <1>2, <1>5, <1>10 DEF MessagesAccounted, Ended
<1>12. QED
  BY <1>7, <1>8, <1>11 DEF MessagesAccounted, Ended

(* What the user typed is accounted for, however often connections are     *)
(* lost: each message is in one of the places between the keyboard and the *)
(* wire, or dropped, and in one only; and each write loop drops one at     *)
(* most, the one with which it ends (client.go:110-118, 185-206).          *)
THEOREM NothingDisappears == Spec => []MessagesAccounted
<1>1. Init => MsgInv
  BY ClientInitInv, MsgInitInv DEF MsgInv
<1>2. MsgInv /\ MessagesAccounted /\ [Next]_vars => MessagesAccounted'
  <2> SUFFICES ASSUME MsgInv, MessagesAccounted, [Next]_vars PROVE MessagesAccounted'
    OBVIOUS
  <2>1. ClientInv'
    BY ClientNextInv DEF MsgInv
  <2>2. CASE Moves
    BY <2>2, TypeAccounted, TakeAccounted, WriteAccounted, DropAccounted DEF Moves
  <2>3. CASE ~Moves
    BY <2>1, <2>3, MovesOrUnmoved, UnmovedAccounted
  <2>4. QED
    BY <2>2, <2>3
<1>3. QED
  BY <1>1, <1>2, AccountedInit, MsgInvariance, PTL DEF Spec
=============================================================================
