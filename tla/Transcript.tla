----------------------------- MODULE Transcript -----------------------------
(***************************************************************************)
(* What a chat screen shows (ui/chat and ui/dmchat of the terminal         *)
(* program).                                                               *)
(*                                                                         *)
(* Opening a chat starts a request for its history, the last HistoryCap    *)
(* messages, whose answer is appended to what is shown; meanwhile messages *)
(* come over the WebSocket and are appended, too.  An answer does not say  *)
(* which chat asked for it: the event loop gives it to the chat that is    *)
(* open by then, if that is of the same kind (room or conversation).  A    *)
(* chat of a room appends messages of every room of the user, a chat of a  *)
(* conversation those of its peer only.                                    *)
(*                                                                         *)
(* A message is its place in the order in which the server stores          *)
(* messages.  It is routed to the user's session later, and lost if there  *)
(* is none.  Each opened chat has a number, which the code does not have:  *)
(* it tells requests apart and serves the properties only, like the        *)
(* history variables.                                                      *)
(***************************************************************************)
EXTENDS Integers, Sequences, FiniteSets, SequencesExt

CONSTANTS
  Rooms,       \* rooms that the user joined
  Convs,       \* conversations, one for each peer
  None,        \* no thread
  HistoryCap,  \* the most messages in an answer (50 in the code)
  MaxMessages, \* bound: messages stored
  MaxOpens,    \* bound: chats opened
  MaxFaults    \* bound: connections lost, requests that fail

Threads == Rooms \cup Convs

ASSUME TranscriptAssumption ==
  /\ Rooms \cap Convs = {} /\ None \notin Threads
  /\ {HistoryCap, MaxMessages, MaxOpens, MaxFaults} \subseteq Nat

VARIABLES
  log,      \* the threads of the messages stored: message i is for log[i]
  unrouted, \* messages stored that the hub has not routed yet
  conn,     \* WebSocket: "first" attempt, "on", "off" (retried), "never" (given up)
  feed,     \* what the WebSocket client gives to the event loop, in order
  asked,    \* requests for a history that the server has not served
  mail,     \* results of commands for the event loop, in no order
  client,   \* has App a WebSocket client?
  view,     \* the thread of the chat on the screen
  canSend,  \* has the chat a WebSocket client?
  loading, shown, \* its loading and messages
  status,   \* the connection indicator of the frame
  opens, faults, \* chats opened and faults so far
  lost,     \* messages that the user's session did not get
  openedAt, \* number of messages stored when the chat was opened
  failed,   \* has the chat no history: none asked for, or the request failed?
  overlap,  \* was another history for this kind of chat awaited when it opened?
  raced,    \* may a message have come twice or out of order?
  misled    \* did the indicator change last for another reason than the connection?

serverVars == <<log, unrouted, conn>>
chatVars   == <<view, canSend, loading, shown, openedAt, failed, overlap>>
vars == <<serverVars, feed, asked, mail, client, chatVars, status, opens, faults, lost, raced,
          misled>>

----------------------------------------------------------------------------
Messages == DOMAIN log
Of(t) == {i \in Messages : log[i] = t}

SameKind(t, u) == {t, u} \subseteq Rooms \/ {t, u} \subseteq Convs

Ascending(S) == CHOOSE q \in SetToSeqs(S) : \A i, j \in DOMAIN q : i < j => q[i] < q[j]

(* ListMessagesByRoom and ListMessagesByConversation: the newest ones;     *)
(* here oldest first, as the chats append them.                            *)
History(t) ==
  LET all == Ascending(Of(t))
      cut == IF Len(all) > HistoryCap THEN Len(all) - HistoryCap ELSE 0
  IN SubSeq(all, cut + 1, Len(all))

Notice(is) == [is |-> is, id |-> 0]
Incoming(i) == [is |-> "message", id |-> i]

InFeed == {feed[k].id : k \in DOMAIN feed} \ {0}

(* Is a message behind a later one on its way? *)
Overtaken ==
  \E k \in DOMAIN feed : \E i \in unrouted \cup {feed[l].id : l \in (k + 1)..Len(feed)} :
     0 < i /\ i < feed[k].id

Awaited == asked \cup {r \in mail : r.is = "history"}

TypeOK ==
  /\ log \in Seq(Threads) /\ Len(log) <= MaxMessages
  /\ unrouted \subseteq Messages /\ unrouted \cap InFeed = {}
  /\ conn \in {"first", "on", "off", "never"}
  /\ client => conn \in {"on", "off"}
  /\ view \in Threads \cup {None}
  /\ view = None => shown = <<>> /\ ~loading
  /\ canSend => client
  /\ status \in {"connecting", "live", "offline"}
  /\ \A i \in DOMAIN shown : shown[i].id \in Messages
  /\ Cardinality(asked) + Cardinality({r \in mail : r.is = "history"}) <= opens
  /\ lost \subseteq Messages \ (unrouted \cup InFeed)

Init ==
  /\ log = <<>> /\ unrouted = {} /\ conn = "first"
  /\ feed = <<>> /\ asked = {} /\ mail = {} /\ client = FALSE
  /\ view = None /\ canSend = FALSE /\ loading = FALSE /\ shown = <<>>
  /\ status = "connecting"
  /\ opens = 0 /\ faults = 0
  /\ lost = {} /\ openedAt = 0 /\ failed = FALSE /\ overlap = FALSE /\ raced = FALSE
  /\ misled = FALSE

----------------------------------------------------------------------------
(* The screens *)

(* A chat is opened, New and Init: with its history, or (NewDMMsg, which   *)
(* names no conversation) without.                                         *)
Open(t, history) ==
  /\ view = None /\ opens < MaxOpens
  /\ t \in Rooms => history
  /\ view' = t /\ canSend' = client /\ shown' = <<>> /\ loading' = history
  /\ asked' = IF history THEN asked \cup {[n |-> opens + 1, thread |-> t]} ELSE asked
  /\ opens' = opens + 1
  /\ openedAt' = Len(log) /\ failed' = ~history /\ raced' = Overtaken
  /\ overlap' = \E r \in Awaited : SameKind(r.thread, t)
  /\ UNCHANGED <<serverVars, feed, mail, client, status, faults, lost, misled>>

(* LeaveRoomMsg and LeaveDMMsg *)
Leave ==
  /\ view # None
  /\ view' = None /\ canSend' = FALSE /\ shown' = <<>> /\ loading' = FALSE
  /\ openedAt' = 0 /\ failed' = FALSE /\ overlap' = FALSE /\ raced' = FALSE
  /\ UNCHANGED <<serverVars, feed, asked, mail, client, status, opens, faults, lost, misled>>

Entries(ids, how) == [i \in DOMAIN ids |-> [id |-> ids[i], how |-> how]]

(* Mutant of TakeHistory: the history replaces what came live. *)
TakeHistoryReplacing(r) ==
  /\ r \in mail /\ r.is = "history"
  /\ mail' = mail \ {r}
  /\ IF view # None /\ SameKind(r.thread, view)
     THEN loading' = FALSE /\ shown' = Entries(r.ids, "history")
     ELSE UNCHANGED <<loading, shown>>
  /\ UNCHANGED <<serverVars, feed, asked, client, view, canSend, openedAt, failed, overlap, status,
                 opens, faults, lost, raced, misled>>

(* Mutant of TakeHistory: an empty history leaves the chat loading. *)
TakeHistoryUnlessEmpty(r) ==
  /\ r \in mail /\ r.is = "history"
  /\ mail' = mail \ {r}
  /\ IF view # None /\ SameKind(r.thread, view) /\ r.ids # <<>>
     THEN loading' = FALSE /\ shown' = shown \o Entries(r.ids, "history")
     ELSE UNCHANGED <<loading, shown>>
  /\ UNCHANGED <<serverVars, feed, asked, client, view, canSend, openedAt, failed, overlap, status,
                 opens, faults, lost, raced, misled>>

(* historyLoadedMsg; the two kinds of chat have different ones. *)
TakeHistory(r) ==
  /\ r \in mail /\ r.is = "history"
  /\ mail' = mail \ {r}
  /\ IF view # None /\ SameKind(r.thread, view)
     THEN loading' = FALSE /\ shown' = shown \o Entries(r.ids, "history")
     ELSE UNCHANGED <<loading, shown>>
  /\ UNCHANGED <<serverVars, feed, asked, client, view, canSend, openedAt, failed, overlap, status,
                 opens, faults, lost, raced, misled>>

(* ws.ErrorMsg, of a request for a history or of the first connection. *)
TakeError(r) ==
  /\ r \in mail /\ r.is = "error"
  /\ mail' = mail \ {r}
  /\ status' = "offline" /\ misled' = (r.n # 0)
  /\ UNCHANGED <<serverVars, feed, asked, client, chatVars, opens, faults, lost, raced>>

TakeClient(r) ==
  /\ r \in mail /\ r.is = "client"
  /\ mail' = mail \ {r}
  /\ client' = TRUE /\ status' = "live" /\ misled' = (conn # "on")
  /\ UNCHANGED <<serverVars, feed, asked, chatVars, opens, faults, lost, raced>>

(* Mutant of Shows: a conversation shows the messages of every peer. *)
ShowsAnyPeer(i) == SameKind(log[i], view)

(* ws.IncomingMsg, for the chat on the screen. *)
Shows(i) ==
  \/ view \in Rooms /\ log[i] \in Rooms
  \/ view \in Convs /\ log[i] = view

(* Mutant of TakeIncoming: the newest message comes first. *)
TakeIncomingFirst ==
  /\ feed # <<>> /\ Head(feed).is = "message"
  /\ feed' = Tail(feed)
  /\ LET i == Head(feed).id IN
     IF view # None /\ Shows(i)
     THEN /\ shown' = <<[id |-> i, how |-> "live"]>> \o shown
          /\ raced' = (raced \/ \E r \in Awaited : SameKind(r.thread, view))
     ELSE UNCHANGED <<shown, raced>>
  /\ UNCHANGED <<serverVars, asked, mail, client, view, canSend, loading, openedAt, failed, overlap,
                 status, opens, faults, lost, misled>>

TakeIncoming ==
  /\ feed # <<>> /\ Head(feed).is = "message"
  /\ feed' = Tail(feed)
  /\ LET i == Head(feed).id IN
     IF view # None /\ Shows(i)
     THEN /\ shown' = Append(shown, [id |-> i, how |-> "live"])
          /\ raced' = (raced \/ \E r \in Awaited : SameKind(r.thread, view))
     ELSE UNCHANGED <<shown, raced>>
  /\ UNCHANGED <<serverVars, asked, mail, client, view, canSend, loading, openedAt, failed, overlap,
                 status, opens, faults, lost, misled>>

(* Mutant of TakeNotice: the indicator is not told of the new connection. *)
TakeNoticeOfTrouble ==
  /\ feed # <<>> /\ Head(feed).is # "message"
  /\ feed' = Tail(feed) /\ misled' = FALSE
  /\ status' = IF Head(feed).is = "error" THEN "offline" ELSE "connecting"
  /\ UNCHANGED <<serverVars, asked, mail, client, chatVars, opens, faults, lost, raced>>

(* ws.ErrorMsg, ReconnectingMsg and ConnectedMsg of the WebSocket client. *)
TakeNotice ==
  /\ feed # <<>> /\ Head(feed).is # "message"
  /\ feed' = Tail(feed)
  /\ status' = CASE Head(feed).is = "error"        -> "offline"
                 [] Head(feed).is = "reconnecting" -> "connecting"
                 [] Head(feed).is = "connected"    -> "live"
  /\ misled' = FALSE
  /\ UNCHANGED <<serverVars, asked, mail, client, chatVars, opens, faults, lost, raced>>

(* enter in the composer: nothing happens without a client.  A message     *)
(* that the connection takes is stored and shown when it comes back.       *)
SendMessage ==
  /\ view # None /\ canSend /\ conn = "on"
  /\ Len(log) < MaxMessages
  /\ log' = Append(log, view)
  /\ unrouted' = unrouted \cup {Len(log')}
  /\ UNCHANGED <<conn, feed, asked, mail, client, chatVars, status, opens, faults, lost, raced,
                 misled>>

----------------------------------------------------------------------------
(* The server *)

Store(t) ==
  /\ Len(log) < MaxMessages
  /\ log' = Append(log, t)
  /\ unrouted' = unrouted \cup {Len(log')}
  /\ UNCHANGED <<conn, feed, asked, mail, client, chatVars, status, opens, faults, lost, raced,
                 misled>>

(* Messages of different senders may be routed in another order.  *)
Route(i) ==
  /\ i \in unrouted
  /\ unrouted' = unrouted \ {i}
  /\ IF conn = "on" THEN feed' = Append(feed, Incoming(i)) /\ UNCHANGED lost
                    ELSE lost' = lost \cup {i} /\ UNCHANGED feed
  /\ raced' = (raced \/ \E j \in unrouted : j < i)
  /\ UNCHANGED <<log, conn, asked, mail, client, chatVars, status, opens, faults, misled>>

Answer(q) == [is |-> "history", n |-> q.n, thread |-> q.thread, ids |-> History(q.thread)]

ServeHistory(q) ==
  /\ q \in asked
  /\ asked' = asked \ {q}
  /\ mail' = mail \cup {Answer(q)}
  /\ raced' = (raced \/ (unrouted \cup InFeed) \cap Of(q.thread) # {})
  /\ UNCHANGED <<serverVars, feed, client, chatVars, status, opens, faults, lost, misled>>

(* The request of chat q.n, which is open still or was left, fails. *)
HistoryFails(q) ==
  /\ q \in asked /\ faults < MaxFaults
  /\ faults' = faults + 1
  /\ asked' = asked \ {q}
  /\ mail' = mail \cup {[is |-> "error", n |-> q.n, thread |-> q.thread, ids |-> <<>>]}
  /\ failed' = (failed \/ (view # None /\ q.n = opens))
  /\ UNCHANGED <<serverVars, feed, client, view, canSend, loading, shown, openedAt, overlap, status,
                 opens, lost, raced, misled>>

(* connectWS: the first connection is made, or fails and is not retried. *)
Result(is) == [is |-> is, n |-> 0, thread |-> None, ids |-> <<>>]

FirstConnect ==
  /\ conn = "first"
  /\ conn' = "on"
  /\ mail' = mail \cup {Result("client")}
  /\ UNCHANGED <<log, unrouted, feed, asked, client, chatVars, status, opens, faults, lost,
                 raced, misled>>

FirstConnectFails ==
  /\ conn = "first" /\ faults < MaxFaults
  /\ faults' = faults + 1
  /\ conn' = "never"
  /\ mail' = mail \cup {Result("error")}
  /\ UNCHANGED <<log, unrouted, feed, asked, client, chatVars, status, opens, lost, raced, misled>>

(* The connection is lost: the client has got the first k messages of     *)
(* those on their way, reports the error and tries again.                  *)
Disconnect(k) ==
  /\ conn = "on" /\ faults < MaxFaults
  /\ faults' = faults + 1
  /\ conn' = "off"
  /\ feed' = SubSeq(feed, 1, k) \o <<Notice("error"), Notice("reconnecting")>>
  /\ lost' = lost \cup ({feed[j].id : j \in (k + 1)..Len(feed)} \ {0})
  /\ UNCHANGED <<log, unrouted, asked, mail, client, chatVars, status, opens, raced, misled>>

Reconnect ==
  /\ conn = "off"
  /\ conn' = "on"
  /\ feed' = Append(feed, Notice("connected"))
  /\ UNCHANGED <<log, unrouted, asked, mail, client, chatVars, status, opens, faults, lost,
                 raced, misled>>

----------------------------------------------------------------------------
Next ==
  \/ \E t \in Threads, history \in BOOLEAN : Open(t, history)
  \/ Leave \/ SendMessage \/ TakeIncoming \/ TakeNotice
  \/ \E r \in mail : TakeHistory(r) \/ TakeError(r) \/ TakeClient(r)
  \/ \E t \in Threads : Store(t)
  \/ \E i \in unrouted : Route(i)
  \/ \E q \in asked : ServeHistory(q) \/ HistoryFails(q)
  \/ FirstConnect \/ FirstConnectFails \/ Reconnect
  \/ \E k \in 0..Len(feed) : Disconnect(k)

Spec == Init /\ [][Next]_vars

----------------------------------------------------------------------------
AtRest == unrouted = {} /\ feed = <<>> /\ asked = {} /\ mail = {}

ShownIds == {shown[k].id : k \in DOMAIN shown}

(* When nothing is under way, the chat shows every message of its thread   *)
(* that was stored, unless the connection lost it, or it is older than the *)
(* chat and older than the history reaches, or the chat has no history.    *)
NothingMissing ==
  view # None /\ AtRest =>
    \A i \in Of(view) \ ShownIds :
       \/ i \in lost
       \/ i <= openedAt /\ (failed \/ Cardinality({j \in Of(view) : j > i}) >= HistoryCap)

(* A chat stays loading (and hides what it has) only if its request        *)
(* failed.                                                                 *)
LoadingEnds == view # None /\ AtRest /\ loading => failed

(* The messages of the thread are shown in the order stored, none twice,   *)
(* unless one was on its way to the chat while the history was, or one     *)
(* overtook another in the hub.                                            *)
InOrder ==
  ~raced /\ ~overlap =>
    \A k, l \in DOMAIN shown :
       k < l /\ {log[shown[k].id], log[shown[l].id]} = {view} => shown[k].id < shown[l].id

(* A message of another thread is shown only if it came live from another *)
(* room, or with a history that an earlier chat of the kind asked for.     *)
ForeignCause ==
  \A k \in DOMAIN shown :
     log[shown[k].id] # view =>
        IF shown[k].how = "live" THEN view \in Rooms ELSE overlap

(* When nothing is under way, the indicator of the frame tells how the     *)
(* connection is, unless a failed request, or the late message of the      *)
(* first connection, changed it last.                                      *)
StatusIsTrue ==
  AtRest /\ ~misled =>
     status = CASE conn = "on" -> "live" [] conn = "never" -> "offline" [] OTHER -> "connecting"
============================================================================
