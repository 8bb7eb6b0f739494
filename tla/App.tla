-------------------------------- MODULE App --------------------------------
(***************************************************************************)
(* The application of the terminal program (cmd/client/internal/ui): the   *)
(* screens, the commands they start and the unread counts (badges) that    *)
(* they show.                                                              *)
(*                                                                         *)
(* The event loop calls App.Update with one message at a time.  Update may *)
(* return commands; each runs in a goroutine of its own, most of them make *)
(* a request over HTTP, and its result is a message again, which finds     *)
(* whatever screen is active by then.  So `work' holds the commands whose  *)
(* request the server has not served, `mail' the results that the event    *)
(* loop has not taken, and neither keeps an order.  Requests that neither  *)
(* read nor write counts are not followed: what they answer may come.      *)
(* Updates pushed over the WebSocket come in the order in which the server *)
(* sent them.                                                              *)
(*                                                                         *)
(* A count carries the version of the server's count that it was read      *)
(* from, 0 if from none: a history variable, on which no step depends.     *)
(* The contents of the lists of rooms and conversations, the order of the  *)
(* inbox's, typing, filtering, the help and all drawing (the spinner of    *)
(* `loading', too) are left out; of the chat screens only what they tell   *)
(* the application is here, the rest is in Transcript.                     *)
(***************************************************************************)
EXTENDS Integers, Sequences, FiniteSets, Bags, Functions, SequencesExt

CONSTANTS
  Rooms,       \* rooms
  Convs,       \* conversations of the user
  None,        \* no room, no thread
  Backlogs,    \* what may await the user: threads with an unread message, latest first
  FeedCap,     \* the most entries GetInbox returns (50 in the code)
  MaxKeys,     \* bound: keys pressed after login
  MaxOutside   \* bound: messages and joins of others, lost connections, failed requests

Threads == Rooms \cup Convs

ASSUME AppAssumption ==
  /\ Rooms \cap Convs = {} /\ None \notin Threads
  /\ IsFiniteSet(Threads)
  /\ \A p \in Backlogs : p \in Seq(Threads) /\ IsInjective(p)
  /\ {FeedCap, MaxKeys, MaxOutside} \subseteq Nat

VARIABLES
  crashed,  \* has a nil dereference ended the program?
  screen,   \* App.active
  current,  \* AppState.CurrentRoom
  badge,    \* AppState.RoomBadges and ConvBadges, which the lists share
  total,    \* inboxTotal of the list on the screen
  late,     \* has an update of the other list's threads come since then?
  creating, \* is the form for a new room or peer open?
  listed,   \* does the list of rooms or conversations on the screen have items?
  entries,  \* the entries of the inbox screen's list
  work,     \* bag of commands at work
  mail,     \* bag of results for the event loop
  pushes,   \* updates pushed and not taken yet
  online,   \* does the server's hub know the user?
  feed,     \* the server's inbox feed, newest first
  unread,   \* the server's unread counts
  keys, outside, \* keys pressed and events from outside so far
  stray,    \* has a message to change the screen come to another than its sender's?
  behind    \* threads whose badge became out of date by a race

uiVars     == <<crashed, screen, current, badge, total, late, creating, listed, entries>>
asyncVars  == <<work, mail>>
serverVars == <<online, feed, unread>>
envVars    == <<keys, outside>>
vars == <<uiVars, asyncVars, pushes, serverVars, envVars, stray, behind>>

----------------------------------------------------------------------------
(* Counts and entries *)

Unknown == [n |-> 0, v |-> 0]
NoCounts == [t \in Threads |-> Unknown]

Entry(t, isEvent, c) == [thread |-> t, event |-> isEvent, count |-> c]

(* The entry of the messages of thread t. *)
Lists(es, t) == \E e \in es : e.thread = t /\ ~e.event
EntryOf(es, t) == CHOOSE e \in es : e.thread = t /\ ~e.event

(* upsertEntry: the new entry replaces all others of its thread, those of  *)
(* room events, too.                                                       *)
UpsertEntry(es, e) == {e} \cup {x \in es : x.thread # e.thread}

(* zeroUnreadCount of the entries of thread t, read as c. *)
ZeroUnreadCount(es, t, c) ==
  {IF e.thread = t THEN [e EXCEPT !.count = c] ELSE e : e \in es}

(* computeBadges: a thread that is not listed counts nothing, and nor does *)
(* an entry of a room event.                                               *)
ComputeBadges(es) ==
  [t \in Threads |-> IF Lists(es, t) THEN EntryOf(es, t).count ELSE Unknown]

(* badgeTotal: how many unread messages the threads T have together. *)
SumOf(b, T) == Cardinality(UNION {{t} \X (1..b[t].n) : t \in T})
BadgeTotal(b) == SumOf(b, Threads)

(* The badge of the other list's tab: dmsTotal of the rooms, roomsTotal of *)
(* the conversations.                                                      *)
Rest(own) == IF total > own THEN total - own ELSE 0
DmsTotal == Rest(SumOf(badge, Rooms))
RoomsTotal == Rest(SumOf(badge, Convs))

----------------------------------------------------------------------------
(* Commands and messages *)

Cmd(do, t) == [do |-> do, thread |-> t, count |-> Unknown]
MarkAsReadCmd(e) == [do |-> "markAsRead", thread |-> e.thread, count |-> e.count]

Msg(is, t) == [is |-> is, thread |-> t, counts |-> NoCounts, list |-> {}]
BadgesMsg(counts) == [Msg("badges", None) EXCEPT !.counts = counts]

ListScreens == {"rooms", "dms", "inbox"}
Chats == {"chat", "dmChat"}

FetchEntries == Cmd("fetchEntries", None)
FetchBadges == Cmd("fetchBadges", None)

Running == ~crashed

With(bag, x) == bag (+) SetToBag({x})
Without(bag, x) == bag (-) SetToBag({x})

TypeOK ==
  /\ crashed \in BOOLEAN
  /\ screen \in {"auth"} \cup ListScreens \cup Chats
  /\ current \in Rooms \cup {None}
  /\ badge \in [Threads -> [n: Nat, v: Nat]]
  /\ total \in Nat /\ late \in BOOLEAN
  /\ creating \in BOOLEAN
  /\ listed \in BOOLEAN
  /\ \A e \in entries : e.thread \in Threads
  /\ screen # "inbox" => entries = {}
  /\ IsABag(work) /\ IsABag(mail)
  /\ screen = "auth" => work = EmptyBag /\ mail = EmptyBag /\ pushes = <<>>
  /\ online \in BOOLEAN
  /\ unread \in [Threads -> [n: Nat, v: Nat]]
  /\ behind \in SUBSET Threads

Init ==
  /\ crashed = FALSE /\ screen = "auth" /\ current = None
  /\ badge = NoCounts /\ total = 0 /\ late = FALSE
  /\ creating = FALSE /\ listed = FALSE /\ entries = {}
  /\ work = EmptyBag /\ mail = EmptyBag /\ pushes = <<>>
  /\ online = FALSE
  /\ feed \in {[i \in DOMAIN p |-> [thread |-> p[i], event |-> FALSE]] : p \in Backlogs}
  /\ unread = [t \in Threads |-> IF \E i \in DOMAIN feed : feed[i].thread = t
                                THEN [n |-> 1, v |-> 1] ELSE Unknown]
  /\ keys = 0 /\ outside = 0 /\ stray = FALSE /\ behind = {}

(* Threads T are out of date from now on, until their badge is right. *)
Falls(T) == behind' = {t \in behind \cup T : badge'[t] # unread'[t]}

----------------------------------------------------------------------------
(* The event loop: App.Update *)

(* Message m is done with; commands cmds and messages msgs are to come. *)
Take(m, cmds, msgs) ==
  /\ mail' = Without(mail, m) (+) SetToBag(msgs)
  /\ work' = work (+) SetToBag(cmds)

(* The screens that send m, a message to change the screen; it is stray if *)
(* another one is active by now.                                           *)
Senders(m) ==
  CASE m.is = "leaveRoom"             -> {"chat"}
    [] m.is = "leaveDM"               -> {"dmChat"}
    [] m.is \in {"showDMs", "openRoom"}   -> {"rooms", "inbox"}
    [] m.is \in {"showRooms", "openDM"}   -> {"dms", "inbox"}
    [] m.is = "showInbox"             -> {"rooms", "dms"}

NoteStray(m) == stray' = (stray \/ screen \notin Senders(m))

(* App makes a new model for list s. *)
ShowList(s) ==
  /\ screen' = s /\ creating' = FALSE /\ listed' = FALSE /\ entries' = {}
  /\ total' = (IF s = "inbox" THEN 0 ELSE BadgeTotal(badge)) /\ late' = FALSE

(* The commands that its Init starts. *)
InitCmds(s) == IF s = "inbox" THEN {FetchEntries} ELSE {}

ShowChat(s) ==
  /\ screen' = s /\ creating' = FALSE /\ listed' = FALSE /\ entries' = {}
  /\ total' = 0 /\ late' = FALSE

(* auth.SuccessMsg *)
Login ==
  /\ Running /\ screen = "auth"
  /\ ShowList("rooms")
  /\ work' = SetToBag({FetchBadges}) /\ mail' = EmptyBag
  /\ UNCHANGED <<crashed, current, badge, pushes, serverVars, envVars, stray, behind>>

(* ShowDMsMsg, ShowInboxMsg, LeaveDMListMsg, LeaveInboxMsg, and LeaveDMMsg *)
(* which fetches the badges, too.                                          *)
TakeShowList(m) ==
  LET s == CASE m.is = "showDMs" -> "dms" [] m.is = "showInbox" -> "inbox"
             [] m.is = "leaveDM" -> "dms" [] OTHER -> "rooms"
  IN
  /\ Running /\ BagIn(m, mail) /\ m.is \in {"showDMs", "showInbox", "showRooms", "leaveDM"}
  /\ ShowList(s) /\ NoteStray(m)
  /\ Take(m, InitCmds(s) \cup (IF m.is = "leaveDM" THEN {FetchBadges} ELSE {}), {})
  /\ UNCHANGED <<crashed, current, badge, pushes, serverVars, envVars>>
  /\ Falls(IF screen \in Chats /\ m.is # "leaveDM" THEN Threads ELSE {})

(* Mutant of TakeLeaveRoom: the badges are not fetched again. *)
TakeLeaveRoomOnly(m) ==
  /\ Running /\ BagIn(m, mail) /\ m.is = "leaveRoom" /\ current # None
  /\ current' = None /\ ShowList("rooms") /\ Take(m, {}, {}) /\ NoteStray(m)
  /\ UNCHANGED <<crashed, badge, pushes, serverVars, envVars, behind>>

(* chat.LeaveRoomMsg, which is logged with the id of the current room. *)
TakeLeaveRoom(m) ==
  /\ Running /\ BagIn(m, mail) /\ m.is = "leaveRoom"
  /\ IF current = None
     THEN /\ crashed' = TRUE
          /\ UNCHANGED <<screen, current, total, late, creating, listed, entries, asyncVars>>
     ELSE /\ current' = None
          /\ ShowList("rooms")
          /\ Take(m, {FetchBadges}, {})
          /\ UNCHANGED crashed
  /\ NoteStray(m)
  /\ UNCHANGED <<badge, pushes, serverVars, envVars, behind>>

(* Mutant of TakeOpenRoom: the application does not note the room. *)
TakeOpenRoomUnnoted(m) ==
  /\ Running /\ BagIn(m, mail) /\ m.is = "openRoom"
  /\ ShowChat("chat") /\ Take(m, {Cmd("read", m.thread)}, {}) /\ NoteStray(m)
  /\ UNCHANGED <<crashed, current, badge, pushes, serverVars, envVars, behind>>

(* RoomSelectedMsg and OpenRoomMsg.  Init of the chat marks it as read. *)
TakeOpenRoom(m) ==
  /\ Running /\ BagIn(m, mail) /\ m.is = "openRoom"
  /\ current' = m.thread
  /\ ShowChat("chat")
  /\ Take(m, {Cmd("read", m.thread)}, {})
  /\ NoteStray(m)
  /\ UNCHANGED <<crashed, badge, pushes, serverVars, envVars, behind>>

(* ConvSelectedMsg, OpenDMMsg, and NewDMMsg which names no conversation:   *)
(* then nothing is marked.                                                 *)
TakeOpenDM(m) ==
  /\ Running /\ BagIn(m, mail) /\ m.is = "openDM"
  /\ ShowChat("dmChat")
  /\ Take(m, IF m.thread = None THEN {} ELSE {Cmd("read", m.thread)}, {})
  /\ NoteStray(m)
  /\ UNCHANGED <<crashed, current, badge, pushes, serverVars, envVars, behind>>

(* Mutant of TakeBadges: the list of conversations is not told. *)
TakeBadgesOfRooms(m) ==
  /\ Running /\ BagIn(m, mail) /\ m.is = "badges"
  /\ badge' = m.counts /\ Take(m, {}, {}) /\ late' = FALSE
  /\ total' = IF screen = "rooms" THEN BadgeTotal(badge') ELSE total
  /\ UNCHANGED <<crashed, screen, current, creating, listed, entries, pushes, serverVars, envVars,
                 stray>>
  /\ Falls({t \in Threads : badge'[t].v < badge[t].v})

(* inbox.BadgesMsg replaces all badges, by older ones if it comes late. *)
TakeBadges(m) ==
  /\ Running /\ BagIn(m, mail) /\ m.is = "badges"
  /\ badge' = m.counts
  /\ total' = IF screen \in {"rooms", "dms"} THEN BadgeTotal(badge') ELSE total
  /\ late' = FALSE
  /\ Take(m, {}, {})
  /\ UNCHANGED <<crashed, screen, current, creating, listed, entries, pushes, serverVars,
                 envVars, stray>>
  /\ Falls({t \in Threads : badge'[t].v < badge[t].v})

(* inbox_updated over the WebSocket.  The rooms screen is told of rooms,   *)
(* the screen of conversations of those; the inbox of all.                 *)
TakePush ==
  /\ Running /\ pushes # <<>>
  /\ LET t == Head(pushes).thread
         c == Head(pushes).count
         es == UpsertEntry(entries, Entry(t, FALSE, c))
     IN /\ badge' = [badge EXCEPT ![t] = c]
        /\ total' = IF \/ screen = "rooms" /\ t \in Rooms
                       \/ screen = "dms" /\ t \in Convs
                    THEN BadgeTotal(badge') ELSE total
        /\ late' = (<<screen, t>> \in ({"rooms"} \X Convs) \cup ({"dms"} \X Rooms))
        /\ IF screen = "inbox"
           THEN entries' = es /\ mail' = With(mail, BadgesMsg(ComputeBadges(es)))
           ELSE UNCHANGED <<entries, mail>>
  /\ pushes' = Tail(pushes)
  /\ UNCHANGED <<crashed, screen, current, creating, listed, work, serverVars, envVars, stray>>
  /\ Falls({t \in Threads : badge'[t].v < badge[t].v})

(* The inbox has a new list, and new badges for the application. *)
SetEntries(m, es) ==
  /\ entries' = es
  /\ Take(m, {}, {BadgesMsg(ComputeBadges(es))})

(* entriesLoadedMsg of the inbox. *)
TakeEntries(m) ==
  /\ Running /\ screen = "inbox" /\ BagIn(m, mail) /\ m.is = "entries"
  /\ SetEntries(m, m.list)
  /\ UNCHANGED <<crashed, screen, current, badge, total, late, creating, listed, pushes, serverVars,
                 envVars, stray, behind>>

TakeEntriesError(m) ==
  /\ Running /\ screen = "inbox" /\ BagIn(m, mail) /\ m.is = "entriesError"
  /\ Take(m, {}, {})
  /\ UNCHANGED <<crashed, screen, current, badge, total, late, creating, listed, entries, pushes,
                 serverVars, envVars, stray, behind>>

(* markedAsReadMsg of the inbox.  The list may be another by now, which    *)
(* has no entry of the thread: then all its badges have none for it.       *)
TakeMarked(m) ==
  /\ Running /\ screen = "inbox" /\ BagIn(m, mail) /\ m.is = "marked"
  /\ SetEntries(m, ZeroUnreadCount(entries, m.thread, m.counts[m.thread]))
  /\ UNCHANGED <<crashed, screen, current, badge, total, late, creating, listed, pushes,
                 serverVars, envVars, stray>>
  /\ Falls(IF Lists(entries, m.thread) THEN {} ELSE {m.thread})

(* roomsLoadedMsg and convsLoadedMsg. *)
TakeLoaded ==
  /\ Running /\ screen \in {"rooms", "dms"} /\ ~listed
  /\ listed' = TRUE
  /\ UNCHANGED <<crashed, screen, current, badge, total, late, creating, entries, asyncVars,
                 pushes, serverVars, envVars, stray, behind>>

(* roomCreatedMsg, and RoomErrorMsg and dmErrorMsg whatever failed: the    *)
(* form for a new room or peer is closed, even one opened meanwhile.       *)
TakeFormClosing ==
  /\ Running /\ creating
  /\ creating' = FALSE
  /\ UNCHANGED <<crashed, screen, current, badge, total, late, listed, entries, asyncVars, pushes,
                 serverVars, envVars, stray, behind>>

(* What the screens take themselves: roomJoinedMsg, peerFoundMsg and the   *)
(* messages of the inbox.                                                  *)
Meant(s) == CASE s = "rooms" -> {"joined"}
              [] s = "dms"   -> {"found"}
              [] s = "inbox" -> {"entries", "entriesError", "marked"}
              [] OTHER       -> {}

TakeFound(m) ==
  /\ Running /\ BagIn(m, mail) /\ m.is \in Meant(screen) \cap {"joined", "found"}
  /\ Take(m, {}, {Msg(IF m.is = "joined" THEN "openRoom" ELSE "openDM", m.thread)})
  /\ UNCHANGED <<uiVars, pushes, serverVars, envVars, stray, behind>>

(* The screen that is active by now has no use for the message. *)
TakeForeign(m) ==
  /\ Running /\ BagIn(m, mail)
  /\ m.is \in (UNION {Meant(s) : s \in ListScreens}) \ Meant(screen)
  /\ Take(m, {}, {})
  /\ UNCHANGED <<uiVars, pushes, serverVars, envVars, stray>>
  /\ Falls(IF m.is = "marked" THEN {m.thread} ELSE {})

----------------------------------------------------------------------------
(* Keys *)

Press ==
  /\ Running /\ keys < MaxKeys
  /\ keys' = keys + 1

(* Commands cmds are started, and msgs are messages to come. *)
Start(cmds, msgs) ==
  /\ Press
  /\ work' = work (+) SetToBag(cmds)
  /\ mail' = mail (+) SetToBag(msgs)
  /\ UNCHANGED <<crashed, screen, current, badge, total, late, listed, entries, pushes, serverVars,
                 outside, behind>>

(* tab, shift+tab, esc and their letters. *)
PressTab ==
  /\ screen \in ListScreens /\ ~creating
  /\ \E is \in (CASE screen = "rooms" -> {"showDMs", "showInbox"}
                  [] screen = "dms"   -> {"showRooms", "showInbox"}
                  [] OTHER            -> {"showRooms", "showDMs"}) :
        Start({}, {Msg(is, None)})
  /\ UNCHANGED <<creating, stray>>

PressEscInChat ==
  LET m == Msg(IF screen = "chat" THEN "leaveRoom" ELSE "leaveDM", None) IN
  /\ screen \in Chats
  /\ Start({}, {m})
  /\ UNCHANGED <<creating, stray>>

(* enter on a conversation, and on a room, which is joined first. *)
PressEnterOnConv(c) ==
  /\ screen = "dms" /\ ~creating /\ listed
  /\ Start({}, {Msg("openDM", c)})
  /\ UNCHANGED <<creating, stray>>

PressEnterOnRoom(r) ==
  /\ screen = "rooms" /\ ~creating /\ listed
  /\ Start({}, {Msg("joined", r)})
  /\ UNCHANGED <<creating, stray>>

PressRefresh ==
  /\ screen = "inbox"
  /\ Start(InitCmds(screen), {})
  /\ UNCHANGED <<creating, stray>>

(* enter in the form for a new peer, who is found or not; then for a room. *)
PressEnterInForm ==
  /\ screen \in {"rooms", "dms"} /\ creating
  /\ creating' = FALSE
  /\ \E found \in BOOLEAN : Start({}, IF screen = "dms" /\ found THEN {Msg("found", None)} ELSE {})
  /\ UNCHANGED stray

(* m and enter on an entry of the inbox. *)
PressMark(e) ==
  /\ screen = "inbox" /\ e.count.n > 0
  /\ Start({MarkAsReadCmd(e)}, {})
  /\ UNCHANGED <<creating, stray>>

PressEnterOnEntry(e) ==
  /\ screen = "inbox"
  /\ Start(IF e.count.n > 0 THEN {MarkAsReadCmd(e)} ELSE {},
           {Msg(IF e.thread \in Rooms THEN "openRoom" ELSE "openDM", e.thread)})
  /\ UNCHANGED <<creating, stray>>

(* n opens the form, esc closes it. *)
PressForm ==
  /\ screen \in {"rooms", "dms"} /\ Press
  /\ creating' = ~creating
  /\ UNCHANGED <<crashed, screen, current, badge, total, late, listed, entries, asyncVars,
                 pushes, serverVars, outside, stray, behind>>

----------------------------------------------------------------------------
(* The server, as the client sees it *)

Snapshot ==
  {Entry(feed[i].thread, feed[i].event,
         IF feed[i].event THEN Unknown ELSE unread[feed[i].thread]) :
     i \in {j \in DOMAIN feed : j <= FeedCap}}

Fetched(c) ==
  IF c.do = "fetchEntries" THEN [Msg("entries", None) EXCEPT !.list = Snapshot]
                           ELSE BadgesMsg(ComputeBadges(Snapshot))

(* GetInbox *)
ServeFetch(c) ==
  /\ Running /\ BagIn(c, work) /\ c.do \in {"fetchEntries", "fetchBadges"}
  /\ work' = Without(work, c)
  /\ mail' = With(mail, Fetched(c))
  /\ UNCHANGED <<uiVars, pushes, serverVars, envVars, stray, behind>>

(* MarkAsRead.  The chat screens ignore the answer. *)
Reset(t) == unread' = [unread EXCEPT ![t] = [n |-> 0, v |-> @.v + 1]]

ServeRead(c) ==
  /\ Running /\ BagIn(c, work) /\ c.do = "read"
  /\ work' = Without(work, c)
  /\ Reset(c.thread)
  /\ UNCHANGED <<uiVars, mail, pushes, online, feed, envVars, stray>>
  /\ Falls(IF screen \in Chats THEN {} ELSE {c.thread})

ServeMarkAsRead(c) ==
  /\ Running /\ BagIn(c, work) /\ c.do = "markAsRead"
  /\ work' = Without(work, c)
  /\ Reset(c.thread)
  /\ mail' = With(mail, [Msg("marked", c.thread) EXCEPT !.counts[c.thread] = unread'[c.thread]])
  /\ UNCHANGED <<uiVars, pushes, online, feed, envVars, stray, behind>>

(* A request fails.  markAsReadCmd reports success all the same; a failure *)
(* to fetch badges or to mark a chat goes unnoticed.                       *)
ServeFails(c) ==
  /\ Running /\ BagIn(c, work) /\ outside < MaxOutside
  /\ outside' = outside + 1
  /\ work' = Without(work, c)
  /\ mail' = CASE c.do = "fetchEntries" -> With(mail, Msg("entriesError", None))
               [] c.do = "markAsRead"   -> With(mail, Msg("marked", c.thread))
               [] OTHER                 -> mail
  /\ UNCHANGED <<uiVars, pushes, serverVars, keys, stray>>
  /\ Falls(IF c.do = "fetchBadges" THEN Threads ELSE {})

(* A message for the user is counted, and pushed if the hub has a session. *)
Message(t) ==
  /\ outside < MaxOutside
  /\ outside' = outside + 1
  /\ unread' = [unread EXCEPT ![t] = [n |-> @.n + 1, v |-> @.v + 1]]
  /\ LET e == [thread |-> t, event |-> FALSE] IN feed' = <<e>> \o RemoveFirst(feed, e)
  /\ pushes' = IF online THEN Append(pushes, [thread |-> t, count |-> unread'[t]]) ELSE pushes
  /\ UNCHANGED <<uiVars, asyncVars, online, keys, stray>>
  /\ Falls(IF online \/ screen = "auth" THEN {} ELSE {t})

(* Somebody joins or leaves a room. *)
RoomEvent(r) ==
  /\ outside < MaxOutside
  /\ outside' = outside + 1
  /\ feed' = <<[thread |-> r, event |-> TRUE]>> \o feed
  /\ UNCHANGED <<uiVars, asyncVars, pushes, online, unread, keys, stray, behind>>

(* The WebSocket is connected, for the first time or again. *)
Connect ==
  /\ Running /\ screen # "auth" /\ ~online
  /\ online' = TRUE
  /\ UNCHANGED <<uiVars, asyncVars, pushes, feed, unread, envVars, stray, behind>>

(* It is lost, with what was on its way. *)
Disconnect ==
  /\ online /\ outside < MaxOutside
  /\ outside' = outside + 1
  /\ online' = FALSE /\ pushes' = <<>>
  /\ UNCHANGED <<uiVars, asyncVars, feed, unread, keys, stray>>
  /\ Falls({pushes[i].thread : i \in DOMAIN pushes})

----------------------------------------------------------------------------
TakeMail ==
  \E m \in BagToSet(mail) :
     \/ TakeShowList(m) \/ TakeLeaveRoom(m) \/ TakeOpenRoom(m) \/ TakeOpenDM(m)
     \/ TakeBadges(m) \/ TakeEntries(m) \/ TakeEntriesError(m) \/ TakeMarked(m)
     \/ TakeFound(m) \/ TakeForeign(m)

Key ==
  \/ PressTab \/ PressEscInChat \/ PressRefresh \/ PressEnterInForm \/ PressForm
  \/ \E r \in Rooms : PressEnterOnRoom(r)
  \/ \E c \in Convs : PressEnterOnConv(c)
  \/ \E e \in entries : PressMark(e) \/ PressEnterOnEntry(e)

Server ==
  \/ \E c \in BagToSet(work) : ServeFetch(c) \/ ServeRead(c) \/ ServeMarkAsRead(c) \/ ServeFails(c)
  \/ \E t \in Threads : Message(t)
  \/ \E r \in Rooms : RoomEvent(r)
  \/ Connect \/ Disconnect

Next == Login \/ TakeMail \/ TakeLoaded \/ TakeFormClosing \/ TakePush \/ Key \/ Server

Spec == Init /\ [][Next]_vars

----------------------------------------------------------------------------
AtRest == work = EmptyBag /\ mail = EmptyBag /\ pushes = <<>>

(* When nothing is under way, the badges of the lists are the unread       *)
(* counts of the server, unless a race named above put a thread behind     *)
(* (an older snapshot or a lost update; a chat read on the server after    *)
(* the badges were fetched; an inbox left before the server's answer; a    *)
(* failed request), or its entry is beyond the end of the feed that        *)
(* GetInbox returns.                                                       *)
BadgesMatch ==
  Running /\ AtRest /\ screen \in {"rooms", "dms"} =>
     \A t \in Threads : \/ badge[t].n = unread[t].n
                        \/ t \in behind
                        \/ ~Lists(Snapshot, t)

(* The badge of the other list's tab is the sum of that list's badges,     *)
(* unless an update of a thread of the other list came: App.Update changes *)
(* the badge and not the total from which the tab is computed then.        *)
TotalMatches ==
  Running /\ ~late =>
     /\ screen = "rooms" => DmsTotal = SumOf(badge, Convs)
     /\ screen = "dms" => RoomsTotal = SumOf(badge, Rooms)

(* The application knows a room exactly while its chat is shown, and so    *)
(* leaving it finds the room, unless a message to change the screen was    *)
(* stray: two keys in a row, the second one before the first one's message *)
(* arrived.  Then App.Update may dereference nil.                          *)
RoomIsShown == stray \/ (~crashed /\ (current # None <=> screen = "chat"))
============================================================================
