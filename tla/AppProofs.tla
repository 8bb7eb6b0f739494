------------------------------ MODULE AppProofs ------------------------------
(***************************************************************************)
(* Theorems about the application of the terminal program, for any rooms   *)
(* and conversations, any feed, and any number of keys and events.         *)
(***************************************************************************)
EXTENDS App, FiniteSetTheorems, SequenceTheorems, WellFoundedInduction, TLAPS

----------------------------------------------------------------------------
(* Bags: what they hold when elements are added and removed. *)

LEMMA SetBag ==
  ASSUME NEW S
  PROVE  IsABag(SetToBag(S)) /\ BagToSet(SetToBag(S)) = S
BY DEF IsABag, SetToBag, BagToSet

LEMMA SumBag ==
  ASSUME NEW A, IsABag(A), NEW S
  PROVE  /\ IsABag(A (+) SetToBag(S))
         /\ BagToSet(A (+) SetToBag(S)) = BagToSet(A) \cup S
<1>1. DOMAIN (A (+) SetToBag(S)) = DOMAIN A \cup S
  BY DEF SetToBag, (+)
<1>2. \A e \in DOMAIN A : A[e] \in Nat /\ A[e] > 0
  BY DEF IsABag
<1>3. A (+) SetToBag(S) \in [DOMAIN A \cup S -> {n \in Nat : n > 0}]
  BY <1>2 DEF SetToBag, (+)
<1>4. QED
  BY <1>1, <1>3 DEF IsABag, BagToSet

LEMMA WithBag ==
  ASSUME NEW A, IsABag(A), NEW x
  PROVE  IsABag(With(A, x)) /\ BagToSet(With(A, x)) = BagToSet(A) \cup {x}
BY SumBag DEF With

LEMMA WithoutBag ==
  ASSUME NEW A, IsABag(A), NEW x
  PROVE  /\ IsABag(Without(A, x))
         /\ BagToSet(Without(A, x)) \subseteq BagToSet(A)
         /\ \A y \in BagToSet(A) : y # x => y \in BagToSet(Without(A, x))
<1> DEFINE B == [e \in DOMAIN A |-> IF e \in {x} THEN A[e] - 1 ELSE A[e]]
<1>1. Without(A, x) = [e \in {d \in DOMAIN B : B[d] > 0} |-> B[e]]
  BY DEF Without, (-), SetToBag
<1>2. \A e \in DOMAIN A : A[e] \in Nat /\ A[e] > 0
  BY DEF IsABag
<1>3. \A e \in DOMAIN A : B[e] \in Int /\ (e # x => B[e] > 0)
  BY <1>2
<1>4. Without(A, x) \in [{d \in DOMAIN B : B[d] > 0} -> {n \in Nat : n > 0}]
  BY <1>1, <1>3
<1>5. QED
  BY <1>3, <1>4 DEF IsABag, BagToSet

----------------------------------------------------------------------------
(* The sums of the unread counts. *)

Count == [n: Nat, v: Nat]

Units(b, T) == UNION {{t} \X (1..b[t].n) : t \in T}

LEMMA FiniteUnits ==
  ASSUME NEW T, IsFiniteSet(T), NEW b, \A t \in T : b[t].n \in Nat
  PROVE  IsFiniteSet(Units(b, T)) /\ Cardinality(Units(b, T)) \in Nat
<1> DEFINE f == [t \in T |-> {t} \X (1..b[t].n)]
           I == {{t} \X (1..b[t].n) : t \in T}
<1>1. f \in Surjection(T, I)
  BY DEF Surjection
<1>2. IsFiniteSet(I)
  BY <1>1, FS_Surjection
<1>3. \A t \in T : IsFiniteSet({t} \X (1..b[t].n))
  <2> TAKE t \in T
  <2>1. 1 \in Int /\ b[t].n \in Int
    OBVIOUS
  <2>2. IsFiniteSet({t}) /\ IsFiniteSet(1..b[t].n)
    BY <2>1, FS_Singleton, FS_Interval
  <2>3. QED
    BY <2>2, FS_Product
<1>4. IsFiniteSet(UNION I)
  BY <1>2, <1>3, FS_UNION
<1>5. QED
  BY <1>4, FS_CardinalityType DEF Units

(* The sum of all counts is that of the rooms and that of the              *)
(* conversations.                                                          *)
LEMMA Totals ==
  ASSUME NEW b \in [Threads -> Count]
  PROVE  /\ BadgeTotal(b) = SumOf(b, Rooms) + SumOf(b, Convs)
         /\ SumOf(b, Rooms) \in Nat /\ SumOf(b, Convs) \in Nat /\ BadgeTotal(b) \in Nat
<1>1. IsFiniteSet(Threads) /\ Rooms \cap Convs = {}
  BY AppAssumption
<1>2. IsFiniteSet(Rooms) /\ IsFiniteSet(Convs)
  BY <1>1, FS_Subset DEF Threads
<1>3. \A t \in Threads : b[t].n \in Nat
  BY DEF Count
<1>4. /\ IsFiniteSet(Units(b, Rooms)) /\ Cardinality(Units(b, Rooms)) \in Nat
      /\ IsFiniteSet(Units(b, Convs)) /\ Cardinality(Units(b, Convs)) \in Nat
      /\ Cardinality(Units(b, Threads)) \in Nat
  BY <1>1, <1>2, <1>3, FiniteUnits DEF Threads
<1>5. Units(b, Threads) = Units(b, Rooms) \cup Units(b, Convs)
  BY DEF Units, Threads
<1>6. Units(b, Rooms) \cap Units(b, Convs) = {}
  BY <1>1 DEF Units
<1>7. Cardinality(Units(b, Threads))
        = Cardinality(Units(b, Rooms)) + Cardinality(Units(b, Convs))
            - Cardinality(Units(b, Rooms) \cap Units(b, Convs))
  BY <1>4, <1>5, FS_Union
<1>8. Cardinality(Units(b, Rooms) \cap Units(b, Convs)) = 0
  BY <1>6, FS_EmptySet
<1>9. \A T : SumOf(b, T) = Cardinality(Units(b, T))
  BY DEF SumOf, Units
<1>10. QED
  BY <1>4, <1>7, <1>8, <1>9 DEF BadgeTotal

----------------------------------------------------------------------------
(* Types *)

Entries == [thread: Threads, event: BOOLEAN, count: Count]

(* Which thread a message names depends on what it is. *)
ThreadsOf(is) ==
  IF is \in {"openRoom", "joined"} THEN Rooms
  ELSE IF is = "openDM" THEN Convs \cup {None}
  ELSE IF is = "marked" THEN Threads
  ELSE {None}

Shows == {"showRooms", "showDMs", "showInbox", "leaveRoom", "leaveDM"}

IsMsg(m) ==
  /\ m.is \in {"badges", "entries", "entriesError", "marked", "joined", "found", "openRoom",
               "openDM"} \cup Shows
  /\ m.thread \in ThreadsOf(m.is)
  /\ m.counts \in [Threads -> Count]
  /\ m.list \subseteq Entries

IsCmd(c) ==
  \/ c = FetchEntries \/ c = FetchBadges
  \/ c.do \in {"read", "markAsRead"} /\ c.thread \in Threads

(* What is on its way. *)
AsyncTypes ==
  /\ IsABag(mail) /\ \A m \in BagToSet(mail) : IsMsg(m)
  /\ IsABag(work) /\ \A c \in BagToSet(work) : IsCmd(c)
  /\ screen = "auth" => work = EmptyBag /\ mail = EmptyBag

ServerTypes ==
  /\ pushes \in Seq([thread: Threads, count: Count])
  /\ feed \in Seq([thread: Threads, event: BOOLEAN])
  /\ unread \in [Threads -> Count]
  /\ online \in BOOLEAN
  /\ screen = "auth" => ~online /\ pushes = <<>>

ScreenTypes ==
  /\ crashed \in BOOLEAN
  /\ screen \in {"auth"} \cup ListScreens \cup Chats
  /\ current \in Rooms \cup {None}
  /\ badge \in [Threads -> Count]
  /\ total \in Nat /\ late \in BOOLEAN
  /\ creating \in BOOLEAN
  /\ listed \in BOOLEAN
  /\ entries \subseteq Entries
  /\ screen # "inbox" => entries = {}
  /\ behind \in SUBSET Threads

AppTypes == ScreenTypes /\ AsyncTypes /\ ServerTypes

(* The counts, and the messages that carry none. *)
LEMMA PlainTypes ==
  /\ Unknown \in Count /\ NoCounts \in [Threads -> Count]
  /\ \A is, t : /\ Msg(is, t).is = is /\ Msg(is, t).thread = t
                /\ Msg(is, t).counts = NoCounts /\ Msg(is, t).list = {}
  /\ \A is \in Shows : IsMsg(Msg(is, None))
  /\ IsMsg(Msg("entriesError", None)) /\ IsMsg(Msg("found", None)) /\ IsMsg(Msg("openDM", None))
  /\ \A r \in Rooms : IsMsg(Msg("joined", r)) /\ IsMsg(Msg("openRoom", r))
  /\ \A c \in Convs : IsMsg(Msg("openDM", c))
  /\ \A t \in Threads : IsMsg(Msg("marked", t))
<1>1. Unknown \in Count /\ NoCounts \in [Threads -> Count]
  BY DEF Unknown, NoCounts, Count
<1>2. \A is, t : /\ Msg(is, t).is = is /\ Msg(is, t).thread = t
                 /\ Msg(is, t).counts = NoCounts /\ Msg(is, t).list = {}
  BY DEF Msg
<1>3. \A is, t : /\ t \in ThreadsOf(is)
                 /\ is \in {"entriesError", "marked", "joined", "found", "openRoom", "openDM"}
                      \cup Shows
                 => IsMsg(Msg(is, t))
  BY <1>1, <1>2 DEF IsMsg
<1>4. \A is \in Shows : None \in ThreadsOf(is)
  BY DEF ThreadsOf, Shows
<1>5. /\ None \in ThreadsOf("entriesError") /\ None \in ThreadsOf("found")
      /\ None \in ThreadsOf("openDM")
      /\ \A r \in Rooms : r \in ThreadsOf("joined") /\ r \in ThreadsOf("openRoom")
      /\ \A c \in Convs : c \in ThreadsOf("openDM")
      /\ \A t \in Threads : t \in ThreadsOf("marked")
  BY DEF ThreadsOf
<1>6. QED
  BY <1>1, <1>2, <1>3, <1>4, <1>5

(* A message with badges. *)
LEMMA BadgesType ==
  ASSUME NEW b \in [Threads -> Count]
  PROVE  /\ IsMsg(BadgesMsg(b)) /\ BadgesMsg(b).is = "badges" /\ BadgesMsg(b).counts = b
         /\ BadgesMsg(b).list = {}
<1>1. BadgesMsg(b) = [is |-> "badges", thread |-> None, counts |-> b, list |-> {}]
  BY DEF BadgesMsg, Msg
<1>2. None \in ThreadsOf("badges")
  BY DEF ThreadsOf
<1>3. QED
  BY <1>1, <1>2 DEF IsMsg

(* A message that a thread was marked. *)
LEMMA MarkedType ==
  ASSUME NEW t \in Threads, NEW c \in Count
  PROVE  LET m == [Msg("marked", t) EXCEPT !.counts[t] = c]
         IN  /\ IsMsg(m) /\ m.is = "marked" /\ m.thread = t /\ m.list = {}
             /\ m.counts = [NoCounts EXCEPT ![t] = c]
<1>1. [Msg("marked", t) EXCEPT !.counts[t] = c]
        = [is |-> "marked", thread |-> t, counts |-> [NoCounts EXCEPT ![t] = c], list |-> {}]
  BY DEF Msg
<1>2. t \in ThreadsOf("marked") /\ [NoCounts EXCEPT ![t] = c] \in [Threads -> Count]
  BY PlainTypes DEF ThreadsOf
<1>3. QED
  BY <1>1, <1>2 DEF IsMsg

(* The entry that a list has of a thread, and the badges of a list. *)
LEMMA EntryOfList ==
  ASSUME NEW es, NEW t, Lists(es, t)
  PROVE  EntryOf(es, t) \in es /\ EntryOf(es, t).thread = t /\ ~EntryOf(es, t).event
BY DEF Lists, EntryOf

LEMMA ComputeType ==
  ASSUME NEW es \in SUBSET Entries
  PROVE  ComputeBadges(es) \in [Threads -> Count]
<1>1. ASSUME NEW t \in Threads, Lists(es, t) PROVE EntryOf(es, t).count \in Count
  BY <1>1, EntryOfList DEF Entries
<1>2. QED
  BY <1>1, PlainTypes DEF ComputeBadges

(* The lists that the inbox makes, and the one that the server answers. *)
LEMMA ListTypes ==
  ASSUME NEW es \in SUBSET Entries, NEW t \in Threads, NEW c \in Count
  PROVE  /\ UpsertEntry(es, Entry(t, FALSE, c)) \subseteq Entries
         /\ ZeroUnreadCount(es, t, c) \subseteq Entries
<1>1. UpsertEntry(es, Entry(t, FALSE, c)) \subseteq Entries
  <2>1. Entry(t, FALSE, c) \in Entries
    BY DEF Entry, Entries
  <2>2. QED
    BY <2>1 DEF UpsertEntry
<1>2. ASSUME NEW e \in es PROVE [e EXCEPT !.count = c] \in Entries
  BY DEF Entries
<1>3. ZeroUnreadCount(es, t, c) \subseteq Entries
  BY <1>2 DEF ZeroUnreadCount
<1>4. QED
  BY <1>1, <1>3

LEMMA FeedTypes ==
  ASSUME ServerTypes
  PROVE  /\ DOMAIN feed = 1..Len(feed) /\ Len(feed) \in Nat
         /\ DOMAIN pushes = 1..Len(pushes) /\ Len(pushes) \in Nat
         /\ \A i \in DOMAIN feed :
              /\ feed[i] \in [thread: Threads, event: BOOLEAN]
              /\ feed[i].thread \in Threads /\ feed[i].event \in BOOLEAN
         /\ \A i \in DOMAIN pushes :
              /\ pushes[i] \in [thread: Threads, count: Count]
              /\ pushes[i].thread \in Threads /\ pushes[i].count \in Count
<1> DEFINE S == [thread: Threads, event: BOOLEAN]
           P == [thread: Threads, count: Count]
<1>1. feed \in Seq(S) /\ pushes \in Seq(P)
  BY DEF ServerTypes
<1>2. /\ \A x \in S : x.thread \in Threads /\ x.event \in BOOLEAN
      /\ \A x \in P : x.thread \in Threads /\ x.count \in Count
  OBVIOUS
<1> HIDE DEF S, P
<1>3. /\ DOMAIN feed = 1..Len(feed) /\ Len(feed) \in Nat
      /\ \A i \in 1..Len(feed) : feed[i] \in S
  BY <1>1
<1>4. /\ DOMAIN pushes = 1..Len(pushes) /\ Len(pushes) \in Nat
      /\ \A i \in 1..Len(pushes) : pushes[i] \in P
  BY <1>1
<1>5. QED
  BY <1>2, <1>3, <1>4 DEF S, P

LEMMA SnapshotType ==
  ASSUME ServerTypes
  PROVE  Snapshot \subseteq Entries
<1>1. \A i \in DOMAIN feed : feed[i].thread \in Threads /\ feed[i].event \in BOOLEAN
  BY FeedTypes
<1>2. ASSUME NEW i \in DOMAIN feed
      PROVE  Entry(feed[i].thread, feed[i].event,
                   IF feed[i].event THEN Unknown ELSE unread[feed[i].thread]) \in Entries
  <2>1. unread[feed[i].thread] \in Count /\ Unknown \in Count
    BY <1>1, PlainTypes DEF ServerTypes
  <2>2. QED
    BY <1>1, <2>1 DEF Entry, Entries
<1>3. QED
  BY <1>2 DEF Snapshot

(* What Take does to the messages and commands that are on their way. *)
LEMMA TakeMoves ==
  ASSUME AsyncTypes, NEW m, NEW cmds, NEW msgs, Take(m, cmds, msgs)
  PROVE  /\ IsABag(mail') /\ BagToSet(mail') \subseteq BagToSet(mail) \cup msgs
         /\ msgs \subseteq BagToSet(mail')
         /\ \A x \in BagToSet(mail) : x # m => x \in BagToSet(mail')
         /\ IsABag(work') /\ BagToSet(work') = BagToSet(work) \cup cmds
<1>1. IsABag(mail) /\ IsABag(work)
  BY DEF AsyncTypes
<1>2. /\ mail' = Without(mail, m) (+) SetToBag(msgs)
      /\ work' = work (+) SetToBag(cmds)
  BY DEF Take
<1>3. /\ IsABag(Without(mail, m)) /\ BagToSet(Without(mail, m)) \subseteq BagToSet(mail)
      /\ \A x \in BagToSet(mail) : x # m => x \in BagToSet(Without(mail, m))
  BY <1>1, WithoutBag
<1>4. IsABag(mail') /\ BagToSet(mail') = BagToSet(Without(mail, m)) \cup msgs
  BY <1>2, <1>3, SumBag
<1>5. IsABag(work') /\ BagToSet(work') = BagToSet(work) \cup cmds
  BY <1>1, <1>2, SumBag
<1>6. QED
  BY <1>3, <1>4, <1>5

LEMMA TakeTypes ==
  ASSUME AsyncTypes, NEW m, NEW cmds, NEW msgs, Take(m, cmds, msgs),
         \A c \in cmds : IsCmd(c), \A x \in msgs : IsMsg(x), screen' # "auth"
  PROVE  AsyncTypes'
BY TakeMoves DEF AsyncTypes

(* What a key adds to them. *)
LEMMA StartMoves ==
  ASSUME AsyncTypes, NEW cmds, NEW msgs, Start(cmds, msgs)
  PROVE  /\ IsABag(mail') /\ BagToSet(mail') = BagToSet(mail) \cup msgs
         /\ IsABag(work') /\ BagToSet(work') = BagToSet(work) \cup cmds
<1>1. IsABag(mail) /\ IsABag(work)
  BY DEF AsyncTypes
<1>2. QED
  BY <1>1, SumBag DEF Start

LEMMA StartTypes ==
  ASSUME AsyncTypes, NEW cmds, NEW msgs, Start(cmds, msgs),
         \A c \in cmds : IsCmd(c), \A x \in msgs : IsMsg(x), screen # "auth"
  PROVE  AsyncTypes'
<1>1. screen' = screen
  BY DEF Start
<1>2. QED
  BY <1>1, StartMoves DEF AsyncTypes

(* An answer of the server: a message, or none. *)
LEMMA ServeMoves ==
  ASSUME AsyncTypes, NEW c, work' = Without(work, c),
         mail' = mail \/ \E x : IsMsg(x) /\ mail' = With(mail, x), screen' = screen,
         BagIn(c, work)
  PROVE  /\ AsyncTypes'
         /\ \A x \in BagToSet(work) : x # c => x \in BagToSet(work')
         /\ BagToSet(work') \subseteq BagToSet(work)
         /\ BagToSet(mail) \subseteq BagToSet(mail')
<1>1. IsABag(mail) /\ IsABag(work) /\ screen # "auth"
  <2>1. BagToSet(EmptyBag) = {}
    BY SetBag DEF EmptyBag
  <2>2. QED
    BY <2>1 DEF AsyncTypes, BagIn
<1>2. /\ IsABag(work') /\ BagToSet(work') \subseteq BagToSet(work)
      /\ \A x \in BagToSet(work) : x # c => x \in BagToSet(work')
  BY <1>1, WithoutBag
<1>3. /\ IsABag(mail') /\ \A x \in BagToSet(mail') : IsMsg(x)
      /\ BagToSet(mail) \subseteq BagToSet(mail')
  <2>1. CASE mail' = mail
    BY <2>1 DEF AsyncTypes
  <2>2. CASE \E x : IsMsg(x) /\ mail' = With(mail, x)
    BY <1>1, <2>2, WithBag DEF AsyncTypes
  <2>3. QED
    BY <2>1, <2>2
<1>4. QED
  BY <1>1, <1>2, <1>3 DEF AsyncTypes

(* Who gets mail, or waits for answers, has logged in. *)
LEMMA LoggedIn ==
  ASSUME AsyncTypes, NEW x, BagIn(x, mail) \/ BagIn(x, work)
  PROVE  screen # "auth" /\ (BagIn(x, mail) => IsMsg(x)) /\ (BagIn(x, work) => IsCmd(x))
<1>1. BagToSet(EmptyBag) = {}
  BY SetBag DEF EmptyBag
<1>2. QED
  BY <1>1 DEF AsyncTypes, BagIn

LEMMA FallsType ==
  ASSUME behind \in SUBSET Threads, NEW T \in SUBSET Threads, Falls(T)
  PROVE  behind' \in SUBSET Threads
BY DEF Falls

(* A screen with a list, and one with a chat. *)
LEMMA ShowTypes ==
  ASSUME ScreenTypes, NEW s, \/ s \in ListScreens /\ ShowList(s)
                             \/ s \in Chats /\ ShowChat(s)
  PROVE  /\ screen' = s /\ screen' \in ListScreens \cup Chats /\ screen' # "auth"
         /\ total' \in Nat /\ late' = FALSE /\ creating' = FALSE
         /\ listed' = FALSE /\ entries' = {}
<1>1. BadgeTotal(badge) \in Nat
  BY Totals DEF ScreenTypes
<1>2. QED
  BY <1>1 DEF ShowList, ShowChat, ListScreens, Chats

(* The servers' variables are typed where they do not change. *)
LEMMA ServerUnchanged ==
  ASSUME ServerTypes, UNCHANGED <<pushes, serverVars>>, screen' = "auth" => screen = "auth"
  PROVE  ServerTypes'
BY DEF ServerTypes, serverVars

(* Logging in and changing the screen. *)
LEMMA LoginTypes ==
  ASSUME AppTypes, Login
  PROVE  AppTypes'
<1>1. /\ ShowList("rooms") /\ work' = SetToBag({FetchBadges}) /\ mail' = EmptyBag
      /\ UNCHANGED <<crashed, current, badge, pushes, serverVars, behind>>
  BY DEF Login
<1>2. /\ screen' = "rooms" /\ total' \in Nat /\ late' = FALSE /\ creating' = FALSE
      /\ listed' = FALSE /\ entries' = {}
  BY <1>1, ShowTypes DEF AppTypes, ListScreens
<1>3. ScreenTypes'
  BY <1>1, <1>2 DEF AppTypes, ScreenTypes, ListScreens
<1>4. AsyncTypes'
  BY <1>1, <1>2, SetBag DEF AsyncTypes, EmptyBag, IsCmd
<1>5. ServerTypes'
  BY <1>1, <1>2, ServerUnchanged DEF AppTypes
<1>6. QED
  BY <1>3, <1>4, <1>5 DEF AppTypes

LEMMA ShowListTypes ==
  ASSUME AppTypes, NEW m, TakeShowList(m) \/ TakeLeaveRoom(m)
  PROVE  AppTypes'
<1>1. PICK s \in ListScreens, cmds \in SUBSET {FetchEntries, FetchBadges} :
        \/ ShowList(s) /\ Take(m, cmds, {}) /\ crashed' = crashed
        \/ UNCHANGED <<screen, total, late, creating, listed, entries, asyncVars>> /\ crashed' = TRUE
  BY DEF TakeShowList, TakeLeaveRoom, ListScreens, InitCmds
<1>2. /\ current' \in {current, None} /\ UNCHANGED <<badge, pushes, serverVars>>
      /\ screen # "auth"
  BY LoggedIn DEF TakeShowList, TakeLeaveRoom, AppTypes
<1>3. behind' \in SUBSET Threads
  <2>1. CASE TakeShowList(m)
    <3>1. PICK T \in SUBSET Threads : Falls(T)
      BY <2>1 DEF TakeShowList
    <3>2. QED
      BY <3>1, FallsType DEF AppTypes, ScreenTypes
  <2>2. CASE TakeLeaveRoom(m)
    BY <2>2 DEF TakeLeaveRoom, AppTypes, ScreenTypes
  <2>3. QED
    BY <2>1, <2>2
<1>4. CASE ShowList(s) /\ Take(m, cmds, {}) /\ crashed' = crashed
  <2>1. /\ screen' = s /\ screen' # "auth" /\ total' \in Nat /\ late' = FALSE /\ creating' = FALSE
        /\ listed' = FALSE /\ entries' = {}
    BY <1>4, ShowTypes DEF AppTypes
  <2>2. ScreenTypes'
    BY <1>2, <1>3, <1>4, <2>1 DEF AppTypes, ScreenTypes
  <2>3. AsyncTypes'
    BY <1>4, <2>1, TakeTypes DEF AppTypes, IsCmd
  <2>4. QED
    BY <1>2, <2>1, <2>2, <2>3, ServerUnchanged DEF AppTypes
<1>5. CASE UNCHANGED <<screen, total, late, creating, listed, entries, asyncVars>> /\ crashed' = TRUE
  <2>1. ScreenTypes'
    BY <1>2, <1>3, <1>5 DEF AppTypes, ScreenTypes
  <2>2. AsyncTypes'
    BY <1>5 DEF AppTypes, AsyncTypes, asyncVars
  <2>3. QED
    BY <1>2, <1>5, <2>1, <2>2, ServerUnchanged DEF AppTypes
<1>6. QED
  BY <1>1, <1>4, <1>5

LEMMA OpenTypes ==
  ASSUME AppTypes, NEW m, TakeOpenRoom(m) \/ TakeOpenDM(m)
  PROVE  AppTypes'
<1>1. IsMsg(m) /\ screen # "auth" /\ UNCHANGED <<crashed, badge, pushes, serverVars, behind>>
  BY LoggedIn DEF TakeOpenRoom, TakeOpenDM, AppTypes
<1>2. PICK s \in Chats, cmds \in SUBSET {Cmd("read", m.thread)} :
        ShowChat(s) /\ Take(m, cmds, {}) /\ (m.thread = None => cmds = {})
  <2>1. CASE TakeOpenRoom(m)
    <3>1. m.thread # None
      BY <1>1, <2>1, AppAssumption DEF TakeOpenRoom, IsMsg, ThreadsOf, Threads
    <3>2. QED
      BY <2>1, <3>1 DEF TakeOpenRoom, Chats
  <2>2. CASE TakeOpenDM(m)
    BY <2>2 DEF TakeOpenDM, Chats
  <2>3. QED
    BY <2>1, <2>2
<1>3. current' \in Rooms \cup {None}
  BY <1>1 DEF TakeOpenRoom, TakeOpenDM, IsMsg, ThreadsOf, AppTypes, ScreenTypes
<1>4. /\ screen' = s /\ screen' # "auth" /\ total' \in Nat /\ late' = FALSE /\ creating' = FALSE
      /\ listed' = FALSE /\ entries' = {}
  BY <1>2, ShowTypes DEF AppTypes
<1>5. ScreenTypes'
  BY <1>1, <1>3, <1>4 DEF AppTypes, ScreenTypes
<1>6. \A c \in cmds : IsCmd(c)
  <2>1. m.thread \in Threads \cup {None}
    BY <1>1 DEF TakeOpenRoom, TakeOpenDM, IsMsg, ThreadsOf, Threads
  <2>2. QED
    BY <1>2, <2>1 DEF IsCmd, Cmd
<1>7. AsyncTypes'
  BY <1>2, <1>4, <1>6, TakeTypes DEF AppTypes
<1>8. QED
  BY <1>1, <1>4, <1>5, <1>7, ServerUnchanged DEF AppTypes

(* The counts arrive: all of them, or one. *)
LEMMA TakeBadgesTypes ==
  ASSUME AppTypes, NEW m, TakeBadges(m)
  PROVE  AppTypes'
<1>1. IsMsg(m) /\ screen # "auth" /\ badge' = m.counts /\ Take(m, {}, {})
  BY LoggedIn DEF TakeBadges, AppTypes
<1>2. UNCHANGED <<crashed, screen, current, creating, listed, entries, pushes, serverVars>>
  BY DEF TakeBadges
<1>3. badge' \in [Threads -> Count] /\ total' \in Nat /\ late' \in BOOLEAN
  <2>1. badge' \in [Threads -> Count]
    BY <1>1 DEF IsMsg
  <2>2. BadgeTotal(badge') \in Nat
    BY <2>1, Totals
  <2>3. QED
    BY <2>1, <2>2 DEF TakeBadges, AppTypes, ScreenTypes
<1>4. behind' \in SUBSET Threads
  BY FallsType DEF TakeBadges, AppTypes, ScreenTypes
<1>5. ScreenTypes'
  BY <1>2, <1>3, <1>4 DEF AppTypes, ScreenTypes
<1>6. AsyncTypes'
  BY <1>1, <1>2, TakeTypes DEF AppTypes
<1>7. QED
  BY <1>2, <1>5, <1>6, ServerUnchanged DEF AppTypes

(* What is left of the pushes. *)
LEMMA PushTypes ==
  ASSUME ServerTypes, pushes # <<>>
  PROVE  /\ Head(pushes).thread \in Threads /\ Head(pushes).count \in Count
         /\ Head(pushes) = pushes[1] /\ 1 \in DOMAIN pushes
         /\ Tail(pushes) \in Seq([thread: Threads, count: Count])
         /\ DOMAIN Tail(pushes) = 1..(Len(pushes) - 1)
         /\ \A i \in DOMAIN Tail(pushes) : Tail(pushes)[i] = pushes[i + 1]
<1> DEFINE P == [thread: Threads, count: Count]
<1>1. pushes \in Seq(P)
  BY DEF ServerTypes
<1> HIDE DEF P
<1>2. /\ Head(pushes) = pushes[1] /\ 1 \in DOMAIN pushes
      /\ Tail(pushes) \in Seq(P)
      /\ Len(Tail(pushes)) = Len(pushes) - 1
      /\ \A i \in 1..(Len(pushes) - 1) : Tail(pushes)[i] = pushes[i + 1]
  BY <1>1
<1>3. DOMAIN Tail(pushes) = 1..(Len(pushes) - 1)
  BY <1>2
<1>4. QED
  BY <1>2, <1>3, FeedTypes DEF P

LEMMA TakePushTypes ==
  ASSUME AppTypes, TakePush
  PROVE  AppTypes'
<1> DEFINE t == Head(pushes).thread
           c == Head(pushes).count
           es == UpsertEntry(entries, Entry(t, FALSE, c))
<1>1. /\ t \in Threads /\ c \in Count
      /\ Tail(pushes) \in Seq([thread: Threads, count: Count]) /\ pushes # <<>>
  BY PushTypes DEF TakePush, AppTypes
<1>2. /\ badge' = [badge EXCEPT ![t] = c] /\ pushes' = Tail(pushes)
      /\ UNCHANGED <<crashed, screen, current, creating, listed, work, serverVars>>
      /\ screen # "auth"
  BY DEF TakePush, AppTypes, ServerTypes
<1>3. \/ screen = "inbox" /\ entries' = es /\ mail' = With(mail, BadgesMsg(ComputeBadges(es)))
      \/ screen # "inbox" /\ UNCHANGED <<entries, mail>>
  BY DEF TakePush
<1>4. es \subseteq Entries
  BY <1>1, ListTypes DEF AppTypes, ScreenTypes
<1>5. IsMsg(BadgesMsg(ComputeBadges(es)))
  BY <1>4, ComputeType, BadgesType
<1>6. behind' \in SUBSET Threads
  BY FallsType DEF TakePush, AppTypes, ScreenTypes
<1>7. badge' \in [Threads -> Count] /\ total' \in Nat /\ late' \in BOOLEAN
  <2>1. badge' \in [Threads -> Count]
    BY <1>1, <1>2 DEF AppTypes, ScreenTypes
  <2>2. BadgeTotal(badge') \in Nat
    BY <2>1, Totals
  <2>3. total' \in Nat
    BY <2>2 DEF TakePush, AppTypes, ScreenTypes
  <2>4. late' \in BOOLEAN
    BY DEF TakePush
  <2>5. QED
    BY <2>1, <2>3, <2>4
<1>8. ScreenTypes'
  <2>1. entries' \subseteq Entries /\ (screen' # "inbox" => entries' = {})
    BY <1>2, <1>3, <1>4 DEF AppTypes, ScreenTypes
  <2>2. QED
    BY <1>2, <1>6, <1>7, <2>1 DEF AppTypes, ScreenTypes
<1>9. AsyncTypes'
  <2>1. IsABag(mail') /\ \A m \in BagToSet(mail') : IsMsg(m)
    <3>1. IsABag(mail) /\ \A m \in BagToSet(mail) : IsMsg(m)
      BY DEF AppTypes, AsyncTypes
    <3>2. \A x : IsABag(With(mail, x)) /\ BagToSet(With(mail, x)) = BagToSet(mail) \cup {x}
      BY <3>1, WithBag
    <3>3. mail' = mail \/ mail' = With(mail, BadgesMsg(ComputeBadges(es)))
      BY <1>3
    <3> HIDE DEF es
    <3>4. QED
      BY <1>5, <3>1, <3>2, <3>3
  <2>2. QED
    BY <1>2, <2>1 DEF AppTypes, AsyncTypes
<1>10. ServerTypes'
  BY <1>1, <1>2 DEF AppTypes, ServerTypes, serverVars
<1>11. QED
  BY <1>8, <1>9, <1>10 DEF AppTypes

(* The inbox has a new list, and tells of its badges. *)
LEMMA EntriesTypes ==
  ASSUME AppTypes, NEW m, TakeEntries(m) \/ TakeMarked(m) \/ TakeEntriesError(m)
  PROVE  AppTypes'
<1>1. /\ screen = "inbox" /\ IsMsg(m)
      /\ UNCHANGED <<crashed, screen, current, badge, total, late, creating, listed, pushes,
                     serverVars>>
  BY LoggedIn DEF TakeEntries, TakeMarked, TakeEntriesError, AppTypes
<1>2. behind' \in SUBSET Threads
  <2>1. CASE TakeMarked(m)
    <3>1. m.thread \in Threads
      BY <1>1, <2>1 DEF TakeMarked, IsMsg, ThreadsOf
    <3>2. QED
      BY <2>1, <3>1, FallsType DEF TakeMarked, AppTypes, ScreenTypes
  <2>2. QED
    BY <2>1 DEF TakeEntries, TakeEntriesError, AppTypes, ScreenTypes
<1>3. CASE TakeEntriesError(m)
  <2>1. Take(m, {}, {}) /\ entries' = entries
    BY <1>3 DEF TakeEntriesError
  <2>2. AsyncTypes'
    BY <1>1, <2>1, TakeTypes DEF AppTypes
  <2>3. QED
    BY <1>1, <1>2, <2>1, <2>2, ServerUnchanged DEF AppTypes, ScreenTypes
<1>4. CASE TakeEntries(m) \/ TakeMarked(m)
  <2>1. PICK es \in SUBSET Entries : SetEntries(m, es)
    <3>1. CASE TakeEntries(m)
      BY <1>1, <3>1 DEF TakeEntries, IsMsg
    <3>2. CASE TakeMarked(m)
      <4>1. m.thread \in Threads /\ m.counts[m.thread] \in Count
        BY <1>1, <3>2 DEF TakeMarked, IsMsg, ThreadsOf
      <4>2. ZeroUnreadCount(entries, m.thread, m.counts[m.thread]) \subseteq Entries
        BY <4>1, ListTypes DEF AppTypes, ScreenTypes
      <4>3. QED
        BY <3>2, <4>2 DEF TakeMarked
    <3>3. QED
      BY <1>4, <3>1, <3>2
  <2>2. IsMsg(BadgesMsg(ComputeBadges(es)))
    BY ComputeType, BadgesType
  <2>3. entries' = es /\ Take(m, {}, {BadgesMsg(ComputeBadges(es))})
    BY <2>1 DEF SetEntries
  <2>4. AsyncTypes'
    BY <1>1, <2>2, <2>3, TakeTypes DEF AppTypes
  <2>5. ScreenTypes'
    BY <1>1, <1>2, <2>3 DEF AppTypes, ScreenTypes
  <2>6. QED
    BY <1>1, <2>4, <2>5, ServerUnchanged DEF AppTypes
<1>5. QED
  BY <1>3, <1>4

(* The other messages to a screen. *)
LEMMA OtherMailTypes ==
  ASSUME AppTypes, NEW m, TakeFound(m) \/ TakeForeign(m)
  PROVE  AppTypes'
<1>1. /\ IsMsg(m) /\ screen # "auth" /\ UNCHANGED <<uiVars, pushes, serverVars>>
  BY LoggedIn DEF TakeFound, TakeForeign, AppTypes
<1>2. behind' \in SUBSET Threads
  <2>1. CASE TakeForeign(m)
    <3>1. m.is = "marked" => m.thread \in Threads
      BY <1>1 DEF IsMsg, ThreadsOf
    <3>2. QED
      BY <2>1, <3>1, FallsType DEF TakeForeign, AppTypes, ScreenTypes
  <2>2. QED
    BY <2>1 DEF TakeFound, AppTypes, ScreenTypes
<1>3. PICK msgs : Take(m, {}, msgs) /\ \A x \in msgs : IsMsg(x)
  <2>1. CASE TakeFound(m)
    <3>1. m.is \in {"joined", "found"}
      BY <2>1 DEF TakeFound
    <3>2. IsMsg(Msg(IF m.is = "joined" THEN "openRoom" ELSE "openDM", m.thread))
      BY <1>1, <3>1, PlainTypes DEF IsMsg, ThreadsOf
    <3>3. QED
      BY <2>1, <3>2 DEF TakeFound
  <2>2. CASE TakeForeign(m)
    BY <2>2 DEF TakeForeign
  <2>3. QED
    BY <2>1, <2>2
<1>4. ScreenTypes'
  BY <1>1, <1>2 DEF AppTypes, ScreenTypes, uiVars
<1>5. AsyncTypes'
  BY <1>1, <1>3, TakeTypes DEF AppTypes, uiVars
<1>6. QED
  BY <1>1, <1>4, <1>5, ServerUnchanged DEF AppTypes, uiVars

LEMMA FlagTypes ==
  ASSUME AppTypes, TakeLoaded \/ TakeFormClosing \/ PressForm
  PROVE  AppTypes'
<1>1. /\ UNCHANGED <<crashed, screen, current, badge, total, late, entries, asyncVars, pushes,
                     serverVars, behind>>
  BY DEF TakeLoaded, TakeFormClosing, PressForm
<1>2. listed' \in BOOLEAN /\ creating' \in BOOLEAN
  BY DEF TakeLoaded, TakeFormClosing, PressForm, AppTypes, ScreenTypes
<1>3. AsyncTypes'
  BY <1>1 DEF AppTypes, AsyncTypes, asyncVars
<1>4. QED
  BY <1>1, <1>2, <1>3, ServerUnchanged DEF AppTypes, ScreenTypes

(* Keys *)
LEMMA KeyTypes ==
  ASSUME AppTypes, Key
  PROVE  AppTypes'
<1>1. ASSUME NEW cmds, NEW msgs, Start(cmds, msgs), creating' \in BOOLEAN, screen # "auth",
             \A c \in cmds : IsCmd(c), \A x \in msgs : IsMsg(x)
      PROVE  AppTypes'
  <2>1. UNCHANGED <<crashed, screen, current, badge, total, late, listed, entries, pushes,
                    serverVars, behind>>
    BY <1>1 DEF Start
  <2>2. AsyncTypes'
    BY <1>1, StartTypes DEF AppTypes
  <2>3. QED
    BY <1>1, <2>1, <2>2, ServerUnchanged DEF AppTypes, ScreenTypes
<1>2. creating \in BOOLEAN
  BY DEF AppTypes, ScreenTypes
<1>3. CASE PressTab
  <2>1. PICK is \in {"showRooms", "showDMs", "showInbox"} : Start({}, {Msg(is, None)})
    BY <1>3 DEF PressTab, ListScreens
  <2>2. QED
    BY <1>1, <1>2, <1>3, <2>1, PlainTypes DEF PressTab, ListScreens, Shows
<1>4. CASE PressEscInChat
  BY <1>1, <1>2, <1>4, PlainTypes DEF PressEscInChat, Chats, Shows
<1>5. CASE PressRefresh
  <2>1. screen = "inbox" /\ Start({FetchEntries}, {}) /\ creating' = creating
    BY <1>5 DEF PressRefresh, InitCmds
  <2>2. QED
    BY <1>1, <1>2, <2>1 DEF IsCmd
<1>6. CASE PressEnterInForm
  <2>1. PICK msgs \in SUBSET {Msg("found", None)} : Start({}, msgs)
    BY <1>6 DEF PressEnterInForm
  <2>2. QED
    BY <1>1, <1>6, <2>1, PlainTypes DEF PressEnterInForm
<1>7. ASSUME NEW r \in Rooms, PressEnterOnRoom(r) PROVE AppTypes'
  BY <1>1, <1>2, <1>7, PlainTypes DEF PressEnterOnRoom
<1>8. ASSUME NEW c \in Convs, PressEnterOnConv(c) PROVE AppTypes'
  BY <1>1, <1>2, <1>8, PlainTypes DEF PressEnterOnConv
<1>9. ASSUME NEW e \in entries, PressMark(e) \/ PressEnterOnEntry(e) PROVE AppTypes'
  <2>1. e.thread \in Threads
    BY DEF AppTypes, ScreenTypes, Entries
  <2>2. IsCmd(MarkAsReadCmd(e))
    BY <2>1 DEF IsCmd, MarkAsReadCmd
  <2>3. IsMsg(Msg(IF e.thread \in Rooms THEN "openRoom" ELSE "openDM", e.thread))
    BY <2>1, PlainTypes DEF Threads
  <2>4. QED
    BY <1>1, <1>2, <1>9, <2>2, <2>3 DEF PressMark, PressEnterOnEntry
<1>10. QED
  BY <1>3, <1>4, <1>5, <1>6, <1>7, <1>8, <1>9, FlagTypes DEF Key

(* The server answers. *)
LEMMA Answered ==
  ASSUME AppTypes, NEW c, ServeFetch(c) \/ ServeRead(c) \/ ServeMarkAsRead(c) \/ ServeFails(c)
  PROVE  /\ work' = Without(work, c) /\ BagIn(c, work)
         /\ mail' = mail \/ \E x : IsMsg(x) /\ mail' = With(mail, x)
         /\ UNCHANGED <<uiVars, pushes, online, feed>>
         /\ unread' \in [Threads -> Count]
         /\ behind' \in SUBSET Threads
<1>1. BagIn(c, work) /\ IsCmd(c) /\ work' = Without(work, c)
  BY LoggedIn DEF AppTypes, ServeFetch, ServeRead, ServeMarkAsRead, ServeFails
<1>2. /\ UNCHANGED <<uiVars, pushes, online, feed>>
      /\ unread \in [Threads -> Count] /\ behind \in SUBSET Threads
  BY DEF ServeFetch, ServeRead, ServeMarkAsRead, ServeFails, serverVars, AppTypes, ServerTypes,
         ScreenTypes
<1>3. CASE ServeFetch(c)
  <2>1. Snapshot \subseteq Entries
    BY SnapshotType DEF AppTypes
  <2>2. IsMsg(BadgesMsg(ComputeBadges(Snapshot)))
    BY <2>1, ComputeType, BadgesType
  <2>3. IsMsg([Msg("entries", None) EXCEPT !.list = Snapshot])
    BY <2>1, PlainTypes DEF IsMsg, Msg, ThreadsOf
  <2>4. IsMsg(Fetched(c))
    BY <2>2, <2>3 DEF Fetched
  <2>5. QED
    BY <1>1, <1>2, <1>3, <2>4 DEF ServeFetch, serverVars
<1>4. ASSUME Reset(c.thread), c.thread \in Threads
      PROVE  unread' \in [Threads -> Count] /\ unread'[c.thread] \in Count
  <2>1. unread[c.thread].v \in Nat
    BY <1>2, <1>4 DEF Count
  <2>2. [n |-> 0, v |-> unread[c.thread].v + 1] \in Count
    BY <2>1 DEF Count
  <2>3. unread' = [unread EXCEPT ![c.thread] = [n |-> 0, v |-> unread[c.thread].v + 1]]
    BY <1>4 DEF Reset
  <2>4. QED
    BY <1>2, <1>4, <2>2, <2>3
<1>5. CASE ServeRead(c)
  <2>1. c.thread \in Threads
    BY <1>1, <1>5 DEF ServeRead, IsCmd, FetchEntries, FetchBadges, Cmd
  <2>2. behind' \in SUBSET Threads
    BY <1>2, <1>5, <2>1, FallsType DEF ServeRead
  <2>3. QED
    BY <1>1, <1>2, <1>4, <1>5, <2>1, <2>2 DEF ServeRead
<1>6. CASE ServeMarkAsRead(c)
  <2>1. c.thread \in Threads
    BY <1>1, <1>6 DEF ServeMarkAsRead, IsCmd, FetchEntries, FetchBadges, Cmd
  <2>2. IsMsg([Msg("marked", c.thread) EXCEPT !.counts[c.thread] = unread'[c.thread]])
    BY <1>4, <1>6, <2>1, MarkedType DEF ServeMarkAsRead
  <2>3. QED
    BY <1>1, <1>2, <1>4, <1>6, <2>1, <2>2 DEF ServeMarkAsRead
<1>7. CASE ServeFails(c)
  <2>1. behind' \in SUBSET Threads
    BY <1>2, <1>7, FallsType DEF ServeFails
  <2>2. c.do = "markAsRead" => c.thread \in Threads
    BY <1>1 DEF IsCmd, FetchEntries, FetchBadges, Cmd
  <2>3. mail' = mail \/ \E x : IsMsg(x) /\ mail' = With(mail, x)
    BY <1>7, <2>2, PlainTypes DEF ServeFails
  <2>4. QED
    BY <1>1, <1>2, <1>7, <2>1, <2>3 DEF ServeFails, serverVars
<1>8. QED
  BY <1>3, <1>5, <1>6, <1>7

LEMMA AnswerTypes ==
  ASSUME AppTypes, NEW c, ServeFetch(c) \/ ServeRead(c) \/ ServeMarkAsRead(c) \/ ServeFails(c)
  PROVE  AppTypes'
<1>1. /\ work' = Without(work, c) /\ BagIn(c, work)
      /\ mail' = mail \/ \E x : IsMsg(x) /\ mail' = With(mail, x)
      /\ UNCHANGED <<uiVars, pushes, online, feed>>
      /\ unread' \in [Threads -> Count]
      /\ behind' \in SUBSET Threads
  BY Answered
<1>2. ScreenTypes'
  BY <1>1 DEF AppTypes, ScreenTypes, uiVars
<1>3. AsyncTypes'
  BY <1>1, ServeMoves DEF AppTypes, uiVars
<1>4. ServerTypes'
  BY <1>1 DEF AppTypes, ServerTypes, uiVars
<1>5. QED
  BY <1>2, <1>3, <1>4 DEF AppTypes

(* Others: messages, events and connections. *)

(* Natural numbers have a least one. *)
LEMMA Least ==
  ASSUME NEW T \in SUBSET Nat, T # {}
  PROVE  \E x \in T : \A y \in T : x <= y
<1> DEFINE R == {ss \in Nat \X Nat : ss[1] < ss[2]}
<1>1. IsWellFoundedOn(R, Nat)
  BY NatLessThanWellFounded, Zenon DEF OpToRel
<1>2. PICK x \in T : \A y \in T : ~(<<y, x>> \in R)
  <2> HIDE DEF R
  <2>1. QED
    BY <1>1, WFMin
<1>3. \A y \in T : ~(y < x)
  BY <1>2
<1>4. QED
  BY <1>3

(* Taking the first of equal elements from a sequence leaves the others,   *)
(* where they were or one place nearer to the front.                       *)
LEMMA RemovedFirst ==
  ASSUME NEW S, NEW s \in Seq(S), NEW e
  PROVE  /\ RemoveFirst(s, e) \in Seq(S)
         /\ \A j \in 1..Len(RemoveFirst(s, e)) :
              \/ j \in 1..Len(s) /\ RemoveFirst(s, e)[j] = s[j]
              \/ j + 1 \in 1..Len(s) /\ RemoveFirst(s, e)[j] = s[j + 1]
<1>1. CASE ~\E i \in 1..Len(s) : s[i] = e
  <2>1. RemoveFirst(s, e) = s
    BY <1>1 DEF RemoveFirst
  <2>2. QED
    BY <2>1
<1>2. CASE \E i \in 1..Len(s) : s[i] = e
  <2> DEFINE I == {i \in 1..Len(s) : s[i] = e}
  <2>1. Min(I) \in I
    <3>1. I # {} /\ I \subseteq Nat
      BY <1>2
    <3>2. PICK k \in I : \A i \in I : k <= i
      BY <3>1, Least
    <3> HIDE DEF I
    <3>3. QED
      BY <3>2 DEF Min
  <2>2. RemoveFirst(s, e) = SubSeq(s, 1, Min(I) - 1) \o SubSeq(s, Min(I) + 1, Len(s))
    BY <1>2, <2>1 DEF RemoveFirst, RemoveAt, SelectInSeq
  <2>3. PICK k \in 1..Len(s) : k = Min(I)
    BY <2>1
  <2> HIDE DEF I
  <2> DEFINE a == SubSeq(s, 1, k - 1)
             b == SubSeq(s, k + 1, Len(s))
  <2>4. /\ a \in Seq(S) /\ Len(a) = k - 1 /\ Len(s) \in Nat
        /\ \A j \in 1..(k - 1) : a[j] = s[j]
    OBVIOUS
  <2>5. /\ b \in Seq(S) /\ Len(b) = Len(s) - k
        /\ \A j \in 1..(Len(s) - k) : b[j] = s[j + k]
    OBVIOUS
  <2>6. RemoveFirst(s, e) = a \o b
    BY <2>2, <2>3
  <2> HIDE DEF a, b
  <2>7. a \o b \in Seq(S) /\ Len(a \o b) = Len(s) - 1
    <3>1. a \in Seq(S) /\ b \in Seq(S)
      BY <2>4, <2>5
    <3>2. a \o b \in Seq(S) /\ Len(a \o b) = Len(a) + Len(b)
      BY <3>1, ConcatProperties
    <3>3. QED
      BY <2>4, <2>5, <3>2
  <2>8. ASSUME NEW j \in 1..(Len(s) - 1)
        PROVE  \/ j \in 1..Len(s) /\ (a \o b)[j] = s[j]
               \/ j + 1 \in 1..Len(s) /\ (a \o b)[j] = s[j + 1]
    <3>1. CASE j < k
      BY <2>4, <2>5, <3>1
    <3>2. CASE ~(j < k)
      <4>1. (a \o b)[j] = b[j - (k - 1)]
        BY <2>4, <2>5, <3>2
      <4>2. j - (k - 1) \in 1..(Len(s) - k) /\ (j - (k - 1)) + k = j + 1
        BY <2>4, <3>2
      <4>3. QED
        BY <2>4, <2>5, <4>1, <4>2
    <3>3. QED
      BY <3>1, <3>2
  <2>9. QED
    BY <2>6, <2>7, <2>8
<1>3. QED
  BY <1>1, <1>2

LEMMA MessageTypes ==
  ASSUME AppTypes, NEW t \in Threads, Message(t)
  PROVE  /\ AppTypes'
         /\ feed'[1].thread = t
         /\ \A j \in DOMAIN feed' : j = 1 \/ \E i \in DOMAIN feed : i <= j /\ feed'[j] = feed[i]
<1> DEFINE F == [thread: Threads, event: BOOLEAN]
           e == [thread |-> t, event |-> FALSE]
           r == RemoveFirst(feed, e)
<1>1. /\ UNCHANGED <<uiVars, asyncVars, online>>
      /\ unread' = [unread EXCEPT ![t] = [n |-> unread[t].n + 1, v |-> unread[t].v + 1]]
      /\ feed' = <<e>> \o r
      /\ pushes' = IF online THEN Append(pushes, [thread |-> t, count |-> unread'[t]]) ELSE pushes
  BY DEF Message
<1>2. /\ feed \in Seq(F) /\ e \in F /\ unread \in [Threads -> Count]
      /\ pushes \in Seq([thread: Threads, count: Count]) /\ online \in BOOLEAN
  BY DEF AppTypes, ServerTypes
<1>3. [n |-> unread[t].n + 1, v |-> unread[t].v + 1] \in Count
  BY <1>2 DEF Count
<1>4. unread' \in [Threads -> Count] /\ unread'[t] \in Count
  BY <1>1, <1>2, <1>3
<1>5. pushes' \in Seq([thread: Threads, count: Count])
  <2> DEFINE P == [thread: Threads, count: Count]
             p == [thread |-> t, count |-> unread'[t]]
  <2>1. p \in P /\ pushes \in Seq(P) /\ pushes' = IF online THEN Append(pushes, p) ELSE pushes
    BY <1>1, <1>2, <1>4
  <2> HIDE DEF P, p
  <2>2. pushes' \in Seq(P)
    BY <2>1
  <2>3. QED
    BY <2>2 DEF P
<1> HIDE DEF F, e
<1>6. /\ r \in Seq(F)
      /\ \A j \in 1..Len(r) : \E i \in DOMAIN feed : i <= j + 1 /\ r[j] = feed[i]
  <2>1. /\ r \in Seq(F)
        /\ \A j \in 1..Len(r) :
             \/ j \in 1..Len(feed) /\ r[j] = feed[j]
             \/ j + 1 \in 1..Len(feed) /\ r[j] = feed[j + 1]
    BY <1>2, RemovedFirst
  <2>2. DOMAIN feed = 1..Len(feed)
    BY <1>2
  <2> HIDE DEF r
  <2>3. \A j \in 1..Len(r) : j <= j + 1 /\ j + 1 <= j + 1
    OBVIOUS
  <2>4. QED
    BY <2>1, <2>2, <2>3
<1> HIDE DEF r
<1>7. /\ feed' \in Seq(F) /\ Len(feed') = Len(r) + 1 /\ Len(r) \in Nat
      /\ \A j \in 2..(Len(r) + 1) : feed'[j] = r[j - 1]
      /\ feed'[1] = e
  BY <1>1, <1>2, <1>6
<1>8. DOMAIN feed' = 1..(Len(r) + 1)
  BY <1>7
<1>9. ASSUME NEW j \in DOMAIN feed', j # 1
      PROVE  \E i \in DOMAIN feed : i <= j /\ feed'[j] = feed[i]
  <2>1. j \in 2..(Len(r) + 1) /\ j - 1 \in 1..Len(r) /\ (j - 1) + 1 = j
    BY <1>7, <1>8, <1>9
  <2>2. QED
    BY <1>6, <1>7, <2>1
<1>10. behind' \in SUBSET Threads
  BY FallsType DEF Message, AppTypes, ScreenTypes
<1>11. ScreenTypes' /\ AsyncTypes'
  BY <1>1, <1>10 DEF AppTypes, ScreenTypes, AsyncTypes, uiVars, asyncVars
<1>12. ServerTypes'
  BY <1>1, <1>4, <1>5, <1>7 DEF AppTypes, ServerTypes, uiVars, F
<1>13. QED
  BY <1>7, <1>9, <1>11, <1>12 DEF AppTypes, e

LEMMA EventTypes ==
  ASSUME AppTypes, NEW r \in Rooms, RoomEvent(r)
  PROVE  /\ AppTypes'
         /\ feed'[1].event
         /\ \A j \in DOMAIN feed' : j = 1 \/ \E i \in DOMAIN feed : i <= j /\ feed'[j] = feed[i]
<1> DEFINE F == [thread: Threads, event: BOOLEAN]
           e == [thread |-> r, event |-> TRUE]
<1>1. /\ UNCHANGED <<uiVars, asyncVars, pushes, online, unread, behind>>
      /\ feed' = <<e>> \o feed
  BY DEF RoomEvent
<1>2. feed \in Seq(F) /\ e \in F /\ e.event
  BY DEF AppTypes, ServerTypes, Threads
<1> HIDE DEF F, e
<1>3. /\ feed' \in Seq(F) /\ Len(feed') = Len(feed) + 1 /\ Len(feed) \in Nat
      /\ \A j \in 2..(Len(feed) + 1) : feed'[j] = feed[j - 1]
      /\ feed'[1] = e
  BY <1>1, <1>2
<1>4. DOMAIN feed' = 1..(Len(feed) + 1) /\ DOMAIN feed = 1..Len(feed)
  BY <1>2, <1>3
<1>5. ASSUME NEW j \in DOMAIN feed', j # 1
      PROVE  \E i \in DOMAIN feed : i <= j /\ feed'[j] = feed[i]
  <2>1. j \in 2..(Len(feed) + 1) /\ j - 1 \in 1..Len(feed) /\ j - 1 <= j
    BY <1>3, <1>4, <1>5
  <2>2. QED
    BY <1>3, <1>4, <2>1
<1>6. ScreenTypes' /\ AsyncTypes'
  BY <1>1 DEF AppTypes, ScreenTypes, AsyncTypes, uiVars, asyncVars
<1>7. ServerTypes'
  BY <1>1, <1>3 DEF AppTypes, ServerTypes, uiVars, F
<1>8. QED
  BY <1>2, <1>3, <1>5, <1>6, <1>7 DEF AppTypes

LEMMA ConnectionTypes ==
  ASSUME AppTypes, Connect \/ Disconnect
  PROVE  AppTypes'
<1>1. /\ UNCHANGED <<uiVars, asyncVars, feed, unread>>
      /\ online' \in BOOLEAN /\ (screen = "auth" => ~online')
  BY DEF Connect, Disconnect, AppTypes, ServerTypes
<1>2. pushes' \in Seq([thread: Threads, count: Count]) /\ (pushes' = <<>> \/ pushes' = pushes)
  <2>1. pushes' = <<>> \/ pushes' = pushes
    BY DEF Connect, Disconnect
  <2> DEFINE P == [thread: Threads, count: Count]
  <2>2. pushes \in Seq(P)
    BY DEF AppTypes, ServerTypes
  <2> HIDE DEF P
  <2>3. <<>> \in Seq(P)
    OBVIOUS
  <2>4. pushes' \in Seq(P)
    BY <2>1, <2>2, <2>3
  <2>5. QED
    BY <2>1, <2>4 DEF P
<1>3. behind' \in SUBSET Threads
  <2>1. {pushes[i].thread : i \in DOMAIN pushes} \subseteq Threads
    BY FeedTypes DEF AppTypes
  <2>2. QED
    BY <2>1, FallsType DEF Connect, Disconnect, AppTypes, ScreenTypes
<1>4. ScreenTypes' /\ AsyncTypes'
  BY <1>1, <1>3 DEF AppTypes, ScreenTypes, AsyncTypes, uiVars, asyncVars
<1>5. ServerTypes'
  BY <1>1, <1>2 DEF AppTypes, ServerTypes, uiVars
<1>6. QED
  BY <1>4, <1>5 DEF AppTypes

(* Every step keeps the types. *)
LEMMA AppTypesInit == Init => AppTypes
<1> SUFFICES ASSUME Init PROVE AppTypes
  OBVIOUS
<1>1. IsABag(EmptyBag) /\ BagToSet(EmptyBag) = {}
  BY SetBag DEF EmptyBag
<1>2. ScreenTypes
  BY PlainTypes DEF Init, ScreenTypes
<1>3. AsyncTypes
  BY <1>1 DEF Init, AsyncTypes
<1>4. PICK p \in Backlogs : feed = [i \in DOMAIN p |-> [thread |-> p[i], event |-> FALSE]]
  BY DEF Init
<1>5. p \in Seq(Threads)
  BY AppAssumption
<1>6. feed \in Seq([thread: Threads, event: BOOLEAN])
  <2>1. DOMAIN p = 1..Len(p) /\ Len(p) \in Nat /\ \A i \in 1..Len(p) : p[i] \in Threads
    BY <1>5
  <2> DEFINE F == [thread: Threads, event: BOOLEAN]
  <2>2. feed \in [1..Len(p) -> F]
    BY <1>4, <2>1
  <2> HIDE DEF F
  <2>3. feed \in Seq(F)
    BY <2>1, <2>2
  <2>4. QED
    BY <2>3 DEF F
<1>7. unread \in [Threads -> Count]
  BY DEF Init, Unknown, Count
<1>8. ServerTypes
  <2>1. /\ pushes = <<>> /\ online = FALSE
        /\ pushes \in Seq([thread: Threads, count: Count])
    BY DEF Init
  <2>2. QED
    BY <1>6, <1>7, <2>1 DEF ServerTypes
<1>9. QED
  BY <1>2, <1>3, <1>8 DEF AppTypes

LEMMA AppTypesNext == AppTypes /\ [Next]_vars => AppTypes'
<1> SUFFICES ASSUME AppTypes, [Next]_vars PROVE AppTypes'
  OBVIOUS
<1>1. CASE TakeMail
  BY <1>1, ShowListTypes, OpenTypes, TakeBadgesTypes, EntriesTypes, OtherMailTypes DEF TakeMail
<1>2. CASE Login \/ TakeLoaded \/ TakeFormClosing \/ TakePush \/ Key
  BY <1>2, LoginTypes, FlagTypes, TakePushTypes, KeyTypes
<1>3. CASE Server
  BY <1>3, AnswerTypes, MessageTypes, EventTypes, ConnectionTypes DEF Server
<1>4. CASE UNCHANGED vars
  BY <1>4 DEF vars, uiVars, asyncVars, serverVars, AppTypes, ScreenTypes, AsyncTypes, ServerTypes
<1>5. QED
  BY <1>1, <1>2, <1>3, <1>4 DEF Next

(* Type correctness: the messages that the event loop may still get name   *)
(* threads of the kind that their handlers expect, bags stay bags, and     *)
(* only the inbox keeps entries (app.go:62-223).                           *)
THEOREM TypeCorrect == Spec => []TypeOK
<1>1. AppTypes => TypeOK
  BY DEF AppTypes, ScreenTypes, AsyncTypes, ServerTypes, TypeOK, Count, Entries
<1>2. QED
  BY <1>1, AppTypesInit, AppTypesNext, PTL DEF Spec

----------------------------------------------------------------------------
(* The screen, the room and the totals change in a few places only. *)
Shown == <<crashed, screen, current, badge, total, late>>

LEMMA Steady ==
  ASSUME [Next]_vars
  PROVE  \/ UNCHANGED Shown /\ (stray => stray')
         \/ Login \/ TakePush
         \/ \E m \in BagToSet(mail) : \/ TakeShowList(m) \/ TakeLeaveRoom(m) \/ TakeOpenRoom(m)
                                      \/ TakeOpenDM(m) \/ TakeBadges(m)
<1>1. CASE TakeMail
  <2>1. ASSUME NEW m \in BagToSet(mail), TakeEntries(m) PROVE UNCHANGED Shown /\ (stray => stray')
    BY <2>1 DEF TakeEntries, Shown
  <2>2. ASSUME NEW m \in BagToSet(mail), TakeEntriesError(m)
        PROVE  UNCHANGED Shown /\ (stray => stray')
    BY <2>2 DEF TakeEntriesError, Shown
  <2>3. ASSUME NEW m \in BagToSet(mail), TakeMarked(m) PROVE UNCHANGED Shown /\ (stray => stray')
    BY <2>3 DEF TakeMarked, Shown
  <2>4. ASSUME NEW m \in BagToSet(mail), TakeFound(m) PROVE UNCHANGED Shown /\ (stray => stray')
    BY <2>4 DEF TakeFound, uiVars, Shown
  <2>5. ASSUME NEW m \in BagToSet(mail), TakeForeign(m) PROVE UNCHANGED Shown /\ (stray => stray')
    BY <2>5 DEF TakeForeign, uiVars, Shown
  <2>6. QED
    BY <1>1, <2>1, <2>2, <2>3, <2>4, <2>5 DEF TakeMail
<1>2. CASE TakeLoaded
  BY <1>2 DEF TakeLoaded, Shown
<1>3. CASE TakeFormClosing
  BY <1>3 DEF TakeFormClosing, Shown
<1>4. CASE Key
  <2>1. CASE PressForm
    BY <2>1 DEF PressForm, Shown
  <2>2. ASSUME NEW cmds, NEW msgs, Start(cmds, msgs), UNCHANGED stray
        PROVE  UNCHANGED Shown /\ (stray => stray')
    BY <2>2 DEF Start, Shown
  <2>3. CASE PressTab \/ PressEscInChat \/ PressRefresh \/ PressEnterInForm
    BY <2>2, <2>3 DEF PressTab, PressEscInChat, PressRefresh, PressEnterInForm
  <2>4. ASSUME NEW r \in Rooms, PressEnterOnRoom(r) PROVE UNCHANGED Shown /\ (stray => stray')
    BY <2>2, <2>4 DEF PressEnterOnRoom
  <2>5. ASSUME NEW c \in Convs, PressEnterOnConv(c) PROVE UNCHANGED Shown /\ (stray => stray')
    BY <2>2, <2>5 DEF PressEnterOnConv
  <2>6. ASSUME NEW e \in entries, PressMark(e) \/ PressEnterOnEntry(e)
        PROVE  UNCHANGED Shown /\ (stray => stray')
    BY <2>2, <2>6 DEF PressMark, PressEnterOnEntry
  <2>7. QED
    BY <1>4, <2>1, <2>3, <2>4, <2>5, <2>6 DEF Key
<1>5. CASE Server
  <2>1. ASSUME NEW c, ServeFetch(c) PROVE UNCHANGED Shown /\ (stray => stray')
    BY <2>1 DEF ServeFetch, uiVars, Shown
  <2>2. ASSUME NEW c, ServeRead(c) PROVE UNCHANGED Shown /\ (stray => stray')
    BY <2>2 DEF ServeRead, uiVars, Shown
  <2>3. ASSUME NEW c, ServeMarkAsRead(c) PROVE UNCHANGED Shown /\ (stray => stray')
    BY <2>3 DEF ServeMarkAsRead, uiVars, Shown
  <2>4. ASSUME NEW c, ServeFails(c) PROVE UNCHANGED Shown /\ (stray => stray')
    BY <2>4 DEF ServeFails, uiVars, Shown
  <2>5. ASSUME NEW t, Message(t) PROVE UNCHANGED Shown /\ (stray => stray')
    BY <2>5 DEF Message, uiVars, Shown
  <2>6. ASSUME NEW r, RoomEvent(r) PROVE UNCHANGED Shown /\ (stray => stray')
    BY <2>6 DEF RoomEvent, uiVars, Shown
  <2>7. CASE Connect
    BY <2>7 DEF Connect, uiVars, Shown
  <2>8. CASE Disconnect
    BY <2>8 DEF Disconnect, uiVars, Shown
  <2>9. QED
    BY <1>5, <2>1, <2>2, <2>3, <2>4, <2>5, <2>6, <2>7, <2>8 DEF Server
<1>6. CASE UNCHANGED vars
  BY <1>6 DEF vars, uiVars, Shown
<1>7. QED
  BY <1>1, <1>2, <1>3, <1>4, <1>5, <1>6 DEF Next

(* A message from a screen that is no longer active is noted. *)
LEMMA Noted ==
  ASSUME NEW m, NoteStray(m)
  PROVE  (stray => stray') /\ (screen \notin Senders(m) => stray')
BY DEF NoteStray

(* While no message to change the screen was stray, the chat of a room is  *)
(* shown exactly when there is a current room.                             *)
LEMMA RoomNext ==
  ASSUME AppTypes, RoomIsShown, [Next]_vars
  PROVE  RoomIsShown'
<1>1. ASSUME UNCHANGED Shown, stray => stray' PROVE RoomIsShown'
  BY <1>1 DEF RoomIsShown, Shown
<1>2. CASE Login
  BY <1>2 DEF Login, ShowList, RoomIsShown
<1>3. CASE TakePush
  BY <1>3 DEF TakePush, RoomIsShown
<1>4. ASSUME NEW m, TakeBadges(m) PROVE RoomIsShown'
  BY <1>4 DEF TakeBadges, RoomIsShown
<1>5. ASSUME NEW m, TakeShowList(m) PROVE RoomIsShown'
  <2>1. /\ NoteStray(m) /\ UNCHANGED <<crashed, current>> /\ screen' \in ListScreens
        /\ m.is \in {"showDMs", "showInbox", "showRooms", "leaveDM"}
    BY <1>5 DEF TakeShowList, ShowList, ListScreens
  <2>2. screen \in Senders(m) => screen # "chat"
    BY <2>1 DEF Senders
  <2>3. screen' # "chat"
    BY <2>1 DEF ListScreens
  <2>4. QED
    BY <2>1, <2>2, <2>3, Noted DEF RoomIsShown
<1>6. ASSUME NEW m, TakeLeaveRoom(m) PROVE RoomIsShown'
  <2>1. NoteStray(m) /\ m.is = "leaveRoom"
    BY <1>6 DEF TakeLeaveRoom
  <2>2. screen \in Senders(m) => screen = "chat"
    BY <2>1 DEF Senders
  <2>3. CASE current = None
    BY <2>1, <2>2, <2>3, Noted DEF RoomIsShown
  <2>4. CASE current # None
    <3>1. current' = None /\ screen' = "rooms" /\ crashed' = crashed
      BY <1>6, <2>4 DEF TakeLeaveRoom, ShowList
    <3>2. QED
      BY <2>1, <3>1, Noted DEF RoomIsShown
  <2>5. QED
    BY <2>3, <2>4
<1>7. ASSUME NEW m, TakeOpenRoom(m) PROVE RoomIsShown'
  <2>1. NoteStray(m) /\ current' = m.thread /\ screen' = "chat" /\ crashed' = crashed
    BY <1>7 DEF TakeOpenRoom, ShowChat
  <2>2. m.thread \in Rooms
    BY <1>7, LoggedIn DEF TakeOpenRoom, AppTypes, IsMsg, ThreadsOf
  <2>3. m.thread # None
    BY <2>2, AppAssumption DEF Threads
  <2>4. QED
    BY <2>1, <2>3, Noted DEF RoomIsShown
<1>8. ASSUME NEW m, TakeOpenDM(m) PROVE RoomIsShown'
  <2>1. /\ NoteStray(m) /\ UNCHANGED <<crashed, current>> /\ screen' = "dmChat"
        /\ m.is = "openDM"
    BY <1>8 DEF TakeOpenDM, ShowChat
  <2>2. screen \in Senders(m) => screen # "chat"
    BY <2>1 DEF Senders
  <2>3. QED
    BY <2>1, <2>2, Noted DEF RoomIsShown
<1>9. QED
  BY <1>1, <1>2, <1>3, <1>4, <1>5, <1>6, <1>7, <1>8, Steady

(* The application knows a room exactly while its chat is shown, and never *)
(* dereferences nil, unless a key was pressed before the message of the    *)
(* one before had arrived (app.go:79-89, 100-154).                         *)
THEOREM RoomShown == Spec => []RoomIsShown
<1>1. Init => RoomIsShown
  BY DEF Init, RoomIsShown
<1>2. AppTypes /\ RoomIsShown /\ [Next]_vars => RoomIsShown'
  BY RoomNext
<1>3. QED
  BY <1>1, <1>2, AppTypesInit, AppTypesNext, PTL DEF Spec

----------------------------------------------------------------------------
(* What the list on the screen was told is the sum of all badges, unless a *)
(* push for the other list's threads came last.                            *)
TotalInv == ~late /\ screen \in {"rooms", "dms"} => total = BadgeTotal(badge)

LEMMA TotalNext ==
  ASSUME AppTypes, TotalInv, [Next]_vars
  PROVE  TotalInv'
<1>1. CASE UNCHANGED Shown
  BY <1>1 DEF TotalInv, Shown
<1>2. CASE Login
  BY <1>2 DEF Login, ShowList, TotalInv
<1>3. CASE TakePush
  <2>1. PICK t \in Threads : t = Head(pushes).thread
    BY <1>3, PushTypes DEF TakePush, AppTypes
  <2>2. t \in Rooms \/ t \in Convs
    BY <2>1 DEF Threads
  <2>3. \/ screen = "rooms" /\ t \in Rooms
        \/ screen = "dms" /\ t \in Convs
        => total' = BadgeTotal(badge')
    BY <1>3, <2>1 DEF TakePush
  <2>4. \/ screen = "rooms" /\ t \in Convs
        \/ screen = "dms" /\ t \in Rooms
        => late'
    BY <1>3, <2>1 DEF TakePush
  <2>5. screen' = screen
    BY <1>3 DEF TakePush
  <2>6. QED
    BY <2>2, <2>3, <2>4, <2>5 DEF TotalInv
<1>4. ASSUME NEW m, TakeBadges(m) PROVE TotalInv'
  BY <1>4 DEF TakeBadges, TotalInv
<1>5. ASSUME NEW m, TakeShowList(m) \/ TakeLeaveRoom(m) PROVE TotalInv'
  <2>1. CASE UNCHANGED Shown
    BY <2>1 DEF TotalInv, Shown
  <2>2. ASSUME NEW s, ShowList(s), UNCHANGED badge PROVE TotalInv'
    BY <2>2 DEF ShowList, TotalInv
  <2>3. CASE TakeShowList(m)
    BY <2>2, <2>3 DEF TakeShowList
  <2>4. CASE TakeLeaveRoom(m)
    <3>1. CASE current = None
      BY <2>4, <3>1 DEF TakeLeaveRoom, TotalInv
    <3>2. CASE current # None
      BY <2>2, <2>4, <3>2 DEF TakeLeaveRoom
    <3>3. QED
      BY <3>1, <3>2
  <2>5. QED
    BY <1>5, <2>3, <2>4
<1>6. ASSUME NEW m, TakeOpenRoom(m) \/ TakeOpenDM(m) PROVE TotalInv'
  BY <1>6 DEF TakeOpenRoom, TakeOpenDM, ShowChat, TotalInv
<1>7. QED
  BY <1>1, <1>2, <1>3, <1>4, <1>5, <1>6, Steady

(* The badge of the other list's tab, which is a difference, is the sum of *)
(* that list's badges, however many rooms and conversations there are,     *)
(* unless the last push was for one of those (app.go:157-223,              *)
(* rooms/model.go, dm/model.go).                                           *)
THEOREM Total == Spec => []TotalMatches
<1>1. Init => TotalInv
  BY DEF Init, TotalInv
<1>2. AppTypes /\ TotalInv /\ [Next]_vars => TotalInv'
  BY TotalNext
<1>3. AppTypes /\ TotalInv => TotalMatches
  <2> SUFFICES ASSUME AppTypes, TotalInv PROVE TotalMatches
    OBVIOUS
  <2>1. /\ BadgeTotal(badge) = SumOf(badge, Rooms) + SumOf(badge, Convs)
        /\ SumOf(badge, Rooms) \in Nat /\ SumOf(badge, Convs) \in Nat
    BY Totals DEF AppTypes, ScreenTypes
  <2>2. ASSUME total = BadgeTotal(badge)
        PROVE  DmsTotal = SumOf(badge, Convs) /\ RoomsTotal = SumOf(badge, Rooms)
    BY <2>1, <2>2 DEF DmsTotal, RoomsTotal, Rest
  <2>3. QED
    BY <2>2 DEF TotalInv, TotalMatches
<1>4. QED
  BY <1>1, <1>2, <1>3, AppTypesInit, AppTypesNext, PTL DEF Spec

----------------------------------------------------------------------------
(* The counts that are on their way are old: each is the count of the      *)
(* server, or has an earlier version.                                      *)
Old(u, t, c) == c = u[t] \/ c.v < u[t].v
OldList(u, es) == \A e \in es : Old(u, e.thread, e.count)
OldMsg(u, m) == (\A t \in Threads : Old(u, t, m.counts[t])) /\ OldList(u, m.list)

OldInv ==
  /\ \A t \in Threads : Old(unread, t, Unknown)
  /\ OldList(unread, entries)
  /\ \A m \in BagToSet(mail) : OldMsg(unread, m)
  /\ \A i \in DOMAIN pushes : Old(unread, pushes[i].thread, pushes[i].count)

(* Old messages and lists. *)
LEMMA PlainOld ==
  ASSUME NEW u, \A t \in Threads : Old(u, t, Unknown), NEW is, NEW t
  PROVE  OldMsg(u, Msg(is, t))
BY PlainTypes DEF OldMsg, OldList, NoCounts

LEMMA BadgesOld ==
  ASSUME NEW u, \A t \in Threads : Old(u, t, Unknown), NEW es \in SUBSET Entries, OldList(u, es)
  PROVE  OldMsg(u, BadgesMsg(ComputeBadges(es)))
<1>1. ASSUME NEW t \in Threads PROVE Old(u, t, ComputeBadges(es)[t])
  <2>1. CASE Lists(es, t)
    BY <2>1, EntryOfList DEF ComputeBadges, OldList
  <2>2. CASE ~Lists(es, t)
    BY <2>2 DEF ComputeBadges
  <2>3. QED
    BY <2>1, <2>2
<1>2. QED
  BY <1>1, ComputeType, BadgesType DEF OldMsg, OldList

LEMMA ListsOld ==
  ASSUME NEW u, NEW es \in SUBSET Entries, OldList(u, es), NEW t \in Threads, NEW c, Old(u, t, c)
  PROVE  /\ OldList(u, UpsertEntry(es, Entry(t, FALSE, c)))
         /\ OldList(u, ZeroUnreadCount(es, t, c))
<1>1. OldList(u, UpsertEntry(es, Entry(t, FALSE, c)))
  BY DEF OldList, UpsertEntry, Entry
<1>2. ASSUME NEW e \in es
      PROVE  /\ [e EXCEPT !.count = c].thread = e.thread
             /\ [e EXCEPT !.count = c].count = c
  BY DEF Entries
<1>3. OldList(u, ZeroUnreadCount(es, t, c))
  BY <1>2 DEF OldList, ZeroUnreadCount
<1>4. QED
  BY <1>1, <1>3

LEMMA SnapshotOld ==
  ASSUME ServerTypes, \A t \in Threads : Old(unread, t, Unknown)
  PROVE  OldList(unread, Snapshot)
<1>1. \A i \in DOMAIN feed : feed[i].thread \in Threads
  BY FeedTypes
<1>2. ASSUME NEW e \in Snapshot PROVE Old(unread, e.thread, e.count)
  <2>1. PICK i \in DOMAIN feed :
          e = Entry(feed[i].thread, feed[i].event,
                    IF feed[i].event THEN Unknown ELSE unread[feed[i].thread])
    BY DEF Snapshot
  <2>2. /\ e.thread = feed[i].thread
        /\ e.count = Unknown \/ e.count = unread[feed[i].thread]
    BY <2>1 DEF Entry
  <2>3. QED
    BY <1>1, <2>2 DEF Old
<1>3. QED
  BY <1>2 DEF OldList

(* The count of a thread changes to one with the next version. *)
Ages == \A t \in Threads : unread'[t] = unread[t] \/ unread'[t].v = unread[t].v + 1

LEMMA OldKept ==
  ASSUME AppTypes, AppTypes', OldInv, Ages,
         \A e \in entries' : e \in entries \/ Old(unread', e.thread, e.count),
         \A m \in BagToSet(mail') : m \in BagToSet(mail) \/ OldMsg(unread', m),
         \A i \in DOMAIN pushes' : \/ \E j \in DOMAIN pushes : pushes'[i] = pushes[j]
                                   \/ Old(unread', pushes'[i].thread, pushes'[i].count)
  PROVE  OldInv'
<1>1. ASSUME NEW t \in Threads, NEW c \in Count, Old(unread, t, c) PROVE Old(unread', t, c)
  <2>1. c.v \in Nat /\ unread[t] \in Count /\ unread[t].v \in Nat
    BY DEF AppTypes, ServerTypes, Count
  <2>2. CASE unread'[t] = unread[t]
    BY <1>1, <2>2 DEF Old
  <2>3. CASE unread'[t].v = unread[t].v + 1
    BY <1>1, <2>1, <2>3 DEF Old
  <2>4. QED
    BY <2>2, <2>3 DEF Ages
<1>2. ASSUME NEW es \in SUBSET Entries, OldList(unread, es) PROVE OldList(unread', es)
  <2>1. \A e \in es : e.thread \in Threads /\ e.count \in Count
    BY DEF Entries
  <2>2. QED
    BY <1>1, <1>2, <2>1 DEF OldList
<1>3. \A t \in Threads : Old(unread', t, Unknown)
  BY <1>1, PlainTypes DEF OldInv
<1>4. OldList(unread', entries')
  <2>1. entries \in SUBSET Entries /\ OldList(unread, entries)
    BY DEF AppTypes, ScreenTypes, OldInv
  <2>2. QED
    BY <1>2, <2>1 DEF OldList
<1>5. ASSUME NEW m \in BagToSet(mail') PROVE OldMsg(unread', m)
  <2>1. CASE m \in BagToSet(mail)
    <3>1. OldMsg(unread, m) /\ m.counts \in [Threads -> Count] /\ m.list \in SUBSET Entries
      BY <2>1 DEF OldInv, AppTypes, AsyncTypes, IsMsg
    <3>2. \A t \in Threads : m.counts[t] \in Count
      BY <3>1
    <3>3. QED
      BY <1>1, <1>2, <3>1, <3>2 DEF OldMsg
  <2>2. QED
    BY <2>1
<1>6. ASSUME NEW i \in DOMAIN pushes' PROVE Old(unread', pushes'[i].thread, pushes'[i].count)
  <2>1. ASSUME NEW j \in DOMAIN pushes, pushes'[i] = pushes[j]
        PROVE  Old(unread', pushes'[i].thread, pushes'[i].count)
    <3>1. pushes[j].thread \in Threads /\ pushes[j].count \in Count
      BY FeedTypes DEF AppTypes
    <3>2. QED
      BY <1>1, <2>1, <3>1 DEF OldInv
  <2>2. QED
    BY <2>1
<1>7. QED
  BY <1>3, <1>4, <1>5, <1>6 DEF OldInv

LEMMA OldInit == Init => OldInv
<1> SUFFICES ASSUME Init PROVE OldInv
  OBVIOUS
<1>1. BagToSet(mail) = {} /\ pushes = <<>> /\ entries = {}
  BY SetBag DEF Init, EmptyBag
<1>2. \A t \in Threads : unread[t] = Unknown \/ unread[t].v = 1
  BY DEF Init
<1>3. \A t \in Threads : Old(unread, t, Unknown)
  BY <1>2 DEF Old, Unknown
<1>4. QED
  BY <1>1, <1>3 DEF OldInv, OldList

(* Steps that change no count of the server. *)
LEMMA OldSteady ==
  ASSUME AppTypes, AppTypes', OldInv, unread' = unread, entries' = entries \/ entries' = {},
         \A m \in BagToSet(mail') : m \in BagToSet(mail) \/ OldMsg(unread, m),
         pushes' = pushes \/ pushes' = <<>>
  PROVE  OldInv'
<1>1. Ages
  BY DEF Ages
<1>2. \A i \in DOMAIN pushes' : \E j \in DOMAIN pushes : pushes'[i] = pushes[j]
  OBVIOUS
<1>3. QED
  BY <1>1, <1>2, OldKept

(* The event loop takes a message. *)
LEMMA OldTaken ==
  ASSUME AppTypes, AppTypes', OldInv, NEW m \in BagToSet(mail),
         \/ TakeShowList(m) \/ TakeLeaveRoom(m) \/ TakeOpenRoom(m) \/ TakeOpenDM(m)
         \/ TakeBadges(m) \/ TakeEntries(m) \/ TakeEntriesError(m) \/ TakeMarked(m)
         \/ TakeFound(m) \/ TakeForeign(m)
  PROVE  OldInv'
<1>1. IsMsg(m) /\ OldMsg(unread, m) /\ AsyncTypes /\ \A t \in Threads : Old(unread, t, Unknown)
  BY DEF AppTypes, AsyncTypes, OldInv
<1>2. ASSUME NEW cmds, NEW msgs, Take(m, cmds, msgs), \A x \in msgs : OldMsg(unread, x),
             unread' = unread, entries' = entries \/ entries' = {}, pushes' = pushes
      PROVE  OldInv'
  <2>1. \A x \in BagToSet(mail') : x \in BagToSet(mail) \/ OldMsg(unread, x)
    BY <1>1, <1>2, TakeMoves
  <2>2. QED
    BY <1>2, <2>1, OldSteady
<1>3. CASE TakeShowList(m)
  <2>1. PICK cmds : Take(m, cmds, {})
    BY <1>3 DEF TakeShowList
  <2>2. UNCHANGED <<unread, pushes>> /\ entries' = {}
    BY <1>3 DEF TakeShowList, ShowList, serverVars
  <2>3. QED
    BY <1>2, <2>1, <2>2
<1>4. CASE TakeLeaveRoom(m)
  <2>1. UNCHANGED <<unread, pushes>>
    BY <1>4 DEF TakeLeaveRoom, serverVars
  <2>2. CASE current = None
    BY <1>4, <2>1, <2>2, OldSteady DEF TakeLeaveRoom, asyncVars
  <2>3. CASE current # None
    BY <1>2, <1>4, <2>1, <2>3 DEF TakeLeaveRoom, ShowList
  <2>4. QED
    BY <2>2, <2>3
<1>5. CASE TakeOpenRoom(m)
  BY <1>2, <1>5 DEF TakeOpenRoom, ShowChat, serverVars
<1>6. CASE TakeOpenDM(m)
  <2>1. PICK cmds : Take(m, cmds, {})
    BY <1>6 DEF TakeOpenDM
  <2>2. UNCHANGED <<unread, pushes>> /\ entries' = {}
    BY <1>6 DEF TakeOpenDM, ShowChat, serverVars
  <2>3. QED
    BY <1>2, <2>1, <2>2
<1>7. CASE TakeBadges(m)
  BY <1>2, <1>7 DEF TakeBadges, serverVars
<1>8. CASE TakeEntriesError(m)
  BY <1>2, <1>8 DEF TakeEntriesError, serverVars
<1>9. ASSUME NEW es \in SUBSET Entries, OldList(unread, es), SetEntries(m, es),
             UNCHANGED <<unread, pushes>>
      PROVE  OldInv'
  <2>1. OldMsg(unread, BadgesMsg(ComputeBadges(es)))
    BY <1>1, <1>9, BadgesOld
  <2>2. Take(m, {}, {BadgesMsg(ComputeBadges(es))}) /\ entries' = es
    BY <1>9 DEF SetEntries
  <2>3. \A x \in BagToSet(mail') : x \in BagToSet(mail) \/ OldMsg(unread', x)
    BY <1>1, <1>9, <2>1, <2>2, TakeMoves
  <2>4. \A e \in entries' : Old(unread', e.thread, e.count)
    BY <1>9, <2>2 DEF OldList
  <2>5. QED
    BY <1>9, <2>3, <2>4, OldKept DEF Ages
<1>10. CASE TakeEntries(m)
  BY <1>1, <1>9, <1>10 DEF TakeEntries, IsMsg, OldMsg, serverVars
<1>11. CASE TakeMarked(m)
  <2>1. m.thread \in Threads /\ m.counts[m.thread] \in Count
    BY <1>1, <1>11 DEF TakeMarked, IsMsg, ThreadsOf
  <2>2. entries \in SUBSET Entries /\ OldList(unread, entries)
    BY DEF AppTypes, ScreenTypes, OldInv
  <2>3. Old(unread, m.thread, m.counts[m.thread])
    BY <1>1, <2>1 DEF OldMsg
  <2>4. /\ ZeroUnreadCount(entries, m.thread, m.counts[m.thread]) \in SUBSET Entries
        /\ OldList(unread, ZeroUnreadCount(entries, m.thread, m.counts[m.thread]))
    BY <2>1, <2>2, <2>3, ListTypes, ListsOld
  <2>5. QED
    BY <1>9, <1>11, <2>4 DEF TakeMarked, serverVars
<1>12. CASE TakeFound(m)
  BY <1>1, <1>2, <1>12, PlainOld DEF TakeFound, serverVars, uiVars
<1>13. CASE TakeForeign(m)
  BY <1>2, <1>13 DEF TakeForeign, serverVars, uiVars
<1>14. QED
  BY <1>3, <1>4, <1>5, <1>6, <1>7, <1>8, <1>10, <1>11, <1>12, <1>13

LEMMA OldPushed ==
  ASSUME AppTypes, AppTypes', OldInv, TakePush
  PROVE  OldInv'
<1> DEFINE t == Head(pushes).thread
           c == Head(pushes).count
           es == UpsertEntry(entries, Entry(t, FALSE, c))
<1>1. /\ pushes # <<>> /\ pushes' = Tail(pushes) /\ unread' = unread
      /\ \/ entries' = es /\ mail' = With(mail, BadgesMsg(ComputeBadges(es)))
         \/ UNCHANGED <<entries, mail>>
  BY DEF TakePush, serverVars
<1>2. /\ t \in Threads /\ c \in Count /\ Head(pushes) = pushes[1] /\ 1 \in DOMAIN pushes
      /\ DOMAIN Tail(pushes) = 1..(Len(pushes) - 1)
      /\ \A i \in DOMAIN Tail(pushes) : Tail(pushes)[i] = pushes[i + 1]
  BY <1>1, PushTypes DEF AppTypes
<1>3. Old(unread, t, c)
  BY <1>2 DEF OldInv
<1>4. /\ entries \in SUBSET Entries /\ OldList(unread, entries)
      /\ \A x \in Threads : Old(unread, x, Unknown)
  BY DEF AppTypes, ScreenTypes, OldInv
<1>5. es \in SUBSET Entries /\ OldList(unread, es)
  BY <1>2, <1>3, <1>4, ListTypes, ListsOld
<1>6. OldMsg(unread, BadgesMsg(ComputeBadges(es)))
  BY <1>4, <1>5, BadgesOld
<1>7. \A i \in DOMAIN pushes' : \E j \in DOMAIN pushes : pushes'[i] = pushes[j]
  <2>1. DOMAIN pushes = 1..Len(pushes) /\ Len(pushes) \in Nat
    BY FeedTypes DEF AppTypes
  <2>2. \A i \in 1..(Len(pushes) - 1) : i + 1 \in 1..Len(pushes)
    BY <2>1
  <2>3. QED
    BY <1>1, <1>2, <2>1, <2>2
<1> HIDE DEF es, t, c
<1>8. \A x \in BagToSet(mail') : x \in BagToSet(mail) \/ OldMsg(unread', x)
  <2>1. IsABag(mail)
    BY DEF AppTypes, AsyncTypes
  <2>2. \A x : BagToSet(With(mail, x)) = BagToSet(mail) \cup {x}
    BY <2>1, WithBag
  <2>3. QED
    BY <1>1, <1>6, <2>2
<1>9. \A e \in entries' : e \in entries \/ Old(unread', e.thread, e.count)
  BY <1>1, <1>5 DEF OldList
<1>10. QED
  BY <1>1, <1>7, <1>8, <1>9, OldKept DEF Ages

(* A key starts commands and messages that carry no counts. *)
LEMMA OldKeys ==
  ASSUME AppTypes, AppTypes', OldInv, Key
  PROVE  OldInv'
<1>1. ASSUME NEW cmds, NEW msgs, Start(cmds, msgs),
             \A x \in msgs : \E is, t : x = Msg(is, t)
      PROVE  OldInv'
  <2>1. UNCHANGED <<entries, pushes, unread>>
    BY <1>1 DEF Start, serverVars
  <2>2. \A x \in msgs : OldMsg(unread, x)
    BY <1>1, PlainOld DEF OldInv
  <2>3. \A x \in BagToSet(mail') : x \in BagToSet(mail) \/ OldMsg(unread, x)
    BY <1>1, <2>2, StartMoves DEF AppTypes
  <2>4. QED
    BY <2>1, <2>3, OldSteady
<1>2. CASE PressTab
  <2>1. PICK is : Start({}, {Msg(is, None)})
    BY <1>2 DEF PressTab
  <2>2. QED
    BY <1>1, <2>1
<1>3. CASE PressEscInChat
  BY <1>1, <1>3 DEF PressEscInChat
<1>4. CASE PressRefresh
  BY <1>1, <1>4 DEF PressRefresh
<1>5. CASE PressEnterInForm
  <2>1. PICK msgs \in SUBSET {Msg("found", None)} : Start({}, msgs)
    BY <1>5 DEF PressEnterInForm
  <2>2. QED
    BY <1>1, <2>1
<1>6. CASE PressForm
  <2>1. UNCHANGED <<entries, pushes, unread, mail>>
    BY <1>6 DEF PressForm, serverVars, asyncVars
  <2>2. QED
    BY <2>1, OldSteady
<1>7. ASSUME NEW r \in Rooms, PressEnterOnRoom(r) PROVE OldInv'
  BY <1>1, <1>7 DEF PressEnterOnRoom
<1>8. ASSUME NEW c \in Convs, PressEnterOnConv(c) PROVE OldInv'
  BY <1>1, <1>8 DEF PressEnterOnConv
<1>9. ASSUME NEW e \in entries, PressMark(e) PROVE OldInv'
  BY <1>1, <1>9 DEF PressMark
<1>10. ASSUME NEW e \in entries, PressEnterOnEntry(e) PROVE OldInv'
  BY <1>1, <1>10 DEF PressEnterOnEntry
<1>11. QED
  BY <1>2, <1>3, <1>4, <1>5, <1>6, <1>7, <1>8, <1>9, <1>10 DEF Key

(* The server resets the count of a thread. *)
LEMMA Resets ==
  ASSUME ServerTypes, NEW t \in Threads, Reset(t)
  PROVE  /\ Ages
         /\ unread'[t] = [n |-> 0, v |-> unread[t].v + 1] /\ unread'[t] \in Count
         /\ \A x \in Threads : x # t => unread'[x] = unread[x]
<1>1. unread \in [Threads -> Count] /\ unread[t].v \in Nat
  BY DEF ServerTypes, Count
<1>2. unread' = [unread EXCEPT ![t] = [n |-> 0, v |-> unread[t].v + 1]]
  BY DEF Reset
<1>3. [n |-> 0, v |-> unread[t].v + 1] \in Count
  BY <1>1 DEF Count
<1>4. unread'[t] = [n |-> 0, v |-> unread[t].v + 1] /\ unread'[t] \in Count
  BY <1>1, <1>2, <1>3
<1>5. \A x \in Threads : x # t => unread'[x] = unread[x]
  BY <1>1, <1>2
<1>6. QED
  BY <1>4, <1>5 DEF Ages

LEMMA OldServed ==
  ASSUME AppTypes, AppTypes', OldInv, NEW c \in BagToSet(work),
         ServeFetch(c) \/ ServeRead(c) \/ ServeMarkAsRead(c) \/ ServeFails(c)
  PROVE  OldInv'
<1>1. /\ IsCmd(c) /\ IsABag(mail)
      /\ UNCHANGED <<entries, pushes>>
      /\ \A t \in Threads : Old(unread, t, Unknown)
  BY Answered DEF AppTypes, AsyncTypes, OldInv, uiVars
<1>2. \A x : BagToSet(With(mail, x)) = BagToSet(mail) \cup {x}
  BY <1>1, WithBag
<1>3. CASE ServeFetch(c)
  <2>1. Snapshot \in SUBSET Entries /\ OldList(unread, Snapshot)
    BY <1>1, SnapshotType, SnapshotOld DEF AppTypes
  <2>2. OldMsg(unread, [Msg("entries", None) EXCEPT !.list = Snapshot])
    <3>1. \A t \in Threads : Msg("entries", None).counts[t] = Unknown
      BY PlainTypes DEF NoCounts
    <3>2. /\ [Msg("entries", None) EXCEPT !.list = Snapshot].counts = Msg("entries", None).counts
          /\ [Msg("entries", None) EXCEPT !.list = Snapshot].list = Snapshot
      BY DEF Msg
    <3>3. QED
      BY <1>1, <2>1, <3>1, <3>2 DEF OldMsg
  <2>3. OldMsg(unread, Fetched(c))
    BY <1>1, <2>1, <2>2, BadgesOld DEF Fetched
  <2>4. mail' = With(mail, Fetched(c)) /\ unread' = unread
    BY <1>3 DEF ServeFetch, serverVars
  <2>5. QED
    BY <1>1, <1>2, <2>3, <2>4, OldSteady
<1>4. CASE ServeRead(c)
  <2>1. c.thread \in Threads /\ Reset(c.thread) /\ mail' = mail
    BY <1>1, <1>4 DEF ServeRead, IsCmd, FetchEntries, FetchBadges, Cmd
  <2>2. Ages
    BY <2>1, Resets DEF AppTypes
  <2>3. QED
    BY <1>1, <2>1, <2>2, OldKept
<1>5. CASE ServeMarkAsRead(c)
  <2> DEFINE t == c.thread
             m == [Msg("marked", t) EXCEPT !.counts[t] = unread'[t]]
  <2>1. t \in Threads /\ Reset(t) /\ mail' = With(mail, m)
    BY <1>1, <1>5 DEF ServeMarkAsRead, IsCmd, FetchEntries, FetchBadges, Cmd
  <2>2. Ages /\ unread'[t] \in Count
    BY <2>1, Resets DEF AppTypes
  <2>3. m.list = {} /\ m.counts = [NoCounts EXCEPT ![t] = unread'[t]]
    BY <2>1, <2>2, MarkedType
  <2>4. \A x \in Threads : Old(unread', x, Unknown)
    <3>1. ASSUME NEW x \in Threads PROVE Old(unread', x, Unknown)
      <4>1. unread[x].v \in Nat /\ Old(unread, x, Unknown)
        BY <1>1 DEF AppTypes, ServerTypes, Count
      <4>2. CASE unread'[x] = unread[x]
        BY <4>1, <4>2 DEF Old
      <4>3. CASE unread'[x].v = unread[x].v + 1
        BY <4>1, <4>3 DEF Old, Unknown
      <4>4. QED
        BY <2>2, <4>2, <4>3 DEF Ages
    <3>2. QED
      BY <3>1
  <2>5. \A x \in Threads : m.counts[x] = Unknown \/ (x = t /\ m.counts[x] = unread'[t])
    <3>1. NoCounts \in [Threads -> Count] /\ \A x \in Threads : NoCounts[x] = Unknown
      BY PlainTypes DEF NoCounts
    <3> HIDE DEF m, t
    <3>2. QED
      BY <2>1, <2>3, <3>1
  <2>6. OldMsg(unread', m)
    <3>1. \A x \in Threads : Old(unread', x, m.counts[x])
      BY <2>4, <2>5 DEF Old
    <3>2. QED
      BY <2>3, <3>1 DEF OldMsg, OldList
  <2> HIDE DEF m, t
  <2>7. QED
    BY <1>1, <1>2, <2>1, <2>2, <2>6, OldKept
<1>6. CASE ServeFails(c)
  <2>1. unread' = unread
    BY <1>6 DEF ServeFails, serverVars
  <2>2. \/ mail' = mail
        \/ mail' = With(mail, Msg("entriesError", None))
        \/ mail' = With(mail, Msg("marked", c.thread))
    BY <1>6 DEF ServeFails
  <2>3. \A x \in BagToSet(mail') : x \in BagToSet(mail) \/ OldMsg(unread, x)
    BY <1>1, <1>2, <2>2, PlainOld
  <2>4. QED
    BY <1>1, <2>1, <2>3, OldSteady
<1>7. QED
  BY <1>3, <1>4, <1>5, <1>6

(* Messages, events, connections. *)
LEMMA Counted ==
  ASSUME AppTypes, NEW t \in Threads, Message(t)
  PROVE  /\ Ages
         /\ \A x \in Threads : x # t => unread'[x] = unread[x]
         /\ ~online => pushes' = pushes
         /\ online => /\ DOMAIN pushes' = 1..(Len(pushes) + 1)
                      /\ pushes'[Len(pushes) + 1] = [thread |-> t, count |-> unread'[t]]
                      /\ \A i \in DOMAIN pushes : i \in DOMAIN pushes' /\ pushes'[i] = pushes[i]
<1>1. /\ unread \in [Threads -> Count] /\ unread[t].v \in Nat /\ unread[t].n \in Nat
      /\ unread' = [unread EXCEPT ![t] = [n |-> unread[t].n + 1, v |-> unread[t].v + 1]]
  BY DEF Message, AppTypes, ServerTypes, Count
<1>2. /\ unread'[t].v = unread[t].v + 1
      /\ \A x \in Threads : x # t => unread'[x] = unread[x]
  BY <1>1
<1> DEFINE P == [thread: Threads, count: Count]
           p == [thread |-> t, count |-> unread'[t]]
<1>3. pushes \in Seq(P) /\ pushes' = IF online THEN Append(pushes, p) ELSE pushes
  BY DEF AppTypes, ServerTypes, Message
<1> HIDE DEF P, p
<1>4. /\ DOMAIN pushes = 1..Len(pushes) /\ Len(pushes) \in Nat
      /\ DOMAIN Append(pushes, p) = 1..(Len(pushes) + 1)
      /\ Append(pushes, p)[Len(pushes) + 1] = p
      /\ \A i \in 1..Len(pushes) : Append(pushes, p)[i] = pushes[i]
  BY <1>3
<1>5. \A i \in 1..Len(pushes) : i \in 1..(Len(pushes) + 1)
  BY <1>4
<1>6. Ages
  BY <1>2 DEF Ages
<1>7. QED
  BY <1>2, <1>3, <1>4, <1>5, <1>6 DEF p

LEMMA OldMessage ==
  ASSUME AppTypes, AppTypes', OldInv, NEW t \in Threads, Message(t)
  PROVE  OldInv'
<1>1. UNCHANGED <<entries, mail>>
  BY DEF Message, uiVars, asyncVars
<1>2. \A i \in DOMAIN pushes' : \/ \E j \in DOMAIN pushes : pushes'[i] = pushes[j]
                                \/ Old(unread', pushes'[i].thread, pushes'[i].count)
  <2>1. online \in BOOLEAN
    BY DEF AppTypes, ServerTypes
  <2>2. ASSUME online PROVE \A i \in DOMAIN pushes' :
                              \/ \E j \in DOMAIN pushes : pushes'[i] = pushes[j]
                              \/ Old(unread', pushes'[i].thread, pushes'[i].count)
    <3>1. /\ DOMAIN pushes = 1..Len(pushes) /\ Len(pushes) \in Nat
          /\ DOMAIN pushes' = 1..(Len(pushes) + 1)
          /\ pushes'[Len(pushes) + 1] = [thread |-> t, count |-> unread'[t]]
          /\ \A i \in DOMAIN pushes : pushes'[i] = pushes[i]
      <4>1. DOMAIN pushes = 1..Len(pushes) /\ Len(pushes) \in Nat
        BY FeedTypes DEF AppTypes
      <4>2. QED
        BY <2>2, <4>1, Counted
    <3>2. \A i \in DOMAIN pushes' : i \in DOMAIN pushes \/ i = Len(pushes) + 1
      BY <3>1
    <3>3. /\ pushes'[Len(pushes) + 1].thread = t
          /\ pushes'[Len(pushes) + 1].count = unread'[t]
      BY <3>1
    <3>4. QED
      BY <3>1, <3>2, <3>3 DEF Old
  <2>3. QED
    BY <2>1, <2>2, Counted
<1>3. QED
  BY <1>1, <1>2, Counted, OldKept

LEMMA OldNext ==
  ASSUME AppTypes, AppTypes', OldInv, [Next]_vars
  PROVE  OldInv'
<1>1. CASE TakeMail
  BY <1>1, OldTaken DEF TakeMail
<1>2. CASE Login
  <2>1. BagToSet(mail') = {} /\ entries' = {} /\ UNCHANGED <<unread, pushes>>
    BY <1>2, SetBag DEF Login, ShowList, serverVars, EmptyBag
  <2>2. QED
    BY <2>1, OldSteady
<1>3. CASE TakeLoaded \/ TakeFormClosing
  <2>1. UNCHANGED <<entries, mail, unread, pushes>>
    BY <1>3 DEF TakeLoaded, TakeFormClosing, serverVars, asyncVars
  <2>2. QED
    BY <2>1, OldSteady
<1>4. CASE Server
  <2>1. ASSUME NEW r \in Rooms, RoomEvent(r) PROVE OldInv'
    <3>1. UNCHANGED <<entries, mail, unread, pushes>>
      BY <2>1 DEF RoomEvent, uiVars, asyncVars
    <3>2. QED
      BY <3>1, OldSteady
  <2>2. CASE Connect \/ Disconnect
    <3>1. UNCHANGED <<entries, mail, unread>> /\ (pushes' = pushes \/ pushes' = <<>>)
      BY <2>2 DEF Connect, Disconnect, uiVars, asyncVars
    <3>2. QED
      BY <3>1, OldSteady
  <2>3. QED
    BY <1>4, <2>1, <2>2, OldServed, OldMessage DEF Server
<1>5. CASE UNCHANGED vars
  <2>1. UNCHANGED <<entries, mail, unread, pushes>>
    BY <1>5 DEF vars, uiVars, asyncVars, serverVars
  <2>2. QED
    BY <2>1, OldSteady
<1>6. QED
  BY <1>1, <1>2, <1>3, <1>4, <1>5, OldPushed, OldKeys DEF Next

----------------------------------------------------------------------------
(* A badge that is not the server's count will be: something that brings   *)
(* the count is on its way, unless the thread was named as behind.         *)

(* GetInbox returns the thread's entry. *)
Seen(f, t) == \E i \in DOMAIN f : i <= FeedCap /\ f[i].thread = t /\ ~f[i].event

(* The message brings the count of thread t. *)
Brings(m, t) == m.is = "badges" \/ (m.is = "marked" /\ m.thread = t)

Pending(t) ==
  \/ FetchBadges \in BagToSet(work)
  \/ \E m \in BagToSet(mail) : Brings(m, t) /\ m.counts[t] = unread[t]
  \/ \E i \in DOMAIN pushes : pushes[i] = [thread |-> t, count |-> unread[t]]

Settled(t) ==
  \/ badge[t] = unread[t]
  \/ t \in behind
  \/ ~Seen(feed, t)
  \/ crashed
  \/ screen \in Chats \cup {"auth"}
  \/ Pending(t)

SettledInv == \A t \in Threads : Settled(t)

LEMMA FeedIndex ==
  ASSUME NEW f \in Seq([thread: Threads, event: BOOLEAN]), NEW i \in DOMAIN f
  PROVE  i \in Nat
<1> DEFINE F == [thread: Threads, event: BOOLEAN]
<1>1. f \in Seq(F)
  OBVIOUS
<1> HIDE DEF F
<1>2. DOMAIN f = 1..Len(f)
  BY <1>1
<1>3. QED
  BY <1>2

LEMMA SnapshotSeen ==
  ASSUME ServerTypes, NEW t \in Threads
  PROVE  /\ Lists(Snapshot, t) <=> Seen(feed, t)
         /\ Seen(feed, t) => ComputeBadges(Snapshot)[t] = unread[t]
<1>1. ASSUME NEW e, e.thread = t, ~e.event
      PROVE  e \in Snapshot =>
               /\ e.count = unread[t]
               /\ \E i \in DOMAIN feed : i <= FeedCap /\ feed[i].thread = t /\ ~feed[i].event
  <2> SUFFICES ASSUME e \in Snapshot
               PROVE  /\ e.count = unread[t]
                      /\ \E i \in DOMAIN feed : i <= FeedCap /\ feed[i].thread = t /\ ~feed[i].event
    OBVIOUS
  <2>1. PICK i \in DOMAIN feed :
          /\ i <= FeedCap
          /\ e = Entry(feed[i].thread, feed[i].event,
                       IF feed[i].event THEN Unknown ELSE unread[feed[i].thread])
    BY DEF Snapshot
  <2>2. /\ feed[i].thread = e.thread /\ feed[i].event = e.event
        /\ e.count = IF feed[i].event THEN Unknown ELSE unread[feed[i].thread]
    BY <2>1 DEF Entry
  <2>3. QED
    BY <1>1, <2>1, <2>2
<1>2. ASSUME NEW i \in DOMAIN feed, i <= FeedCap, feed[i].thread = t, ~feed[i].event
      PROVE  Lists(Snapshot, t)
  <2>1. Entry(feed[i].thread, feed[i].event,
              IF feed[i].event THEN Unknown ELSE unread[feed[i].thread]) \in Snapshot
    BY <1>2 DEF Snapshot
  <2>2. QED
    BY <1>2, <2>1 DEF Lists, Entry
<1>3. Lists(Snapshot, t) <=> Seen(feed, t)
  BY <1>1, <1>2 DEF Lists, Seen
<1>4. Lists(Snapshot, t) => ComputeBadges(Snapshot)[t] = unread[t]
  BY <1>1, EntryOfList DEF ComputeBadges
<1>5. QED
  BY <1>3, <1>4

(* The badges of a list. *)
LEMMA BadgesOfZero ==
  ASSUME NEW es \in SUBSET Entries, NEW t \in Threads, NEW c, Lists(es, t)
  PROVE  ComputeBadges(ZeroUnreadCount(es, t, c))[t] = c
<1> DEFINE zs == ZeroUnreadCount(es, t, c)
<1>1. ASSUME NEW e \in es
      PROVE  /\ [e EXCEPT !.count = c].thread = e.thread
             /\ [e EXCEPT !.count = c].event = e.event
             /\ [e EXCEPT !.count = c].count = c
  BY DEF Entries
<1>2. Lists(zs, t)
  <2>1. PICK e \in es : e.thread = t /\ ~e.event
    BY DEF Lists
  <2>2. [e EXCEPT !.count = c] \in zs
    BY <2>1 DEF ZeroUnreadCount
  <2>3. QED
    BY <1>1, <2>1, <2>2 DEF Lists
<1>3. \A z \in zs : z.thread = t => z.count = c
  BY <1>1 DEF ZeroUnreadCount
<1>4. EntryOf(zs, t) \in zs /\ EntryOf(zs, t).thread = t
  BY <1>2, EntryOfList
<1>5. QED
  BY <1>2, <1>3, <1>4 DEF ComputeBadges

(* A step after which the thread is as settled as before. *)
LEMMA SettledKept ==
  ASSUME NEW t \in Threads, Settled(t),
         badge[t] = unread[t] \/ t \in behind => badge'[t] = unread'[t] \/ t \in behind',
         Seen(feed', t) => Seen(feed, t),
         crashed => crashed',
         screen \in Chats \cup {"auth"} => screen' \in Chats \cup {"auth"},
         Pending(t) => Settled(t)'
  PROVE  Settled(t)'
BY DEF Settled

(* A step after which what brings the count is still on its way. *)
LEMMA PendingKept ==
  ASSUME NEW t \in Threads, Pending(t), unread'[t] = unread[t],
         FetchBadges \in BagToSet(work) => FetchBadges \in BagToSet(work'),
         \A m \in BagToSet(mail) :
           Brings(m, t) /\ m.counts[t] = unread[t] => m \in BagToSet(mail'),
         \A i \in DOMAIN pushes : pushes[i] = [thread |-> t, count |-> unread[t]]
                                    => \E j \in DOMAIN pushes' : pushes'[j] = pushes[i]
  PROVE  Settled(t)'
<1>1. ASSUME FetchBadges \in BagToSet(work) PROVE Pending(t)'
  BY <1>1 DEF Pending
<1>2. ASSUME NEW m \in BagToSet(mail), Brings(m, t), m.counts[t] = unread[t] PROVE Pending(t)'
  BY <1>2 DEF Pending, Brings
<1>3. ASSUME NEW i \in DOMAIN pushes, pushes[i] = [thread |-> t, count |-> unread[t]]
      PROVE  Pending(t)'
  BY <1>3 DEF Pending
<1>4. QED
  BY <1>1, <1>2, <1>3 DEF Settled, Pending

LEMMA FallsSettled ==
  ASSUME NEW t \in Threads, NEW T, Falls(T)
  PROVE  /\ t \in behind => badge'[t] = unread'[t] \/ t \in behind'
         /\ t \in T => Settled(t)'
         /\ t \in T => badge'[t] = unread'[t] \/ t \in behind'
BY DEF Falls, Settled

(* Steps that change neither badges, counts, feed nor pushes. *)
LEMMA SettledSteady ==
  ASSUME NEW t \in Threads, Settled(t), UNCHANGED <<badge, unread, feed, pushes, crashed>>,
         t \in behind => badge'[t] = unread'[t] \/ t \in behind',
         screen \in Chats \cup {"auth"} => screen' \in Chats \cup {"auth"},
         FetchBadges \in BagToSet(work) => FetchBadges \in BagToSet(work'),
         \A m \in BagToSet(mail) :
           Brings(m, t) /\ m.counts[t] = unread[t] => m \in BagToSet(mail')
  PROVE  Settled(t)'
<1>1. Pending(t) => Settled(t)'
  BY PendingKept
<1>2. QED
  BY <1>1, SettledKept

(* The screen changes. *)
LEMMA SettledShown ==
  ASSUME AppTypes, NEW t \in Threads, Settled(t), NEW m \in BagToSet(mail),
         TakeShowList(m) \/ TakeLeaveRoom(m) \/ TakeOpenRoom(m) \/ TakeOpenDM(m)
  PROVE  Settled(t)'
<1>1. AsyncTypes
  BY DEF AppTypes
<1>2. ASSUME FetchBadges \in BagToSet(work') PROVE Settled(t)'
  BY <1>2 DEF Settled, Pending
<1>3. CASE TakeShowList(m)
  <2>1. PICK cmds : /\ Take(m, cmds, {})
                    /\ m.is = "leaveDM" => FetchBadges \in cmds
    BY <1>3 DEF TakeShowList
  <2>2. CASE m.is = "leaveDM"
    BY <1>1, <1>2, <2>1, <2>2, TakeMoves
  <2>3. CASE m.is # "leaveDM" /\ screen \in Chats
    <3>1. Falls(Threads)
      BY <1>3, <2>3 DEF TakeShowList
    <3>2. QED
      BY <3>1, FallsSettled
  <2>4. CASE m.is # "leaveDM" /\ screen \notin Chats
    <3>1. Falls({}) /\ UNCHANGED <<badge, unread, feed, pushes, crashed>>
      BY <1>3, <2>4 DEF TakeShowList, serverVars
    <3>2. screen # "auth"
      BY <1>1, LoggedIn DEF BagIn
    <3>3. ~Brings(m, t)
      BY <1>3 DEF TakeShowList, Brings
    <3>4. /\ FetchBadges \in BagToSet(work) => FetchBadges \in BagToSet(work')
          /\ \A x \in BagToSet(mail) : x # m => x \in BagToSet(mail')
      BY <1>1, <2>1, TakeMoves
    <3>5. t \in behind => badge'[t] = unread'[t] \/ t \in behind'
      BY <3>1, FallsSettled
    <3>6. QED
      BY <2>4, <3>1, <3>2, <3>3, <3>4, <3>5, SettledSteady
  <2>5. QED
    BY <2>2, <2>3, <2>4
<1>4. CASE TakeLeaveRoom(m)
  <2>1. CASE current = None
    BY <1>4, <2>1 DEF TakeLeaveRoom, Settled
  <2>2. CASE current # None
    <3>1. Take(m, {FetchBadges}, {})
      BY <1>4, <2>2 DEF TakeLeaveRoom
    <3>2. QED
      BY <1>1, <1>2, <3>1, TakeMoves
  <2>3. QED
    BY <2>1, <2>2
<1>5. CASE TakeOpenRoom(m) \/ TakeOpenDM(m)
  <2>1. screen' \in Chats
    BY <1>5 DEF TakeOpenRoom, TakeOpenDM, ShowChat, Chats
  <2>2. QED
    BY <2>1 DEF Settled
<1>6. QED
  BY <1>3, <1>4, <1>5

(* All badges are replaced: by the server's, or by older ones, which do    *)
(* not go unnoticed where the badge was right.                             *)
LEMMA SettledBadges ==
  ASSUME AppTypes, OldInv, NEW t \in Threads, Settled(t), NEW m \in BagToSet(mail), TakeBadges(m)
  PROVE  Settled(t)'
<1>1. AsyncTypes /\ IsMsg(m) /\ Old(unread, t, m.counts[t])
  BY DEF AppTypes, AsyncTypes, OldInv, OldMsg
<1>2. /\ badge' = m.counts /\ Take(m, {}, {})
      /\ UNCHANGED <<screen, unread, feed, pushes, crashed>>
      /\ Falls({x \in Threads : badge'[x].v < badge[x].v})
  BY DEF TakeBadges, serverVars
<1>3. CASE m.counts[t] = unread[t]
  BY <1>2, <1>3 DEF Settled
<1>4. CASE m.counts[t] # unread[t]
  <2>1. badge[t] = unread[t] => badge'[t].v < badge[t].v
    BY <1>1, <1>2, <1>4 DEF Old
  <2>2. badge[t] = unread[t] \/ t \in behind => badge'[t] = unread'[t] \/ t \in behind'
    BY <1>2, <2>1, FallsSettled
  <2>3. /\ FetchBadges \in BagToSet(work) => FetchBadges \in BagToSet(work')
        /\ \A x \in BagToSet(mail) : x # m => x \in BagToSet(mail')
    BY <1>1, <1>2, TakeMoves
  <2>4. Pending(t) => Settled(t)'
    BY <1>2, <1>4, <2>3, PendingKept
  <2>5. QED
    BY <1>2, <2>2, <2>4, SettledKept
<1>5. QED
  BY <1>3, <1>4

(* One badge is replaced. *)
LEMMA SettledPushed ==
  ASSUME AppTypes, OldInv, NEW t \in Threads, Settled(t), TakePush
  PROVE  Settled(t)'
<1>1. PICK p : p = Head(pushes)
  OBVIOUS
<1>2. /\ p.thread \in Threads /\ p = pushes[1] /\ 1 \in DOMAIN pushes
      /\ DOMAIN Tail(pushes) = 1..(Len(pushes) - 1)
      /\ \A i \in DOMAIN Tail(pushes) : Tail(pushes)[i] = pushes[i + 1]
  BY <1>1, PushTypes DEF AppTypes, TakePush
<1>3. Old(unread, p.thread, p.count)
  BY <1>2 DEF OldInv
<1>4. /\ badge' = [badge EXCEPT ![p.thread] = p.count] /\ pushes' = Tail(pushes)
      /\ UNCHANGED <<screen, unread, feed, work, crashed>>
      /\ Falls({x \in Threads : badge'[x].v < badge[x].v})
      /\ mail' = mail \/ \E x : mail' = With(mail, x)
  BY <1>1 DEF TakePush, serverVars
<1>5. /\ badge'[p.thread] = p.count
      /\ \A x \in Threads : x # p.thread => badge'[x] = badge[x]
  BY <1>2, <1>4 DEF AppTypes, ScreenTypes
<1>6. CASE t = p.thread /\ p.count = unread[t]
  BY <1>4, <1>5, <1>6 DEF Settled
<1>7. CASE ~(t = p.thread /\ p.count = unread[t])
  <2>1. badge[t] = unread[t] => badge'[t] = unread[t] \/ badge'[t].v < badge[t].v
    BY <1>3, <1>5, <1>7 DEF Old
  <2>2. badge[t] = unread[t] \/ t \in behind => badge'[t] = unread'[t] \/ t \in behind'
    BY <1>4, <2>1, FallsSettled
  <2>3. \A x \in BagToSet(mail) : x \in BagToSet(mail')
    <3>1. IsABag(mail)
      BY DEF AppTypes, AsyncTypes
    <3>2. QED
      BY <1>4, <3>1, WithBag
  <2>4. ASSUME NEW i \in DOMAIN pushes, pushes[i] = [thread |-> t, count |-> unread[t]]
        PROVE  \E j \in DOMAIN pushes' : pushes'[j] = pushes[i]
    <3>1. pushes[i].thread = t /\ pushes[i].count = unread[t]
      BY <2>4
    <3>2. i # 1
      BY <1>2, <1>7, <3>1
    <3>3. DOMAIN pushes = 1..Len(pushes) /\ Len(pushes) \in Nat
      BY FeedTypes DEF AppTypes
    <3>4. i - 1 \in 1..(Len(pushes) - 1) /\ (i - 1) + 1 = i
      BY <3>2, <3>3
    <3>5. QED
      BY <1>2, <1>4, <3>4
  <2>5. Pending(t) => Settled(t)'
    BY <1>4, <2>3, <2>4, PendingKept
  <2>6. QED
    BY <1>4, <2>2, <2>5, SettledKept
<1>8. QED
  BY <1>6, <1>7

(* A message for the screen. *)
LEMMA SettledMail ==
  ASSUME AppTypes, NEW t \in Threads, Settled(t), NEW m \in BagToSet(mail),
         \/ TakeEntries(m) \/ TakeEntriesError(m) \/ TakeMarked(m) \/ TakeFound(m)
         \/ TakeForeign(m)
  PROVE  Settled(t)'
<1>1. AsyncTypes
  BY DEF AppTypes
<1>2. UNCHANGED <<screen, badge, unread, feed, pushes, crashed>>
  BY DEF TakeEntries, TakeEntriesError, TakeMarked, TakeFound, TakeForeign, uiVars, serverVars
<1>3. ASSUME NEW msgs, Take(m, {}, msgs), ~Brings(m, t) \/ m.counts[t] # unread[t],
             t \in behind => badge'[t] = unread'[t] \/ t \in behind'
      PROVE  Settled(t)'
  <2>1. /\ FetchBadges \in BagToSet(work) => FetchBadges \in BagToSet(work')
        /\ \A x \in BagToSet(mail) : x # m => x \in BagToSet(mail')
    BY <1>1, <1>3, TakeMoves
  <2>2. QED
    BY <1>2, <1>3, <2>1, SettledSteady
<1>4. CASE TakeEntries(m)
  <2>1. PICK msgs : Take(m, {}, msgs)
    BY <1>4 DEF TakeEntries, SetEntries
  <2>2. ~Brings(m, t) /\ behind' = behind
    BY <1>4 DEF TakeEntries, Brings
  <2>3. QED
    BY <1>3, <2>1, <2>2
<1>5. CASE TakeEntriesError(m)
  BY <1>3, <1>5 DEF TakeEntriesError, Brings
<1>6. CASE TakeFound(m)
  <2>1. PICK msgs : Take(m, {}, msgs)
    BY <1>6 DEF TakeFound
  <2>2. ~Brings(m, t) /\ behind' = behind
    BY <1>6 DEF TakeFound, Brings
  <2>3. QED
    BY <1>3, <2>1, <2>2
<1>7. CASE TakeForeign(m)
  <2>1. CASE m.is = "marked" /\ m.thread = t
    <3>1. Falls({t})
      BY <1>7, <2>1 DEF TakeForeign
    <3>2. QED
      BY <3>1, FallsSettled
  <2>2. CASE ~(m.is = "marked" /\ m.thread = t)
    <3>1. m.is # "badges"
      BY <1>7 DEF TakeForeign, Meant, ListScreens
    <3>2. PICK T : Falls(T)
      BY <1>7 DEF TakeForeign
    <3>3. t \in behind => badge'[t] = unread'[t] \/ t \in behind'
      BY <3>2, FallsSettled
    <3>4. QED
      BY <1>3, <1>7, <2>2, <3>1, <3>3 DEF TakeForeign, Brings
  <2>3. QED
    BY <2>1, <2>2
<1>8. CASE TakeMarked(m)
  <2> DEFINE es == ZeroUnreadCount(entries, m.thread, m.counts[m.thread])
             b == ComputeBadges(es)
  <2>1. Take(m, {}, {BadgesMsg(b)})
    BY <1>8 DEF TakeMarked, SetEntries
  <2>2. Falls(IF Lists(entries, m.thread) THEN {} ELSE {m.thread}) /\ m.is = "marked"
    BY <1>8 DEF TakeMarked
  <2>3. t \in behind => badge'[t] = unread'[t] \/ t \in behind'
    BY <2>2, FallsSettled
  <2>4. CASE m.thread # t \/ m.counts[t] # unread[t]
    BY <1>3, <2>1, <2>2, <2>3, <2>4 DEF Brings
  <2>5. CASE m.thread = t /\ ~Lists(entries, t)
    BY <2>2, <2>5, FallsSettled
  <2>6. CASE m.thread = t /\ m.counts[t] = unread[t] /\ Lists(entries, t)
    <3>1. entries \in SUBSET Entries /\ m.counts[m.thread] \in Count
      <4>1. IsMsg(m)
        BY DEF AppTypes, AsyncTypes
      <4>2. QED
        BY <2>6, <4>1 DEF AppTypes, ScreenTypes, IsMsg
    <3>2. b[t] = unread[t]
      BY <2>6, <3>1, BadgesOfZero
    <3>3. es \in SUBSET Entries
      BY <2>6, <3>1, ListTypes
    <3>4. BadgesMsg(b).is = "badges" /\ BadgesMsg(b).counts = b
      BY <3>3, ComputeType, BadgesType
    <3>5. BadgesMsg(b) \in BagToSet(mail')
      BY <1>1, <2>1, TakeMoves
    <3> HIDE DEF b
    <3>6. Pending(t)'
      BY <1>2, <3>2, <3>4, <3>5 DEF Pending, Brings
    <3>7. QED
      BY <3>6 DEF Settled
  <2>7. QED
    BY <2>4, <2>5, <2>6
<1>9. QED
  BY <1>4, <1>5, <1>6, <1>7, <1>8

(* Keys add to what is on its way. *)
LEMMA SettledKeys ==
  ASSUME AppTypes, NEW t \in Threads, Settled(t), Key
  PROVE  Settled(t)'
<1>1. ASSUME NEW cmds, NEW msgs, Start(cmds, msgs) PROVE Settled(t)'
  <2>1. UNCHANGED <<screen, badge, unread, feed, pushes, crashed, behind>>
    BY <1>1 DEF Start, serverVars
  <2>2. /\ FetchBadges \in BagToSet(work) => FetchBadges \in BagToSet(work')
        /\ \A x \in BagToSet(mail) : x \in BagToSet(mail')
    BY <1>1, StartMoves DEF AppTypes
  <2>3. QED
    BY <2>1, <2>2, SettledSteady
<1>2. CASE PressForm
  <2>1. UNCHANGED <<screen, badge, unread, feed, pushes, crashed, behind, work, mail>>
    BY <1>2 DEF PressForm, serverVars, asyncVars
  <2>2. QED
    BY <2>1, SettledSteady
<1>3. CASE PressTab \/ PressEscInChat \/ PressRefresh \/ PressEnterInForm
  BY <1>1, <1>3 DEF PressTab, PressEscInChat, PressRefresh, PressEnterInForm
<1>4. ASSUME NEW r, PressEnterOnRoom(r) \/ PressEnterOnConv(r) PROVE Settled(t)'
  BY <1>1, <1>4 DEF PressEnterOnRoom, PressEnterOnConv
<1>5. ASSUME NEW e, PressMark(e) \/ PressEnterOnEntry(e) PROVE Settled(t)'
  BY <1>1, <1>5 DEF PressMark, PressEnterOnEntry
<1>6. QED
  BY <1>2, <1>3, <1>4, <1>5 DEF Key

(* The server's answers bring the count that they are made of. *)
LEMMA SettledServed ==
  ASSUME AppTypes, NEW t \in Threads, Settled(t), NEW c \in BagToSet(work),
         ServeFetch(c) \/ ServeRead(c) \/ ServeMarkAsRead(c) \/ ServeFails(c)
  PROVE  Settled(t)'
<1>1. IsCmd(c) /\ BagIn(c, work) /\ IsABag(mail)
  BY DEF AppTypes, AsyncTypes, BagIn
<1>2. /\ UNCHANGED <<screen, badge, feed, pushes, crashed>>
      /\ \A x \in BagToSet(work) : x # c => x \in BagToSet(work')
      /\ BagToSet(mail) \subseteq BagToSet(mail')
  <2>1. /\ work' = Without(work, c) /\ UNCHANGED <<uiVars, pushes, online, feed>>
        /\ mail' = mail \/ \E x : IsMsg(x) /\ mail' = With(mail, x)
    BY Answered
  <2>2. UNCHANGED <<screen, badge, feed, pushes, crashed>>
    BY <2>1 DEF uiVars
  <2>3. QED
    BY <1>1, <2>1, <2>2, ServeMoves DEF AppTypes
<1>3. ASSUME unread'[t] = unread[t], c # FetchBadges,
             t \in behind => badge'[t] = unread'[t] \/ t \in behind'
      PROVE  Settled(t)'
  <2>1. Pending(t) => Settled(t)'
    BY <1>2, <1>3, PendingKept
  <2>2. QED
    BY <1>2, <1>3, <2>1, SettledKept
<1>4. c.do \in {"read", "markAsRead"} =>
        /\ c.thread \in Threads /\ c # FetchBadges
        /\ Reset(c.thread) => \A x \in Threads : x # c.thread => unread'[x] = unread[x]
  <2> SUFFICES ASSUME c.do \in {"read", "markAsRead"}
               PROVE  /\ c.thread \in Threads /\ c # FetchBadges
                      /\ Reset(c.thread) =>
                           \A x \in Threads : x # c.thread => unread'[x] = unread[x]
    OBVIOUS
  <2>1. c.thread \in Threads /\ c # FetchBadges
    BY <1>1 DEF IsCmd, FetchEntries, FetchBadges, Cmd
  <2>2. QED
    BY <2>1, Resets DEF AppTypes
<1>5. CASE ServeFetch(c)
  <2>1. unread' = unread /\ behind' = behind /\ mail' = With(mail, Fetched(c))
    BY <1>5 DEF ServeFetch, serverVars
  <2>2. CASE c # FetchBadges
    BY <1>3, <2>1, <2>2
  <2>3. CASE c = FetchBadges
    <3>1. Fetched(c) = BadgesMsg(ComputeBadges(Snapshot))
      BY <2>3 DEF Fetched, FetchBadges, Cmd
    <3>2. /\ BadgesMsg(ComputeBadges(Snapshot)).is = "badges"
          /\ BadgesMsg(ComputeBadges(Snapshot)).counts = ComputeBadges(Snapshot)
      BY SnapshotType, ComputeType, BadgesType DEF AppTypes
    <3>3. Fetched(c) \in BagToSet(mail')
      BY <1>1, <2>1, WithBag
    <3>4. CASE ~Seen(feed, t)
      BY <1>2, <3>4 DEF Settled
    <3>5. CASE Seen(feed, t)
      <4>1. ComputeBadges(Snapshot)[t] = unread'[t]
        BY <2>1, <3>5, SnapshotSeen DEF AppTypes
      <4>2. Pending(t)'
        BY <3>1, <3>2, <3>3, <4>1 DEF Pending, Brings
      <4>3. QED
        BY <4>2 DEF Settled
    <3>6. QED
      BY <3>4, <3>5
  <2>4. QED
    BY <2>2, <2>3
<1>6. CASE ServeRead(c)
  <2>1. /\ c.do = "read" /\ Reset(c.thread)
        /\ Falls(IF screen \in Chats THEN {} ELSE {c.thread})
    BY <1>6 DEF ServeRead
  <2>2. CASE screen \in Chats
    BY <1>2, <2>2 DEF Settled
  <2>3. CASE screen \notin Chats /\ t = c.thread
    BY <2>1, <2>3, FallsSettled
  <2>4. CASE t # c.thread
    <3>1. t \in behind => badge'[t] = unread'[t] \/ t \in behind'
      BY <2>1, FallsSettled
    <3>2. QED
      BY <1>3, <1>4, <2>1, <2>4, <3>1
  <2>5. QED
    BY <2>2, <2>3, <2>4
<1>7. CASE ServeMarkAsRead(c)
  <2> DEFINE m == [Msg("marked", c.thread) EXCEPT !.counts[c.thread] = unread'[c.thread]]
  <2>1. /\ c.do = "markAsRead" /\ Reset(c.thread) /\ behind' = behind
        /\ mail' = With(mail, m)
    BY <1>7 DEF ServeMarkAsRead
  <2>2. CASE t # c.thread
    BY <1>3, <1>4, <2>1, <2>2
  <2>3. CASE t = c.thread
    <3>1. c.thread \in Threads /\ unread'[c.thread] \in Count
      BY <1>4, <2>1, Resets DEF AppTypes
    <3>2. /\ m.is = "marked" /\ m.thread = c.thread
          /\ m.counts = [NoCounts EXCEPT ![c.thread] = unread'[c.thread]]
      <4>1. PICK k \in Count : k = unread'[c.thread]
        BY <3>1
      <4>2. m = [Msg("marked", c.thread) EXCEPT !.counts[c.thread] = k]
        BY <4>1
      <4> HIDE DEF m
      <4>3. LET x == [Msg("marked", c.thread) EXCEPT !.counts[c.thread] = k]
            IN  /\ x.is = "marked" /\ x.thread = c.thread
                /\ x.counts = [NoCounts EXCEPT ![c.thread] = k]
        BY <3>1, MarkedType
      <4>4. QED
        BY <4>1, <4>2, <4>3
    <3>3. m \in BagToSet(mail')
      BY <1>1, <2>1, WithBag
    <3> HIDE DEF m
    <3>4. m.counts[t] = unread'[t]
      BY <2>3, <3>2, PlainTypes
    <3>5. Pending(t)'
      BY <2>3, <3>2, <3>3, <3>4 DEF Pending, Brings
    <3>6. QED
      BY <3>5 DEF Settled
  <2>4. QED
    BY <2>2, <2>3
<1>8. CASE ServeFails(c)
  <2>1. /\ unread' = unread
        /\ Falls(IF c.do = "fetchBadges" THEN Threads ELSE {})
    BY <1>8 DEF ServeFails, serverVars
  <2>2. CASE c.do = "fetchBadges"
    BY <2>1, <2>2, FallsSettled
  <2>3. CASE c.do # "fetchBadges"
    <3>1. c # FetchBadges
      BY <2>3 DEF FetchBadges, Cmd
    <3>2. t \in behind => badge'[t] = unread'[t] \/ t \in behind'
      BY <2>1, FallsSettled
    <3>3. QED
      BY <1>3, <2>1, <3>1, <3>2
  <2>4. QED
    BY <2>2, <2>3
<1>9. QED
  BY <1>5, <1>6, <1>7, <1>8

(* A new message comes with a push, or the thread is behind. *)
LEMMA SettledMessage ==
  ASSUME AppTypes, NEW t \in Threads, Settled(t), NEW x \in Threads, Message(x)
  PROVE  Settled(t)'
<1>1. /\ UNCHANGED <<screen, badge, crashed, work, mail>>
      /\ Falls(IF online \/ screen = "auth" THEN {} ELSE {x})
      /\ online \in BOOLEAN
  BY DEF Message, uiVars, asyncVars, AppTypes, ServerTypes
<1>2. CASE t = x
  <2>1. CASE screen = "auth"
    BY <1>1, <2>1 DEF Settled
  <2>2. CASE online
    <3>1. Len(pushes) + 1 \in DOMAIN pushes'
      <4>1. Len(pushes) \in Nat
        BY FeedTypes DEF AppTypes
      <4>2. DOMAIN pushes' = 1..(Len(pushes) + 1)
        BY <2>2, Counted
      <4>3. QED
        BY <4>1, <4>2
    <3>2. Pending(t)'
      BY <1>2, <2>2, <3>1, Counted DEF Pending
    <3>3. QED
      BY <3>2 DEF Settled
  <2>3. CASE ~online /\ screen # "auth"
    BY <1>1, <1>2, <2>3, FallsSettled
  <2>4. QED
    BY <1>1, <2>1, <2>2, <2>3
<1>3. CASE t # x
  <2>1. unread'[t] = unread[t]
    BY <1>3, Counted
  <2>2. \A i \in DOMAIN pushes : \E j \in DOMAIN pushes' : pushes'[j] = pushes[i]
    <3>1. CASE online
      BY <3>1, Counted
    <3>2. CASE ~online
      BY <3>2, Counted
    <3>3. QED
      BY <1>1, <3>1, <3>2
  <2>3. Pending(t) => Settled(t)'
    BY <1>1, <2>1, <2>2, PendingKept
  <2>4. Seen(feed', t) => Seen(feed, t)
    <3> SUFFICES ASSUME NEW j \in DOMAIN feed', j <= FeedCap, feed'[j].thread = t, ~feed'[j].event
                 PROVE  Seen(feed, t)
      BY DEF Seen
    <3>1. PICK i \in DOMAIN feed : i <= j /\ feed'[j] = feed[i]
      BY <1>3, MessageTypes
    <3>2. i \in Nat /\ j \in Nat /\ FeedCap \in Nat
      <4>1. ServerTypes /\ ServerTypes'
        BY MessageTypes DEF AppTypes
      <4>2. QED
        BY <4>1, FeedIndex, AppAssumption DEF ServerTypes
    <3>3. i <= FeedCap
      BY <3>1, <3>2
    <3>4. QED
      BY <3>1, <3>3 DEF Seen
  <2>5. t \in behind => badge'[t] = unread'[t] \/ t \in behind'
    BY <1>1, FallsSettled
  <2>6. QED
    BY <1>1, <2>1, <2>3, <2>4, <2>5, SettledKept
<1>4. QED
  BY <1>2, <1>3

LEMMA SettledEvent ==
  ASSUME AppTypes, NEW t \in Threads, Settled(t), NEW r \in Rooms, RoomEvent(r)
  PROVE  Settled(t)'
<1>1. UNCHANGED <<screen, badge, crashed, work, mail, unread, pushes, behind>>
  BY DEF RoomEvent, uiVars, asyncVars
<1>2. Pending(t) => Settled(t)'
  BY <1>1, PendingKept
<1>3. Seen(feed', t) => Seen(feed, t)
  <2> SUFFICES ASSUME NEW j \in DOMAIN feed', j <= FeedCap, feed'[j].thread = t, ~feed'[j].event
               PROVE  Seen(feed, t)
    BY DEF Seen
  <2>1. PICK i \in DOMAIN feed : i <= j /\ feed'[j] = feed[i]
    BY EventTypes
  <2>2. i \in Nat /\ j \in Nat /\ FeedCap \in Nat
    <3>1. ServerTypes /\ ServerTypes'
      BY EventTypes DEF AppTypes
    <3>2. QED
      BY <3>1, FeedIndex, AppAssumption DEF ServerTypes
  <2>3. i <= FeedCap
    BY <2>1, <2>2
  <2>4. QED
    BY <2>1, <2>3 DEF Seen
<1>4. QED
  BY <1>1, <1>2, <1>3, SettledKept

(* What a lost connection takes along is behind. *)
LEMMA SettledLost ==
  ASSUME AppTypes, NEW t \in Threads, Settled(t), Disconnect
  PROVE  Settled(t)'
<1>1. /\ UNCHANGED <<screen, badge, crashed, work, mail, unread, feed>>
      /\ Falls({pushes[i].thread : i \in DOMAIN pushes})
  BY DEF Disconnect, uiVars, asyncVars
<1>2. CASE \E i \in DOMAIN pushes : pushes[i] = [thread |-> t, count |-> unread[t]]
  <2>1. \E i \in DOMAIN pushes : pushes[i].thread = t
    BY <1>2
  <2>2. QED
    BY <1>1, <2>1, FallsSettled
<1>3. CASE ~\E i \in DOMAIN pushes : pushes[i] = [thread |-> t, count |-> unread[t]]
  <2>1. Pending(t) => Settled(t)'
    BY <1>1, <1>3, PendingKept
  <2>2. t \in behind => badge'[t] = unread'[t] \/ t \in behind'
    BY <1>1, FallsSettled
  <2>3. QED
    BY <1>1, <2>1, <2>2, SettledKept
<1>4. QED
  BY <1>2, <1>3

LEMMA SettledNext ==
  ASSUME AppTypes, OldInv, SettledInv, [Next]_vars
  PROVE  SettledInv'
<1> SUFFICES ASSUME NEW t \in Threads PROVE Settled(t)'
  BY DEF SettledInv
<1>1. Settled(t)
  BY DEF SettledInv
<1>2. CASE TakeMail
  BY <1>1, <1>2, SettledShown, SettledBadges, SettledMail DEF TakeMail
<1>3. CASE Login
  <2>1. FetchBadges \in BagToSet(work')
    BY <1>3, SetBag DEF Login
  <2>2. QED
    BY <2>1 DEF Settled, Pending
<1>4. CASE TakeLoaded \/ TakeFormClosing
  <2>1. UNCHANGED <<screen, badge, unread, feed, pushes, crashed, behind, work, mail>>
    BY <1>4 DEF TakeLoaded, TakeFormClosing, serverVars, asyncVars
  <2>2. QED
    BY <1>1, <2>1, SettledSteady
<1>5. CASE Server
  <2>1. CASE Connect
    <3>1. UNCHANGED <<screen, badge, unread, feed, pushes, crashed, behind, work, mail>>
      BY <2>1 DEF Connect, uiVars, asyncVars
    <3>2. QED
      BY <1>1, <3>1, SettledSteady
  <2>2. QED
    BY <1>1, <1>5, <2>1, SettledServed, SettledMessage, SettledEvent, SettledLost DEF Server
<1>6. CASE UNCHANGED vars
  <2>1. UNCHANGED <<screen, badge, unread, feed, pushes, crashed, behind, work, mail>>
    BY <1>6 DEF vars, uiVars, asyncVars, serverVars
  <2>2. QED
    BY <1>1, <2>1, SettledSteady
<1>7. QED
  BY <1>1, <1>2, <1>3, <1>4, <1>5, <1>6, SettledPushed, SettledKeys DEF Next

(* When nothing is under way, the badges of the lists are the server's     *)
(* counts, however many threads, messages and requests there were, unless  *)
(* one of the races that App names put the thread behind, or its entry is  *)
(* beyond the end of what GetInbox returns (app.go:157-223, badges.go,     *)
(* inbox/model.go).                                                        *)
THEOREM Badges == Spec => []BadgesMatch
<1>1. Init => SettledInv
  BY DEF Init, SettledInv, Settled
<1>2. ASSUME AppTypes, SettledInv PROVE BadgesMatch
  <2> SUFFICES ASSUME Running, AtRest, screen \in {"rooms", "dms"}, NEW t \in Threads
               PROVE  badge[t].n = unread[t].n \/ t \in behind \/ ~Lists(Snapshot, t)
    BY DEF BadgesMatch
  <2>1. ~Pending(t)
    <3>1. BagToSet(work) = {} /\ BagToSet(mail) = {} /\ DOMAIN pushes = {}
      BY SetBag DEF AtRest, EmptyBag
    <3>2. QED
      BY <3>1 DEF Pending
  <2>2. screen \notin Chats \cup {"auth"}
    BY DEF Chats
  <2>3. badge[t] = unread[t] \/ t \in behind \/ ~Seen(feed, t)
    <3>1. Settled(t)
      BY <1>2 DEF SettledInv
    <3>2. QED
      BY <2>1, <2>2, <3>1 DEF Settled, Running
  <2>4. Lists(Snapshot, t) => Seen(feed, t)
    BY <1>2, SnapshotSeen DEF AppTypes
  <2>5. QED
    BY <2>3, <2>4
<1>3. QED
  BY <1>1, <1>2, AppTypesInit, AppTypesNext, OldInit, OldNext, SettledNext, PTL DEF Spec
=============================================================================
