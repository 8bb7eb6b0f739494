-------------------------- MODULE TranscriptProofs --------------------------
(***************************************************************************)
(* Theorems about the chat screens, for any rooms, conversations, lengths  *)
(* of a history and numbers of messages, chats and faults.                 *)
(***************************************************************************)
EXTENDS Transcript, TLAPS, FiniteSetTheorems, SequenceTheorems, WellFoundedInduction

----------------------------------------------------------------------------
(* Sets of numbers in ascending order *)

(* A set of natural numbers that is not empty has a least element.         *)
LEMMA Least ==
  ASSUME NEW T \in SUBSET Nat, T # {}
  PROVE  \E x \in T : \A y \in T : x <= y
<1> DEFINE R == {ss \in Nat \X Nat : ss[1] < ss[2]}
<1>1. IsWellFoundedOn(R, Nat)
  BY NatLessThanWellFounded, Zenon DEF OpToRel
<1>2. PICK x \in T : \A y \in T : ~(<<y, x>> \in R)
  <2> HIDE DEF R
  <2>1. QED
    BY <1>1, WFMin
<1>3. \A y \in T : ~(y < x)
  BY <1>2
<1>4. QED
  BY <1>3

Rises(q) == \A i, j \in DOMAIN q : i < j => q[i] < q[j]

(* Every finite set of natural numbers can be put in ascending order: a    *)
(* smallest one that cannot is not empty; take its least number away.      *)
LEMMA CanAscend ==
  ASSUME NEW S \in SUBSET Nat, IsFiniteSet(S)
  PROVE  \E q \in [1..Cardinality(S) -> S] : Rises(q)
<1> DEFINE Good(T) == \E q \in [1..Cardinality(T) -> T] : Rises(q)
           Bad == {n \in Nat : \E T \in SUBSET Nat :
                                 IsFiniteSet(T) /\ Cardinality(T) = n /\ ~Good(T)}
<1>1. SUFFICES Bad = {}
  BY FS_CardinalityType
<1>2. SUFFICES ASSUME Bad # {} PROVE FALSE
  OBVIOUS
<1>3. PICK n \in Bad : \A m \in Bad : n <= m
  <2>1. Bad \in SUBSET Nat
    OBVIOUS
  <2> HIDE DEF Bad
  <2>2. QED
    BY <1>2, <2>1, Least
<1>4. PICK T \in SUBSET Nat : IsFiniteSet(T) /\ Cardinality(T) = n /\ ~Good(T)
  OBVIOUS
<1>5. T # {}
  <2>1. ASSUME T = {} PROVE Good(T)
    <3>1. Cardinality(T) = 0
      BY <2>1, FS_EmptySet
    <3>2. [i \in 1..0 |-> 0] \in [1..Cardinality(T) -> T]
      BY <3>1
    <3>3. Rises([i \in 1..0 |-> 0])
      BY DEF Rises
    <3>4. QED
      BY <3>2, <3>3
  <2>2. QED
    BY <1>4, <2>1
<1>6. PICK x \in T : \A y \in T : x <= y
  BY <1>5, Least
<1>7. /\ IsFiniteSet(T \ {x}) /\ Cardinality(T \ {x}) = n - 1
      /\ n \in Nat /\ n - 1 \in Nat
  <2>1. n \in Nat
    OBVIOUS
  <2>2. IsFiniteSet(T \ {x}) /\ Cardinality(T \ {x}) = n - 1
    BY <1>4, <1>6, FS_RemoveElement
  <2>3. QED
    BY <2>1, <2>2, FS_CardinalityType
<1>8. Good(T \ {x})
  <2>1. n - 1 \notin Bad
    BY <1>3, <1>7
  <2>2. QED
    BY <1>7, <2>1
<1>9. PICK q \in [1..n - 1 -> T \ {x}] : Rises(q)
  BY <1>7, <1>8
<1>10. Good(T)
  <2> DEFINE p == [i \in 1..n |-> IF i = 1 THEN x ELSE q[i - 1]]
  <2>1. ASSUME NEW i \in 1..n, i # 1
        PROVE  i - 1 \in 1..n - 1 /\ q[i - 1] \in T /\ x < q[i - 1]
    <3>1. i - 1 \in 1..n - 1
      BY <1>7, <2>1
    <3>2. q[i - 1] \in T \ {x}
      BY <1>9, <3>1
    <3>3. x \in Nat /\ q[i - 1] \in Nat /\ x <= q[i - 1]
      BY <1>6, <3>2
    <3>4. QED
      BY <3>1, <3>2, <3>3
  <2>2. p \in [1..n -> T]
    BY <1>6, <2>1
  <2>3. ASSUME NEW i \in 1..n, NEW j \in 1..n, i < j PROVE p[i] < p[j]
    BY <1>7, <1>9, <2>1, <2>3 DEF Rises
  <2> HIDE DEF p
  <2>4. Rises(p)
    BY <2>2, <2>3 DEF Rises
  <2>5. QED
    BY <1>4, <2>2, <2>4
<1>11. QED
  BY <1>4, <1>10

(* Ascending lists a set, in order and without repetitions. *)
LEMMA AscendingLists ==
  ASSUME NEW S \in SUBSET Nat, IsFiniteSet(S)
  PROVE  /\ Ascending(S) \in [1..Cardinality(S) -> S]
         /\ Rises(Ascending(S))
         /\ \A x \in S : \E i \in 1..Cardinality(S) : Ascending(S)[i] = x
<1> DEFINE n == Cardinality(S)
           q == Ascending(S)
<1>1. n \in Nat
  BY FS_CardinalityType
<1>2. PICK p \in [1..n -> S] : Rises(p)
  BY CanAscend
<1>3. p \in SetToSeqs(S)
  <2>1. \A i, j \in 1..n : i # j => p[i] # p[j]
    <3>1. \A i, j \in 1..n : i # j => i < j \/ j < i
      BY <1>1
    <3>2. \A i \in 1..n : p[i] \in Nat
      OBVIOUS
    <3>3. QED
      BY <1>2, <3>1, <3>2 DEF Rises
  <2>2. QED
    BY <2>1 DEF SetToSeqs
<1>4. q \in SetToSeqs(S) /\ Rises(q)
  BY <1>2, <1>3 DEF Ascending, Rises
<1>5. q \in [1..n -> S] /\ \A i, j \in 1..n : i # j => q[i] # q[j]
  BY <1>4 DEF SetToSeqs
<1>6. \A x \in S : \E i \in 1..n : q[i] = x
  <2>1. q \in Injection(1..n, S)
    BY <1>5 DEF Injection, IsInjective
  <2>2. Cardinality(1..n) = n
    BY <1>1, FS_Interval
  <2>3. q \in Surjection(1..n, S)
    BY <2>1, <2>2, FS_Injection
  <2>4. QED
    BY <2>3 DEF Surjection
<1>7. QED
  BY <1>4, <1>5, <1>6

----------------------------------------------------------------------------
(* Histories *)

(* The numbers of a thread's messages are a finite set. *)
LEMMA OfIsFinite ==
  ASSUME log \in Seq(Threads), NEW t
  PROVE  Of(t) \in SUBSET Nat /\ IsFiniteSet(Of(t)) /\ Of(t) \subseteq 1..Len(log)
<1>1. Of(t) \subseteq 1..Len(log) /\ Len(log) \in Nat
  BY DEF Of, Messages
<1>2. IsFiniteSet(1..Len(log))
  BY <1>1, FS_Interval
<1>3. QED
  BY <1>1, <1>2, FS_Subset

Newer(t, i) == {j \in Of(t) : j > i}

(* A history has messages of its thread only, in the order stored, and all *)
(* of them but those that HistoryCap newer ones push out.                  *)
LEMMA HistoryLists ==
  ASSUME log \in Seq(Threads), NEW t
  PROVE  /\ History(t) \in Seq(Nat)
         /\ \A k \in 1..Len(History(t)) : History(t)[k] \in Of(t)
         /\ Rises(History(t))
         /\ \A i \in Of(t) : \/ \E k \in 1..Len(History(t)) : History(t)[k] = i
                             \/ Cardinality(Newer(t, i)) >= HistoryCap
<1> DEFINE all == Ascending(Of(t))
           n == Cardinality(Of(t))
           cut == IF Len(all) > HistoryCap THEN Len(all) - HistoryCap ELSE 0
           h == SubSeq(all, cut + 1, Len(all))
<1>1. /\ n \in Nat /\ all \in [1..n -> Of(t)] /\ Rises(all)
      /\ \A x \in Of(t) : \E i \in 1..n : all[i] = x
  BY OfIsFinite, AscendingLists, FS_CardinalityType
<1>2. HistoryCap \in Nat /\ Of(t) \in SUBSET Nat
  BY TranscriptAssumption, OfIsFinite
<1> HIDE DEF all, n
<1>3. all \in Seq(Nat) /\ Len(all) = n
  BY <1>1, <1>2
<1>4. cut \in 0..n /\ (cut > 0 => cut = n - HistoryCap)
  BY <1>1, <1>2, <1>3
<1> HIDE DEF cut
<1>5. /\ h \in Seq(Nat) /\ Len(h) = n - cut
      /\ \A k \in 1..n - cut : h[k] = all[cut + k] /\ cut + k \in 1..n
  BY <1>1, <1>3, <1>4
<1>6. History(t) = h
  BY DEF History, all, cut, h
<1> HIDE DEF h
<1>7. \A k \in 1..Len(h) : h[k] \in Of(t)
  BY <1>1, <1>5
<1>8. Rises(h)
  <2> SUFFICES ASSUME NEW i \in 1..n - cut, NEW j \in 1..n - cut, i < j PROVE h[i] < h[j]
    BY <1>4, <1>5 DEF Rises
  <2>1. cut + i \in 1..n /\ cut + j \in 1..n /\ cut + i < cut + j
    BY <1>1, <1>4
  <2>2. QED
    BY <1>1, <1>5, <2>1 DEF Rises
<1>9. ASSUME NEW i \in Of(t), \A k \in 1..Len(h) : h[k] # i
      PROVE  Cardinality(Newer(t, i)) >= HistoryCap
  <2>1. PICK p \in 1..n : all[p] = i
    BY <1>1
  <2>2. p <= cut
    <3>1. ASSUME p > cut PROVE FALSE
      <4>1. p - cut \in 1..n - cut /\ cut + (p - cut) = p
        BY <1>1, <1>4, <3>1
      <4>2. QED
        BY <1>5, <1>9, <2>1, <4>1
    <3>2. QED
      BY <1>1, <1>4, <3>1
  <2>3. cut = n - HistoryCap /\ cut > 0
    BY <1>1, <1>4, <2>2
  <2> DEFINE f == [m \in cut + 1..n |-> all[m]]
  <2>4. \A m \in cut + 1..n : m \in 1..n /\ all[m] \in Newer(t, i)
    BY <1>1, <1>2, <1>4, <2>1, <2>2 DEF Newer, Rises
  <2>5. \A m, l \in cut + 1..n : all[m] = all[l] => m = l
    <3>1. \A m, l \in 1..n : m < l => all[m] # all[l]
      BY <1>1, <1>2 DEF Rises
    <3>2. QED
      BY <1>1, <1>4, <3>1
  <2>6. f \in Injection(cut + 1..n, Newer(t, i))
    <3>1. f \in [cut + 1..n -> Newer(t, i)]
      BY <2>4
    <3>2. \A m, l \in cut + 1..n : f[m] = f[l] => m = l
      BY <2>5
    <3> HIDE DEF f
    <3>3. QED
      BY <3>1, <3>2 DEF Injection, IsInjective
  <2>7. IsFiniteSet(Newer(t, i))
    BY OfIsFinite, FS_Subset DEF Newer
  <2> HIDE DEF f
  <2>8. Cardinality(cut + 1..n) <= Cardinality(Newer(t, i))
    BY <2>6, <2>7, FS_Injection
  <2>9. Cardinality(cut + 1..n) = HistoryCap
    BY <1>1, <1>2, <1>4, <2>3, FS_Interval
  <2>10. Cardinality(Newer(t, i)) \in Nat
    BY <2>7, FS_CardinalityType
  <2>11. QED
    BY <1>2, <2>8, <2>9, <2>10
<1>10. QED
  BY <1>5, <1>6, <1>7, <1>8, <1>9

----------------------------------------------------------------------------
(* Types, and where the messages are *)

Item   == [is: {"message", "error", "reconnecting", "connected"}, id: Nat]
Results == [is: {"history", "error", "client"}, n: Nat, thread: Threads \cup {None},
           ids: Seq(Nat)]

LogOK ==
  /\ log \in Seq(Threads) /\ Len(log) <= MaxMessages
  /\ unrouted \in SUBSET (1..Len(log))
  /\ lost \in SUBSET (1..Len(log)) /\ lost \cap unrouted = {}

(* A message is in the feed once, and then neither to be routed nor lost.  *)
FeedOK ==
  /\ feed \in Seq(Item)
  /\ \A k \in 1..Len(feed) :
       /\ feed[k].is = "message" <=> feed[k].id # 0
       /\ feed[k].id <= Len(log) /\ feed[k].id \notin unrouted \cup lost
  /\ \A k, l \in 1..Len(feed) : feed[k].id = feed[l].id /\ feed[k].id # 0 => k = l

AskedOK == asked \in SUBSET [n: 1..opens, thread: Threads] /\ IsFiniteSet(asked)

(* A history has messages of its thread in the order stored; what the      *)
(* command connectWS reports agrees with the connection.                   *)
MailOK ==
  /\ mail \in SUBSET Results /\ IsFiniteSet(mail)
  /\ \A r \in mail :
       /\ r.is = "history" => /\ r.n \in 1..opens /\ r.thread \in Threads
                              /\ \A k \in 1..Len(r.ids) : r.ids[k] \in Of(r.thread)
                              /\ Rises(r.ids)
       /\ r.is = "client" => conn \in {"on", "off"}
       /\ r.is = "error" /\ r.n = 0 => conn = "never"

Entry(n) == [id: 1..n, how: {"live", "history"}]

ChatOK ==
  /\ view \in Threads \cup {None}
  /\ shown \in Seq(Entry(Len(log)))
  /\ view = None => shown = <<>> /\ ~loading
  /\ canSend => client
  /\ openedAt \in Nat

FlagsOK ==
  /\ conn \in {"first", "on", "off", "never"}
  /\ client => conn \in {"on", "off"}
  /\ status \in {"connecting", "live", "offline"}
  /\ opens \in Nat /\ faults \in Nat

Histories == {r \in mail : r.is = "history"}

CountOK == Cardinality(asked) + Cardinality(Histories) <= opens

TypeInv == LogOK /\ FeedOK /\ AskedOK /\ MailOK /\ ChatOK /\ FlagsOK

(* What is in the feed. *)
LEMMA FeedIs ==
  ASSUME LogOK, FeedOK
  PROVE  /\ Len(log) \in Nat /\ Len(feed) \in Nat
         /\ \A k \in 1..Len(feed) : /\ feed[k] \in Item /\ feed[k].id \in 0..Len(log)
                                    /\ feed[k].is = "message" <=> feed[k].id # 0
                                    /\ feed[k].id \notin unrouted \cup lost
         /\ InFeed = {feed[k].id : k \in 1..Len(feed)} \ {0}
         /\ InFeed \in SUBSET (1..Len(log)) /\ InFeed \cap (unrouted \cup lost) = {}
<1>1. Len(log) \in Nat /\ Len(feed) \in Nat /\ DOMAIN feed = 1..Len(feed)
  BY DEF LogOK, FeedOK
<1>2. \A k \in 1..Len(feed) : feed[k] \in Item
  BY <1>1 DEF FeedOK
<1>3. \A k \in 1..Len(feed) : feed[k].id \in 0..Len(log)
  BY <1>1, <1>2 DEF FeedOK, Item
<1>4. \A k \in 1..Len(feed) : (feed[k].is = "message" <=> feed[k].id # 0)
                              /\ feed[k].id \notin unrouted \cup lost
  BY DEF FeedOK
<1>5. InFeed = {feed[k].id : k \in 1..Len(feed)} \ {0}
  BY <1>1 DEF InFeed
<1>6. InFeed \in SUBSET (1..Len(log)) /\ InFeed \cap (unrouted \cup lost) = {}
  BY <1>1, <1>3, <1>4, <1>5
<1>7. QED
  BY <1>1, <1>2, <1>3, <1>4, <1>5, <1>6

(* The first of a sequence, and the others. *)
LEMMA HeadAndTail ==
  ASSUME NEW S, NEW q \in Seq(S), q # <<>>
  PROVE  /\ Len(q) \in Nat \ {0} /\ Head(q) = q[1] /\ Head(q) \in S
         /\ Tail(q) \in Seq(S) /\ Len(Tail(q)) = Len(q) - 1
         /\ \A k \in 1..Len(q) - 1 : Tail(q)[k] = q[k + 1] /\ k + 1 \in 1..Len(q)
OBVIOUS

LEMMA SeqOfMore ==
  ASSUME NEW S, NEW T, S \subseteq T, NEW q \in Seq(S)
  PROVE  q \in Seq(T)
<1>1. q \in [1..Len(q) -> T] /\ Len(q) \in Nat
  OBVIOUS
<1>2. QED
  BY <1>1

LEMMA Joined ==
  ASSUME NEW S, NEW s \in Seq(S), NEW t \in Seq(S)
  PROVE  /\ s \o t \in Seq(S) /\ Len(s \o t) = Len(s) + Len(t)
         /\ \A k \in 1..Len(s) : (s \o t)[k] = s[k]
         /\ \A k \in 1..Len(t) : (s \o t)[Len(s) + k] = t[k]
<1>1. Len(s) \in Nat /\ Len(t) \in Nat
  OBVIOUS
<1>2. \A k \in 1..Len(s) : k \in 1..Len(s) + Len(t) /\ k <= Len(s)
  BY <1>1
<1>3. \A k \in 1..Len(t) : /\ Len(s) + k \in 1..Len(s) + Len(t) /\ ~(Len(s) + k <= Len(s))
                          /\ (Len(s) + k) - Len(s) = k
  BY <1>1
<1>4. QED
  BY <1>2, <1>3, ConcatProperties

(* What a history adds to a chat. *)
LEMMA EntriesIs ==
  ASSUME NEW q \in Seq(Nat), NEW how
  PROVE  /\ Entries(q, how) \in Seq([id: Nat, how: {how}]) /\ Len(Entries(q, how)) = Len(q)
         /\ \A k \in 1..Len(q) : Entries(q, how)[k] = [id |-> q[k], how |-> how]
         /\ \A n : how \in {"live", "history"} /\ (\A k \in 1..Len(q) : q[k] \in 1..n)
                   => Entries(q, how) \in Seq(Entry(n))
<1>1. DOMAIN q = 1..Len(q) /\ Len(q) \in Nat /\ \A k \in 1..Len(q) : q[k] \in Nat
  OBVIOUS
<1>2. Entries(q, how) = [k \in 1..Len(q) |-> [id |-> q[k], how |-> how]]
  BY <1>1 DEF Entries
<1>3. ASSUME NEW n, how \in {"live", "history"}, \A k \in 1..Len(q) : q[k] \in 1..n
      PROVE  Entries(q, how) \in Seq(Entry(n))
  <2>1. \A k \in 1..Len(q) : [id |-> q[k], how |-> how] \in Entry(n)
    BY <1>3 DEF Entry
  <2>2. QED
    BY <1>1, <1>2, <2>1
<1>4. QED
  BY <1>1, <1>2, <1>3

(* The log grows: what was known of messages is still true. *)
LEMMA StoringType ==
  ASSUME TypeInv, NEW t \in Threads, Len(log) < MaxMessages,
         log' = Append(log, t), unrouted' = unrouted \cup {Len(log')},
         UNCHANGED <<conn, feed, asked, mail, client, chatVars, status, opens, faults,
                     lost, raced, misled>>
  PROVE  TypeInv' /\ \A u : Of(u) \subseteq Of(u)'
<1> USE DEF TypeInv
<1>1. /\ log' \in Seq(Threads) /\ Len(log') = Len(log) + 1 /\ Len(log) \in Nat
      /\ \A i \in 1..Len(log) : i \in 1..Len(log') /\ log'[i] = log[i]
      /\ unrouted' = unrouted \cup {Len(log) + 1}
  BY DEF LogOK
<1>2. \A u : Of(u) \subseteq Of(u)'
  BY <1>1 DEF Of, Messages, LogOK
<1>3. LogOK'
  <2>1. MaxMessages \in Nat
    BY TranscriptAssumption
  <2>2. unrouted \in SUBSET (1..Len(log)) /\ lost \in SUBSET (1..Len(log)) /\ lost \cap unrouted = {}
    BY DEF LogOK
  <2>3. Len(log') <= MaxMessages /\ \A i \in 1..Len(log) : i # Len(log) + 1
    BY <1>1, <2>1
  <2>4. unrouted' \in SUBSET (1..Len(log')) /\ lost' \in SUBSET (1..Len(log'))
    BY <1>1, <2>2
  <2>5. lost' \cap unrouted' = {}
    BY <1>1, <2>2, <2>3
  <2>6. QED
    BY <1>1, <2>3, <2>4, <2>5 DEF LogOK
<1>4. FeedOK'
  <2>1. /\ feed' = feed
        /\ \A k \in 1..Len(feed) : /\ feed[k].id <= Len(log') /\ feed[k].id \notin unrouted' \cup lost'
    BY <1>1, FeedIs
  <2>2. QED
    BY <2>1 DEF FeedOK
<1>5. AskedOK' /\ FlagsOK'
  BY DEF AskedOK, FlagsOK
<1>6. MailOK'
  BY <1>2 DEF MailOK, FlagsOK
<1>7. ChatOK'
  <2>1. Entry(Len(log)) \subseteq Entry(Len(log'))
    BY <1>1 DEF Entry
  <2>2. shown \in Seq(Entry(Len(log')))
    BY <2>1, SeqOfMore DEF ChatOK
  <2>3. QED
    BY <2>2 DEF ChatOK, chatVars
<1>8. QED
  BY <1>2, <1>3, <1>4, <1>5, <1>6, <1>7

(* Each step keeps the types. *)
LEMMA TypeInvStep ==
  ASSUME TypeInv, [Next]_vars
  PROVE  TypeInv'
<1> USE DEF TypeInv, serverVars, chatVars
<1>1. ASSUME NEW t \in Threads, NEW h \in BOOLEAN, Open(t, h) PROVE TypeInv'
  <2>1. LogOK' /\ FeedOK' /\ FlagsOK'
    BY <1>1 DEF Open, LogOK, FeedOK, FlagsOK
  <2>2. ChatOK'
    <3>1. /\ view' = t /\ canSend' = client /\ shown' = <<>> /\ openedAt' = Len(log)
          /\ log' = log /\ client' = client /\ t # None
      BY <1>1, TranscriptAssumption DEF Open
    <3>2. QED
      BY <3>1 DEF ChatOK, LogOK
  <2>3. AskedOK'
    <3>1. /\ opens \in Nat /\ opens' = opens + 1
          /\ asked' = asked \/ asked' = asked \cup {[n |-> opens + 1, thread |-> t]}
      BY <1>1 DEF Open, FlagsOK
    <3>2. IsFiniteSet(asked')
      <4>1. IsFiniteSet(asked \cup {[n |-> opens + 1, thread |-> t]})
        BY FS_AddElement DEF AskedOK
      <4>2. QED
        BY <3>1, <4>1 DEF AskedOK
    <3>3. [n: 1..opens, thread: Threads] \subseteq [n: 1..opens', thread: Threads]
      BY <3>1
    <3>4. [n |-> opens + 1, thread |-> t] \in [n: 1..opens', thread: Threads]
      BY <3>1
    <3>5. QED
      BY <3>1, <3>2, <3>3, <3>4 DEF AskedOK
  <2>4. MailOK'
    BY <1>1 DEF Open, MailOK, FlagsOK, Of, Messages
  <2>5. QED
    BY <2>1, <2>2, <2>3, <2>4
<1>2. CASE Leave
  BY <1>2 DEF Leave, LogOK, FeedOK, FlagsOK, ChatOK, AskedOK, MailOK, Of, Messages
<1>3. ASSUME NEW r \in mail, TakeHistory(r) PROVE TypeInv'
  <2>1. LogOK' /\ FeedOK' /\ FlagsOK' /\ AskedOK'
    BY <1>3 DEF TakeHistory, LogOK, FeedOK, FlagsOK, AskedOK
  <2>2. MailOK'
    BY <1>3, FS_RemoveElement DEF TakeHistory, MailOK, Of, Messages
  <2>3. ChatOK'
    <3>1. /\ r.ids \in Seq(Nat) /\ \A k \in 1..Len(r.ids) : r.ids[k] \in 1..Len(log)
      BY <1>3 DEF TakeHistory, MailOK, Results, Of, Messages, LogOK
    <3>2. Entries(r.ids, "history") \in Seq(Entry(Len(log)))
      BY <3>1, EntriesIs
    <3> DEFINE S == Entry(Len(log))
    <3>3. shown' \in Seq(S)
      <4>1. shown \in Seq(S) /\ Entries(r.ids, "history") \in Seq(S)
        BY <3>2 DEF ChatOK
      <4> HIDE DEF S
      <4>2. shown \o Entries(r.ids, "history") \in Seq(S)
        BY <4>1
      <4>3. QED
        BY <1>3, <4>1, <4>2 DEF TakeHistory
    <3>4. QED
      BY <1>3, <3>3 DEF TakeHistory, ChatOK
  <2>4. QED
    BY <2>1, <2>2, <2>3
<1>4. ASSUME NEW r \in mail, TakeError(r) PROVE TypeInv'
  <2>1. LogOK' /\ FeedOK' /\ FlagsOK' /\ AskedOK' /\ ChatOK'
    BY <1>4 DEF TakeError, LogOK, FeedOK, FlagsOK, AskedOK, ChatOK
  <2>2. MailOK'
    BY <1>4, FS_RemoveElement DEF TakeError, MailOK, Of, Messages
  <2>3. QED
    BY <2>1, <2>2
<1>5. ASSUME NEW r \in mail, TakeClient(r) PROVE TypeInv'
  <2>1. LogOK' /\ FeedOK' /\ FlagsOK' /\ AskedOK' /\ ChatOK'
    BY <1>5 DEF TakeClient, LogOK, FeedOK, FlagsOK, AskedOK, ChatOK, MailOK
  <2>2. MailOK'
    BY <1>5, FS_RemoveElement DEF TakeClient, MailOK, Of, Messages
  <2>3. QED
    BY <2>1, <2>2
<1>6. CASE TakeIncoming
  <2> DEFINE i == Head(feed).id
  <2>1. feed \in Seq(Item) /\ feed # <<>> /\ i \in 1..Len(log)
    <3>1. feed \in Seq(Item) /\ feed # <<>> /\ Head(feed).is = "message"
      BY <1>6 DEF TakeIncoming, FeedOK
    <3>2. 1 \in 1..Len(feed) /\ Head(feed) = feed[1]
      BY <3>1, HeadAndTail
    <3>3. feed[1].id \in 0..Len(log) /\ feed[1].id # 0 /\ Len(log) \in Nat
      BY <3>1, <3>2, FeedIs
    <3>4. QED
      BY <3>1, <3>2, <3>3
  <2>2. LogOK' /\ FlagsOK' /\ AskedOK' /\ MailOK'
    BY <1>6 DEF TakeIncoming, LogOK, FlagsOK, AskedOK, MailOK, Of, Messages
  <2>3. FeedOK'
    BY <1>6, <2>1 DEF TakeIncoming, FeedOK
  <2>4. ChatOK'
    <3>1. [id |-> i, how |-> "live"] \in Entry(Len(log))
      BY <2>1 DEF Entry
    <3>2. shown' = shown \/ shown' = Append(shown, [id |-> i, how |-> "live"])
      BY <1>6 DEF TakeIncoming
    <3>3. shown' \in Seq(Entry(Len(log)))
      BY <3>1, <3>2 DEF ChatOK
    <3>4. view' = None => shown' = <<>>
      BY <1>6 DEF TakeIncoming, ChatOK
    <3> HIDE DEF i
    <3>5. QED
      BY <1>6, <3>3, <3>4 DEF TakeIncoming, ChatOK
  <2>5. QED
    BY <2>2, <2>3, <2>4
<1>7. CASE TakeNotice
  <2>1. feed \in Seq(Item) /\ feed # <<>>
    BY <1>7 DEF TakeNotice, FeedOK
  <2>2. Head(feed).is \in {"error", "reconnecting", "connected"}
    <3>1. Head(feed) \in Item /\ Head(feed).is # "message"
      BY <1>7, <2>1, HeadAndTail DEF TakeNotice
    <3>2. QED
      BY <3>1 DEF Item
  <2>3. LogOK' /\ FlagsOK' /\ AskedOK' /\ MailOK' /\ ChatOK'
    BY <1>7, <2>2 DEF TakeNotice, LogOK, FlagsOK, AskedOK, MailOK, Of, Messages, ChatOK
  <2>4. FeedOK'
    BY <1>7, <2>1 DEF TakeNotice, FeedOK
  <2>5. QED
    BY <2>3, <2>4
<1>8. CASE SendMessage
  BY <1>8, StoringType DEF SendMessage, ChatOK
<1>9. ASSUME NEW t \in Threads, Store(t) PROVE TypeInv'
  BY <1>9, StoringType DEF Store
<1>10. ASSUME NEW i \in unrouted, Route(i) PROVE TypeInv'
  <2>1. i \in Nat /\ i # 0 /\ i <= Len(log)
    BY DEF LogOK
  <2>2. LogOK'
    <3>1. unrouted' = unrouted \ {i} /\ log' = log /\ lost' \in {lost, lost \cup {i}}
      BY <1>10 DEF Route
    <3>2. QED
      BY <3>1 DEF LogOK
  <2>3. FlagsOK' /\ AskedOK' /\ MailOK' /\ ChatOK'
    BY <1>10 DEF Route, FlagsOK, AskedOK, MailOK, Of, Messages, ChatOK
  <2>4. FeedOK'
    <3>1. CASE conn = "on"
      <4>1. /\ feed' = Append(feed, Incoming(i)) /\ lost' = lost /\ log' = log
            /\ unrouted' = unrouted \ {i} /\ i \in unrouted /\ i \notin lost
        BY <1>10, <3>1 DEF Route, LogOK
      <4>2. /\ Incoming(i) \in Item /\ Incoming(i).id = i /\ Incoming(i).is = "message"
        BY <2>1 DEF Incoming, Item
      <4>3. /\ feed' \in Seq(Item) /\ Len(feed') = Len(feed) + 1 /\ feed'[Len(feed) + 1] = Incoming(i)
            /\ \A k \in 1..Len(feed) : feed'[k] = feed[k]
        BY <4>1, <4>2 DEF FeedOK
      <4>4. \A k \in 1..Len(feed') : k \in 1..Len(feed) \/ k = Len(feed) + 1
        BY <4>3, FeedIs
      <4>5. \A k \in 1..Len(feed) : feed[k].id # i
        BY <4>1, FeedIs
      <4>6. \A k \in 1..Len(feed') :
              /\ feed'[k].is = "message" <=> feed'[k].id # 0
              /\ feed'[k].id <= Len(log) /\ feed'[k].id \notin unrouted' \cup lost
        BY <2>1, <4>1, <4>2, <4>3, <4>4, FeedIs
      <4>7. \A k, l \in 1..Len(feed') :
              feed'[k].id = feed'[l].id /\ feed'[k].id # 0 => k = l
        BY <4>2, <4>3, <4>4, <4>5 DEF FeedOK
      <4>8. QED
        BY <4>1, <4>3, <4>6, <4>7 DEF FeedOK
    <3>2. CASE conn # "on"
      BY <1>10, <2>1, <3>2 DEF Route, FeedOK, LogOK
    <3>3. QED
      BY <3>1, <3>2
  <2>5. QED
    BY <2>2, <2>3, <2>4
<1>11. ASSUME NEW q \in asked, ServeHistory(q) PROVE TypeInv'
  <2>1. LogOK' /\ FeedOK' /\ FlagsOK' /\ ChatOK'
    BY <1>11 DEF ServeHistory, LogOK, FeedOK, FlagsOK, ChatOK
  <2>2. AskedOK'
    BY <1>11, FS_RemoveElement DEF ServeHistory, AskedOK
  <2>3. MailOK'
    <3>1. q.n \in 1..opens /\ q.thread \in Threads /\ q.n \in Nat
      BY DEF AskedOK, FlagsOK
    <3>2. History(q.thread) \in Seq(Nat) /\ Rises(History(q.thread))
          /\ \A k \in 1..Len(History(q.thread)) : History(q.thread)[k] \in Of(q.thread)
      BY HistoryLists DEF LogOK
    <3>3. Answer(q) \in Results
      BY <3>1, <3>2 DEF Answer, Results
    <3>4. IsFiniteSet(mail')
      BY <1>11, FS_AddElement DEF ServeHistory, MailOK
    <3>5. QED
      BY <1>11, <3>1, <3>2, <3>3, <3>4 DEF ServeHistory, MailOK, Answer, Of, Messages
  <2>4. QED
    BY <2>1, <2>2, <2>3
<1>12. ASSUME NEW q \in asked, HistoryFails(q) PROVE TypeInv'
  <2>1. LogOK' /\ FeedOK' /\ FlagsOK' /\ ChatOK'
    BY <1>12 DEF HistoryFails, LogOK, FeedOK, FlagsOK, ChatOK
  <2>2. AskedOK'
    BY <1>12, FS_RemoveElement DEF HistoryFails, AskedOK
  <2>3. MailOK'
    <3> DEFINE e == [is |-> "error", n |-> q.n, thread |-> q.thread, ids |-> <<>>]
    <3>1. e \in Results /\ e.n # 0 /\ e.is = "error"
      BY DEF AskedOK, FlagsOK, Results
    <3>2. mail' = mail \cup {e} /\ IsFiniteSet(mail')
      BY <1>12, FS_AddElement DEF HistoryFails, MailOK
    <3> HIDE DEF e
    <3>3. QED
      BY <1>12, <3>1, <3>2 DEF HistoryFails, MailOK, Of, Messages
  <2>4. QED
    BY <2>1, <2>2, <2>3
<1>13. ASSUME FirstConnect \/ FirstConnectFails PROVE TypeInv'
  <2>1. LogOK' /\ FeedOK' /\ ChatOK' /\ AskedOK'
    <3>1. UNCHANGED <<log, unrouted, feed, asked, client, chatVars, opens, lost>>
      BY <1>13 DEF FirstConnect, FirstConnectFails
    <3>2. QED
      BY <3>1 DEF LogOK, FeedOK, ChatOK, AskedOK
  <2>5. FlagsOK'
    <3>1. conn = "first" /\ conn' \in {"on", "never"} /\ faults' \in {faults, faults + 1}
          /\ client' = client /\ status' = status /\ opens' = opens
      BY <1>13 DEF FirstConnect, FirstConnectFails
    <3>2. QED
      BY <3>1 DEF FlagsOK
  <2>2. /\ Result("client") \in Results /\ Result("error") \in Results
        /\ Result("client").is = "client" /\ Result("error").is = "error"
    BY DEF Result, Results
  <2>3. IsFiniteSet(mail')
    BY <1>13, FS_AddElement DEF FirstConnect, FirstConnectFails, MailOK
  <2>4. MailOK'
    BY <1>13, <2>2, <2>3 DEF FirstConnect, FirstConnectFails, MailOK, Of, Messages
  <2>6. QED
    BY <2>1, <2>4, <2>5
<1>14. CASE Reconnect
  <2>1. LogOK' /\ FlagsOK' /\ ChatOK' /\ AskedOK' /\ MailOK'
    BY <1>14 DEF Reconnect, LogOK, FlagsOK, ChatOK, AskedOK, MailOK, Of, Messages
  <2>2. FeedOK'
    <3>1. feed' = Append(feed, Notice("connected")) /\ UNCHANGED <<log, unrouted, lost>>
      BY <1>14 DEF Reconnect
    <3>2. Notice("connected") \in Item /\ Notice("connected").id = 0
          /\ Notice("connected").is # "message"
      BY DEF Notice, Item
    <3>3. /\ feed' \in Seq(Item) /\ Len(feed') = Len(feed) + 1
          /\ feed'[Len(feed) + 1] = Notice("connected")
          /\ \A k \in 1..Len(feed) : feed'[k] = feed[k]
      BY <3>1, <3>2 DEF FeedOK
    <3>4. \A k \in 1..Len(feed') : k \in 1..Len(feed) \/ k = Len(feed) + 1
      BY <3>3, FeedIs
    <3>5. 0 <= Len(log) /\ 0 \notin unrouted \cup lost
      BY FeedIs DEF LogOK
    <3>6. \A k \in 1..Len(feed') :
            /\ feed'[k].is = "message" <=> feed'[k].id # 0
            /\ feed'[k].id <= Len(log) /\ feed'[k].id \notin unrouted \cup lost
      BY <3>2, <3>3, <3>4, <3>5 DEF FeedOK
    <3>7. \A k, l \in 1..Len(feed') : feed'[k].id = feed'[l].id /\ feed'[k].id # 0 => k = l
      BY <3>2, <3>3, <3>4 DEF FeedOK
    <3>8. QED
      BY <3>1, <3>3, <3>6, <3>7 DEF FeedOK
  <2>3. QED
    BY <2>1, <2>2
<1>15. ASSUME NEW k \in 0..Len(feed), Disconnect(k) PROVE TypeInv'
  <2>1. FlagsOK' /\ ChatOK' /\ AskedOK' /\ MailOK'
    BY <1>15 DEF Disconnect, FlagsOK, ChatOK, AskedOK, MailOK, Of, Messages
  <2> DEFINE gone == {feed[j].id : j \in (k + 1)..Len(feed)} \ {0}
  <2>2. /\ feed' = SubSeq(feed, 1, k) \o <<Notice("error"), Notice("reconnecting")>>
        /\ lost' = lost \cup gone /\ log' = log /\ unrouted' = unrouted
    BY <1>15 DEF Disconnect
  <2>3. k \in Nat /\ k <= Len(feed) /\ \A j \in (k + 1)..Len(feed) : j \in 1..Len(feed)
    BY FeedIs
  <2>4. gone \subseteq 1..Len(log) /\ gone \cap unrouted = {}
    BY <2>3, FeedIs
  <2>5. LogOK'
    BY <2>2, <2>4 DEF LogOK
  <2>6. \A j \in 1..k : j \in 1..Len(feed) /\ feed[j].id \notin gone
    <3>1. \A j \in 1..k : j \in 1..Len(feed) /\ \A m \in (k + 1)..Len(feed) : j # m
      BY <2>3, FeedIs
    <3>2. QED
      BY <2>3, <3>1 DEF FeedOK
  <2>7. FeedOK'
    <3>1. /\ Notice("error") \in Item /\ Notice("error").id = 0 /\ Notice("error").is # "message"
          /\ Notice("reconnecting") \in Item /\ Notice("reconnecting").id = 0
          /\ Notice("reconnecting").is # "message"
      BY DEF Notice, Item
    <3>2. /\ feed' \in Seq(Item) /\ Len(feed') = k + 2
          /\ \A j \in 1..k : feed'[j] = feed[j]
          /\ feed'[k + 1] = Notice("error") /\ feed'[k + 2] = Notice("reconnecting")
      <4>1. /\ SubSeq(feed, 1, k) \in Seq(Item) /\ Len(SubSeq(feed, 1, k)) = k
            /\ \A j \in 1..k : SubSeq(feed, 1, k)[j] = feed[j]
        BY <2>3, FeedIs DEF FeedOK
      <4> DEFINE two == <<Notice("error"), Notice("reconnecting")>>
      <4>2. /\ two \in Seq(Item) /\ Len(two) = 2
            /\ two[1] = Notice("error") /\ two[2] = Notice("reconnecting")
        BY <3>1
      <4> HIDE DEF two
      <4>3. QED
        BY <2>2, <2>3, <4>1, <4>2 DEF two
    <3>3. \A j \in 1..k + 2 : j \in 1..k \/ j = k + 1 \/ j = k + 2
      BY <2>3
    <3>4. 0 <= Len(log) /\ 0 \notin unrouted \cup lost'
      BY <2>2, <2>4, FeedIs DEF LogOK
    <3>5. \A j \in 1..Len(feed') :
            /\ feed'[j].is = "message" <=> feed'[j].id # 0
            /\ feed'[j].id <= Len(log) /\ feed'[j].id \notin unrouted \cup lost'
      <4>1. ASSUME NEW j \in 1..k
            PROVE  /\ feed'[j].is = "message" <=> feed'[j].id # 0
                   /\ feed'[j].id <= Len(log) /\ feed'[j].id \notin unrouted \cup lost'
        <5>1. feed'[j] = feed[j] /\ j \in 1..Len(feed) /\ feed[j].id \notin gone
          BY <2>6, <3>2
        <5> HIDE DEF gone
        <5>2. QED
          BY <2>2, <5>1 DEF FeedOK
      <4> HIDE DEF gone
      <4>2. QED
        BY <3>1, <3>2, <3>3, <3>4, <4>1
    <3>6. \A j, l \in 1..Len(feed') : feed'[j].id = feed'[l].id /\ feed'[j].id # 0 => j = l
      BY <2>6, <3>1, <3>2, <3>3 DEF FeedOK
    <3>7. QED
      BY <2>2, <3>2, <3>5, <3>6 DEF FeedOK
  <2>8. QED
    BY <2>1, <2>5, <2>7
<1>16. CASE UNCHANGED vars
  BY <1>16 DEF vars, LogOK, FeedOK, FlagsOK, ChatOK, AskedOK, MailOK, Of, Messages
<1>17. QED
  BY <1>1, <1>2, <1>3, <1>4, <1>5, <1>6, <1>7, <1>8, <1>9, <1>10, <1>11, <1>12, <1>13,
     <1>14, <1>15, <1>16 DEF Next
----------------------------------------------------------------------------
(* The invariants *)

(* A chat asks once: what is awaited has different numbers. *)
NumbersOnce ==
  /\ \A q, r \in asked : q.n = r.n => q = r
  /\ \A r, h \in Histories : r.n = h.n => r = h
  /\ \A q \in asked, h \in Histories : q.n # h.n

(* The request or the answer of the chat on the screen is still to come. *)
IsOurs(r) == r.n = opens /\ r.thread = view

LoadingInv == view # None /\ loading => failed \/ \E r \in asked \cup Histories : IsOurs(r)

(* The last notice in the feed says how the connection is, and there is    *)
(* none before the first connection, or without one.                       *)
LastNotice(k) ==
  /\ feed[k].is # "message"
  /\ \A l \in 1..Len(feed) : k < l => feed[l].is = "message"

FeedTells ==
  /\ \A k \in 1..Len(feed) :
       LastNotice(k) => \/ feed[k].is = "connected" /\ conn = "on"
                        \/ feed[k].is = "reconnecting" /\ conn = "off"
  /\ conn \in {"first", "never"} => \A k \in 1..Len(feed) : feed[k].is = "message"

(* With no such news under way, the indicator is as the connection is.     *)
NoNews ==
  /\ \A k \in 1..Len(feed) : feed[k].is = "message"
  /\ \A r \in mail : r.is # "client" /\ ~(r.is = "error" /\ r.n = 0)

Indicator == CASE conn = "on" -> "live" [] conn = "never" -> "offline" [] OTHER -> "connecting"

StatusTrue == NoNews /\ ~misled => status = Indicator

StatusInv == FeedTells /\ StatusTrue

(* What is awaited by another chat of the kind was awaited when this chat  *)
(* was opened.                                                             *)
AwaitedInv ==
  view # None => \A r \in asked \cup Histories :
                   SameKind(r.thread, view) /\ r.thread # view => overlap

ForeignInv == ForeignCause /\ AwaitedInv

(* What is still to come: messages, and those of the chat's thread. *)
Pending == unrouted \cup InFeed
Coming == {i \in Pending : log[i] = view}

(* The feed is in the order stored, and before what is to be routed. *)
InTurn ==
  /\ \A k \in 1..Len(feed), i \in unrouted : feed[k].id <= i
  /\ \A k, l \in 1..Len(feed) : k < l /\ feed[l].id # 0 => feed[k].id <= feed[l].id

(* Nothing is shown before the history of the chat, and no other one is    *)
(* awaited; what is shown, and what the history will show, comes before    *)
(* what is still to come; what is shown is in the order stored.            *)
OnlyOurs ==
  \A r \in asked \cup Histories : SameKind(r.thread, view) => IsOurs(r) /\ shown = <<>>
ShownFirst ==
  \A k \in 1..Len(shown) : log[shown[k].id] = view => \A i \in Coming : shown[k].id < i
HistoryFirst ==
  \A r \in Histories :
     SameKind(r.thread, view) => \A k \in 1..Len(r.ids), i \in Coming : r.ids[k] < i
ShownRises ==
  \A k, l \in 1..Len(shown) :
     k < l /\ log[shown[k].id] = view /\ log[shown[l].id] = view => shown[k].id < shown[l].id

Clean == view # None /\ ~raced /\ ~overlap

(* If nothing raced, the messages keep their order. *)
OrderInv == Clean => InTurn /\ OnlyOurs /\ ShownFirst /\ HistoryFirst /\ ShownRises

(* Where message i of the chat's thread is. *)
Accounted(i) ==
  \/ i \in ShownIds \cup lost \cup Pending
  \/ /\ i <= openedAt
     /\ \/ failed
        \/ Cardinality(Newer(view, i)) >= HistoryCap
        \/ \E q \in asked : IsOurs(q)
        \/ \E h \in Histories : IsOurs(h) /\ \E k \in 1..Len(h.ids) : h.ids[k] = i

MissingInv == view # None => \A i \in Of(view) : Accounted(i)

----------------------------------------------------------------------------
(* Requests *)

LEMMA MailChanges ==
  ASSUME NEW r
  PROVE  /\ mail' = mail \ {r} => Histories' = Histories \ {r}
         /\ mail' = mail \cup {r} => Histories' = Histories \cup (IF r.is = "history" THEN {r} ELSE {})
BY DEF Histories

(* Which steps ask for a history, answer or take one. *)
LEMMA RequestSteps ==
  ASSUME [Next]_vars
  PROVE  \/ UNCHANGED <<asked, Histories, opens, view, loading, failed, overlap, openedAt>>
         \/ Leave /\ UNCHANGED <<asked, Histories, opens>>
         \/ \E t \in Threads, h \in BOOLEAN : Open(t, h) /\ Histories' = Histories
         \/ \E r \in Histories : TakeHistory(r) /\ Histories' = Histories \ {r}
         \/ \E q \in asked : ServeHistory(q) /\ Histories' = Histories \cup {Answer(q)}
         \/ \E q \in asked : HistoryFails(q) /\ Histories' = Histories
<1> USE DEF serverVars, chatVars
<1>1. ASSUME NEW t \in Threads, NEW h \in BOOLEAN, Open(t, h) PROVE Histories' = Histories
  BY <1>1 DEF Open, Histories
<1>13. ASSUME Leave PROVE UNCHANGED <<asked, Histories, opens>>
  BY <1>13 DEF Leave, Histories
<1>2. ASSUME SendMessage \/ TakeIncoming \/ TakeNotice \/ Reconnect
      PROVE  UNCHANGED <<asked, Histories, opens, view, loading, failed, overlap, openedAt>>
  BY <1>2 DEF SendMessage, TakeIncoming, TakeNotice, Reconnect, Histories
<1>3. ASSUME NEW r \in mail, TakeHistory(r) PROVE r \in Histories /\ Histories' = Histories \ {r}
  BY <1>3, MailChanges DEF TakeHistory, Histories
<1>4. ASSUME NEW r \in mail, TakeError(r) \/ TakeClient(r)
      PROVE  UNCHANGED <<asked, Histories, opens, view, loading, failed, overlap, openedAt>>
  <2>1. /\ mail' = mail \ {r} /\ r \notin Histories
        /\ UNCHANGED <<asked, opens, view, loading, failed, overlap, openedAt>>
    BY <1>4 DEF TakeError, TakeClient, Histories
  <2>2. QED
    BY <2>1, MailChanges
<1>5. ASSUME NEW t \in Threads, Store(t)
      PROVE  UNCHANGED <<asked, Histories, opens, view, loading, failed, overlap, openedAt>>
  BY <1>5 DEF Store, Histories
<1>6. ASSUME NEW i \in unrouted, Route(i)
      PROVE  UNCHANGED <<asked, Histories, opens, view, loading, failed, overlap, openedAt>>
  BY <1>6 DEF Route, Histories
<1>7. ASSUME NEW q \in asked, ServeHistory(q) PROVE Histories' = Histories \cup {Answer(q)}
  <2>1. mail' = mail \cup {Answer(q)} /\ Answer(q).is = "history"
    BY <1>7 DEF ServeHistory, Answer
  <2>2. QED
    BY <2>1, MailChanges
<1>8. ASSUME NEW q \in asked, HistoryFails(q) PROVE Histories' = Histories
  <2>1. mail' = mail \cup {[is |-> "error", n |-> q.n, thread |-> q.thread, ids |-> <<>>]}
    BY <1>8 DEF HistoryFails
  <2>2. QED
    BY <2>1, MailChanges
<1>9. ASSUME FirstConnect \/ FirstConnectFails
      PROVE  UNCHANGED <<asked, Histories, opens, view, loading, failed, overlap, openedAt>>
  <2>1. /\ mail' = mail \cup {Result("client")} \/ mail' = mail \cup {Result("error")}
        /\ UNCHANGED <<asked, opens, view, loading, failed, overlap, openedAt>>
    BY <1>9 DEF FirstConnect, FirstConnectFails
  <2>2. Result("client").is # "history" /\ Result("error").is # "history"
    BY DEF Result
  <2>3. QED
    BY <2>1, <2>2, MailChanges
<1>10. ASSUME NEW k \in 0..Len(feed), Disconnect(k)
       PROVE  UNCHANGED <<asked, Histories, opens, view, loading, failed, overlap, openedAt>>
  BY <1>10 DEF Disconnect, Histories
<1>11. ASSUME UNCHANGED vars
       PROVE  UNCHANGED <<asked, Histories, opens, view, loading, failed, overlap, openedAt>>
  BY <1>11 DEF vars, Histories
<1>12. QED
  BY <1>1, <1>2, <1>3, <1>4, <1>5, <1>6, <1>7, <1>8, <1>9, <1>10, <1>11, <1>13 DEF Next

LEMMA HistoriesType ==
  ASSUME MailOK
  PROVE  /\ IsFiniteSet(Histories)
         /\ \A h \in Histories : h \in mail /\ h.is = "history" /\ h.n \in 1..opens /\ h.thread \in Threads
                                 /\ h.ids \in Seq(Nat) /\ Rises(h.ids)
                                 /\ \A k \in 1..Len(h.ids) : h.ids[k] \in Of(h.thread)
<1>1. Histories \subseteq mail
  BY DEF Histories
<1>2. IsFiniteSet(Histories)
  BY <1>1, FS_Subset DEF MailOK
<1>3. QED
  BY <1>2 DEF Histories, MailOK, Results

LEMMA OneMore ==
  ASSUME NEW S, IsFiniteSet(S), NEW x
  PROVE  Cardinality(S \cup {x}) \in Nat /\ Cardinality(S \cup {x}) <= Cardinality(S) + 1
<1>1. Cardinality(S) \in Nat /\ IsFiniteSet(S \cup {x})
  BY FS_CardinalityType, FS_AddElement
<1>2. Cardinality(S \cup {x}) \in Nat
  BY <1>1, FS_CardinalityType
<1>3. CASE x \in S
  <2>1. S \cup {x} = S
    BY <1>3
  <2>2. QED
    BY <1>1, <2>1
<1>4. CASE x \notin S
  <2>1. Cardinality(S \cup {x}) = Cardinality(S) + 1
    BY <1>4, FS_AddElement
  <2>2. QED
    BY <1>1, <1>2, <2>1
<1>5. QED
  BY <1>3, <1>4

LEMMA CountStep ==
  ASSUME TypeInv, CountOK, [Next]_vars
  PROVE  CountOK'
<1>1. /\ IsFiniteSet(asked) /\ IsFiniteSet(Histories) /\ opens \in Nat
      /\ Cardinality(asked) \in Nat /\ Cardinality(Histories) \in Nat
  BY HistoriesType, FS_CardinalityType DEF TypeInv, AskedOK, FlagsOK
<1>2. \A x : /\ Cardinality(asked \cup {x}) <= Cardinality(asked) + 1
             /\ Cardinality(asked \cup {x}) \in Nat
             /\ Cardinality(Histories \cup {x}) <= Cardinality(Histories) + 1
             /\ Cardinality(Histories \cup {x}) \in Nat
  BY <1>1, OneMore
<1>3. /\ \A x \in asked : Cardinality(asked \ {x}) = Cardinality(asked) - 1
      /\ \A x \in Histories : Cardinality(Histories \ {x}) = Cardinality(Histories) - 1
  BY <1>1, FS_RemoveElement
<1>4. ASSUME NEW t \in Threads, NEW h \in BOOLEAN, Open(t, h), Histories' = Histories
      PROVE  CountOK'
  <2>1. /\ opens' = opens + 1
        /\ asked' = asked \/ asked' = asked \cup {[n |-> opens + 1, thread |-> t]}
    BY <1>4 DEF Open
  <2>2. QED
    <3>1. Cardinality(asked') \in Nat /\ Cardinality(asked') <= Cardinality(asked) + 1
      <4>1. CASE asked' = asked
        BY <1>1, <4>1
      <4>2. CASE asked' = asked \cup {[n |-> opens + 1, thread |-> t]}
        BY <1>2, <4>2
      <4>3. QED
        BY <2>1, <4>1, <4>2
    <3>2. QED
      BY <1>1, <1>4, <2>1, <3>1 DEF CountOK
<1>5. ASSUME NEW r \in Histories, TakeHistory(r), Histories' = Histories \ {r} PROVE CountOK'
  <2>1. UNCHANGED <<asked, opens>>
    BY <1>5 DEF TakeHistory
  <2>2. QED
    BY <1>1, <1>3, <1>5, <2>1 DEF CountOK
<1>6. ASSUME NEW q \in asked, ServeHistory(q), Histories' = Histories \cup {Answer(q)}
      PROVE  CountOK'
  <2>1. opens' = opens /\ asked' = asked \ {q}
    BY <1>6 DEF ServeHistory
  <2>2. QED
    <3>1. /\ Cardinality(asked') = Cardinality(asked) - 1 /\ Cardinality(Histories') \in Nat
          /\ Cardinality(Histories') <= Cardinality(Histories) + 1
      BY <1>2, <1>3, <1>6, <2>1
    <3>2. QED
      BY <1>1, <2>1, <3>1 DEF CountOK
<1>7. ASSUME NEW q \in asked, HistoryFails(q), Histories' = Histories PROVE CountOK'
  <2>1. opens' = opens /\ asked' = asked \ {q}
    BY <1>7 DEF HistoryFails
  <2>2. QED
    BY <1>1, <1>3, <1>7, <2>1 DEF CountOK
<1>8. ASSUME UNCHANGED <<asked, Histories, opens>> PROVE CountOK'
  BY <1>8 DEF CountOK
<1>9. QED
  BY <1>4, <1>5, <1>6, <1>7, <1>8, RequestSteps

LEMMA NumbersStep ==
  ASSUME TypeInv, NumbersOnce, [Next]_vars
  PROVE  NumbersOnce'
<1>1. /\ opens \in Nat /\ \A q \in asked : q.n \in 1..opens
      /\ \A h \in Histories : h.n \in 1..opens
  BY HistoriesType DEF TypeInv, AskedOK, FlagsOK
<1>2. ASSUME NEW t \in Threads, NEW h \in BOOLEAN, Open(t, h), Histories' = Histories
      PROVE  NumbersOnce'
  <2> DEFINE new == [n |-> opens + 1, thread |-> t]
  <2>1. asked' = asked \/ asked' = asked \cup {new}
    BY <1>2 DEF Open
  <2>2. new.n = opens + 1
    OBVIOUS
  <2>3. (\A q \in asked : q.n # new.n) /\ (\A r \in Histories : r.n # new.n)
    BY <1>1, <2>2
  <2> HIDE DEF new
  <2>4. QED
    BY <1>2, <2>1, <2>3 DEF NumbersOnce
<1>3. ASSUME NEW r \in Histories, TakeHistory(r), Histories' = Histories \ {r} PROVE NumbersOnce'
  BY <1>3 DEF TakeHistory, NumbersOnce
<1>4. ASSUME NEW q \in asked, ServeHistory(q), Histories' = Histories \cup {Answer(q)}
      PROVE  NumbersOnce'
  <2>1. asked' = asked \ {q} /\ Answer(q).n = q.n
    BY <1>4 DEF ServeHistory, Answer
  <2>2. QED
    BY <1>4, <2>1 DEF NumbersOnce
<1>5. ASSUME NEW q \in asked, HistoryFails(q), Histories' = Histories PROVE NumbersOnce'
  BY <1>5 DEF HistoryFails, NumbersOnce
<1>6. ASSUME UNCHANGED <<asked, Histories, opens>> PROVE NumbersOnce'
  BY <1>6 DEF NumbersOnce
<1>7. QED
  BY <1>2, <1>3, <1>4, <1>5, <1>6, RequestSteps

----------------------------------------------------------------------------
(* Loading *)

LEMMA LoadingStep ==
  ASSUME TypeInv, LoadingInv, [Next]_vars
  PROVE  LoadingInv'
<1>1. ASSUME NEW t \in Threads, NEW h \in BOOLEAN, Open(t, h) PROVE LoadingInv'
  <2>1. CASE h
    <3> DEFINE new == [n |-> opens + 1, thread |-> t]
    <3>1. new \in asked' /\ new.n = opens' /\ new.thread = view'
      BY <1>1, <2>1 DEF Open
    <3> HIDE DEF new
    <3>2. QED
      BY <3>1 DEF LoadingInv, IsOurs
  <2>2. CASE ~h
    BY <1>1, <2>2 DEF Open, LoadingInv
  <2>3. QED
    BY <2>1, <2>2
<1>2. ASSUME NEW r \in Histories, TakeHistory(r), Histories' = Histories \ {r} PROVE LoadingInv'
  <2>1. UNCHANGED <<asked, opens, view, failed>>
    BY <1>2 DEF TakeHistory
  <2>2. CASE view # None /\ SameKind(r.thread, view)
    BY <1>2, <2>2 DEF TakeHistory, LoadingInv
  <2>3. CASE ~(view # None /\ SameKind(r.thread, view))
    <3>1. loading' = loading
      BY <1>2, <2>3 DEF TakeHistory
    <3>2. view # None => ~IsOurs(r)
      BY <2>3 DEF IsOurs, SameKind, TypeInv, ChatOK, Threads
    <3>3. QED
      BY <1>2, <2>1, <3>1, <3>2 DEF LoadingInv, IsOurs
  <2>4. QED
    BY <2>2, <2>3
<1>3. ASSUME NEW q \in asked, ServeHistory(q), Histories' = Histories \cup {Answer(q)}
      PROVE  LoadingInv'
  <2>1. /\ asked' = asked \ {q} /\ UNCHANGED <<opens, view, loading, failed>>
        /\ Answer(q).n = q.n /\ Answer(q).thread = q.thread
    BY <1>3 DEF ServeHistory, Answer, chatVars
  <2>2. QED
    BY <1>3, <2>1 DEF LoadingInv, IsOurs
<1>4. ASSUME NEW q \in asked, HistoryFails(q), Histories' = Histories PROVE LoadingInv'
  <2>1. /\ asked' = asked \ {q} /\ UNCHANGED <<opens, view, loading>>
        /\ failed' = (failed \/ (view # None /\ q.n = opens))
    BY <1>4 DEF HistoryFails
  <2>2. QED
    BY <1>4, <2>1 DEF LoadingInv, IsOurs
<1>5. CASE Leave
  BY <1>5 DEF Leave, LoadingInv
<1>6. ASSUME UNCHANGED <<asked, Histories, opens, view, loading, failed, overlap, openedAt>>
      PROVE  LoadingInv'
  BY <1>6 DEF LoadingInv, IsOurs
<1>7. QED
  BY <1>1, <1>2, <1>3, <1>4, <1>5, <1>6, RequestSteps

----------------------------------------------------------------------------
(* The indicator *)

(* Taking the first of the feed keeps what the notices tell. *)
LEMMA TailTells ==
  ASSUME TypeInv, FeedTells, feed # <<>>, feed' = Tail(feed), conn' = conn
  PROVE  FeedTells'
<1>1. /\ Len(feed) \in Nat /\ Len(feed') = Len(feed) - 1
      /\ \A k \in 1..Len(feed') : feed'[k] = feed[k + 1] /\ k + 1 \in 1..Len(feed)
  BY HeadAndTail, FeedIs DEF TypeInv, FeedOK
<1>2. ASSUME NEW k \in 1..Len(feed'), LastNotice(k)' PROVE LastNotice(k + 1)
  <2>1. \A l \in 1..Len(feed) : k + 1 < l => l - 1 \in 1..Len(feed') /\ k < l - 1
    BY <1>1
  <2>2. \A l \in 1..Len(feed) : k + 1 < l => feed'[l - 1] = feed[l]
    BY <1>1, <2>1
  <2>3. QED
    BY <1>1, <1>2, <2>1, <2>2 DEF LastNotice
<1>3. QED
  BY <1>1, <1>2 DEF FeedTells

(* A notice that comes last tells what is new. *)
LEMMA AddedNoticeTells ==
  ASSUME Len(feed') \in Nat \ {0},
         \/ feed'[Len(feed')].is = "connected" /\ conn' = "on"
         \/ feed'[Len(feed')].is = "reconnecting" /\ conn' = "off"
  PROVE  FeedTells'
<1>1. ASSUME NEW k \in 1..Len(feed'), LastNotice(k)' PROVE k = Len(feed')
  <2>1. Len(feed') \in 1..Len(feed') /\ (k # Len(feed') => k < Len(feed'))
    OBVIOUS
  <2>2. feed'[Len(feed')].is # "message"
    OBVIOUS
  <2>3. QED
    BY <1>1, <2>1, <2>2 DEF LastNotice
<1>2. QED
  BY <1>1 DEF FeedTells

(* A message that comes last tells nothing. *)
LEMMA MessageTells ==
  ASSUME TypeInv, FeedTells, NEW i, feed' = Append(feed, Incoming(i)), conn' = conn
  PROVE  FeedTells'
<1>1. /\ Len(feed) \in Nat /\ Len(feed') = Len(feed) + 1 /\ feed'[Len(feed) + 1].is = "message"
      /\ \A k \in 1..Len(feed) : feed'[k] = feed[k]
  BY DEF TypeInv, FeedOK, Incoming
<1>2. ASSUME NEW k \in 1..Len(feed'), LastNotice(k)'
      PROVE  k \in 1..Len(feed) /\ LastNotice(k)
  <2>1. k # Len(feed) + 1
    BY <1>1, <1>2 DEF LastNotice
  <2>2. k \in 1..Len(feed) /\ \A l \in 1..Len(feed) : l \in 1..Len(feed')
    BY <1>1, <2>1
  <2>3. QED
    BY <1>1, <1>2, <2>2 DEF LastNotice
<1>3. \A k \in 1..Len(feed') : k \in 1..Len(feed) \/ k = Len(feed) + 1
  BY <1>1
<1>4. QED
  BY <1>1, <1>2, <1>3 DEF FeedTells

LEMMA StatusStep ==
  ASSUME TypeInv, StatusInv, [Next]_vars
  PROVE  StatusInv'
<1> USE DEF serverVars, chatVars
<1>1. FeedTells /\ StatusTrue
  BY DEF StatusInv
<1>2. SUFFICES FeedTells' /\ StatusTrue'
  BY DEF StatusInv
<1>3. ASSUME UNCHANGED <<conn, feed>> PROVE FeedTells'
  BY <1>1, <1>3 DEF FeedTells, LastNotice
<1>4. ASSUME UNCHANGED <<conn, feed, mail, misled, status>> PROVE FeedTells' /\ StatusTrue'
  BY <1>1, <1>3, <1>4 DEF StatusTrue, NoNews, Indicator
<1>5. ASSUME NEW t \in Threads, NEW h \in BOOLEAN, Open(t, h) PROVE FeedTells' /\ StatusTrue'
  <2>1. UNCHANGED <<conn, feed, mail, misled, status>>
    BY <1>5 DEF Open
  <2>2. QED
    BY <1>4, <2>1
<1>6. ASSUME Leave \/ SendMessage PROVE FeedTells' /\ StatusTrue'
  <2>1. UNCHANGED <<conn, feed, mail, misled, status>>
    BY <1>6 DEF Leave, SendMessage
  <2>2. QED
    BY <1>4, <2>1
<1>7. ASSUME NEW t \in Threads, Store(t) PROVE FeedTells' /\ StatusTrue'
  <2>1. UNCHANGED <<conn, feed, mail, misled, status>>
    BY <1>7 DEF Store
  <2>2. QED
    BY <1>4, <2>1
<1>8. ASSUME NEW r \in mail, TakeHistory(r) PROVE FeedTells' /\ StatusTrue'
  <2>1. /\ UNCHANGED <<conn, feed, misled, status>> /\ mail' = mail \ {r}
        /\ r.is = "history"
    BY <1>8 DEF TakeHistory
  <2>2. NoNews' => NoNews
    BY <2>1 DEF NoNews
  <2>3. QED
    BY <1>1, <1>3, <2>1, <2>2 DEF StatusTrue, Indicator
<1>9. ASSUME NEW r \in mail, TakeError(r) PROVE FeedTells' /\ StatusTrue'
  <2>1. /\ UNCHANGED <<conn, feed>> /\ status' = "offline" /\ misled' = (r.n # 0)
        /\ r.is = "error"
    BY <1>9 DEF TakeError
  <2>2. r.n = 0 => conn = "never"
    BY <2>1 DEF TypeInv, MailOK
  <2>3. QED
    BY <1>3, <2>1, <2>2 DEF StatusTrue, Indicator
<1>10. ASSUME NEW r \in mail, TakeClient(r) PROVE FeedTells' /\ StatusTrue'
  <2>1. UNCHANGED <<conn, feed>> /\ status' = "live" /\ misled' = (conn # "on")
    BY <1>10 DEF TakeClient
  <2>2. QED
    BY <1>3, <2>1 DEF StatusTrue, Indicator
<1>11. CASE TakeIncoming
  <2>1. /\ UNCHANGED <<conn, mail, misled, status>> /\ feed # <<>>
        /\ Head(feed).is = "message" /\ feed' = Tail(feed)
    BY <1>11 DEF TakeIncoming
  <2>2. /\ Len(feed) \in Nat /\ Len(feed') = Len(feed) - 1 /\ feed[1].is = "message"
        /\ \A k \in 1..Len(feed') : feed'[k] = feed[k + 1]
    BY <2>1, HeadAndTail DEF TypeInv, FeedOK
  <2>3. ASSUME NoNews' PROVE NoNews
    <3>1. \A k \in 1..Len(feed) : k = 1 \/ (k - 1 \in 1..Len(feed') /\ feed'[k - 1] = feed[k])
      BY <2>2
    <3>2. QED
      BY <2>1, <2>2, <2>3, <3>1 DEF NoNews
  <2>4. FeedTells'
    BY <1>1, <2>1, TailTells
  <2>5. QED
    BY <1>1, <2>1, <2>3, <2>4 DEF StatusTrue, Indicator
<1>12. CASE TakeNotice
  <2>1. /\ UNCHANGED <<conn, mail>> /\ feed # <<>>
        /\ Head(feed).is # "message" /\ feed' = Tail(feed)
        /\ Head(feed).is = "reconnecting" => status' = "connecting"
        /\ Head(feed).is = "connected" => status' = "live"
    BY <1>12 DEF TakeNotice
  <2>2. /\ Len(feed) \in Nat \ {0} /\ Len(feed') = Len(feed) - 1 /\ Head(feed) = feed[1]
        /\ \A k \in 1..Len(feed') : feed'[k] = feed[k + 1]
    BY <2>1, HeadAndTail DEF TypeInv, FeedOK
  <2>3. ASSUME NoNews' PROVE LastNotice(1)
    <3>1. \A l \in 1..Len(feed) : 1 < l => (l - 1 \in 1..Len(feed') /\ feed'[l - 1] = feed[l])
      BY <2>2
    <3>2. QED
      BY <2>1, <2>2, <2>3, <3>1 DEF NoNews, LastNotice
  <2>4. NoNews' => \/ Head(feed).is = "connected" /\ conn = "on"
                   \/ Head(feed).is = "reconnecting" /\ conn = "off"
    BY <1>1, <2>2, <2>3 DEF FeedTells
  <2>5. FeedTells'
    BY <1>1, <2>1, TailTells
  <2>6. QED
    BY <2>1, <2>4, <2>5 DEF StatusTrue, Indicator
<1>13. ASSUME NEW i \in unrouted, Route(i) PROVE FeedTells' /\ StatusTrue'
  <2>1. UNCHANGED <<conn, mail, misled, status>>
    BY <1>13 DEF Route
  <2>2. CASE conn = "on"
    <3>1. feed' = Append(feed, Incoming(i))
      BY <1>13, <2>2 DEF Route
    <3>2. /\ Len(feed) \in Nat /\ Len(feed') = Len(feed) + 1
          /\ \A k \in 1..Len(feed) : feed'[k] = feed[k] /\ k \in 1..Len(feed')
      BY <3>1 DEF TypeInv, FeedOK
    <3>3. NoNews' => NoNews
      BY <2>1, <3>2 DEF NoNews
    <3>4. FeedTells'
      BY <1>1, <2>1, <3>1, MessageTells
    <3>5. QED
      BY <1>1, <2>1, <3>3, <3>4 DEF StatusTrue, Indicator
  <2>3. CASE conn # "on"
    <3>1. feed' = feed
      BY <1>13, <2>3 DEF Route
    <3>2. QED
      BY <1>4, <2>1, <3>1
  <2>4. QED
    BY <2>2, <2>3
<1>14. ASSUME NEW q \in asked, ServeHistory(q) PROVE FeedTells' /\ StatusTrue'
  <2>1. UNCHANGED <<conn, feed, misled, status>> /\ mail' = mail \cup {Answer(q)}
    BY <1>14 DEF ServeHistory
  <2>2. NoNews' => NoNews
    BY <2>1 DEF NoNews
  <2>3. QED
    BY <1>1, <1>3, <2>1, <2>2 DEF StatusTrue, Indicator
<1>15. ASSUME NEW q \in asked, HistoryFails(q) PROVE FeedTells' /\ StatusTrue'
  <2>1. UNCHANGED <<conn, feed, misled, status>> /\ mail \subseteq mail'
    BY <1>15 DEF HistoryFails
  <2>2. NoNews' => NoNews
    BY <2>1 DEF NoNews
  <2>3. QED
    BY <1>1, <1>3, <2>1, <2>2 DEF StatusTrue, Indicator
<1>16. ASSUME FirstConnect \/ FirstConnectFails PROVE FeedTells' /\ StatusTrue'
  <2>1. /\ conn = "first" /\ conn' \in {"on", "never"} /\ feed' = feed
        /\ Result("client") \in mail' \/ Result("error") \in mail'
    BY <1>16 DEF FirstConnect, FirstConnectFails
  <2>2. ~NoNews'
    BY <2>1 DEF NoNews, Result
  <2>3. \A k \in 1..Len(feed) : feed[k].is = "message"
    BY <1>1, <2>1 DEF FeedTells
  <2>4. FeedTells'
    BY <2>1, <2>3 DEF FeedTells, LastNotice
  <2>5. QED
    BY <2>2, <2>4 DEF StatusTrue
<1>17. CASE Reconnect
  <2>1. feed' = Append(feed, Notice("connected")) /\ conn' = "on"
    BY <1>17 DEF Reconnect
  <2>2. /\ Len(feed) \in Nat /\ Len(feed') = Len(feed) + 1
        /\ feed'[Len(feed')] = Notice("connected") /\ Len(feed') \in 1..Len(feed')
    BY <2>1 DEF TypeInv, FeedOK
  <2>3. feed'[Len(feed')].is = "connected"
    BY <2>2 DEF Notice
  <2>4. FeedTells'
    BY <2>1, <2>2, <2>3, AddedNoticeTells
  <2>5. ~NoNews'
    BY <2>2, <2>3 DEF NoNews
  <2>6. QED
    BY <2>4, <2>5 DEF StatusTrue
<1>18. ASSUME NEW k \in 0..Len(feed), Disconnect(k) PROVE FeedTells' /\ StatusTrue'
  <2> DEFINE two == <<Notice("error"), Notice("reconnecting")>>
  <2>1. feed' = SubSeq(feed, 1, k) \o two /\ conn' = "off"
    BY <1>18 DEF Disconnect
  <2>2. /\ Notice("error") \in Item /\ Notice("reconnecting") \in Item
        /\ Notice("reconnecting").is = "reconnecting"
    BY DEF Notice, Item
  <2>3. two \in Seq(Item) /\ Len(two) = 2 /\ two[2] = Notice("reconnecting")
    BY <2>2
  <2>4. SubSeq(feed, 1, k) \in Seq(Item) /\ Len(SubSeq(feed, 1, k)) = k /\ k \in Nat
    BY FeedIs DEF TypeInv, FeedOK
  <2> HIDE DEF two
  <2>5. /\ Len(feed') = k + 2 /\ feed'[k + 2] = Notice("reconnecting")
        /\ Len(feed') \in Nat \ {0} /\ Len(feed') \in 1..Len(feed')
    <3> DEFINE cut == SubSeq(feed, 1, k)
    <3> DEFINE S == Item
    <3>1. cut \in Seq(S) /\ Len(cut) = k /\ feed' = cut \o two /\ two \in Seq(S)
      BY <2>1, <2>3, <2>4
    <3> HIDE DEF cut, S
    <3>2. Len(cut \o two) = k + 2 /\ (cut \o two)[k + 2] = two[2]
      <4>1. Len(cut \o two) = Len(cut) + Len(two)
        BY <3>1, Joined
      <4>2. \A j \in 1..Len(two) : (cut \o two)[Len(cut) + j] = two[j]
        BY <3>1, Joined
      <4>3. QED
        BY <2>3, <3>1, <4>1, <4>2
    <3>3. QED
      BY <2>3, <2>4, <3>1, <3>2
  <2>6. feed'[Len(feed')].is = "reconnecting"
    BY <2>2, <2>5
  <2>7. FeedTells'
    BY <2>1, <2>5, <2>6, AddedNoticeTells
  <2>8. ~NoNews'
    BY <2>5, <2>6 DEF NoNews
  <2>9. QED
    BY <2>7, <2>8 DEF StatusTrue
<1>19. ASSUME UNCHANGED vars PROVE FeedTells' /\ StatusTrue'
  <2>1. UNCHANGED <<conn, feed, mail, misled, status>>
    BY <1>19 DEF vars
  <2>2. QED
    BY <1>4, <2>1
<1>20. QED
  BY <1>5, <1>6, <1>7, <1>8, <1>9, <1>10, <1>11, <1>12, <1>13, <1>14, <1>15, <1>16, <1>17,
     <1>18, <1>19 DEF Next

----------------------------------------------------------------------------
(* Messages of other threads *)

(* The messages stored stay, and more may come.  *)
LEMMA LogGrows ==
  ASSUME TypeInv, [Next]_vars
  PROVE  /\ Len(log) \in Nat /\ Len(log') \in Nat /\ Len(log) <= Len(log')
         /\ \A i \in 1..Len(log) : i \in 1..Len(log') /\ log'[i] = log[i]
         /\ \A u : Of(u) \subseteq Of(u)'
<1>1. log \in Seq(Threads) /\ Len(log) \in Nat
  BY DEF TypeInv, LogOK
<1>2. log' = log \/ \E t \in Threads : log' = Append(log, t)
  <2>1. ASSUME NEW t \in Threads, NEW h \in BOOLEAN, Open(t, h) PROVE log' = log
    BY <2>1 DEF Open, serverVars
  <2>2. ASSUME NEW r \in mail, TakeHistory(r) \/ TakeError(r) \/ TakeClient(r) PROVE log' = log
    BY <2>2 DEF TakeHistory, TakeError, TakeClient, serverVars
  <2>3. ASSUME Leave \/ TakeIncoming \/ TakeNotice \/ FirstConnect \/ FirstConnectFails
               \/ Reconnect
        PROVE  log' = log
    BY <2>3 DEF Leave, TakeIncoming, TakeNotice, FirstConnect, FirstConnectFails, Reconnect,
                serverVars
  <2>4. ASSUME SendMessage PROVE log' = Append(log, view) /\ view \in Threads
    BY <2>4 DEF SendMessage, TypeInv, ChatOK
  <2>5. ASSUME NEW t \in Threads, Store(t) PROVE log' = Append(log, t)
    BY <2>5 DEF Store
  <2>6. ASSUME NEW i \in unrouted, Route(i) PROVE log' = log
    BY <2>6 DEF Route
  <2>7. ASSUME NEW q \in asked, ServeHistory(q) \/ HistoryFails(q) PROVE log' = log
    BY <2>7 DEF ServeHistory, HistoryFails, serverVars
  <2>8. ASSUME NEW k \in 0..Len(feed), Disconnect(k) PROVE log' = log
    BY <2>8 DEF Disconnect
  <2>9. ASSUME UNCHANGED vars PROVE log' = log
    BY <2>9 DEF vars, serverVars
  <2>10. QED
    BY <2>1, <2>2, <2>3, <2>4, <2>5, <2>6, <2>7, <2>8, <2>9 DEF Next
<1>3. /\ Len(log') \in Nat /\ Len(log) <= Len(log')
      /\ \A i \in 1..Len(log) : i \in 1..Len(log') /\ log'[i] = log[i]
      /\ log' \in Seq(Threads)
  BY <1>1, <1>2
<1>4. \A u : Of(u) \subseteq Of(u)'
  BY <1>1, <1>3 DEF Of, Messages
<1>5. QED
  BY <1>1, <1>3, <1>4

(* Which steps change what the chat shows. *)
LEMMA ScreenSteps ==
  ASSUME [Next]_vars
  PROVE  \/ UNCHANGED <<view, shown, overlap>>
         \/ \E t \in Threads, h \in BOOLEAN : Open(t, h)
         \/ Leave
         \/ \E r \in Histories : TakeHistory(r)
         \/ TakeIncoming
<1> USE DEF serverVars, chatVars
<1>1. ASSUME SendMessage \/ TakeNotice \/ FirstConnect \/ FirstConnectFails \/ Reconnect
      PROVE  UNCHANGED <<view, shown, overlap>>
  BY <1>1 DEF SendMessage, TakeNotice, FirstConnect, FirstConnectFails, Reconnect
<1>2. ASSUME NEW r \in mail, TakeError(r) \/ TakeClient(r) PROVE UNCHANGED <<view, shown, overlap>>
  BY <1>2 DEF TakeError, TakeClient
<1>3. ASSUME NEW r \in mail, TakeHistory(r) PROVE r \in Histories
  BY <1>3 DEF TakeHistory, Histories
<1>4. ASSUME NEW t \in Threads, Store(t) PROVE UNCHANGED <<view, shown, overlap>>
  BY <1>4 DEF Store
<1>5. ASSUME NEW i \in unrouted, Route(i) PROVE UNCHANGED <<view, shown, overlap>>
  BY <1>5 DEF Route
<1>6. ASSUME NEW q \in asked, ServeHistory(q) \/ HistoryFails(q)
      PROVE  UNCHANGED <<view, shown, overlap>>
  BY <1>6 DEF ServeHistory, HistoryFails
<1>7. ASSUME NEW k \in 0..Len(feed), Disconnect(k) PROVE UNCHANGED <<view, shown, overlap>>
  BY <1>7 DEF Disconnect
<1>8. ASSUME UNCHANGED vars PROVE UNCHANGED <<view, shown, overlap>>
  BY <1>8 DEF vars
<1>9. QED
  BY <1>1, <1>2, <1>3, <1>4, <1>5, <1>6, <1>7, <1>8 DEF Next

(* What TakeHistory adds to the chat. *)
LEMMA HistoryAdds ==
  ASSUME TypeInv, NEW r \in Histories, TakeHistory(r), view # None, SameKind(r.thread, view)
  PROVE  /\ shown \in Seq(Entry(Len(log))) /\ Len(shown) \in Nat /\ Len(r.ids) \in Nat
         /\ shown' \in Seq(Entry(Len(log))) /\ Len(shown') = Len(shown) + Len(r.ids)
         /\ \A k \in 1..Len(shown) : shown'[k] = shown[k]
         /\ \A k \in 1..Len(r.ids) : shown'[Len(shown) + k] = [id |-> r.ids[k], how |-> "history"]
         /\ \A k \in 1..Len(r.ids) : r.ids[k] \in 1..Len(log) /\ log[r.ids[k]] = r.thread
         /\ \A k \in 1..Len(shown') :
              k \in 1..Len(shown) \/ \E l \in 1..Len(r.ids) : k = Len(shown) + l
<1> DEFINE e == Entries(r.ids, "history")
<1>1. shown \in Seq(Entry(Len(log))) /\ Len(shown) \in Nat /\ r.ids \in Seq(Nat)
      /\ Len(r.ids) \in Nat /\ log \in Seq(Threads)
  BY HistoriesType DEF TypeInv, ChatOK, LogOK
<1>2. \A k \in 1..Len(r.ids) : r.ids[k] \in 1..Len(log) /\ log[r.ids[k]] = r.thread
  BY <1>1, HistoriesType DEF TypeInv, Of, Messages
<1>3. /\ e \in Seq(Entry(Len(log))) /\ Len(e) = Len(r.ids)
      /\ \A k \in 1..Len(r.ids) : e[k] = [id |-> r.ids[k], how |-> "history"]
  BY <1>1, <1>2, EntriesIs
<1>4. shown' = shown \o e
  BY DEF TakeHistory
<1> HIDE DEF e
<1>5. /\ shown \o e \in Seq(Entry(Len(log))) /\ Len(shown \o e) = Len(shown) + Len(r.ids)
      /\ \A k \in 1..Len(shown) : (shown \o e)[k] = shown[k]
      /\ \A k \in 1..Len(r.ids) : (shown \o e)[Len(shown) + k] = e[k]
  <2> DEFINE S == Entry(Len(log))
  <2>1. shown \in Seq(S) /\ e \in Seq(S) /\ Len(e) = Len(r.ids)
    BY <1>1, <1>3
  <2> HIDE DEF S
  <2>2. shown \o e \in Seq(S) /\ Len(shown \o e) = Len(shown) + Len(e)
    BY <2>1, Joined
  <2>3. \A k \in 1..Len(shown) : (shown \o e)[k] = shown[k]
    BY <2>1, Joined
  <2>4. \A k \in 1..Len(e) : (shown \o e)[Len(shown) + k] = e[k]
    BY <2>1, Joined
  <2>5. QED
    BY <2>1, <2>2, <2>3, <2>4 DEF S
<1>6. ASSUME NEW k \in 1..Len(shown') 
      PROVE  k \in 1..Len(shown) \/ \E l \in 1..Len(r.ids) : k = Len(shown) + l
  <2>1. k \in 1..Len(shown) + Len(r.ids)
    BY <1>4, <1>5
  <2>2. k \in 1..Len(shown) \/ (k - Len(shown) \in 1..Len(r.ids) /\ k = Len(shown) + (k - Len(shown)))
    BY <1>1, <2>1
  <2>3. QED
    BY <2>2
<1>7. QED
  BY <1>1, <1>2, <1>3, <1>4, <1>5, <1>6

(* What TakeIncoming does: it moves the first of the feed to the chat, if  *)
(* that shows it.                                                          *)
LEMMA IncomingAdds ==
  ASSUME TypeInv, TakeIncoming
  PROVE  /\ Len(feed) \in Nat \ {0} /\ Head(feed) = feed[1] /\ Head(feed).id \in 1..Len(log)
         /\ feed' = Tail(feed) /\ Len(feed') = Len(feed) - 1
         /\ \A k \in 1..Len(feed') : feed'[k] = feed[k + 1] /\ k + 1 \in 1..Len(feed)
         /\ shown \in Seq(Entry(Len(log))) /\ Len(shown) \in Nat
         /\ view # None /\ Shows(Head(feed).id) =>
              /\ shown' \in Seq(Entry(Len(log))) /\ Len(shown') = Len(shown) + 1
              /\ \A k \in 1..Len(shown) : shown'[k] = shown[k]
              /\ shown'[Len(shown) + 1] = [id |-> Head(feed).id, how |-> "live"]
              /\ raced' = (raced \/ \E r \in Awaited : SameKind(r.thread, view))
         /\ ~(view # None /\ Shows(Head(feed).id)) => shown' = shown /\ raced' = raced
<1>1. feed \in Seq(Item) /\ feed # <<>> /\ feed' = Tail(feed) /\ Head(feed).is = "message"
  BY DEF TakeIncoming, TypeInv, FeedOK
<1>2. /\ Len(feed) \in Nat \ {0} /\ Head(feed) = feed[1]
      /\ Len(feed') = Len(feed) - 1
      /\ \A k \in 1..Len(feed') : feed'[k] = feed[k + 1] /\ k + 1 \in 1..Len(feed)
  BY <1>1, HeadAndTail
<1>3. Head(feed).id \in 1..Len(log)
  <2>1. 1 \in 1..Len(feed)
    BY <1>2
  <2>2. Head(feed).id \in 0..Len(log) /\ Head(feed).id # 0 /\ Len(log) \in Nat
    BY <1>1, <1>2, <2>1, FeedIs DEF TypeInv
  <2>3. QED
    BY <2>2
<1>4. shown \in Seq(Entry(Len(log))) /\ Len(shown) \in Nat
  BY DEF TypeInv, ChatOK
<1> DEFINE new == [id |-> Head(feed).id, how |-> "live"]
<1>5. new \in Entry(Len(log))
  BY <1>3 DEF Entry
<1>6. ASSUME view # None, Shows(Head(feed).id)
      PROVE  /\ shown' = Append(shown, new)
             /\ raced' = (raced \/ \E r \in Awaited : SameKind(r.thread, view))
  BY <1>6 DEF TakeIncoming
<1>7. ASSUME ~(view # None /\ Shows(Head(feed).id)) PROVE shown' = shown /\ raced' = raced
  BY <1>7 DEF TakeIncoming
<1> HIDE DEF new
<1>8. /\ Append(shown, new) \in Seq(Entry(Len(log))) /\ Len(Append(shown, new)) = Len(shown) + 1
      /\ \A k \in 1..Len(shown) : Append(shown, new)[k] = shown[k]
      /\ Append(shown, new)[Len(shown) + 1] = new
  BY <1>4, <1>5
<1>9. QED
  BY <1>1, <1>2, <1>3, <1>4, <1>6, <1>7, <1>8 DEF new

LEMMA ForeignStep ==
  ASSUME TypeInv, ForeignInv, [Next]_vars
  PROVE  ForeignInv'
<1> DEFINE Fine(k) == log[shown[k].id] # view => /\ shown[k].how = "live" => view \in Rooms
                                                 /\ shown[k].how # "live" => overlap
<1>1. /\ shown \in Seq(Entry(Len(log))) /\ DOMAIN shown = 1..Len(shown)
      /\ \A k \in 1..Len(shown) : shown[k].id \in 1..Len(log)
      /\ \A k \in 1..Len(shown) : Fine(k)
  <2>1. shown \in Seq(Entry(Len(log))) /\ DOMAIN shown = 1..Len(shown)
    BY DEF TypeInv, ChatOK
  <2>2. \A k \in 1..Len(shown) : shown[k] \in Entry(Len(log))
    BY <2>1
  <2>3. \A k \in 1..Len(shown) : shown[k].id \in 1..Len(log)
    BY <2>2 DEF Entry
  <2>4. \A k \in 1..Len(shown) : Fine(k)
    BY <2>1 DEF ForeignInv, ForeignCause
  <2>5. QED
    BY <2>1, <2>3, <2>4
<1>2. AwaitedInv'
  <2>1. AwaitedInv
    BY DEF ForeignInv
  <2>2. ASSUME NEW t \in Threads, NEW h \in BOOLEAN, Open(t, h), Histories' = Histories
        PROVE  AwaitedInv'
    <3> DEFINE new == [n |-> opens + 1, thread |-> t]
    <3>1. /\ asked' = asked \/ asked' = asked \cup {new}
          /\ overlap' = (\E r \in Awaited : SameKind(r.thread, t)) /\ view' = t
          /\ new.thread = t
      BY <2>2 DEF Open
    <3>2. Awaited = asked \cup Histories
      BY DEF Awaited, Histories
    <3> HIDE DEF new
    <3>3. QED
      BY <2>2, <3>1, <3>2 DEF AwaitedInv
  <2>3. CASE Leave
    BY <2>3 DEF Leave, AwaitedInv
  <2>4. ASSUME NEW r \in Histories, TakeHistory(r), Histories' = Histories \ {r} PROVE AwaitedInv'
    BY <2>1, <2>4 DEF TakeHistory, AwaitedInv
  <2>5. ASSUME NEW q \in asked, ServeHistory(q), Histories' = Histories \cup {Answer(q)}
        PROVE  AwaitedInv'
    <3>1. /\ asked' = asked \ {q} /\ UNCHANGED <<view, overlap>>
          /\ Answer(q).thread = q.thread
      BY <2>5 DEF ServeHistory, Answer, chatVars
    <3>2. QED
      BY <2>1, <2>5, <3>1 DEF AwaitedInv
  <2>6. ASSUME NEW q \in asked, HistoryFails(q), Histories' = Histories PROVE AwaitedInv'
    BY <2>1, <2>6 DEF HistoryFails, AwaitedInv
  <2>7. ASSUME UNCHANGED <<asked, Histories, opens, view, loading, failed, overlap, openedAt>>
        PROVE AwaitedInv'
    BY <2>1, <2>7 DEF AwaitedInv
  <2>8. QED
    BY <2>2, <2>3, <2>4, <2>5, <2>6, <2>7, RequestSteps
<1>3. ForeignCause'
  <2>1. ASSUME NEW t \in Threads, NEW h \in BOOLEAN, Open(t, h) PROVE ForeignCause'
    BY <2>1 DEF Open, ForeignCause
  <2>2. CASE Leave
    BY <2>2 DEF Leave, ForeignCause
  <2>3. ASSUME NEW r \in Histories, TakeHistory(r) PROVE ForeignCause'
    <3>1. UNCHANGED <<log, view, overlap>>
      BY <2>3 DEF TakeHistory, serverVars
    <3>2. CASE view # None /\ SameKind(r.thread, view)
      <4>1. r.thread # view => overlap
        BY <3>2 DEF ForeignInv, AwaitedInv
      <4>2. DOMAIN shown' = 1..Len(shown')
        BY <2>3, <3>2, HistoryAdds
      <4>3. ASSUME NEW l \in 1..Len(r.ids), NEW k, k = Len(shown) + l, k \in 1..Len(shown')
            PROVE  Fine(k)'
        <5>1. shown'[k] = [id |-> r.ids[l], how |-> "history"] /\ log[r.ids[l]] = r.thread
          BY <2>3, <3>2, <4>3, HistoryAdds
        <5>2. QED
          BY <3>1, <4>1, <5>1
      <4>4. ASSUME NEW k \in 1..Len(shown) PROVE Fine(k)'
        <5>1. shown'[k] = shown[k]
          BY <2>3, <3>2, HistoryAdds
        <5>2. QED
          BY <1>1, <3>1, <5>1
      <4>5. \A k \in 1..Len(shown') : Fine(k)'
        BY <2>3, <3>2, <4>3, <4>4, HistoryAdds
      <4>6. QED
        BY <4>2, <4>5 DEF ForeignCause
    <3>3. CASE ~(view # None /\ SameKind(r.thread, view))
      <4>1. shown' = shown
        BY <2>3, <3>3 DEF TakeHistory
      <4>2. QED
        BY <3>1, <4>1 DEF ForeignInv, ForeignCause
    <3>4. QED
      BY <3>2, <3>3
  <2>4. CASE TakeIncoming
    <3>1. UNCHANGED <<log, view, overlap>>
      BY <2>4 DEF TakeIncoming, serverVars
    <3>2. CASE view # None /\ Shows(Head(feed).id)
      <4>1. DOMAIN shown' = 1..Len(shown') /\ Len(shown') = Len(shown) + 1 /\ Len(shown) \in Nat
        BY <2>4, <3>2, IncomingAdds
      <4>2. ASSUME NEW k, k = Len(shown) + 1 PROVE Fine(k)'
        <5>1. shown'[k] = [id |-> Head(feed).id, how |-> "live"]
          BY <2>4, <3>2, <4>2, IncomingAdds
        <5>2. log[Head(feed).id] # view => view \in Rooms
          BY <3>2 DEF Shows
        <5>3. QED
          BY <3>1, <5>1, <5>2
      <4>3. ASSUME NEW k \in 1..Len(shown) PROVE Fine(k)'
        <5>1. shown'[k] = shown[k]
          BY <2>4, <3>2, IncomingAdds
        <5>2. QED
          BY <1>1, <3>1, <5>1
      <4>4. \A k \in 1..Len(shown') : k \in 1..Len(shown) \/ k = Len(shown) + 1
        BY <4>1
      <4>5. \A k \in 1..Len(shown') : Fine(k)'
        BY <4>2, <4>3, <4>4
      <4>6. QED
        BY <4>1, <4>5 DEF ForeignCause
    <3>3. CASE ~(view # None /\ Shows(Head(feed).id))
      <4>1. shown' = shown
        BY <2>4, <3>3, IncomingAdds
      <4>2. QED
        BY <3>1, <4>1 DEF ForeignInv, ForeignCause
    <3>4. QED
      BY <3>2, <3>3
  <2>5. CASE UNCHANGED <<view, shown, overlap>>
    <3>1. \A k \in 1..Len(shown) : log'[shown[k].id] = log[shown[k].id]
      BY <1>1, LogGrows
    <3>2. QED
      BY <1>1, <2>5, <3>1 DEF ForeignCause
  <2>6. QED
    BY <2>1, <2>2, <2>3, <2>4, <2>5, ScreenSteps
<1>4. QED
  BY <1>2, <1>3 DEF ForeignInv

----------------------------------------------------------------------------
(* What the feed does to the order *)

LEMMA InTurnIs ==
  ASSUME TypeInv
  PROVE  InTurn <=> ~Overtaken
<1>1. /\ Len(feed) \in Nat /\ DOMAIN feed = 1..Len(feed)
      /\ \A k \in 1..Len(feed) : feed[k].id \in Nat
      /\ unrouted \subseteq Nat \ {0}
  BY FeedIs DEF TypeInv, FeedOK, LogOK, Item
<1>2. ASSUME InTurn, Overtaken PROVE FALSE
  <2>1. PICK k \in 1..Len(feed) : \E i \in unrouted \cup {feed[l].id : l \in (k + 1)..Len(feed)} :
                                     0 < i /\ i < feed[k].id
    BY <1>1, <1>2 DEF Overtaken
  <2>2. PICK i \in unrouted \cup {feed[l].id : l \in (k + 1)..Len(feed)} : 0 < i /\ i < feed[k].id
    BY <2>1
  <2>3. CASE i \in unrouted
    BY <1>1, <1>2, <2>2, <2>3 DEF InTurn
  <2>4. ASSUME NEW l \in (k + 1)..Len(feed), i = feed[l].id PROVE FALSE
    <3>1. l \in 1..Len(feed) /\ k < l
      BY <1>1
    <3>2. QED
      BY <1>1, <1>2, <2>2, <2>4, <3>1 DEF InTurn
  <2>5. QED
    BY <2>2, <2>3, <2>4
<1>3. ASSUME ~Overtaken PROVE InTurn
  <2>1. ASSUME NEW k \in 1..Len(feed), NEW i \in unrouted PROVE feed[k].id <= i
    BY <1>1, <1>3 DEF Overtaken
  <2>2. ASSUME NEW k \in 1..Len(feed), NEW l \in 1..Len(feed), k < l, feed[l].id # 0
        PROVE  feed[k].id <= feed[l].id
    <3>1. l \in (k + 1)..Len(feed)
      BY <1>1, <2>2
    <3>2. ~(0 < feed[l].id /\ feed[l].id < feed[k].id)
      BY <1>1, <1>3, <3>1 DEF Overtaken
    <3>3. QED
      BY <1>1, <2>2, <3>2
  <2>3. QED
    BY <2>1, <2>2 DEF InTurn
<1>4. QED
  BY <1>2, <1>3

(* The feed after one more item. *)
LEMMA FeedGrows ==
  ASSUME TypeInv, NEW m \in Item, feed' = Append(feed, m)
  PROVE  /\ Len(feed) \in Nat /\ Len(feed') = Len(feed) + 1 /\ feed'[Len(feed) + 1] = m
         /\ \A k \in 1..Len(feed) : feed'[k] = feed[k] /\ k \in 1..Len(feed')
         /\ \A k \in 1..Len(feed') : k \in 1..Len(feed) \/ k = Len(feed) + 1
         /\ InFeed' = InFeed \cup ({m.id} \ {0})
<1>1. feed \in Seq(Item) /\ Len(feed) \in Nat
  BY FeedIs DEF TypeInv, FeedOK
<1>2. /\ Len(feed') = Len(feed) + 1 /\ feed'[Len(feed) + 1] = m
      /\ \A k \in 1..Len(feed) : feed'[k] = feed[k]
      /\ DOMAIN feed = 1..Len(feed) /\ DOMAIN feed' = 1..Len(feed')
  BY <1>1
<1>3. \A k : k \in 1..Len(feed') <=> k \in 1..Len(feed) \/ k = Len(feed) + 1
  BY <1>1, <1>2
<1>4. InFeed' = InFeed \cup ({m.id} \ {0})
  BY <1>2, <1>3 DEF InFeed
<1>5. QED
  BY <1>1, <1>2, <1>3, <1>4

(* The feed without its first item. *)
LEMMA FeedShrinks ==
  ASSUME TypeInv, feed # <<>>, feed' = Tail(feed)
  PROVE  /\ Len(feed) \in Nat \ {0} /\ Len(feed') = Len(feed) - 1 /\ Head(feed) = feed[1]
         /\ \A k \in 1..Len(feed') : feed'[k] = feed[k + 1] /\ k + 1 \in 1..Len(feed)
         /\ InFeed = InFeed' \cup ({Head(feed).id} \ {0})
<1>1. /\ Len(feed) \in Nat \ {0} /\ Len(feed') = Len(feed) - 1 /\ Head(feed) = feed[1]
      /\ \A k \in 1..Len(feed') : feed'[k] = feed[k + 1] /\ k + 1 \in 1..Len(feed)
      /\ DOMAIN feed = 1..Len(feed) /\ DOMAIN feed' = 1..Len(feed')
  BY HeadAndTail DEF TypeInv, FeedOK
<1>2. \A k \in 1..Len(feed) : k = 1 \/ (k - 1 \in 1..Len(feed') /\ feed[k] = feed'[k - 1])
  BY <1>1
<1>3. 1 \in 1..Len(feed)
  BY <1>1
<1>4. InFeed = InFeed' \cup ({Head(feed).id} \ {0})
  <2>1. InFeed' \subseteq InFeed
    BY <1>1 DEF InFeed
  <2>2. {Head(feed).id} \ {0} \subseteq InFeed
    BY <1>1, <1>3 DEF InFeed
  <2>3. ASSUME NEW k \in 1..Len(feed), feed[k].id # 0
        PROVE  feed[k].id \in InFeed' \cup ({Head(feed).id} \ {0})
    BY <1>1, <1>2, <2>3 DEF InFeed
  <2>4. InFeed \subseteq InFeed' \cup ({Head(feed).id} \ {0})
    BY <1>1, <2>3 DEF InFeed
  <2>5. QED
    BY <2>1, <2>2, <2>4
<1>5. QED
  BY <1>1, <1>4

(* The feed when the connection is lost. *)
LEMMA FeedIsCut ==
  ASSUME TypeInv, NEW k \in 0..Len(feed), Disconnect(k)
  PROVE  /\ k \in Nat /\ Len(feed) \in Nat /\ Len(feed') = k + 2
         /\ \A j \in 1..k : feed'[j] = feed[j] /\ j \in 1..Len(feed)
         /\ feed'[k + 1].id = 0 /\ feed'[k + 2].id = 0
         /\ InFeed' \subseteq InFeed /\ InFeed \subseteq InFeed' \cup lost'
<1>1. k \in Nat /\ Len(feed) \in Nat /\ \A j \in 1..k : j \in 1..Len(feed)
  BY FeedIs DEF TypeInv
<1> DEFINE two == <<Notice("error"), Notice("reconnecting")>>
           cut == SubSeq(feed, 1, k)
           S == Item
<1>2. two \in Seq(S) /\ Len(two) = 2 /\ two[1].id = 0 /\ two[2].id = 0
  BY DEF Notice, Item
<1>3. cut \in Seq(S) /\ Len(cut) = k /\ \A j \in 1..k : cut[j] = feed[j]
  BY <1>1 DEF TypeInv, FeedOK
<1>4. /\ feed' = cut \o two
      /\ lost' = lost \cup ({feed[j].id : j \in (k + 1)..Len(feed)} \ {0})
  BY DEF Disconnect
<1> HIDE DEF two, cut, S
<1>5. cut \in Seq(S) /\ two \in Seq(S)
  BY <1>2, <1>3
<1>6. cut \o two \in Seq(S) /\ Len(cut \o two) = Len(cut) + Len(two)
  BY <1>5, Joined
<1>7. \A j \in 1..Len(cut) : (cut \o two)[j] = cut[j]
  BY <1>5, Joined
<1>8. \A j \in 1..Len(two) : (cut \o two)[Len(cut) + j] = two[j]
  BY <1>5, Joined
<1>9. Len(feed') = k + 2 /\ feed' \in Seq(S)
  BY <1>1, <1>2, <1>3, <1>4, <1>6
<1>10. \A j \in 1..k : feed'[j] = feed[j]
  BY <1>3, <1>4, <1>7
<1>11. \A j \in 1..2 : feed'[k + j] = two[j]
  BY <1>2, <1>3, <1>4, <1>8
<1>12. feed'[k + 1].id = 0 /\ feed'[k + 2].id = 0
  BY <1>1, <1>2, <1>11
<1>13. DOMAIN feed = 1..Len(feed) /\ DOMAIN feed' = 1..k + 2
  BY <1>9 DEF TypeInv, FeedOK
<1>14. \A j \in 1..k + 2 : j \in 1..k \/ j = k + 1 \/ j = k + 2
  BY <1>1
<1>15. InFeed' \subseteq InFeed
  BY <1>1, <1>10, <1>12, <1>13, <1>14 DEF InFeed
<1>16. InFeed \subseteq InFeed' \cup lost'
  <2>1. \A j \in 1..Len(feed) : j \in 1..k \/ j \in (k + 1)..Len(feed)
    BY <1>1
  <2>2. \A j \in 1..k : j \in 1..k + 2
    BY <1>1
  <2>3. ASSUME NEW j \in 1..Len(feed), feed[j].id # 0 PROVE feed[j].id \in InFeed' \cup lost'
    <3>1. CASE j \in 1..k
      BY <1>10, <1>13, <2>2, <2>3, <3>1 DEF InFeed
    <3>2. CASE j \in (k + 1)..Len(feed)
      BY <1>4, <2>3, <3>2
    <3>3. QED
      BY <2>1, <3>1, <3>2
  <2>4. QED
    BY <1>13, <2>3 DEF InFeed
<1>17. QED
  BY <1>1, <1>9, <1>10, <1>12, <1>15, <1>16

(* What is still to come is routed, shown or lost, and more comes.         *)
LEMMA PendingMoves ==
  ASSUME TypeInv, [Next]_vars
  PROVE  /\ lost \subseteq lost'
         /\ \A i \in Pending' : i \in Pending \/ (i = Len(log) + 1 /\ Len(log') = Len(log) + 1)
         /\ \A i \in Pending : i \in Pending' \cup lost' \/ (TakeIncoming /\ i = Head(feed).id)
         /\ Len(log') = Len(log) \/ (Len(log') = Len(log) + 1 /\ Len(log') \in Pending')
<1> USE DEF serverVars, chatVars, Pending
<1> DEFINE Goal == /\ lost \subseteq lost'
                   /\ \A i \in Pending' : i \in Pending \/ (i = Len(log) + 1 /\ Len(log') = Len(log) + 1)
                   /\ \A i \in Pending : i \in Pending' \cup lost'
                                         \/ (TakeIncoming /\ i = Head(feed).id)
                   /\ \/ Len(log') = Len(log)
                      \/ Len(log') = Len(log) + 1 /\ Len(log') \in Pending'
<1>1. ASSUME UNCHANGED <<log, unrouted, feed, lost>> PROVE Goal
  BY <1>1 DEF InFeed
<1>2. ASSUME NEW t \in Threads, log' = Append(log, t), unrouted' = unrouted \cup {Len(log')},
             UNCHANGED <<feed, lost>>
      PROVE  Goal
  <2>1. Len(log') = Len(log) + 1
    BY <1>2 DEF TypeInv, LogOK
  <2>2. InFeed' = InFeed
    BY <1>2 DEF InFeed
  <2>3. QED
    BY <1>2, <2>1, <2>2
<1>3. ASSUME NEW t \in Threads, NEW h \in BOOLEAN, Open(t, h) PROVE Goal
  <2>1. UNCHANGED <<log, unrouted, feed, lost>>
    BY <1>3 DEF Open
  <2>2. QED
    BY <1>1, <2>1
<1>4. ASSUME Leave \/ FirstConnect \/ FirstConnectFails PROVE Goal
  <2>1. UNCHANGED <<log, unrouted, feed, lost>>
    BY <1>4 DEF Leave, FirstConnect, FirstConnectFails
  <2>2. QED
    BY <1>1, <2>1
<1>5. ASSUME NEW r \in mail, TakeHistory(r) \/ TakeError(r) \/ TakeClient(r) PROVE Goal
  <2>1. UNCHANGED <<log, unrouted, feed, lost>>
    BY <1>5 DEF TakeHistory, TakeError, TakeClient
  <2>2. QED
    BY <1>1, <2>1
<1>6. ASSUME NEW q \in asked, ServeHistory(q) \/ HistoryFails(q) PROVE Goal
  <2>1. UNCHANGED <<log, unrouted, feed, lost>>
    BY <1>6 DEF ServeHistory, HistoryFails
  <2>2. QED
    BY <1>1, <2>1
<1>7. ASSUME UNCHANGED vars PROVE Goal
  <2>1. UNCHANGED <<log, unrouted, feed, lost>>
    BY <1>7 DEF vars
  <2>2. QED
    BY <1>1, <2>1
<1>8. ASSUME SendMessage PROVE Goal
  <2>1. /\ log' = Append(log, view) /\ unrouted' = unrouted \cup {Len(log')}
        /\ UNCHANGED <<feed, lost>> /\ view \in Threads
    BY <1>8 DEF SendMessage, TypeInv, ChatOK
  <2>2. QED
    BY <1>2, <2>1
<1>9. ASSUME NEW t \in Threads, Store(t) PROVE Goal
  <2>1. /\ log' = Append(log, t) /\ unrouted' = unrouted \cup {Len(log')}
        /\ UNCHANGED <<feed, lost>>
    BY <1>9 DEF Store
  <2>2. QED
    BY <1>2, <2>1
<1>10. ASSUME TakeIncoming PROVE Goal
  <2>1. /\ feed # <<>> /\ feed' = Tail(feed) /\ UNCHANGED <<log, unrouted, lost>>
    BY <1>10 DEF TakeIncoming
  <2>2. InFeed = InFeed' \cup ({Head(feed).id} \ {0})
    BY <2>1, FeedShrinks
  <2>3. QED
    BY <1>10, <2>1, <2>2
<1>11. ASSUME TakeNotice PROVE Goal
  <2>1. /\ feed # <<>> /\ feed' = Tail(feed) /\ UNCHANGED <<log, unrouted, lost>>
        /\ Head(feed).is # "message"
    BY <1>11 DEF TakeNotice
  <2>2. InFeed = InFeed' \cup ({Head(feed).id} \ {0}) /\ Head(feed) = feed[1] /\ 1 \in 1..Len(feed)
    BY <2>1, FeedShrinks
  <2>3. Head(feed).id = 0
    BY <2>1, <2>2, FeedIs DEF TypeInv
  <2>4. QED
    BY <2>1, <2>2, <2>3
<1>12. ASSUME NEW i \in unrouted, Route(i) PROVE Goal
  <2>1. unrouted' = unrouted \ {i} /\ log' = log
    BY <1>12 DEF Route
  <2>2. CASE conn = "on"
    <3>1. /\ feed' = Append(feed, Incoming(i)) /\ lost' = lost /\ Incoming(i) \in Item
          /\ Incoming(i).id = i /\ i # 0
      BY <1>12, <2>2 DEF Route, Incoming, Item, TypeInv, LogOK
    <3>2. InFeed' = InFeed \cup {i}
      BY <3>1, FeedGrows
    <3>3. QED
      BY <2>1, <3>1, <3>2
  <2>3. CASE conn # "on"
    <3>1. feed' = feed /\ lost' = lost \cup {i}
      BY <1>12, <2>3 DEF Route
    <3>2. InFeed' = InFeed
      BY <3>1 DEF InFeed
    <3>3. QED
      BY <2>1, <3>1, <3>2
  <2>4. QED
    BY <2>2, <2>3
<1>13. ASSUME Reconnect PROVE Goal
  <2>1. /\ feed' = Append(feed, Notice("connected")) /\ UNCHANGED <<log, unrouted, lost>>
        /\ Notice("connected") \in Item /\ Notice("connected").id = 0
    BY <1>13 DEF Reconnect, Notice, Item
  <2>2. InFeed' = InFeed
    BY <2>1, FeedGrows
  <2>3. QED
    BY <2>1, <2>2
<1>14. ASSUME NEW k \in 0..Len(feed), Disconnect(k) PROVE Goal
  <2>1. UNCHANGED <<log, unrouted>> /\ lost \subseteq lost'
    BY <1>14 DEF Disconnect
  <2>2. InFeed' \subseteq InFeed /\ InFeed \subseteq InFeed' \cup lost'
    BY <1>14, FeedIsCut
  <2>3. QED
    BY <2>1, <2>2
<1>15. Goal
  BY <1>3, <1>4, <1>5, <1>6, <1>7, <1>8, <1>9, <1>10, <1>11, <1>12, <1>13, <1>14 DEF Next
<1>16. QED
  BY <1>15

(* No step but one that says so lets a message overtake another.           *)
LEMMA InTurnStep ==
  ASSUME TypeInv, InTurn, [Next]_vars, ~raced'
  PROVE  InTurn'
<1> USE DEF serverVars, chatVars
<1>1. /\ Len(feed) \in Nat /\ \A k \in 1..Len(feed) : feed[k].id \in 0..Len(log)
      /\ unrouted \subseteq 1..Len(log) /\ Len(log) \in Nat
  BY FeedIs DEF TypeInv, LogOK
<1>2. ASSUME UNCHANGED <<unrouted, feed>> PROVE InTurn'
  BY <1>2 DEF InTurn
<1>3. ASSUME unrouted' = unrouted \cup {Len(log')}, Len(log') = Len(log) + 1, feed' = feed
      PROVE  InTurn'
  BY <1>1, <1>3 DEF InTurn
<1>4. ASSUME feed # <<>>, feed' = Tail(feed), unrouted' = unrouted PROVE InTurn'
  <2>1. /\ Len(feed') = Len(feed) - 1
        /\ \A k \in 1..Len(feed') : feed'[k] = feed[k + 1] /\ k + 1 \in 1..Len(feed)
    BY <1>4, FeedShrinks
  <2>2. \A k \in 1..Len(feed'), i \in unrouted' : feed'[k].id <= i
    BY <1>4, <2>1 DEF InTurn
  <2>3. ASSUME NEW k \in 1..Len(feed'), NEW l \in 1..Len(feed'), k < l, feed'[l].id # 0
        PROVE  feed'[k].id <= feed'[l].id
    <3>1. k + 1 < l + 1
      BY <1>1, <2>1, <2>3
    <3>2. QED
      BY <2>1, <2>3, <3>1 DEF InTurn
  <2>4. QED
    BY <2>2, <2>3 DEF InTurn
<1>5. ASSUME NEW t \in Threads, NEW h \in BOOLEAN, Open(t, h) PROVE InTurn'
  BY <1>2, <1>5 DEF Open
<1>6. ASSUME Leave \/ FirstConnect \/ FirstConnectFails PROVE InTurn'
  BY <1>2, <1>6 DEF Leave, FirstConnect, FirstConnectFails
<1>7. ASSUME NEW r \in mail, TakeHistory(r) \/ TakeError(r) \/ TakeClient(r) PROVE InTurn'
  BY <1>2, <1>7 DEF TakeHistory, TakeError, TakeClient
<1>8. ASSUME NEW q \in asked, ServeHistory(q) \/ HistoryFails(q) PROVE InTurn'
  BY <1>2, <1>8 DEF ServeHistory, HistoryFails
<1>9. ASSUME UNCHANGED vars PROVE InTurn'
  BY <1>2, <1>9 DEF vars
<1>10. ASSUME SendMessage PROVE InTurn'
  <2>1. log' = Append(log, view) /\ unrouted' = unrouted \cup {Len(log')} /\ feed' = feed
    BY <1>10 DEF SendMessage
  <2>2. Len(log') = Len(log) + 1
    BY <2>1 DEF TypeInv, LogOK
  <2>3. QED
    BY <1>3, <2>1, <2>2
<1>11. ASSUME NEW t \in Threads, Store(t) PROVE InTurn'
  <2>1. log' = Append(log, t) /\ unrouted' = unrouted \cup {Len(log')} /\ feed' = feed
    BY <1>11 DEF Store
  <2>2. Len(log') = Len(log) + 1
    BY <2>1 DEF TypeInv, LogOK
  <2>3. QED
    BY <1>3, <2>1, <2>2
<1>12. ASSUME TakeIncoming \/ TakeNotice PROVE InTurn'
  <2>1. feed # <<>> /\ feed' = Tail(feed) /\ unrouted' = unrouted
    BY <1>12 DEF TakeIncoming, TakeNotice
  <2>2. QED
    BY <1>4, <2>1
<1>13. ASSUME NEW i \in unrouted, Route(i) PROVE InTurn'
  <2>1. unrouted' = unrouted \ {i} /\ \A j \in unrouted : ~(j < i)
    BY <1>13 DEF Route
  <2>2. \A j \in unrouted : i <= j /\ j \in Nat
    BY <1>1, <2>1
  <2>3. CASE conn = "on"
    <3>1. feed' = Append(feed, Incoming(i)) /\ Incoming(i) \in Item /\ Incoming(i).id = i
      BY <1>13, <2>3 DEF Route, Incoming, Item, TypeInv, LogOK
    <3>2. /\ Len(feed') = Len(feed) + 1 /\ feed'[Len(feed) + 1].id = i
          /\ \A k \in 1..Len(feed) : feed'[k] = feed[k]
          /\ \A k \in 1..Len(feed') : k \in 1..Len(feed) \/ k = Len(feed) + 1
      BY <3>1, FeedGrows
    <3>3. \A k \in 1..Len(feed'), j \in unrouted' : feed'[k].id <= j
      BY <2>1, <2>2, <3>2 DEF InTurn
    <3>4. ASSUME NEW k \in 1..Len(feed'), NEW l \in 1..Len(feed'), k < l, feed'[l].id # 0
          PROVE  feed'[k].id <= feed'[l].id
      <4>1. k \in 1..Len(feed)
        BY <1>1, <3>2, <3>4
      <4>2. QED
        BY <3>2, <3>4, <4>1 DEF InTurn
    <3>5. QED
      BY <3>3, <3>4 DEF InTurn
  <2>4. CASE conn # "on"
    <3>1. feed' = feed
      BY <1>13, <2>4 DEF Route
    <3>2. QED
      BY <2>1, <3>1 DEF InTurn
  <2>5. QED
    BY <2>3, <2>4
<1>14. ASSUME Reconnect PROVE InTurn'
  <2>1. /\ feed' = Append(feed, Notice("connected")) /\ unrouted' = unrouted
        /\ Notice("connected") \in Item /\ Notice("connected").id = 0
    BY <1>14 DEF Reconnect, Notice, Item
  <2>2. /\ Len(feed') = Len(feed) + 1 /\ feed'[Len(feed) + 1].id = 0
        /\ \A k \in 1..Len(feed) : feed'[k] = feed[k]
        /\ \A k \in 1..Len(feed') : k \in 1..Len(feed) \/ k = Len(feed) + 1
    BY <2>1, FeedGrows
  <2>3. \A k \in 1..Len(feed'), j \in unrouted' : feed'[k].id <= j
    BY <1>1, <2>1, <2>2 DEF InTurn
  <2>4. ASSUME NEW k \in 1..Len(feed'), NEW l \in 1..Len(feed'), k < l, feed'[l].id # 0
        PROVE  feed'[k].id <= feed'[l].id
    <3>1. k \in 1..Len(feed) /\ l \in 1..Len(feed)
      BY <1>1, <2>2, <2>4
    <3>2. QED
      BY <2>2, <2>4, <3>1 DEF InTurn
  <2>5. QED
    BY <2>3, <2>4 DEF InTurn
<1>15. ASSUME NEW n \in 0..Len(feed), Disconnect(n) PROVE InTurn'
  <2>1. /\ n \in Nat /\ Len(feed') = n + 2
        /\ \A j \in 1..n : feed'[j] = feed[j] /\ j \in 1..Len(feed)
        /\ feed'[n + 1].id = 0 /\ feed'[n + 2].id = 0
    BY <1>15, FeedIsCut
  <2>2. unrouted' = unrouted
    BY <1>15 DEF Disconnect
  <2>3. \A k \in 1..Len(feed') : k \in 1..n \/ k = n + 1 \/ k = n + 2
    BY <2>1
  <2>4. \A k \in 1..Len(feed'), j \in unrouted' : feed'[k].id <= j
    <3>1. ASSUME NEW k \in 1..Len(feed'), NEW j \in unrouted PROVE feed'[k].id <= j
      <4>1. CASE k \in 1..n
        BY <2>1, <4>1 DEF InTurn
      <4>2. CASE feed'[k].id = 0
        BY <1>1, <4>2
      <4>3. QED
        BY <2>1, <2>3, <4>1, <4>2
    <3>2. QED
      BY <2>2, <3>1
  <2>5. ASSUME NEW k \in 1..Len(feed'), NEW l \in 1..Len(feed'), k < l, feed'[l].id # 0
        PROVE  feed'[k].id <= feed'[l].id
    <3>1. l \in 1..n
      BY <2>1, <2>3, <2>5
    <3>2. k \in 1..n
      BY <2>1, <2>5, <3>1
    <3>3. QED
      BY <2>1, <2>5, <3>1, <3>2 DEF InTurn
  <2>6. QED
    BY <2>4, <2>5 DEF InTurn
<1>16. QED
  BY <1>5, <1>6, <1>7, <1>8, <1>9, <1>10, <1>11, <1>12, <1>13, <1>14, <1>15 DEF Next

----------------------------------------------------------------------------
(* The order *)

LEMMA ShownType ==
  ASSUME TypeInv
  PROVE  /\ shown \in Seq(Entry(Len(log))) /\ Len(shown) \in Nat /\ DOMAIN shown = 1..Len(shown)
         /\ \A k \in 1..Len(shown) : shown[k].id \in 1..Len(log)
         /\ Pending \in SUBSET (1..Len(log)) /\ Len(log) \in Nat
<1>1. shown \in Seq(Entry(Len(log))) /\ Len(shown) \in Nat /\ DOMAIN shown = 1..Len(shown)
  BY DEF TypeInv, ChatOK
<1>2. \A k \in 1..Len(shown) : shown[k] \in Entry(Len(log))
  BY <1>1
<1>3. \A k \in 1..Len(shown) : shown[k].id \in 1..Len(log)
  BY <1>2 DEF Entry
<1>4. Pending \in SUBSET (1..Len(log)) /\ Len(log) \in Nat
  BY FeedIs DEF TypeInv, LogOK, Pending
<1>5. QED
  BY <1>1, <1>3, <1>4

LEMMA AwaitedIs == Awaited = asked \cup Histories
BY DEF Awaited, Histories

(* What is to come later: less, or a message that is newer than all. *)
LEMMA ComingMoves ==
  ASSUME TypeInv, [Next]_vars, view' = view
  PROVE  \A i \in Coming' : i \in Coming \/ i = Len(log) + 1
<1>1. ASSUME NEW i \in Coming' PROVE i \in Coming \/ i = Len(log) + 1
  <2>1. i \in Pending' /\ log'[i] = view
    BY DEF Coming
  <2>2. i \in Pending \/ i = Len(log) + 1
    BY <2>1, PendingMoves
  <2>3. i \in Pending => i \in 1..Len(log) /\ log'[i] = log[i]
    BY LogGrows, ShownType
  <2>4. QED
    BY <2>1, <2>2, <2>3 DEF Coming
<1>2. QED
  BY <1>1

(* Steps that neither show anything nor answer a request. *)
LEMMA QuietOrder ==
  ASSUME TypeInv, [Next]_vars, OnlyOurs, ShownFirst, HistoryFirst, ShownRises,
         UNCHANGED <<view, opens, shown>>, asked' \subseteq asked, Histories' \subseteq Histories
  PROVE  OnlyOurs' /\ ShownFirst' /\ HistoryFirst' /\ ShownRises'
<1>1. /\ \A k \in 1..Len(shown) : shown[k].id \in 1..Len(log) /\ log'[shown[k].id] = log[shown[k].id]
      /\ Len(log) \in Nat
  BY ShownType, LogGrows
<1>2. \A i \in Coming' : i \in Coming \/ i = Len(log) + 1
  BY ComingMoves
<1>3. OnlyOurs'
  BY DEF OnlyOurs, IsOurs
<1>4. ShownFirst'
  BY <1>1, <1>2 DEF ShownFirst
<1>5. HistoryFirst'
  <2>1. ASSUME NEW h \in Histories, NEW k \in 1..Len(h.ids) PROVE h.ids[k] \in 1..Len(log)
    BY HistoriesType, OfIsFinite DEF TypeInv, LogOK
  <2>2. QED
    BY <1>1, <1>2, <2>1 DEF HistoryFirst
<1>6. ShownRises'
  BY <1>1 DEF ShownRises
<1>7. QED
  BY <1>3, <1>4, <1>5, <1>6

(* Only a chat that is opened or left forgets that something raced. *)
LEMMA RacedStays ==
  ASSUME [Next]_vars, raced
  PROVE  raced' \/ Leave \/ \E t \in Threads, h \in BOOLEAN : Open(t, h)
<1>2. ASSUME SendMessage \/ TakeNotice \/ FirstConnect \/ FirstConnectFails \/ Reconnect
      PROVE  raced'
  BY <1>2 DEF SendMessage, TakeNotice, FirstConnect, FirstConnectFails, Reconnect
<1>3. ASSUME NEW r \in mail, TakeHistory(r) \/ TakeError(r) \/ TakeClient(r) PROVE raced'
  BY <1>3 DEF TakeHistory, TakeError, TakeClient
<1>4. ASSUME NEW t \in Threads, Store(t) PROVE raced'
  BY <1>4 DEF Store
<1>5. ASSUME NEW i \in unrouted, Route(i) PROVE raced'
  BY <1>5 DEF Route
<1>6. ASSUME NEW q \in asked, ServeHistory(q) \/ HistoryFails(q) PROVE raced'
  BY <1>6 DEF ServeHistory, HistoryFails
<1>7. ASSUME NEW k \in 0..Len(feed), Disconnect(k) PROVE raced'
  BY <1>7 DEF Disconnect
<1>8. ASSUME TakeIncoming PROVE raced'
  BY <1>8 DEF TakeIncoming
<1>9. ASSUME UNCHANGED vars PROVE raced'
  BY <1>9 DEF vars
<1>10. QED
  BY <1>2, <1>3, <1>4, <1>5, <1>6, <1>7, <1>8, <1>9 DEF Next

LEMMA OrderStep ==
  ASSUME TypeInv, NumbersOnce, OrderInv, [Next]_vars
  PROVE  OrderInv'
<1> DEFINE Parts == OnlyOurs /\ ShownFirst /\ HistoryFirst /\ ShownRises
<1>1. SUFFICES ASSUME Clean' PROVE InTurn' /\ Parts'
  BY DEF OrderInv
<1>2. ASSUME NEW t \in Threads, NEW h \in BOOLEAN, Open(t, h) PROVE InTurn' /\ Parts'
  <2> DEFINE new == [n |-> opens + 1, thread |-> t]
  <2>1. /\ asked' = asked \/ asked' = asked \cup {new}
        /\ overlap' = (\E r \in Awaited : SameKind(r.thread, t)) /\ raced' = Overtaken
        /\ shown' = <<>> /\ opens' = opens + 1 /\ view' = t
        /\ UNCHANGED <<unrouted, feed>> /\ Histories' = Histories
        /\ new.thread = t /\ new.n = opens + 1
    BY <1>2 DEF Open, serverVars, Histories
  <2>2. InTurn'
    <3>1. InTurn
      BY <1>1, <2>1, InTurnIs DEF Clean
    <3>2. QED
      BY <2>1, <3>1 DEF InTurn
  <2>3. \A r \in asked \cup Histories : ~SameKind(r.thread, t)
    BY <1>1, <2>1, AwaitedIs DEF Clean
  <2> HIDE DEF new
  <2>4. OnlyOurs'
    BY <2>1, <2>3 DEF OnlyOurs, IsOurs
  <2>5. HistoryFirst'
    BY <2>1, <2>3 DEF HistoryFirst
  <2>6. ShownFirst' /\ ShownRises'
    BY <2>1 DEF ShownFirst, ShownRises
  <2>7. QED
    BY <2>2, <2>4, <2>5, <2>6
<1>3. CASE Leave
  BY <1>1, <1>3 DEF Leave, Clean
<1>4. ASSUME view' = view, overlap' = overlap, raced => raced'
      PROVE  InTurn /\ Parts /\ InTurn' /\ view # None /\ ~raced'
  <2>1. Clean /\ ~raced'
    BY <1>1, <1>4 DEF Clean
  <2>2. InTurn /\ Parts /\ view # None
    BY <2>1 DEF OrderInv, Clean
  <2>3. QED
    BY <2>1, <2>2, InTurnStep
<1>5. ASSUME NEW r \in Histories, TakeHistory(r) PROVE InTurn' /\ Parts'
  <2>1. /\ UNCHANGED <<asked, log, unrouted, feed, view, opens, overlap, raced>>
        /\ Histories' = Histories \ {r}
    BY <1>5, MailChanges DEF TakeHistory, serverVars
  <2>2. InTurn /\ Parts /\ InTurn' /\ view # None
    BY <1>4, <2>1
  <2>3. CASE SameKind(r.thread, view)
    <3>1. r.n = opens /\ r.thread = view /\ shown = <<>>
      BY <2>2, <2>3 DEF OnlyOurs, IsOurs
    <3>2. \A s \in asked \cup Histories' : ~SameKind(s.thread, view)
      <4>1. \A s \in asked \cup Histories : SameKind(s.thread, view) => s.n = r.n
        BY <2>2, <3>1 DEF OnlyOurs, IsOurs
      <4>2. QED
        BY <2>1, <4>1 DEF NumbersOnce
    <3>3. OnlyOurs' /\ HistoryFirst'
      BY <2>1, <3>2 DEF OnlyOurs, HistoryFirst
    <3>4. /\ Len(shown') = Len(r.ids)
          /\ \A k \in 1..Len(r.ids) : shown'[k].id = r.ids[k]
      <4>1. /\ Len(shown) = 0 /\ Len(r.ids) \in Nat /\ Len(shown') = Len(shown) + Len(r.ids)
            /\ \A k \in 1..Len(r.ids) : shown'[Len(shown) + k] = [id |-> r.ids[k], how |-> "history"]
        BY <1>5, <2>2, <2>3, <3>1, HistoryAdds
      <4>2. ASSUME NEW k \in 1..Len(r.ids) PROVE shown'[k].id = r.ids[k]
        <5>1. Len(shown) + k = k
          BY <4>1
        <5>2. shown'[k] = [id |-> r.ids[k], how |-> "history"]
          BY <4>1, <5>1
        <5>3. QED
          BY <5>2
      <4>3. QED
        BY <4>1, <4>2
    <3>5. \A i \in Coming' : i \in Coming
      BY <2>1 DEF Coming, Pending, InFeed
    <3>6. ShownFirst'
      BY <2>2, <2>3, <3>4, <3>5 DEF ShownFirst, HistoryFirst
    <3>7. Rises(r.ids) /\ DOMAIN r.ids = 1..Len(r.ids)
      BY HistoriesType DEF TypeInv
    <3>8. ShownRises'
      BY <3>4, <3>7 DEF ShownRises, Rises
    <3>9. QED
      BY <2>2, <3>3, <3>6, <3>8
  <2>4. CASE ~SameKind(r.thread, view)
    <3>1. shown' = shown
      BY <1>5, <2>4 DEF TakeHistory
    <3>2. QED
      BY <2>1, <2>2, <3>1, QuietOrder
  <2>5. QED
    BY <2>3, <2>4
<1>6. ASSUME NEW q \in asked, ServeHistory(q), Histories' = Histories \cup {Answer(q)}
      PROVE  InTurn' /\ Parts'
  <2>1. /\ asked' = asked \ {q} /\ UNCHANGED <<log, unrouted, feed, view, opens, overlap, shown>>
        /\ raced' = (raced \/ (unrouted \cup InFeed) \cap Of(q.thread) # {})
        /\ Answer(q).thread = q.thread /\ Answer(q).n = q.n
    BY <1>6 DEF ServeHistory, Answer, serverVars, chatVars
  <2>2. InTurn /\ Parts /\ InTurn' /\ view # None /\ ~raced'
    BY <1>4, <2>1
  <2>3. OnlyOurs'
    BY <1>6, <2>1, <2>2 DEF OnlyOurs, IsOurs
  <2>4. ShownFirst' /\ ShownRises'
    BY <2>1, <2>2 DEF ShownFirst, ShownRises, Coming, Pending, InFeed
  <2>5. HistoryFirst'
    <3>1. Coming' = Coming
      BY <2>1 DEF Coming, Pending, InFeed
    <3>2. SameKind(q.thread, view) => Coming = {}
      <4>1. SameKind(q.thread, view) => q.thread = view
        BY <2>2 DEF OnlyOurs, IsOurs
      <4>2. Pending \cap Of(q.thread) = {}
        BY <2>1, <2>2 DEF Pending
      <4>3. \A i \in Coming : i \in Pending /\ i \in Of(view)
        BY ShownType DEF Coming, Of, Messages, TypeInv, LogOK
      <4>4. QED
        BY <4>1, <4>2, <4>3
    <3>3. QED
      BY <1>6, <2>1, <2>2, <3>1, <3>2 DEF HistoryFirst
  <2>6. QED
    BY <2>2, <2>3, <2>4, <2>5
<1>7. ASSUME NEW q \in asked, HistoryFails(q), Histories' = Histories PROVE InTurn' /\ Parts'
  <2>1. asked' \subseteq asked /\ UNCHANGED <<view, opens, overlap, raced, shown>>
    BY <1>7 DEF HistoryFails
  <2>2. InTurn /\ Parts /\ InTurn'
    BY <1>4, <2>1
  <2>3. QED
    BY <1>7, <2>1, <2>2, QuietOrder
<1>8. CASE TakeIncoming
  <2>1. /\ UNCHANGED <<log, unrouted, asked, mail, view, opens, overlap>>
        /\ raced => raced'
    BY <1>8 DEF TakeIncoming, serverVars
  <2>2. InTurn /\ Parts /\ InTurn' /\ view # None /\ ~raced'
    BY <1>4, <2>1
  <2>3. Histories' = Histories
    BY <2>1 DEF Histories
  <2>4. CASE Shows(Head(feed).id)
    <3> DEFINE i == Head(feed).id
    <3>1. /\ Len(shown') = Len(shown) + 1 /\ shown'[Len(shown) + 1].id = i
          /\ \A k \in 1..Len(shown) : shown'[k] = shown[k]
          /\ i \in 1..Len(log)
      BY <1>8, <2>2, <2>4, IncomingAdds
    <3>2. \A r \in asked \cup Histories : ~SameKind(r.thread, view)
      BY <1>8, <2>2, <2>4, IncomingAdds, AwaitedIs
    <3>3. OnlyOurs' /\ HistoryFirst'
      BY <2>1, <2>3, <3>2 DEF OnlyOurs, HistoryFirst
    <3>4. /\ Len(feed) \in Nat \ {0} /\ i = feed[1] .id
          /\ Len(feed') = Len(feed) - 1 /\ i # 0
          /\ \A k \in 1..Len(feed') : feed'[k] = feed[k + 1] /\ k + 1 \in 1..Len(feed)
      BY <1>8, <3>1, IncomingAdds
    <3>5. i \in InFeed /\ i \notin unrouted
      BY <3>4, FeedIs DEF TypeInv
    <3>6. i \notin InFeed'
      <4>1. DOMAIN feed' = 1..Len(feed')
        BY <1>8, IncomingAdds, HeadAndTail DEF TypeInv, FeedOK, TakeIncoming
      <4>2. \A k \in 1..Len(feed') : feed'[k].id # i
        BY <3>4 DEF TypeInv, FeedOK
      <4>3. QED
        BY <4>1, <4>2 DEF InFeed
    <3>7. \A j \in Coming' : j \in Coming /\ j # i
      <4>1. InFeed = InFeed' \cup ({i} \ {0})
        BY <1>8, FeedShrinks DEF TakeIncoming
      <4>2. QED
        BY <2>1, <3>5, <3>6, <4>1 DEF Coming, Pending
    <3>8. \A j \in Coming : i <= j
      <4>1. ASSUME NEW j \in InFeed PROVE i <= j
        <5>1. PICK l \in 1..Len(feed) : feed[l].id = j
          BY FeedIs DEF TypeInv
        <5>2. j # 0 /\ j \in Nat
          BY FeedIs DEF TypeInv
        <5>3. CASE l = 1
          BY <3>1, <3>4, <5>1, <5>2, <5>3
        <5>4. CASE l # 1
          <6>1. 1 \in 1..Len(feed) /\ 1 < l
            BY <3>4, <5>4
          <6>2. QED
            BY <2>2, <3>4, <5>1, <5>2, <6>1 DEF InTurn
        <5>5. QED
          BY <5>3, <5>4
      <4>2. ASSUME NEW j \in unrouted PROVE i <= j
        BY <2>2, <3>4 DEF InTurn
      <4>3. QED
        BY <4>1, <4>2 DEF Coming, Pending
    <3>9. log[i] = view => i \in Coming
      BY <3>5 DEF Coming, Pending
    <3>10. /\ \A k \in 1..Len(shown') : k \in 1..Len(shown) \/ k = Len(shown) + 1
           /\ Len(shown) \in Nat /\ Coming \subseteq Nat
           /\ \A k \in 1..Len(shown) : shown[k].id \in Nat
      BY <3>1, ShownType DEF Coming
    <3> HIDE DEF i
    <3>11. ShownFirst'
      <4>1. ASSUME NEW k \in 1..Len(shown'), log[shown'[k].id] = view, NEW j \in Coming'
            PROVE  shown'[k].id < j
        <5>1. CASE k \in 1..Len(shown)
          BY <2>2, <3>1, <3>7, <4>1, <5>1 DEF ShownFirst
        <5>2. CASE k = Len(shown) + 1
          <6>1. j \in Coming /\ j # i
            BY <3>7
          <6>2. i <= j /\ j \in Nat /\ i \in Nat
            BY <3>1, <3>8, <3>10, <6>1, ShownType
          <6>3. QED
            BY <3>1, <5>2, <6>1, <6>2
        <5>3. QED
          BY <3>10, <5>1, <5>2
      <4>2. QED
        BY <2>1, <4>1 DEF ShownFirst
    <3>12. ShownRises'
      <4>1. ASSUME NEW k \in 1..Len(shown'), NEW l \in 1..Len(shown'), k < l,
                   log[shown'[k].id] = view, log[shown'[l].id] = view
            PROVE  shown'[k].id < shown'[l].id
        <5>1. k \in 1..Len(shown)
          BY <3>1, <3>10, <4>1
        <5>2. CASE l \in 1..Len(shown)
          BY <2>2, <3>1, <4>1, <5>1, <5>2 DEF ShownRises
        <5>3. CASE l = Len(shown) + 1
          BY <2>2, <3>1, <3>9, <4>1, <5>1, <5>3 DEF ShownFirst
        <5>4. QED
          BY <3>10, <5>2, <5>3
      <4>2. QED
        BY <2>1, <4>1 DEF ShownRises
    <3>13. QED
      BY <2>2, <3>3, <3>11, <3>12
  <2>5. CASE ~Shows(Head(feed).id)
    <3>1. shown' = shown
      BY <1>8, <2>5, IncomingAdds
    <3>2. QED
      BY <2>1, <2>2, <2>3, <3>1, QuietOrder
  <2>6. QED
    BY <2>4, <2>5
<1>9. ASSUME UNCHANGED <<view, shown, overlap>>,
             UNCHANGED <<asked, Histories, opens, view, loading, failed, overlap, openedAt>>,
             raced => raced'
      PROVE  InTurn' /\ Parts'
  <2>1. InTurn /\ Parts /\ InTurn'
    BY <1>4, <1>9
  <2>2. QED
    BY <1>9, <2>1, QuietOrder
<1>10. QED
  BY <1>2, <1>3, <1>5, <1>6, <1>7, <1>8, <1>9, RequestSteps, ScreenSteps, RacedStays

----------------------------------------------------------------------------
(* Every message *)

LEMMA NewerGrows ==
  ASSUME TypeInv, [Next]_vars, NEW t, NEW i
  PROVE  Cardinality(Newer(t, i)) >= HistoryCap => Cardinality(Newer(t, i))' >= HistoryCap
<1>1. log' \in Seq(Threads)
  BY TypeInvStep DEF TypeInv, LogOK
<1>2. Of(t) \subseteq Of(t)' /\ Newer(t, i) \subseteq Newer(t, i)'
  BY LogGrows DEF Newer
<1>3. IsFiniteSet(Of(t)')
  <2>1. Of(t)' \subseteq 1..Len(log') /\ Len(log') \in Nat
    BY <1>1 DEF Of, Messages
  <2>2. IsFiniteSet(1..Len(log'))
    BY <2>1, FS_Interval
  <2>3. QED
    BY <2>1, <2>2, FS_Subset
<1>4. Newer(t, i)' \subseteq Of(t)'
  BY DEF Newer
<1>5. IsFiniteSet(Newer(t, i)') /\ IsFiniteSet(Newer(t, i))
  BY <1>2, <1>3, <1>4, FS_Subset
<1>6. Cardinality(Newer(t, i)) <= Cardinality(Newer(t, i)')
  BY <1>2, <1>5, FS_Subset
<1>7. /\ Cardinality(Newer(t, i)) \in Nat /\ Cardinality(Newer(t, i)') \in Nat
      /\ HistoryCap \in Nat
  BY <1>5, FS_CardinalityType, TranscriptAssumption
<1>8. QED
  BY <1>6, <1>7

(* What a chat shows stays until it is left. *)
LEMMA ShownStays ==
  ASSUME TypeInv, [Next]_vars
  PROVE  ShownIds \subseteq ShownIds' \/ Leave \/ \E t \in Threads, h \in BOOLEAN : Open(t, h)
<1>1. DOMAIN shown = 1..Len(shown)
  BY ShownType
<1>2. ASSUME UNCHANGED shown PROVE ShownIds \subseteq ShownIds'
  BY <1>2 DEF ShownIds
<1>3. ASSUME shown' \in Seq(Entry(Len(log))), Len(shown) \in Nat, Len(shown') \in Nat,
             Len(shown) <= Len(shown'), \A k \in 1..Len(shown) : shown'[k] = shown[k]
      PROVE  ShownIds \subseteq ShownIds'
  <2>1. DOMAIN shown' = 1..Len(shown')
    BY <1>3
  <2>2. \A k \in 1..Len(shown) : k \in 1..Len(shown')
    BY <1>3
  <2>3. QED
    BY <1>1, <1>3, <2>1, <2>2 DEF ShownIds
<1>4. ASSUME NEW r \in Histories, TakeHistory(r) PROVE ShownIds \subseteq ShownIds'
  <2>1. CASE view # None /\ SameKind(r.thread, view)
    <3>1. /\ shown' \in Seq(Entry(Len(log))) /\ Len(shown) \in Nat /\ Len(r.ids) \in Nat
          /\ Len(shown') = Len(shown) + Len(r.ids)
          /\ \A k \in 1..Len(shown) : shown'[k] = shown[k]
      BY <1>4, <2>1, HistoryAdds
    <3>2. Len(shown') \in Nat /\ Len(shown) <= Len(shown')
      BY <3>1
    <3>3. QED
      BY <1>3, <3>1, <3>2
  <2>2. CASE ~(view # None /\ SameKind(r.thread, view))
    BY <1>2, <1>4, <2>2 DEF TakeHistory
  <2>3. QED
    BY <2>1, <2>2
<1>5. ASSUME TakeIncoming PROVE ShownIds \subseteq ShownIds'
  <2>1. CASE view # None /\ Shows(Head(feed).id)
    <3>1. /\ shown' \in Seq(Entry(Len(log))) /\ Len(shown) \in Nat
          /\ Len(shown') = Len(shown) + 1
          /\ \A k \in 1..Len(shown) : shown'[k] = shown[k]
      BY <1>5, <2>1, IncomingAdds
    <3>2. Len(shown') \in Nat /\ Len(shown) <= Len(shown')
      BY <3>1
    <3>3. QED
      BY <1>3, <3>1, <3>2
  <2>2. CASE ~(view # None /\ Shows(Head(feed).id))
    BY <1>2, <1>5, <2>2, IncomingAdds
  <2>3. QED
    BY <2>1, <2>2
<1>6. QED
  BY <1>2, <1>4, <1>5, ScreenSteps

LEMMA MissingStep ==
  ASSUME TypeInv, MissingInv, [Next]_vars
  PROVE  MissingInv'
<1>1. ASSUME NEW t \in Threads, NEW h \in BOOLEAN, Open(t, h) PROVE MissingInv'
  <2>1. /\ openedAt' = Len(log) /\ log' = log /\ view' = t /\ opens' = opens + 1
        /\ h => [n |-> opens + 1, thread |-> t] \in asked'
        /\ ~h => failed'
    BY <1>1 DEF Open, serverVars
  <2>2. \A i \in Of(view)' : i <= openedAt'
    BY <2>1 DEF TypeInv, LogOK, Of, Messages
  <2>3. failed' \/ \E q \in asked' : IsOurs(q)'
    <3>1. CASE h
      BY <2>1, <3>1 DEF IsOurs
    <3>2. CASE ~h
      BY <2>1, <3>2
    <3>3. QED
      BY <3>1, <3>2
  <2>4. QED
    BY <2>2, <2>3 DEF MissingInv, Accounted
<1>2. CASE Leave
  BY <1>2 DEF Leave, MissingInv
<1>3. ASSUME ~Leave, \A t \in Threads, h \in BOOLEAN : ~Open(t, h) PROVE MissingInv'
  <2>1. /\ view' = view /\ opens' = opens /\ openedAt' = openedAt
        /\ failed => failed'
    <3>1. ASSUME UNCHANGED <<asked, Histories, opens, view, loading, failed, overlap, openedAt>>
          PROVE  /\ view' = view /\ opens' = opens /\ openedAt' = openedAt
                 /\ failed => failed'
      BY <3>1
    <3>2. ASSUME NEW r, TakeHistory(r) \/ ServeHistory(r) \/ HistoryFails(r)
          PROVE  /\ view' = view /\ opens' = opens /\ openedAt' = openedAt
                 /\ failed => failed'
      <4>1. CASE TakeHistory(r)
        BY <4>1 DEF TakeHistory
      <4>2. CASE ServeHistory(r)
        BY <4>2 DEF ServeHistory, chatVars
      <4>3. CASE HistoryFails(r)
        BY <4>3 DEF HistoryFails
      <4>4. QED
        BY <3>2, <4>1, <4>2, <4>3
    <3>3. QED
      BY <1>3, <3>1, <3>2, RequestSteps
  <2>2. SUFFICES ASSUME view # None, NEW i \in Of(view)' PROVE Accounted(i)'
    BY <2>1 DEF MissingInv
  <2>3. i \in Of(view) \/ i \in Pending'
    <3>1. i \in 1..Len(log') /\ log'[i] = view
      <4>1. log' \in Seq(Threads)
        BY TypeInvStep DEF TypeInv, LogOK
      <4>2. QED
        BY <2>1, <4>1 DEF Of, Messages
    <3>2. Len(log) \in Nat /\ (i \in 1..Len(log) \/ i \in Pending')
      BY <3>1, PendingMoves, LogGrows
    <3>3. i \in 1..Len(log) => log[i] = view
      BY <3>1, LogGrows
    <3>4. DOMAIN log = 1..Len(log)
      BY DEF TypeInv, LogOK
    <3>5. QED
      BY <3>2, <3>3, <3>4 DEF Of, Messages
  <2>4. CASE i \in Pending'
    BY <2>4 DEF Accounted
  <2>5. CASE i \in Of(view)
    <3>1. Accounted(i) /\ log[i] = view /\ view \in Threads /\ i \in 1..Len(log)
      BY <2>2, <2>5 DEF MissingInv, Of, Messages, TypeInv, ChatOK, LogOK
    <3>2. CASE i \in ShownIds
      BY <1>3, <3>2, ShownStays DEF Accounted
    <3>3. CASE i \in lost
      BY <3>3, PendingMoves DEF Accounted
    <3>4. CASE i \in Pending
      <4>1. CASE i \in Pending' \cup lost'
        BY <4>1 DEF Accounted
      <4>2. ASSUME TakeIncoming, i = Head(feed).id PROVE i \in ShownIds'
        <5>1. Shows(i)
          BY <3>1 DEF Shows, Threads
        <5>2. /\ shown' \in Seq(Entry(Len(log))) /\ Len(shown') = Len(shown) + 1 /\ Len(shown) \in Nat
              /\ shown'[Len(shown) + 1] = [id |-> i, how |-> "live"]
          BY <2>2, <4>2, <5>1, IncomingAdds
        <5>3. Len(shown) + 1 \in DOMAIN shown'
          BY <5>2
        <5>4. QED
          BY <5>2, <5>3 DEF ShownIds
      <4>3. QED
        BY <3>4, <4>1, <4>2, PendingMoves DEF Accounted
    <3>5. CASE i <= openedAt /\ failed
      BY <2>1, <3>5 DEF Accounted
    <3>6. CASE i <= openedAt /\ Cardinality(Newer(view, i)) >= HistoryCap
      <4>1. Cardinality(Newer(view, i))' >= HistoryCap
        <5>1. \A t : Cardinality(Newer(t, i)) >= HistoryCap => Cardinality(Newer(t, i))' >= HistoryCap
          BY NewerGrows
        <5>2. QED
          BY <2>1, <3>6, <5>1
      <4>2. QED
        BY <2>1, <3>6, <4>1 DEF Accounted
    <3>7. ASSUME i <= openedAt, NEW q \in asked, IsOurs(q) PROVE Accounted(i)'
      <4>1. CASE q \in asked'
        BY <2>1, <3>7, <4>1 DEF Accounted, IsOurs
      <4>2. ASSUME NEW p \in asked, ServeHistory(p), Histories' = Histories \cup {Answer(p)}
            PROVE  Accounted(i)'
        <5>1. asked' = asked \ {p} /\ log' = log
          BY <4>2 DEF ServeHistory, serverVars
        <5>2. SUFFICES ASSUME p = q PROVE Accounted(i)'
          BY <4>1, <5>1
        <5>3. /\ Answer(q).n = opens /\ Answer(q).thread = view /\ Answer(q).ids = History(view)
          BY <3>7 DEF Answer, IsOurs
        <5>4. \/ \E k \in 1..Len(History(view)) : History(view)[k] = i
              \/ Cardinality(Newer(view, i)) >= HistoryCap
          BY <2>5, HistoryLists DEF TypeInv, LogOK
        <5>5. CASE \E k \in 1..Len(History(view)) : History(view)[k] = i
          <6>1. PICK a : a = Answer(q)
            OBVIOUS
          <6>2. a \in Histories' /\ a.n = opens' /\ a.thread = view'
            BY <2>1, <4>2, <5>2, <5>3, <6>1
          <6>3. \E k \in 1..Len(a.ids) : a.ids[k] = i
            BY <5>3, <5>5, <6>1
          <6>4. QED
            BY <2>1, <3>7, <6>2, <6>3 DEF Accounted, IsOurs
        <5>6. QED
          BY <3>6, <3>7, <5>4, <5>5
      <4>3. ASSUME NEW p \in asked, HistoryFails(p) PROVE Accounted(i)'
        <5>1. asked' = asked \ {p} /\ failed' = (failed \/ (view # None /\ p.n = opens))
          BY <4>3 DEF HistoryFails
        <5>2. p = q => failed'
          BY <2>2, <3>7, <5>1 DEF IsOurs
        <5>3. QED
          BY <2>1, <3>7, <4>1, <5>1, <5>2 DEF Accounted
      <4>4. ASSUME NEW r, TakeHistory(r) PROVE asked' = asked
        BY <4>4 DEF TakeHistory
      <4>5. QED
        BY <1>3, <4>1, <4>2, <4>3, <4>4, RequestSteps
    <3>8. ASSUME i <= openedAt, NEW g \in Histories, IsOurs(g), \E k \in 1..Len(g.ids) : g.ids[k] = i
          PROVE Accounted(i)'
      <4>1. CASE g \in Histories'
        BY <2>1, <3>8, <4>1 DEF Accounted, IsOurs
      <4>2. ASSUME NEW r \in Histories, TakeHistory(r), Histories' = Histories \ {r}
            PROVE  Accounted(i)'
        <5>1. SUFFICES ASSUME r = g PROVE i \in ShownIds'
          BY <4>1, <4>2 DEF Accounted
        <5>2. SameKind(g.thread, view)
          BY <3>1, <3>8 DEF IsOurs, SameKind, Threads
        <5>3. PICK k \in 1..Len(g.ids) : g.ids[k] = i
          BY <3>8
        <5>4. /\ shown' \in Seq(Entry(Len(log))) /\ Len(shown') = Len(shown) + Len(g.ids)
              /\ Len(shown) \in Nat /\ Len(g.ids) \in Nat
              /\ shown'[Len(shown) + k] = [id |-> i, how |-> "history"]
          BY <2>2, <4>2, <5>1, <5>2, <5>3, HistoryAdds
        <5>5. Len(shown) + k \in DOMAIN shown'
          BY <5>4
        <5>6. QED
          BY <5>4, <5>5 DEF ShownIds
      <4>3. QED
        BY <1>3, <4>1, <4>2, RequestSteps
    <3>9. QED
      BY <3>1, <3>2, <3>3, <3>4, <3>5, <3>6, <3>7, <3>8 DEF Accounted
  <2>6. QED
    BY <2>3, <2>4, <2>5
<1>4. QED
  BY <1>1, <1>2, <1>3

----------------------------------------------------------------------------
(* The theorems *)

IInv ==
  /\ TypeInv /\ CountOK /\ NumbersOnce /\ LoadingInv /\ StatusInv
  /\ ForeignInv /\ OrderInv /\ MissingInv

(* The invariant holds in every state.                                     *)
THEOREM Invariance == Spec => []IInv
<1>1. ASSUME Init PROVE IInv
  <2>1. LogOK /\ FeedOK /\ AskedOK /\ MailOK /\ ChatOK /\ FlagsOK
    <3>1. MaxMessages \in Nat
      BY TranscriptAssumption
    <3>2. LogOK /\ FeedOK /\ ChatOK /\ FlagsOK
      BY <1>1, <3>1 DEF Init, LogOK, FeedOK, ChatOK, FlagsOK
    <3>3. AskedOK /\ MailOK
      BY <1>1, FS_EmptySet DEF Init, AskedOK, MailOK
    <3>4. QED
      BY <3>2, <3>3
  <2>2. Histories = {}
    BY <1>1 DEF Init, Histories
  <2>3. CountOK /\ NumbersOnce
    BY <1>1, <2>2, FS_EmptySet DEF Init, CountOK, NumbersOnce
  <2>4. LoadingInv /\ ForeignInv /\ OrderInv /\ MissingInv
    BY <1>1 DEF Init, LoadingInv, ForeignInv, ForeignCause, AwaitedInv, OrderInv, Clean, MissingInv
  <2>5. StatusInv
    BY <1>1 DEF Init, StatusInv, FeedTells, StatusTrue, Indicator
  <2>6. QED
    BY <2>1, <2>3, <2>4, <2>5 DEF IInv, TypeInv
<1>2. ASSUME IInv, [Next]_vars PROVE IInv'
  BY <1>2, TypeInvStep, CountStep, NumbersStep, LoadingStep, StatusStep, ForeignStep, OrderStep,
     MissingStep DEF IInv
<1>3. QED
  BY <1>1, <1>2, PTL DEF Spec

(* Type correctness: among others, a message is in one place only, on its  *)
(* way or lost, and every chat has asked for one history.                  *)
THEOREM TypeCorrect == Spec => []TypeOK
<1>1. ASSUME IInv PROVE TypeOK
  <2>1. TypeInv /\ CountOK
    BY <1>1 DEF IInv
  <2>2. /\ log \in Seq(Threads) /\ Len(log) <= MaxMessages /\ Messages = 1..Len(log)
        /\ unrouted \subseteq Messages /\ lost \subseteq Messages /\ lost \cap unrouted = {}
    BY <2>1 DEF TypeInv, LogOK, Messages
  <2>3. unrouted \cap InFeed = {} /\ lost \subseteq Messages \ (unrouted \cup InFeed)
    BY <2>1, <2>2, FeedIs DEF TypeInv
  <2>4. \A i \in DOMAIN shown : shown[i].id \in Messages
    BY <2>1, <2>2, ShownType
  <2>5. Cardinality(asked) + Cardinality({r \in mail : r.is = "history"}) <= opens
    BY <2>1 DEF CountOK, Histories
  <2>6. /\ conn \in {"first", "on", "off", "never"} /\ (client => conn \in {"on", "off"})
        /\ view \in Threads \cup {None} /\ (view = None => shown = <<>> /\ ~loading)
        /\ (canSend => client) /\ status \in {"connecting", "live", "offline"}
    BY <2>1 DEF TypeInv, ChatOK, FlagsOK
  <2>7. QED
    BY <2>2, <2>3, <2>4, <2>5, <2>6 DEF TypeOK
<1>2. QED
  BY <1>1, Invariance, PTL

(* When nothing is under way, the open chat shows every message of its     *)
(* thread, but those the connection lost, those older than the history     *)
(* reaches, and those of a chat that has no history.                       *)
THEOREM Complete == Spec => []NothingMissing
<1>1. ASSUME IInv PROVE NothingMissing
  <2>1. SUFFICES ASSUME view # None, AtRest, NEW i \in Of(view) \ ShownIds
                 PROVE  \/ i \in lost
                        \/ /\ i <= openedAt
                           /\ failed \/ Cardinality({j \in Of(view) : j > i}) >= HistoryCap
    BY DEF NothingMissing
  <2>2. Accounted(i)
    BY <1>1, <2>1 DEF IInv, MissingInv
  <2>3. Pending = {} /\ asked = {} /\ Histories = {}
    BY <2>1 DEF AtRest, Pending, InFeed, Histories
  <2>4. QED
    BY <2>1, <2>2, <2>3 DEF Accounted, Newer
<1>2. QED
  BY <1>1, Invariance, PTL

(* A chat on the screen does not stay loading, unless its request failed.  *)
THEOREM Loads == Spec => []LoadingEnds
<1>1. ASSUME IInv PROVE LoadingEnds
  BY <1>1 DEF IInv, LoadingInv, LoadingEnds, AtRest, Histories
<1>2. QED
  BY <1>1, Invariance, PTL

(* Unless a history and a message of its thread crossed, or one message    *)
(* overtook another in the hub, a chat shows its thread in the order       *)
(* stored, and nothing twice.                                              *)
THEOREM Ordered == Spec => []InOrder
<1>1. ASSUME IInv PROVE InOrder
  <2>1. DOMAIN shown = 1..Len(shown)
    BY <1>1, ShownType DEF IInv
  <2>2. CASE view = None
    BY <1>1, <2>2 DEF IInv, TypeInv, ChatOK, InOrder
  <2>3. CASE view # None
    <3>1. ~raced /\ ~overlap => ShownRises
      BY <1>1, <2>3 DEF IInv, OrderInv, Clean
    <3>2. QED
      BY <2>1, <3>1 DEF InOrder, ShownRises
  <2>4. QED
    BY <2>2, <2>3
<1>2. QED
  BY <1>1, Invariance, PTL

(* What a chat shows of other threads came live from another room, or with *)
(* a history that an earlier chat had asked for.                           *)
THEOREM Foreign == Spec => []ForeignCause
<1>1. IInv => ForeignCause
  BY DEF IInv, ForeignInv
<1>2. QED
  BY <1>1, Invariance, PTL

(* When nothing is under way, the indicator tells how the connection is,   *)
(* unless something else changed it last.                                  *)
THEOREM Indicates == Spec => []StatusIsTrue
<1>1. ASSUME IInv PROVE StatusIsTrue
  <2>1. AtRest => NoNews
    BY DEF AtRest, NoNews
  <2>2. NoNews /\ ~misled => status = Indicator
    BY <1>1 DEF IInv, StatusInv, StatusTrue
  <2>3. QED
    BY <2>1, <2>2 DEF StatusIsTrue, Indicator
<1>2. QED
  BY <1>1, Invariance, PTL
=============================================================================
