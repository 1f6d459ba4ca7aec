--------------------------- MODULE TimedEvtProofs ---------------------------
(***************************************************************************)
(* The timed event manager's timer is never lost and its list assertions   *)
(* hold, for any number of threads, amounts, periods, delays and failures. *)
(*                                                                         *)
(* Both rest on the lists: a thread is in a list at most once, and exactly *)
(* when its flags or its call say so, so that the position of the timer's  *)
(* walk stays in the list it walks.  The timer thread sleeps without a     *)
(* timeout only when it has found both lists empty, and no client runs     *)
(* between that look and the timer's sleep.                                *)
(*                                                                         *)
(* No timeout is reported early, and every expiration of a period is       *)
(* accounted for: two more invariants on top of the lists'.                *)
(***************************************************************************)
EXTENDS TimedEvt, WellFoundedInduction, TLAPS

Args == Amounts \cup Periods \cup Threads \cup {0}
Pcs == Inside \cup {"idle", "redo", "fault"}
Evts == {"idle", "blocked", "triggered"}
Times == Int \cup {None}
Call == [pc : Pcs, op : Calls \cup {"none"}, arg : Args, amt : Nat, old : Times, lag : Int]
Te == [timed_out : BOOLEAN, blocked : BOOLEAN, evt : Evts]
Pte == [periodic : BOOLEAN, period : Nat, blocked : BOOLEAN, missed : BOOLEAN,
        completion : BOOLEAN, restart : Int, evt : Evts]

\* A list of thread events in which no thread occurs twice.
ListOK(l) ==
  /\ l \in Seq(Event(Threads))
  /\ \A i, j \in DOMAIN l : l[i].thd = l[j].thd => i = j

Desc == [st : {"none", "current", "behind"}, period : Nat]
Walk == [pc : {"stamp", "take", "walk", "arm", "block", "asleep"},
         list : {"events", "periodic"}, tmp : Threads \cup {None}, amt : Nat]

CallOK(c) ==
  /\ c \in Call
  /\ c.op = "block" => c.arg \in Amounts
  /\ c.op = "create" => c.arg \in Periods
  /\ c.op = "wakeup" => c.arg \in Threads

PteOK(p) ==
  /\ p \in Pte
  /\ p.missed => p.completion
  /\ p.blocked => ~p.missed

Types ==
  /\ ListOK(events) /\ ListOK(periodic)
  /\ te \in [Threads -> Te]
  /\ DOMAIN pte = Threads /\ \A t \in Threads : PteOK(pte[t])
  /\ DOMAIN th = Threads /\ \A t \in Threads : CallOK(th[t])
  /\ desc \in [Threads -> Desc]
  /\ timer \in Walk
  /\ age \in Int /\ wakeup_in \in Int

Sleeping == {"check", "arm", "wait", "sleep", "asleep"}

\* Who is in a list, and the timer's position in the one it walks.
Flags ==
  /\ \A t \in Threads :
       /\ InList(events, t) =>
            th[t].op = "block" /\ th[t].pc \in Sleeping /\ te[t].evt # "triggered"
       /\ InList(periodic, t) <=> pte[t].periodic
  /\ timer.pc = "walk" /\ timer.tmp # None => InList(List, timer.tmp)

Arms ==
  /\ ExpirationArmed
  /\ timer.pc = "block" => events = <<>> /\ periodic = <<>>

\* The inductive invariant.
TimedInv == Types /\ Flags /\ Arms /\ ListAssertionsHold

-----------------------------------------------------------------------------
(* The lists.                                                              *)

LEMMA ConcatFacts ==
  ASSUME NEW S, NEW a \in Seq(S), NEW b \in Seq(S)
  PROVE  /\ a \o b \in Seq(S) /\ Len(a \o b) = Len(a) + Len(b)
         /\ \A i \in 1..(Len(a) + Len(b)) :
              (a \o b)[i] = IF i <= Len(a) THEN a[i] ELSE b[i - Len(a)]
  OBVIOUS

LEMMA RemoveFacts ==
  ASSUME NEW S, NEW l \in Seq(S), NEW k \in 1..Len(l)
  PROVE  /\ Without(l, k) \in Seq(S)
         /\ Len(Without(l, k)) = Len(l) - 1
         /\ \A i \in 1..(Len(l) - 1) : Without(l, k)[i] = IF i < k THEN l[i] ELSE l[i + 1]
<1> DEFINE a == SubSeq(l, 1, k - 1)
           b == SubSeq(l, k + 1, Len(l))
<1>0. Len(l) \in Nat /\ k \in Int /\ 1 <= k /\ k <= Len(l)
  OBVIOUS
<1>1. a \in Seq(S) /\ Len(a) = k - 1 /\ \A i \in 1..(k - 1) : a[i] = l[i]
  <2>1. \A i \in 1..(k - 1) : l[i] \in S
    BY <1>0
  <2> QED BY <1>0, <2>1
<1>2. b \in Seq(S) /\ Len(b) = Len(l) - k /\ \A i \in 1..(Len(l) - k) : b[i] = l[i + k]
  <2>1. \A i \in (k + 1)..Len(l) : l[i] \in S
    BY <1>0
  <2> QED BY <1>0, <2>1
<1>3. Without(l, k) = a \o b
  BY DEF Without
<1> HIDE DEF a, b
<1>4. /\ a \o b \in Seq(S) /\ Len(a \o b) = Len(l) - 1
      /\ \A i \in 1..(Len(l) - 1) : (a \o b)[i] = IF i <= k - 1 THEN a[i] ELSE b[i - (k - 1)]
  <2>1. /\ a \o b \in Seq(S) /\ Len(a \o b) = Len(a) + Len(b)
        /\ \A i \in 1..(Len(a) + Len(b)) :
             (a \o b)[i] = IF i <= Len(a) THEN a[i] ELSE b[i - Len(a)]
    BY Zenon, <1>1, <1>2, ConcatFacts
  <2>2. Len(a) + Len(b) = Len(l) - 1
    BY <1>0, <1>1, <1>2
  <2> QED BY <1>1, <2>1, <2>2
<1>5. ASSUME NEW i \in 1..(Len(l) - 1)
      PROVE  (a \o b)[i] = IF i < k THEN l[i] ELSE l[i + 1]
  <2>1. CASE i < k
    BY <1>0, <1>1, <1>4, <2>1
  <2>2. CASE ~(i < k)
    <3>1. i - (k - 1) \in 1..(Len(l) - k) /\ i - (k - 1) + k = i + 1
      BY <1>0, <2>2
    <3> QED BY <1>0, <1>2, <1>4, <2>2, <3>1
  <2> QED BY Zenon, <2>1, <2>2
<1> QED BY <1>3, <1>4, <1>5

\* l with e put in at place k.
Inserted(S, l, k, e) ==
  /\ With(l, k, e) \in Seq(S)
  /\ Len(With(l, k, e)) = Len(l) + 1
  /\ \A i \in 1..(Len(l) + 1) :
       With(l, k, e)[i] = IF i < k THEN l[i] ELSE IF i = k THEN e ELSE l[i - 1]

LEMMA InsertFacts ==
  ASSUME NEW S, NEW l \in Seq(S), NEW e \in S, NEW k \in 1..(Len(l) + 1)
  PROVE  Inserted(S, l, k, e)
<1> DEFINE a == SubSeq(l, 1, k - 1)
           b == SubSeq(l, k, Len(l))
<1>0. Len(l) \in Nat /\ k \in Int /\ 1 <= k /\ k <= Len(l) + 1
  OBVIOUS
<1>1. a \in Seq(S) /\ Len(a) = k - 1 /\ \A i \in 1..(k - 1) : a[i] = l[i]
  <2>1. \A i \in 1..(k - 1) : l[i] \in S
    BY <1>0
  <2> QED BY <1>0, <2>1
<1>2. /\ b \in Seq(S) /\ Len(b) = Len(l) - k + 1
      /\ \A i \in 1..(Len(l) - k + 1) : b[i] = l[i + k - 1]
  <2>1. \A i \in k..Len(l) : l[i] \in S
    BY <1>0
  <2> QED BY <1>0, <2>1
<1>3. With(l, k, e) = a \o <<e>> \o b
  BY DEF With
<1> HIDE DEF a, b
<1>4. /\ a \o <<e>> \in Seq(S) /\ Len(a \o <<e>>) = k
      /\ \A i \in 1..k : (a \o <<e>>)[i] = IF i <= k - 1 THEN a[i] ELSE e
  BY <1>0, <1>1
<1> DEFINE c == a \o <<e>>
<1>5. c \in Seq(S) /\ Len(c) = k /\ \A i \in 1..k : c[i] = IF i < k THEN l[i] ELSE e
  BY <1>0, <1>1, <1>4
<1> HIDE DEF c
<1>6. /\ c \o b \in Seq(S) /\ Len(c \o b) = Len(l) + 1
      /\ \A i \in 1..(Len(l) + 1) : (c \o b)[i] = IF i <= k THEN c[i] ELSE b[i - k]
  <2>1. /\ c \o b \in Seq(S) /\ Len(c \o b) = Len(c) + Len(b)
        /\ \A i \in 1..(Len(c) + Len(b)) :
             (c \o b)[i] = IF i <= Len(c) THEN c[i] ELSE b[i - Len(c)]
    BY <1>2, <1>5, ConcatFacts
  <2>2. Len(c) + Len(b) = Len(l) + 1
    BY <1>0, <1>2, <1>5
  <2> QED BY <1>5, <2>1, <2>2
<1>7. ASSUME NEW i \in 1..(Len(l) + 1)
      PROVE  (c \o b)[i] = IF i < k THEN l[i] ELSE IF i = k THEN e ELSE l[i - 1]
  <2>1. CASE i <= k
    BY <1>0, <1>5, <1>6, <2>1
  <2>2. CASE ~(i <= k)
    <3>1. i - k \in 1..(Len(l) - k + 1) /\ (i - k) + k - 1 = i - 1
      BY <1>0, <2>2
    <3> QED BY <1>0, <1>2, <1>6, <2>2, <3>1
  <2> QED BY Zenon, <2>1, <2>2
<1> QED BY Zenon, <1>3, <1>6, <1>7 DEF Inserted, c

\* The element at a thread's place.
LEMMA PlaceFacts ==
  ASSUME NEW l, NEW t, InList(l, t)
  PROVE  Place(l, t) \in DOMAIN l /\ l[Place(l, t)].thd = t
  BY DEF InList, Place

LEMMA RemList ==
  ASSUME NEW l, NEW t, ListOK(l)
  PROVE  /\ ListOK(REM_LIST(l, t))
         /\ \A u \in Threads : InList(REM_LIST(l, t), u) <=> InList(l, u) /\ u # t
         /\ REM_LIST(l, t) # <<>> => l # <<>>
<1>1. CASE ~InList(l, t)
  BY <1>1 DEF REM_LIST
<1>2. CASE InList(l, t)
  <2> DEFINE k == Place(l, t)
             r == Without(l, k)
  <2>1. l \in Seq(Event(Threads)) /\ \A i, j \in DOMAIN l : l[i].thd = l[j].thd => i = j
    BY DEF ListOK
  <2>2. k \in 1..Len(l) /\ l[k].thd = t
    BY <1>2, <2>1, PlaceFacts
  <2>3. /\ r \in Seq(Event(Threads)) /\ Len(r) = Len(l) - 1
        /\ \A i \in 1..(Len(l) - 1) : r[i] = IF i < k THEN l[i] ELSE l[i + 1]
    BY Zenon, <2>1, <2>2, RemoveFacts
  <2>4. REM_LIST(l, t) = r
    BY <1>2 DEF REM_LIST
  <2> HIDE DEF k, r
  <2>5. DOMAIN r = 1..(Len(l) - 1) /\ DOMAIN l = 1..Len(l) /\ Len(l) \in Nat
    BY <2>1, <2>3
  <2>6. \A i \in DOMAIN r : \E a \in DOMAIN l :
           r[i] = l[a] /\ a # k /\ a = IF i < k THEN i ELSE i + 1
    BY <2>2, <2>3, <2>5
  <2>7. \A i, j \in DOMAIN r : r[i].thd = r[j].thd => i = j
    BY <2>1, <2>2, <2>5, <2>6
  <2>8. ASSUME NEW u \in Threads, InList(r, u) PROVE InList(l, u) /\ u # t
    BY <2>1, <2>2, <2>5, <2>6, <2>8 DEF InList
  <2>9. ASSUME NEW u \in Threads, InList(l, u), u # t PROVE InList(r, u)
    <3>1. PICK a \in DOMAIN l : l[a].thd = u
      BY <2>9 DEF InList
    <3>2. a # k
      BY <2>2, <2>9, <3>1
    <3>3. CASE a < k
      BY <2>2, <2>3, <2>5, <3>1, <3>3 DEF InList
    <3>4. CASE a > k
      <4>1. a - 1 \in DOMAIN r /\ ~(a - 1 < k) /\ a - 1 + 1 = a
        BY <2>2, <2>5, <3>4
      <4>2. r[a - 1] = l[a]
        BY <2>3, <2>5, <4>1
      <4> QED BY <3>1, <4>1, <4>2 DEF InList
    <3> QED BY <2>2, <2>5, <3>2, <3>3, <3>4
  <2>10. l # <<>>
    BY <2>1, <2>2
  <2> QED BY <2>3, <2>4, <2>7, <2>8, <2>9, <2>10 DEF ListOK
<1> QED BY <1>1, <1>2

\* Where __insert_event puts a new element: before the first one that expires
\* later.
LEMMA InsertPlace ==
  ASSUME NEW l, NEW t, NEW exp \in Int, ListOK(l)
  PROVE  \E k \in 1..(Len(l) + 1) :
           /\ Insert(l, t, exp) = With(l, k, [thd |-> t, exp |-> exp])
           /\ \A i \in DOMAIN l : i < k => l[i].exp <= exp
           /\ k \in DOMAIN l => l[k].exp > exp
<1> DEFINE later == {i \in DOMAIN l : l[i].exp > exp}
           first == CHOOSE i \in later : \A j \in later : i <= j
           place == IF later = {} THEN Len(l) + 1 ELSE first
<1>1. l \in Seq(Event(Threads)) /\ Len(l) \in Nat /\ DOMAIN l = 1..Len(l)
  BY DEF ListOK
<1>2. ASSUME later # {} PROVE first \in later /\ \A j \in later : first <= j
  <2>1. later \in SUBSET Nat
    BY <1>1
  <2> HIDE DEF later
  <2>2. PICK i \in later : \A j \in later : ~ (<<j, i>> \in OpToRel(<, Nat))
    BY Zenon, <1>2, <2>1, NatLessThanWellFounded, WFMin
  <2>3. \A j \in later : i <= j
    <3>1. ASSUME NEW j \in later, ~(i <= j) PROVE FALSE
      <4>1. j \in Nat /\ i \in Nat /\ j < i
        BY <2>1, <3>1
      <4>2. <<j, i>> \in OpToRel(<, Nat)
        BY <4>1 DEF OpToRel
      <4> QED BY Zenon, <2>2, <4>2
    <3> QED BY <3>1
  <2> QED BY <2>3
<1>3. place \in 1..(Len(l) + 1)
  BY <1>1, <1>2
<1>4. Insert(l, t, exp) = With(l, place, [thd |-> t, exp |-> exp])
  BY DEF Insert
<1>5. \A i \in DOMAIN l : l[i].exp \in Int
  <2>1. \A i \in DOMAIN l : l[i] \in Event(Threads)
    BY <1>1
  <2> QED BY <2>1 DEF Event
<1> HIDE DEF first
<1>6. \A i \in DOMAIN l : i < place => i \notin later
  BY <1>1, <1>2
<1>7. place \in DOMAIN l => place \in later
  BY <1>1, <1>2
<1> HIDE DEF place
<1>8. \A i \in DOMAIN l : i < place => l[i].exp <= exp
  BY <1>5, <1>6
<1> QED BY <1>3, <1>4, <1>7, <1>8

LEMMA InsList ==
  ASSUME NEW l, NEW t \in Threads, NEW exp \in Int, ListOK(l), ~InList(l, t)
  PROVE  /\ ListOK(Insert(l, t, exp))
         /\ \A u \in Threads : InList(Insert(l, t, exp), u) <=> InList(l, u) \/ u = t
         /\ Insert(l, t, exp) # <<>>
<1> DEFINE e == [thd |-> t, exp |-> exp]
           r == Insert(l, t, exp)
<1>1. l \in Seq(Event(Threads)) /\ \A i, j \in DOMAIN l : l[i].thd = l[j].thd => i = j
  BY DEF ListOK
<1>2. e \in Event(Threads) /\ e.thd = t
  BY DEF Event
<1>3. PICK k \in 1..(Len(l) + 1) : r = With(l, k, e)
  BY InsertPlace
<1> HIDE DEF e
<1>4. /\ r \in Seq(Event(Threads)) /\ Len(r) = Len(l) + 1
      /\ \A i \in 1..(Len(l) + 1) :
           r[i] = IF i < k THEN l[i] ELSE IF i = k THEN e ELSE l[i - 1]
  <2> HIDE DEF r
  <2>1. /\ With(l, k, e) \in Seq(Event(Threads))
        /\ Len(With(l, k, e)) = Len(l) + 1
        /\ \A i \in 1..(Len(l) + 1) :
             With(l, k, e)[i] = IF i < k THEN l[i] ELSE IF i = k THEN e ELSE l[i - 1]
    <3>1. Inserted(Event(Threads), l, k, e)
      BY Zenon, <1>1, <1>2, InsertFacts
    <3> QED BY Zenon, <3>1 DEF Inserted
  <2> QED BY <1>3, <2>1
<1> HIDE DEF r
<1>5. DOMAIN r = 1..(Len(l) + 1) /\ DOMAIN l = 1..Len(l) /\ Len(l) \in Nat
  BY <1>1, <1>4
<1>6. \A i \in DOMAIN l : l[i].thd # t
  BY DEF InList
<1>7. r[k] = e /\ k \in DOMAIN r
  BY <1>4, <1>5
<1>8. \A i \in DOMAIN r \ {k} : \E a \in DOMAIN l :
         r[i] = l[a] /\ a = IF i < k THEN i ELSE i - 1
  BY <1>4, <1>5
<1>9. \A i, j \in DOMAIN r : r[i].thd = r[j].thd => i = j
  BY <1>1, <1>2, <1>5, <1>6, <1>7, <1>8
<1>10. ASSUME NEW u \in Threads, InList(r, u) PROVE InList(l, u) \/ u = t
  BY <1>2, <1>5, <1>7, <1>8, <1>10 DEF InList
<1>11. ASSUME NEW u \in Threads, InList(l, u) PROVE InList(r, u)
  <2>1. PICK a \in DOMAIN l : l[a].thd = u
    BY <1>11 DEF InList
  <2>2. CASE a < k
    BY <1>4, <1>5, <2>1, <2>2 DEF InList
  <2>3. CASE a >= k
    <3>1. a + 1 \in DOMAIN r /\ a + 1 > k /\ (a + 1) - 1 = a
      BY <1>5, <2>3
    <3>2. r[a + 1] = l[a]
      BY <1>4, <1>5, <3>1
    <3> QED BY <2>1, <3>1, <3>2 DEF InList
  <2> QED BY <1>5, <2>2, <2>3
<1>12. InList(r, t)
  BY <1>2, <1>7 DEF InList
<1>13. r # <<>>
  BY <1>4, <1>5
<1> QED BY <1>4, <1>9, <1>10, <1>11, <1>12, <1>13 DEF ListOK, r

\* The element after a thread's is another thread's.
LEMMA NextFacts ==
  ASSUME NEW l, NEW t, ListOK(l), InList(l, t)
  PROVE  /\ NextThd(l, t) \in Threads \cup {None}
         /\ NextThd(l, t) # None => InList(l, NextThd(l, t)) /\ NextThd(l, t) # t
         /\ l[Place(l, t)].exp \in Int
<1> DEFINE k == Place(l, t)
<1>1. l \in Seq(Event(Threads)) /\ \A i, j \in DOMAIN l : l[i].thd = l[j].thd => i = j
  BY DEF ListOK
<1>2. k \in 1..Len(l) /\ l[k].thd = t /\ DOMAIN l = 1..Len(l) /\ Len(l) \in Nat
  BY <1>1, PlaceFacts
<1>3. NextThd(l, t) = IF k = Len(l) THEN None ELSE l[k + 1].thd
  BY DEF NextThd
<1> HIDE DEF k
<1>4. l[k].exp \in Int
  <2>1. l[k] \in Event(Threads)
    BY <1>1, <1>2
  <2> QED BY <2>1 DEF Event
<1>5. CASE k = Len(l)
  BY <1>3, <1>4, <1>5 DEF k
<1>6. CASE k # Len(l)
  <2>1. k + 1 \in DOMAIN l /\ k \in DOMAIN l /\ k + 1 # k
    <3>1. k \in Int /\ 1 <= k /\ k <= Len(l) /\ Len(l) \in Int
      BY <1>2
    <3>2. k + 1 \in 1..Len(l) /\ k \in 1..Len(l) /\ k + 1 # k
      BY <1>6, <3>1
    <3> QED BY <1>2, <3>2
  <2>2. l[k + 1].thd \in Threads
    <3>1. l[k + 1] \in Event(Threads)
      BY <1>1, <2>1
    <3> QED BY <3>1 DEF Event
  <2>3. l[k + 1].thd # l[k].thd
    <3>1. \A i, j \in DOMAIN l : l[i].thd = l[j].thd => i = j
      BY <1>1
    <3> QED BY <2>1, <3>1, Zenon
  <2>4. InList(l, l[k + 1].thd)
    BY <2>1 DEF InList
  <2> QED BY <1>3, <1>2, <1>4, <1>6, <2>2, <2>3, <2>4 DEF k
<1> QED BY <1>5, <1>6

LEMMA ArgsNat ==
  /\ \A a \in Amounts : a \in Nat
  /\ \A p \in Periods : p \in Nat /\ p > 0
  BY TimedAssumption

\* What is waited for is at least one tick.
LEMMA Ranges == \A b : \A n \in 1..b : n \in Nat /\ n \in Int /\ n > 0
OBVIOUS

LEMMA EmptyList == ListOK(<<>>) /\ \A u : ~InList(<<>>, u)
  BY DEF ListOK, InList

LEMMA NoCallOK == CallOK(NoCall)
  BY DEF CallOK, Call, Args, NoCall, Pcs, Times

LEMMA NoPteOK == PteOK(NoPte)
  BY DEF PteOK, Pte, NoPte, Evts

LEMMA Initially == Init => TimedInv
<1> SUFFICES ASSUME Init PROVE TimedInv
  OBVIOUS
<1>1. ListOK(events) /\ ListOK(periodic)
  BY EmptyList DEF Init
<1>2. te \in [Threads -> Te] /\ DOMAIN pte = Threads /\ \A t \in Threads : PteOK(pte[t])
  BY NoPteOK DEF Init, Te, NoTe, Evts
<1>3. DOMAIN th = Threads /\ \A t \in Threads : CallOK(th[t])
  BY NoCallOK DEF Init
<1>4. desc \in [Threads -> Desc]
  BY DEF Init, NoDesc, Desc
<1>5. /\ timer \in Walk
      /\ age \in Int /\ wakeup_in \in Int
  BY DEF Init, NoTimeout, Walk
<1>6. Types
  BY <1>1, <1>2, <1>3, <1>4, <1>5 DEF Types
<1>7. Flags
  BY EmptyList DEF Init, Flags, NoPte
<1>8. Arms /\ ListAssertionsHold
  BY DEF Init, Arms, ExpirationArmed, ListAssertionsHold
<1> QED BY <1>6, <1>7, <1>8 DEF TimedInv
-----------------------------------------------------------------------------
(* Steps that leave the lists alone.                                       *)

\* t goes on at another place of the same call.
LEMMA GotoCall ==
  ASSUME NEW c, CallOK(c), NEW pc \in Pcs
  PROVE  /\ CallOK([c EXCEPT !.pc = pc])
         /\ [c EXCEPT !.pc = pc].pc = pc
         /\ [c EXCEPT !.pc = pc].op = c.op
  BY DEF CallOK, Call

LEMMA SameStubs ==
  ASSUME TimedInv
  PROVE  /\ te \in [Threads -> Te] /\ DOMAIN pte = Threads
         /\ \A u \in Threads : PteOK(pte[u]) /\ CallOK(th[u])
         /\ desc \in [Threads -> Desc]
         /\ wakeup_in \in Int
         /\ ListAssertionsHold
         /\ \A u \in Threads : InList(events, u) => th[u].op = "block" /\ th[u].pc \in Sleeping
  BY DEF TimedInv, Types, Flags
-----------------------------------------------------------------------------
(* The invariant is inductive: one step of the proof per action.           *)

LEMMA TimerFacts ==
  ASSUME TimedInv
  PROVE  /\ timer \in Walk /\ age \in Int /\ wakeup_in \in Int
         /\ ListOK(events) /\ ListOK(periodic)
  BY DEF TimedInv, Types
LEMMA Inductive == TimedInv /\ [Next]_vars => TimedInv'
<1>LaterList.
  ASSUME NEW l, ListOK(l)
  PROVE  /\ ListOK(Later(l))
         /\ \A u \in Threads : InList(Later(l), u) <=> InList(l, u)
         /\ Later(l) = <<>> <=> l = <<>>
  <2> USE <1>LaterList
  <2>1. l \in Seq(Event(Threads)) /\ \A i, j \in DOMAIN l : l[i].thd = l[j].thd => i = j
    BY DEF ListOK
  <2>2. DOMAIN l = 1..Len(l) /\ Len(l) \in Nat
    BY <2>1
  <2>3. /\ DOMAIN Later(l) = DOMAIN l
        /\ \A i \in DOMAIN l : Later(l)[i] = [l[i] EXCEPT !.exp = @ - TicksPerTick]
    BY DEF Later
  <2>4. \A i \in DOMAIN l : Later(l)[i] \in Event(Threads) /\ Later(l)[i].thd = l[i].thd
    <3> SUFFICES ASSUME NEW i \in DOMAIN l
                 PROVE  Later(l)[i] \in Event(Threads) /\ Later(l)[i].thd = l[i].thd
      OBVIOUS
    <3>1. l[i] \in Event(Threads)
      BY <2>1
    <3> QED BY <2>3, <3>1 DEF Event, TicksPerTick
  <2>5. Later(l) \in Seq(Event(Threads)) /\ Len(Later(l)) = Len(l)
    <3>1. Later(l) = [i \in 1..Len(l) |-> Later(l)[i]]
      BY <2>2 DEF Later
    <3>2. Later(l) \in [1..Len(l) -> Event(Threads)]
      BY <2>2, <2>4, <3>1
    <3> HIDE DEF Later
    <3>3. Later(l) \in Seq(Event(Threads))
      BY <2>2, <3>2
    <3> QED BY <2>2, <2>3, <3>3
  <2>6. ListOK(Later(l))
    BY <2>1, <2>3, <2>4, <2>5 DEF ListOK
  <2>7. \A u \in Threads : InList(Later(l), u) <=> InList(l, u)
    BY <2>3, <2>4 DEF InList
  <2>8. Later(l) = <<>> <=> l = <<>>
    BY <2>1, <2>5
  <2> QED BY <2>6, <2>7, <2>8
<1>FirstFacts.
  ASSUME NEW l, ListOK(l)
  PROVE  /\ FirstThd(l) \in Threads \cup {None}
         /\ FirstThd(l) # None => InList(l, FirstThd(l))
         /\ FirstExp(l) \in Int \cup {None}
         /\ FirstExp(l) = None <=> l = <<>>
  <2> USE <1>FirstFacts
  <2>1. l \in Seq(Event(Threads))
    BY DEF ListOK
  <2>2. CASE l = <<>>
    BY <2>2 DEF FirstThd, FirstExp
  <2>3. CASE l # <<>>
    <3>1. 1 \in DOMAIN l /\ Head(l) = l[1] /\ l[1] \in Event(Threads)
      BY <2>1, <2>3
    <3>2. l[1].thd \in Threads /\ l[1].exp \in Int /\ l[1].exp # None
      BY <3>1, TimedAssumption DEF Event
    <3>3. FirstThd(l) = l[1].thd /\ FirstExp(l) = l[1].exp
      BY <2>3, <3>1 DEF FirstThd, FirstExp
    <3>4. InList(l, l[1].thd)
      BY <3>1 DEF InList
    <3> QED BY <2>3, <3>2, <3>3, <3>4
  <2> QED BY <2>2, <2>3
\* There is a next event unless both lists are empty.
<1>NextEventFacts.
  ASSUME NEW ev, NEW per, ListOK(ev), ListOK(per)
  PROVE  /\ next_event_time(ev, per) \in Int \cup {None}
         /\ next_event_time(ev, per) = None <=> ev = <<>> /\ per = <<>>
  BY <1>NextEventFacts, <1>FirstFacts, TimedAssumption DEF next_event_time, Before
<1>SameLists.
  ASSUME TimedInv,
         UNCHANGED <<events, periodic, timer, age>>,
         wakeup_in' \in Int, wakeup_in # NoTimeout => wakeup_in' # NoTimeout,
         te' \in [Threads -> Te],
         \A u \in Threads : te'[u].evt = "triggered" => te[u].evt = "triggered",
         DOMAIN pte' = Threads,
         \A u \in Threads : PteOK(pte'[u]) /\ pte'[u].periodic = pte[u].periodic,
         DOMAIN th' = Threads,
         \A u \in Threads : CallOK(th'[u]),
         \A u \in Threads : InList(events, u) => th'[u].op = "block" /\ th'[u].pc \in Sleeping,
         desc' \in [Threads -> Desc],
         \/ \A u \in Threads : AboutToArm(u) => AboutToArm(u)'
         \/ wakeup_in' # NoTimeout
         \/ events = <<>> /\ periodic = <<>>,
         ListAssertionsHold'
  PROVE  TimedInv'
  <2> USE <1>SameLists
  <2>1. Types'
    BY DEF TimedInv, Types
  <2>2. Flags'
    <3>1. /\ \A u \in Threads : InList(events, u) => te[u].evt # "triggered"
          /\ \A u \in Threads : InList(periodic, u) <=> pte[u].periodic
          /\ timer.pc = "walk" /\ timer.tmp # None => InList(List, timer.tmp)
      BY Zenon DEF TimedInv, Flags
    <3>2. List' = List
      BY Zenon DEF List
    <3>3. \A u \in Threads : InList(events', u) =>
            th'[u].op = "block" /\ th'[u].pc \in Sleeping /\ te'[u].evt # "triggered"
      BY <3>1
    <3>4. \A u \in Threads : InList(periodic', u) <=> pte'[u].periodic
      BY Zenon, <3>1
    <3>5. timer'.pc = "walk" /\ timer'.tmp # None => InList(List', timer'.tmp)
      BY Zenon, <3>1, <3>2
    <3> QED BY Zenon, <3>3, <3>4, <3>5 DEF Flags
  <2>3. Arms'
    <3>1. timer'.pc = "block" => events' = <<>> /\ periodic' = <<>>
      BY Zenon DEF TimedInv, Arms
    <3>2. ExpirationArmed'
      BY DEF TimedInv, Arms, ExpirationArmed
    <3> QED BY <3>1, <3>2 DEF Arms
  <2> QED BY Zenon, <2>1, <2>2, <2>3 DEF TimedInv
\* A step of t that changes only its call.
<1>OwnCall.
  ASSUME TimedInv, NEW t \in Threads, NEW r, CallOK(r), th' = [th EXCEPT ![t] = r],
         InList(events, t) => r.op = "block" /\ r.pc \in Sleeping
  PROVE  /\ DOMAIN th' = Threads
         /\ \A u \in Threads : CallOK(th'[u])
         /\ \A u \in Threads : InList(events, u) => th'[u].op = "block" /\ th'[u].pc \in Sleeping
         /\ th'[t] = r
         /\ ~AboutToArm(t) => \A u \in Threads : AboutToArm(u) => AboutToArm(u)'
  <2> USE <1>OwnCall
  <2>1. DOMAIN th = Threads /\ \A u \in Threads : CallOK(th[u])
    BY DEF TimedInv, Types
  <2>2. th'[t] = r /\ DOMAIN th' = Threads /\ \A u \in Threads \ {t} : th'[u] = th[u]
    BY <2>1
  <2>3. \A u \in Threads : CallOK(th'[u])
    BY <2>1, <2>2
  <2>4. \A u \in Threads : InList(events, u) => th[u].op = "block" /\ th[u].pc \in Sleeping
    BY DEF TimedInv, Flags
  <2>5. \A u \in Threads : InList(events, u) => th'[u].op = "block" /\ th'[u].pc \in Sleeping
    BY <2>2, <2>4
  <2>6. ~AboutToArm(t) => \A u \in Threads : AboutToArm(u) => AboutToArm(u)'
    BY <2>2 DEF AboutToArm
  <2> QED BY Zenon, <2>2, <2>3, <2>5, <2>6
<1>ArmedCall.
  ASSUME NEW c, CallOK(c), NEW pc \in Pcs
  PROVE  /\ CallOK([c EXCEPT !.pc = pc, !.amt = 0, !.old = None, !.lag = 0])
         /\ [c EXCEPT !.pc = pc, !.amt = 0, !.old = None, !.lag = 0].pc = pc
         /\ [c EXCEPT !.pc = pc, !.amt = 0, !.old = None, !.lag = 0].op = c.op
  <2> USE <1>ArmedCall
  <2> DEFINE d == [c EXCEPT !.pc = pc, !.amt = 0]
  <2>1. d \in Call /\ d.pc = pc /\ d.op = c.op /\ d.arg = c.arg
    BY Zenon DEF Call, CallOK
  <2>2. [c EXCEPT !.pc = pc, !.amt = 0, !.old = None, !.lag = 0] = [d EXCEPT !.old = None, !.lag = 0]
    OBVIOUS
  <2>3. None \in Times
    BY DEF Times
  <2> HIDE DEF d
  <2> DEFINE e == [d EXCEPT !.old = None, !.lag = 0]
  <2>4. e \in Call
    <3> DEFINE g == [d EXCEPT !.old = None]
    <3>1. g \in Call
      BY <2>1, <2>3 DEF Call
    <3>2. e = [g EXCEPT !.lag = 0]
      OBVIOUS
    <3> HIDE DEF g, e
    <3> QED BY <3>1, <3>2 DEF Call
  <2>5. e.pc = pc /\ e.op = c.op /\ e.arg = c.arg
    BY <2>1 DEF Call
  <2> HIDE DEF e
  <2>6. CallOK(e)
    BY <2>4, <2>5 DEF CallOK
  <2> QED BY <2>2, <2>5, <2>6 DEF e
<1>SameFailed.
  ASSUME TimedInv, failed' = failed PROVE ListAssertionsHold'
  <2> USE <1>SameFailed
  <2>1. ListAssertionsHold
    BY DEF TimedInv
  <2> QED BY <2>1 DEF ListAssertionsHold
<1>StartStep.
  ASSUME TimedInv, NEW t \in Threads, NEW op \in Calls, NEW arg \in Args, Start(t, op, arg)
  PROVE  TimedInv'
  <2> USE <1>StartStep
  <2> DEFINE r == [NoCall EXCEPT !.pc = "redo", !.op = op, !.arg = arg]
  <2>1. th[t].pc = "idle" /\ th' = [th EXCEPT ![t] = r]
    BY DEF Start, Set
  <2>2. CallOK(r)
    <3> DEFINE d == [NoCall EXCEPT !.pc = "redo", !.op = op]
    <3>1. d \in Call
      BY Zenon, NoCallOK DEF Call, CallOK, Pcs
    <3>2. r = [d EXCEPT !.arg = arg]
      OBVIOUS
    <3> HIDE DEF d
    <3>3. r \in Call
      BY Zenon, <3>1, <3>2 DEF Call
    <3>4. r.op = op /\ r.arg = arg
      BY NoCallOK DEF CallOK, Call
    <3>5. /\ op = "block" => arg \in Amounts
          /\ op = "create" => arg \in Periods
          /\ op = "wakeup" => arg \in Threads
      BY DEF Start
    <3> HIDE DEF r
    <3> QED BY <3>3, <3>4, <3>5 DEF CallOK
  <2>3. ~InList(events, t) /\ ~AboutToArm(t)
    BY <2>1, SameStubs DEF Sleeping, AboutToArm
  <2> HIDE DEF r
  <2>4. UNCHANGED <<events, periodic, timer, age, wakeup_in, te, pte, desc, failed>>
    BY DEF Start, server, sched
  <2>5. ListAssertionsHold'
    BY <2>4, <1>SameFailed
  <2> QED BY Zenon, <2>1, <2>2, <2>3, <2>4, <2>5, <1>OwnCall, SameStubs, <1>SameLists
<1>StaleCallStep.
  ASSUME TimedInv, NEW t \in Threads, StaleCall(t) PROVE TimedInv'
  <2> USE <1>StaleCallStep
  <2>1. /\ th[t].pc = "redo"
        /\ UNCHANGED <<events, periodic, timer, age, wakeup_in, te, pte, failed>>
    BY DEF StaleCall, server, sched
  <2>2. ListAssertionsHold'
    BY <2>1, <1>SameFailed
  <2>3. ~InList(events, t) /\ ~AboutToArm(t)
    BY Zenon, <2>1, SameStubs DEF Sleeping, AboutToArm
  <2>4. CASE Function(t) = "exist"
    <3>1. desc' = [desc EXCEPT ![t].st = "current"] /\ th' = th
      BY <2>4 DEF StaleCall
    <3>2. desc' \in [Threads -> Desc]
      BY <3>1, SameStubs DEF Desc
    <3>3. DOMAIN th' = Threads /\ \A u \in Threads : AboutToArm(u) => AboutToArm(u)'
      BY <3>1 DEF TimedInv, Types, AboutToArm
    <3> QED BY <2>1, <2>2, <3>1, <3>2, <3>3, SameStubs, <1>SameLists
  <2>5. CASE Function(t) # "exist"
    <3>1. th' = [th EXCEPT ![t] = [th[t] EXCEPT !.pc = "fault"]] /\ desc' = desc
      BY <2>5 DEF StaleCall, Goto, Set
    <3>2. CallOK([th[t] EXCEPT !.pc = "fault"])
      BY SameStubs, GotoCall DEF Pcs
    <3> QED BY Zenon, <2>1, <2>2, <2>3, <3>1, <3>2, <1>OwnCall, SameStubs, <1>SameLists
  <2> QED BY <2>4, <2>5
<1>FaultUpdateStep.
  ASSUME TimedInv, NEW t \in Threads, FaultUpdate(t) PROVE TimedInv'
  <2> USE <1>FaultUpdateStep
  <2>1. /\ th[t].pc = "fault"
        /\ UNCHANGED <<events, periodic, timer, age, wakeup_in, te, pte, failed>>
        /\ th' = [th EXCEPT ![t] = [th[t] EXCEPT !.pc = "redo"]]
    BY DEF FaultUpdate, server, sched, Goto, Set
  <2>2. ListAssertionsHold'
    BY <2>1, <1>SameFailed
  <2>3. ~InList(events, t) /\ ~AboutToArm(t)
    BY <2>1, SameStubs DEF Sleeping, AboutToArm
  <2>4. CallOK([th[t] EXCEPT !.pc = "redo"])
    BY SameStubs, GotoCall DEF Pcs
  <2>5. desc' \in [Threads -> Desc]
    <3>1. desc \in [Threads -> Desc]
      BY SameStubs
    <3>2. \A u \in Threads : desc[u] \in Desc /\ [desc[u] EXCEPT !.st = "behind"] \in Desc
      BY Zenon, <3>1 DEF Desc
    <3> QED BY <3>1, <3>2 DEF FaultUpdate
  <2> QED BY Zenon, <2>1, <2>2, <2>3, <2>4, <2>5, <1>OwnCall, SameStubs, <1>SameLists
<1>ReturnStep.
  ASSUME TimedInv, NEW t \in Threads, Return(t) PROVE TimedInv'
  <2> USE <1>ReturnStep
  <2>1. /\ th[t].pc \in {"ret", "err"}
        /\ UNCHANGED <<events, periodic, timer, age, wakeup_in, pte, failed>>
        /\ th' = [th EXCEPT ![t] = NoCall]
    BY DEF Return, sched, Set
  <2>2. ListAssertionsHold'
    BY <2>1, <1>SameFailed
  <2>3. ~InList(events, t) /\ ~AboutToArm(t)
    BY <2>1, SameStubs DEF Sleeping, AboutToArm
  <2>4. desc' \in [Threads -> Desc]
    <3>1. desc \in [Threads -> Desc] /\ CallOK(th[t])
      BY SameStubs
    <3>2. th[t].op = "create" => [st |-> "current", period |-> th[t].arg] \in Desc
      BY Zenon, <3>1, TimedAssumption DEF Desc, CallOK
    <3>3. NoDesc \in Desc
      BY DEF NoDesc, Desc
    <3> QED BY <3>1, <3>2, <3>3 DEF Return
  <2>5. te' \in [Threads -> Te] /\ \A u \in Threads : te'[u].evt = "triggered" => te[u].evt = "triggered"
    <3>1. te \in [Threads -> Te] /\ NoTe \in Te /\ NoTe.evt = "idle"
      BY SameStubs DEF NoTe, Te, Evts
    <3>2. te' = te \/ te' = [te EXCEPT ![t] = NoTe]
      BY DEF Return
    <3> QED BY <3>1, <3>2
  <2> QED BY Zenon, <2>1, <2>2, <2>3, <2>4, <2>5, NoCallOK, <1>OwnCall, SameStubs, <1>SameLists
<1>CheckStep.
  ASSUME TimedInv, NEW t \in Threads, Check(t) PROVE TimedInv'
  <2> USE <1>CheckStep
  <2>1. /\ th[t].pc = "check"
        /\ UNCHANGED <<events, periodic, timer, age, wakeup_in, te, pte, desc, failed>>
    BY DEF Check, server, sched, stub
  <2>2. ListAssertionsHold'
    BY <2>1, <1>SameFailed
  <2>3. CASE th[t].old # NextEvent
    <3>1. th' = [th EXCEPT ![t] = [th[t] EXCEPT !.pc = "arm"]]
      BY <2>3 DEF Check, Goto, Set
    <3>2. /\ CallOK([th[t] EXCEPT !.pc = "arm"])
          /\ [th[t] EXCEPT !.pc = "arm"].pc = "arm"
          /\ [th[t] EXCEPT !.pc = "arm"].op = th[t].op
      BY Zenon, SameStubs, GotoCall DEF Pcs, Inside
    <3>3. InList(events, t) => th[t].op = "block"
      BY Zenon, SameStubs
    <3>4. \A u \in Threads : AboutToArm(u) => AboutToArm(u)'
      <4>1. DOMAIN th = Threads
        BY DEF TimedInv, Types
      <4>2. th'[t].pc = "arm" /\ \A u \in Threads \ {t} : th'[u] = th[u]
        BY <3>1, <3>2, <4>1
      <4> QED BY <4>2 DEF AboutToArm
    <3> QED BY Zenon, <2>1, <2>2, <3>1, <3>2, <3>3, <3>4, <1>OwnCall, SameStubs, <1>SameLists DEF Sleeping
  <2>4. CASE th[t].old = NextEvent
    <3> DEFINE r == [th[t] EXCEPT !.pc = "wait", !.amt = 0, !.old = None, !.lag = 0]
    <3>1. th' = [th EXCEPT ![t] = r]
      BY <2>4 DEF Check, Armed, Set
    <3>2. CallOK(r) /\ r.pc = "wait" /\ r.op = th[t].op
      BY Zenon, SameStubs, <1>ArmedCall DEF Pcs, Inside
    <3> HIDE DEF r
    <3>3. InList(events, t) => th[t].op = "block"
      BY SameStubs
    <3>4. AboutToArm(t) => events = <<>> /\ periodic = <<>>
      <4>1. ListOK(events) /\ ListOK(periodic)
        BY DEF TimedInv, Types
      <4> QED BY Zenon, <2>1, <2>4, <4>1, <1>NextEventFacts DEF AboutToArm, NextEvent
    <3> QED BY Zenon, <2>1, <2>2, <3>1, <3>2, <3>3, <3>4, <1>OwnCall, SameStubs, <1>SameLists DEF Sleeping
  <2> QED BY Zenon, <2>3, <2>4
<1>TimeoutFacts.
  ASSUME TimedInv, NEW amnt \in Nat PROVE Timeout(amnt) \in Int /\ Timeout(amnt) # NoTimeout
  BY <1>TimeoutFacts, SameStubs DEF Timeout, NoTimeout
<1>ArmStep.
  ASSUME TimedInv, NEW t \in Threads, Arm(t) PROVE TimedInv'
  <2> USE <1>ArmStep
  <2> DEFINE r == [th[t] EXCEPT !.pc = "wait", !.amt = 0, !.old = None, !.lag = 0]
  <2>1. /\ th[t].pc = "arm"
        /\ UNCHANGED <<events, periodic, timer, age, te, pte, desc, failed>>
        /\ th' = [th EXCEPT ![t] = r]
        /\ wakeup_in' = Timeout(th[t].amt)
    BY DEF Arm, server, stub, Armed, Set
  <2>2. ListAssertionsHold'
    BY <2>1, <1>SameFailed
  <2>3. CallOK(r) /\ r.pc = "wait" /\ r.op = th[t].op
    BY Zenon, SameStubs, <1>ArmedCall DEF Pcs, Inside
  <2> HIDE DEF r
  <2>4. InList(events, t) => th[t].op = "block"
    BY SameStubs
  <2>5. th[t].amt \in Nat
    BY SameStubs DEF CallOK, Call
  <2>6. wakeup_in' \in Int /\ wakeup_in' # NoTimeout
    BY <2>1, <2>5, <1>TimeoutFacts
  <2> QED BY Zenon, <2>1, <2>2, <2>3, <2>4, <2>6, <1>OwnCall, SameStubs, <1>SameLists DEF Sleeping
<1>SleepStep.
  ASSUME TimedInv, NEW t \in Threads, Sleep(t) PROVE TimedInv'
  <2> USE <1>SleepStep
  <2>1. PICK pc \in {"wait", "asleep"} : th' = [th EXCEPT ![t] = [th[t] EXCEPT !.pc = pc]]
    BY Zenon DEF Sleep, Goto, Set
  <2>2. /\ th[t].pc = "sleep"
        /\ UNCHANGED <<events, periodic, timer, age, wakeup_in, te, pte, desc, failed>>
    BY DEF Sleep, server, stub
  <2>3. ListAssertionsHold'
    BY <2>2, <1>SameFailed
  <2> DEFINE r == [th[t] EXCEPT !.pc = pc]
  <2>4. CallOK(r) /\ r.pc = pc /\ r.op = th[t].op
    BY Zenon, SameStubs, GotoCall DEF Pcs, Inside
  <2>5. th' = [th EXCEPT ![t] = r]
    BY <2>1
  <2> HIDE DEF r
  <2>6. ~AboutToArm(t) /\ (InList(events, t) => th[t].op = "block")
    BY Zenon, <2>2, SameStubs DEF AboutToArm
  <2> QED BY Zenon, <2>2, <2>3, <2>4, <2>5, <2>6, <1>OwnCall, SameStubs, <1>SameLists DEF Sleeping
\* A wakeup leaves the call's function alone.
<1>WakeupCall.
  ASSUME TimedInv, NEW u \in Threads, th' = [th EXCEPT ![u].pc = "wait"], th[u].pc = "asleep"
  PROVE  /\ DOMAIN th' = Threads
         /\ \A v \in Threads : CallOK(th'[v])
         /\ \A v \in Threads : InList(events, v) => th'[v].op = "block" /\ th'[v].pc \in Sleeping
         /\ \A v \in Threads : AboutToArm(v) => AboutToArm(v)'
  <2> USE <1>WakeupCall
  <2> DEFINE r == [th[u] EXCEPT !.pc = "wait"]
  <2>1. CallOK(r) /\ r.pc = "wait" /\ r.op = th[u].op
    BY Zenon, SameStubs, GotoCall DEF Pcs, Inside
  <2>2. th' = [th EXCEPT ![u] = r]
    OBVIOUS
  <2> HIDE DEF r
  <2>3. ~AboutToArm(u) /\ (InList(events, u) => th[u].op = "block")
    BY Zenon, SameStubs DEF AboutToArm
  <2> QED BY Zenon, <2>1, <2>2, <2>3, <1>OwnCall DEF Sleeping
<1>KickStep.
  ASSUME TimedInv, NEW t \in Threads, Kick(t) PROVE TimedInv'
  <2> USE <1>KickStep
  <2> DEFINE r == [th[t] EXCEPT !.pc = "ret"]
             R == [th EXCEPT ![t] = r]
             u == th[t].arg
  <2>0. th[t].pc = "kick" /\ DOMAIN th = Threads /\ \A v \in Threads : CallOK(th[v])
    BY DEF Kick, TimedInv, Types
  <2>1. /\ UNCHANGED <<events, periodic, timer, age, wakeup_in, te, pte, desc, failed>>
        /\ th' = IF R[u].pc = "asleep" THEN [R EXCEPT ![u].pc = "wait"] ELSE R
    BY DEF Kick, server, stub, Wakeup
  <2>2. ListAssertionsHold'
    BY <2>1, <1>SameFailed
  <2>3. CallOK(r) /\ r.pc = "ret" /\ r.op = th[t].op
    BY Zenon, SameStubs, GotoCall DEF Pcs, Inside
  <2> HIDE DEF r
  <2>4. DOMAIN R = Threads /\ R[t] = r /\ \A v \in Threads \ {t} : R[v] = th[v]
    BY <2>0
  <2>5. \A v \in Threads : InList(events, v) => v # t /\ th[v].op = "block" /\ th[v].pc \in Sleeping
    BY <2>0, SameStubs DEF Sleeping
  <2> HIDE DEF R
  <2>6. ASSUME NEW v \in Threads
        PROVE  th'[v] = R[v] \/ (R[v].pc = "asleep" /\ th'[v] = [R[v] EXCEPT !.pc = "wait"])
    BY <2>1, <2>4
  <2>7. ASSUME NEW v \in Threads PROVE CallOK(R[v])
    BY <2>0, <2>3, <2>4
  <2>8. ASSUME NEW v \in Threads
        PROVE  /\ CallOK(th'[v])
               /\ InList(events, v) => th'[v].op = "block" /\ th'[v].pc \in Sleeping
               /\ AboutToArm(v) => AboutToArm(v)'
    <3> DEFINE w == [R[v] EXCEPT !.pc = "wait"]
    <3>1. CallOK(w) /\ w.pc = "wait" /\ w.op = R[v].op
      BY Zenon, <2>7, GotoCall DEF Pcs, Inside
    <3>2. th'[v] = R[v] \/ (R[v].pc = "asleep" /\ th'[v] = w)
      BY <2>6
    <3> HIDE DEF w
    <3>3. CallOK(th'[v]) /\ th'[v].op = R[v].op
      BY <2>7, <3>1, <3>2
    <3>4. InList(events, v) => th'[v].op = "block" /\ th'[v].pc \in Sleeping
      BY <2>4, <2>5, <3>1, <3>2 DEF Sleeping
    <3>5. AboutToArm(v) => v # t /\ R[v] = th[v] /\ R[v].pc # "asleep"
      BY <2>0, <2>4 DEF AboutToArm
    <3>6. AboutToArm(v) => AboutToArm(v)'
      BY <3>2, <3>5 DEF AboutToArm
    <3> QED BY <3>3, <3>4, <3>6
  <2>9. DOMAIN th' = Threads
    BY <2>1, <2>4
  <2> QED BY <2>1, <2>2, <2>8, <2>9, SameStubs, <1>SameLists
<1>SetEvtFacts.
  ASSUME TimedInv, NEW t \in Threads, NEW e \in {"idle", "blocked"}, SetEvt(t, e)
  PROVE  /\ te' \in [Threads -> Te]
         /\ \A u \in Threads : te'[u].evt = "triggered" => te[u].evt = "triggered"
         /\ DOMAIN pte' = Threads
         /\ \A u \in Threads : PteOK(pte'[u]) /\ pte'[u].periodic = pte[u].periodic
  <2> USE <1>SetEvtFacts
  <2>1. te \in [Threads -> Te] /\ DOMAIN pte = Threads /\ \A u \in Threads : PteOK(pte[u])
    BY SameStubs
  <2>2. CASE th[t].op = "block"
    <3> DEFINE r == [te[t] EXCEPT !.evt = e]
    <3>1. te' = [te EXCEPT ![t] = r] /\ pte' = pte
      BY <2>2 DEF SetEvt
    <3>2. r \in Te /\ r.evt # "triggered"
      BY <2>1 DEF Te, Evts
    <3> HIDE DEF r
    <3> QED BY <2>1, <3>1, <3>2
  <2>3. CASE th[t].op # "block"
    <3> DEFINE r == [pte[t] EXCEPT !.evt = e]
    <3>1. pte' = [pte EXCEPT ![t] = r] /\ te' = te
      BY <2>3 DEF SetEvt
    <3>2. PteOK(r) /\ r.periodic = pte[t].periodic
      BY Zenon, <2>1 DEF PteOK, Pte, Evts
    <3> HIDE DEF r
    <3> QED BY <2>1, <3>1, <3>2
  <2> QED BY <2>2, <2>3
<1>EvtWaitStep.
  ASSUME TimedInv, NEW t \in Threads, EvtWait(t) PROVE TimedInv'
  <2> USE <1>EvtWaitStep
  <2>1. th[t].pc = "wait" /\ UNCHANGED <<events, periodic, timer, age, wakeup_in, desc>>
    BY Zenon DEF EvtWait, sched, stub
  <2>2. ~AboutToArm(t) /\ (InList(events, t) => th[t].op = "block" /\ te[t].evt # "triggered")
    BY <2>1 DEF AboutToArm, TimedInv, Flags
  <2>3. ASSUME NEW pc \in {"sleep", "ret"}, Goto(t, pc), UNCHANGED failed,
               pc = "ret" => ~InList(events, t),
               te' \in [Threads -> Te],
               \A u \in Threads : te'[u].evt = "triggered" => te[u].evt = "triggered",
               DOMAIN pte' = Threads,
               \A u \in Threads : PteOK(pte'[u]) /\ pte'[u].periodic = pte[u].periodic
        PROVE  TimedInv'
    <3> DEFINE r == [th[t] EXCEPT !.pc = pc]
    <3>1. th' = [th EXCEPT ![t] = r]
      BY <2>3 DEF Goto, Set
    <3>2. CallOK(r) /\ r.pc = pc /\ r.op = th[t].op
      BY Zenon, SameStubs, GotoCall DEF Pcs, Inside
    <3> HIDE DEF r
    <3>3. ListAssertionsHold'
      BY <2>3, <1>SameFailed
    <3>4. InList(events, t) => r.op = "block" /\ r.pc \in Sleeping
      BY Zenon, <2>2, <2>3, <3>2 DEF Sleeping
    <3> QED BY Zenon, <2>1, <2>2, <2>3, <3>1, <3>2, <3>3, <3>4, <1>OwnCall, SameStubs, <1>SameLists
  <2>4. CASE EvtOf(t) = "idle" /\ SetEvt(t, "blocked") /\ Goto(t, "sleep") /\ UNCHANGED failed
    BY Zenon, <2>3, <2>4, <1>SetEvtFacts
  <2>5. CASE EvtOf(t) = "blocked" /\ ~Listed(t) /\ Goto(t, "ret") /\ UNCHANGED <<te, pte, failed>>
    <3>1. ~InList(events, t)
      BY <2>2, <2>5 DEF Listed
    <3> QED BY Zenon, <2>3, <2>5, <3>1, SameStubs
  <2>6. CASE /\ EvtOf(t) = "triggered"
             /\ IF th[t].op = "block" /\ Listed(t) THEN failed' = 372
                ELSE SetEvt(t, "idle") /\ Goto(t, "ret") /\ UNCHANGED failed
    <3>1. ~InList(events, t)
      BY Zenon, <2>2, <2>6 DEF EvtOf
    <3>2. ~(th[t].op = "block" /\ Listed(t))
      BY <3>1 DEF Listed
    <3> QED BY Zenon, <2>3, <2>6, <3>1, <3>2, <1>SetEvtFacts
  <2> QED BY Zenon, <2>4, <2>5, <2>6 DEF EvtWait
<1>CreatedStep.
  ASSUME TimedInv, NEW t \in Threads, Created(t) PROVE TimedInv'
  <2> USE <1>CreatedStep
  <2>1. PICK pc \in {"ret", "redo"} :
          th' = [th EXCEPT ![t] = [th[t] EXCEPT !.pc = pc, !.amt = 0, !.old = None, !.lag = 0]]
    BY Zenon DEF Created, Armed, Set
  <2> DEFINE r == [th[t] EXCEPT !.pc = pc, !.amt = 0, !.old = None, !.lag = 0]
             p == [pte[t] EXCEPT !.restart = 0]
  <2>2. /\ th[t].pc = "parm"
        /\ UNCHANGED <<events, periodic, timer, age, te, desc, failed>>
        /\ pte' = [pte EXCEPT ![t] = p]
        /\ wakeup_in' = IF th[t].amt = 0 THEN wakeup_in ELSE Timeout(th[t].amt)
    BY DEF Created, stub
  <2>3. ListAssertionsHold'
    BY <2>2, <1>SameFailed
  <2>4. CallOK(r)
    BY Zenon, SameStubs, <1>ArmedCall DEF Pcs, Inside
  <2>5. th' = [th EXCEPT ![t] = r]
    BY <2>1
  <2>6. PteOK(p) /\ p.periodic = pte[t].periodic
    BY SameStubs DEF PteOK, Pte
  <2> HIDE DEF r, p
  <2>7. DOMAIN pte' = Threads /\ \A u \in Threads : PteOK(pte'[u]) /\ pte'[u].periodic = pte[u].periodic
    BY Zenon, <2>2, <2>6, SameStubs
  <2>8. ~InList(events, t)
    BY <2>2, SameStubs DEF Sleeping
  <2>9. th[t].amt \in Nat
    BY SameStubs DEF CallOK, Call
  <2>10. CASE th[t].amt = 0
    <3>1. ~AboutToArm(t) /\ wakeup_in' = wakeup_in
      BY <2>2, <2>10 DEF AboutToArm
    <3> QED BY Zenon, <2>2, <2>3, <2>4, <2>5, <2>7, <2>8, <3>1, <1>OwnCall, SameStubs, <1>SameLists
  <2>11. CASE th[t].amt # 0
    <3>1. wakeup_in' \in Int /\ wakeup_in' # NoTimeout
      BY <2>2, <2>9, <2>11, <1>TimeoutFacts
    <3> QED BY Zenon, <2>2, <2>3, <2>4, <2>5, <2>7, <2>8, <3>1, <1>OwnCall, SameStubs, <1>SameLists
  <2> QED BY <2>10, <2>11
<1>Unchanged.
  ASSUME TimedInv, UNCHANGED <<events, periodic, te, pte, timer, age, wakeup_in, th, desc>>
  PROVE  Types' /\ Flags' /\ Arms'
  <2> USE <1>Unchanged
  <2>1. Types'
    BY Zenon DEF TimedInv, Types
  <2>2. Flags'
    BY Zenon DEF TimedInv, Flags, List
  <2>3. Arms'
    BY Zenon DEF TimedInv, Arms, ExpirationArmed, AboutToArm
  <2> QED BY <2>1, <2>2, <2>3
\* An assertion that the list properties do not rule out.
<1>AssertionStep.
  ASSUME TimedInv, NEW line \in {232, 623, 853}, Assertion(line) PROVE TimedInv'
  <2> USE <1>AssertionStep
  <2>1. UNCHANGED <<events, periodic, te, pte, timer, age, wakeup_in, th, desc>> /\ failed' = line
    BY DEF Assertion, server, sched, stub
  <2>2. ListAssertionsHold'
    BY <2>1 DEF ListAssertionsHold
  <2> QED BY <2>1, <2>2, <1>Unchanged DEF TimedInv
<1>PeriodicWaitStep.
  ASSUME TimedInv, NEW t \in Threads, periodic_wake_wait(t) PROVE TimedInv'
  <2> USE <1>PeriodicWaitStep
  <2> DEFINE p == [pte[t] EXCEPT !.completion = ~pte[t].missed, !.missed = FALSE]
             q == [p EXCEPT !.restart = @ - 1]
             b == [p EXCEPT !.blocked = TRUE]
  <2>1. th[t].pc = "redo" /\ UNCHANGED <<events, periodic, te, timer, age, wakeup_in, desc>>
    BY DEF periodic_wake_wait, Enter, sched, stub
  <2>2. ~AboutToArm(t) /\ ~InList(events, t) /\ (InList(periodic, t) <=> pte[t].periodic)
    BY Zenon, <2>1 DEF AboutToArm, TimedInv, Flags, Sleeping
  <2>3. PteOK(pte[t]) /\ DOMAIN pte = Threads
    BY SameStubs
  <2>4. p \in Pte /\ ~p.missed /\ p.periodic = pte[t].periodic
    BY Zenon, <2>3 DEF PteOK, Pte
  <2>5. \/ pte' = pte
        \/ pte' = [pte EXCEPT ![t] = q]
        \/ pte' = [pte EXCEPT ![t] = b]
    BY DEF periodic_wake_wait
  <2>6. UNCHANGED failed /\ \E pc \in {"err", "ret", "wait"} : Goto(t, pc)
    BY <2>2, <2>3 DEF periodic_wake_wait, PteOK
  <2> HIDE DEF p
  <2>7. PteOK(q) /\ q.periodic = pte[t].periodic
    BY <2>4 DEF PteOK, Pte
  <2>8. PteOK(b) /\ b.periodic = pte[t].periodic
    BY Zenon, <2>4 DEF PteOK, Pte
  <2> HIDE DEF q, b
  <2>9. DOMAIN pte' = Threads /\ \A u \in Threads : PteOK(pte'[u]) /\ pte'[u].periodic = pte[u].periodic
    BY <2>3, <2>5, <2>7, <2>8, SameStubs
  <2>10. PICK pc \in {"err", "ret", "wait"} : Goto(t, pc)
    BY <2>6
  <2> DEFINE r == [th[t] EXCEPT !.pc = pc]
  <2>11. th' = [th EXCEPT ![t] = r]
    BY <2>10 DEF Goto, Set
  <2>12. CallOK(r)
    BY Zenon, SameStubs, GotoCall DEF Pcs, Inside
  <2> HIDE DEF r
  <2>13. ListAssertionsHold'
    BY <2>6, <1>SameFailed
  <2> QED BY Zenon, <2>1, <2>2, <2>9, <2>11, <2>12, <2>13, <1>OwnCall, SameStubs, <1>SameLists
\* No client runs during the timer's walk, or between its last look at the
\* lists and its sleep.
<1>Excluded.
  ASSUME NEW t, MayRun(t)
  PROVE  failed = 0 /\ timer.pc # "walk" /\ timer.pc # "block"
  BY <1>Excluded DEF MayRun
<1>BlockStep.
  ASSUME TimedInv, NEW t \in Threads, timed_event_block(t) PROVE TimedInv'
  <2> USE <1>BlockStep
  <2> DEFINE n == th[t].arg + 1
             r == [th[t] EXCEPT !.pc = "check", !.amt = n, !.old = NextEvent, !.lag = 0]
             x == [NoTe EXCEPT !.blocked = TRUE]
  <2>1. MayRun(t) /\ th[t].pc = "redo" /\ th[t].op = "block"
    BY Zenon DEF timed_event_block, Enter, Function
  <2>2. ~InList(events, t)
    BY <2>1, SameStubs DEF Sleeping
  <2>3. /\ events' = Insert(events, t, n)
        /\ te' = [te EXCEPT ![t] = x]
        /\ th' = [th EXCEPT ![t] = r]
        /\ age' = 0
        /\ UNCHANGED <<periodic, pte, timer, wakeup_in, desc, failed>>
    BY <2>2 DEF timed_event_block, sched, stub, Set
  <2>4. n \in Nat
    <3>1. th[t].arg \in Amounts
      BY <2>1, SameStubs DEF CallOK
    <3>2. th[t].arg \in Nat
      BY <3>1, ArgsNat
    <3> QED BY <3>2
  <2>5. ListOK(events) /\ ListOK(periodic)
    BY DEF TimedInv, Types
  <2>6. NextEvent \in Times /\ (NextEvent = None <=> events = <<>> /\ periodic = <<>>)
    <3>1. next_event_time(events, periodic) \in Times
      BY <2>5, <1>NextEventFacts DEF Times
    <3>2. next_event_time(events, periodic) = None <=> events = <<>> /\ periodic = <<>>
      BY <2>5, <1>NextEventFacts
    <3> QED BY <3>1, <3>2 DEF NextEvent
  <2>7. CallOK(r) /\ r.pc = "check" /\ r.op = "block" /\ r.old = NextEvent
    <3>0. CallOK(th[t])
      BY SameStubs
    <3> DEFINE d == [th[t] EXCEPT !.pc = "check", !.amt = n]
               g == [d EXCEPT !.old = NextEvent]
    <3>1. d \in Call /\ d.op = "block" /\ d.arg = th[t].arg /\ d.pc = "check"
      BY Zenon, <2>1, <2>4, <3>0 DEF CallOK, Call, Pcs, Inside
    <3>2. r = [g EXCEPT !.lag = 0]
      OBVIOUS
    <3> HIDE DEF d
    <3>3. g \in Call /\ g.op = "block" /\ g.arg = th[t].arg /\ g.pc = "check" /\ g.old = NextEvent
      BY <2>6, <3>1 DEF Call
    <3> HIDE DEF g, r
    <3>4. r \in Call /\ r.op = "block" /\ r.arg = th[t].arg /\ r.pc = "check" /\ r.old = NextEvent
      BY <3>2, <3>3 DEF Call
    <3> QED BY Zenon, <2>1, <3>0, <3>4 DEF CallOK
  <2>8. x \in Te /\ x.evt = "idle"
    BY Zenon DEF NoTe, Te, Evts
  <2> HIDE DEF n, r, x
  <2>9. /\ ListOK(events') /\ events' # <<>>
        /\ \A u \in Threads : InList(events', u) <=> InList(events, u) \/ u = t
    BY <2>2, <2>3, <2>4, <2>5, InsList
  <2>10. /\ DOMAIN th' = Threads /\ th'[t] = r
         /\ \A u \in Threads \ {t} : th'[u] = th[u]
         /\ \A u \in Threads : CallOK(th'[u])
    BY Zenon, <2>3, <2>7 DEF TimedInv, Types
  <2>11. /\ te' \in [Threads -> Te] /\ te'[t] = x
         /\ \A u \in Threads \ {t} : te'[u] = te[u]
    BY <2>3, <2>8 DEF TimedInv, Types
  <2>12. Types'
    BY <2>3, <2>5, <2>9, <2>10, <2>11 DEF TimedInv, Types
  <2>13. Flags'
    <3>1. ASSUME NEW u \in Threads, InList(events', u)
          PROVE  th'[u].op = "block" /\ th'[u].pc \in Sleeping /\ te'[u].evt # "triggered"
      BY Zenon, <2>7, <2>8, <2>9, <2>10, <2>11, <3>1 DEF TimedInv, Flags, Sleeping
    <3>2. \A u \in Threads : InList(periodic', u) <=> pte'[u].periodic
      BY Zenon, <2>3 DEF TimedInv, Flags
    <3> QED BY Zenon, <2>1, <2>3, <3>1, <3>2, <1>Excluded DEF Flags
  <2>14. ExpirationArmed'
    <3>1. CASE events = <<>> /\ periodic = <<>>
      <4>1. AboutToArm(t)'
        BY <2>6, <2>7, <2>10, <3>1 DEF AboutToArm
      <4> QED BY Zenon, <4>1 DEF ExpirationArmed
    <3>2. CASE ~(events = <<>> /\ periodic = <<>>)
      <4>1. ~AboutToArm(t)
        BY Zenon, <2>1 DEF AboutToArm
      <4>2. \A u \in Threads : AboutToArm(u) => AboutToArm(u)'
        BY <2>10, <4>1 DEF AboutToArm
      <4> QED BY <2>3, <3>2, <4>2 DEF TimedInv, Arms, ExpirationArmed
    <3> QED BY <3>1, <3>2
  <2>15. Arms' /\ ListAssertionsHold'
    <3>1. Arms'
      BY <2>1, <2>3, <2>14, <1>Excluded DEF Arms
    <3>2. ListAssertionsHold'
      BY <2>3, <1>SameFailed
    <3> QED BY <3>1, <3>2
  <2> QED BY <2>12, <2>13, <2>15 DEF TimedInv
<1>WakeupStep.
  ASSUME TimedInv, NEW t \in Threads, timed_event_wakeup(t) PROVE TimedInv'
  <2> USE <1>WakeupStep
  <2>1. MayRun(t) /\ th[t].pc = "redo"
    BY DEF timed_event_wakeup, Enter
  <2>2. PICK pc \in {"kick", "ret"} : th' = [th EXCEPT ![t] = [th[t] EXCEPT !.pc = pc]]
    BY Zenon DEF timed_event_wakeup, Goto, Set
  <2> DEFINE r == [th[t] EXCEPT !.pc = pc]
  <2>3. /\ events' = REM_LIST(events, th[t].arg)
        /\ age' = 0
        /\ UNCHANGED <<periodic, te, pte, timer, wakeup_in, desc, failed>>
    BY DEF timed_event_wakeup, sched, stub
  <2>4. CallOK(r)
    BY Zenon, SameStubs, GotoCall DEF Pcs, Inside
  <2>5. th' = [th EXCEPT ![t] = r]
    BY Zenon, <2>2
  <2> HIDE DEF r
  <2>6. ~InList(events, t) /\ ~AboutToArm(t)
    BY Zenon, <2>1, SameStubs DEF Sleeping, AboutToArm
  <2>7. ListOK(events) /\ ListOK(periodic)
    BY Zenon DEF TimedInv, Types
  <2>8. /\ ListOK(events') /\ (events' # <<>> => events # <<>>)
        /\ \A u \in Threads : InList(events', u) => InList(events, u)
    BY <2>3, <2>7, RemList
  <2>9. /\ DOMAIN th' = Threads
        /\ \A u \in Threads : CallOK(th'[u])
        /\ \A u \in Threads : InList(events, u) => th'[u].op = "block" /\ th'[u].pc \in Sleeping
        /\ \A u \in Threads : AboutToArm(u) => AboutToArm(u)'
    BY Zenon, <2>4, <2>5, <2>6, <1>OwnCall
  <2>10. Types'
    <3>1. /\ te' \in [Threads -> Te]
          /\ DOMAIN pte' = Threads /\ \A u \in Threads : PteOK(pte'[u])
          /\ desc' \in [Threads -> Desc]
          /\ timer' \in Walk
          /\ age' \in Int /\ wakeup_in' \in Int
      BY <2>3 DEF TimedInv, Types
    <3>2. ListOK(periodic')
      BY Zenon, <2>3, <2>7
    <3> QED BY Zenon, <2>8, <2>9, <3>1, <3>2 DEF Types
  <2>11. Flags'
    <3>1. \A u \in Threads : InList(events', u) =>
            th'[u].op = "block" /\ th'[u].pc \in Sleeping /\ te'[u].evt # "triggered"
      BY Zenon, <2>3, <2>8, <2>9 DEF TimedInv, Flags
    <3>2. \A u \in Threads : InList(periodic', u) <=> pte'[u].periodic
      BY <2>3 DEF TimedInv, Flags
    <3> QED BY Zenon, <2>1, <2>3, <3>1, <3>2, <1>Excluded DEF Flags
  <2>12. ExpirationArmed'
    BY Zenon, <2>3, <2>8, <2>9 DEF TimedInv, Arms, ExpirationArmed
  <2>13. Arms' /\ ListAssertionsHold'
    <3>1. Arms'
      BY <2>1, <2>3, <2>12, <1>Excluded DEF Arms
    <3>2. ListAssertionsHold'
      BY <2>3, <1>SameFailed
    <3> QED BY <3>1, <3>2
  <2> QED BY Zenon, <2>10, <2>11, <2>13 DEF TimedInv
<1>RemoveStep.
  ASSUME TimedInv, NEW t \in Threads, periodic_wake_remove(t) PROVE TimedInv'
  <2> USE <1>RemoveStep
  <2> DEFINE p == [pte[t] EXCEPT !.periodic = FALSE, !.blocked = FALSE]
  <2>1. MayRun(t) /\ th[t].pc = "redo"
    BY DEF periodic_wake_remove, Enter
  <2>2. ~(pte[t].periodic /\ ~InList(periodic, t))
    BY DEF TimedInv, Flags
  <2>3. /\ periodic' = REM_LIST(periodic, t)
        /\ pte' = [pte EXCEPT ![t] = p]
        /\ UNCHANGED <<events, te, timer, age, wakeup_in, desc, failed>>
    <3>1. pte' = [pte EXCEPT ![t].periodic = FALSE, ![t].blocked = FALSE]
      BY Zenon, <2>2 DEF periodic_wake_remove
    <3>2. pte' = [pte EXCEPT ![t] = p]
      BY Zenon, <3>1, SameStubs
    <3> HIDE DEF p
    <3> QED BY <2>2, <3>2 DEF periodic_wake_remove, sched, stub
  <2>4. PICK pc \in {"ret", "err"} : th' = [th EXCEPT ![t] = [th[t] EXCEPT !.pc = pc]]
    BY <2>2 DEF periodic_wake_remove, Goto, Set
  <2> DEFINE r == [th[t] EXCEPT !.pc = pc]
  <2>5. CallOK(r)
    BY Zenon, SameStubs, GotoCall DEF Pcs, Inside
  <2>6. th' = [th EXCEPT ![t] = r]
    BY <2>4
  <2>7. PteOK(p) /\ ~p.periodic
    BY Zenon, SameStubs DEF PteOK, Pte
  <2> HIDE DEF r, p
  <2>8. ~InList(events, t) /\ ~AboutToArm(t)
    BY Zenon, <2>1, SameStubs DEF Sleeping, AboutToArm
  <2>9. ListOK(events) /\ ListOK(periodic)
    BY Zenon DEF TimedInv, Types
  <2>10. /\ ListOK(periodic') /\ (periodic' # <<>> => periodic # <<>>)
         /\ \A u \in Threads : InList(periodic', u) <=> InList(periodic, u) /\ u # t
    BY <2>3, <2>9, RemList
  <2>11. /\ DOMAIN th' = Threads
         /\ \A u \in Threads : CallOK(th'[u])
         /\ \A u \in Threads : InList(events, u) => th'[u].op = "block" /\ th'[u].pc \in Sleeping
         /\ \A u \in Threads : AboutToArm(u) => AboutToArm(u)'
    BY Zenon, <2>5, <2>6, <2>8, <1>OwnCall
  <2>12. /\ DOMAIN pte' = Threads /\ pte'[t] = p
         /\ \A u \in Threads \ {t} : pte'[u] = pte[u]
         /\ \A u \in Threads : PteOK(pte'[u])
    BY Zenon, <2>3, <2>7, SameStubs
  <2>13. Types'
    BY Zenon, <2>3, <2>9, <2>10, <2>11, <2>12 DEF TimedInv, Types
  <2>14. Flags'
    <3>1. \A u \in Threads : InList(events', u) =>
            th'[u].op = "block" /\ th'[u].pc \in Sleeping /\ te'[u].evt # "triggered"
      BY Zenon, <2>3, <2>11 DEF TimedInv, Flags
    <3>2. \A u \in Threads : InList(periodic, u) <=> pte[u].periodic
      BY Zenon DEF TimedInv, Flags
    <3>3. \A u \in Threads : InList(periodic', u) <=> pte'[u].periodic
      BY Zenon, <2>7, <2>10, <2>12, <3>2
    <3> QED BY Zenon, <2>1, <2>3, <3>1, <3>3, <1>Excluded DEF Flags
  <2>15. ExpirationArmed'
    BY Zenon, <2>3, <2>10, <2>11 DEF TimedInv, Arms, ExpirationArmed
  <2>16. Arms' /\ ListAssertionsHold'
    <3>1. Arms'
      BY <2>1, <2>3, <2>15, <1>Excluded DEF Arms
    <3>2. ListAssertionsHold'
      BY <2>3, <1>SameFailed
    <3> QED BY <3>1, <3>2
  <2> QED BY <2>13, <2>14, <2>16 DEF TimedInv
<1>CreateStep.
  ASSUME TimedInv, NEW t \in Threads, NEW f \in {"create", "exist"}, periodic_wake_create(t, f)
  PROVE  TimedInv'
  <2> USE <1>CreateStep
  <2> DEFINE period == IF f = "create" THEN th[t].arg ELSE desc[t].period
             others == REM_LIST(periodic, t)
             next == next_event_time(events, others)
  <2>1. MayRun(t) /\ th[t].pc = "redo" /\ Function(t) = f
    BY Zenon DEF periodic_wake_create, Enter
  <2>2. pte[t].periodic = InList(periodic, t)
    <3>1. InList(periodic, t) <=> pte[t].periodic
      BY Zenon DEF TimedInv, Flags
    <3>2. pte[t].periodic \in BOOLEAN
      BY SameStubs DEF PteOK, Pte
    <3>3. InList(periodic, t) \in BOOLEAN
      BY DEF InList
    <3> QED BY <3>1, <3>2, <3>3
  <2>3. CASE Assertion(623)
    BY <2>3, <1>AssertionStep
  <2>4. ASSUME NEW n \in IF f = "create" THEN {period} ELSE 1..period,
               periodic' = Insert(others, t, n),
               pte' = [pte EXCEPT ![t].periodic = TRUE, ![t].period = period, ![t].evt = "idle"],
               Set(t, [th[t] EXCEPT !.pc = "parm", !.lag = 0, !.amt = IF Before(n, next) THEN n ELSE 0]),
               age' = 0,
               desc' = IF f = "exist" THEN [desc EXCEPT ![t].st = "current"] ELSE desc,
               UNCHANGED <<events, te, timer, wakeup_in, failed>>
        PROVE  TimedInv'
    <3>1. period \in Nat /\ n \in Nat /\ n > 0
      <4>1. CASE f = "create"
        <5>1. th[t].arg \in Periods
          BY Zenon, <2>1, <4>1, SameStubs DEF Function, CallOK
        <5>2. n = period /\ period = th[t].arg
          BY Zenon, <2>4, <4>1
        <5> HIDE DEF period
        <5> QED BY Zenon, <5>1, <5>2, ArgsNat
      <4>2. CASE f = "exist"
        <5>1. period \in Nat /\ n \in 1..period
          BY <2>4, <4>2, SameStubs DEF Desc
        <5> QED BY Zenon, <5>1, Ranges
      <4> QED BY Zenon, <4>1, <4>2
    <3> DEFINE p1 == [pte[t] EXCEPT !.periodic = TRUE, !.period = period]
               p == [p1 EXCEPT !.evt = "idle"]
               a == IF Before(n, next) THEN n ELSE 0
               r1 == [th[t] EXCEPT !.pc = "parm", !.lag = 0]
               r == [r1 EXCEPT !.amt = a]
    <3>2. pte' = [pte EXCEPT ![t] = p] /\ DOMAIN pte = Threads
      BY Zenon, <2>4, SameStubs
    <3>3. th' = [th EXCEPT ![t] = r]
      BY <2>4 DEF Set
    <3> HIDE DEF period, a
    <3>4. PteOK(p1) /\ p1.periodic
      BY Zenon, <3>1, SameStubs DEF PteOK, Pte
    <3>5. r1 \in Call /\ r1.op = th[t].op /\ r1.arg = th[t].arg /\ r1.pc = "parm"
      <4>1. th[t] \in Call
        BY Zenon, SameStubs DEF CallOK
      <4>2. "parm" \in Pcs
        BY DEF Pcs, Inside
      <4> DEFINE d == [th[t] EXCEPT !.pc = "parm"]
      <4>3. d \in Call /\ d.op = th[t].op /\ d.arg = th[t].arg /\ d.pc = "parm"
        BY <4>1, <4>2 DEF Call
      <4>4. r1 = [d EXCEPT !.lag = 0]
        OBVIOUS
      <4> HIDE DEF d, r1
      <4> QED BY <4>3, <4>4 DEF Call
    <3> HIDE DEF p1, r1
    <3>6. PteOK(p) /\ p.periodic
      BY <3>4 DEF PteOK, Pte, Evts
    <3>7. a \in Nat
      BY <3>1 DEF a
    <3>8. r \in Call /\ r.op = th[t].op /\ r.arg = th[t].arg /\ r.pc = "parm" /\ r.amt = a
      BY <3>5, <3>7 DEF Call
    <3> HIDE DEF p, r
    <3>9. CallOK(r)
      <4>1. CallOK(th[t])
        BY Zenon, SameStubs
      <4> QED BY <3>8, <4>1 DEF CallOK
    <3>10. ~InList(events, t) /\ ~AboutToArm(t)
      BY Zenon, <2>1, SameStubs DEF Sleeping, AboutToArm
    <3>11. ListOK(events) /\ ListOK(periodic)
      BY DEF TimedInv, Types
    <3>12. /\ ListOK(others) /\ (others # <<>> => periodic # <<>>)
           /\ \A u \in Threads : InList(others, u) <=> InList(periodic, u) /\ u # t
      BY <3>11, RemList
    <3>13. next \in Int \cup {None} /\ (next = None <=> events = <<>> /\ others = <<>>)
      BY <3>11, <3>12, <1>NextEventFacts
    <3> HIDE DEF others, next
    <3>14. /\ ListOK(periodic')
           /\ \A u \in Threads : InList(periodic', u) <=> InList(periodic, u) \/ u = t
      BY <2>4, <3>1, <3>12, InsList
    <3>15. /\ DOMAIN th' = Threads /\ th'[t] = r
           /\ \A u \in Threads : CallOK(th'[u])
           /\ \A u \in Threads : InList(events, u) => th'[u].op = "block" /\ th'[u].pc \in Sleeping
           /\ \A u \in Threads : AboutToArm(u) => AboutToArm(u)'
      BY Zenon, <3>3, <3>9, <3>10, <1>OwnCall
    <3>16. /\ DOMAIN pte' = Threads /\ pte'[t] = p
           /\ \A u \in Threads \ {t} : pte'[u] = pte[u]
           /\ \A u \in Threads : PteOK(pte'[u])
      BY <3>2, <3>6, SameStubs
    <3>17. desc' \in [Threads -> Desc]
      BY <2>4, SameStubs DEF Desc
    <3>18. Types'
      BY <2>4, <3>11, <3>14, <3>15, <3>16, <3>17 DEF TimedInv, Types
    <3>19. Flags'
      <4>1. \A u \in Threads : InList(events', u) =>
              th'[u].op = "block" /\ th'[u].pc \in Sleeping /\ te'[u].evt # "triggered"
        BY Zenon, <2>4, <3>15 DEF TimedInv, Flags
      <4>2. \A u \in Threads : InList(periodic, u) <=> pte[u].periodic
        BY Zenon DEF TimedInv, Flags
      <4>3. \A u \in Threads : InList(periodic', u) <=> pte'[u].periodic
        BY <3>6, <3>14, <3>16, <4>2
      <4> QED BY Zenon, <2>1, <2>4, <4>1, <4>3, <1>Excluded DEF Flags
    <3>20. ExpirationArmed'
      <4>1. CASE Before(n, next)
        <5>1. AboutToArm(t)'
          BY <3>1, <3>8, <3>15, <4>1 DEF AboutToArm, a
        <5> QED BY Zenon, <5>1 DEF ExpirationArmed
      <4>2. CASE ~Before(n, next)
        <5>1. n # None
          BY <3>1, TimedAssumption
        <5>2. next # None
          BY <4>2, <5>1 DEF Before
        <5>3. ~(events = <<>> /\ periodic = <<>>)
          BY <3>12, <3>13, <5>2
        <5> QED BY <2>4, <3>15, <5>3 DEF TimedInv, Arms, ExpirationArmed
      <4> QED BY <4>1, <4>2
    <3>21. Arms' /\ ListAssertionsHold'
      BY <2>1, <2>4, <3>20, <1>Excluded DEF Arms, ListAssertionsHold
    <3> QED BY Zenon, <3>18, <3>19, <3>21 DEF TimedInv
  <2> QED BY Zenon, <2>2, <2>3, <2>4 DEF periodic_wake_create, sched
<1>TimerOnly.
  ASSUME TimedInv,
         UNCHANGED <<events, periodic, te, pte, th, desc, failed>>,
         timer' \in Walk, age' \in Int, wakeup_in' \in Int,
         timer'.pc = "walk" /\ timer'.tmp # None =>
           InList(IF timer'.list = "periodic" THEN periodic ELSE events, timer'.tmp),
         timer'.pc = "block" => events = <<>> /\ periodic = <<>>,
         timer'.pc = "asleep" => wakeup_in' # NoTimeout \/ (events = <<>> /\ periodic = <<>>)
  PROVE  TimedInv'
  <2> USE <1>TimerOnly
  <2>1. Types'
    BY Zenon DEF TimedInv, Types
  <2>2. Flags'
    <3>1. List' = IF timer'.list = "periodic" THEN periodic ELSE events
      BY DEF List
    <3>2. timer'.pc = "walk" /\ timer'.tmp # None => InList(List', timer'.tmp)
      BY Zenon, <3>1
    <3>3. \A u \in Threads : InList(events', u) =>
            th'[u].op = "block" /\ th'[u].pc \in Sleeping /\ te'[u].evt # "triggered"
      BY Zenon DEF TimedInv, Flags
    <3>4. \A u \in Threads : InList(periodic', u) <=> pte'[u].periodic
      BY DEF TimedInv, Flags
    <3> QED BY Zenon, <3>2, <3>3, <3>4 DEF Flags
  <2>3. Arms' /\ ListAssertionsHold'
    BY DEF TimedInv, Arms, ExpirationArmed, ListAssertionsHold
  <2> QED BY Zenon, <2>1, <2>2, <2>3 DEF TimedInv
<1>TimerStampStep.
  ASSUME TimedInv, TimerStamp PROVE TimedInv'
  <2> USE <1>TimerStampStep
  <2>1. /\ timer' = [timer EXCEPT !.pc = "take"] /\ age' = 0
        /\ UNCHANGED <<events, periodic, te, pte, th, desc, failed, wakeup_in>>
    BY DEF TimerStamp, server, sched, stub
  <2>2. timer' \in Walk /\ timer'.pc = "take"
    BY <2>1, TimerFacts DEF Walk
  <2> QED BY <2>1, <2>2, TimerFacts, <1>TimerOnly
<1>TimerTakeStep.
  ASSUME TimedInv, TimerTake PROVE TimedInv'
  <2> USE <1>TimerTakeStep
  <2> DEFINE f == FirstThd(periodic)
  <2>1. /\ timer' = [timer EXCEPT !.pc = "walk", !.list = "periodic", !.tmp = f]
        /\ UNCHANGED <<events, periodic, te, pte, th, desc, failed, wakeup_in, age>>
    BY DEF TimerTake, server, sched, stub
  <2>2. f \in Threads \cup {None} /\ (f # None => InList(periodic, f))
    BY TimerFacts, <1>FirstFacts
  <2> HIDE DEF f
  <2>3. timer'.pc = "walk" /\ timer'.list = "periodic" /\ timer'.tmp = f
    BY <2>1, TimerFacts DEF Walk
  <2>4. timer' \in Walk
    <3> DEFINE d == [timer EXCEPT !.pc = "walk", !.list = "periodic"]
    <3>1. d \in Walk
      BY Zenon, TimerFacts DEF Walk
    <3>2. timer' = [d EXCEPT !.tmp = f]
      BY <2>1
    <3> HIDE DEF d
    <3> QED BY <2>2, <3>1, <3>2 DEF Walk
  <2> QED BY <2>1, <2>2, <2>3, <2>4, TimerFacts, <1>TimerOnly
<1>EndPeriodicStep.
  ASSUME TimedInv, EndPeriodic PROVE TimedInv'
  <2> USE <1>EndPeriodicStep
  <2> DEFINE f == FirstThd(events)
  <2>1. /\ timer' = [timer EXCEPT !.list = "events", !.tmp = f] /\ timer.pc = "walk"
        /\ UNCHANGED <<events, periodic, te, pte, th, desc, failed, wakeup_in, age>>
    BY DEF EndPeriodic, Walking, server, sched, stub
  <2>2. f \in Threads \cup {None} /\ (f # None => InList(events, f))
    BY TimerFacts, <1>FirstFacts
  <2> HIDE DEF f
  <2>3. timer'.pc = "walk" /\ timer'.list = "events" /\ timer'.tmp = f
    BY <2>1, TimerFacts DEF Walk
  <2>4. timer' \in Walk
    BY Zenon, <2>1, <2>2, TimerFacts DEF Walk
  <2> QED BY <2>1, <2>2, <2>3, <2>4, TimerFacts, <1>TimerOnly
<1>NextWakeupStep.
  ASSUME TimedInv, NextWakeup PROVE TimedInv'
  <2> USE <1>NextWakeupStep
  <2>1. CASE NextEvent # None /\ NextEvent <= -age
    BY <2>1, <1>AssertionStep DEF NextWakeup
  <2>2. CASE ~(NextEvent # None /\ NextEvent <= -age)
    <3>1. /\ timer' = IF NextEvent = None THEN [timer EXCEPT !.pc = "block", !.tmp = None]
                      ELSE [timer EXCEPT !.pc = "arm", !.tmp = None, !.amt = NextEvent + age]
          /\ UNCHANGED <<events, periodic, te, pte, th, desc, failed, wakeup_in, age>>
      BY <2>2 DEF NextWakeup, server, sched, stub
    <3>2. NextEvent \in Int \cup {None} /\ (NextEvent = None <=> events = <<>> /\ periodic = <<>>)
      BY TimerFacts, <1>NextEventFacts DEF NextEvent
    <3>3. CASE NextEvent = None
      <4>1. timer' \in Walk /\ timer'.pc = "block"
        BY Zenon, <3>1, <3>3, TimerFacts DEF Walk
      <4> QED BY <3>1, <3>2, <3>3, <4>1, TimerFacts, <1>TimerOnly
    <3>4. CASE NextEvent # None
      <4> DEFINE d == [timer EXCEPT !.pc = "arm", !.tmp = None]
                 a == NextEvent + age
      <4>1. a \in Nat
        BY <2>2, <3>2, <3>4, TimerFacts
      <4>2. d \in Walk /\ d.pc = "arm"
        BY Zenon, TimerFacts DEF Walk
      <4>3. timer' = [d EXCEPT !.amt = a]
        BY <3>1, <3>4
      <4> HIDE DEF a, d
      <4>4. timer' \in Walk /\ timer'.pc = "arm"
        BY <4>1, <4>2, <4>3 DEF Walk
      <4> QED BY <3>1, <4>4, TimerFacts, <1>TimerOnly
    <3> QED BY <3>3, <3>4
  <2> QED BY <2>1, <2>2
<1>TimerSleepStep.
  ASSUME TimedInv, TimerSleep PROVE TimedInv'
  <2> USE <1>TimerSleepStep
  <2>1. PICK pc \in {"stamp", "asleep"} : timer' = [timer EXCEPT !.pc = pc, !.amt = 0]
    BY Zenon DEF TimerSleep
  <2>2. /\ timer.pc \in {"arm", "block"} /\ age' = 0
        /\ wakeup_in' = IF timer.pc = "arm" THEN Timeout(timer.amt) ELSE wakeup_in
        /\ UNCHANGED <<events, periodic, te, pte, th, desc, failed>>
    BY DEF TimerSleep, server, stub
  <2>3. timer' \in Walk /\ timer'.pc = pc /\ timer.amt \in Nat
    BY Zenon, <2>1, TimerFacts DEF Walk
  <2>4. CASE timer.pc = "arm"
    <3>1. wakeup_in' \in Int /\ wakeup_in' # NoTimeout
      BY <2>2, <2>3, <2>4, <1>TimeoutFacts
    <3> QED BY <2>2, <2>3, <3>1, <1>TimerOnly
  <2>5. CASE timer.pc = "block"
    <3>1. events = <<>> /\ periodic = <<>> /\ wakeup_in' = wakeup_in
      BY <2>2, <2>5 DEF TimedInv, Arms
    <3> QED BY <2>2, <2>3, <3>1, TimerFacts, <1>TimerOnly
  <2> QED BY <2>2, <2>4, <2>5
\* The timer wakes the thread it has expired, or leaves the calls alone.
<1>TriggerCalls.
  ASSUME TimedInv, NEW u \in Threads, NEW evt, Trigger(u, evt) \/ UNCHANGED <<th, wake>>
  PROVE  /\ DOMAIN th' = Threads
         /\ \A v \in Threads : CallOK(th'[v])
         /\ \A v \in Threads : InList(events, v) => th'[v].op = "block" /\ th'[v].pc \in Sleeping
  <2> USE <1>TriggerCalls
  <2>1. th' = th \/ (th[u].pc = "asleep" /\ th' = [th EXCEPT ![u].pc = "wait"])
    BY DEF Trigger, Wakeup
  <2>2. CASE th' = th
    BY Zenon, <2>2, SameStubs DEF TimedInv, Types
  <2>3. CASE th[u].pc = "asleep" /\ th' = [th EXCEPT ![u].pc = "wait"]
    BY Zenon, <2>3, <1>WakeupCall
  <2> QED BY <2>1, <2>2, <2>3
<1>ExpireEventStep.
  ASSUME TimedInv, ExpireEvent PROVE TimedInv'
  <2> USE <1>ExpireEventStep
  <2> DEFINE t == timer.tmp
             nx == NextThd(events, t)
             x1 == [te[t] EXCEPT !.timed_out = TRUE, !.blocked = FALSE]
             x == [x1 EXCEPT !.evt = IF te[t].blocked THEN "triggered" ELSE te[t].evt]
  <2>1. timer.pc = "walk" /\ timer.list = "events" /\ t # None
    BY Zenon DEF ExpireEvent, Walking, Expired
  <2>2. t \in Threads /\ InList(events, t)
    <3>1. t \in Threads
      BY <2>1, TimerFacts DEF Walk
    <3> QED BY <2>1, <3>1 DEF TimedInv, Flags, List
  <2>3. /\ events' = REM_LIST(events, t)
        /\ timer' = [timer EXCEPT !.tmp = nx]
        /\ UNCHANGED <<periodic, pte, age, wakeup_in, desc, failed>>
    BY DEF ExpireEvent, stub
  <2>4. Trigger(t, te[t].evt) \/ UNCHANGED <<th, wake>>
    BY DEF ExpireEvent
  <2>5. te' = [te EXCEPT ![t] = x] /\ te \in [Threads -> Te]
    BY Zenon, <2>2, SameStubs DEF ExpireEvent, Te
  <2>6. x1 \in Te /\ te[t].evt \in Evts
    BY Zenon, <2>2, <2>5 DEF Te
  <2> HIDE DEF x1
  <2>7. x \in Te
    BY <2>6 DEF Te, Evts
  <2> HIDE DEF x
  <2>8. nx \in Threads \cup {None} /\ (nx # None => InList(events, nx) /\ nx # t)
    BY Zenon, <2>2, TimerFacts, NextFacts
  <2> HIDE DEF nx
  <2>9. timer' \in Walk /\ timer'.pc = "walk" /\ timer'.list = "events" /\ timer'.tmp = nx
    BY <2>1, <2>3, <2>8, TimerFacts DEF Walk
  <2>10. /\ ListOK(events')
         /\ \A u \in Threads : InList(events', u) <=> InList(events, u) /\ u # t
    BY Zenon, <2>3, TimerFacts, RemList
  <2>11. /\ DOMAIN th' = Threads
         /\ \A v \in Threads : CallOK(th'[v])
         /\ \A v \in Threads : InList(events, v) => th'[v].op = "block" /\ th'[v].pc \in Sleeping
    BY <2>2, <2>4, <1>TriggerCalls
  <2>12. te' \in [Threads -> Te] /\ \A u \in Threads \ {t} : te'[u] = te[u]
    BY Zenon, <2>5, <2>7
  <2> HIDE DEF t
  <2>13. Types'
    BY Zenon, <2>3, <2>9, <2>10, <2>11, <2>12 DEF TimedInv, Types
  <2>14. Flags'
    <3>1. \A u \in Threads : InList(events', u) =>
            th'[u].op = "block" /\ th'[u].pc \in Sleeping /\ te'[u].evt # "triggered"
      BY Zenon, <2>10, <2>11, <2>12 DEF TimedInv, Flags
    <3>2. \A u \in Threads : InList(periodic', u) <=> pte'[u].periodic
      BY <2>3 DEF TimedInv, Flags
    <3>3. timer'.tmp # None => InList(List', timer'.tmp)
      BY <2>8, <2>9, <2>10 DEF List
    <3> QED BY Zenon, <3>1, <3>2, <3>3 DEF Flags
  <2>15. Arms' /\ ListAssertionsHold'
    BY <2>3, <2>9 DEF TimedInv, Arms, ExpirationArmed, ListAssertionsHold
  <2> QED BY <2>13, <2>14, <2>15 DEF TimedInv
\* What an expiration makes of a periodic thread_event.
<1>ExpiredPte.
  ASSUME NEW p, PteOK(p)
  PROVE  /\ ~p.blocked => PteOK(Missed(p)) /\ Missed(p).periodic = p.periodic
         /\ ~p.missed => PteOK(Released(p)) /\ Released(p).periodic = p.periodic
  <2> USE <1>ExpiredPte
  <2>1. PteOK([p EXCEPT !.restart = @ + 1]) /\ [p EXCEPT !.restart = @ + 1].periodic = p.periodic
    BY DEF PteOK, Pte
  <2>2. ASSUME ~p.blocked PROVE PteOK(Missed(p)) /\ Missed(p).periodic = p.periodic
    <3> DEFINE d == [p EXCEPT !.restart = @ + 1]
    <3>1. PteOK(d) /\ ~d.blocked /\ d.periodic = p.periodic
      BY <2>1, <2>2 DEF PteOK, Pte
    <3>2. Missed(p) = [d EXCEPT !.missed = TRUE, !.completion = TRUE]
      BY DEF Missed
    <3> HIDE DEF d
    <3> QED BY Zenon, <3>1, <3>2 DEF PteOK, Pte
  <2>3. ASSUME ~p.missed PROVE PteOK(Released(p)) /\ Released(p).periodic = p.periodic
    <3> DEFINE d == [p EXCEPT !.blocked = FALSE, !.completion = FALSE]
    <3>1. PteOK(d) /\ d.periodic = p.periodic
      BY Zenon, <2>3 DEF PteOK, Pte
    <3>2. Released(p) = [d EXCEPT !.evt = "triggered"]
      BY DEF Released
    <3> HIDE DEF d
    <3> QED BY <3>1, <3>2 DEF PteOK, Pte, Evts
  <2> QED BY <2>2, <2>3
<1>ExpirePeriodicStep.
  ASSUME TimedInv, ExpirePeriodic PROVE TimedInv'
  <2> USE <1>ExpirePeriodicStep
  <2> DEFINE t == timer.tmp
             nx == NextThd(periodic, t)
             p == pte[t]
             q == IF p.blocked THEN Released(p) ELSE Missed(p)
             rest == REM_LIST(periodic, t)
             exp == periodic[Place(periodic, t)].exp + p.period
  <2>1. timer.pc = "walk" /\ timer.list = "periodic" /\ t # None
    BY DEF ExpirePeriodic, Walking, Expired
  <2>2. t \in Threads /\ InList(periodic, t)
    <3>1. t \in Threads
      BY Zenon, <2>1, TimerFacts DEF Walk
    <3> QED BY Zenon, <2>1, <3>1 DEF TimedInv, Flags, List
  <2>3. PteOK(p) /\ DOMAIN pte = Threads /\ p.period \in Nat
    BY <2>2, SameStubs DEF PteOK, Pte
  <2>4. p.blocked => ~p.missed
    BY <2>3 DEF PteOK
  <2>5. CASE p.blocked /\ (p.missed \/ ~p.completion)
    BY <2>4, <2>5, <1>AssertionStep DEF ExpirePeriodic
  <2>6. CASE ~(p.blocked /\ (p.missed \/ ~p.completion))
    <3>1. /\ periodic' = Insert(rest, t, exp)
          /\ pte' = [pte EXCEPT ![t] = q]
          /\ timer' = [timer EXCEPT !.tmp = nx]
          /\ UNCHANGED <<events, te, age, wakeup_in, desc, failed>>
      BY <2>6 DEF ExpirePeriodic, stub
    <3>2. Trigger(t, p.evt) \/ UNCHANGED <<th, wake>>
      BY <2>6 DEF ExpirePeriodic
    <3>3. PteOK(q) /\ q.periodic = p.periodic
      <4>1. CASE p.blocked
        BY Zenon, <2>3, <2>4, <4>1, <1>ExpiredPte
      <4>2. CASE ~p.blocked
        BY Zenon, <2>3, <4>2, <1>ExpiredPte
      <4> QED BY Zenon, <4>1, <4>2
    <3> HIDE DEF q
    <3>4. nx \in Threads \cup {None} /\ (nx # None => InList(periodic, nx) /\ nx # t)
      BY <2>2, TimerFacts, NextFacts
    <3>5. exp \in Int
      <4>1. periodic[Place(periodic, t)].exp \in Int
        BY <2>2, TimerFacts, NextFacts
      <4> QED BY <2>3, <4>1
    <3> HIDE DEF nx, exp
    <3>6. timer' \in Walk /\ timer'.pc = "walk" /\ timer'.list = "periodic" /\ timer'.tmp = nx
      BY <2>1, <3>1, <3>4, TimerFacts DEF Walk
    <3>7. ListOK(rest) /\ \A u \in Threads : InList(rest, u) <=> InList(periodic, u) /\ u # t
      BY TimerFacts, RemList
    <3> HIDE DEF rest
    <3>8. /\ ListOK(periodic')
          /\ \A u \in Threads : InList(periodic', u) <=> InList(rest, u) \/ u = t
      BY <2>2, <3>1, <3>5, <3>7, InsList
    <3>9. \A u \in Threads : InList(periodic', u) <=> InList(periodic, u)
      BY Zenon, <2>2, <3>7, <3>8
    <3>10. /\ DOMAIN th' = Threads
           /\ \A v \in Threads : CallOK(th'[v])
           /\ \A v \in Threads : InList(events, v) => th'[v].op = "block" /\ th'[v].pc \in Sleeping
      BY <2>2, <3>2, <1>TriggerCalls
    <3>11. /\ DOMAIN pte' = Threads
           /\ \A u \in Threads : PteOK(pte'[u]) /\ pte'[u].periodic = pte[u].periodic
      BY <2>3, <3>1, <3>3, SameStubs
    <3> HIDE DEF t, p
    <3>12. Types'
      BY <3>1, <3>6, <3>8, <3>10, <3>11 DEF TimedInv, Types
    <3>13. Flags'
      <4>1. \A u \in Threads : InList(events', u) =>
              th'[u].op = "block" /\ th'[u].pc \in Sleeping /\ te'[u].evt # "triggered"
        BY Zenon, <3>1, <3>10 DEF TimedInv, Flags
      <4>2. \A u \in Threads : InList(periodic', u) <=> pte'[u].periodic
        BY <3>9, <3>11 DEF TimedInv, Flags
      <4>3. timer'.tmp # None => InList(List', timer'.tmp)
        BY <3>4, <3>6, <3>9 DEF List
      <4> QED BY <4>1, <4>2, <4>3 DEF Flags
    <3>14. Arms' /\ ListAssertionsHold'
      BY <3>1, <3>6 DEF TimedInv, Arms, ExpirationArmed, ListAssertionsHold
    <3> QED BY <3>12, <3>13, <3>14 DEF TimedInv
  <2> QED BY <2>5, <2>6
<1>TickStep.
  ASSUME TimedInv, Tick PROVE TimedInv'
  <2> USE <1>TickStep
  <2> DEFINE due == wakeup_in # NoTimeout /\ wakeup_in <= TicksPerTick
  <2>1. /\ timer.pc # "walk"
        /\ events' = Later(events) /\ periodic' = Later(periodic)
        /\ timer' = IF due /\ timer.pc = "asleep" THEN [timer EXCEPT !.pc = "stamp"] ELSE timer
        /\ age' = IF timer.pc \in {"stamp", "take", "arm"} THEN age + TicksPerTick ELSE 0
        /\ UNCHANGED <<te, pte, desc, failed>>
    BY Zenon DEF Tick, InTime, stub
  <2>2. /\ ListOK(events') /\ ListOK(periodic')
        /\ events' = <<>> <=> events = <<>>
        /\ periodic' = <<>> <=> periodic = <<>>
        /\ \A u \in Threads : InList(events', u) <=> InList(events, u)
        /\ \A u \in Threads : InList(periodic', u) <=> InList(periodic, u)
    BY <2>1, TimerFacts, <1>LaterList
  <2>3. /\ timer' \in Walk
        /\ timer'.pc = IF due /\ timer.pc = "asleep" THEN "stamp" ELSE timer.pc
    BY <2>1, TimerFacts DEF Walk
  <2>4. age' \in Int
    BY <2>1, TimerFacts DEF TicksPerTick
  <2>5. wakeup_in' \in Int /\ (~due /\ wakeup_in # NoTimeout => wakeup_in' # NoTimeout)
    <3>1. wakeup_in' \in {NoTimeout, 0, wakeup_in - TicksPerTick}
      BY Zenon DEF Tick
    <3>2. ~due /\ wakeup_in # NoTimeout => wakeup_in' = wakeup_in - TicksPerTick
      BY Zenon DEF Tick
    <3>3. wakeup_in \in Int
      BY Zenon, TimerFacts
    <3> QED BY <3>1, <3>2, <3>3 DEF TicksPerTick, NoTimeout
  <2>6. ASSUME NEW u \in Threads
        PROVE  /\ CallOK(th'[u]) /\ th'[u].op = th[u].op /\ th'[u].pc = th[u].pc
               /\ AboutToArm(u) => AboutToArm(u)'
    <3> DEFINE c == th[u]
               o == IF c.old = None THEN None ELSE c.old - TicksPerTick
               d == [c EXCEPT !.lag = @ + TicksPerTick, !.old = o]
    <3>1. th'[u] = IF ~Arming(u) THEN c ELSE d
      BY Zenon DEF Tick
    <3>2. CallOK(c) /\ c \in Call
      BY Zenon, SameStubs DEF CallOK
    <3>3. o \in Times
      BY <3>2 DEF Call, Times, TicksPerTick
    <3>4. c.old = None => o = None
      OBVIOUS
    <3> HIDE DEF c, o
    <3>5. d \in Call
      <4> DEFINE g == [c EXCEPT !.lag = @ + TicksPerTick]
      <4>1. g \in Call
        BY <3>2 DEF Call, TicksPerTick
      <4>2. d = [g EXCEPT !.old = o]
        OBVIOUS
      <4> HIDE DEF g, d
      <4> QED BY <3>3, <4>1, <4>2 DEF Call
    <3>6. d.op = c.op /\ d.pc = c.pc /\ d.arg = c.arg /\ d.amt = c.amt /\ d.old = o
      BY <3>2 DEF Call
    <3> HIDE DEF d
    <3>7. CallOK(d)
      BY Zenon, <3>2, <3>5, <3>6 DEF CallOK
    <3>8. AboutToArm(u) => AboutToArm(u)'
      BY <3>1, <3>4, <3>6 DEF AboutToArm, c
    <3> QED BY <3>1, <3>2, <3>6, <3>7, <3>8 DEF c
  <2>7. DOMAIN th' = Threads
    BY Zenon DEF Tick
  <2>8. Types'
    BY <2>1, <2>2, <2>3, <2>4, <2>5, <2>6, <2>7 DEF TimedInv, Types
  <2>9. Flags'
    <3>1. \A u \in Threads : InList(events', u) =>
            th'[u].op = "block" /\ th'[u].pc \in Sleeping /\ te'[u].evt # "triggered"
      BY <2>1, <2>2, <2>6 DEF TimedInv, Flags
    <3>2. \A u \in Threads : InList(periodic', u) <=> pte'[u].periodic
      BY Zenon, <2>1, <2>2 DEF TimedInv, Flags
    <3> QED BY <2>1, <2>3, <3>1, <3>2 DEF Flags
  <2>10. ExpirationArmed'
    BY Zenon, <2>2, <2>3, <2>5, <2>6 DEF TimedInv, Arms, ExpirationArmed
  <2>11. Arms' /\ ListAssertionsHold'
    BY <2>1, <2>2, <2>3, <2>10 DEF TimedInv, Arms, ListAssertionsHold
  <2> QED BY <2>8, <2>9, <2>11 DEF TimedInv
\* The call a thread makes again after a failure.
<1>AgainCall.
  ASSUME NEW c, CallOK(c), NEW pc \in Pcs
  PROVE  CallOK([NoCall EXCEPT !.op = c.op, !.arg = c.arg, !.pc = pc])
  <2> USE <1>AgainCall
  <2> DEFINE d == [NoCall EXCEPT !.op = c.op, !.arg = c.arg]
             e == [NoCall EXCEPT !.op = c.op, !.arg = c.arg, !.pc = pc]
  <2>1. d \in Call /\ d.op = c.op /\ d.arg = c.arg
    <3>1. c \in Call /\ NoCall \in Call
      BY NoCallOK DEF CallOK
    <3>2. c.op \in Calls \cup {"none"} /\ c.arg \in Args
      BY <3>1 DEF Call
    <3> QED BY Zenon, <3>1, <3>2 DEF Call
  <2>2. e = [d EXCEPT !.pc = pc]
    OBVIOUS
  <2> HIDE DEF d, e
  <2>3. e \in Call /\ e.op = c.op /\ e.arg = c.arg
    BY <2>1, <2>2 DEF Call
  <2>4. CallOK(e)
    BY <2>3 DEF CallOK
  <2> QED BY <2>4 DEF e
<1>FailStep.
  ASSUME TimedInv, NEW E \in SUBSET Threads, Fail(E) PROVE TimedInv'
  <2> USE <1>FailStep
  <2>1. /\ events' = <<>> /\ periodic' = <<>>
        /\ te' = [t \in Threads |-> NoTe] /\ pte' = [t \in Threads |-> NoPte]
        /\ timer' = [pc |-> "stamp", list |-> "events", tmp |-> None, amt |-> 0]
        /\ age' = 0 /\ failed' = 0
        /\ UNCHANGED <<wakeup_in, desc>>
    BY Zenon DEF Fail, sched
  <2>2. ASSUME NEW t \in Threads PROVE CallOK(th'[t])
    <3>1. CallOK(th[t])
      BY SameStubs
    <3>2. \/ th'[t] = th[t]
          \/ \E pc \in {"redo", "fault"} :
               th'[t] = [NoCall EXCEPT !.op = th[t].op, !.arg = th[t].arg, !.pc = pc]
      BY Zenon DEF Fail
    <3>3. {"redo", "fault"} \subseteq Pcs
      BY DEF Pcs
    <3>4. \A pc \in Pcs : CallOK([NoCall EXCEPT !.op = th[t].op, !.arg = th[t].arg, !.pc = pc])
      BY Zenon, <3>1, <1>AgainCall
    <3> QED BY Zenon, <3>1, <3>2, <3>3, <3>4
  <2>3. DOMAIN th' = Threads
    BY Zenon DEF Fail
  <2>4. /\ te' \in [Threads -> Te]
        /\ DOMAIN pte' = Threads /\ \A t \in Threads : PteOK(pte'[t]) /\ ~pte'[t].periodic
    <3>1. NoTe \in Te
      BY Zenon DEF NoTe, Te, Evts
    <3>2. PteOK(NoPte) /\ ~NoPte.periodic
      BY Zenon, NoPteOK DEF NoPte
    <3> HIDE DEF NoTe, NoPte
    <3> QED BY <2>1, <3>1, <3>2
  <2>5. timer' \in Walk /\ timer'.pc = "stamp"
    BY Zenon, <2>1 DEF Walk
  <2>6. ListOK(events') /\ ListOK(periodic') /\ \A u : ~InList(events', u) /\ ~InList(periodic', u)
    BY <2>1, EmptyList
  <2>7. Types'
    <3>1. desc' \in [Threads -> Desc]
      BY Zenon, <2>1, SameStubs
    <3>2. age' \in Int /\ wakeup_in' \in Int
      BY <2>1, TimerFacts
    <3> QED BY Zenon, <2>2, <2>3, <2>4, <2>5, <2>6, <3>1, <3>2 DEF Types
  <2>8. Flags'
    BY <2>4, <2>5, <2>6 DEF Flags
  <2>9. Arms' /\ ListAssertionsHold'
    BY <2>1, <2>5 DEF Arms, ExpirationArmed, ListAssertionsHold
  <2> QED BY <2>7, <2>8, <2>9 DEF TimedInv
<1>StutterStep.
  ASSUME TimedInv, UNCHANGED vars PROVE TimedInv'
  <2> USE <1>StutterStep
  <2>1. UNCHANGED <<events, periodic, te, pte, timer, age, wakeup_in, th, desc, failed>>
    BY Zenon DEF vars, server, sched, stub
  <2> QED BY <2>1, <1>Unchanged, <1>SameFailed DEF TimedInv
<1>ProceedStep.
  ASSUME TimedInv, NEW t \in Threads, Proceed(t) PROVE TimedInv'
  BY <1>ProceedStep, <1>StaleCallStep, <1>FaultUpdateStep, <1>ReturnStep, <1>BlockStep, <1>CheckStep, <1>ArmStep, <1>EvtWaitStep,
     <1>SleepStep, <1>WakeupStep, <1>KickStep, <1>CreateStep, <1>CreatedStep, <1>RemoveStep, <1>PeriodicWaitStep
     DEF Proceed
<1> QED
  <2> SUFFICES ASSUME TimedInv, [Next]_vars PROVE TimedInv'
    OBVIOUS
  <2>1. ASSUME NEW t \in Threads, NEW op \in Calls, NEW arg \in Args, Start(t, op, arg)
        PROVE  TimedInv'
    BY <2>1, <1>StartStep
  <2>2. ASSUME TimerStep PROVE TimedInv'
    BY <2>2, <1>TimerStampStep, <1>TimerTakeStep, <1>ExpirePeriodicStep, <1>EndPeriodicStep, <1>ExpireEventStep,
       <1>NextWakeupStep, <1>TimerSleepStep DEF TimerStep
  <2> QED BY <2>1, <2>2, <1>ProceedStep, <1>TickStep, <1>FailStep, <1>StutterStep DEF Next, Args

LEMMA InvHolds == Spec => []TimedInv
  BY Initially, Inductive, PTL DEF Spec

\* While an event is listed, the timer thread is awake, its timeout is set, or
\* the client that has to set it is on its way to sched_timeout: no thread
\* that blocks with a timeout or waits for its period is forgotten, over any
\* interleaving of the clients' unprotected look at the lists, any delay and
\* any number of failures of the manager.
THEOREM TimerNeverLost == Spec => []ExpirationArmed
<1>1. TimedInv => ExpirationArmed
  BY DEF TimedInv, Arms
<1> QED BY <1>1, InvHolds, PTL

\* The manager's assertions on its lists and on missed deadlines never fail:
\* a thread_event is listed exactly when its flags say so, and the walk and
\* the two create functions find it where they expect it.
THEOREM AssertionsOnListsHold == Spec => []ListAssertionsHold
<1>1. TimedInv => ListAssertionsHold
  BY Zenon DEF TimedInv
<1> QED BY <1>1, InvHolds, PTL
-----------------------------------------------------------------------------
(* What the manager does in time.                                          *)

\* The ticks a block has left are counted by its place in the list too.
Timely ==
  /\ DOMAIN left = Threads /\ age >= 0
  /\ \A t \in Threads :
       /\ left[t] \in Nat
       /\ th[t].op = "block" => left[t] <= th[t].arg
       /\ te[t].timed_out =>
            th[t].op = "block" /\ th[t].pc \in Sleeping \cup {"ret"} /\ left[t] = 0
  /\ \A i \in DOMAIN events :
       left[events[i].thd] > 0 => events[i].exp > left[events[i].thd]

\* Where a thread is between its decision to wait and its return.
InWait == {"wait", "sleep", "asleep"}
Waiting(t) == th[t].op = "wait" /\ th[t].pc \in InWait

\* The deadline accounting of one thread.
Account(t) ==
  /\ owed[t] = pte[t].restart + IF Waiting(t) /\ ~pte[t].blocked THEN 1 ELSE 0
  /\ pte[t].restart >= 0
  /\ Waiting(t) => pte[t].periodic
  /\ pte[t].blocked => Waiting(t)
  /\ pte[t].evt = "triggered" => Waiting(t) /\ ~pte[t].blocked
  /\ th[t].pc \in {"check", "arm"} => th[t].op = "block"

Accounts == DOMAIN owed = Threads /\ \A t \in Threads : Account(t)

-----------------------------------------------------------------------------
(* What a list holds after a change.                                       *)

LEMMA InsElems ==
  ASSUME NEW l, NEW t \in Threads, NEW exp \in Int, ListOK(l)
  PROVE  \A i \in DOMAIN Insert(l, t, exp) :
           \/ Insert(l, t, exp)[i] = [thd |-> t, exp |-> exp]
           \/ \E j \in DOMAIN l : Insert(l, t, exp)[i] = l[j]
<1> DEFINE e == [thd |-> t, exp |-> exp]
           r == Insert(l, t, exp)
<1>1. l \in Seq(Event(Threads)) /\ e \in Event(Threads)
  BY Zenon DEF ListOK, Event
<1>2. PICK k \in 1..(Len(l) + 1) : r = With(l, k, e)
  BY Zenon, InsertPlace
<1> HIDE DEF e
<1>3. /\ With(l, k, e) \in Seq(Event(Threads))
      /\ Len(With(l, k, e)) = Len(l) + 1
      /\ \A i \in 1..(Len(l) + 1) :
           With(l, k, e)[i] = IF i < k THEN l[i] ELSE IF i = k THEN e ELSE l[i - 1]
  <2>1. Inserted(Event(Threads), l, k, e)
    BY Zenon, <1>1, InsertFacts
  <2> QED BY Zenon, <2>1 DEF Inserted
<1> HIDE DEF r
<1>4. DOMAIN r = 1..(Len(l) + 1) /\ DOMAIN l = 1..Len(l) /\ Len(l) \in Nat
  BY <1>1, <1>2, <1>3
<1>5. \A i \in DOMAIN r : r[i] = e \/ \E j \in DOMAIN l : r[i] = l[j]
  BY <1>2, <1>3, <1>4
<1> QED BY Zenon, <1>5 DEF r, e

LEMMA LaterElems ==
  ASSUME NEW l, ListOK(l)
  PROVE  /\ DOMAIN Later(l) = DOMAIN l
         /\ \A i \in DOMAIN l :
              /\ l[i].thd \in Threads /\ l[i].exp \in Int
              /\ Later(l)[i].thd = l[i].thd /\ Later(l)[i].exp = l[i].exp - TicksPerTick
<1>1. /\ DOMAIN Later(l) = DOMAIN l
      /\ \A i \in DOMAIN l : Later(l)[i] = [l[i] EXCEPT !.exp = @ - TicksPerTick]
  BY DEF Later
<1>2. \A i \in DOMAIN l : l[i] \in Event(Threads)
  BY DEF ListOK
<1> QED BY <1>1, <1>2 DEF Event

LEMMA ListTypes ==
  ASSUME NEW l, ListOK(l)
  PROVE  /\ DOMAIN l = 1..Len(l) /\ Len(l) \in Nat
         /\ \A i \in DOMAIN l : l[i].thd \in Threads /\ l[i].exp \in Int /\ InList(l, l[i].thd)
<1>1. l \in Seq(Event(Threads)) /\ \A i \in DOMAIN l : l[i] \in Event(Threads)
  BY DEF ListOK
<1> QED BY <1>1 DEF Event, InList
-----------------------------------------------------------------------------
(* How a step changes the calls.                                           *)

\* The call of u goes on, and one that sleeps or returns keeps doing so.
Same(u) ==
  /\ th'[u].op = th[u].op /\ th'[u].arg = th[u].arg
  /\ th[u].pc \in Sleeping \cup {"ret"} => th'[u].pc \in Sleeping \cup {"ret"}

\* It neither begins nor ends a wait.
StillWaits(u) ==
  /\ th[u].op = "wait" => (th'[u].pc \in InWait <=> th[u].pc \in InWait)
  /\ th'[u].pc \in {"check", "arm"} => th[u].op = "block"

LEMMA GotoFields ==
  ASSUME NEW c, CallOK(c), NEW pc
  PROVE  /\ [c EXCEPT !.pc = pc].pc = pc /\ [c EXCEPT !.pc = pc].op = c.op
         /\ [c EXCEPT !.pc = pc].arg = c.arg /\ [c EXCEPT !.pc = pc].lag = c.lag
  BY DEF CallOK, Call

LEMMA AllFields ==
  ASSUME NEW c, CallOK(c), NEW pc, NEW a, NEW o, NEW g
  PROVE  /\ [c EXCEPT !.pc = pc, !.amt = a, !.old = o, !.lag = g].pc = pc
         /\ [c EXCEPT !.pc = pc, !.amt = a, !.old = o, !.lag = g].op = c.op
         /\ [c EXCEPT !.pc = pc, !.amt = a, !.old = o, !.lag = g].arg = c.arg
         /\ [c EXCEPT !.pc = pc, !.amt = a, !.old = o, !.lag = g].lag = g
<1> DEFINE e == [c EXCEPT !.pc = pc, !.amt = a]
           d == [e EXCEPT !.old = o, !.lag = g]
<1>1. DOMAIN e = DOMAIN c /\ e.pc = pc /\ e.op = c.op /\ e.arg = c.arg
  BY DEF CallOK, Call
<1>2. d = [c EXCEPT !.pc = pc, !.amt = a, !.old = o, !.lag = g]
  OBVIOUS
<1>3. {"pc", "op", "arg", "amt", "old", "lag"} = DOMAIN c
  BY DEF CallOK, Call
<1> HIDE DEF e
<1>4. d.pc = pc /\ d.op = c.op /\ d.arg = c.arg /\ d.lag = g
  BY <1>1, <1>3
<1> HIDE DEF d
<1> QED BY <1>2, <1>4

LEMMA ParmFields ==
  ASSUME NEW c, CallOK(c), NEW pc, NEW a
  PROVE  /\ [c EXCEPT !.pc = pc, !.lag = 0, !.amt = a].pc = pc
         /\ [c EXCEPT !.pc = pc, !.lag = 0, !.amt = a].op = c.op
         /\ [c EXCEPT !.pc = pc, !.lag = 0, !.amt = a].arg = c.arg
         /\ [c EXCEPT !.pc = pc, !.lag = 0, !.amt = a].lag = 0
<1> DEFINE e == [c EXCEPT !.pc = pc, !.lag = 0]
           d == [e EXCEPT !.amt = a]
<1>1. DOMAIN e = DOMAIN c /\ e.pc = pc /\ e.op = c.op /\ e.arg = c.arg /\ e.lag = 0
  BY DEF CallOK, Call
<1>2. d = [c EXCEPT !.pc = pc, !.lag = 0, !.amt = a]
  OBVIOUS
<1>3. {"pc", "op", "arg", "amt", "old", "lag"} = DOMAIN c
  BY DEF CallOK, Call
<1> HIDE DEF e
<1>4. d.pc = pc /\ d.op = c.op /\ d.arg = c.arg /\ d.lag = 0
  BY <1>1, <1>3
<1> HIDE DEF d
<1> QED BY <1>2, <1>4

\* A step that changes the call of t only.
LEMMA OneCall ==
  ASSUME TimedInv, Accounts, NEW t \in Threads, NEW r, th' = [th EXCEPT ![t] = r],
         r.op = th[t].op, r.arg = th[t].arg,
         th[t].pc \in Sleeping \cup {"ret"} => r.pc \in Sleeping \cup {"ret"}
  PROVE  /\ \A u \in Threads : Same(u)
         /\ \A u \in Threads : u # t => StillWaits(u)
         /\ th'[t] = r
<1>1. DOMAIN th = Threads
  BY DEF TimedInv, Types
<1>2. th'[t] = r /\ \A u \in Threads \ {t} : th'[u] = th[u]
  BY <1>1
<1>3. \A u \in Threads : Same(u)
  BY Zenon, <1>2 DEF Same
<1>4. \A u \in Threads : th[u].pc \in {"check", "arm"} => th[u].op = "block"
  BY Zenon DEF Accounts, Account
<1>5. \A u \in Threads : u # t => StillWaits(u)
  BY <1>2, <1>4 DEF StillWaits
<1> QED BY <1>2, <1>3, <1>5

\* A call that moves on to pc.
LEMMA GotoOne ==
  ASSUME TimedInv, Accounts, NEW t \in Threads, NEW pc, Goto(t, pc),
         th[t].pc \in Sleeping \cup {"ret"} => pc \in Sleeping \cup {"ret"}
  PROVE  /\ \A u \in Threads : Same(u)
         /\ \A u \in Threads : u # t => StillWaits(u)
         /\ th'[t].pc = pc /\ th'[t].op = th[t].op /\ th'[t].lag = th[t].lag
<1> DEFINE r == [th[t] EXCEPT !.pc = pc]
<1>1. th' = [th EXCEPT ![t] = r]
  BY Zenon DEF Goto, Set
<1>2. CallOK(th[t])
  BY SameStubs
<1>3. r.pc = pc /\ r.op = th[t].op /\ r.arg = th[t].arg /\ r.lag = th[t].lag
  BY Zenon, <1>2, GotoFields
<1> HIDE DEF r
<1> QED BY Zenon, <1>1, <1>3, OneCall

LEMMA ArmedOne ==
  ASSUME TimedInv, Accounts, NEW t \in Threads, NEW pc, Armed(t, pc),
         th[t].pc \in Sleeping \cup {"ret"} => pc \in Sleeping \cup {"ret"}
  PROVE  /\ \A u \in Threads : Same(u)
         /\ \A u \in Threads : u # t => StillWaits(u)
         /\ th'[t].pc = pc /\ th'[t].op = th[t].op /\ th'[t].lag = 0
<1> DEFINE r == [th[t] EXCEPT !.pc = pc, !.amt = 0, !.old = None, !.lag = 0]
<1>1. th' = [th EXCEPT ![t] = r]
  BY DEF Armed, Set
<1>2. CallOK(th[t])
  BY SameStubs
<1>3. r.pc = pc /\ r.op = th[t].op /\ r.arg = th[t].arg /\ r.lag = 0
  BY SMT, <1>2, AllFields
<1> HIDE DEF r
<1> QED BY Zenon, <1>1, <1>3, OneCall

\* Arithmetic on the counts of missed deadlines and on the ticks.
LEMMA Zero == 0 \in Nat /\ 0 >= 0 /\ 0 = 0 + 0
OBVIOUS

LEMMA Naturally == \A r \in Nat : r >= 0 /\ r = r + 0
OBVIOUS

LEMMA Increments ==
  /\ \A r \in Int : (r + 0) + 1 = r + 1 /\ (r >= 0 => r + 1 >= 0)
  /\ \A r \in Int, w \in {0, 1} : (r + w) + 1 = (r + 1) + w
OBVIOUS

LEMMA TickArithmetic ==
  /\ \A a \in Int : a >= 0 => a + TicksPerTick >= 0
  /\ \A e \in Int, n \in Nat : e > n => e - TicksPerTick > n - TicksPerTick
BY DEF TicksPerTick

LEMMA EntryFields ==
  \A e, t, n : e = [thd |-> t, exp |-> n] => e.thd = t /\ e.exp = n
OBVIOUS

\* Nobody's call changes.
LEMMA NoCallChanges ==
  ASSUME Accounts, th' = th PROVE \A u \in Threads : Same(u) /\ StillWaits(u)
  BY Zenon DEF Same, StillWaits, Accounts, Account

\* A wakeup of u, where r is th but for the call that ends at ret.
LEMMA WokenCalls ==
  ASSUME TimedInv, Accounts, NEW u \in Threads, NEW evt, Trigger(u, evt) \/ UNCHANGED <<th, wake>>
  PROVE  \A v \in Threads : Same(v) /\ StillWaits(v)
<1>1. th' = th \/ (th[u].pc = "asleep" /\ th' = [th EXCEPT ![u].pc = "wait"])
  BY DEF Trigger, Wakeup
<1>2. CASE th' = th
  BY <1>2, NoCallChanges
<1>3. CASE th[u].pc = "asleep" /\ th' = [th EXCEPT ![u].pc = "wait"]
  <2>1. Goto(u, "wait")
    BY <1>3 DEF Goto, Set
  <2>2. /\ \A v \in Threads : Same(v)
        /\ \A v \in Threads : v # u => StillWaits(v)
        /\ th'[u].pc = "wait" /\ th'[u].op = th[u].op
    BY <1>3, <2>1, GotoOne DEF Sleeping
  <2>3. StillWaits(u)
    BY Zenon, <1>3, <2>2 DEF StillWaits, InWait
  <2> QED BY <2>2, <2>3
<1> QED BY <1>1, <1>2, <1>3

\* A client goes on, outside a wait before and after.
LEMMA GotoCalls ==
  ASSUME TimedInv, Accounts, NEW t \in Threads, NEW pc, Goto(t, pc),
         th[t].pc \notin Sleeping \cup {"ret"}, th[t].pc \notin InWait,
         pc \notin InWait, pc \notin {"check", "arm"}
  PROVE  \A u \in Threads : Same(u) /\ StillWaits(u)
<1>1. /\ \A u \in Threads : Same(u)
      /\ \A u \in Threads : u # t => StillWaits(u)
      /\ th'[t].pc = pc
  BY Zenon, GotoOne
<1>2. StillWaits(t)
  BY Zenon, <1>1 DEF StillWaits
<1> QED BY Zenon, <1>1, <1>2

\* The steps of a client that neither begin nor end a wait.
LEMMA StaleCallCalls ==
  ASSUME TimedInv, Accounts, NEW t \in Threads, StaleCall(t)
  PROVE  \A u \in Threads : Same(u) /\ StillWaits(u)
<1>1. th[t].pc = "redo" /\ (th' = th \/ Goto(t, "fault"))
  BY DEF StaleCall
<1>2. CASE th' = th
  BY Zenon, <1>2, NoCallChanges
<1>3. CASE Goto(t, "fault")
  <2>1. /\ th[t].pc \notin Sleeping \cup {"ret"} /\ th[t].pc \notin InWait
        /\ "fault" \notin InWait /\ "fault" \notin {"check", "arm"}
    BY <1>1 DEF Sleeping, InWait
  <2> QED BY Zenon, <1>3, <2>1, GotoCalls
<1> QED BY Zenon, <1>1, <1>2, <1>3

LEMMA FaultUpdateCalls ==
  ASSUME TimedInv, Accounts, NEW t \in Threads, FaultUpdate(t)
  PROVE  \A u \in Threads : Same(u) /\ StillWaits(u)
<1>1. th[t].pc = "fault" /\ Goto(t, "redo")
  BY DEF FaultUpdate
<1>2. /\ th[t].pc \notin Sleeping \cup {"ret"} /\ th[t].pc \notin InWait
      /\ "redo" \notin InWait /\ "redo" \notin {"check", "arm"}
  BY <1>1 DEF Sleeping, InWait
<1> QED BY Zenon, <1>1, <1>2, GotoCalls

LEMMA CheckCalls ==
  ASSUME TimedInv, Accounts, NEW t \in Threads, Check(t)
  PROVE  \A u \in Threads : Same(u) /\ StillWaits(u)
<1>1. th[t].pc = "check" /\ th[t].op = "block" /\ (Goto(t, "arm") \/ Armed(t, "wait"))
  BY Zenon DEF Check, Accounts, Account
<1>2. CASE Goto(t, "arm")
  BY Zenon, <1>1, <1>2, GotoOne DEF Sleeping, StillWaits
<1>3. CASE Armed(t, "wait")
  BY Zenon, <1>1, <1>3, ArmedOne DEF Sleeping, StillWaits
<1> QED BY Zenon, <1>1, <1>2, <1>3

LEMMA ArmCalls ==
  ASSUME TimedInv, Accounts, NEW t \in Threads, Arm(t)
  PROVE  \A u \in Threads : Same(u) /\ StillWaits(u)
<1>1. th[t].pc = "arm" /\ th[t].op = "block" /\ Armed(t, "wait")
  BY Zenon DEF Arm, Accounts, Account
<1> QED BY Zenon, <1>1, ArmedOne DEF Sleeping, StillWaits

LEMMA SleepCalls ==
  ASSUME TimedInv, Accounts, NEW t \in Threads, Sleep(t)
  PROVE  \A u \in Threads : Same(u) /\ StillWaits(u)
<1>1. th[t].pc = "sleep" /\ (Goto(t, "wait") \/ Goto(t, "asleep"))
  BY Zenon DEF Sleep
<1>2. {"wait", "sleep", "asleep"} \subseteq InWait /\ {"wait", "asleep"} \subseteq Sleeping
  BY Zenon DEF InWait, Sleeping
<1>3. ASSUME NEW pc \in {"wait", "asleep"}, Goto(t, pc)
      PROVE  \A u \in Threads : Same(u) /\ StillWaits(u)
  <2>1. /\ \A u \in Threads : Same(u)
        /\ \A u \in Threads : u # t => StillWaits(u)
        /\ th'[t].pc = pc
    BY Zenon, <1>2, <1>3, GotoOne
  <2>2. StillWaits(t)
    BY Zenon, <1>1, <1>2, <2>1 DEF StillWaits
  <2> QED BY Zenon, <2>1, <2>2
<1> QED BY Zenon, <1>1, <1>3

LEMMA BlockCalls ==
  ASSUME TimedInv, Accounts, NEW t \in Threads, timed_event_block(t)
  PROVE  \A u \in Threads : Same(u) /\ StillWaits(u)
<1>1. th[t].pc = "redo" /\ th[t].op = "block" /\ CallOK(th[t])
  BY SameStubs DEF timed_event_block, Enter, Function
<1>2. CASE InList(events, t)
  BY Zenon, <1>1, <1>2, SameStubs DEF Sleeping
<1>3. CASE ~InList(events, t)
  <2> DEFINE n == th[t].arg + 1
             r == [th[t] EXCEPT !.pc = "check", !.amt = n, !.old = NextEvent, !.lag = 0]
  <2>1. th' = [th EXCEPT ![t] = r]
    BY <1>3 DEF timed_event_block, Set
  <2>2. r.pc = "check" /\ r.op = th[t].op /\ r.arg = th[t].arg
    BY SMT, <1>1, AllFields
  <2> HIDE DEF r
  <2>3. (\A u \in Threads : Same(u)) /\ (\A u \in Threads : u # t => StillWaits(u)) /\ th'[t] = r
    BY Zenon, <1>1, <2>1, <2>2, OneCall DEF Sleeping
  <2> QED BY <1>1, <2>2, <2>3 DEF StillWaits
<1> QED BY Zenon, <1>2, <1>3

LEMMA WakeupCalls ==
  ASSUME TimedInv, Accounts, NEW t \in Threads, timed_event_wakeup(t)
  PROVE  \A u \in Threads : Same(u) /\ StillWaits(u)
<1>1. PICK pc \in {"kick", "ret"} : th[t].pc = "redo" /\ Goto(t, pc)
  BY Zenon DEF timed_event_wakeup, Enter
<1>2. /\ th[t].pc \notin Sleeping \cup {"ret"} /\ th[t].pc \notin InWait
      /\ pc \notin InWait /\ pc \notin {"check", "arm"}
  BY <1>1 DEF Sleeping, InWait
<1> QED BY Zenon, <1>1, <1>2, GotoCalls

LEMMA KickCalls ==
  ASSUME TimedInv, Accounts, NEW t \in Threads, Kick(t)
  PROVE  \A u \in Threads : Same(u) /\ StillWaits(u)
<1> DEFINE r == [th[t] EXCEPT !.pc = "ret"]
           R == [th EXCEPT ![t] = r]
           w == th[t].arg
<1>1. th[t].pc = "kick" /\ DOMAIN th = Threads /\ \A v \in Threads : CallOK(th[v])
  BY DEF Kick, TimedInv, Types
<1>2. th' = IF R[w].pc = "asleep" THEN [R EXCEPT ![w].pc = "wait"] ELSE R
  BY DEF Kick, Wakeup
<1>3. r.pc = "ret" /\ r.op = th[t].op /\ r.arg = th[t].arg
  BY <1>1, GotoFields
<1>4. CallOK(r)
  BY Zenon, <1>1, GotoCall DEF Pcs, Inside
<1> HIDE DEF r
<1>5. DOMAIN R = Threads /\ R[t] = r /\ \A v \in Threads \ {t} : R[v] = th[v]
  BY <1>1
<1> HIDE DEF R
<1> SUFFICES ASSUME NEW u \in Threads PROVE Same(u) /\ StillWaits(u)
  BY Zenon
<1>6. th'[u] = R[u] \/ (R[u].pc = "asleep" /\ th'[u] = [R[u] EXCEPT !.pc = "wait"])
  BY Zenon, <1>2, <1>5
<1>7. CallOK(R[u])
  BY <1>1, <1>4, <1>5
<1>8. /\ [R[u] EXCEPT !.pc = "wait"].pc = "wait"
      /\ [R[u] EXCEPT !.pc = "wait"].op = R[u].op /\ [R[u] EXCEPT !.pc = "wait"].arg = R[u].arg
  BY Zenon, <1>7, GotoFields
<1>9. th[u].pc \in {"check", "arm"} => th[u].op = "block"
  BY DEF Accounts, Account
<1>10. CASE u = t
  BY <1>1, <1>3, <1>5, <1>6, <1>10 DEF Same, StillWaits, Sleeping, InWait
<1>11. CASE u # t
  BY Zenon, <1>5, <1>6, <1>8, <1>9, <1>11 DEF Same, StillWaits, Sleeping, InWait
<1> QED BY <1>10, <1>11

LEMMA CreateCalls ==
  ASSUME TimedInv, Accounts, NEW t \in Threads, NEW f \in {"create", "exist"},
         periodic_wake_create(t, f)
  PROVE  \A u \in Threads : Same(u) /\ StillWaits(u)
<1>1. th[t].pc = "redo" /\ CallOK(th[t])
  BY Zenon, SameStubs DEF periodic_wake_create, Enter
<1>2. th' = th \/ \E a : Set(t, [th[t] EXCEPT !.pc = "parm", !.lag = 0, !.amt = a])
  BY Zenon DEF periodic_wake_create, Assertion
<1>3. CASE th' = th
  BY <1>3, NoCallChanges
<1>4. ASSUME NEW a, Set(t, [th[t] EXCEPT !.pc = "parm", !.lag = 0, !.amt = a])
      PROVE  \A u \in Threads : Same(u) /\ StillWaits(u)
  <2> DEFINE r == [th[t] EXCEPT !.pc = "parm", !.lag = 0, !.amt = a]
  <2>1. th' = [th EXCEPT ![t] = r]
    BY <1>4 DEF Set
  <2>2. r.pc = "parm" /\ r.op = th[t].op /\ r.arg = th[t].arg
    BY SMT, <1>1, ParmFields
  <2> HIDE DEF r
  <2>3. (\A u \in Threads : Same(u)) /\ (\A u \in Threads : u # t => StillWaits(u)) /\ th'[t] = r
    BY Zenon, <1>1, <2>1, <2>2, OneCall DEF Sleeping
  <2> QED BY Zenon, <1>1, <2>2, <2>3 DEF StillWaits, InWait
<1> QED BY Zenon, <1>2, <1>3, <1>4

LEMMA CreatedCalls ==
  ASSUME TimedInv, Accounts, NEW t \in Threads, Created(t)
  PROVE  \A u \in Threads : Same(u) /\ StillWaits(u)
<1>1. th[t].pc = "parm" /\ (Armed(t, "ret") \/ Armed(t, "redo"))
  BY Zenon DEF Created
<1>2. /\ "parm" \notin Sleeping \cup {"ret"}
      /\ {"parm", "ret", "redo"} \cap InWait = {} /\ {"ret", "redo"} \cap {"check", "arm"} = {}
  BY Zenon DEF InWait, Sleeping
<1>3. ASSUME NEW pc \in {"ret", "redo"}, Armed(t, pc)
      PROVE  \A u \in Threads : Same(u) /\ StillWaits(u)
  <2>1. /\ \A u \in Threads : Same(u)
        /\ \A u \in Threads : u # t => StillWaits(u)
        /\ th'[t].pc = pc
    BY Zenon, <1>1, <1>2, <1>3, ArmedOne
  <2>2. pc \notin InWait /\ pc \notin {"check", "arm"} /\ th[t].pc \notin InWait
    BY Zenon, <1>1, <1>2
  <2>3. StillWaits(t)
    BY Zenon, <2>1, <2>2 DEF StillWaits
  <2> QED BY Zenon, <2>1, <2>3
<1> QED BY Zenon, <1>1, <1>3

LEMMA RemoveCalls ==
  ASSUME TimedInv, Accounts, NEW t \in Threads, periodic_wake_remove(t)
  PROVE  \A u \in Threads : Same(u) /\ StillWaits(u)
<1>1. th[t].pc = "redo" /\ (th' = th \/ \E pc \in {"ret", "err"} : Goto(t, pc))
  BY DEF periodic_wake_remove, Enter, Assertion
<1>2. CASE th' = th
  BY <1>2, NoCallChanges
<1>3. ASSUME NEW pc \in {"ret", "err"}, Goto(t, pc)
      PROVE  \A u \in Threads : Same(u) /\ StillWaits(u)
  <2>1. /\ th[t].pc \notin Sleeping \cup {"ret"} /\ th[t].pc \notin InWait
        /\ pc \notin {"check", "arm"} /\ pc \notin InWait
    BY <1>1, <1>3 DEF Sleeping, InWait
  <2> QED BY Zenon, <1>3, <2>1, GotoCalls
<1> QED BY Zenon, <1>1, <1>2, <1>3

\* The two steps that do.
LEMMA EvtWaitCalls ==
  ASSUME TimedInv, Accounts, NEW t \in Threads, EvtWait(t)
  PROVE  /\ \A u \in Threads : Same(u) /\ (u # t => StillWaits(u))
         /\ th'[t].pc \in {"wait", "sleep", "ret"}
<1>1. th[t].pc = "wait" /\ (th' = th \/ \E pc \in {"sleep", "ret"} : Goto(t, pc))
  BY Zenon DEF EvtWait
<1>2. CASE th' = th
  BY Zenon, <1>1, <1>2, NoCallChanges
<1>3. ASSUME NEW pc \in {"sleep", "ret"}, Goto(t, pc)
      PROVE  /\ \A u \in Threads : Same(u) /\ (u # t => StillWaits(u))
             /\ th'[t].pc \in {"wait", "sleep", "ret"}
  BY Zenon, <1>3, GotoOne DEF Sleeping
<1> QED BY Zenon, <1>1, <1>2, <1>3

LEMMA PeriodicWaitCalls ==
  ASSUME TimedInv, Accounts, NEW t \in Threads, periodic_wake_wait(t)
  PROVE  \A u \in Threads : Same(u) /\ (u # t => StillWaits(u))
<1>1. th[t].pc = "redo" /\ (th' = th \/ \E pc \in {"err", "ret", "wait"} : Goto(t, pc))
  BY DEF periodic_wake_wait, Enter
<1>2. CASE th' = th
  BY Zenon, <1>2, NoCallChanges
<1>3. ASSUME NEW pc \in {"err", "ret", "wait"}, Goto(t, pc)
      PROVE  \A u \in Threads : Same(u) /\ (u # t => StillWaits(u))
  BY Zenon, <1>1, <1>3, GotoOne DEF Sleeping
<1> QED BY <1>1, <1>2, <1>3
-----------------------------------------------------------------------------
(* A block does not time out early.                                        *)

LEMMA TimelyInit == Init => Timely
<1> SUFFICES ASSUME Init PROVE Timely
  OBVIOUS
<1>1. /\ th = [t \in Threads |-> NoCall] /\ te = [t \in Threads |-> NoTe]
      /\ left = [t \in Threads |-> 0] /\ age = 0 /\ events = <<>>
  BY Zenon DEF Init
<1>2. NoCall.op = "none" /\ ~NoTe.timed_out
  BY Zenon DEF NoCall, NoTe
<1> QED BY <1>1, <1>2 DEF Timely

LEMMA StartFields ==
  ASSUME NEW op, NEW arg
  PROVE  /\ [NoCall EXCEPT !.pc = "redo", !.op = op, !.arg = arg].pc = "redo"
         /\ [NoCall EXCEPT !.pc = "redo", !.op = op, !.arg = arg].op = op
         /\ [NoCall EXCEPT !.pc = "redo", !.op = op, !.arg = arg].arg = arg
         /\ [NoCall EXCEPT !.pc = "redo", !.op = op, !.arg = arg].lag = 0
<1> DEFINE e == [NoCall EXCEPT !.pc = "redo", !.op = op]
           d == [e EXCEPT !.arg = arg]
<1>1. /\ DOMAIN e = {"pc", "op", "arg", "amt", "old", "lag"}
      /\ e.pc = "redo" /\ e.op = op /\ e.lag = 0
  BY DEF NoCall
<1>2. d = [NoCall EXCEPT !.pc = "redo", !.op = op, !.arg = arg]
  OBVIOUS
<1> HIDE DEF e
<1>3. d.pc = "redo" /\ d.op = op /\ d.arg = arg /\ d.lag = 0
  BY <1>1
<1> HIDE DEF d
<1> QED BY <1>2, <1>3

LEMMA TickCalls ==
  ASSUME TimedInv, Tick, NEW u \in Threads
  PROVE  th'[u].op = th[u].op /\ th'[u].pc = th[u].pc /\ th'[u].arg = th[u].arg
<1> DEFINE c == th[u]
           o == IF c.old = None THEN None ELSE c.old - TicksPerTick
           d == [c EXCEPT !.lag = @ + TicksPerTick, !.old = o]
<1>1. th'[u] = IF ~Arming(u) THEN c ELSE d
  BY Zenon DEF Tick
<1>2. c \in Call
  BY Zenon, SameStubs DEF CallOK
<1> HIDE DEF c, o
<1>3. d.op = c.op /\ d.pc = c.pc /\ d.arg = c.arg
  BY <1>2 DEF Call
<1> HIDE DEF d
<1> QED BY Zenon, <1>1, <1>3 DEF c

\* A call that is made again after a failure is the same one.
LEMMA AgainFields ==
  ASSUME TimedInv, NEW E, Fail(E), NEW u \in Threads
  PROVE  /\ th'[u].op = th[u].op /\ th'[u].arg = th[u].arg
         /\ th'[u].pc \notin Inside /\ (th'[u].lag = 0 \/ th'[u].lag = th[u].lag)
<1> DEFINE again(pc) == [NoCall EXCEPT !.op = th[u].op, !.arg = th[u].arg, !.pc = pc]
<1>1. \/ th'[u] = th[u] /\ th[u].pc \notin Inside
      \/ \E pc \in {"redo", "fault"} : th'[u] = again(pc)
  BY Zenon DEF Fail
<1>2. ASSUME NEW pc
      PROVE  /\ again(pc).op = th[u].op /\ again(pc).arg = th[u].arg /\ again(pc).pc = pc
             /\ again(pc).lag = 0
  <2> DEFINE e == [NoCall EXCEPT !.op = th[u].op, !.arg = th[u].arg]
             d == [e EXCEPT !.pc = pc]
  <2>1. /\ DOMAIN e = {"pc", "op", "arg", "amt", "old", "lag"}
        /\ e.op = th[u].op /\ e.arg = th[u].arg /\ e.lag = 0
    BY DEF NoCall
  <2>2. d = again(pc)
    OBVIOUS
  <2> HIDE DEF e, again
  <2>3. d.op = th[u].op /\ d.arg = th[u].arg /\ d.pc = pc /\ d.lag = 0
    BY Zenon, <2>1
  <2> HIDE DEF d
  <2> QED BY Zenon, <2>2, <2>3
<1> HIDE DEF again
<1>3. "redo" \notin Inside /\ "fault" \notin Inside
  BY Zenon DEF Inside
<1>4. ASSUME NEW pc \in {"redo", "fault"}, th'[u] = again(pc)
      PROVE  /\ th'[u].op = th[u].op /\ th'[u].arg = th[u].arg
             /\ th'[u].pc \notin Inside /\ th'[u].lag = 0
  <2>1. pc \notin Inside
    BY Zenon, <1>3
  <2> QED BY Zenon, <1>2, <1>4, <2>1
<1> QED BY Zenon, <1>1, <1>4
-----------------------------------------------------------------------------
(* No activation is lost or invented.                                      *)

LEMMA AccountsInit == Init => Accounts
<1> SUFFICES ASSUME Init PROVE Accounts
  OBVIOUS
<1>1. \A t \in Threads : owed[t] = 0 /\ pte[t] = NoPte /\ th[t] = NoCall
  BY Zenon DEF Init
<1>2. /\ NoPte.restart = 0 /\ ~NoPte.blocked /\ NoPte.evt = "idle"
      /\ NoCall.op = "none" /\ NoCall.pc = "idle"
  BY Zenon DEF NoPte, NoCall
<1>3. DOMAIN owed = Threads
  BY DEF Init
<1> QED BY <1>1, <1>2, <1>3 DEF Accounts, Account, Waiting
-----------------------------------------------------------------------------
(* All steps.                                                              *)

\* The steps of a client after its call's start, but for those with a lemma of
\* their own.
Onward(t) ==
  \/ StaleCall(t) \/ FaultUpdate(t) \/ Check(t) \/ Arm(t) \/ Sleep(t) \/ Kick(t)

LEMMA OnwardFacts ==
  ASSUME TimedInv, Accounts, NEW t \in Threads, Onward(t)
  PROVE  /\ \A u \in Threads : Same(u) /\ StillWaits(u)
         /\ UNCHANGED <<events, periodic, te, pte, sec, timer, age, owed, left, failed, faults>>
<1>1. \A u \in Threads : Same(u) /\ StillWaits(u)
  BY StaleCallCalls, FaultUpdateCalls, CheckCalls, ArmCalls, SleepCalls, KickCalls DEF Onward
<1>2. UNCHANGED <<events, periodic, te, pte, sec, timer, age, owed, left, failed, faults>>
  BY DEF Onward, StaleCall, FaultUpdate, Check, Arm, Sleep, Kick, server
<1> QED BY Zenon, <1>1, <1>2
\* The steps of the timer thread that change neither lists nor calls.
Quiet == TimerStamp \/ TimerTake \/ EndPeriodic \/ NextWakeup \/ TimerSleep

LEMMA QuietFacts ==
  ASSUME Accounts, Quiet
  PROVE  /\ \A u \in Threads : Same(u) /\ StillWaits(u)
         /\ UNCHANGED <<events, periodic, te, pte, th, desc, stale, faults, wake, owed, left>>
         /\ age' \in {age, 0}
<1>1. /\ UNCHANGED <<events, periodic, te, pte, th, desc, stale, faults, wake, owed, left>>
      /\ age' \in {age, 0}
  BY DEF Quiet, TimerStamp, TimerTake, EndPeriodic, NextWakeup, TimerSleep, Assertion,
         server, sched, stub
<1>2. \A u \in Threads : Same(u) /\ StillWaits(u)
  BY Zenon, <1>1, NoCallChanges
<1> QED BY <1>1, <1>2

LEMMA Steps ==
  ASSUME [Next]_vars
  PROVE  \/ \E t \in Threads :
              \/ \E op \in Calls, arg \in Args : Start(t, op, arg)
              \/ Onward(t) \/ Return(t) \/ timed_event_block(t) \/ EvtWait(t)
              \/ timed_event_wakeup(t)
              \/ \E f \in {"create", "exist"} : periodic_wake_create(t, f)
              \/ Created(t) \/ periodic_wake_remove(t) \/ periodic_wake_wait(t)
         \/ Quiet \/ ExpirePeriodic \/ ExpireEvent
         \/ Tick
         \/ \E E \in SUBSET Threads : Fail(E)
         \/ UNCHANGED vars
  BY Zenon DEF Next, Proceed, TimerStep, Onward, Quiet, Args

LEMMA AccountsNext ==
  TimedInv /\ Accounts /\ [Next]_vars => Accounts'
\* A step that neither begins nor ends u's wait, and is no deadline of u.
<1>AccountKept.
  ASSUME Accounts, NEW u \in Threads, Same(u), StillWaits(u), owed'[u] = owed[u],
         pte'[u].restart = pte[u].restart, pte'[u].blocked = pte[u].blocked,
         pte[u].periodic => pte'[u].periodic,
         pte'[u].evt = "triggered" => pte[u].evt = "triggered"
  PROVE  Account(u)'
  <2> USE <1>AccountKept
  <2>1. Account(u)
    BY Zenon DEF Accounts
  <2>2. Waiting(u)' <=> Waiting(u)
    BY Zenon DEF Same, StillWaits, Waiting
  <2>3. th'[u].pc \in {"check", "arm"} => th'[u].op = "block"
    BY Zenon DEF Same, StillWaits
  <2> QED BY Zenon, <2>1, <2>2, <2>3 DEF Account
<1>AccountsKept.
  ASSUME Accounts, \A u \in Threads : Same(u) /\ StillWaits(u), owed' = owed,
         \A u \in Threads : /\ pte'[u].restart = pte[u].restart
                            /\ pte'[u].blocked = pte[u].blocked
                            /\ pte[u].periodic => pte'[u].periodic
                            /\ pte'[u].evt = "triggered" => pte[u].evt = "triggered"
  PROVE  Accounts'
  <2> USE <1>AccountsKept
  <2>1. \A u \in Threads : Account(u)'
    BY Zenon, <1>AccountKept
  <2>2. DOMAIN owed' = Threads
    BY Zenon DEF Accounts
  <2> QED BY Zenon, <2>1, <2>2 DEF Accounts
\* A thread that is outside its wait is not accounted as one that waits.
<1>Outside.
  ASSUME TimedInv, Accounts, NEW t \in Threads, ~Waiting(t)
  PROVE  /\ ~pte[t].blocked /\ pte[t].evt # "triggered"
         /\ owed[t] = pte[t].restart /\ pte[t].restart >= 0 /\ pte[t].restart \in Int
  <2> USE <1>Outside
  <2>1. Account(t)
    BY Zenon DEF Accounts
  <2>2. owed[t] = pte[t].restart + 0 /\ pte[t].restart >= 0
    BY Zenon, <2>1 DEF Account
  <2>3. pte[t].restart \in Int
    BY Zenon, SameStubs DEF PteOK, Pte
  <2> QED BY <2>1, <2>2, <2>3 DEF Account
<1>AccountsStart.
  ASSUME TimedInv, Accounts, NEW t \in Threads, NEW op \in Calls, NEW arg \in Args, Start(t, op, arg)
  PROVE  Accounts'
  <2> USE <1>AccountsStart
  <2> DEFINE r == [NoCall EXCEPT !.pc = "redo", !.op = op, !.arg = arg]
  <2>1. /\ th[t].pc = "idle" /\ th' = [th EXCEPT ![t] = r] /\ DOMAIN th = Threads
        /\ UNCHANGED <<pte, owed>>
    BY DEF Start, Set, server, TimedInv, Types
  <2>2. r.pc = "redo"
    BY StartFields
  <2> HIDE DEF r
  <2>3. th'[t] = r /\ \A u \in Threads \ {t} : th'[u] = th[u]
    BY Zenon, <2>1
  <2>4. ~Waiting(t) /\ ~Waiting(t)'
    BY <2>1, <2>2, <2>3 DEF Waiting, InWait
  <2>5. ASSUME NEW u \in Threads PROVE Account(u)'
    BY Zenon, <2>1, <2>2, <2>3, <2>4 DEF Accounts, Account, Waiting
  <2> QED BY <2>1, <2>5 DEF Accounts
<1>AccountsReturn.
  ASSUME TimedInv, Accounts, NEW t \in Threads, Return(t) PROVE Accounts'
  <2> USE <1>AccountsReturn
  <2>1. /\ th[t].pc \in {"ret", "err"} /\ th' = [th EXCEPT ![t] = NoCall] /\ DOMAIN th = Threads
        /\ UNCHANGED <<pte, owed>>
    BY Zenon DEF Return, Set, TimedInv, Types
  <2>2. th'[t] = NoCall /\ NoCall.pc = "idle" /\ \A u \in Threads \ {t} : th'[u] = th[u]
    BY <2>1 DEF NoCall
  <2>3. ~Waiting(t) /\ ~Waiting(t)'
    BY Zenon, <2>1, <2>2 DEF Waiting, InWait
  <2>4. ASSUME NEW u \in Threads PROVE Account(u)'
    BY Zenon, <2>1, <2>2, <2>3 DEF Accounts, Account, Waiting
  <2> QED BY <2>1, <2>4 DEF Accounts
<1>AccountsEvtWait.
  ASSUME TimedInv, Accounts, NEW t \in Threads, EvtWait(t) PROVE Accounts'
  <2> USE <1>AccountsEvtWait
  <2> DEFINE r(e) == [pte[t] EXCEPT !.evt = e]
  <2>0. th[t].pc = "wait" /\ DOMAIN pte = Threads /\ pte[t] \in Pte /\ DOMAIN owed = Threads
    BY Zenon, SameStubs DEF EvtWait, PteOK, Accounts
  <2>1. /\ \A u \in Threads : Same(u) /\ (u # t => StillWaits(u))
        /\ th'[t].pc \in {"wait", "sleep", "ret"}
    BY EvtWaitCalls
  <2>2. ASSUME NEW e
        PROVE  /\ r(e).restart = pte[t].restart /\ r(e).blocked = pte[t].blocked
               /\ r(e).periodic = pte[t].periodic /\ r(e).evt = e
    BY <2>0 DEF Pte
  <2>3. ASSUME NEW e, SetEvt(t, e)
        PROVE  pte' = IF th[t].op = "block" THEN pte ELSE [pte EXCEPT ![t] = r(e)]
    BY Zenon, <2>3 DEF SetEvt
  <2> HIDE DEF r
  <2>4. CASE StillWaits(t) /\ owed' = owed /\ (pte' = pte \/ \E e \in {"idle", "blocked"} : SetEvt(t, e))
    <3>1. ASSUME NEW u \in Threads
          PROVE  /\ pte'[u].restart = pte[u].restart
                 /\ pte'[u].blocked = pte[u].blocked
                 /\ pte[u].periodic => pte'[u].periodic
                 /\ pte'[u].evt = "triggered" => pte[u].evt = "triggered"
      <4>1. CASE pte' = pte
        BY Zenon, <4>1
      <4>2. ASSUME NEW e \in {"idle", "blocked"}, SetEvt(t, e), pte' # pte
            PROVE  pte'[t] = r(e) /\ \A v \in Threads \ {t} : pte'[v] = pte[v]
        BY Zenon, <2>0, <2>3, <4>2
      <4>3. CASE pte' # pte
        <5>1. PICK e \in {"idle", "blocked"} : SetEvt(t, e)
          BY Zenon, <2>4, <4>3
        <5>2. pte'[t] = r(e) /\ \A v \in Threads \ {t} : pte'[v] = pte[v]
          BY Zenon, <4>2, <4>3, <5>1
        <5>3. CASE u = t
          <6>1. e # "triggered"
            BY Zenon, <5>1
          <6>2. /\ r(e).restart = pte[t].restart /\ r(e).blocked = pte[t].blocked
                /\ r(e).periodic = pte[t].periodic /\ r(e).evt = e
            BY <2>2
          <6> QED BY Zenon, <5>2, <5>3, <6>1, <6>2
        <5>4. CASE u # t
          BY Zenon, <5>2, <5>4
        <5> QED BY Zenon, <5>3, <5>4
      <4> QED BY Zenon, <4>1, <4>3
    <3>2. \A u \in Threads : Same(u) /\ StillWaits(u)
      BY <2>1, <2>4
    <3> QED BY <2>4, <3>1, <3>2, <1>AccountsKept
  <2>5. CASE th[t].op # "wait"
    <3>1. StillWaits(t)
      BY Zenon, <2>1, <2>5 DEF StillWaits
    <3>2. EvtOf(t) = "triggered" => th[t].op = "block"
      BY Zenon, <2>5 DEF EvtOf, Accounts, Account, Waiting
    <3>3. owed' = owed
      BY Zenon, <3>2 DEF EvtWait
    <3>4. pte' = pte \/ \E e \in {"idle", "blocked"} : SetEvt(t, e)
      BY Zenon DEF EvtWait
    <3> QED BY Zenon, <2>4, <3>1, <3>3, <3>4
  <2>6. CASE th[t].op = "wait"
    <3>1. Waiting(t) /\ pte[t].periodic /\ Listed(t)
      <4>1. Waiting(t) /\ pte[t].periodic
        BY Zenon, <2>0, <2>6 DEF Waiting, InWait, Accounts, Account
      <4>2. InList(periodic, t)
        BY Zenon, <4>1 DEF TimedInv, Flags
      <4> QED BY Zenon, <2>6, <4>1, <4>2 DEF Listed
    <3>2. CASE EvtOf(t) = "idle"
      <4>1. SetEvt(t, "blocked") /\ Goto(t, "sleep") /\ owed' = owed
        BY Zenon, <3>2 DEF EvtWait
      <4>2. th'[t].pc = "sleep"
        BY Zenon, <2>0, <4>1, GotoOne DEF Sleeping
      <4>3. StillWaits(t)
        BY Zenon, <2>0, <4>2 DEF StillWaits, InWait
      <4> QED BY <2>4, <4>1, <4>3
    <3>3. CASE EvtOf(t) = "triggered"
      <4>1. SetEvt(t, "idle") /\ Goto(t, "ret") /\ owed' = [owed EXCEPT ![t] = @ - 1]
        BY Zenon, <2>6, <3>3 DEF EvtWait
      <4>2. th'[t].pc = "ret" /\ th'[t].op = "wait"
        BY Zenon, <2>0, <2>6, <4>1, GotoOne DEF Sleeping
      <4>3. pte' = [pte EXCEPT ![t] = r("idle")]
        BY Zenon, <2>3, <2>6, <4>1
      <4>4. pte[t].evt = "triggered"
        BY Zenon, <2>6, <3>3 DEF EvtOf
      <4>5. Account(t)'
        <5>1. /\ ~pte[t].blocked /\ pte[t].restart >= 0 /\ pte[t].restart \in Int
              /\ owed[t] = pte[t].restart + 1
          BY Zenon, <2>0, <3>1, <4>4 DEF Accounts, Account, Pte
        <5>2. owed'[t] = pte[t].restart /\ pte'[t] = r("idle")
          BY <2>0, <4>1, <4>3, <5>1
        <5>3. /\ pte'[t].restart = pte[t].restart /\ ~pte'[t].blocked /\ pte'[t].evt = "idle"
          BY <2>2, <5>1, <5>2
        <5>4. ~Waiting(t)'
          BY Zenon, <4>2 DEF Waiting, InWait
        <5>5. owed'[t] = pte'[t].restart + IF Waiting(t)' /\ ~pte'[t].blocked THEN 1 ELSE 0
          BY <5>1, <5>2, <5>3, <5>4
        <5>6. pte'[t].restart >= 0 /\ pte'[t].evt # "triggered"
          BY <5>1, <5>3
        <5>7. th'[t].pc \notin {"check", "arm"}
          BY <4>2
        <5> QED BY Zenon, <5>3, <5>4, <5>5, <5>6, <5>7 DEF Account
      <4>6. ASSUME NEW u \in Threads, u # t PROVE Account(u)'
        <5>1. owed'[u] = owed[u] /\ pte'[u] = pte[u]
          BY Zenon, <2>0, <4>1, <4>3, <4>6
        <5> QED BY Zenon, <2>1, <4>6, <5>1, <1>AccountKept
      <4>7. DOMAIN owed' = Threads
        BY <2>0, <4>1
      <4> QED BY Zenon, <4>5, <4>6, <4>7 DEF Accounts
    <3> QED BY Zenon, <3>1, <3>2, <3>3 DEF EvtWait
  <2> QED BY <2>5, <2>6
<1>AccountsCreate.
  ASSUME TimedInv, Accounts, NEW t \in Threads, NEW f \in {"create", "exist"},
         periodic_wake_create(t, f)
  PROVE  Accounts'
  <2> USE <1>AccountsCreate
  <2>1. \A u \in Threads : Same(u) /\ StillWaits(u)
    BY Zenon, CreateCalls
  <2>2. DOMAIN pte = Threads /\ pte[t] \in Pte
    BY Zenon, SameStubs DEF PteOK
  <2>3. /\ owed' = owed
        /\ \/ pte' = pte
           \/ \E p : pte' = [pte EXCEPT ![t].periodic = TRUE, ![t].period = p, ![t].evt = "idle"]
    BY Zenon DEF periodic_wake_create, Assertion, server
  <2>4. CASE pte' = pte
    BY <2>1, <2>3, <2>4, <1>AccountsKept
  <2>5. ASSUME NEW p, pte' = [pte EXCEPT ![t].periodic = TRUE, ![t].period = p, ![t].evt = "idle"]
        PROVE  Accounts'
    <3> DEFINE d == [pte[t] EXCEPT !.periodic = TRUE, !.period = p]
               q == [d EXCEPT !.evt = "idle"]
    <3>1. pte' = [pte EXCEPT ![t] = q]
      BY Zenon, <2>2, <2>5
    <3>2. /\ DOMAIN d = DOMAIN pte[t] /\ d.periodic
          /\ d.restart = pte[t].restart /\ d.blocked = pte[t].blocked
      BY Zenon, <2>2 DEF Pte
    <3>3. "evt" \in DOMAIN pte[t]
      BY <2>2 DEF Pte
    <3> HIDE DEF d
    <3>4. q.periodic /\ q.restart = d.restart /\ q.blocked = d.blocked /\ q.evt = "idle"
      BY <3>2, <3>3
    <3> HIDE DEF q
    <3>5. pte'[t] = q /\ \A u \in Threads \ {t} : pte'[u] = pte[u]
      BY Zenon, <2>2, <3>1
    <3>6. \A u \in Threads : /\ pte'[u].restart = pte[u].restart
                             /\ pte'[u].blocked = pte[u].blocked
                             /\ pte[u].periodic => pte'[u].periodic
                             /\ pte'[u].evt = "triggered" => pte[u].evt = "triggered"
      BY Zenon, <3>2, <3>4, <3>5
    <3> QED BY Zenon, <2>1, <2>3, <3>6, <1>AccountsKept
  <2> QED BY Zenon, <2>3, <2>4, <2>5
\* A step outside its wait that changes t's thread_event and what it is owed.
<1>AccountOutside.
  ASSUME Accounts, NEW t \in Threads, NEW p,
         DOMAIN pte = Threads, pte' = [pte EXCEPT ![t] = p],
         \A u \in Threads : Same(u) /\ (u # t => StillWaits(u)),
         DOMAIN owed' = Threads, \A u \in Threads \ {t} : owed'[u] = owed[u],
         ~Waiting(t)', th'[t].pc \notin {"check", "arm"},
         owed'[t] = p.restart, p.restart \in Nat, ~p.blocked, p.evt # "triggered"
  PROVE  Accounts'
  <2> USE <1>AccountOutside
  <2>1. pte'[t] = p /\ \A u \in Threads \ {t} : pte'[u] = pte[u]
    BY Zenon
  <2>2. Account(t)'
    <3>1. p.restart >= 0 /\ p.restart = p.restart + 0
      BY Zenon, Naturally
    <3> QED BY Zenon, <2>1, <3>1 DEF Account
  <2>3. ASSUME NEW u \in Threads, u # t PROVE Account(u)'
    BY Zenon, <2>1, <2>3, <1>AccountKept
  <2> QED BY Zenon, <2>2, <2>3 DEF Accounts
<1>AccountsCreated.
  ASSUME TimedInv, Accounts, NEW t \in Threads, Created(t) PROVE Accounts'
  <2> USE <1>AccountsCreated
  <2> DEFINE p == [pte[t] EXCEPT !.restart = 0]
  <2>1. /\ pte' = [pte EXCEPT ![t] = p] /\ owed' = [owed EXCEPT ![t] = 0]
        /\ th[t].pc = "parm"
    BY DEF Created
  <2>2. PICK pc \in {"ret", "redo"} : Armed(t, pc)
    BY DEF Created
  <2>3. DOMAIN pte = Threads /\ pte[t] \in Pte /\ DOMAIN owed = Threads
    BY Zenon, SameStubs DEF PteOK, Accounts
  <2>4. th'[t].pc = pc /\ \A u \in Threads : Same(u) /\ StillWaits(u)
    BY <2>1, <2>2, ArmedOne, CreatedCalls DEF Sleeping
  <2>5. ~Waiting(t) /\ ~Waiting(t)' /\ th'[t].pc \notin {"check", "arm"}
    BY Zenon, <2>1, <2>4 DEF Waiting, InWait
  <2>6. ~pte[t].blocked /\ pte[t].evt # "triggered"
    BY Zenon, <2>5, <1>Outside
  <2>7. p.restart = 0 /\ p.restart \in Nat /\ ~p.blocked /\ p.evt # "triggered"
    BY Zenon, <2>3, <2>6 DEF Pte
  <2> HIDE DEF p
  <2>8. /\ DOMAIN owed' = Threads /\ owed'[t] = p.restart
        /\ \A u \in Threads \ {t} : owed'[u] = owed[u]
    BY <2>1, <2>3, <2>7
  <2> QED BY Zenon, <2>1, <2>3, <2>4, <2>5, <2>7, <2>8, <1>AccountOutside
<1>AccountsRemove.
  ASSUME TimedInv, Accounts, NEW t \in Threads, periodic_wake_remove(t) PROVE Accounts'
  <2> USE <1>AccountsRemove
  <2> DEFINE p == [pte[t] EXCEPT !.periodic = FALSE, !.blocked = FALSE]
  <2>1. \A u \in Threads : Same(u) /\ StillWaits(u)
    BY Zenon, RemoveCalls
  <2>2. DOMAIN pte = Threads /\ pte[t] \in Pte /\ DOMAIN owed = Threads
    BY Zenon, SameStubs DEF PteOK, Accounts
  <2>3. ~(pte[t].periodic /\ ~InList(periodic, t))
    BY DEF TimedInv, Flags
  <2>4. th[t].pc = "redo" /\ owed' = owed
        /\ pte' = [pte EXCEPT ![t].periodic = FALSE, ![t].blocked = FALSE]
    BY Zenon, <2>3 DEF periodic_wake_remove, Enter
  <2>5. pte' = [pte EXCEPT ![t] = p]
    BY Zenon, <2>2, <2>4
  <2>6. PICK pc \in {"ret", "err"} : Goto(t, pc)
    BY <2>3 DEF periodic_wake_remove
  <2>7. th'[t].pc = pc
    BY <2>4, <2>6, GotoOne DEF Sleeping
  <2>8. ~Waiting(t) /\ ~Waiting(t)' /\ th'[t].pc \notin {"check", "arm"}
    BY Zenon, <2>4, <2>7 DEF Waiting, InWait
  <2>9. pte[t].evt # "triggered" /\ owed[t] = pte[t].restart /\ pte[t].restart \in Nat
    BY <2>8, <1>Outside
  <2>10. p.restart = pte[t].restart /\ ~p.blocked /\ p.evt = pte[t].evt
    BY Zenon, <2>2 DEF Pte
  <2> HIDE DEF p
  <2> QED BY Zenon, <2>1, <2>2, <2>4, <2>5, <2>8, <2>9, <2>10, <1>AccountOutside
<1>AccountsWait.
  ASSUME TimedInv, Accounts, NEW t \in Threads, periodic_wake_wait(t) PROVE Accounts'
  <2> USE <1>AccountsWait
  <2> DEFINE p == [pte[t] EXCEPT !.completion = ~pte[t].missed, !.missed = FALSE]
             q == [p EXCEPT !.restart = @ - 1]
             b == [p EXCEPT !.blocked = TRUE]
  <2>1. th[t].pc = "redo" /\ th[t].op = "wait"
    BY DEF periodic_wake_wait, Enter, Function
  <2>2. PteOK(pte[t]) /\ DOMAIN pte = Threads /\ pte[t] \in Pte /\ DOMAIN owed = Threads
    BY Zenon, SameStubs DEF PteOK, Accounts
  <2>3. \A u \in Threads : Same(u) /\ (u # t => StillWaits(u))
    BY Zenon, PeriodicWaitCalls
  <2>4. ~Waiting(t)
    BY Zenon, <2>1 DEF Waiting, InWait
  <2>5. /\ ~pte[t].blocked /\ pte[t].evt # "triggered"
        /\ owed[t] = pte[t].restart /\ pte[t].restart \in Nat
    <3>1. /\ ~pte[t].blocked /\ pte[t].evt # "triggered"
          /\ owed[t] = pte[t].restart /\ pte[t].restart >= 0 /\ pte[t].restart \in Int
      BY Zenon, <2>4, <1>Outside
    <3>2. pte[t].restart \in Nat
      BY <3>1
    <3> QED BY Zenon, <3>1, <3>2
  <2>6. InList(periodic, t) <=> pte[t].periodic
    BY Zenon DEF TimedInv, Flags
  <2>7. \/ ~pte[t].periodic /\ Goto(t, "err") /\ UNCHANGED <<pte, owed>>
        \/ /\ pte[t].restart > 0 /\ pte' = [pte EXCEPT ![t] = q] /\ Goto(t, "ret")
           /\ owed' = [owed EXCEPT ![t] = @ - 1]
        \/ /\ pte[t].periodic /\ pte' = [pte EXCEPT ![t] = b] /\ Goto(t, "wait") /\ owed' = owed
    BY <2>2, <2>6 DEF periodic_wake_wait, PteOK
  <2>8. /\ DOMAIN p = DOMAIN pte[t]
        /\ p.restart = pte[t].restart /\ p.blocked = pte[t].blocked
        /\ p.evt = pte[t].evt /\ p.periodic = pte[t].periodic
    BY Zenon, <2>2 DEF Pte
  <2>9. {"restart", "blocked", "evt", "periodic"} \subseteq DOMAIN pte[t]
    BY <2>2 DEF Pte
  <2> HIDE DEF p
  <2>10. q.restart = pte[t].restart - 1 /\ q.blocked = pte[t].blocked /\ q.evt = pte[t].evt
    BY <2>8, <2>9
  <2>11. b.restart = pte[t].restart /\ b.blocked /\ b.evt = pte[t].evt /\ b.periodic = pte[t].periodic
    BY Zenon, <2>8, <2>9
  <2> HIDE DEF q, b
  <2>12. CASE ~pte[t].periodic /\ Goto(t, "err") /\ UNCHANGED <<pte, owed>>
    <3>1. th'[t].pc = "err"
      BY Zenon, <2>1, <2>12, GotoOne DEF Sleeping
    <3>2. StillWaits(t)
      BY <2>1, <3>1 DEF StillWaits, InWait
    <3> QED BY Zenon, <2>3, <2>12, <3>2, <1>AccountsKept
  <2>13. CASE /\ pte[t].restart > 0 /\ pte' = [pte EXCEPT ![t] = q] /\ Goto(t, "ret")
              /\ owed' = [owed EXCEPT ![t] = @ - 1]
    <3>1. th'[t].pc = "ret"
      BY Zenon, <2>1, <2>13, GotoOne DEF Sleeping
    <3>2. ~Waiting(t)' /\ th'[t].pc \notin {"check", "arm"}
      BY Zenon, <3>1 DEF Waiting, InWait
    <3>3. DOMAIN owed' = Threads /\ owed'[t] = owed[t] - 1 /\ \A u \in Threads \ {t} : owed'[u] = owed[u]
      BY Zenon, <2>2, <2>13
    <3>4. owed'[t] = q.restart /\ q.restart \in Nat /\ ~q.blocked /\ q.evt # "triggered"
      BY <2>5, <2>10, <2>13, <3>3
    <3> QED BY Zenon, <2>2, <2>3, <2>13, <3>2, <3>3, <3>4, <1>AccountOutside
  <2>14. CASE pte[t].periodic /\ pte' = [pte EXCEPT ![t] = b] /\ Goto(t, "wait") /\ owed' = owed
    <3>1. th'[t].pc = "wait" /\ th'[t].op = "wait"
      BY Zenon, <2>1, <2>14, GotoOne DEF Sleeping
    <3>2. pte'[t] = b /\ \A u \in Threads \ {t} : pte'[u] = pte[u]
      BY Zenon, <2>2, <2>14
    <3>3. Waiting(t)'
      BY Zenon, <3>1 DEF Waiting, InWait
    <3>4. Account(t)'
      <4>1. /\ pte'[t].restart = pte[t].restart /\ pte'[t].blocked
            /\ pte'[t].evt # "triggered" /\ pte'[t].periodic
        BY Zenon, <2>5, <2>11, <2>14, <3>2
      <4>2. owed'[t] = pte'[t].restart + 0 /\ pte'[t].restart >= 0
        BY <2>5, <2>14, <4>1
      <4> QED BY Zenon, <3>1, <3>3, <4>1, <4>2 DEF Account
    <3>5. ASSUME NEW u \in Threads, u # t PROVE Account(u)'
      BY Zenon, <2>3, <2>14, <3>2, <3>5, <1>AccountKept
    <3> QED BY Zenon, <2>2, <2>14, <3>4, <3>5 DEF Accounts
  <2> QED BY <2>7, <2>12, <2>13, <2>14
\* What an expiration counts.
<1>ExpiredCount.
  ASSUME NEW p, p \in Pte
  PROVE  /\ Missed(p).restart = p.restart + 1 /\ Missed(p).blocked = p.blocked
         /\ Missed(p).evt = p.evt /\ Missed(p).periodic = p.periodic
         /\ Released(p).restart = p.restart /\ ~Released(p).blocked
         /\ Released(p).evt = "triggered" /\ Released(p).periodic = p.periodic
  <2> USE <1>ExpiredCount
  <2>1. /\ Missed(p).restart = p.restart + 1 /\ Missed(p).blocked = p.blocked
        /\ Missed(p).evt = p.evt /\ Missed(p).periodic = p.periodic
    <3> DEFINE d == [p EXCEPT !.missed = TRUE, !.completion = TRUE]
    <3>1. /\ DOMAIN d = DOMAIN p /\ d.restart = p.restart /\ d.blocked = p.blocked
          /\ d.evt = p.evt /\ d.periodic = p.periodic
      BY DEF Pte
    <3>2. Missed(p) = [d EXCEPT !.restart = @ + 1]
      BY Zenon DEF Missed, Pte
    <3>3. {"restart", "blocked", "evt", "periodic"} \subseteq DOMAIN p
      BY Zenon DEF Pte
    <3> HIDE DEF d
    <3> QED BY <3>1, <3>2, <3>3
  <2>2. /\ Released(p).restart = p.restart /\ ~Released(p).blocked
        /\ Released(p).evt = "triggered" /\ Released(p).periodic = p.periodic
    <3> DEFINE d == [p EXCEPT !.blocked = FALSE, !.completion = FALSE]
    <3>1. /\ DOMAIN d = DOMAIN p /\ d.restart = p.restart /\ ~d.blocked /\ d.periodic = p.periodic
      BY DEF Pte
    <3>2. Released(p) = [d EXCEPT !.evt = "triggered"]
      BY DEF Released
    <3>3. {"restart", "blocked", "evt", "periodic"} \subseteq DOMAIN p
      BY DEF Pte
    <3> HIDE DEF d
    <3> QED BY <3>1, <3>2, <3>3
  <2> QED BY Zenon, <2>1, <2>2
<1>AccountsExpire.
  ASSUME TimedInv, Accounts, ExpirePeriodic PROVE Accounts'
  <2> USE <1>AccountsExpire
  <2>1. timer.tmp # None
    BY DEF ExpirePeriodic, Walking, Expired
  <2>2. PICK t \in Threads : t = timer.tmp
    BY Zenon, <2>1, TimerFacts DEF Walk
  <2> DEFINE p == pte[t]
             q == IF p.blocked THEN Released(p) ELSE Missed(p)
  <2>3. p \in Pte /\ DOMAIN pte = Threads /\ p.restart \in Int /\ DOMAIN owed = Threads
    BY Zenon, <2>2, SameStubs DEF PteOK, Pte, Accounts
  <2>4. CASE UNCHANGED <<pte, th, owed>>
    BY Zenon, <2>4, NoCallChanges, <1>AccountsKept
  <2>5. CASE /\ pte' = [pte EXCEPT ![t] = q] /\ owed' = [owed EXCEPT ![t] = @ + 1]
             /\ Trigger(t, p.evt) \/ UNCHANGED <<th, wake>>
    <3>1. \A u \in Threads : Same(u) /\ StillWaits(u)
      BY <2>2, <2>5, WokenCalls
    <3>2. /\ p.blocked => q.restart = p.restart /\ ~q.blocked /\ q.evt = "triggered"
          /\ ~p.blocked => q.restart = p.restart + 1 /\ ~q.blocked /\ q.evt = p.evt
          /\ q.periodic = p.periodic
      BY Zenon, <2>3, <1>ExpiredCount
    <3> HIDE DEF q
    <3>3. /\ pte'[t] = q /\ owed'[t] = owed[t] + 1 /\ DOMAIN owed' = Threads
          /\ \A u \in Threads \ {t} : pte'[u] = pte[u] /\ owed'[u] = owed[u]
      BY Zenon, <2>2, <2>3, <2>5
    <3>4. Account(t)
      BY Zenon, <2>2 DEF Accounts
    <3>5. Waiting(t)' <=> Waiting(t)
      BY Zenon, <2>2, <3>1 DEF Same, StillWaits, Waiting
    <3>6. th'[t].pc \in {"check", "arm"} => th'[t].op = "block"
      BY Zenon, <2>2, <3>1 DEF Same, StillWaits
    <3>7. ASSUME NEW u \in Threads, u # t PROVE Account(u)'
      BY Zenon, <3>1, <3>3, <3>7, <1>AccountKept
    <3>8. /\ owed[t] = p.restart + IF Waiting(t) /\ ~p.blocked THEN 1 ELSE 0
          /\ p.restart >= 0
          /\ p.blocked => Waiting(t)
          /\ p.evt = "triggered" => Waiting(t) /\ ~p.blocked
          /\ Waiting(t) => p.periodic
      BY Zenon, <3>4 DEF Account
    <3> HIDE DEF p
    <3>9. /\ owed'[t] = q.restart + IF Waiting(t)' /\ ~q.blocked THEN 1 ELSE 0
          /\ q.restart >= 0
      <4>1. CASE p.blocked
        <5>1. owed[t] = p.restart + 0 /\ q.restart = p.restart /\ ~q.blocked /\ Waiting(t)'
          BY Zenon, <3>2, <3>5, <3>8, <4>1
        <5>2. owed'[t] = q.restart + 1 /\ q.restart >= 0
          BY Zenon, <2>3, <3>3, <3>8, <5>1, Increments
        <5> QED BY Zenon, <5>1, <5>2
      <4>2. CASE ~p.blocked
        <5> DEFINE w == IF Waiting(t) THEN 1 ELSE 0
        <5>1. owed[t] = p.restart + w /\ q.restart = p.restart + 1 /\ ~q.blocked /\ w \in {0, 1}
          BY Zenon, <3>2, <3>8, <4>2
        <5>2. w = IF Waiting(t)' /\ ~q.blocked THEN 1 ELSE 0
          BY Zenon, <3>5, <5>1
        <5> HIDE DEF w
        <5>3. owed'[t] = q.restart + w /\ q.restart >= 0
          BY Zenon, <2>3, <3>3, <3>8, <5>1, Increments
        <5> QED BY Zenon, <5>2, <5>3
      <4> QED BY Zenon, <4>1, <4>2
    <3>10. /\ Waiting(t)' => q.periodic
           /\ ~q.blocked
           /\ q.evt = "triggered" => Waiting(t)'
      BY Zenon, <3>2, <3>5, <3>8
    <3>11. Account(t)'
      BY Zenon, <3>3, <3>6, <3>9, <3>10 DEF Account
    <3> QED BY Zenon, <3>3, <3>7, <3>11 DEF Accounts
  <2> QED BY <2>2, <2>4, <2>5 DEF ExpirePeriodic, Assertion, server
<1>AccountsFail.
  ASSUME TimedInv, Accounts, NEW E, Fail(E) PROVE Accounts'
  <2> USE <1>AccountsFail
  <2>1. pte' = [t \in Threads |-> NoPte] /\ owed' = [t \in Threads |-> 0]
    BY Zenon DEF Fail
  <2>2. NoPte.restart = 0 /\ ~NoPte.blocked /\ NoPte.evt = "idle"
    BY Zenon DEF NoPte
  <2> HIDE DEF NoPte
  <2>3. \A u \in Threads : th'[u].pc \notin Inside
    BY Zenon, AgainFields
  <2>4. \A u \in Threads : ~Waiting(u)' /\ th'[u].pc \notin {"check", "arm"}
    BY Zenon, <2>3 DEF Waiting, InWait, Inside
  <2>5. ASSUME NEW u \in Threads PROVE Account(u)'
    <3>1. pte'[u] = NoPte /\ owed'[u] = 0
      BY Zenon, <2>1
    <3>2. owed'[u] = pte'[u].restart + IF Waiting(u)' /\ ~pte'[u].blocked THEN 1 ELSE 0
      BY Zenon, <2>2, <2>4, <3>1, Zero
    <3>3. pte'[u].restart >= 0 /\ pte'[u].evt # "triggered" /\ ~pte'[u].blocked
      BY Zenon, <2>2, <3>1, Zero
    <3> QED BY Zenon, <2>4, <3>2, <3>3 DEF Account
  <2>6. DOMAIN owed' = Threads
    BY Zenon, <2>1
  <2> QED BY Zenon, <2>5, <2>6 DEF Accounts
<1> QED
  <2> SUFFICES ASSUME TimedInv, Accounts, [Next]_vars PROVE Accounts'
    BY Zenon
  <2>1. ASSUME NEW t \in Threads, Onward(t) PROVE Accounts'
    BY Zenon, <2>1, OnwardFacts, <1>AccountsKept
  <2>2. ASSUME Quiet PROVE Accounts'
    BY Zenon, <2>2, QuietFacts, <1>AccountsKept
  <2>3. ASSUME NEW t \in Threads, timed_event_block(t) PROVE Accounts'
    <3>1. pte' = pte /\ owed' = owed
      BY <2>3 DEF timed_event_block, Assertion, server
    <3> QED BY Zenon, <2>3, <3>1, BlockCalls, <1>AccountsKept
  <2>4. ASSUME NEW t \in Threads, timed_event_wakeup(t) PROVE Accounts'
    <3>1. pte' = pte /\ owed' = owed
      BY Zenon, <2>4 DEF timed_event_wakeup
    <3> QED BY Zenon, <2>4, <3>1, WakeupCalls, <1>AccountsKept
  <2>5. ASSUME ExpireEvent PROVE Accounts'
    <3>1. /\ pte' = pte /\ owed' = owed /\ timer.tmp # None
          /\ Trigger(timer.tmp, te[timer.tmp].evt) \/ UNCHANGED <<th, wake>>
      BY Zenon, <2>5 DEF ExpireEvent, Expired
    <3>2. timer.tmp \in Threads
      BY Zenon, <3>1, TimerFacts DEF Walk
    <3>3. \A u \in Threads : Same(u) /\ StillWaits(u)
      BY Zenon, <3>1, <3>2, WokenCalls
    <3> QED BY <3>1, <3>3, <1>AccountsKept
  <2>6. ASSUME Tick PROVE Accounts'
    <3>1. pte' = pte /\ owed' = owed
      BY Zenon, <2>6 DEF Tick
    <3>2. \A u \in Threads : th[u].pc \in {"check", "arm"} => th[u].op = "block"
      BY Zenon DEF Accounts, Account
    <3>3. \A u \in Threads : Same(u) /\ StillWaits(u)
      BY Zenon, <2>6, <3>2, TickCalls DEF Same, StillWaits
    <3> QED BY <3>1, <3>3, <1>AccountsKept
  <2>7. ASSUME UNCHANGED vars PROVE Accounts'
    <3>1. pte' = pte /\ owed' = owed /\ th' = th
      BY <2>7 DEF vars, server
    <3> QED BY Zenon, <3>1, NoCallChanges, <1>AccountsKept
  <2> QED BY <2>1, <2>2, <2>3, <2>4, <2>5, <2>6, <2>7, Steps, <1>AccountsStart, <1>AccountsReturn,
             <1>AccountsEvtWait, <1>AccountsCreate, <1>AccountsCreated, <1>AccountsRemove, <1>AccountsWait,
             <1>AccountsExpire, <1>AccountsFail

LEMMA TimelyNext ==
  TimedInv /\ Accounts /\ Timely /\ [Next]_vars => Timely'
<1>RemElems.
  ASSUME NEW l, NEW t, ListOK(l)
  PROVE  \A i \in DOMAIN REM_LIST(l, t) : \E j \in DOMAIN l : REM_LIST(l, t)[i] = l[j]
  <2> USE <1>RemElems
  <2>1. CASE ~InList(l, t)
    BY Zenon, <2>1 DEF REM_LIST
  <2>2. CASE InList(l, t)
    <3> DEFINE k == Place(l, t)
               r == Without(l, k)
    <3>1. l \in Seq(Event(Threads)) /\ k \in 1..Len(l)
      BY <2>2, PlaceFacts DEF ListOK
    <3>2. /\ r \in Seq(Event(Threads)) /\ Len(r) = Len(l) - 1
          /\ \A i \in 1..(Len(l) - 1) : r[i] = IF i < k THEN l[i] ELSE l[i + 1]
      BY <3>1, RemoveFacts
    <3>3. REM_LIST(l, t) = r
      BY Zenon, <2>2 DEF REM_LIST
    <3> HIDE DEF k, r
    <3>4. DOMAIN r = 1..(Len(l) - 1) /\ DOMAIN l = 1..Len(l) /\ Len(l) \in Nat
      <4>1. DOMAIN r = 1..Len(r) /\ DOMAIN l = 1..Len(l) /\ Len(l) \in Nat
        BY <3>1, <3>2
      <4> QED BY Zenon, <3>2, <4>1
    <3>5. \A i \in DOMAIN r : \E j \in DOMAIN l : r[i] = l[j]
      BY <3>1, <3>2, <3>4
    <3> QED BY <3>3, <3>5
  <2> QED BY Zenon, <2>1, <2>2
\* A step that starts no block and lets no time pass.
<1>TimelySame.
  ASSUME TimedInv, Timely, left' = left, age' >= 0, \A u \in Threads : Same(u),
         \A u \in Threads : te'[u].timed_out =>
           \/ te[u].timed_out
           \/ th[u].op = "block" /\ th[u].pc \in Sleeping /\ left[u] = 0,
         \A i \in DOMAIN events' : \E j \in DOMAIN events : events'[i] = events[j]
  PROVE  Timely'
  <2> USE <1>TimelySame
  <2>1. DOMAIN left' = Threads
    BY Zenon DEF Timely
  <2>2. ASSUME NEW u \in Threads
        PROVE  /\ left'[u] \in Nat
               /\ th'[u].op = "block" => left'[u] <= th'[u].arg
               /\ te'[u].timed_out =>
                    th'[u].op = "block" /\ th'[u].pc \in Sleeping \cup {"ret"} /\ left'[u] = 0
    <3>1. /\ left[u] \in Nat
          /\ th[u].op = "block" => left[u] <= th[u].arg
          /\ te[u].timed_out =>
               th[u].op = "block" /\ th[u].pc \in Sleeping \cup {"ret"} /\ left[u] = 0
      BY Zenon DEF Timely
    <3>2. Same(u)
      BY Zenon
    <3> QED BY Zenon, <3>1, <3>2 DEF Same
  <2>3. ASSUME NEW i \in DOMAIN events', left'[events'[i].thd] > 0
        PROVE  events'[i].exp > left'[events'[i].thd]
    <3>1. PICK j \in DOMAIN events : events'[i] = events[j]
      BY Zenon
    <3> QED BY Zenon, <2>3, <3>1 DEF Timely
  <2> QED BY Zenon, <2>1, <2>2, <2>3 DEF Timely
\* Nobody is listed whose block has not begun or has ended.
<1>NotListed.
  ASSUME TimedInv, NEW t \in Threads, th[t].pc \notin Sleeping
  PROVE  /\ \A i \in DOMAIN events : events[i].thd # t
         /\ Timely /\ th[t].pc # "ret" => ~te[t].timed_out
  <2> USE <1>NotListed
  <2>1. ~InList(events, t)
    BY Zenon, SameStubs
  <2>2. \A i \in DOMAIN events : events[i].thd # t
    BY Zenon, <2>1 DEF InList
  <2>3. Timely /\ th[t].pc # "ret" => ~te[t].timed_out
    BY DEF Timely
  <2> QED BY Zenon, <2>2, <2>3
<1>TimelyStart.
  ASSUME TimedInv, Timely, NEW t \in Threads, NEW op \in Calls, NEW arg \in Args, Start(t, op, arg)
  PROVE  Timely'
  <2> USE <1>TimelyStart
  <2> DEFINE r == [NoCall EXCEPT !.pc = "redo", !.op = op, !.arg = arg]
  <2>1. /\ th[t].pc = "idle" /\ th' = [th EXCEPT ![t] = r] /\ DOMAIN th = Threads
        /\ left' = IF op = "block" THEN [left EXCEPT ![t] = arg] ELSE left
        /\ UNCHANGED <<events, te, age>>
    BY DEF Start, Set, server, TimedInv, Types
  <2>2. r.pc = "redo" /\ r.op = op /\ r.arg = arg
    BY StartFields
  <2>3. op = "block" => arg \in Nat
    BY ArgsNat DEF Start
  <2> HIDE DEF r
  <2>4. (\A i \in DOMAIN events : events[i].thd # t) /\ ~te[t].timed_out
    BY Zenon, <2>1, <1>NotListed DEF Sleeping
  <2>5. /\ DOMAIN left = Threads /\ age >= 0
        /\ \A u \in Threads : left[u] \in Nat
        /\ \A i \in DOMAIN events :
             left[events[i].thd] > 0 => events[i].exp > left[events[i].thd]
    BY Zenon DEF Timely
  <2>6. /\ DOMAIN left' = Threads /\ left'[t] \in Nat
        /\ op = "block" => left'[t] = arg
        /\ \A u \in Threads \ {t} : left'[u] = left[u]
    BY Zenon, <2>1, <2>3, <2>5
  <2>7. th'[t] = r /\ \A u \in Threads \ {t} : th'[u] = th[u]
    BY Zenon, <2>1
  <2>8. ASSUME NEW u \in Threads
        PROVE  /\ left'[u] \in Nat
               /\ th'[u].op = "block" => left'[u] <= th'[u].arg
               /\ te'[u].timed_out =>
                    th'[u].op = "block" /\ th'[u].pc \in Sleeping \cup {"ret"} /\ left'[u] = 0
    <3>1. CASE u = t
      BY <2>1, <2>2, <2>3, <2>4, <2>6, <2>7, <3>1
    <3>2. CASE u # t
      BY <2>1, <2>6, <2>7, <3>2 DEF Timely
    <3> QED BY Zenon, <3>1, <3>2
  <2>9. ASSUME NEW i \in DOMAIN events', left'[events'[i].thd] > 0
        PROVE  events'[i].exp > left'[events'[i].thd]
    <3>1. events[i].thd \in Threads \ {t} /\ i \in DOMAIN events
      BY Zenon, <2>1, <2>4, ListTypes, TimerFacts
    <3> QED BY Zenon, <2>1, <2>5, <2>6, <2>9, <3>1
  <2> QED BY Zenon, <2>1, <2>5, <2>6, <2>8, <2>9 DEF Timely
<1>TimelyReturn.
  ASSUME TimedInv, Timely, NEW t \in Threads, Return(t) PROVE Timely'
  <2> USE <1>TimelyReturn
  <2>1. /\ th[t].pc \in {"ret", "err"} /\ th' = [th EXCEPT ![t] = NoCall] /\ DOMAIN th = Threads
        /\ te' = IF th[t].op = "block" THEN [te EXCEPT ![t] = NoTe] ELSE te
        /\ left' = [left EXCEPT ![t] = 0]
        /\ UNCHANGED <<events, age>>
    BY Zenon DEF Return, Set, TimedInv, Types
  <2>2. \A i \in DOMAIN events : events[i].thd # t
    BY Zenon, <2>1, <1>NotListed DEF Sleeping
  <2>3. /\ DOMAIN left = Threads /\ age >= 0
        /\ \A u \in Threads : left[u] \in Nat
        /\ \A i \in DOMAIN events :
             left[events[i].thd] > 0 => events[i].exp > left[events[i].thd]
        /\ te[t].timed_out => th[t].op = "block"
    BY Zenon DEF Timely
  <2>4. DOMAIN left' = Threads /\ left'[t] = 0 /\ \A u \in Threads \ {t} : left'[u] = left[u]
    BY Zenon, <2>1, <2>3
  <2>5. th'[t] = NoCall /\ NoCall.op = "none" /\ \A u \in Threads \ {t} : th'[u] = th[u]
    BY Zenon, <2>1 DEF NoCall
  <2>6. ~te'[t].timed_out /\ \A u \in Threads \ {t} : te'[u] = te[u]
    <3>1. te \in [Threads -> Te] /\ ~NoTe.timed_out
      BY Zenon, SameStubs DEF NoTe
    <3> QED BY Zenon, <2>1, <2>3, <3>1
  <2>7. ASSUME NEW u \in Threads
        PROVE  /\ left'[u] \in Nat
               /\ th'[u].op = "block" => left'[u] <= th'[u].arg
               /\ te'[u].timed_out =>
                    th'[u].op = "block" /\ th'[u].pc \in Sleeping \cup {"ret"} /\ left'[u] = 0
    <3>1. CASE u = t
      <4>1. left'[u] = 0 /\ th'[u].op = "none" /\ ~te'[u].timed_out
        BY Zenon, <2>4, <2>5, <2>6, <3>1
      <4>2. th'[u].op # "block"
        BY Zenon, <4>1
      <4> QED BY Zenon, <4>1, <4>2, Zero
    <3>2. CASE u # t
      BY Zenon, <2>4, <2>5, <2>6, <3>2 DEF Timely
    <3> QED BY Zenon, <3>1, <3>2
  <2>8. ASSUME NEW i \in DOMAIN events', left'[events'[i].thd] > 0
        PROVE  events'[i].exp > left'[events'[i].thd]
    <3>1. events[i].thd \in Threads \ {t} /\ i \in DOMAIN events
      BY Zenon, <2>1, <2>2, ListTypes, TimerFacts
    <3> QED BY Zenon, <2>1, <2>3, <2>4, <2>8, <3>1
  <2> QED BY Zenon, <2>1, <2>3, <2>4, <2>7, <2>8 DEF Timely
<1>TimelyBlock.
  ASSUME TimedInv, Accounts, Timely, NEW t \in Threads, timed_event_block(t) PROVE Timely'
  <2> USE <1>TimelyBlock
  <2> DEFINE n == th[t].arg + 1
             x == [NoTe EXCEPT !.blocked = TRUE]
  <2>1. th[t].pc = "redo" /\ th[t].op = "block"
    BY Zenon DEF timed_event_block, Enter, Function
  <2>2. ~InList(events, t)
    BY Zenon, <2>1, SameStubs DEF Sleeping
  <2>3. /\ events' = Insert(events, t, n) /\ te' = [te EXCEPT ![t] = x]
        /\ age' = 0 /\ left' = left
    BY Zenon, <2>2 DEF timed_event_block
  <2>4. n \in Int /\ left[t] \in Nat /\ n > left[t]
    <3>1. th[t].arg \in Nat
      BY Zenon, <2>1, SameStubs, ArgsNat DEF CallOK
    <3> QED BY <2>1, <3>1 DEF Timely
  <2>5. te \in [Threads -> Te] /\ ~x.timed_out
    BY SameStubs DEF NoTe
  <2> HIDE DEF n, x
  <2>6. \A u \in Threads : te'[u].timed_out => u # t /\ te[u].timed_out
    BY Zenon, <2>3, <2>5
  <2>7. \A i \in DOMAIN events' :
           events'[i] = [thd |-> t, exp |-> n] \/ \E j \in DOMAIN events : events'[i] = events[j]
    BY Zenon, <2>3, <2>4, InsElems, TimerFacts
  <2>8. ASSUME NEW i \in DOMAIN events', left'[events'[i].thd] > 0
        PROVE  events'[i].exp > left'[events'[i].thd]
    <3>1. CASE events'[i] = [thd |-> t, exp |-> n]
      <4>1. events'[i].thd = t /\ events'[i].exp = n
        BY Zenon, <3>1, EntryFields
      <4> QED BY Zenon, <2>3, <2>4, <4>1
    <3>2. ASSUME NEW j \in DOMAIN events, events'[i] = events[j]
          PROVE  events'[i].exp > left'[events'[i].thd]
      BY Zenon, <2>3, <2>8, <3>2 DEF Timely
    <3> QED BY Zenon, <2>7, <3>1, <3>2
  <2>9. \A u \in Threads : Same(u)
    BY BlockCalls
  <2>10. ASSUME NEW u \in Threads
        PROVE  /\ left'[u] \in Nat
               /\ th'[u].op = "block" => left'[u] <= th'[u].arg
               /\ te'[u].timed_out =>
                    th'[u].op = "block" /\ th'[u].pc \in Sleeping \cup {"ret"} /\ left'[u] = 0
    BY Zenon, <2>3, <2>6, <2>9 DEF Timely, Same
  <2>11. DOMAIN left' = Threads /\ age' >= 0
    BY Zenon, <2>3, Zero DEF Timely
  <2> QED BY Zenon, <2>8, <2>10, <2>11 DEF Timely
<1>TimelyWakeup.
  ASSUME TimedInv, Accounts, Timely, NEW t \in Threads, timed_event_wakeup(t) PROVE Timely'
  <2> USE <1>TimelyWakeup
  <2>1. events' = REM_LIST(events, th[t].arg) /\ age' = 0 /\ te' = te /\ left' = left
    BY Zenon DEF timed_event_wakeup
  <2>2. \A i \in DOMAIN events' : \E j \in DOMAIN events : events'[i] = events[j]
    BY <2>1, <1>RemElems, TimerFacts
  <2>3. \A u \in Threads : Same(u)
    BY WakeupCalls
  <2>4. age' >= 0 /\ \A u \in Threads : te'[u].timed_out = te[u].timed_out
    BY <2>1
  <2> QED BY Zenon, <2>1, <2>2, <2>3, <2>4, <1>TimelySame
\* What expires has no ticks left.
<1>TimelyExpireEvent.
  ASSUME TimedInv, Accounts, Timely, ExpireEvent PROVE Timely'
  <2> USE <1>TimelyExpireEvent
  <2> DEFINE t == timer.tmp
  <2>1. timer.pc = "walk" /\ timer.list = "events" /\ t # None /\ events[Place(events, t)].exp <= -age
    BY DEF ExpireEvent, Walking, Expired
  <2>2. t \in Threads /\ InList(events, t)
    <3>1. t \in Threads
      BY <2>1, TimerFacts DEF Walk
    <3> QED BY Zenon, <2>1, <3>1 DEF TimedInv, Flags, List
  <2>3. /\ events' = REM_LIST(events, t) /\ age' = age /\ left' = left
        /\ Trigger(t, te[t].evt) \/ UNCHANGED <<th, wake>>
        /\ DOMAIN te = Threads
        /\ \A u \in Threads \ {t} : te'[u] = te[u]
    <3>1. DOMAIN te = Threads
      BY Zenon, SameStubs
    <3> QED BY Zenon, <2>2, <3>1 DEF ExpireEvent
  <2>4. left[t] = 0
    <3>1. Place(events, t) \in DOMAIN events /\ events[Place(events, t)].thd = t
      BY Zenon, <2>2, PlaceFacts
    <3>2. events[Place(events, t)].exp \in Int /\ age \in Int
      BY Zenon, <3>1, ListTypes, TimerFacts
    <3>3. left[t] \in Nat /\ age >= 0 /\ (left[t] > 0 => events[Place(events, t)].exp > left[t])
      BY Zenon, <2>2, <3>1 DEF Timely
    <3> QED BY <2>1, <3>2, <3>3
  <2>5. th[t].op = "block" /\ th[t].pc \in Sleeping
    BY Zenon, <2>2, SameStubs
  <2> HIDE DEF t
  <2>6. \A i \in DOMAIN events' : \E j \in DOMAIN events : events'[i] = events[j]
    BY <2>3, <1>RemElems, TimerFacts
  <2>7. \A u \in Threads : Same(u)
    BY Zenon, <2>2, <2>3, WokenCalls
  <2>8. \A u \in Threads : te'[u].timed_out =>
             \/ te[u].timed_out
             \/ th[u].op = "block" /\ th[u].pc \in Sleeping /\ left[u] = 0
    BY Zenon, <2>2, <2>3, <2>4, <2>5
  <2>9. age' >= 0
    BY Zenon, <2>3 DEF Timely
  <2> QED BY Zenon, <2>3, <2>6, <2>7, <2>8, <2>9, <1>TimelySame
<1>TimelyTick.
  ASSUME TimedInv, Timely, Tick PROVE Timely'
  <2> USE <1>TimelyTick
  <2>1. /\ events' = Later(events) /\ te' = te
        /\ age' = IF timer.pc \in {"stamp", "take", "arm"} THEN age + TicksPerTick ELSE 0
        /\ left' = [t \in Threads |-> IF left[t] <= TicksPerTick THEN 0 ELSE left[t] - TicksPerTick]
    BY Zenon DEF Tick
  <2>2. \A u \in Threads : th'[u].op = th[u].op /\ th'[u].pc = th[u].pc /\ th'[u].arg = th[u].arg
    BY TickCalls
  <2>3. /\ age \in Int /\ age >= 0
        /\ \A u \in Threads :
             /\ left[u] \in Nat
             /\ th[u].op = "block" => left[u] <= th[u].arg /\ th[u].arg \in Nat
             /\ te[u].timed_out =>
                  th[u].op = "block" /\ th[u].pc \in Sleeping \cup {"ret"} /\ left[u] = 0
    <3>1. \A u \in Threads : th[u].op = "block" => th[u].arg \in Nat
      BY Zenon, SameStubs, ArgsNat DEF CallOK
    <3> QED BY Zenon, <3>1, TimerFacts DEF Timely
  <2>4. age' >= 0
    BY Zenon, <2>1, <2>3, Zero, TickArithmetic
  <2>5. ASSUME NEW u \in Threads
        PROVE  /\ left'[u] \in Nat /\ left'[u] <= left[u]
               /\ left'[u] > 0 => left'[u] = left[u] - TicksPerTick /\ left[u] > 0
    BY <2>1, <2>3 DEF TicksPerTick
  <2>6. ASSUME NEW u \in Threads
        PROVE  /\ left'[u] \in Nat
               /\ th'[u].op = "block" => left'[u] <= th'[u].arg
               /\ te'[u].timed_out =>
                    th'[u].op = "block" /\ th'[u].pc \in Sleeping \cup {"ret"} /\ left'[u] = 0
    BY <2>1, <2>2, <2>3, <2>5
  <2>7. ASSUME NEW i \in DOMAIN events', left'[events'[i].thd] > 0
        PROVE  events'[i].exp > left'[events'[i].thd]
    <3>1. /\ i \in DOMAIN events /\ events[i].thd \in Threads /\ events[i].exp \in Int
          /\ events'[i].thd = events[i].thd /\ events'[i].exp = events[i].exp - TicksPerTick
      BY Zenon, <2>1, LaterElems, TimerFacts
    <3>2. left[events[i].thd] > 0 => events[i].exp > left[events[i].thd]
      BY Zenon, <3>1 DEF Timely
    <3> DEFINE v == events[i].thd
    <3>3. left'[v] = left[v] - TicksPerTick /\ left[v] > 0 /\ left[v] \in Nat
      BY Zenon, <2>3, <2>5, <2>7, <3>1
    <3> QED BY Zenon, <3>1, <3>2, <3>3, TickArithmetic
  <2>8. DOMAIN left' = Threads
    BY Zenon, <2>1
  <2> QED BY Zenon, <2>4, <2>6, <2>7, <2>8 DEF Timely
<1>TimelyFail.
  ASSUME TimedInv, Timely, NEW E, Fail(E) PROVE Timely'
  <2> USE <1>TimelyFail
  <2>1. events' = <<>> /\ te' = [t \in Threads |-> NoTe] /\ age' = 0 /\ left' = left
    BY Zenon DEF Fail
  <2>2. ~NoTe.timed_out
    BY DEF NoTe
  <2> HIDE DEF NoTe
  <2>3. \A u \in Threads : ~te'[u].timed_out
    BY Zenon, <2>1, <2>2
  <2>4. \A u \in Threads : th'[u].op = th[u].op /\ th'[u].arg = th[u].arg
    BY Zenon, AgainFields
  <2>5. DOMAIN events' = {}
    BY <2>1
  <2>6. ASSUME NEW u \in Threads
        PROVE  left'[u] \in Nat /\ (th'[u].op = "block" => left'[u] <= th'[u].arg)
    BY Zenon, <2>1, <2>4 DEF Timely
  <2>7. DOMAIN left' = Threads /\ age' >= 0
    BY Zenon, <2>1, Zero DEF Timely
  <2> QED BY Zenon, <2>3, <2>5, <2>6, <2>7 DEF Timely
<1>TimelyQuiet.
  ASSUME TimedInv, Timely, UNCHANGED <<events, left>>, age' \in {age, 0},
         \A u \in Threads : Same(u),
         \A u \in Threads : te'[u].timed_out = te[u].timed_out
  PROVE  Timely'
  <2> USE <1>TimelyQuiet
  <2>1. age' >= 0
    BY Zenon, Zero DEF Timely
  <2> QED BY Zenon, <2>1, <1>TimelySame
<1> QED
  <2> SUFFICES ASSUME TimedInv, Accounts, Timely, [Next]_vars PROVE Timely'
    BY Zenon
  <2>1. ASSUME NEW t \in Threads, Onward(t) PROVE Timely'
    BY Zenon, <2>1, OnwardFacts, <1>TimelyQuiet
  <2>2. ASSUME Quiet PROVE Timely'
    BY Zenon, <2>2, QuietFacts, <1>TimelyQuiet
  <2>3. ASSUME NEW t \in Threads, EvtWait(t) PROVE Timely'
    <3>1. UNCHANGED <<events, left, age>>
      BY Zenon, <2>3 DEF EvtWait
    <3>2. te' = te \/ \E e : te' = [te EXCEPT ![t].evt = e]
      BY <2>3 DEF EvtWait, SetEvt
    <3>3. \A u \in Threads : te'[u].timed_out = te[u].timed_out
      <4>1. te \in [Threads -> Te]
        BY Zenon, SameStubs
      <4>2. ASSUME NEW e, te' = [te EXCEPT ![t].evt = e], NEW u \in Threads
            PROVE  te'[u].timed_out = te[u].timed_out
        <5>1. te[u] \in Te
          BY Zenon, <4>1
        <5>2. te'[u] = IF u = t THEN [te[u] EXCEPT !.evt = e] ELSE te[u]
          BY Zenon, <4>1, <4>2
        <5>3. [te[u] EXCEPT !.evt = e].timed_out = te[u].timed_out
          BY <5>1 DEF Te
        <5> QED BY Zenon, <5>2, <5>3
      <4> QED BY Zenon, <3>2, <4>2
    <3>4. \A u \in Threads : Same(u)
      BY Zenon, <2>3, EvtWaitCalls
    <3> QED BY Zenon, <3>1, <3>3, <3>4, <1>TimelyQuiet
  <2>4. ASSUME NEW t \in Threads, NEW f \in {"create", "exist"}, periodic_wake_create(t, f)
        PROVE  Timely'
    <3>1. UNCHANGED <<events, left, te>> /\ age' \in {age, 0}
      BY Zenon, <2>4 DEF periodic_wake_create, Assertion, server
    <3> QED BY <2>4, <3>1, CreateCalls, <1>TimelyQuiet
  <2>5. ASSUME NEW t \in Threads, Created(t) PROVE Timely'
    <3>1. UNCHANGED <<events, left, te, age>>
      BY <2>5 DEF Created
    <3> QED BY Zenon, <2>5, <3>1, CreatedCalls, <1>TimelyQuiet
  <2>6. ASSUME NEW t \in Threads, periodic_wake_remove(t) PROVE Timely'
    <3>1. UNCHANGED <<events, left, te, age>>
      BY Zenon, <2>6 DEF periodic_wake_remove, Assertion, server
    <3> QED BY <2>6, <3>1, RemoveCalls, <1>TimelyQuiet
  <2>7. ASSUME NEW t \in Threads, periodic_wake_wait(t) PROVE Timely'
    <3>1. UNCHANGED <<events, left, te, age>>
      BY <2>7 DEF periodic_wake_wait
    <3> QED BY <2>7, <3>1, PeriodicWaitCalls, <1>TimelyQuiet
  <2>8. ASSUME ExpirePeriodic PROVE Timely'
    <3>1. UNCHANGED <<events, left, te, age>> /\ timer.tmp # None
      BY <2>8 DEF ExpirePeriodic, Assertion, server, Expired
    <3>2. Trigger(timer.tmp, pte[timer.tmp].evt) \/ th' = th
      BY <2>8 DEF ExpirePeriodic, Assertion
    <3>3. timer.tmp \in Threads
      BY Zenon, <3>1, TimerFacts DEF Walk
    <3>4. \A u \in Threads : Same(u)
      BY <3>2, <3>3, WokenCalls, NoCallChanges
    <3> QED BY <3>1, <3>4, <1>TimelyQuiet
  <2>9. ASSUME UNCHANGED vars PROVE Timely'
    <3>1. UNCHANGED <<events, left, te, age, th>>
      BY Zenon, <2>9 DEF vars, server
    <3> QED BY Zenon, <3>1, NoCallChanges, <1>TimelyQuiet
  <2> QED BY <2>1, <2>2, <2>3, <2>4, <2>5, <2>6, <2>7, <2>8, <2>9, Steps, <1>TimelyStart,
             <1>TimelyReturn, <1>TimelyBlock, <1>TimelyWakeup, <1>TimelyExpireEvent, <1>TimelyTick, <1>TimelyFail

LEMMA AccountsHold == Spec => []Accounts
<1>1. TimedInv /\ Accounts /\ [Next]_vars => Accounts'
  BY AccountsNext
<1> QED BY <1>1, AccountsInit, InvHolds, PTL DEF Spec

LEMMA TimelyHolds == Spec => []Timely
<1>1. TimedInv /\ Accounts /\ Timely /\ [Next]_vars => Timely'
  BY Zenon, TimelyNext
<1> QED BY <1>1, TimelyInit, InvHolds, AccountsHold, PTL DEF Spec

\* timed_event_block reports a timeout only after the ticks it was asked for,
\* counted from the client's call, whatever the timer thread's delays, the
\* wakeups by other threads and the failures of the manager in between.
THEOREM NeverEarly == Spec => []NotEarly
<1>1. Timely => NotEarly
  BY Zenon DEF Timely, NotEarly
<1> QED BY <1>1, TimelyHolds, PTL

\* Every expiration of a periodic thread_event is good for exactly one return
\* of periodic_wake_wait, however many deadlines the thread misses and however
\* the walk interleaves with its waits.
THEOREM ActivationsAlwaysConserved == Spec => []ActivationsConserved
<1>1. Accounts => ActivationsConserved
  BY Zenon DEF Accounts, Account, Waiting, InWait, ActivationsConserved
<1> QED BY <1>1, AccountsHold, PTL
=============================================================================
