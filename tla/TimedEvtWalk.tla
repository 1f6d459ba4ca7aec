---------------------------- MODULE TimedEvtWalk ----------------------------
(***************************************************************************)
(* A pass of the timed event manager's timer thread overlooks nothing that *)
(* has expired, and the manager's variables keep their types and bounds.   *)
(***************************************************************************)
EXTENDS TimedEvtProofs

Sorted(l) == \A i, j \in DOMAIN l : i < j => l[i].exp <= l[j].exp

\* The walk has nothing more to do for a thread_event.
Done(e) == e.exp > -age \/ pte[e.thd].restart > 0 \/ pte[e.thd].evt = "triggered"

\* The elements of l that the walk has passed.
Passed(l) == {i \in DOMAIN l : timer.tmp = None \/ i < Place(l, timer.tmp)}

Walked ==
  /\ Sorted(events) /\ Sorted(periodic)
  /\ timer.pc = "walk" =>
       IF timer.list = "periodic" THEN \A i \in Passed(periodic) : Done(periodic[i])
       ELSE /\ \A i \in DOMAIN periodic : Done(periodic[i])
            /\ \A i \in Passed(events) : events[i].exp > -age
  /\ WalkOverlooksNothing

IsFcn(f) == f = [t \in Threads |-> f[t]]

Bounds ==
  /\ IsFcn(th) /\ IsFcn(pte) /\ IsFcn(owed) /\ IsFcn(left)
  /\ age \in 0..MaxLag
  /\ wakeup_in \in Nat \cup {NoTimeout} /\ twake \in BOOLEAN
  /\ wake \in [Threads -> BOOLEAN]
  /\ sec \in Threads \cup {Timer, None}
  /\ \A t \in Threads :
       /\ pte[t].period \in Periods \cup {0}
       /\ desc[t].period \in Periods \cup {0}
       /\ th[t].lag \in 0..MaxLag
  /\ stale \subseteq {Home[t] : t \in Threads}
  /\ faults \in 0..MaxFaults /\ failed \in Nat

-----------------------------------------------------------------------------
(* A pass of the timer thread overlooks nothing.                           *)

LEMMA WalkedInit == Init => Walked
<1> SUFFICES ASSUME Init PROVE Walked
  OBVIOUS
<1>1. events = <<>> /\ periodic = <<>> /\ timer.pc = "asleep" /\ failed = 0
  BY DEF Init
<1>2. DOMAIN events = {} /\ DOMAIN periodic = {}
  BY <1>1
<1>3. Sorted(events) /\ Sorted(periodic)
  BY Zenon, <1>2 DEF Sorted
<1>4. timer.pc \notin {"walk", "arm", "block"} /\ failed # 853
  BY <1>1
<1>5. WalkOverlooksNothing
  BY Zenon, <1>4 DEF WalkOverlooksNothing
<1> QED BY Zenon, <1>3, <1>4, <1>5 DEF Walked

LEMMA WalkedNext ==
  TimedInv /\ Accounts /\ Walked /\ [Next]_vars => Walked'
<1>PlaceIs.
  ASSUME NEW l, ListOK(l), NEW i \in DOMAIN l
  PROVE  Place(l, l[i].thd) = i
  <2> USE <1>PlaceIs
  <2>1. InList(l, l[i].thd)
    BY DEF InList
  <2>2. Place(l, l[i].thd) \in DOMAIN l /\ l[Place(l, l[i].thd)].thd = l[i].thd
    BY <2>1, PlaceFacts
  <2> QED BY <2>2 DEF ListOK
<1>RemSorted.
  ASSUME NEW l, NEW t, ListOK(l), Sorted(l)
  PROVE  Sorted(REM_LIST(l, t))
  <2> USE <1>RemSorted
  <2>1. CASE ~InList(l, t)
    BY <2>1 DEF REM_LIST
  <2>2. CASE InList(l, t)
    <3> DEFINE k == Place(l, t)
               r == Without(l, k)
    <3>1. l \in Seq(Event(Threads)) /\ k \in 1..Len(l)
      BY <2>2, PlaceFacts DEF ListOK
    <3>2. /\ r \in Seq(Event(Threads)) /\ Len(r) = Len(l) - 1
          /\ \A i \in 1..(Len(l) - 1) : r[i] = IF i < k THEN l[i] ELSE l[i + 1]
      BY <3>1, RemoveFacts
    <3>3. REM_LIST(l, t) = r
      BY <2>2 DEF REM_LIST
    <3> HIDE DEF k, r
    <3>4. DOMAIN r = 1..(Len(l) - 1) /\ DOMAIN l = 1..Len(l) /\ Len(l) \in Nat
      BY <3>1, <3>2
    <3>5. ASSUME NEW i \in DOMAIN r, NEW j \in DOMAIN r, i < j PROVE r[i].exp <= r[j].exp
      <4> DEFINE a == IF i < k THEN i ELSE i + 1
                 b == IF j < k THEN j ELSE j + 1
      <4>1. a \in DOMAIN l /\ b \in DOMAIN l /\ a < b
        BY <3>1, <3>4, <3>5
      <4>2. r[i] = l[a] /\ r[j] = l[b]
        BY <3>2, <3>4
      <4> HIDE DEF a, b
      <4> QED BY <4>1, <4>2 DEF Sorted
    <3> QED BY <3>3, <3>5 DEF Sorted
  <2> QED BY <2>1, <2>2
<1>InsSorted.
  ASSUME NEW l, NEW t \in Threads, NEW exp \in Int, ListOK(l), Sorted(l)
  PROVE  Sorted(Insert(l, t, exp))
  <2> USE <1>InsSorted
  <2> DEFINE e == [thd |-> t, exp |-> exp]
             r == Insert(l, t, exp)
  <2>1. l \in Seq(Event(Threads)) /\ e \in Event(Threads) /\ e.exp = exp
    BY DEF ListOK, Event
  <2>2. PICK k \in 1..(Len(l) + 1) :
          /\ r = With(l, k, e)
          /\ \A i \in DOMAIN l : i < k => l[i].exp <= exp
          /\ k \in DOMAIN l => l[k].exp > exp
    BY Zenon, InsertPlace
  <2> HIDE DEF e
  <2>3. /\ With(l, k, e) \in Seq(Event(Threads))
        /\ Len(With(l, k, e)) = Len(l) + 1
        /\ \A i \in 1..(Len(l) + 1) :
             With(l, k, e)[i] = IF i < k THEN l[i] ELSE IF i = k THEN e ELSE l[i - 1]
    <3>1. Inserted(Event(Threads), l, k, e)
      BY Zenon, <2>1, InsertFacts
    <3> QED BY Zenon, <3>1 DEF Inserted
  <2> HIDE DEF r
  <2>4. DOMAIN r = 1..(Len(l) + 1) /\ DOMAIN l = 1..Len(l) /\ Len(l) \in Nat
    BY <2>1, <2>2, <2>3
  <2>5. \A i \in DOMAIN l : l[i].exp \in Int
    BY ListTypes
  <2>6. \A i \in DOMAIN l : i >= k => l[i].exp > exp
    <3> SUFFICES ASSUME NEW i \in DOMAIN l, i >= k PROVE l[i].exp > exp
      OBVIOUS
    <3>1. k \in DOMAIN l
      BY <2>4
    <3>2. l[k].exp > exp /\ (k < i => l[k].exp <= l[i].exp)
      BY <2>2, <3>1 DEF Sorted
    <3> QED BY <2>4, <2>5, <3>1, <3>2
  <2>7. ASSUME NEW i \in DOMAIN r, NEW j \in DOMAIN r, i < j PROVE r[i].exp <= r[j].exp
    <3>1. CASE i = k
      <4>1. j - 1 \in DOMAIN l /\ j - 1 >= k /\ ~(j < k) /\ j # k
        BY <2>4, <2>7, <3>1
      <4>2. r[i] = e /\ r[j] = l[j - 1]
        BY <2>2, <2>3, <2>4, <3>1, <4>1
      <4> QED BY <2>1, <2>5, <2>6, <4>1, <4>2
    <3>2. CASE j = k
      <4>1. i \in DOMAIN l /\ i < k
        BY <2>4, <2>7, <3>2
      <4>2. r[i] = l[i] /\ r[j] = e
        BY <2>2, <2>3, <2>4, <3>2, <4>1
      <4> QED BY <2>1, <2>2, <4>1, <4>2
    <3>3. CASE i # k /\ j # k
      <4> DEFINE a == IF i < k THEN i ELSE i - 1
                 b == IF j < k THEN j ELSE j - 1
      <4>1. a \in DOMAIN l /\ b \in DOMAIN l /\ a < b
        BY <2>4, <2>7, <3>3
      <4>2. r[i] = l[a] /\ r[j] = l[b]
        BY <2>2, <2>3, <2>4, <3>3
      <4> HIDE DEF a, b
      <4> QED BY <4>1, <4>2 DEF Sorted
    <3> QED BY <3>1, <3>2, <3>3
  <2> QED BY <2>7 DEF Sorted, r
<1>LaterSorted.
  ASSUME NEW l, ListOK(l), Sorted(l)
  PROVE  Sorted(Later(l))
  <2> USE <1>LaterSorted
  <2>1. DOMAIN Later(l) = DOMAIN l /\ \A i \in DOMAIN l : l[i].exp \in Int
    BY LaterElems
  <2>2. \A i \in DOMAIN l : Later(l)[i].exp = l[i].exp - TicksPerTick
    BY LaterElems
  <2> QED BY <2>1, <2>2 DEF Sorted, TicksPerTick
\* Nothing comes before the first element, and what the walk has not passed
\* expires no earlier than the element it has come to.
<1>FirstPassed.
  ASSUME NEW l, ListOK(l), NEW i \in DOMAIN l
  PROVE  FirstThd(l) # None /\ ~(i < Place(l, FirstThd(l)))
  <2> USE <1>FirstPassed
  <2>1. l # <<>> /\ 1 \in DOMAIN l /\ DOMAIN l = 1..Len(l) /\ Len(l) \in Nat
    BY ListTypes
  <2>2. FirstThd(l) = l[1].thd
    BY <2>1 DEF FirstThd
  <2>3. l[1].thd \in Threads /\ Place(l, l[1].thd) = 1
    BY <2>1, ListTypes, <1>PlaceIs
  <2> QED BY <2>1, <2>2, <2>3, TimedAssumption
<1>RestLater.
  ASSUME NEW l, NEW t, ListOK(l), Sorted(l), InList(l, t), NEW i \in DOMAIN l, ~(i < Place(l, t))
  PROVE  l[Place(l, t)].exp <= l[i].exp
  <2> USE <1>RestLater
  <2>1. Place(l, t) \in DOMAIN l /\ DOMAIN l = 1..Len(l) /\ Len(l) \in Nat
    BY PlaceFacts, ListTypes
  <2>2. l[i].exp \in Int
    BY ListTypes
  <2>3. Place(l, t) < i \/ Place(l, t) = i
    BY <2>1
  <2> QED BY <2>1, <2>2, <2>3 DEF Sorted
\* The walk goes on behind the element it removes.
<1>PassedRemoved.
  ASSUME NEW l, NEW t, ListOK(l), InList(l, t), NEW nx, nx = NextThd(l, t),
         NEW r, r = REM_LIST(l, t), NEW i \in DOMAIN r, nx = None \/ i < Place(r, nx)
  PROVE  \E j \in DOMAIN l : j < Place(l, t) /\ r[i] = l[j]
  <2> USE <1>PassedRemoved
  <2> DEFINE k == Place(l, t)
  <2>1. l \in Seq(Event(Threads)) /\ k \in 1..Len(l) /\ DOMAIN l = 1..Len(l) /\ Len(l) \in Nat
    BY PlaceFacts, ListTypes DEF ListOK
  <2>2. r = Without(l, k) /\ ListOK(r)
    BY RemList DEF REM_LIST
  <2>3. /\ r \in Seq(Event(Threads)) /\ Len(r) = Len(l) - 1
        /\ \A a \in 1..(Len(l) - 1) : r[a] = IF a < k THEN l[a] ELSE l[a + 1]
    <3> HIDE DEF k
    <3>1. /\ Without(l, k) \in Seq(Event(Threads))
          /\ Len(Without(l, k)) = Len(l) - 1
          /\ \A a \in 1..(Len(l) - 1) : Without(l, k)[a] = IF a < k THEN l[a] ELSE l[a + 1]
      BY Zenon, <2>1, RemoveFacts
    <3> QED BY <2>2, <3>1
  <2>4. nx = IF k = Len(l) THEN None ELSE l[k + 1].thd
    BY DEF NextThd
  <2> HIDE DEF k
  <2>5. DOMAIN r = 1..(Len(l) - 1)
    BY <2>3
  <2>6. CASE i < k
    <3>1. i \in DOMAIN l /\ r[i] = l[i]
      BY <2>1, <2>3, <2>5, <2>6
    <3> QED BY <2>6, <3>1 DEF k
  <2>7. CASE ~(i < k)
    <3>1. k # Len(l) /\ k \in DOMAIN r /\ k + 1 \in DOMAIN l /\ k <= i
      <4>1. /\ i \in Int /\ k \in Int /\ Len(l) \in Int
            /\ 1 <= k /\ k <= i /\ i <= Len(l) - 1
        BY <2>1, <2>5, <2>7
      <4>2. k # Len(l) /\ k \in 1..(Len(l) - 1) /\ k + 1 \in 1..Len(l)
        BY <4>1
      <4> QED BY Zenon, <2>1, <2>5, <4>1, <4>2
    <3>2. nx = r[k].thd
      BY <2>1, <2>3, <2>4, <2>5, <3>1
    <3>3. nx \in Threads /\ Place(r, nx) = k
      BY <2>2, <3>1, <3>2, ListTypes, <1>PlaceIs
    <3>4. FALSE
      BY <2>1, <2>5, <3>1, <3>3, TimedAssumption
    <3> QED BY <3>4
  <2> QED BY <2>6, <2>7
\* An insertion keeps the order of the others.
<1>PassedInserted.
  ASSUME NEW r, ListOK(r), NEW t \in Threads, NEW exp \in Int, ~InList(r, t),
         NEW m, m = Insert(r, t, exp), NEW i \in DOMAIN m, m[i].thd # t,
         NEW u \in Threads, InList(r, u)
  PROVE  \E a \in DOMAIN r : m[i] = r[a] /\ (i < Place(m, u) => a < Place(r, u))
  <2> USE <1>PassedInserted
  <2> DEFINE e == [thd |-> t, exp |-> exp]
             b == Place(r, u)
  <2>1. r \in Seq(Event(Threads)) /\ e \in Event(Threads) /\ e.thd = t
    BY DEF ListOK, Event
  <2>2. PICK k \in 1..(Len(r) + 1) : m = With(r, k, e)
    BY InsertPlace
  <2>3. ListOK(m) /\ b \in DOMAIN r /\ r[b].thd = u
    BY InsList, PlaceFacts
  <2> HIDE DEF e, b
  <2>4. /\ With(r, k, e) \in Seq(Event(Threads))
        /\ Len(With(r, k, e)) = Len(r) + 1
        /\ \A j \in 1..(Len(r) + 1) :
             With(r, k, e)[j] = IF j < k THEN r[j] ELSE IF j = k THEN e ELSE r[j - 1]
    <3>1. Inserted(Event(Threads), r, k, e)
      BY Zenon, <2>1, InsertFacts
    <3> QED BY Zenon, <3>1 DEF Inserted
  <2>5. DOMAIN m = 1..(Len(r) + 1) /\ DOMAIN r = 1..Len(r) /\ Len(r) \in Nat
    BY <2>1, <2>2, <2>4
  <2>6. \A j \in DOMAIN m : m[j] = IF j < k THEN r[j] ELSE IF j = k THEN e ELSE r[j - 1]
    BY <2>2, <2>4, <2>5
  <2>7. i # k
    BY <2>1, <2>6
  <2> DEFINE a == IF i < k THEN i ELSE i - 1
             c == IF b < k THEN b ELSE b + 1
  <2>8. /\ a \in 1..Len(r) /\ c \in 1..(Len(r) + 1) /\ c # k
        /\ b = (IF c < k THEN c ELSE c - 1)
        /\ i < c => a < b
    <3>1. i \in 1..(Len(r) + 1) /\ b \in 1..Len(r)
      BY <2>3, <2>5
    <3> QED BY <2>5, <2>7, <3>1
  <2>9. m[i] = r[a] /\ a \in DOMAIN r
    BY <2>5, <2>6, <2>7, <2>8
  <2>10. m[c] = r[b] /\ c \in DOMAIN m
    BY <2>5, <2>6, <2>8
  <2> HIDE DEF a, c
  <2>11. Place(m, u) = c
    BY <2>3, <2>10, <1>PlaceIs
  <2> QED BY <2>8, <2>9, <2>11 DEF b
\* The walk goes on behind the element it lists again.
<1>PassedMoved.
  ASSUME NEW l, NEW t \in Threads, ListOK(l), InList(l, t), NEW exp \in Int,
         NEW nx, nx = NextThd(l, t),
         NEW m, m = Insert(REM_LIST(l, t), t, exp),
         NEW i \in DOMAIN m, nx = None \/ i < Place(m, nx), m[i].thd # t
  PROVE  \E j \in DOMAIN l : j < Place(l, t) /\ m[i] = l[j]
  <2> USE <1>PassedMoved
  <2> DEFINE r == REM_LIST(l, t)
  <2>1. /\ ListOK(r) /\ \A u \in Threads : InList(r, u) <=> InList(l, u) /\ u # t
    BY RemList
  <2>2. nx \in Threads \cup {None} /\ (nx # None => InList(l, nx) /\ nx # t)
    BY NextFacts
  <2> HIDE DEF r
  <2>3. PICK a \in DOMAIN r : m[i] = r[a] /\ (nx = None \/ a < Place(r, nx))
    <3>1. CASE nx = None
      <4>1. m[i] = [thd |-> t, exp |-> exp] \/ \E a \in DOMAIN r : m[i] = r[a]
        <5>1. m = Insert(r, t, exp)
          BY Zenon DEF r
        <5>2. \A k \in DOMAIN Insert(r, t, exp) :
                \/ Insert(r, t, exp)[k] = [thd |-> t, exp |-> exp]
                \/ \E a \in DOMAIN r : Insert(r, t, exp)[k] = r[a]
          <6> HIDE <1>PassedMoved
          <6> QED BY Zenon, <2>1, InsElems
        <5> QED BY Zenon, <5>1, <5>2
      <4> QED BY <3>1, <4>1
    <3>2. CASE nx # None
      <4>1. nx \in Threads /\ InList(r, nx) /\ ~InList(r, t) /\ i < Place(m, nx) /\ m = Insert(r, t, exp)
        BY <2>1, <2>2, <3>2 DEF r
      <4> QED BY <2>1, <4>1, <1>PassedInserted
    <3> QED BY <3>1, <3>2
  <2>4. \E j \in DOMAIN l : j < Place(l, t) /\ r[a] = l[j]
    BY <2>3, <1>PassedRemoved DEF r
  <2> QED BY <2>3, <2>4
\* A step that is none of the walk and no tick.
<1>WalkedOff.
  ASSUME Sorted(events'), Sorted(periodic'),
         timer'.pc \notin {"walk", "arm", "block"}, failed' # 853
  PROVE  Walked'
  BY <1>WalkedOff DEF Walked, WalkOverlooksNothing
\* No client runs during the walk, or until the timer thread sleeps again.
<1>WalkedClient.
  ASSUME TimedInv, Walked, NEW t, MayRun(t), timer' = timer, failed' # 853,
         Sorted(events'), Sorted(periodic')
  PROVE  Walked'
  <2> USE <1>WalkedClient
  <2>1. timer.pc \notin {"walk", "arm", "block"}
    BY DEF MayRun
  <2> QED BY <2>1, <1>WalkedOff
<1>WalkedKept.
  ASSUME Walked, UNCHANGED <<events, periodic, pte, timer, age>>,
         failed' # 853 \/ failed' = failed
  PROVE  Walked'
  <2> USE <1>WalkedKept
  <2>1. Sorted(events') /\ Sorted(periodic')
    BY Zenon DEF Walked
  <2>2. Passed(events)' = Passed(events) /\ Passed(periodic)' = Passed(periodic)
    BY DEF Passed
  <2>3. \A e : Done(e)' <=> Done(e)
    BY DEF Done
  <2>4. WalkOverlooksNothing'
    BY DEF Walked, WalkOverlooksNothing
  <2>5. timer'.pc = "walk" =>
          IF timer'.list = "periodic" THEN \A i \in Passed(periodic)' : Done(periodic[i])'
          ELSE /\ \A i \in DOMAIN periodic' : Done(periodic[i])'
               /\ \A i \in Passed(events)' : events'[i].exp > -age'
    BY <2>2, <2>3 DEF Walked
  <2> QED BY Zenon, <2>1, <2>4, <2>5 DEF Walked
\* Where the walk ends, what it has not passed has not expired.
<1>WalkEnds.
  ASSUME NEW l, ListOK(l), Sorted(l), age \in Int, timer.tmp # None => InList(l, timer.tmp),
         ~Expired(l, timer.tmp), NEW i \in DOMAIN l, i \notin Passed(l)
  PROVE  l[i].exp > -age
  <2> USE <1>WalkEnds
  <2>1. timer.tmp # None /\ ~(i < Place(l, timer.tmp))
    BY DEF Passed
  <2>2. Place(l, timer.tmp) \in DOMAIN l /\ ~(l[Place(l, timer.tmp)].exp <= -age)
    BY <2>1, PlaceFacts DEF Expired
  <2>3. l[Place(l, timer.tmp)].exp <= l[i].exp
    BY <2>1, <1>RestLater
  <2>4. l[Place(l, timer.tmp)].exp \in Int /\ l[i].exp \in Int
    BY <2>2, ListTypes
  <2> DEFINE p == l[Place(l, timer.tmp)].exp
             q == l[i].exp
  <2>5. p \in Int /\ q \in Int /\ ~(p <= -age) /\ p <= q
    BY <2>2, <2>3, <2>4
  <2> HIDE DEF p, q
  <2>6. q > -age
    BY <2>5
  <2> QED BY <2>6 DEF q
<1>WalkedTake.
  ASSUME TimedInv, Walked, TimerTake PROVE Walked'
  <2> USE <1>WalkedTake
  <2>1. /\ UNCHANGED <<events, periodic, pte, age>> /\ failed' = 0
        /\ timer' = [timer EXCEPT !.pc = "walk", !.list = "periodic", !.tmp = FirstThd(periodic)]
        /\ timer \in Walk /\ ListOK(periodic)
    BY DEF TimerTake, server, TimedInv, Types
  <2>2. timer'.pc = "walk" /\ timer'.list = "periodic" /\ timer'.tmp = FirstThd(periodic)
    BY <2>1 DEF Walk
  <2>3. \A i \in DOMAIN periodic : FirstThd(periodic) # None /\ ~(i < Place(periodic, FirstThd(periodic)))
    BY <2>1, <1>FirstPassed
  <2>4. Passed(periodic)' = {}
    BY <2>1, <2>2, <2>3 DEF Passed
  <2>5. Sorted(events)' /\ Sorted(periodic)'
    BY <2>1 DEF Walked, Sorted
  <2>6. WalkOverlooksNothing'
    BY <2>1, <2>2 DEF WalkOverlooksNothing
  <2> QED BY <2>2, <2>4, <2>5, <2>6 DEF Walked
<1>WalkedEndPeriodic.
  ASSUME TimedInv, Walked, EndPeriodic PROVE Walked'
  <2> USE <1>WalkedEndPeriodic
  <2>1. /\ UNCHANGED <<events, periodic, pte, age, failed>> /\ failed = 0
        /\ timer.pc = "walk" /\ timer.list = "periodic" /\ ~Expired(periodic, timer.tmp)
        /\ timer' = [timer EXCEPT !.list = "events", !.tmp = FirstThd(events)]
        /\ timer \in Walk /\ ListOK(periodic) /\ ListOK(events) /\ age \in Int
    BY DEF EndPeriodic, Walking, server, TimedInv, Types
  <2>2. timer'.pc = "walk" /\ timer'.list = "events" /\ timer'.tmp = FirstThd(events)
    BY <2>1 DEF Walk
  <2>3. timer.tmp # None => InList(periodic, timer.tmp)
    BY <2>1 DEF TimedInv, Flags, List
  <2>4. Sorted(events) /\ Sorted(periodic) /\ \A i \in Passed(periodic) : Done(periodic[i])
    BY <2>1 DEF Walked
  <2>5. \A i \in DOMAIN periodic : Done(periodic[i])
    BY <2>1, <2>3, <2>4, <1>WalkEnds DEF Done
  <2>6. \A i \in DOMAIN periodic' : Done(periodic[i])'
    BY <2>1, <2>5 DEF Done
  <2>7. \A i \in DOMAIN events : FirstThd(events) # None /\ ~(i < Place(events, FirstThd(events)))
    BY <2>1, <1>FirstPassed
  <2>8. Passed(events)' = {}
    BY <2>1, <2>2, <2>7 DEF Passed
  <2>9. Sorted(events)' /\ Sorted(periodic)'
    BY <2>1, <2>4 DEF Sorted
  <2>10. WalkOverlooksNothing'
    BY <2>1, <2>2 DEF WalkOverlooksNothing
  <2> QED BY <2>2, <2>6, <2>8, <2>9, <2>10 DEF Walked
<1>WalkedNextWakeup.
  ASSUME TimedInv, Walked, NextWakeup PROVE Walked'
  <2> USE <1>WalkedNextWakeup
  <2>1. /\ UNCHANGED <<events, periodic, pte, age>>
        /\ timer.pc = "walk" /\ timer.list = "events" /\ ~Expired(events, timer.tmp)
        /\ timer \in Walk /\ ListOK(periodic) /\ ListOK(events) /\ age \in Int
    BY DEF NextWakeup, Assertion, Walking, server, TimedInv, Types
  <2>2. timer.tmp # None => InList(events, timer.tmp)
    BY Zenon, <2>1 DEF TimedInv, Flags, List
  <2>3. /\ Sorted(events) /\ Sorted(periodic) /\ \A i \in DOMAIN periodic : Done(periodic[i])
        /\ \A i \in Passed(events) : events[i].exp > -age
    BY Zenon, <2>1 DEF Walked
  <2>4. \A i \in DOMAIN events : events[i].exp > -age
    BY Zenon, <2>1, <2>2, <2>3, <1>WalkEnds
  <2>5. WalkOverlooksNothing'
    <3>1. \A i \in DOMAIN events' : events'[i].exp > -age'
      BY <2>1, <2>4
    <3>2. \A i \in DOMAIN periodic' :
            periodic'[i].exp <= -age' =>
              pte'[periodic'[i].thd].restart > 0 \/ pte'[periodic'[i].thd].evt = "triggered"
      <4> SUFFICES ASSUME NEW i \in DOMAIN periodic, periodic[i].exp <= -age
                   PROVE  pte[periodic[i].thd].restart > 0 \/ pte[periodic[i].thd].evt = "triggered"
        BY <2>1
      <4>1. Done(periodic[i]) /\ periodic[i].exp \in Int
        BY <2>1, <2>3, ListTypes
      <4> QED BY <2>1, <4>1 DEF Done
    <3> QED BY <3>1, <3>2 DEF WalkOverlooksNothing
  <2>6. Sorted(events)' /\ Sorted(periodic)'
    BY <2>1, <2>3 DEF Sorted
  <2>7. CASE timer' = timer
    BY Zenon, <2>1, <2>3, <2>5, <2>6, <2>7 DEF Walked, Passed, Done
  <2>8. CASE timer'.pc \in {"arm", "block"}
    BY Zenon, <2>5, <2>6, <2>8 DEF Walked
  <2>9. timer' = timer \/ timer'.pc \in {"arm", "block"}
    <3>1. \/ timer' = timer \/ timer' = [timer EXCEPT !.pc = "block", !.tmp = None]
          \/ timer' = [timer EXCEPT !.pc = "arm", !.tmp = None, !.amt = NextEvent + age]
      BY DEF NextWakeup, Assertion
    <3> QED BY Zenon, <2>1, <3>1 DEF Walk
  <2> QED BY <2>7, <2>8, <2>9
<1>WalkedExpireEvent.
  ASSUME TimedInv, Walked, ExpireEvent PROVE Walked'
  <2> USE <1>WalkedExpireEvent
  <2>1. /\ timer.pc = "walk" /\ timer.list = "events" /\ timer.tmp # None
        /\ UNCHANGED <<periodic, pte, age, failed>> /\ failed = 0
        /\ timer \in Walk /\ ListOK(periodic) /\ ListOK(events)
    BY DEF ExpireEvent, Walking, Expired, TimedInv, Types
  <2>2. PICK t \in Threads : t = timer.tmp
    BY <2>1 DEF Walk
  <2>3. PICK nx : nx = NextThd(events, t)
    OBVIOUS
  <2>4. InList(events, t)
    BY <2>1, <2>2 DEF TimedInv, Flags, List
  <2>5. events' = REM_LIST(events, t) /\ timer' = [timer EXCEPT !.tmp = nx]
    BY <2>2, <2>3 DEF ExpireEvent
  <2>6. timer'.pc = "walk" /\ timer'.list = "events" /\ timer'.tmp = nx
    BY <2>1, <2>5 DEF Walk
  <2>7. /\ Sorted(events) /\ Sorted(periodic) /\ \A i \in DOMAIN periodic : Done(periodic[i])
        /\ \A i \in Passed(events) : events[i].exp > -age
    BY <2>1 DEF Walked
  <2>8. ASSUME NEW i \in Passed(events)' PROVE events'[i].exp > -age'
    <3>1. i \in DOMAIN events' /\ (nx = None \/ i < Place(events', nx))
      BY <2>6 DEF Passed
    <3>2. PICK j \in DOMAIN events : j < Place(events, t) /\ events'[i] = events[j]
      BY <2>1, <2>3, <2>4, <2>5, <3>1, <1>PassedRemoved
    <3>3. j \in Passed(events)
      BY <2>2, <3>2 DEF Passed
    <3> QED BY <2>1, <2>7, <3>2, <3>3
  <2>9. \A i \in DOMAIN periodic' : Done(periodic[i])'
    BY <2>1, <2>7 DEF Done
  <2>10. Sorted(events')
    BY <2>1, <2>5, <2>7, <1>RemSorted
  <2>11. Sorted(periodic')
    BY <2>1, <2>7
  <2>12. WalkOverlooksNothing'
    BY <2>1, <2>6 DEF WalkOverlooksNothing
  <2> QED BY <2>6, <2>8, <2>9, <2>10, <2>11, <2>12 DEF Walked
<1>WalkedExpirePeriodic.
  ASSUME TimedInv, Accounts, Walked, ExpirePeriodic PROVE Walked'
  <2> USE <1>WalkedExpirePeriodic
  <2>1. /\ timer.pc = "walk" /\ timer.list = "periodic" /\ timer.tmp # None /\ failed = 0
        /\ timer \in Walk /\ ListOK(periodic) /\ ListOK(events)
    BY DEF ExpirePeriodic, Walking, Expired, TimedInv, Types
  <2>2. PICK t \in Threads : t = timer.tmp
    BY <2>1 DEF Walk
  <2>3. PICK nx : nx = NextThd(periodic, t)
    OBVIOUS
  <2>4. InList(periodic, t)
    BY <2>1, <2>2 DEF TimedInv, Flags, List
  <2>5. /\ PteOK(pte[t]) /\ DOMAIN pte = Threads /\ pte[t].period \in Int /\ pte[t].restart \in Int
        /\ pte[t].restart >= 0
    <3>1. PteOK(pte[t]) /\ DOMAIN pte = Threads
      BY SameStubs
    <3> QED BY <3>1 DEF PteOK, Pte, Accounts, Account
  <2>6. PICK exp : exp = periodic[Place(periodic, t)].exp + pte[t].period
    OBVIOUS
  <2>7. exp \in Int
    <3>1. periodic[Place(periodic, t)].exp \in Int
      BY <2>1, <2>4, NextFacts
    <3> QED BY <2>5, <2>6, <3>1
  <2>8. /\ Sorted(events) /\ Sorted(periodic) /\ \A i \in Passed(periodic) : Done(periodic[i])
    BY <2>1 DEF Walked
  <2>9. CASE pte[t].blocked /\ (pte[t].missed \/ ~pte[t].completion)
    <3>1. UNCHANGED <<events, periodic, pte, timer, age>> /\ failed' \in {230, 232}
      BY <2>2, <2>9 DEF ExpirePeriodic, Assertion, server
    <3> QED BY <3>1, <1>WalkedKept
  <2>10. CASE ~(pte[t].blocked /\ (pte[t].missed \/ ~pte[t].completion))
    <3>1. PICK q : q = IF pte[t].blocked THEN Released(pte[t]) ELSE Missed(pte[t])
      OBVIOUS
    <3>2. /\ periodic' = Insert(REM_LIST(periodic, t), t, exp)
          /\ pte' = [pte EXCEPT ![t] = q]
          /\ timer' = [timer EXCEPT !.tmp = nx]
          /\ UNCHANGED <<events, age, failed>>
      BY <2>2, <2>3, <2>6, <2>10, <3>1 DEF ExpirePeriodic
    <3>3. timer'.pc = "walk" /\ timer'.list = "periodic" /\ timer'.tmp = nx
      BY <2>1, <3>2 DEF Walk
    <3>4. q.restart > 0 \/ q.evt = "triggered"
      BY <2>5, <3>1 DEF Released, Missed, PteOK, Pte
    <3>5. pte'[t] = q /\ \A u \in Threads \ {t} : pte'[u] = pte[u]
      BY <2>5, <3>2
    <3>6. ListOK(REM_LIST(periodic, t)) /\ Sorted(REM_LIST(periodic, t))
      BY <2>1, <2>8, RemList, <1>RemSorted
    <3>7. Sorted(periodic')
      BY <2>7, <3>2, <3>6, <1>InsSorted
    <3>8. ASSUME NEW i \in Passed(periodic)' PROVE Done(periodic[i])'
      <4>1. i \in DOMAIN periodic' /\ (nx = None \/ i < Place(periodic', nx))
        BY <3>3 DEF Passed
      <4>2. CASE periodic'[i].thd = t
        BY <3>4, <3>5, <4>2 DEF Done
      <4>3. CASE periodic'[i].thd # t
        <5>1. PICK j \in DOMAIN periodic : j < Place(periodic, t) /\ periodic'[i] = periodic[j]
          BY <2>1, <2>3, <2>4, <2>7, <3>2, <4>1, <4>3, <1>PassedMoved
        <5>2. Done(periodic[j]) /\ periodic[j].thd \in Threads
          BY <2>1, <2>2, <2>8, <5>1, ListTypes DEF Passed
        <5> QED BY <3>2, <3>5, <4>3, <5>1, <5>2 DEF Done
      <4> QED BY <4>2, <4>3
    <3>9. Sorted(events')
      BY <2>8, <3>2
    <3>10. WalkOverlooksNothing'
      BY <2>1, <3>2, <3>3 DEF WalkOverlooksNothing
    <3> QED BY <3>3, <3>7, <3>8, <3>9, <3>10 DEF Walked
  <2> QED BY <2>9, <2>10
<1>WalkedTick.
  ASSUME TimedInv, Walked, Tick PROVE Walked'
  <2> USE <1>WalkedTick
  <2>1. /\ events' = Later(events) /\ periodic' = Later(periodic) /\ UNCHANGED <<pte, failed>> /\ failed = 0
        /\ age' = IF timer.pc \in {"stamp", "take", "arm"} THEN age + TicksPerTick ELSE 0
        /\ timer.pc # "walk"
    BY Zenon DEF Tick, InTime
  <2>2. timer' = timer \/ timer' = [timer EXCEPT !.pc = "stamp"]
    BY Zenon DEF Tick
  <2>3. timer \in Walk /\ ListOK(periodic) /\ ListOK(events) /\ age \in Int
    BY DEF TimedInv, Types
  <2>4. timer'.pc = "stamp" \/ timer'.pc = timer.pc
    BY <2>2, <2>3 DEF Walk
  <2>5. Sorted(events') /\ Sorted(periodic')
    BY <2>1, <2>3, <1>LaterSorted DEF Walked
  <2>6. CASE timer'.pc \notin {"arm", "block"}
    BY <2>1, <2>4, <2>5, <2>6, <1>WalkedOff
  <2>7. CASE timer'.pc \in {"arm", "block"}
    <3>1. /\ timer.pc \in {"arm", "block"}
          /\ \A i \in DOMAIN events : events[i].exp > -age
          /\ \A i \in DOMAIN periodic :
               periodic[i].exp <= -age =>
                 pte[periodic[i].thd].restart > 0 \/ pte[periodic[i].thd].evt = "triggered"
      BY <2>4, <2>7 DEF Walked, WalkOverlooksNothing
    <3>2. timer.pc = "block" => DOMAIN events = {} /\ DOMAIN periodic = {}
      BY DEF TimedInv, Arms
    <3>3. ASSUME NEW i \in DOMAIN events' PROVE events'[i].exp > -age'
      <4>1. i \in DOMAIN events /\ events[i].exp \in Int /\ events'[i].exp = events[i].exp - TicksPerTick
        BY <2>1, <2>3, LaterElems
      <4>2. age' = age + TicksPerTick
        BY Zenon, <2>1, <3>1, <3>2, <4>1
      <4> QED BY <2>3, <3>1, <4>1, <4>2 DEF TicksPerTick
    <3>4. ASSUME NEW i \in DOMAIN periodic', periodic'[i].exp <= -age'
          PROVE  pte'[periodic'[i].thd].restart > 0 \/ pte'[periodic'[i].thd].evt = "triggered"
      <4>1. /\ i \in DOMAIN periodic /\ periodic[i].exp \in Int /\ periodic'[i].thd = periodic[i].thd
            /\ periodic'[i].exp = periodic[i].exp - TicksPerTick
        BY <2>1, <2>3, LaterElems
      <4>2. age' = age + TicksPerTick
        BY <2>1, <3>1, <3>2, <4>1
      <4>3. periodic[i].exp <= -age
        BY <2>3, <3>4, <4>1, <4>2 DEF TicksPerTick
      <4> QED BY <2>1, <3>1, <4>1, <4>3
    <3>5. WalkOverlooksNothing'
      BY <3>3, <3>4 DEF WalkOverlooksNothing
    <3> QED BY <2>5, <2>7, <3>5 DEF Walked
  <2> QED BY <2>6, <2>7
\* What a client does to the lists keeps them sorted.
<1>ArgsInt. /\ \A a \in Amounts : a + 1 \in Int
            /\ \A p \in Periods : p \in Int
  BY ArgsNat
<1>WalkedClients.
  ASSUME TimedInv, Walked, NEW t \in Threads,
         \/ Return(t) \/ timed_event_block(t) \/ EvtWait(t) \/ timed_event_wakeup(t)
         \/ \E op \in Calls, arg \in Args : Start(t, op, arg)
         \/ Created(t) \/ periodic_wake_remove(t) \/ periodic_wake_wait(t)
         \/ \E f \in {"create", "exist"} : periodic_wake_create(t, f)
  PROVE  Walked'
  <2> USE <1>WalkedClients
  <2>1. ListOK(events) /\ ListOK(periodic) /\ Sorted(events) /\ Sorted(periodic)
    BY Zenon DEF TimedInv, Types, Walked
  <2>2. ASSUME \/ Return(t) \/ EvtWait(t) \/ Created(t) \/ periodic_wake_wait(t)
               \/ \E op \in Calls, arg \in Args : Start(t, op, arg)
        PROVE  Walked'
    <3>1. MayRun(t) /\ UNCHANGED <<events, periodic, timer>>
      <4>1. CASE Return(t) \/ Created(t) \/ \E op \in Calls, arg \in Args : Start(t, op, arg)
        BY Zenon, <4>1 DEF Start, Return, Created, server
      <4>2. CASE EvtWait(t) \/ periodic_wake_wait(t)
        BY <4>2 DEF EvtWait, periodic_wake_wait, Enter
      <4> QED BY <2>2, <4>1, <4>2
    <3>2. failed' \in {failed, 372, 721, 700}
      <4>1. CASE Return(t) \/ Created(t) \/ \E op \in Calls, arg \in Args : Start(t, op, arg)
        <5>1. failed' = failed
          BY Zenon, <4>1 DEF Start, Return, Created
        <5> QED BY <5>1
      <4>2. CASE EvtWait(t)
        <5>1. failed' = failed \/ failed' = 372
          BY Zenon, <4>2 DEF EvtWait
        <5> QED BY <5>1
      <4>3. CASE periodic_wake_wait(t)
        BY <4>3 DEF periodic_wake_wait
      <4> QED BY <2>2, <4>1, <4>2, <4>3
    <3>3. failed' # 853
      BY <3>1, <3>2 DEF MayRun
    <3> QED BY <2>1, <3>1, <3>3, <1>WalkedClient
  <2>3. ASSUME timed_event_block(t) PROVE Walked'
    <3>1. MayRun(t) /\ UNCHANGED <<periodic, timer>> /\ failed' # 853 /\ th[t].op = "block"
      BY <2>3 DEF timed_event_block, Assertion, Enter, MayRun, Function, server
    <3>2. th[t].arg + 1 \in Int
      <4>1. th[t].arg \in Amounts
        BY Zenon, <3>1, SameStubs DEF CallOK
      <4> QED BY Zenon, <4>1, <1>ArgsInt
    <3>3. events' = events \/ events' = Insert(events, t, th[t].arg + 1)
      BY <2>3 DEF timed_event_block, Assertion, server
    <3>4. Sorted(events')
      BY Zenon, <2>1, <3>2, <3>3, <1>InsSorted
    <3> QED BY Zenon, <2>1, <3>1, <3>4, <1>WalkedClient
  <2>4. ASSUME timed_event_wakeup(t) PROVE Walked'
    <3>1. /\ MayRun(t) /\ UNCHANGED <<periodic, timer>> /\ failed' # 853
          /\ events' = REM_LIST(events, th[t].arg)
      <4>1. /\ MayRun(t) /\ UNCHANGED <<periodic, timer>> /\ failed' = failed
            /\ events' = REM_LIST(events, th[t].arg)
        BY Zenon, <2>4 DEF timed_event_wakeup, Enter
      <4>2. failed = 0
        BY Zenon, <4>1 DEF MayRun
      <4> QED BY <4>1, <4>2
    <3> QED BY <2>1, <3>1, <1>RemSorted, <1>WalkedClient
  <2>5. ASSUME periodic_wake_remove(t) PROVE Walked'
    <3>1. /\ MayRun(t) /\ UNCHANGED <<events, timer>> /\ failed' # 853
          /\ periodic' = periodic \/ periodic' = REM_LIST(periodic, t)
      BY <2>5 DEF periodic_wake_remove, Assertion, Enter, MayRun, server
    <3> QED BY <2>1, <3>1, <1>RemSorted, <1>WalkedClient
  <2>6. ASSUME NEW f \in {"create", "exist"}, periodic_wake_create(t, f) PROVE Walked'
    <3>1. MayRun(t) /\ UNCHANGED <<events, timer>> /\ failed' # 853 /\ Function(t) = f
      <4>1. MayRun(t) /\ UNCHANGED <<events, timer>> /\ Function(t) = f
        BY Zenon, <2>6 DEF periodic_wake_create, Assertion, Enter, server
      <4>2. failed' \in {failed, 576, 579, 623}
        <5>1. \/ Assertion(IF pte[t].periodic THEN 576 ELSE 579) \/ Assertion(623)
              \/ failed' = failed
          BY Zenon, <2>6 DEF periodic_wake_create
        <5> QED BY <5>1 DEF Assertion
      <4> QED BY <4>1, <4>2 DEF MayRun
    <3>2. \/ periodic' = periodic
          \/ \E n \in IF f = "create" THEN {th[t].arg} ELSE 1..desc[t].period :
               periodic' = Insert(REM_LIST(periodic, t), t, n)
      BY Zenon, <2>6 DEF periodic_wake_create, Assertion, server
    <3>3. f = "create" => th[t].arg \in Int
      <4>1. f = "create" => th[t].op = "create"
        BY Zenon, <3>1 DEF Function
      <4>2. f = "create" => th[t].arg \in Periods
        BY Zenon, <4>1, SameStubs DEF CallOK
      <4> QED BY Zenon, <4>2, <1>ArgsInt
    <3>4. ListOK(REM_LIST(periodic, t)) /\ Sorted(REM_LIST(periodic, t))
      BY <2>1, RemList, <1>RemSorted
    <3>5. Sorted(periodic')
      <4>1. CASE periodic' = periodic
        BY Zenon, <2>1, <4>1
      <4>2. ASSUME NEW n \in IF f = "create" THEN {th[t].arg} ELSE 1..desc[t].period,
                   periodic' = Insert(REM_LIST(periodic, t), t, n)
            PROVE  Sorted(periodic')
        <5>1. n \in Int
          <6>1. CASE f = "create"
            BY Zenon, <3>3, <6>1
          <6>2. CASE f # "create"
            <7>1. n \in 1..desc[t].period
              BY Zenon, <6>2
            <7> QED BY Zenon, <7>1, Ranges
          <6> QED BY Zenon, <6>1, <6>2
        <5> QED BY Zenon, <3>4, <4>2, <5>1, <1>InsSorted
      <4> QED BY Zenon, <3>2, <4>1, <4>2
    <3> QED BY <2>1, <3>1, <3>5, <1>WalkedClient
  <2> QED BY <2>2, <2>3, <2>4, <2>5, <2>6
<1> QED
  <2> SUFFICES ASSUME TimedInv, Accounts, Walked, [Next]_vars PROVE Walked'
    OBVIOUS
  <2>1. ASSUME NEW t \in Threads, Onward(t) PROVE Walked'
    <3>1. /\ failed' # 853 /\ MayRun(t) /\ timer' = timer
          /\ Sorted(events') /\ Sorted(periodic')
      <4>1. MayRun(t)
        BY <2>1 DEF Onward, StaleCall, FaultUpdate, Check, Arm, Sleep, Kick
      <4>2. UNCHANGED <<events, periodic, timer, failed>>
        BY <2>1, OnwardFacts
      <4> QED BY <4>1, <4>2 DEF MayRun, Walked
    <3> QED BY <3>1, <1>WalkedClient
  <2>2. ASSUME Quiet PROVE Walked'
    <3>1. CASE TimerStamp \/ TimerSleep
      <4>1. UNCHANGED <<events, periodic>> /\ failed' # 853 /\ timer \in Walk
        <5>1. UNCHANGED <<server, failed>> /\ failed = 0
          BY <3>1 DEF TimerStamp, TimerSleep
        <5> QED BY <5>1, TimerFacts DEF server
      <4>2. timer'.pc \notin {"walk", "arm", "block"}
        <5>1. CASE TimerStamp
          BY <4>1, <5>1 DEF TimerStamp, Walk
        <5>2. CASE TimerSleep
          <6>1. PICK pc \in {"stamp", "asleep"} : timer' = [timer EXCEPT !.pc = pc, !.amt = 0]
            BY Zenon, <5>2 DEF TimerSleep
          <6> QED BY <4>1, <6>1 DEF Walk
        <5> QED BY <3>1, <5>1, <5>2
      <4>3. Sorted(events') /\ Sorted(periodic')
        BY <4>1 DEF Walked
      <4> QED BY <4>1, <4>2, <4>3, <1>WalkedOff
    <3> QED BY <2>2, <3>1, <1>WalkedTake, <1>WalkedEndPeriodic, <1>WalkedNextWakeup DEF Quiet
  <2>3. ASSUME NEW E \in SUBSET Threads, Fail(E) PROVE Walked'
    <3>1. events' = <<>> /\ periodic' = <<>> /\ failed' = 0 /\ timer'.pc = "stamp"
      BY Zenon, <2>3 DEF Fail
    <3>2. Sorted(events') /\ Sorted(periodic')
      BY <3>1 DEF Sorted
    <3> QED BY <3>1, <3>2, <1>WalkedOff
  <2>4. ASSUME UNCHANGED vars PROVE Walked'
    <3>1. UNCHANGED <<events, periodic, pte, timer, age, failed>>
      BY Zenon, <2>4 DEF vars, server
    <3> QED BY Zenon, <3>1, <1>WalkedKept
  <2> QED BY <2>1, <2>2, <2>3, <2>4, Steps, <1>WalkedClients, <1>WalkedExpirePeriodic, <1>WalkedExpireEvent,
             <1>WalkedTick

LEMMA WalkedHolds == Spec => []Walked
<1>1. TimedInv /\ Accounts /\ Walked /\ [Next]_vars => Walked'
  BY WalkedNext
<1> QED BY <1>1, WalkedInit, InvHolds, AccountsHold, PTL DEF Spec

\* The walk of event_expiration reads the next thread_event before it lists a
\* periodic one again; all the same a pass overlooks nothing that has expired,
\* and assert(next_wakeup > ticks) can fail only because of a deadline that the
\* pass itself has seen and charged to its thread.
THEOREM NothingOverlooked == Spec => []WalkOverlooksNothing
<1>1. Walked => WalkOverlooksNothing
  BY Zenon DEF Walked
<1> QED BY <1>1, WalkedHolds, PTL
-----------------------------------------------------------------------------
(* The types and the bounds.                                               *)

LEMMA FcnExcept ==
  ASSUME NEW f, IsFcn(f), NEW t, NEW r, NEW g, g = [f EXCEPT ![t] = r]
  PROVE  IsFcn(g)
  BY DEF IsFcn
\* A step sets the call of t at most, and its lag to zero at most.
SetsCall(t) ==
  th' = th \/ \E r : th' = [th EXCEPT ![t] = r] /\ r.lag \in {0, th[t].lag}

\* The calls and their lags, of which a tick only adds to those it may.
ThBounds == IsFcn(th) /\ \A u \in Threads : th[u].lag \in 0..MaxLag

LEMMA ThNext ==
  TimedInv /\ ThBounds /\ [Next]_vars => ThBounds'
<1>GotoSets.
  ASSUME TimedInv, NEW t \in Threads, NEW pc, Goto(t, pc) PROVE SetsCall(t)
  <2> USE <1>GotoSets
  <2> DEFINE r == [th[t] EXCEPT !.pc = pc]
  <2>1. th' = [th EXCEPT ![t] = r]
    BY DEF Goto, Set
  <2>2. r.lag = th[t].lag
    BY SameStubs, GotoFields
  <2> HIDE DEF r
  <2> QED BY Zenon, <2>1, <2>2 DEF SetsCall
<1>ArmedSets.
  ASSUME TimedInv, NEW t \in Threads, NEW pc, Armed(t, pc) PROVE SetsCall(t)
  <2> USE <1>ArmedSets
  <2> DEFINE r == [th[t] EXCEPT !.pc = pc, !.amt = 0, !.old = None, !.lag = 0]
  <2>1. th' = [th EXCEPT ![t] = r]
    BY DEF Armed, Set
  <2>2. CallOK(th[t])
    BY Zenon, SameStubs
  <2>3. r.lag = 0
    BY SMT, <2>2, AllFields
  <2> HIDE DEF r
  <2> QED BY Zenon, <2>1, <2>3 DEF SetsCall
<1>TriggerSets.
  ASSUME TimedInv, NEW u \in Threads, NEW evt, Trigger(u, evt) \/ UNCHANGED <<th, wake>>
  PROVE  SetsCall(u)
  <2> USE <1>TriggerSets
  <2>1. th' = th \/ th' = [th EXCEPT ![u].pc = "wait"]
    BY DEF Trigger, Wakeup
  <2>2. CASE th' = th
    BY <2>2 DEF SetsCall
  <2>3. CASE th' = [th EXCEPT ![u].pc = "wait"]
    <3>1. Goto(u, "wait")
      BY <2>3 DEF Goto, Set
    <3> QED BY <3>1, <1>GotoSets
  <2> QED BY <2>1, <2>2, <2>3
<1>BlockSets.
  ASSUME TimedInv, NEW t \in Threads, timed_event_block(t) PROVE SetsCall(t)
  <2> USE <1>BlockSets
  <2>1. CASE InList(events, t)
    BY <2>1 DEF timed_event_block, Assertion, SetsCall
  <2>2. CASE ~InList(events, t)
    <3> DEFINE n == th[t].arg + 1
               r == [th[t] EXCEPT !.pc = "check", !.amt = n, !.old = NextEvent, !.lag = 0]
    <3>1. th' = [th EXCEPT ![t] = r] /\ CallOK(th[t])
      BY <2>2, SameStubs DEF timed_event_block, Set
    <3>2. r.lag = 0
      BY SMT, <3>1, AllFields
    <3> HIDE DEF r
    <3> QED BY Zenon, <3>1, <3>2 DEF SetsCall
  <2> QED BY <2>1, <2>2
<1>CreateSets.
  ASSUME TimedInv, NEW t \in Threads, NEW f, periodic_wake_create(t, f) PROVE SetsCall(t)
  <2> USE <1>CreateSets
  <2>1. \/ th' = th
        \/ \E n : th' = [th EXCEPT ![t] = [th[t] EXCEPT !.pc = "parm", !.lag = 0,
                    !.amt = IF Before(n, next_event_time(events, REM_LIST(periodic, t))) THEN n ELSE 0]]
    BY Zenon DEF periodic_wake_create, Assertion, Set
  <2>2. CASE th' = th
    BY <2>2 DEF SetsCall
  <2>3. ASSUME NEW a, th' = [th EXCEPT ![t] = [th[t] EXCEPT !.pc = "parm", !.lag = 0, !.amt = a]]
        PROVE  SetsCall(t)
    <3> DEFINE r == [th[t] EXCEPT !.pc = "parm", !.lag = 0, !.amt = a]
    <3>1. th' = [th EXCEPT ![t] = r] /\ CallOK(th[t])
      BY <2>3, SameStubs
    <3>2. r.lag = 0
      BY SMT, <3>1, ParmFields
    <3> HIDE DEF r
    <3> QED BY Zenon, <3>1, <3>2 DEF SetsCall
  <2> QED BY Zenon, <2>1, <2>2, <2>3
<1>StartSets.
  ASSUME NEW t, NEW op, NEW arg, Start(t, op, arg) \/ Return(t) PROVE SetsCall(t)
  <2> USE <1>StartSets
  <2>1. CASE Start(t, op, arg)
    <3> DEFINE r == [NoCall EXCEPT !.pc = "redo", !.op = op, !.arg = arg]
    <3>1. th' = [th EXCEPT ![t] = r] /\ r.lag = 0
      BY <2>1, StartFields DEF Start, Set
    <3> HIDE DEF r
    <3> QED BY Zenon, <3>1 DEF SetsCall
  <2>2. CASE Return(t)
    <3>1. th' = [th EXCEPT ![t] = NoCall]
      BY Zenon, <2>2 DEF Return, Set
    <3>2. NoCall.lag = 0
      BY DEF NoCall
    <3> QED BY Zenon, <3>1, <3>2 DEF SetsCall
  <2> QED BY <2>1, <2>2
<1>ClientSets.
  ASSUME TimedInv, NEW t \in Threads,
         \/ \E op \in Calls, arg \in Args : Start(t, op, arg)
         \/ StaleCall(t) \/ FaultUpdate(t) \/ Check(t) \/ Arm(t) \/ Sleep(t)
         \/ Return(t) \/ timed_event_block(t) \/ EvtWait(t) \/ timed_event_wakeup(t)
         \/ \E f \in {"create", "exist"} : periodic_wake_create(t, f)
         \/ Created(t) \/ periodic_wake_remove(t) \/ periodic_wake_wait(t)
  PROVE  SetsCall(t)
  <2> USE <1>ClientSets
  <2>1. ASSUME \/ StaleCall(t) \/ FaultUpdate(t) \/ Check(t) \/ Arm(t) \/ Sleep(t) \/ Created(t)
        PROVE  th' = th \/ \E pc : Goto(t, pc) \/ Armed(t, pc)
    <3>1. CASE StaleCall(t) \/ FaultUpdate(t)
      BY <3>1 DEF StaleCall, FaultUpdate
    <3>2. CASE Check(t) \/ Arm(t)
      BY Zenon, <3>2 DEF Check, Arm
    <3>3. CASE Sleep(t) \/ Created(t)
      BY <3>3 DEF Sleep, Created
    <3> QED BY <2>1, <3>1, <3>2, <3>3
  <2>2. ASSUME EvtWait(t) \/ timed_event_wakeup(t) \/ periodic_wake_remove(t) \/ periodic_wake_wait(t)
        PROVE  th' = th \/ \E pc : Goto(t, pc)
    <3>1. CASE EvtWait(t)
      BY Zenon, <3>1 DEF EvtWait
    <3>2. CASE timed_event_wakeup(t)
      BY <3>2 DEF timed_event_wakeup
    <3>3. CASE periodic_wake_remove(t)
      BY <3>3 DEF periodic_wake_remove, Assertion
    <3>4. CASE periodic_wake_wait(t)
      BY <3>4 DEF periodic_wake_wait
    <3> QED BY <2>2, <3>1, <3>2, <3>3, <3>4
  <2>3. CASE th' = th
    BY <2>3 DEF SetsCall
  <2> QED BY <2>1, <2>2, <2>3, <1>GotoSets, <1>ArmedSets, <1>StartSets, <1>BlockSets, <1>CreateSets
<1>SetsBounds.
  ASSUME TimedInv, ThBounds, NEW t \in Threads, SetsCall(t) PROVE ThBounds'
  <2> USE <1>SetsBounds
  <2>1. DOMAIN th = Threads
    BY DEF TimedInv, Types
  <2>2. CASE th' = th
    BY <2>2 DEF ThBounds, IsFcn
  <2>3. ASSUME NEW r, th' = [th EXCEPT ![t] = r], r.lag \in {0, th[t].lag} PROVE ThBounds'
    <3>1. IsFcn(th')
      BY Zenon, <2>3, FcnExcept DEF ThBounds
    <3>2. 0 \in 0..MaxLag /\ \A u \in Threads : th[u].lag \in 0..MaxLag
      BY TimedAssumption DEF ThBounds
    <3>3. th'[t] = r /\ \A u \in Threads \ {t} : th'[u] = th[u]
      BY <2>1, <2>3
    <3>4. \A u \in Threads : th'[u].lag \in 0..MaxLag
      BY Zenon, <2>3, <3>2, <3>3
    <3> QED BY <3>1, <3>4 DEF ThBounds
  <2> QED BY <2>2, <2>3 DEF SetsCall
<1>KickBounds.
  ASSUME TimedInv, ThBounds, NEW t \in Threads, Kick(t) PROVE ThBounds'
  <2> USE <1>KickBounds
  <2> DEFINE r == [th[t] EXCEPT !.pc = "ret"]
             R == [th EXCEPT ![t] = r]
             w == th[t].arg
             s == [R[w] EXCEPT !.pc = "wait"]
  <2>1. DOMAIN th = Threads /\ \A v \in Threads : CallOK(th[v])
    BY DEF TimedInv, Types
  <2>2. th' = IF R[w].pc = "asleep" THEN [R EXCEPT ![w] = s] ELSE R
    BY DEF Kick, Wakeup
  <2>3. r.lag = th[t].lag
    BY <2>1, GotoFields
  <2>4. CallOK(r)
    BY Zenon, <2>1, GotoCall DEF Pcs, Inside
  <2> HIDE DEF r
  <2>5. DOMAIN R = Threads /\ R[t] = r /\ (\A v \in Threads \ {t} : R[v] = th[v]) /\ IsFcn(R)
    BY Zenon, <2>1, FcnExcept DEF ThBounds
  <2> HIDE DEF R
  <2>6. \A u \in Threads : R[u].lag \in 0..MaxLag /\ CallOK(R[u])
    BY Zenon, <2>1, <2>3, <2>4, <2>5 DEF ThBounds
  <2>7. w \in Threads => s.lag = R[w].lag
    BY <2>6, GotoFields
  <2> HIDE DEF s, w
  <2>8. IsFcn(th')
    BY Zenon, <2>2, <2>5, FcnExcept
  <2>9. \A u \in Threads : th'[u].lag \in 0..MaxLag
    BY <2>2, <2>5, <2>6, <2>7
  <2> QED BY <2>8, <2>9 DEF ThBounds
<1>TickBounds.
  ASSUME TimedInv, ThBounds, Tick PROVE ThBounds'
  <2> USE <1>TickBounds
  <2>1. IsFcn(th')
    BY Zenon DEF Tick, IsFcn
  <2>2. ASSUME NEW u \in Threads PROVE th'[u].lag \in 0..MaxLag
    <3> DEFINE c == th[u]
               o == IF c.old = None THEN None ELSE c.old - TicksPerTick
               d == [c EXCEPT !.lag = @ + TicksPerTick, !.old = o]
    <3>1. th'[u] = IF ~Arming(u) THEN c ELSE d
      BY Zenon DEF Tick
    <3>2. c \in Call /\ c.lag \in 0..MaxLag /\ (Arming(u) => c.lag + TicksPerTick <= MaxLag)
      BY Zenon, SameStubs DEF CallOK, ThBounds, Tick, InTime
    <3> HIDE DEF c, o
    <3>3. d.lag = c.lag + TicksPerTick
      BY <3>2 DEF Call
    <3> HIDE DEF d
    <3>4. Arming(u) => d.lag \in 0..MaxLag
      BY <3>2, <3>3, TimedAssumption DEF TicksPerTick
    <3> QED BY <3>1, <3>2, <3>4
  <2> QED BY <2>1, <2>2 DEF ThBounds
<1> QED
  <2> SUFFICES ASSUME TimedInv, ThBounds, [Next]_vars PROVE ThBounds'
    OBVIOUS
  <2>1. ASSUME NEW t \in Threads, Onward(t) PROVE ThBounds'
    BY <2>1, <1>ClientSets, <1>SetsBounds, <1>KickBounds DEF Onward
  <2>2. CASE Quiet \/ UNCHANGED vars
    <3>1. th' = th
      BY <2>2 DEF Quiet, TimerStamp, TimerTake, EndPeriodic, NextWakeup, TimerSleep, Assertion, vars
    <3> QED BY <3>1 DEF ThBounds, IsFcn
  <2>3. CASE ExpirePeriodic \/ ExpireEvent
    <3>1. timer.tmp \in Threads
      BY <2>3, TimerFacts DEF ExpirePeriodic, ExpireEvent, Expired, Walk
    <3>2. th' = th \/ \E evt : Trigger(timer.tmp, evt)
      BY <2>3 DEF ExpirePeriodic, ExpireEvent, Assertion
    <3>3. SetsCall(timer.tmp)
      BY <3>1, <3>2, <1>TriggerSets DEF SetsCall
    <3> QED BY <3>1, <3>3, <1>SetsBounds
  <2>4. ASSUME NEW E \in SUBSET Threads, Fail(E) PROVE ThBounds'
    <3>1. IsFcn(th')
      BY Zenon, <2>4 DEF Fail, IsFcn
    <3>2. \A u \in Threads : th'[u].lag \in 0..MaxLag
      BY <2>4, AgainFields, TimedAssumption DEF ThBounds
    <3> QED BY <3>1, <3>2 DEF ThBounds
  <2> QED BY <2>1, <2>2, <2>3, <2>4, Steps, <1>TickBounds, <1>ClientSets, <1>SetsBounds
\* The periods: of a descriptor, and of a thread_event.
DescBounds == \A u \in Threads : desc[u].period \in Periods \cup {0}
PteBounds == IsFcn(pte) /\ \A u \in Threads : pte[u].period \in Periods \cup {0}

LEMMA DescNext ==
  ASSUME TimedInv, DescBounds, [Next]_vars PROVE DescBounds'
<1>1. desc \in [Threads -> Desc]
  BY Zenon DEF TimedInv, Types
<1>2. CASE desc' = desc
  BY <1>2 DEF DescBounds
<1>3. ASSUME NEW t \in Threads, desc' = [desc EXCEPT ![t].st = "current"] PROVE DescBounds'
  BY <1>1, <1>3 DEF DescBounds, Desc
<1>4. ASSUME NEW t \in Threads, FaultUpdate(t) PROVE DescBounds'
  <2>1. \A u \in Threads : desc'[u] = desc[u] \/ desc'[u] = [desc[u] EXCEPT !.st = "behind"]
    BY <1>4 DEF FaultUpdate
  <2> QED BY Zenon, <1>1, <2>1 DEF DescBounds, Desc
<1>5. ASSUME NEW t \in Threads, Return(t) PROVE DescBounds'
  <2>1. th[t].op = "create" => th[t].arg \in Periods
    BY SameStubs DEF CallOK
  <2>2. PICK d : d.period \in Periods \cup {0} /\ (desc' = desc \/ desc' = [desc EXCEPT ![t] = d])
    <3>1. CASE th[t].op = "create"
      <4> DEFINE d == [st |-> "current", period |-> th[t].arg]
      <4>1. desc' = [desc EXCEPT ![t] = d]
        BY Zenon, <1>5, <3>1 DEF Return
      <4> QED BY Zenon, <2>1, <3>1, <4>1
    <3>2. CASE th[t].op # "create"
      <4>1. desc' = desc \/ desc' = [desc EXCEPT ![t] = NoDesc]
        BY <1>5, <3>2 DEF Return
      <4> QED BY Zenon, <4>1 DEF NoDesc
    <3> QED BY <3>1, <3>2
  <2> QED BY <1>1, <1>2, <2>2 DEF DescBounds
<1>6. ASSUME NEW t \in Threads, StaleCall(t) \/ \E f \in {"create", "exist"} : periodic_wake_create(t, f)
      PROVE  desc' = desc \/ desc' = [desc EXCEPT ![t].st = "current"]
  <2>1. CASE StaleCall(t)
    BY <2>1 DEF StaleCall
  <2>2. ASSUME NEW f, periodic_wake_create(t, f)
        PROVE  desc' = desc \/ desc' = [desc EXCEPT ![t].st = "current"]
    BY Zenon, <2>2 DEF periodic_wake_create, Assertion, stub
  <2> QED BY <1>6, <2>1, <2>2
<1>7. ASSUME NEW t \in Threads,
             \/ \E op \in Calls, arg \in Args : Start(t, op, arg)
             \/ Check(t) \/ Arm(t) \/ Sleep(t) \/ Kick(t)
             \/ timed_event_block(t) \/ EvtWait(t) \/ timed_event_wakeup(t)
             \/ Created(t) \/ periodic_wake_remove(t) \/ periodic_wake_wait(t)
      PROVE  desc' = desc
  <2>1. CASE \E op \in Calls, arg \in Args : Start(t, op, arg)
    BY <2>1 DEF Start
  <2>2. CASE Check(t) \/ Arm(t) \/ Sleep(t) \/ Kick(t)
    BY <2>2 DEF Check, Arm, Sleep, Kick, stub
  <2>3. CASE timed_event_block(t) \/ EvtWait(t) \/ timed_event_wakeup(t)
    BY <2>3 DEF timed_event_block, EvtWait, timed_event_wakeup, Assertion, stub
  <2>4. CASE Created(t) \/ periodic_wake_remove(t) \/ periodic_wake_wait(t)
    BY <2>4 DEF Created, periodic_wake_remove, periodic_wake_wait, Assertion, stub
  <2> QED BY <1>7, <2>1, <2>2, <2>3, <2>4
<1>8. CASE Quiet \/ ExpirePeriodic \/ ExpireEvent
  <2>1. CASE Quiet
    BY <1>2, <2>1 DEF Quiet, TimerStamp, TimerTake, EndPeriodic, NextWakeup, TimerSleep, Assertion, stub
  <2>2. CASE ExpirePeriodic \/ ExpireEvent
    BY <1>2, <2>2 DEF ExpirePeriodic, ExpireEvent, Assertion, stub
  <2> QED BY <1>8, <2>1, <2>2
<1>9. CASE Tick \/ (\E E \in SUBSET Threads : Fail(E)) \/ UNCHANGED vars
  BY Zenon, <1>2, <1>9 DEF Tick, Fail, vars, stub
<1> QED BY <1>2, <1>3, <1>4, <1>5, <1>6, <1>7, <1>8, <1>9, Steps DEF Onward
SetsPte(t) ==
  pte' = pte \/ \E p : pte' = [pte EXCEPT ![t] = p] /\ p.period \in {pte[t].period} \cup Periods \cup {0}

LEMMA PteNext ==
  TimedInv /\ DescBounds /\ PteBounds /\ [Next]_vars => PteBounds'
<1>SetsPteBounds.
  ASSUME TimedInv, PteBounds, NEW t \in Threads, SetsPte(t) PROVE PteBounds'
  <2> USE <1>SetsPteBounds
  <2>1. DOMAIN pte = Threads
    BY DEF TimedInv, Types
  <2>2. CASE pte' = pte
    BY <2>2 DEF PteBounds, IsFcn
  <2>3. ASSUME NEW p, pte' = [pte EXCEPT ![t] = p], p.period \in {pte[t].period} \cup Periods \cup {0}
        PROVE  PteBounds'
    <3>1. IsFcn(pte')
      BY Zenon, <2>3, FcnExcept DEF PteBounds
    <3>2. pte'[t] = p /\ \A u \in Threads \ {t} : pte'[u] = pte[u]
      BY <2>1, <2>3
    <3> QED BY <2>3, <3>1, <3>2 DEF PteBounds
  <2> QED BY <2>2, <2>3 DEF SetsPte
\* The fields of a thread_event other than its period.
<1>PteFields.
  ASSUME NEW p, PteOK(p), NEW a, NEW b, NEW c
  PROVE  /\ [p EXCEPT !.evt = a].period = p.period
         /\ [p EXCEPT !.restart = a].period = p.period
         /\ [p EXCEPT !.periodic = a, !.blocked = b].period = p.period
         /\ [p EXCEPT !.periodic = a, !.period = b, !.evt = c].period = b
         /\ Missed(p).period = p.period /\ Released(p).period = p.period
  <2> USE <1>PteFields
  <2>1. DOMAIN p = {"periodic", "period", "blocked", "missed", "completion", "restart", "evt"}
    BY DEF PteOK, Pte
  <2>2. [p EXCEPT !.evt = a].period = p.period /\ [p EXCEPT !.restart = a].period = p.period
    BY <2>1
  <2>3. [p EXCEPT !.periodic = a, !.blocked = b].period = p.period
    BY <2>1
  <2>4. [p EXCEPT !.periodic = a, !.period = b, !.evt = c].period = b
    <3> DEFINE d == [p EXCEPT !.periodic = a, !.period = b]
    <3>1. DOMAIN d = DOMAIN p /\ d.period = b
      BY <2>1
    <3>2. [p EXCEPT !.periodic = a, !.period = b, !.evt = c] = [d EXCEPT !.evt = c]
      OBVIOUS
    <3> HIDE DEF d
    <3> QED BY <2>1, <3>1, <3>2
  <2>5. Missed(p).period = p.period
    <3> DEFINE d == [p EXCEPT !.restart = @ + 1]
    <3>1. DOMAIN d = DOMAIN p /\ d.period = p.period
      BY <2>1
    <3>2. Missed(p) = [d EXCEPT !.missed = TRUE, !.completion = TRUE]
      BY DEF Missed
    <3> HIDE DEF d
    <3> QED BY <2>1, <3>1, <3>2
  <2>6. Released(p).period = p.period
    <3> DEFINE d == [p EXCEPT !.blocked = FALSE, !.completion = FALSE]
    <3>1. DOMAIN d = DOMAIN p /\ d.period = p.period
      BY <2>1
    <3>2. Released(p) = [d EXCEPT !.evt = "triggered"]
      BY DEF Released
    <3> HIDE DEF d
    <3> QED BY <2>1, <3>1, <3>2
  <2> QED BY <2>2, <2>3, <2>4, <2>5, <2>6
<1>CreateSetsPte.
  ASSUME TimedInv, DescBounds, NEW t \in Threads, NEW f \in {"create", "exist"}, periodic_wake_create(t, f)
  PROVE  SetsPte(t)
  <2> USE <1>CreateSetsPte
  <2>1. PICK period : period = IF f = "create" THEN th[t].arg ELSE desc[t].period
    OBVIOUS
  <2>2. period \in Periods \cup {0}
    <3>1. f = "create" => th[t].op = "create"
      BY DEF periodic_wake_create, Enter, Function
    <3>2. f = "create" => th[t].arg \in Periods
      BY Zenon, <3>1, SameStubs DEF CallOK
    <3> QED BY <2>1, <3>2 DEF DescBounds
  <2>3. pte' = pte \/ pte' = [pte EXCEPT ![t].periodic = TRUE, ![t].period = period, ![t].evt = "idle"]
    BY Zenon, <2>1 DEF periodic_wake_create, Assertion, server
  <2>4. CASE pte' = [pte EXCEPT ![t].periodic = TRUE, ![t].period = period, ![t].evt = "idle"]
    <3> DEFINE p == [pte[t] EXCEPT !.periodic = TRUE, !.period = period, !.evt = "idle"]
    <3>1. pte' = [pte EXCEPT ![t] = p] /\ PteOK(pte[t])
      BY Zenon, <2>4, SameStubs
    <3>2. p.period = period
      BY SMT, <3>1, <1>PteFields
    <3> HIDE DEF p
    <3> QED BY Zenon, <2>2, <3>1, <3>2 DEF SetsPte
  <2> QED BY Zenon, <2>3, <2>4 DEF SetsPte
<1>WaitSetsPte.
  ASSUME TimedInv, NEW t \in Threads, periodic_wake_wait(t) PROVE SetsPte(t)
  <2> USE <1>WaitSetsPte
  <2> DEFINE d == [pte[t] EXCEPT !.completion = ~pte[t].missed, !.missed = FALSE]
             p1 == [d EXCEPT !.restart = @ - 1]
             p2 == [d EXCEPT !.blocked = TRUE]
  <2>1. pte' = pte \/ pte' = [pte EXCEPT ![t] = p1] \/ pte' = [pte EXCEPT ![t] = p2]
    BY Zenon DEF periodic_wake_wait
  <2>2. /\ DOMAIN pte[t] = {"periodic", "period", "blocked", "missed", "completion", "restart", "evt"}
        /\ DOMAIN d = DOMAIN pte[t] /\ d.period = pte[t].period
    BY SameStubs DEF PteOK, Pte
  <2> HIDE DEF d
  <2>3. p1.period = pte[t].period /\ p2.period = pte[t].period
    BY <2>2
  <2> HIDE DEF p1, p2
  <2> QED BY <2>1, <2>3 DEF SetsPte
<1> QED
  <2> SUFFICES ASSUME TimedInv, DescBounds, PteBounds, [Next]_vars PROVE PteBounds'
    OBVIOUS
  <2>1. ASSUME NEW t \in Threads, NEW p, pte' = [pte EXCEPT ![t] = p], p.period = pte[t].period
        PROVE  PteBounds'
    BY Zenon, <2>1, <1>SetsPteBounds DEF SetsPte
  <2>2. CASE pte' = pte
    BY <2>2 DEF PteBounds, IsFcn
  <2>3. \A t \in Threads : PteOK(pte[t])
    BY SameStubs
  <2>4. ASSUME NEW t \in Threads, EvtWait(t) PROVE PteBounds'
    <3>1. pte' = pte \/ \E e : pte' = [pte EXCEPT ![t].evt = e]
      BY <2>4 DEF EvtWait, SetEvt
    <3>2. ASSUME NEW e, pte' = [pte EXCEPT ![t].evt = e] PROVE PteBounds'
      <4> DEFINE p == [pte[t] EXCEPT !.evt = e]
      <4>1. pte' = [pte EXCEPT ![t] = p] /\ p.period = pte[t].period
        BY SMT, <2>3, <3>2, <1>PteFields
      <4> HIDE DEF p
      <4> QED BY Zenon, <2>1, <4>1
    <3> QED BY <2>2, <3>1, <3>2
  <2>5. ASSUME NEW t \in Threads, Created(t) PROVE PteBounds'
    <3> DEFINE p == [pte[t] EXCEPT !.restart = 0]
    <3>1. pte' = [pte EXCEPT ![t] = p]
      BY <2>5 DEF Created
    <3>2. p.period = pte[t].period
      BY SMT, <2>3, <1>PteFields
    <3> HIDE DEF p
    <3> QED BY Zenon, <2>1, <3>1, <3>2
  <2>6. ASSUME NEW t \in Threads, periodic_wake_remove(t) PROVE PteBounds'
    <3> DEFINE p == [pte[t] EXCEPT !.periodic = FALSE, !.blocked = FALSE]
    <3>1. pte' = pte \/ pte' = [pte EXCEPT ![t] = p]
      BY Zenon, <2>6 DEF periodic_wake_remove, Assertion, server
    <3>2. p.period = pte[t].period
      BY SMT, <2>3, <1>PteFields
    <3> HIDE DEF p
    <3> QED BY <2>1, <2>2, <3>1, <3>2
  <2>7. ASSUME ExpirePeriodic PROVE PteBounds'
    <3>1. PICK t \in Threads : t = timer.tmp
      BY <2>7, TimerFacts DEF ExpirePeriodic, Expired, Walk
    <3>2. pte' = pte \/ \E p \in {Released(pte[t]), Missed(pte[t])} : pte' = [pte EXCEPT ![t] = p]
      BY <2>7, <3>1 DEF ExpirePeriodic, Assertion, server
    <3>3. Released(pte[t]).period = pte[t].period /\ Missed(pte[t]).period = pte[t].period
      BY SMT, <2>3, <1>PteFields
    <3> QED BY <2>1, <2>2, <3>2, <3>3
  <2>8. ASSUME NEW E \in SUBSET Threads, Fail(E) PROVE PteBounds'
    BY Zenon, <2>8 DEF Fail, PteBounds, NoPte, IsFcn
  <2>9. CASE Quiet \/ ExpireEvent \/ Tick \/ UNCHANGED vars
    <3>1. CASE Quiet
      BY <2>2, <3>1 DEF Quiet, TimerStamp, TimerTake, EndPeriodic, NextWakeup, TimerSleep, Assertion, server
    <3>2. CASE ExpireEvent \/ Tick \/ UNCHANGED vars
      BY Zenon, <2>2, <3>2 DEF ExpireEvent, Tick, vars, server
    <3> QED BY <2>9, <3>1, <3>2
  <2>10. ASSUME NEW t \in Threads,
                \/ \E op \in Calls, arg \in Args : Start(t, op, arg)
                \/ Onward(t) \/ Return(t) \/ timed_event_block(t) \/ timed_event_wakeup(t)
         PROVE  PteBounds'
    <3>1. CASE Onward(t)
      BY <2>2, <3>1 DEF Onward, StaleCall, FaultUpdate, Check, Arm, Sleep, Kick, server
    <3>2. CASE Return(t) \/ timed_event_block(t) \/ timed_event_wakeup(t)
      BY <2>2, <3>2 DEF Return, timed_event_block, timed_event_wakeup, Assertion, server
    <3>3. CASE \E op \in Calls, arg \in Args : Start(t, op, arg)
      BY <2>2, <3>3 DEF Start, server
    <3> QED BY <2>10, <3>1, <3>2, <3>3
  <2> QED BY <2>4, <2>5, <2>6, <2>7, <2>8, <2>9, <2>10, Steps, <1>CreateSetsPte, <1>WaitSetsPte, <1>SetsPteBounds
Clock ==
  /\ age \in 0..MaxLag
  /\ wakeup_in \in Nat \cup {NoTimeout} /\ twake \in BOOLEAN
  /\ sec \in Threads \cup {Timer, None}
  /\ stale \subseteq {Home[t] : t \in Threads}
  /\ faults \in 0..MaxFaults /\ failed \in Nat

\* A client's step but for its sched_timeout.
Timeless(t) ==
  /\ age' \in {age, 0} /\ twake' = twake /\ sec' \in {sec, None, t} /\ stale' \subseteq stale
  /\ faults' = faults /\ failed' \in Nat

LEMMA ClockNext ==
  TimedInv /\ Clock /\ [Next]_vars => Clock'
<1>ClockKept.
  ASSUME Clock, age' \in {age, 0}, wakeup_in' \in Nat \cup {NoTimeout}, twake' \in BOOLEAN,
         sec' \in {sec, None, Timer} \cup Threads, stale' \subseteq stale, faults' = faults,
         failed' \in Nat
  PROVE  Clock'
  <2> USE <1>ClockKept
  <2>1. age' \in 0..MaxLag
    BY TimedAssumption DEF Clock
  <2>2. sec' \in Threads \cup {Timer, None} /\ stale' \subseteq {Home[t] : t \in Threads}
    BY DEF Clock
  <2>3. faults' \in 0..MaxFaults
    BY DEF Clock
  <2> QED BY <2>1, <2>2, <2>3 DEF Clock
<1>TimeoutBounds.
  ASSUME Clock, NEW amnt \in Nat PROVE Timeout(amnt) \in Nat \cup {NoTimeout}
  BY <1>TimeoutBounds DEF Clock, Timeout
<1>ClientTimeless.
  ASSUME Clock, NEW t \in Threads,
         \/ \E op \in Calls, arg \in Args : Start(t, op, arg)
         \/ Onward(t) \/ Return(t) \/ timed_event_block(t) \/ EvtWait(t)
         \/ timed_event_wakeup(t)
         \/ \E f \in {"create", "exist"} : periodic_wake_create(t, f)
         \/ Created(t) \/ periodic_wake_remove(t) \/ periodic_wake_wait(t)
  PROVE  Timeless(t)
  <2> USE <1>ClientTimeless
  <2>1. failed \in Nat
    BY Zenon DEF Clock
  <2>2. CASE Return(t) \/ \E op \in Calls, arg \in Args : Start(t, op, arg)
    BY Zenon, <2>1, <2>2 DEF Start, Return, sched, Timeless
  <2>3. CASE StaleCall(t) \/ FaultUpdate(t) \/ Check(t)
    BY <2>1, <2>3 DEF StaleCall, FaultUpdate, Check, sched, stub, Timeless
  <2>4. CASE Arm(t) \/ Sleep(t) \/ Kick(t)
    BY <2>1, <2>4 DEF Arm, Sleep, Kick, sched, stub, Timeless
  <2>5. CASE timed_event_block(t)
    BY <2>1, <2>5 DEF timed_event_block, Assertion, sched, stub, Timeless
  <2>6. CASE EvtWait(t)
    <3>1. UNCHANGED <<age, twake, sec, stale, faults>>
      BY Zenon, <2>6 DEF EvtWait, sched, stub
    <3>2. failed' \in {failed, 372}
      BY Zenon, <2>6 DEF EvtWait
    <3> QED BY <2>1, <3>1, <3>2 DEF Timeless
  <2>7. CASE timed_event_wakeup(t) \/ Created(t)
    BY <2>1, <2>7 DEF timed_event_wakeup, Created, sched, stub, Timeless
  <2>8. ASSUME NEW f, periodic_wake_create(t, f) PROVE Timeless(t)
    <3>1. age' \in {age, 0} /\ sec' \in {sec, t} /\ UNCHANGED <<twake, stale, faults>>
      <4>1. age' \in {age, 0} /\ sec' \in {sec, t}
        BY Zenon, <2>8 DEF periodic_wake_create, Assertion
      <4>2. UNCHANGED <<twake, stale, faults>>
        BY Zenon, <2>8 DEF periodic_wake_create, Assertion, sched, stub
      <4> QED BY <4>1, <4>2
    <3>2. failed' \in {failed, 576, 579, 623}
      <4>1. \/ Assertion(IF pte[t].periodic THEN 576 ELSE 579) \/ Assertion(623)
            \/ failed' = failed
        BY Zenon, <2>8 DEF periodic_wake_create
      <4> QED BY <4>1 DEF Assertion
    <3> QED BY <2>1, <3>1, <3>2 DEF Timeless
  <2>9. CASE periodic_wake_remove(t)
    BY <2>1, <2>9 DEF periodic_wake_remove, Assertion, sched, stub, Timeless
  <2>10. CASE periodic_wake_wait(t)
    <3>1. sec' \in {sec, None} /\ UNCHANGED <<age, twake, stale, faults>>
      BY <2>10 DEF periodic_wake_wait, sched, stub
    <3>2. failed' \in {failed, 721, 700}
      BY <2>10 DEF periodic_wake_wait
    <3> QED BY <2>1, <3>1, <3>2 DEF Timeless
  <2> QED BY <2>2, <2>3, <2>4, <2>5, <2>6, <2>7, <2>8, <2>9, <2>10 DEF Onward
<1>ClientTimeout.
  ASSUME TimedInv, Clock, NEW t \in Threads,
         \/ \E op \in Calls, arg \in Args : Start(t, op, arg)
         \/ Onward(t) \/ Return(t) \/ timed_event_block(t) \/ EvtWait(t)
         \/ timed_event_wakeup(t)
         \/ \E f \in {"create", "exist"} : periodic_wake_create(t, f)
         \/ Created(t) \/ periodic_wake_remove(t) \/ periodic_wake_wait(t)
  PROVE  wakeup_in' \in Nat \cup {NoTimeout}
  <2> USE <1>ClientTimeout
  <2>1. wakeup_in \in Nat \cup {NoTimeout}
    BY Zenon DEF Clock
  <2>2. Timeout(th[t].amt) \in Nat \cup {NoTimeout}
    <3>1. th[t].amt \in Nat
      BY Zenon, SameStubs DEF CallOK, Call
    <3> QED BY Zenon, <3>1, <1>TimeoutBounds
  <2>3. wakeup_in' \in {wakeup_in, Timeout(th[t].amt)}
    <3>1. CASE Return(t) \/ \E op \in Calls, arg \in Args : Start(t, op, arg)
      BY Zenon, <3>1 DEF Start, Return, sched
    <3>2. CASE StaleCall(t) \/ FaultUpdate(t) \/ Check(t)
      BY <3>2 DEF StaleCall, FaultUpdate, Check, sched
    <3>3. CASE Arm(t) \/ Sleep(t) \/ Kick(t)
      BY <3>3 DEF Arm, Sleep, Kick
    <3>4. CASE timed_event_block(t) \/ timed_event_wakeup(t)
      BY <3>4 DEF timed_event_block, timed_event_wakeup, Assertion, sched
    <3>5. CASE EvtWait(t) \/ periodic_wake_wait(t)
      BY <3>5 DEF EvtWait, periodic_wake_wait, sched
    <3>6. ASSUME NEW f, periodic_wake_create(t, f) PROVE wakeup_in' = wakeup_in
      BY Zenon, <3>6 DEF periodic_wake_create, Assertion, sched
    <3>7. CASE Created(t)
      BY <3>7 DEF Created
    <3>8. CASE periodic_wake_remove(t)
      BY <3>8 DEF periodic_wake_remove, Assertion, sched
    <3> QED BY <3>1, <3>2, <3>3, <3>4, <3>5, <3>6, <3>7, <3>8 DEF Onward
  <2> QED BY <2>1, <2>2, <2>3
<1>TimerClock.
  ASSUME TimedInv, Clock, Quiet \/ ExpirePeriodic \/ ExpireEvent PROVE Clock'
  <2> USE <1>TimerClock
  <2>1. failed \in Nat /\ twake \in BOOLEAN /\ wakeup_in \in Nat \cup {NoTimeout} /\ timer.amt \in Nat
    BY TimerFacts DEF Clock, Walk
  <2>2. CASE TimerStamp \/ TimerTake \/ EndPeriodic
    <3>1. age' \in {age, 0} /\ sec' \in {sec, Timer} /\ UNCHANGED <<wakeup_in, twake, stale, faults, failed>>
      BY <2>2 DEF TimerStamp, TimerTake, EndPeriodic, sched, stub
    <3> QED BY <2>1, <3>1, <1>ClockKept
  <2>3. CASE NextWakeup
    <3>1. sec' \in {sec, None} /\ UNCHANGED <<age, wakeup_in, twake, stale, faults>>
      BY <2>3 DEF NextWakeup, Assertion, sched, stub
    <3>2. failed' \in {failed, 853}
      BY <2>3 DEF NextWakeup, Assertion
    <3> QED BY <2>1, <3>1, <3>2, <1>ClockKept
  <2>4. CASE TimerSleep
    <3>1. age' = 0 /\ twake' = FALSE /\ UNCHANGED <<sec, stale, faults, failed>>
      BY <2>4 DEF TimerSleep, stub
    <3>2. wakeup_in' \in Nat \cup {NoTimeout}
      BY <2>1, <2>4, <1>TimeoutBounds DEF TimerSleep
    <3> QED BY Zenon, <2>1, <3>1, <3>2, <1>ClockKept
  <2>5. CASE ExpireEvent
    <3>1. UNCHANGED <<age, sec, wakeup_in, twake, stale, faults, failed>>
      BY <2>5 DEF ExpireEvent, stub
    <3> QED BY <2>1, <3>1, <1>ClockKept
  <2>6. CASE ExpirePeriodic
    <3>1. UNCHANGED <<age, sec, wakeup_in, twake, stale, faults>>
      BY <2>6 DEF ExpirePeriodic, Assertion, sched, stub
    <3>2. failed' \in {failed, 230, 232}
      BY <2>6 DEF ExpirePeriodic, Assertion
    <3> QED BY <2>1, <3>1, <3>2, <1>ClockKept
  <2> QED BY <2>2, <2>3, <2>4, <2>5, <2>6 DEF Quiet
<1>TickClock.
  ASSUME TimedInv, Clock, Tick PROVE Clock'
  <2> USE <1>TickClock
  <2>1. /\ age' = IF timer.pc \in {"stamp", "take", "arm"} THEN age + TicksPerTick ELSE 0
        /\ timer.pc \in {"stamp", "take", "arm"} => age + TicksPerTick <= MaxLag
        /\ UNCHANGED <<sec, stale, faults, failed>>
    BY Zenon DEF Tick, InTime, stub
  <2>2. age' \in 0..MaxLag
    BY <2>1, TimedAssumption DEF Clock, TicksPerTick
  <2>3. twake' \in BOOLEAN
    BY Zenon DEF Tick, Clock
  <2>4. wakeup_in' \in Nat \cup {NoTimeout}
    <3>1. \/ wakeup_in' \in {NoTimeout, 0}
          \/ /\ wakeup_in' = wakeup_in - TicksPerTick /\ wakeup_in # NoTimeout
             /\ ~(wakeup_in <= TicksPerTick)
      BY Zenon DEF Tick
    <3> QED BY <3>1 DEF Clock, TicksPerTick
  <2> QED BY <2>1, <2>2, <2>3, <2>4 DEF Clock
<1> QED
  <2> SUFFICES ASSUME TimedInv, Clock, [Next]_vars PROVE Clock'
    OBVIOUS
  <2>1. ASSUME NEW t \in Threads, Timeless(t), wakeup_in' \in Nat \cup {NoTimeout} PROVE Clock'
    <3>1. twake' \in BOOLEAN
      BY <2>1 DEF Timeless, Clock
    <3> QED BY <2>1, <3>1, <1>ClockKept DEF Timeless
  <2>2. ASSUME NEW E \in SUBSET Threads, Fail(E) PROVE Clock'
    <3>1. /\ age' = 0 /\ stale' = {Home[t] : t \in Threads} /\ faults' = faults + 1 /\ faults < MaxFaults
          /\ failed' = 0 /\ UNCHANGED <<sec, wakeup_in, twake>>
      BY Zenon, <2>2 DEF Fail, sched
    <3>2. age' \in 0..MaxLag /\ faults' \in 0..MaxFaults
      BY <3>1, TimedAssumption DEF Clock
    <3> QED BY <3>1, <3>2 DEF Clock
  <2>3. CASE UNCHANGED vars
    BY <2>3 DEF vars, sched, stub, Clock
  <2> QED BY <2>1, <2>2, <2>3, Steps, <1>ClientTimeless, <1>ClientTimeout, <1>TimerClock, <1>TickClock
\* The tables by thread.
Tables == wake \in [Threads -> BOOLEAN] /\ IsFcn(owed) /\ IsFcn(left)

LEMMA TablesNext ==
  TimedInv /\ Tables /\ [Next]_vars => Tables'
<1>TablesKept.
  ASSUME Tables, UNCHANGED <<owed, left>>,
         wake' = wake \/ \E u : \E b \in BOOLEAN : wake' = [wake EXCEPT ![u] = b]
  PROVE  Tables'
  BY <1>TablesKept DEF Tables, IsFcn
<1> QED
  <2> SUFFICES ASSUME TimedInv, Tables, [Next]_vars PROVE Tables'
    OBVIOUS
  <2>1. ASSUME NEW t \in Threads, Onward(t) PROVE Tables'
    <3>1. UNCHANGED <<owed, left>>
      BY <2>1 DEF Onward, StaleCall, FaultUpdate, Check, Arm, Sleep, Kick
    <3>2. wake' = wake \/ \E u : \E b \in BOOLEAN : wake' = [wake EXCEPT ![u] = b]
      <4>1. CASE StaleCall(t) \/ FaultUpdate(t) \/ Check(t) \/ Arm(t)
        BY <4>1 DEF StaleCall, FaultUpdate, Check, Arm, sched
      <4>2. CASE Sleep(t)
        BY Zenon, <4>2 DEF Sleep
      <4>3. CASE Kick(t)
        BY Zenon, <4>3 DEF Kick, Wakeup
      <4> QED BY Zenon, <2>1, <4>1, <4>2, <4>3 DEF Onward
    <3> QED BY <3>1, <3>2, <1>TablesKept
  <2>2. ASSUME NEW t \in Threads, Return(t) \/ \E op \in Calls, arg \in Args : Start(t, op, arg)
        PROVE  Tables'
    <3>1. UNCHANGED <<wake, owed>> /\ (left' = left \/ \E n : left' = [left EXCEPT ![t] = n])
      BY Zenon, <2>2 DEF Return, Start, sched
    <3> QED BY <3>1, FcnExcept DEF Tables
  <2>3. ASSUME NEW t \in Threads,
               \/ timed_event_block(t) \/ timed_event_wakeup(t) \/ periodic_wake_remove(t)
               \/ \E f \in {"create", "exist"} : periodic_wake_create(t, f)
        PROVE  Tables'
    <3>1. CASE timed_event_block(t) \/ timed_event_wakeup(t) \/ periodic_wake_remove(t)
      BY <3>1, <1>TablesKept DEF timed_event_block, timed_event_wakeup, periodic_wake_remove, Assertion, sched
    <3>2. ASSUME NEW f, periodic_wake_create(t, f) PROVE Tables'
      BY Zenon, <3>2, <1>TablesKept DEF periodic_wake_create, Assertion, sched
    <3> QED BY <2>3, <3>1, <3>2
  <2>4. ASSUME NEW t \in Threads, EvtWait(t) \/ Created(t) \/ periodic_wake_wait(t) PROVE Tables'
    <3>1. UNCHANGED <<wake, left>>
      BY <2>4 DEF EvtWait, Created, periodic_wake_wait, sched
    <3>2. owed' = owed \/ \E n : owed' = [owed EXCEPT ![t] = n]
      <4>1. CASE EvtWait(t)
        <5>1. owed' = owed \/ owed' = [owed EXCEPT ![t] = owed[t] - 1]
          BY Zenon, <4>1 DEF EvtWait
        <5> QED BY <5>1
      <4>2. CASE Created(t)
        BY Zenon, <4>2 DEF Created
      <4>3. CASE periodic_wake_wait(t)
        BY <4>3 DEF periodic_wake_wait
      <4> QED BY <2>4, <4>1, <4>2, <4>3
    <3> QED BY <3>1, <3>2, FcnExcept DEF Tables
  <2>5. CASE Quiet \/ UNCHANGED vars
    <3>1. UNCHANGED <<wake, owed, left>>
      BY <2>5 DEF Quiet, TimerStamp, TimerTake, EndPeriodic, NextWakeup, TimerSleep, Assertion, sched, vars
    <3> QED BY <3>1, <1>TablesKept
  <2>6. CASE ExpirePeriodic \/ ExpireEvent
    <3>1. left' = left /\ (owed' = owed \/ \E n : owed' = [owed EXCEPT ![timer.tmp] = n])
      BY <2>6 DEF ExpirePeriodic, ExpireEvent, Assertion
    <3>2. wake' = wake \/ wake' = [wake EXCEPT ![timer.tmp] = TRUE]
      BY <2>6 DEF ExpirePeriodic, ExpireEvent, Assertion, Trigger, Wakeup, sched
    <3>3. IsFcn(owed')
      BY <3>1, FcnExcept DEF Tables
    <3> QED BY Zenon, <3>1, <3>2, <3>3 DEF Tables
  <2>7. CASE Tick \/ \E E \in SUBSET Threads : Fail(E)
    <3>1. UNCHANGED wake
      BY Zenon, <2>7 DEF Tick, Fail, sched
    <3>2. IsFcn(owed') /\ IsFcn(left')
      BY Zenon, <2>7 DEF Tick, Fail, IsFcn, Tables
    <3> QED BY <3>1, <3>2 DEF Tables
  <2> QED BY <2>1, <2>2, <2>3, <2>4, <2>5, <2>6, <2>7, Steps

LEMMA BoundsAre == Bounds <=> ThBounds /\ DescBounds /\ PteBounds /\ Clock /\ Tables
<1>1. ASSUME Bounds PROVE ThBounds /\ DescBounds /\ PteBounds /\ Clock /\ Tables
  BY Zenon, <1>1 DEF Bounds, ThBounds, DescBounds, PteBounds, Clock, Tables
<1>2. ASSUME ThBounds, DescBounds, PteBounds, Clock, Tables PROVE Bounds
  BY Zenon, <1>2 DEF Bounds, ThBounds, DescBounds, PteBounds, Clock, Tables
<1> QED BY <1>1, <1>2

LEMMA BoundsInit == Init => Bounds
<1> SUFFICES ASSUME Init PROVE Bounds
  OBVIOUS
<1>1. ThBounds
  <2>1. th = [t \in Threads |-> NoCall]
    BY DEF Init
  <2>2. NoCall.lag = 0
    BY DEF NoCall
  <2>3. 0 \in 0..MaxLag
    BY TimedAssumption
  <2> QED BY <2>1, <2>2, <2>3 DEF ThBounds, IsFcn
<1>2. DescBounds
  BY DEF Init, DescBounds, NoDesc
<1>3. PteBounds
  BY Zenon DEF Init, PteBounds, NoPte, IsFcn
<1>4. Clock
  <2>1. 0 \in 0..MaxLag /\ 0 \in 0..MaxFaults
    BY TimedAssumption
  <2>2. /\ age = 0 /\ wakeup_in = NoTimeout /\ twake = FALSE /\ sec = None /\ stale = {}
        /\ faults = 0 /\ failed = 0
    BY DEF Init
  <2> QED BY Zenon, <2>1, <2>2 DEF Clock
<1>5. Tables
  BY DEF Init, Tables, IsFcn
<1> QED BY <1>1, <1>2, <1>3, <1>4, <1>5, BoundsAre

LEMMA BoundsNext ==
  ASSUME TimedInv, Bounds, [Next]_vars PROVE Bounds'
<1>1. ThBounds' /\ DescBounds' /\ PteBounds' /\ Clock' /\ Tables'
  BY BoundsAre, ThNext, DescNext, PteNext, ClockNext, TablesNext
<1> QED BY Zenon, <1>1 DEF Bounds, ThBounds, DescBounds, PteBounds, Clock, Tables

LEMMA BoundsHold == Spec => []Bounds
<1>1. TimedInv /\ Bounds /\ [Next]_vars => Bounds'
  BY BoundsNext
<1> QED BY <1>1, BoundsInit, InvHolds, PTL DEF Spec

\* The type invariant of the timed event manager: the counters that clients and
\* the timer thread decrement (need_restart, the ticks left, the activations
\* owed) never fall below zero, and no time runs beyond its bound.
THEOREM TypesHold == Spec => []TypeOK
<1>1. TimedInv /\ Timely /\ Accounts /\ Bounds => TypeOK
  <2> SUFFICES ASSUME TimedInv, Timely, Accounts, Bounds PROVE TypeOK
    OBVIOUS
  <2>1. /\ events \in Seq(Event(Threads)) /\ periodic \in Seq(Event(Threads))
        /\ te \in [Threads -> Te] /\ timer \in Walk
    BY Zenon DEF TimedInv, Types, ListOK
  <2>2. pte \in [Threads -> [periodic : BOOLEAN, period : Periods \cup {0},
                             blocked : BOOLEAN, missed : BOOLEAN, completion : BOOLEAN,
                             restart : Nat, evt : {"idle", "blocked", "triggered"}]]
    <3> DEFINE S == [periodic : BOOLEAN, period : Periods \cup {0},
                     blocked : BOOLEAN, missed : BOOLEAN, completion : BOOLEAN,
                     restart : Nat, evt : {"idle", "blocked", "triggered"}]
    <3>1. ASSUME NEW t \in Threads PROVE pte[t] \in S
      <4>1. pte[t] \in Pte /\ pte[t].period \in Periods \cup {0} /\ pte[t].restart >= 0
        BY Zenon, SameStubs DEF PteOK, Bounds, Accounts, Account
      <4>2. pte[t].restart \in Nat
        <5>1. pte[t].restart \in Int
          BY <4>1 DEF Pte
        <5> QED BY <4>1, <5>1
      <4> QED BY <4>1, <4>2 DEF Pte, Evts
    <3> HIDE DEF S
    <3>2. pte \in [Threads -> S]
      BY <3>1 DEF Bounds, IsFcn
    <3> QED BY <3>2 DEF S
  <2>3. th \in [Threads -> [pc : Inside \cup {"idle", "redo", "fault"},
                            op : Calls \cup {"none"},
                            arg : Amounts \cup Periods \cup Threads \cup {0}, amt : Nat,
                            old : Int \cup {None}, lag : 0..MaxLag]]
    <3> DEFINE S == [pc : Pcs, op : Calls \cup {"none"}, arg : Args, amt : Nat, old : Times,
                     lag : 0..MaxLag]
    <3>1. ASSUME NEW t \in Threads PROVE th[t] \in S
      <4>1. th[t] \in Call /\ th[t].lag \in 0..MaxLag
        BY Zenon, SameStubs DEF CallOK, Bounds
      <4> QED BY <4>1 DEF Call
    <3> HIDE DEF S
    <3>2. th \in [Threads -> S]
      BY <3>1 DEF Bounds, IsFcn
    <3> QED BY <3>2 DEF S, Pcs, Args, Times
  <2>4. desc \in [Threads -> [st : {"none", "current", "behind"}, period : Periods \cup {0}]]
    <3>1. desc \in [Threads -> Desc] /\ \A t \in Threads : desc[t].period \in Periods \cup {0}
      BY Zenon, SameStubs DEF Bounds
    <3>2. \A t \in Threads :
            desc[t] \in [st : {"none", "current", "behind"}, period : Periods \cup {0}]
      BY Zenon, <3>1 DEF Desc
    <3> QED BY Zenon, <3>1, <3>2
  <2>5. owed \in [Threads -> Nat]
    <3>1. ASSUME NEW t \in Threads PROVE owed[t] \in Nat
      <4>1. pte[t].restart \in Int
        BY SameStubs DEF PteOK, Pte
      <4> QED BY <4>1 DEF Accounts, Account
    <3> QED BY <3>1 DEF Bounds, IsFcn
  <2>6. left \in [Threads -> Nat]
    BY Zenon DEF Bounds, IsFcn, Timely
  <2> QED BY Zenon, <2>1, <2>2, <2>3, <2>4, <2>5, <2>6 DEF TypeOK, Bounds, Te, Evts, Walk
<1> QED BY <1>1, InvHolds, TimelyHolds, AccountsHold, BoundsHold, PTL
=============================================================================
