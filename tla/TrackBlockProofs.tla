-------------------------- MODULE TrackBlockProofs --------------------------
(***************************************************************************)
(* The walk over the tracking list, for any set of threads.  The links     *)
(* describe a sequence of nodes; the invariant says that such a sequence   *)
(* exists and that the threads the walk has yet to wake are at or behind   *)
(* its cursor, unless the cursor's node has left the list.                 *)
(***************************************************************************)
EXTENDS TrackBlock, WellFoundedInduction, TLAPS

\* The links nx and pv form a ring s[0] = Anchor, s[1], ..., s[n], s[n + 1] = Anchor
\* through exactly the threads of T, and every other node is alone.
Ring(n, s, nx, pv, T) ==
  /\ s[0] = Anchor
  /\ s[n + 1] = Anchor
  /\ \A i \in 1..n : s[i] \in T
  /\ \A t \in T : \E i \in 1..n : s[i] = t
  /\ \A i, j \in 1..n : s[i] = s[j] => i = j
  /\ \A i \in 0..n : nx[s[i]] = s[i + 1]
  /\ \A i \in 1..(n + 1) : pv[s[i]] = s[i - 1]
  /\ \A t \in Threads \ T : nx[t] = t /\ pv[t] = t

\* The threads of U are at or behind the node b, if b is on the ring.
Behind(n, s, b, U) ==
  \A k, i \in 1..n : s[k] = b /\ s[i] \in U => i >= k

\* What the walk relies on apart from the order of the list.
CursorInv ==
  /\ unwoken \subseteq Tracked
  /\ walk \in {"wake", "advance"} => tb \in Threads
  /\ walk = "advance" => tb \notin unwoken
  /\ walk = "idle" => unwoken = {}

OrderInv ==
  \E n \in Nat : \E s \in [0..(n + 1) -> Nodes] :
    /\ Ring(n, s, next, prev, Tracked)
    /\ walk \in {"wake", "advance"} => Behind(n, s, tb, unwoken)

WalkInv == CursorInv /\ OrderInv
-----------------------------------------------------------------------------
\* The type invariant needs two facts more: sched_block never finds a count of
\* zero, and the cursor of a walk is a thread's node.
TypeInv ==
  /\ TypeOK
  /\ \A t \in Threads : pc[t] # "asleep" => wake_cnt[t] \in {1, 2}
  /\ walk \in {"wake", "advance"} => tb \in Threads

LEMMA InitType == Init => TypeInv
BY DEF Init, TypeInv, TypeOK, Nodes

LEMMA NextType == TypeInv /\ [Next]_vars => TypeInv'
<1> SUFFICES ASSUME TypeInv, [Next]_vars PROVE TypeInv'
  OBVIOUS
<1> \A t \in Threads : wake_cnt[t] \in 0..2 /\ (pc[t] # "asleep" => wake_cnt[t] \in {1, 2})
  BY DEF TypeInv, TypeOK
<1>1. ASSUME NEW t \in Threads, Track(t) PROVE TypeInv'
  BY <1>1 DEF TypeInv, TypeOK, Track, ADD_LIST, Nodes
<1>2. ASSUME NEW t \in Threads, Block(t) PROVE TypeInv'
  <2>1. wake_cnt[t] \in {1, 2}
    BY <1>2 DEF Block
  <2>2. CASE wake_cnt' = wake_cnt /\ pc' = [pc EXCEPT ![t] = "untrack"]
    BY <1>2, <2>1, <2>2 DEF TypeInv, TypeOK, Block, list
  <2>3. CASE /\ wake_cnt' = [wake_cnt EXCEPT ![t] = @ - 1]
             /\ pc' = [pc EXCEPT ![t] = IF wake_cnt[t] = 2 THEN "untrack" ELSE "asleep"]
    <3>1. CASE wake_cnt[t] = 2
      BY <1>2, <2>3, <3>1 DEF TypeInv, TypeOK, Block, list
    <3>2. CASE wake_cnt[t] = 1
      BY <1>2, <2>3, <3>2 DEF TypeInv, TypeOK, Block, list
    <3> QED
      BY <2>1, <3>1, <3>2
  <2> QED
    BY <1>2, <2>2, <2>3 DEF Block
<1>3. ASSUME NEW t \in Threads, Resume(t) PROVE TypeInv'
  BY <1>3 DEF TypeInv, TypeOK, Resume, list
<1>4. ASSUME NEW t \in Threads, Untrack(t) PROVE TypeInv'
  BY <1>4 DEF TypeInv, TypeOK, Untrack, REM_LIST, Nodes
<1>5. ASSUME NEW t \in Threads, WakeOther(t) PROVE TypeInv'
  BY <1>5 DEF TypeInv, TypeOK, WakeOther, Wakeup, list
<1>6. ASSUME Notification PROVE TypeInv'
  BY <1>6 DEF TypeInv, TypeOK, Notification, Nodes, Tracked, list
<1>7. ASSUME WakeTracked PROVE TypeInv'
  <2> tb \in Threads
    BY <1>7 DEF WakeTracked, TypeInv
  <2> QED
    BY <1>7 DEF TypeInv, TypeOK, WakeTracked, Wakeup, list
<1>8. ASSUME Advance PROVE TypeInv'
  BY <1>8 DEF TypeInv, TypeOK, Advance, list, Nodes
<1>9. ASSUME DeadNode PROVE TypeInv'
  BY <1>9 DEF TypeInv, TypeOK, DeadNode, list
<1>10. ASSUME UNCHANGED vars PROVE TypeInv'
  BY <1>10 DEF TypeInv, TypeOK, vars, list
<1> QED
  BY <1>1, <1>2, <1>3, <1>4, <1>5, <1>6, <1>7, <1>8, <1>9, <1>10 DEF Next, Walk, Return

LEMMA TypeInvariant == Spec => []TypeInv
BY InitType, NextType, PTL DEF Spec

\* Every reachable state of the list, the threads and the walk is well typed;
\* in particular sched_block never takes a wake count below zero.
THEOREM TypeCorrect == Spec => []TypeOK
<1>1. TypeInv => TypeOK
  BY DEF TypeInv
<1> QED
  BY <1>1, TypeInvariant, PTL
-----------------------------------------------------------------------------
(* ADD_LIST and REM_LIST on rings *)

AddNext(nx, t) == [nx EXCEPT ![t] = nx[Anchor], ![Anchor] = t]

AddPrev(nx, pv, t) == [pv EXCEPT ![t] = Anchor, ![nx[Anchor]] = t]

AddSeq(n, s, t) ==
  [i \in 0..(n + 2) |-> IF i = 0 THEN Anchor ELSE IF i = 1 THEN t ELSE s[i - 1]]

RemNext(nx, pv, t) == [nx EXCEPT ![pv[t]] = nx[t], ![t] = t]

RemPrev(nx, pv, t) == [pv EXCEPT ![nx[t]] = pv[t], ![t] = t]

RemSeq(n, s, m) == [i \in 0..n |-> IF i < m THEN s[i] ELSE s[i + 1]]

LEMMA AddRing ==
  ASSUME NEW n \in Nat, NEW s \in [0..(n + 1) -> Nodes],
         NEW nx \in [Nodes -> Nodes], NEW pv \in [Nodes -> Nodes],
         NEW T \in SUBSET Threads, NEW t \in Threads \ T,
         Ring(n, s, nx, pv, T)
  PROVE  /\ AddSeq(n, s, t) \in [0..(n + 2) -> Nodes]
         /\ Ring(n + 1, AddSeq(n, s, t), AddNext(nx, t), AddPrev(nx, pv, t), T \cup {t})
<1> DEFINE mx == AddNext(nx, t)
           qv == AddPrev(nx, pv, t)
           r == AddSeq(n, s, t)
<1> USE DEF AddNext, AddPrev, AddSeq
<1>0. Anchor \in Nodes /\ t \in Nodes /\ Anchor # t /\ Anchor \notin T /\ T \subseteq Nodes
  BY TrackAssumption DEF Nodes
<1>1. r \in [0..(n + 2) -> Nodes]
  BY <1>0
<1>2. nx[Anchor] = s[1] /\ s[1] \in Nodes /\ s[1] # t
  BY <1>0 DEF Ring
<1>3. /\ r[0] = Anchor
      /\ r[1] = t
      /\ \A i \in 2..(n + 2) : r[i] = s[i - 1]
  OBVIOUS
<1>4. r[n + 2] = Anchor /\ \A i \in 1..(n + 1) : r[i] \in T \cup {t}
  BY <1>3 DEF Ring
<1>5. \A u \in T \cup {t} : \E i \in 1..(n + 1) : r[i] = u
  <2> TAKE u \in T \cup {t}
  <2>1. CASE u = t
    <3> 1 \in 1..(n + 1)
      OBVIOUS
    <3> QED
      BY Zenon, <2>1, <1>3
  <2>2. CASE u \in T
    <3> PICK i \in 1..n : s[i] = u
      BY <2>2 DEF Ring
    <3> r[i + 1] = u /\ i + 1 \in 1..(n + 1)
      BY <1>3
    <3> QED
      BY Zenon
  <2> QED
    BY Zenon, <2>1, <2>2
<1>6. \A i, j \in 1..(n + 1) : r[i] = r[j] => i = j
  <2> SUFFICES ASSUME NEW i \in 1..(n + 1), NEW j \in 1..(n + 1), r[i] = r[j] PROVE i = j
    BY Zenon
  <2>1. \A k \in 2..(n + 1) : r[k] = s[k - 1] /\ k - 1 \in 1..n /\ s[k - 1] # t
    BY <1>3 DEF Ring
  <2>2. CASE i = 1 \/ j = 1
    <3>1. \A k \in 1..(n + 1) : k = 1 \/ k \in 2..(n + 1)
      OBVIOUS
    <3>2. \A k \in 1..(n + 1) : r[k] = t => k = 1
      BY Zenon, <2>1, <3>1
    <3> QED
      BY Zenon, <2>2, <3>2, <1>3
  <2>3. CASE i # 1 /\ j # 1
    <3> i \in 2..(n + 1) /\ j \in 2..(n + 1)
      BY <2>3
    <3> i - 1 \in 1..n /\ j - 1 \in 1..n /\ s[i - 1] = s[j - 1]
      BY <2>1
    <3> i - 1 = j - 1
      BY Zenon DEF Ring
    <3> QED
      OBVIOUS
  <2> QED
    BY <2>2, <2>3
<1>7. \A i \in 0..(n + 1) : mx[r[i]] = r[i + 1]
  <2> TAKE i \in 0..(n + 1)
  <2>1. CASE i = 0
    BY <2>1, <1>0, <1>3
  <2>2. CASE i = 1
    BY <2>2, <1>0, <1>2, <1>3
  <2>3. CASE i \in 2..(n + 1)
    <3>1. i - 1 \in 1..n /\ r[i] = s[i - 1] /\ r[i + 1] = s[(i - 1) + 1]
      BY <2>3, <1>3
    <3>2. s[i - 1] \in T /\ nx[s[i - 1]] = s[(i - 1) + 1]
      BY <3>1 DEF Ring
    <3>3. s[i - 1] # t /\ s[i - 1] # Anchor /\ s[i - 1] \in Nodes
      BY <3>2, <1>0
    <3> QED
      BY <3>1, <3>2, <3>3
  <2> QED
    BY <2>1, <2>2, <2>3
<1>8. \A i \in 1..(n + 2) : qv[r[i]] = r[i - 1]
  <2> TAKE i \in 1..(n + 2)
  <2>1. CASE i = 1
    BY <2>1, <1>0, <1>2, <1>3
  <2>2. CASE i = 2
    BY <2>2, <1>0, <1>2, <1>3
  <2>3. CASE i \in 3..(n + 2)
    <3>1. i - 1 \in 2..(n + 1) /\ r[i] = s[i - 1] /\ r[i - 1] = s[(i - 1) - 1]
      BY <2>3, <1>3
    <3>2. pv[s[i - 1]] = s[(i - 1) - 1] /\ s[i - 1] \in Nodes
      BY <3>1 DEF Ring
    <3>3. s[i - 1] # t
      BY <3>1, <1>0 DEF Ring
    <3>4. s[i - 1] # s[1]
      <4>1. CASE i - 1 = n + 1
        BY <3>1, <4>1, <1>0 DEF Ring
      <4>2. CASE i - 1 \in 2..n
        BY <3>1, <4>2 DEF Ring
      <4> QED
        BY <3>1, <4>1, <4>2
    <3> QED
      BY <3>1, <3>2, <3>3, <3>4, <1>2
  <2> QED
    BY <2>1, <2>2, <2>3
<1>9. \A u \in Threads \ (T \cup {t}) : mx[u] = u /\ qv[u] = u
  <2> TAKE u \in Threads \ (T \cup {t})
  <2>1. u \in Nodes /\ u # t /\ u # Anchor /\ nx[u] = u /\ pv[u] = u
    BY <1>0, TrackAssumption DEF Ring, Nodes
  <2>2. u # s[1]
    BY <2>1 DEF Ring
  <2> QED
    BY <2>1, <2>2, <1>2
<1>10. (n + 1) + 1 = n + 2
  OBVIOUS
<1> HIDE DEF mx, qv, r
<1>11. Ring(n + 1, r, mx, qv, T \cup {t})
  BY <1>3, <1>4, <1>5, <1>6, <1>7, <1>8, <1>9, <1>10 DEF Ring
<1> QED
  BY <1>1, <1>11 DEF mx, qv, r

LEMMA RemRing ==
  ASSUME NEW n \in Nat, NEW s \in [0..(n + 1) -> Nodes],
         NEW nx \in [Nodes -> Nodes], NEW pv \in [Nodes -> Nodes],
         NEW T \in SUBSET Threads, NEW m \in 1..n, NEW t \in Threads, t = s[m],
         Ring(n, s, nx, pv, T)
  PROVE  /\ RemSeq(n, s, m) \in [0..n -> Nodes]
         /\ Ring(n - 1, RemSeq(n, s, m), RemNext(nx, pv, t), RemPrev(nx, pv, t), T \ {t})
<1> DEFINE mx == RemNext(nx, pv, t)
           qv == RemPrev(nx, pv, t)
           r == RemSeq(n, s, m)
<1> USE DEF RemNext, RemPrev, RemSeq
<1>0. t \in T /\ t \in Nodes /\ Anchor \notin T /\ T \subseteq Nodes
  BY TrackAssumption DEF Nodes, Ring
<1>1. r \in [0..n -> Nodes]
  OBVIOUS
<1>2. nx[t] = s[m + 1] /\ pv[t] = s[m - 1] /\ s[m + 1] \in Nodes /\ s[m - 1] \in Nodes
  BY DEF Ring
\* The nodes of the ring other than t, and where the links of t lead.
<1>3. \A i \in 0..(n + 1) : s[i] = t => i = m
  <2> SUFFICES ASSUME NEW i \in 0..(n + 1), s[i] = t PROVE i = m
    OBVIOUS
  <2>1. i # 0 /\ i # n + 1
    BY <1>0 DEF Ring
  <2>2. i \in 1..n
    BY <2>1
  <2> QED
    BY <2>2 DEF Ring
<1>4. /\ \A i \in 0..n : s[i] = s[m - 1] => i = m - 1
      /\ \A i \in 1..(n + 1) : s[i] = s[m + 1] => i = m + 1
  <2>1. \A i \in 1..n : s[i] # Anchor
    BY <1>0 DEF Ring
  <2>2. ASSUME NEW i \in 0..n, s[i] = s[m - 1] PROVE i = m - 1
    <3>1. CASE m - 1 = 0
      BY <2>1, <2>2, <3>1 DEF Ring
    <3>2. CASE m - 1 \in 1..n
      <4> i # 0
        BY <2>1, <2>2, <3>2 DEF Ring
      <4> i \in 1..n
        OBVIOUS
      <4> QED
        BY <2>2, <3>2 DEF Ring
    <3> QED
      BY <3>1, <3>2
  <2>3. ASSUME NEW i \in 1..(n + 1), s[i] = s[m + 1] PROVE i = m + 1
    <3>1. CASE m + 1 = n + 1
      BY <2>1, <2>3, <3>1 DEF Ring
    <3>2. CASE m + 1 \in 1..n
      <4> i # n + 1
        BY <2>1, <2>3, <3>2 DEF Ring
      <4> i \in 1..n
        OBVIOUS
      <4> QED
        BY <2>3, <3>2 DEF Ring
    <3> QED
      BY <3>1, <3>2
  <2> QED
    BY <2>2, <2>3
\* An index of r and the one of s it stands for.
<1> DEFINE Old(i) == IF i < m THEN i ELSE i + 1
<1>5. \A i \in 0..n : r[i] = s[Old(i)] /\ Old(i) \in 0..(n + 1) /\ Old(i) # m
  OBVIOUS
<1>6. r[0] = Anchor /\ r[n] = Anchor
  BY <1>5 DEF Ring
<1>7. \A i \in 1..(n - 1) : r[i] \in T \ {t}
  <2> TAKE i \in 1..(n - 1)
  <2> Old(i) \in 1..n /\ r[i] = s[Old(i)] /\ Old(i) # m
    BY <1>5
  <2> QED
    BY <1>3 DEF Ring
<1>8. \A u \in T \ {t} : \E i \in 1..(n - 1) : r[i] = u
  <2> TAKE u \in T \ {t}
  <2> PICK j \in 1..n : s[j] = u
    BY DEF Ring
  <2> j # m
    OBVIOUS
  <2>1. CASE j < m
    <3> j \in 1..(n - 1) /\ r[j] = u
      BY <2>1
    <3> QED
      OBVIOUS
  <2>2. CASE j > m
    <3> j - 1 \in 1..(n - 1) /\ r[j - 1] = u
      BY <2>2
    <3> QED
      BY Zenon
  <2>3. j < m \/ j > m
    OBVIOUS
  <2> QED
    BY Zenon, <2>1, <2>2, <2>3
<1>9. \A i, j \in 1..(n - 1) : r[i] = r[j] => i = j
  <2> SUFFICES ASSUME NEW i \in 1..(n - 1), NEW j \in 1..(n - 1), r[i] = r[j] PROVE i = j
    BY Zenon
  <2>1. Old(i) \in 1..n /\ Old(j) \in 1..n /\ s[Old(i)] = s[Old(j)]
    BY <1>5
  <2>2. Old(i) = Old(j)
    <3> HIDE DEF Old
    <3> QED
      BY Zenon, <2>1 DEF Ring
  <2> QED
    BY <2>2
<1>10. \A i \in 0..(n - 1) : mx[r[i]] = r[i + 1]
  <2> TAKE i \in 0..(n - 1)
  <2>1. CASE i = m - 1
    <3> r[i] = s[m - 1] /\ r[i + 1] = s[m + 1] /\ s[m - 1] # t
      BY <2>1, <1>3
    <3> QED
      BY <1>2
  <2>2. CASE i # m - 1
    <3>1. Old(i) \in 0..n /\ Old(i + 1) = Old(i) + 1 /\ Old(i) # m - 1 /\ Old(i) # m
      BY <2>2
    <3>2. r[i] = s[Old(i)] /\ r[i + 1] = s[Old(i) + 1]
      BY <3>1, <1>5
    <3>3. s[Old(i)] # t /\ s[Old(i)] # s[m - 1] /\ s[Old(i)] \in Nodes
      BY <3>1, <1>3, <1>4
    <3>4. nx[s[Old(i)]] = s[Old(i) + 1]
      BY Zenon, <3>1 DEF Ring
    <3> HIDE DEF Old
    <3> QED
      BY <3>2, <3>3, <3>4, <1>2
  <2> QED
    BY <2>1, <2>2
<1>11. \A i \in 1..n : qv[r[i]] = r[i - 1]
  <2> TAKE i \in 1..n
  <2>1. CASE i = m
    <3> r[i] = s[m + 1] /\ r[i - 1] = s[m - 1] /\ s[m + 1] # t
      BY <2>1, <1>3
    <3> QED
      BY <1>2
  <2>2. CASE i # m
    <3>1. Old(i) \in 1..(n + 1) /\ Old(i - 1) = Old(i) - 1 /\ Old(i) # m + 1 /\ Old(i) # m
      BY <2>2
    <3>2. r[i] = s[Old(i)] /\ r[i - 1] = s[Old(i) - 1]
      BY <3>1, <1>5
    <3>3. s[Old(i)] # t /\ s[Old(i)] # s[m + 1] /\ s[Old(i)] \in Nodes
      BY <3>1, <1>3, <1>4
    <3>4. pv[s[Old(i)]] = s[Old(i) - 1]
      BY Zenon, <3>1 DEF Ring
    <3> HIDE DEF Old
    <3> QED
      BY <3>2, <3>3, <3>4, <1>2
  <2> QED
    BY <2>1, <2>2
<1>12. \A u \in Threads \ (T \ {t}) : mx[u] = u /\ qv[u] = u
  <2> TAKE u \in Threads \ (T \ {t})
  <2>1. CASE u = t
    BY <2>1, <1>0, <1>2
  <2>2. CASE u # t
    <3>1. u \in Threads \ T /\ u \in Nodes /\ u # Anchor
      BY <2>2, TrackAssumption DEF Nodes
    <3>2. nx[u] = u /\ pv[u] = u
      BY <3>1 DEF Ring
    <3>3. \A i \in 0..(n + 1) : s[i] \in T \cup {Anchor}
      <4> TAKE i \in 0..(n + 1)
      <4> i = 0 \/ i = n + 1 \/ i \in 1..n
        OBVIOUS
      <4> QED
        BY Zenon DEF Ring
    <3>4. u # s[m + 1] /\ u # s[m - 1]
      BY <3>1, <3>3
    <3> QED
      BY <2>2, <3>1, <3>2, <3>4, <1>2
  <2> QED
    BY <2>1, <2>2
<1>13. n - 1 \in Nat /\ (n - 1) + 1 = n
  OBVIOUS
<1> HIDE DEF mx, qv, r
<1>14. Ring(n - 1, r, mx, qv, T \ {t})
  BY Zenon, <1>6, <1>7, <1>8, <1>9, <1>10, <1>11, <1>12, <1>13 DEF Ring
<1> QED
  BY <1>1, <1>14 DEF mx, qv, r
-----------------------------------------------------------------------------
(* The walk *)

LEMMA InitWalk == Init => WalkInv
<1> SUFFICES ASSUME Init PROVE WalkInv
  OBVIOUS
<1>1. CursorInv
  BY DEF Init, CursorInv, Tracked
<1>2. OrderInv
  <2> DEFINE s == [i \in 0..(0 + 1) |-> Anchor]
  <2>1. s \in [0..(0 + 1) -> Nodes]
    BY DEF Nodes
  <2>2. Ring(0, s, next, prev, Tracked)
    BY DEF Ring, Init, Tracked, Nodes
  <2>3. walk \notin {"wake", "advance"}
    BY DEF Init
  <2> HIDE DEF s
  <2> QED
    BY Zenon, <2>1, <2>2, <2>3 DEF OrderInv
<1> QED
  BY <1>1, <1>2 DEF WalkInv

\* The order is kept by a step that changes neither the links nor the threads
\* on the list.
LEMMA SameList ==
  ASSUME WalkInv, list' = list, Tracked' = Tracked, tb' = tb,
         unwoken' \subseteq unwoken,
         walk' \in {"wake", "advance"} => walk \in {"wake", "advance"}
  PROVE  OrderInv'
<1> PICK n \in Nat : \E s \in [0..(n + 1) -> Nodes] :
      /\ Ring(n, s, next, prev, Tracked)
      /\ walk \in {"wake", "advance"} => Behind(n, s, tb, unwoken)
  BY DEF WalkInv, OrderInv
<1> PICK s \in [0..(n + 1) -> Nodes] :
      /\ Ring(n, s, next, prev, Tracked)
      /\ walk \in {"wake", "advance"} => Behind(n, s, tb, unwoken)
  OBVIOUS
<1>1. Ring(n, s, next', prev', Tracked')
  BY DEF list
<1>2. walk' \in {"wake", "advance"} => Behind(n, s, tb', unwoken')
  BY DEF Behind
<1> QED
  BY <1>1, <1>2 DEF OrderInv

LEMMA NextWalk == TypeInv /\ WalkInv /\ [Next]_vars => WalkInv'
<1> SUFFICES ASSUME TypeInv, WalkInv, [Next]_vars PROVE WalkInv'
  OBVIOUS
<1> next \in [Nodes -> Nodes] /\ prev \in [Nodes -> Nodes] /\ Tracked \in SUBSET Threads
  BY DEF TypeInv, TypeOK, Tracked
<1> PICK n \in Nat : \E s \in [0..(n + 1) -> Nodes] :
      /\ Ring(n, s, next, prev, Tracked)
      /\ walk \in {"wake", "advance"} => Behind(n, s, tb, unwoken)
  BY DEF WalkInv, OrderInv
<1> PICK s \in [0..(n + 1) -> Nodes] :
      /\ Ring(n, s, next, prev, Tracked)
      /\ walk \in {"wake", "advance"} => Behind(n, s, tb, unwoken)
  OBVIOUS
<1>1. ASSUME NEW t \in Threads, Track(t) PROVE WalkInv'
  <2> DEFINE r == AddSeq(n, s, t)
  <2>1. t \notin Tracked /\ Tracked' = Tracked \cup {t}
    BY <1>1 DEF Track, Tracked, TypeInv, TypeOK
  <2>2. r \in [0..(n + 2) -> Nodes] /\ Ring(n + 1, r, next', prev', Tracked')
    <3>1. next' = AddNext(next, t) /\ prev' = AddPrev(next, prev, t)
      BY <1>1 DEF Track, ADD_LIST, AddNext, AddPrev
    <3>2. t \in Threads \ Tracked
      BY <2>1
    <3> QED
      BY Zenon, <2>1, <3>1, <3>2, AddRing
  <2>3. CursorInv'
    BY <1>1, <2>1 DEF Track, CursorInv, WalkInv
  <2>4. ASSUME walk' \in {"wake", "advance"} PROVE Behind(n + 1, r, tb', unwoken')
    <3> SUFFICES ASSUME NEW k \in 1..(n + 1), NEW i \in 1..(n + 1), r[k] = tb, r[i] \in unwoken
                 PROVE  i >= k
      BY <1>1 DEF Track, Behind
    <3> USE DEF AddSeq
    <3>1. r[1] = t /\ t \notin unwoken
      BY <2>1 DEF WalkInv, CursorInv
    <3>2. i # 1
      BY <3>1
    <3>3. CASE k = 1
      BY <3>3
    <3>4. CASE k # 1
      <4>1. k - 1 \in 1..n /\ i - 1 \in 1..n
        BY <3>2, <3>4
      <4>2. s[k - 1] = tb /\ s[i - 1] \in unwoken
        BY <3>2, <3>4
      <4>3. Behind(n, s, tb, unwoken)
        BY <1>1, <2>4 DEF Track
      <4>4. i - 1 >= k - 1
        BY <4>1, <4>2, <4>3 DEF Behind
      <4> QED
        BY <4>4
    <3> QED
      BY <3>3, <3>4
  <2>5. n + 1 \in Nat /\ (n + 1) + 1 = n + 2
    OBVIOUS
  <2> HIDE DEF r
  <2> QED
    BY <2>2, <2>3, <2>4, <2>5 DEF WalkInv, OrderInv
<1>2. ASSUME NEW t \in Threads, Untrack(t) PROVE WalkInv'
  <2>1. t \in Tracked /\ Tracked' = Tracked \ {t}
    BY <1>2 DEF Untrack, Tracked, TypeInv, TypeOK
  <2> PICK m \in 1..n : s[m] = t
    BY <2>1 DEF Ring
  <2> DEFINE r == RemSeq(n, s, m)
  <2>2. r \in [0..n -> Nodes] /\ Ring(n - 1, r, next', prev', Tracked')
    <3>1. next' = RemNext(next, prev, t) /\ prev' = RemPrev(next, prev, t)
      BY <1>2 DEF Untrack, REM_LIST, RemNext, RemPrev
    <3> QED
      BY Zenon, <2>1, <3>1, RemRing
  <2>3. CursorInv'
    BY <1>2, <2>1 DEF Untrack, CursorInv, WalkInv
  <2>4. ASSUME walk' \in {"wake", "advance"} PROVE Behind(n - 1, r, tb', unwoken')
    <3> HIDE DEF r
    <3>0. tb' = tb /\ unwoken' \subseteq unwoken
      BY <1>2 DEF Untrack
    <3> SUFFICES ASSUME NEW k \in 1..(n - 1), NEW i \in 1..(n - 1), r[k] = tb, r[i] \in unwoken
                 PROVE  i >= k
      BY <3>0 DEF Behind
    <3> USE DEF r, RemSeq
    <3> DEFINE Old(j) == IF j < m THEN j ELSE j + 1
    <3>1. Old(k) \in 1..n /\ Old(i) \in 1..n /\ s[Old(k)] = tb /\ s[Old(i)] \in unwoken
      OBVIOUS
    <3>2. Behind(n, s, tb, unwoken)
      BY <1>2, <2>4 DEF Untrack
    <3>3. Old(i) >= Old(k)
      <4> HIDE DEF Old
      <4> QED
        BY <3>1, <3>2 DEF Behind
    <3> QED
      BY <3>3
  <2>5. n - 1 \in Nat /\ (n - 1) + 1 = n
    OBVIOUS
  <2> HIDE DEF r
  <2> QED
    BY <2>2, <2>3, <2>4, <2>5 DEF WalkInv, OrderInv
<1>3. ASSUME NEW t \in Threads, Block(t) \/ Resume(t) \/ WakeOther(t) PROVE WalkInv'
  <2>1. Tracked' = Tracked /\ list' = list /\ tb' = tb /\ walk' = walk /\ unwoken' = unwoken
    BY <1>3 DEF Block, Resume, WakeOther, Tracked, TypeInv, TypeOK
  <2>2. OrderInv'
    BY <2>1, SameList
  <2>3. CursorInv'
    BY <2>1 DEF WalkInv, CursorInv
  <2> QED
    BY <2>2, <2>3 DEF WalkInv
<1>4. ASSUME Notification PROVE WalkInv'
  <2>1. Tracked' = Tracked /\ next' = next /\ prev' = prev
    BY <1>4 DEF Notification, Tracked, list
  <2>2. n # 0 /\ tb' = s[1] /\ s[1] \in Threads
    BY <1>4 DEF Notification, Ring
  <2>3. CursorInv'
    BY <1>4, <2>1, <2>2 DEF Notification, CursorInv
  <2>4. Behind(n, s, tb', unwoken')
    <3> SUFFICES ASSUME NEW k \in 1..n, NEW i \in 1..n, s[k] = s[1] PROVE i >= k
      BY <2>2 DEF Behind
    <3> k = 1
      BY <2>2 DEF Ring
    <3> QED
      OBVIOUS
  <2> QED
    BY <2>1, <2>3, <2>4 DEF WalkInv, OrderInv
<1>5. ASSUME WakeTracked PROVE WalkInv'
  <2>1. /\ Tracked' = Tracked /\ list' = list /\ tb' = tb /\ walk = "wake" /\ walk' = "advance"
        /\ unwoken' = unwoken \ {tb}
    BY <1>5 DEF WakeTracked, Tracked
  <2>2. OrderInv'
    BY <2>1, SameList
  <2>3. CursorInv'
    BY <2>1 DEF WalkInv, CursorInv
  <2> QED
    BY <2>2, <2>3 DEF WalkInv
<1>6. ASSUME Advance PROVE WalkInv'
  <2>1. /\ Tracked' = Tracked /\ next' = next /\ prev' = prev /\ walk = "advance"
        /\ tb' = next[tb] /\ unwoken' = unwoken
        /\ walk' = IF next[tb] = Anchor THEN "idle" ELSE "wake"
    BY <1>6 DEF Advance, Tracked, list
  <2>2. tb \in Threads /\ tb \notin unwoken /\ Behind(n, s, tb, unwoken)
    BY <2>1 DEF WalkInv, CursorInv
  <2>3. CASE tb \notin Tracked
    <3>1. next[tb] = tb
      BY <2>2, <2>3 DEF Ring
    <3>2. tb' = tb /\ walk' = "wake"
      BY <2>1, <2>2, <3>1, TrackAssumption
    <3>3. OrderInv'
      BY <2>1, <3>2, SameList DEF list
    <3>4. CursorInv'
      BY <2>1, <2>2, <3>2 DEF WalkInv, CursorInv
    <3> QED
      BY <3>3, <3>4 DEF WalkInv
  <2>4. CASE tb \in Tracked
    <3> PICK k \in 1..n : s[k] = tb
      BY <2>4 DEF Ring
    <3>1. next[tb] = s[k + 1]
      BY DEF Ring
    <3>2. \A i \in 1..n : s[i] \in unwoken => i \in (k + 1)..n
      <4> TAKE i \in 1..n
      <4> HAVE s[i] \in unwoken
      <4>1. i >= k
        BY <2>2 DEF Behind
      <4>2. i # k
        BY <2>2
      <4> QED
        BY <4>1, <4>2
    <3>3. CASE s[k + 1] = Anchor
      <4>1. k = n
        <5> \A i \in 1..n : s[i] # Anchor
          BY TrackAssumption DEF Ring
        <5> QED
          BY <3>3
      <4>2. \A i \in 1..n : s[i] \notin unwoken
        BY <3>2, <4>1
      <4>3. unwoken = {}
        BY <4>2 DEF WalkInv, CursorInv, Ring
      <4>4. walk' = "idle"
        BY <2>1, <3>1, <3>3
      <4>5. CursorInv'
        BY <2>1, <4>3, <4>4 DEF CursorInv
      <4> QED
        BY <2>1, <4>4, <4>5 DEF WalkInv, OrderInv
    <3>4. CASE s[k + 1] # Anchor
      <4>0. k + 1 # n + 1
        BY <3>4 DEF Ring
      <4>1. k + 1 \in 1..n /\ s[k + 1] \in Threads
        <5> k + 1 \in 1..n
          BY <4>0
        <5> QED
          BY DEF Ring
      <4>2. walk' = "wake" /\ tb' = s[k + 1]
        BY <2>1, <3>1, <3>4
      <4>3. CursorInv'
        BY <2>1, <4>1, <4>2 DEF CursorInv, WalkInv
      <4>4. Behind(n, s, tb', unwoken')
        <5> SUFFICES ASSUME NEW j \in 1..n, NEW i \in 1..n, s[j] = s[k + 1], s[i] \in unwoken
                     PROVE  i >= j
          BY <2>1, <4>2 DEF Behind
        <5>1. j = k + 1
          BY <4>1 DEF Ring
        <5> QED
          BY <5>1, <3>2
      <4> QED
        BY <2>1, <4>3, <4>4 DEF WalkInv, OrderInv
    <3> QED
      BY <3>3, <3>4
  <2> QED
    BY <2>3, <2>4
<1>7. ASSUME DeadNode \/ UNCHANGED vars PROVE WalkInv'
  <2>1. /\ Tracked' = Tracked /\ list' = list /\ tb' = tb /\ unwoken' = unwoken
        /\ walk' \in {"lost", walk}
    BY <1>7 DEF DeadNode, vars, Tracked
  <2>2. OrderInv'
    BY <2>1, SameList
  <2>3. CursorInv'
    BY <2>1 DEF WalkInv, CursorInv
  <2> QED
    BY <2>2, <2>3 DEF WalkInv
<1> QED
  BY <1>1, <1>2, <1>3, <1>4, <1>5, <1>6, <1>7 DEF Next, Walk, Return

\* A notification that ends has woken every thread that was on the list when it
\* began and has not left it: the walk of the server stub misses no thread, for
\* any number of threads that join and leave the list around it.
THEOREM WalkAlwaysComplete == Spec => []WalkEndsComplete
<1>1. WalkInv => WalkEndsComplete
  BY DEF WalkInv, CursorInv, WalkEndsComplete
<1> QED
  BY <1>1, InitWalk, NextWalk, TypeInvariant, PTL DEF Spec

\* The nodes of a ring are what following next from the head visits.
LEMMA RingVisited ==
  ASSUME NEW n \in Nat, NEW s \in [0..(n + 1) -> Nodes], Ring(n, s, next, prev, Tracked)
  PROVE  OnList = Tracked \cup {Anchor}
<1>1. \A x \in Tracked \cup {Anchor} : \E i \in 0..n : s[i] = x
  BY DEF Ring
<1>2. \A i \in 0..(n + 1) : s[i] \in Tracked \cup {Anchor}
  <2>1. ASSUME NEW i \in 0..(n + 1) PROVE i = 0 \/ i = n + 1 \/ i \in 1..n
    OBVIOUS
  <2> QED
    BY <2>1 DEF Ring
<1>3. Tracked \cup {Anchor} \subseteq Nodes
  BY DEF Tracked, Nodes
<1>4. ASSUME NEW x \in Tracked \cup {Anchor} PROVE next[x] \in Tracked \cup {Anchor}
  <2>1. PICK i \in 0..n : s[i] = x
    BY <1>1
  <2>2. i + 1 \in 0..(n + 1) /\ next[s[i]] = s[i + 1]
    BY DEF Ring
  <2> QED
    BY <1>2, <2>1, <2>2
<1>5. OnList \subseteq Tracked \cup {Anchor}
  BY Zenon, <1>3, <1>4 DEF OnList
<1>6. ASSUME NEW S \in SUBSET Nodes, Anchor \in S, \A m \in S : next[m] \in S,
             NEW x \in Tracked \cup {Anchor}, x \notin S
      PROVE  FALSE
  <2> DEFINE missed == {i \in 0..n : s[i] \notin S}
  <2>1. missed # {} /\ missed \in SUBSET Nat
    BY <1>1, <1>6
  <2>2. \A i \in missed : i \in 0..n /\ s[i] \notin S
    OBVIOUS
  <2>3. \A i \in 0..n : s[i] \notin S => i \in missed
    OBVIOUS
  <2> HIDE DEF missed
  <2>4. PICK i \in missed : \A j \in missed : ~ (<<j, i>> \in OpToRel(<, Nat))
    BY Zenon, <2>1, NatLessThanWellFounded, WFMin
  <2>5. i # 0
    BY <1>6, <2>2 DEF Ring
  <2>6. i - 1 \in 0..n /\ i - 1 < i /\ i \in Nat /\ i - 1 \in Nat /\ (i - 1) + 1 = i
    BY <2>2, <2>5
  <2>7. <<i - 1, i>> \in OpToRel(<, Nat)
    BY <2>6 DEF OpToRel
  <2>8. s[i - 1] \in S
    BY Zenon, <2>3, <2>4, <2>6, <2>7
  <2>9. next[s[i - 1]] = s[(i - 1) + 1]
    BY <2>6 DEF Ring
  <2> QED
    BY <1>6, <2>2, <2>6, <2>8, <2>9
<1>7. Tracked \cup {Anchor} \subseteq OnList
  BY <1>3, <1>6 DEF OnList
<1> QED
  BY <1>5, <1>7

LEMMA RingBothWays ==
  ASSUME NEW n \in Nat, NEW s \in [0..(n + 1) -> Nodes], Ring(n, s, next, prev, Tracked)
  PROVE  \A x \in Nodes : prev[next[x]] = x
<1> SUFFICES ASSUME NEW x \in Nodes PROVE prev[next[x]] = x
  OBVIOUS
<1>1. CASE x \in Tracked \cup {Anchor}
  <2>1. PICK i \in 0..n : s[i] = x
    BY <1>1 DEF Ring
  <2>2. next[s[i]] = s[i + 1]
    BY DEF Ring
  <2>3. i + 1 \in 1..(n + 1) /\ (i + 1) - 1 = i
    OBVIOUS
  <2>4. prev[s[i + 1]] = s[(i + 1) - 1]
    BY <2>3 DEF Ring
  <2> QED
    BY <2>1, <2>2, <2>3, <2>4
<1>2. CASE x \notin Tracked \cup {Anchor}
  BY <1>2 DEF Ring, Nodes
<1> QED
  BY <1>1, <1>2

\* Whatever threads come and go, the tracking list holds exactly the threads
\* inside __ser_sched_block and can be followed both ways.
THEOREM ListAlwaysHoldsTracked == Spec => []ListHoldsTracked
<1>1. WalkInv => ListHoldsTracked
  BY RingVisited, RingBothWays DEF WalkInv, OrderInv, ListHoldsTracked
<1> QED
  BY <1>1, InitWalk, NextWalk, TypeInvariant, PTL DEF Spec
=============================================================================
