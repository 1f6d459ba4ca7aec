-------------------------- MODULE FaultNotifProofs --------------------------
(***************************************************************************)
(* Proofs about FaultNotif, for any threads, services, calls and number of *)
(* failures, with at most one upcall thread: with two, whose activations   *)
(* nest, the properties do not hold.                                       *)
(*                                                                         *)
(* A frame's counter is the number of the last failure its component had   *)
(* triggered when the frame was made.  So a frame that does not lag can be *)
(* of an older incarnation only while a trigger is still to come.  Two     *)
(* things keep the frame of the running thread from lagging: every return  *)
(* and switch tests it, and the chain of interrupted threads, which does   *)
(* not, is cut before a failure that the upcall thread causes is over.     *)
(***************************************************************************)
EXTENDS FaultNotif, TLAPS

\* Such a thread can run only while the reboot that made it stale has not
\* been triggered yet.  Not the recovery thread: recovery_upcall assumes that
\* the component it executes in does not fail again.
StaleOnlyBeforeTrigger ==
  dead = "no" /\ pc[curr] \in {"run", "init"} /\ curr # Recoverer
              /\ Top(curr).inc # inc[Top(curr).spd]
    => \E t \in Thds : pc[t] = "trigger" /\ failed[t][1] = Top(curr).spd

-----------------------------------------------------------------------------
(* The inductive invariant. *)

\* The components between their reboot and its trigger.
Pending == {failed[t][1] : t \in {u \in Thds : pc[u] = "trigger"}}

World == [fault |-> fault, inc |-> inc, known |-> known, pend |-> Pending]

FrameOK(f, w) ==
  IF f.spd \in Services
  THEN /\ f.cnt <= w.fault[f.spd]
       /\ f.cnt = w.fault[f.spd] /\ f.inc # w.inc[f.spd] => f.spd \in w.pend
  ELSE f.inc = 0

\* ClientKnows for one call.
KnownOK(g, f, w) ==
  <<g.spd, f.spd>> \in Calls => f.cnt <= w.known[<<g.spd, f.spd>>]

AnyFrame ==
  [spd : Comps, cnt : Nat, inc : Nat, stub : Comps \cup {None}]

\* The frame that the notification handler is about to remove.
Refreshed(k, i, p) == i + 1 = Len(k) /\ p = "notif"

InHandler ==
  {"done", "notif", "reboot", "trigger", "slot", "spd", "loop", "switch",
   "return"}

\* A stack of thread t, which is at p.
StackOK(t, k, p, w) ==
  /\ k \in Seq(AnyFrame)
  /\ k # <<>>
  /\ t # Recoverer => k[1].spd = HomeOf(t)
  /\ p \in InHandler => Last(k).spd = Booter
  /\ p = "complete" => Last(k).spd = Sched
  /\ \A i \in 1..Len(k) :
       \/ t = Recoverer /\ i = 1
       \/ Refreshed(k, i, p)
       \/ FrameOK(k[i], w)
  /\ \A i \in 2..Len(k) : Refreshed(k, i, p) \/ KnownOK(k[i - 1], k[i], w)

Labels == InHandler \cup {"run", "complete", "init"}

Looping == {"spd", "loop", "switch"}

Types ==
  /\ curr \in Thds
  /\ pc \in [Thds -> Labels]
  /\ stk \in [Thds -> Seq(AnyFrame)]
  /\ failed \in [Thds -> (Services \cup {None}) \X Nat]
  /\ fault \in [Comps -> Nat]
  /\ inc \in [Comps -> Nat]
  /\ cap \in [Calls -> Nat]
  /\ known = cap
  /\ prev_thd \in Thds \cup {None}
  /\ recover_spd \in Services \cup {None}
  /\ active \subseteq Upcalls
  /\ interrupted \in [Upcalls -> Thds \cup {None}]

Counted ==
  /\ \A s \in Comps \ Services : fault[s] = 0 /\ inc[s] = 0
  /\ \A k \in Calls : cap[k] <= fault[k[2]]

Stacks == \A t \in Thds : StackOK(t, stk[t], pc[t], World)

Places ==
  /\ pc[Recoverer] \in {"done", "init", "run", "notif"}
  /\ \A t \in Thds \ {Recoverer} : pc[t] \notin {"done", "init"}
  /\ \A t \in Thds :
       pc[t] \in {"reboot", "trigger"} \cup {"slot", "return"} \cup Looping
         => failed[t][1] \in Services
  /\ prev_thd # None => pc[prev_thd] \in Looping
  /\ ~Preemptible
       => \A t \in Thds : pc[t] \in {"reboot", "trigger"} => t = curr

\* The running thread's frame does not lag.
Current(t) == pc[t] \in {"run", "init"} => ~Lags(Top(t))

Runs ==
  /\ curr # Recoverer \/ Len(stk[curr]) > 1 => Current(curr)
  /\ curr \in Upcalls => curr \in active
  /\ \A u \in Upcalls \ active : pc[u] = "run" /\ Top(u).spd \notin Services

Chain ==
  \A u \in Upcalls : interrupted[u] # None =>
    /\ curr = u
    /\ interrupted[u] \notin {u, Recoverer}
    /\ pc[u] \in {"slot"} \cup Looping \/ Current(interrupted[u])
    /\ pc[u] \in Looping => prev_thd = u

FaultInv == Types /\ Counted /\ Stacks /\ Places /\ Runs /\ Chain
-----------------------------------------------------------------------------
(* Frames and stacks from one state to the next. *)

WorldOK(w) ==
  /\ w.fault \in [Comps -> Nat]
  /\ w.inc \in [Comps -> Nat]
  /\ w.known \in [Calls -> Nat]
  /\ \A s \in Comps \ Services : w.fault[s] = 0 /\ w.inc[s] = 0

\* What any step does to the counters: a reboot is pending until its trigger
\* raises the fault counter.
Later(w, v) ==
  /\ \A s \in Services :
       \/ v.fault[s] > w.fault[s]
       \/ /\ v.fault[s] = w.fault[s]
          /\ s \in v.pend \/ (v.inc[s] = w.inc[s] /\ s \notin w.pend)
  /\ \A k \in Calls : w.known[k] <= v.known[k]

-----------------------------------------------------------------------------
(* What the operations on stacks return. *)

LEMMA NewFrame ==
  ASSUME NEW s \in Comps, WorldOK(World)
  PROVE  /\ Frame(s) \in AnyFrame
         /\ Frame(s).spd = s
         /\ Frame(s).cnt = fault[s]
         /\ FrameOK(Frame(s), World)
<1>1. fault[s] \in Nat /\ inc[s] \in Nat
  BY DEF WorldOK, World
<1>2. /\ Frame(s) \in AnyFrame
      /\ Frame(s).spd = s
      /\ Frame(s).cnt = fault[s]
      /\ Frame(s).inc = inc[s]
  BY <1>1 DEF Frame, AnyFrame
<1>3. CASE s \in Services
  BY <1>1, <1>2, <1>3 DEF FrameOK, World
<1>4. CASE s \notin Services
  BY <1>2, <1>4 DEF FrameOK, World, WorldOK
<1> QED BY <1>2, <1>3, <1>4

LEMMA InvokeShape ==
  ASSUME NEW k \in Seq(AnyFrame), k # <<>>, NEW s \in Comps, WorldOK(World)
  PROVE  LET e == Invoke(k, s)
             n == Len(k)
         IN /\ n \in Nat \ {0}
            /\ e \in Seq(AnyFrame)
            /\ e # <<>>
            /\ Len(e) = n + 1
            /\ \A i \in 1..(n - 1) : e[i] = k[i]
            /\ k[n] \in AnyFrame
            /\ e[n].spd = k[n].spd
            /\ e[n].inc = k[n].inc
            /\ e[n].stub = k[n].stub
            /\ e[n].cnt = fault[k[n].spd]
            /\ e[n + 1] = Frame(s)
<1> DEFINE n == Len(k)
           f == [k[n] EXCEPT !.cnt = fault[k[n].spd]]
           r == [k EXCEPT ![n] = f]
<1>1. n \in Nat \ {0} /\ k[n] \in AnyFrame
  OBVIOUS
<1>2. f \in AnyFrame /\ f.spd = k[n].spd /\ f.inc = k[n].inc
      /\ f.stub = k[n].stub
      /\ f.cnt = fault[k[n].spd]
  BY Zenon, <1>1 DEF AnyFrame, WorldOK, World
<1>3. r \in Seq(AnyFrame) /\ Len(r) = n
  <2> HIDE DEF f
  <2> QED BY <1>1, <1>2
<1>4. Frame(s) \in AnyFrame
  BY NewFrame
<1>5. Invoke(k, s) = Append(r, Frame(s))
  BY DEF Invoke, Last
<1>6. r[n] = f /\ \A i \in 1..(n - 1) : r[i] = k[i]
  <2> HIDE DEF f
  <2> QED BY <1>1
<1> HIDE DEF r
<1>7. /\ Append(r, Frame(s)) \in Seq(AnyFrame)
      /\ Append(r, Frame(s)) # <<>>
      /\ Len(Append(r, Frame(s))) = n + 1
      /\ \A i \in 1..n : Append(r, Frame(s))[i] = r[i]
      /\ Append(r, Frame(s))[n + 1] = Frame(s)
  BY <1>1, <1>3, <1>4
<1> HIDE DEF f
<1> QED BY <1>1, <1>2, <1>5, <1>6, <1>7

\* What a stack says of the frames under its top one.
Under(t, k, w) ==
  /\ k \in Seq(AnyFrame)
  /\ k # <<>>
  /\ t # Recoverer => k[1].spd = HomeOf(t)
  /\ \A i \in 1..(Len(k) - 1) : (t = Recoverer /\ i = 1) \/ FrameOK(k[i], w)
  /\ \A i \in 2..(Len(k) - 1) : KnownOK(k[i - 1], k[i], w)

-----------------------------------------------------------------------------
(* The counters of a step. *)

LEMMA WorldNow ==
  ASSUME FaultInv
  PROVE  /\ WorldOK(World)
         /\ \A t \in Thds : StackOK(t, stk[t], pc[t], World)
         /\ curr \in Thds /\ StackOK(curr, stk[curr], pc[curr], World)
  BY DEF FaultInv, Types, Counted, Stacks, WorldOK, World

LEMMA TopTyped ==
  ASSUME FaultInv, NEW t \in Thds
  PROVE  /\ stk[t] \in Seq(AnyFrame) /\ stk[t] # <<>>
         /\ Top(t) \in AnyFrame
         /\ Top(t).spd \in Comps /\ Top(t).cnt \in Nat
<1>1. stk[t] \in Seq(AnyFrame) /\ stk[t] # <<>>
  BY WorldNow DEF StackOK
<1>2. stk[t][Len(stk[t])] \in AnyFrame
  BY <1>1
<1>3. Top(t) \in AnyFrame
  BY <1>2 DEF Top, Last
<1> HIDE DEF Top
<1> QED BY <1>1, <1>3 DEF AnyFrame
-----------------------------------------------------------------------------
(* The places of a handler's loop, and the assumption on upcalls. *)

Loops == {"slot"} \cup Looping

\* The assumption on the upcall threads.
OneUpcall == \A u, v \in Upcalls : u = v

-----------------------------------------------------------------------------
(* The invariant holds initially and is inductive: first what the operations
   on stacks preserve, then one step of the proof per action. *)

LEMMA Initially == Init => FaultInv
<1> SUFFICES ASSUME Init PROVE FaultInv
  OBVIOUS
<1>1. \A t \in Thds : /\ HomeOf(t) \in Comps \ Services
                      /\ (t = Recoverer => HomeOf(t) = Booter)
  BY FaultNotifAssumption DEF Thds, HomeOf, Comps
<1>2. \A t \in Thds : stk[t] = <<Frame(HomeOf(t))>>
  BY DEF Init
<1>3. \A t \in Thds :
        /\ Frame(HomeOf(t)) \in AnyFrame
        /\ Frame(HomeOf(t)).spd = HomeOf(t)
        /\ Frame(HomeOf(t)).cnt = 0
        /\ Frame(HomeOf(t)).inc = 0
  BY <1>1 DEF Init, Frame, AnyFrame
<1>4. Types
  <2>1. curr \in Thds /\ pc \in [Thds -> Labels]
    BY DEF Init, Thds, Labels, InHandler
  <2>2. stk \in [Thds -> Seq(AnyFrame)]
    BY <1>2, <1>3 DEF Init
  <2> QED BY Zenon, <2>1, <2>2 DEF Init, Types
<1>5. Counted
  BY FaultNotifAssumption DEF Init, Counted, Comps
<1>6. Stacks
  <2> SUFFICES ASSUME NEW t \in Thds PROVE StackOK(t, stk[t], pc[t], World)
    BY DEF Stacks
  <2> DEFINE f == Frame(HomeOf(t))
             k == stk[t]
  <2>1. k = <<f>> /\ f \in AnyFrame /\ f.spd = HomeOf(t) /\ f.inc = 0
    BY <1>2, <1>3
  <2> HIDE DEF f
  <2>2. k \in Seq(AnyFrame) /\ k # <<>> /\ Len(k) = 1 /\ k[1] = f /\ Last(k) = f
    BY <2>1 DEF Last
  <2>3. FrameOK(f, World)
    BY <1>1, <2>1 DEF FrameOK
  <2>4. pc[t] \in {"run", "done"} /\ (pc[t] = "done" => t = Recoverer)
    BY DEF Init
  <2> HIDE DEF k
  <2>5. \A i \in 1..Len(k) : FrameOK(k[i], World)
    BY <2>2, <2>3
  <2>6. \A i \in 2..Len(k) : FALSE
    BY <2>2
  <2>7. StackOK(t, k, pc[t], World)
    BY <1>1, <2>1, <2>2, <2>4, <2>5, <2>6 DEF StackOK, InHandler
  <2> QED BY <2>7 DEF k
<1>7. Places
  BY FaultNotifAssumption DEF Init, Places, Looping, Thds
<1>8. Runs
  <2>1. ~Lags(Top(curr))
    <3>1. curr \in Thds /\ Top(curr) = Frame(HomeOf(curr))
      BY <1>2 DEF Init, Thds, Top, Last
    <3>2. HomeOf(curr) \in Comps /\ fault[HomeOf(curr)] = 0
      BY <1>1, <3>1 DEF Init
    <3>3. Top(curr).spd = HomeOf(curr) /\ Top(curr).cnt = 0
      BY Zenon, <1>3, <3>1
    <3> QED BY <3>2, <3>3 DEF Lags
  <2>2. curr \notin Upcalls
    BY FaultNotifAssumption DEF Init
  <2>3. \A u \in Upcalls : pc[u] = "run" /\ Top(u).spd \notin Services
    <3> SUFFICES ASSUME NEW u \in Upcalls
                 PROVE  pc[u] = "run" /\ Top(u).spd \notin Services
      OBVIOUS
    <3>1. u \in Thds /\ u # Recoverer
      BY FaultNotifAssumption DEF Thds
    <3>2. Top(u) = Frame(HomeOf(u))
      BY <1>2, <3>1 DEF Top, Last
    <3>3. Top(u).spd = HomeOf(u)
      BY <1>3, <3>1, <3>2
    <3> QED BY <1>1, <3>1, <3>3 DEF Init
  <2> QED BY <2>1, <2>2, <2>3 DEF Runs, Current
<1>9. Chain
  BY DEF Init, Chain
<1> QED BY <1>4, <1>5, <1>6, <1>7, <1>8, <1>9 DEF FaultInv

LEMMA Inductive ==
  OneUpcall /\ FaultInv /\ [Next]_vars => FaultInv'
<1>FrameLater.
  ASSUME NEW f \in AnyFrame, NEW w, NEW v, WorldOK(w), WorldOK(v), Later(w, v),
         FrameOK(f, w)
  PROVE  FrameOK(f, v)
  <2> USE <1>FrameLater
  <2>1. CASE f.spd \notin Services
    BY <2>1 DEF FrameOK
  <2>2. CASE f.spd \in Services
    <3>1. f.cnt \in Nat /\ w.fault[f.spd] \in Nat /\ v.fault[f.spd] \in Nat
      BY <2>2 DEF AnyFrame, WorldOK, Comps
    <3>2. f.cnt <= w.fault[f.spd]
          /\ (f.cnt = w.fault[f.spd] /\ f.inc # w.inc[f.spd] => f.spd \in w.pend)
      BY <2>2 DEF FrameOK
    <3>3. CASE v.fault[f.spd] > w.fault[f.spd]
      BY <2>2, <3>1, <3>2, <3>3 DEF FrameOK
    <3>4. CASE v.fault[f.spd] = w.fault[f.spd]
               /\ (f.spd \in v.pend
                   \/ (v.inc[f.spd] = w.inc[f.spd] /\ f.spd \notin w.pend))
      BY <2>2, <3>1, <3>2, <3>4 DEF FrameOK
    <3> QED BY <2>2, <3>3, <3>4 DEF Later
  <2> QED BY <2>1, <2>2
<1>KnownLater.
  ASSUME NEW g \in AnyFrame, NEW f \in AnyFrame, NEW w, NEW v, WorldOK(w),
         WorldOK(v), Later(w, v), KnownOK(g, f, w)
  PROVE  KnownOK(g, f, v)
  <2> USE <1>KnownLater
  <2> SUFFICES ASSUME <<g.spd, f.spd>> \in Calls
               PROVE  f.cnt <= v.known[<<g.spd, f.spd>>]
    BY DEF KnownOK
  <2> DEFINE c == <<g.spd, f.spd>>
  <2>1. f.cnt <= w.known[c]
    BY DEF KnownOK
  <2>2. w.known[c] <= v.known[c]
    BY DEF Later
  <2>3. f.cnt \in Nat /\ w.known[c] \in Nat /\ v.known[c] \in Nat
    BY DEF AnyFrame, WorldOK
  <2> HIDE DEF c
  <2>4. f.cnt <= v.known[c]
    BY <2>1, <2>2, <2>3
  <2> QED BY <2>4 DEF c
<1>StackLater.
  ASSUME NEW t, NEW k, NEW p, NEW w, NEW v, WorldOK(w), WorldOK(v),
         Later(w, v), StackOK(t, k, p, w)
  PROVE  StackOK(t, k, p, v)
  <2> USE <1>StackLater
  <2>1. k \in Seq(AnyFrame)
    BY DEF StackOK
  <2>2. ASSUME NEW i \in 1..Len(k)
        PROVE  (t = Recoverer /\ i = 1) \/ Refreshed(k, i, p) \/ FrameOK(k[i], v)
    <3>1. k[i] \in AnyFrame
      BY <2>1
    <3>2. (t = Recoverer /\ i = 1) \/ Refreshed(k, i, p) \/ FrameOK(k[i], w)
      BY DEF StackOK
    <3> QED BY <3>1, <3>2, <1>FrameLater
  <2>3. ASSUME NEW i \in 2..Len(k)
        PROVE  Refreshed(k, i, p) \/ KnownOK(k[i - 1], k[i], v)
    <3>1. k[i] \in AnyFrame /\ k[i - 1] \in AnyFrame
      BY <2>1
    <3>2. Refreshed(k, i, p) \/ KnownOK(k[i - 1], k[i], w)
      BY DEF StackOK
    <3> QED BY <3>1, <3>2, <1>KnownLater
  <2> QED BY <2>2, <2>3 DEF StackOK
<1>StackUnder.
  ASSUME NEW t, NEW k, NEW p, NEW w, StackOK(t, k, p, w), p # "notif"
  PROVE  Under(t, k, w)
  <2> USE <1>StackUnder
  <2>1. k \in Seq(AnyFrame) /\ k # <<>> /\ Len(k) \in Nat
    BY DEF StackOK
  <2>2. \A i \in 1..(Len(k) - 1) : i \in 1..Len(k)
    BY <2>1
  <2>3. \A i \in 2..(Len(k) - 1) : i \in 2..Len(k)
    BY <2>1
  <2> QED BY <2>1, <2>2, <2>3 DEF StackOK, Under, Refreshed
\* A frame that does not lag may be refreshed.
<1>InvokeUnder.
  ASSUME NEW t, NEW k, NEW p, NEW s \in Comps, WorldOK(World),
         StackOK(t, k, p, World), p # "notif",
         (t # Recoverer \/ Len(k) > 1) => ~Lags(Last(k))
  PROVE  Under(t, Invoke(k, s), World)
  <2> USE <1>InvokeUnder
  <2> DEFINE e == Invoke(k, s)
             n == Len(k)
  <2>1. k \in Seq(AnyFrame) /\ k # <<>>
    BY DEF StackOK
  <2>2. /\ n \in Nat \ {0}
        /\ e \in Seq(AnyFrame)
        /\ e # <<>>
        /\ Len(e) = n + 1
        /\ \A i \in 1..(n - 1) : e[i] = k[i]
    BY <2>1, InvokeShape
  <2>3. /\ k[n] \in AnyFrame
        /\ e[n].spd = k[n].spd
        /\ e[n].inc = k[n].inc
        /\ e[n].cnt = fault[k[n].spd]
    BY <2>1, InvokeShape
  <2> HIDE DEF e
  <2>4. e[1].spd = k[1].spd
    <3>1. CASE n = 1
      BY <2>3, <3>1
    <3>2. CASE n > 1
      BY <2>2, <3>2
    <3>3. n = 1 \/ n > 1
      <4>1. n \in Nat \ {0}
        BY <2>2
      <4> HIDE DEF n
      <4> QED BY <4>1
    <3> QED BY <3>1, <3>2, <3>3
  <2>5. (t # Recoverer \/ n > 1) => FrameOK(e[n], World) /\ e[n].cnt <= k[n].cnt
    <3> SUFFICES ASSUME t # Recoverer \/ n > 1
                 PROVE  FrameOK(e[n], World) /\ e[n].cnt <= k[n].cnt
      OBVIOUS
    <3>1. FrameOK(k[n], World)
      BY <2>2 DEF StackOK, Refreshed
    <3>2. ~(k[n].cnt < fault[k[n].spd])
      BY DEF Lags, Last
    <3>3. k[n].cnt \in Nat /\ fault[k[n].spd] \in Nat
      BY <2>3 DEF AnyFrame, WorldOK, World
    <3>4. CASE k[n].spd \in Services
      BY <2>3, <3>1, <3>2, <3>3, <3>4 DEF FrameOK, World
    <3>5. CASE k[n].spd \notin Services
      BY <2>3, <3>1, <3>2, <3>3, <3>5 DEF FrameOK
    <3> QED BY <3>4, <3>5
  <2>6. ASSUME NEW i \in 1..n
        PROVE  (t = Recoverer /\ i = 1) \/ FrameOK(e[i], World)
    <3>1. CASE i = n
      BY <2>2, <2>5, <3>1
    <3>2. CASE i \in 1..(n - 1)
      <4>1. (t = Recoverer /\ i = 1) \/ FrameOK(k[i], World)
        BY <2>2, <3>2 DEF StackOK, Refreshed
      <4> QED BY <2>2, <3>2, <4>1
    <3> QED BY <2>2, <3>1, <3>2
  <2>7. ASSUME NEW i \in 2..n
        PROVE  KnownOK(e[i - 1], e[i], World)
    <3>1. CASE i = n
      <4>1. KnownOK(k[n - 1], k[n], World)
        BY <2>2, <3>1 DEF StackOK, Refreshed
      <4>2. e[n - 1] = k[n - 1] /\ n > 1
        BY <2>2, <3>1
      <4>3. e[n].cnt <= k[n].cnt
        BY <2>5, <4>2
      <4>4. <<k[n - 1].spd, k[n].spd>> \in Calls
              => World.known[<<k[n - 1].spd, k[n].spd>>] \in Nat
        BY DEF WorldOK
      <4>5. e[n].cnt \in Nat /\ k[n].cnt \in Nat
        <5>1. e[n] \in AnyFrame
          BY <2>2
        <5> QED BY <2>3, <5>1 DEF AnyFrame
      <4>6. KnownOK(e[n - 1], e[n], World)
        BY <2>3, <4>1, <4>2, <4>3, <4>4, <4>5 DEF KnownOK
      <4> QED BY <3>1, <4>6
    <3>2. CASE i \in 2..(n - 1)
      <4>1. KnownOK(k[i - 1], k[i], World)
        BY <2>2, <3>2 DEF StackOK, Refreshed
      <4> QED BY <2>2, <3>2, <4>1
    <3> QED BY <2>2, <3>1, <3>2
  <2>8. t # Recoverer => e[1].spd = HomeOf(t)
    BY <2>4 DEF StackOK
  <2>9. Len(e) - 1 = n
    BY <2>2
  <2> QED BY <2>2, <2>6, <2>7, <2>8, <2>9 DEF Under, e
\* A call that goes through, or the kernel's call of a fault handler.
<1>InvokeOK.
  ASSUME NEW t, NEW k, NEW p, NEW s \in Comps, WorldOK(World),
         StackOK(t, k, p, World), p # "notif",
         (t # Recoverer \/ Len(k) > 1) => ~Lags(Last(k)),
         KnownOK(Last(k), Frame(s), World),
         NEW q \in {"run"} \cup (IF s = Booter THEN InHandler ELSE {})
  PROVE  StackOK(t, Invoke(k, s), q, World)
  <2> USE <1>InvokeOK
  <2> DEFINE e == Invoke(k, s)
             n == Len(k)
  <2>1. Under(t, e, World)
    BY <1>InvokeUnder
  <2>2. k \in Seq(AnyFrame) /\ k # <<>>
    BY DEF StackOK
  <2>3. /\ n \in Nat \ {0}
        /\ e # <<>>
        /\ Len(e) = n + 1
        /\ e[n].spd = k[n].spd
        /\ e[n + 1] = Frame(s)
    BY <2>2, InvokeShape
  <2>4. Frame(s).spd = s /\ FrameOK(Frame(s), World)
    BY NewFrame
  <2> HIDE DEF e
  <2>5. ASSUME NEW i \in 1..Len(e)
        PROVE  (t = Recoverer /\ i = 1) \/ FrameOK(e[i], World)
    <3>1. CASE i = n + 1
      BY <2>3, <2>4, <3>1
    <3>2. CASE i \in 1..n
      BY <2>1, <2>3, <3>2 DEF Under
    <3> QED BY <2>3, <3>1, <3>2
  <2>6. ASSUME NEW i \in 2..Len(e)
        PROVE  KnownOK(e[i - 1], e[i], World)
    <3>1. CASE i = n + 1
      <4>1. e[i - 1] = e[n] /\ e[i] = Frame(s)
        BY <2>3, <3>1
      <4> QED BY <2>3, <4>1 DEF KnownOK, Last
    <3>2. CASE i \in 2..n
      BY <2>1, <2>3, <3>2 DEF Under
    <3> QED BY <2>3, <3>1, <3>2
  <2>7. q \in InHandler => Last(e).spd = Booter
    BY <2>3, <2>4 DEF Last, InHandler
  <2>8. q # "complete"
    BY DEF InHandler
  <2> QED BY <2>1, <2>5, <2>6, <2>7, <2>8 DEF StackOK, Under, e
\* A thread sent to the notification handler: the frame that lags is brought
\* up to date and will be removed.
<1>NotifOK.
  ASSUME NEW t, NEW k, WorldOK(World), Under(t, k, World)
  PROVE  StackOK(t, Invoke(k, Booter), "notif", World)
  <2> USE <1>NotifOK
  <2> DEFINE e == Invoke(k, Booter)
             n == Len(k)
  <2>1. k \in Seq(AnyFrame) /\ k # <<>> /\ Booter \in Comps
    BY DEF Under, Comps
  <2>2. /\ n \in Nat \ {0}
        /\ e \in Seq(AnyFrame)
        /\ e # <<>>
        /\ Len(e) = n + 1
        /\ \A i \in 1..(n - 1) : e[i] = k[i]
        /\ e[n + 1] = Frame(Booter)
    BY <2>1, InvokeShape
  <2>3. k[n] \in AnyFrame /\ e[n].spd = k[n].spd
    BY <2>1, InvokeShape
  <2>4. Frame(Booter).spd = Booter /\ FrameOK(Frame(Booter), World)
    BY <2>1, NewFrame
  <2> HIDE DEF e
  <2>5. ASSUME NEW i \in 1..Len(e)
        PROVE  (t = Recoverer /\ i = 1) \/ Refreshed(e, i, "notif")
                 \/ FrameOK(e[i], World)
    <3>1. CASE i = n + 1
      BY <2>2, <2>4, <3>1
    <3>2. CASE i = n
      BY <2>2, <3>2 DEF Refreshed
    <3>3. CASE i \in 1..(n - 1)
      BY <2>2, <3>3 DEF Under
    <3> QED BY <2>2, <3>1, <3>2, <3>3
  <2>6. ASSUME NEW i \in 2..Len(e)
        PROVE  Refreshed(e, i, "notif") \/ KnownOK(e[i - 1], e[i], World)
    <3>1. CASE i = n + 1
      BY <2>2, <2>4, <3>1, FaultNotifAssumption DEF KnownOK
    <3>2. CASE i = n
      BY <2>2, <3>2 DEF Refreshed
    <3>3. CASE i \in 2..(n - 1)
      <4>1. KnownOK(k[i - 1], k[i], World)
        BY <3>3 DEF Under
      <4> QED BY <2>2, <3>3, <4>1
    <3> QED BY <2>2, <3>1, <3>2, <3>3
  <2>7. e[1].spd = k[1].spd
    <3>1. CASE n = 1
      BY <2>3, <3>1
    <3>2. CASE n > 1
      BY <2>2, <3>2
    <3>3. n = 1 \/ n > 1
      <4>1. n \in Nat \ {0}
        BY <2>2
      <4> HIDE DEF n
      <4> QED BY <4>1
    <3> QED BY <3>1, <3>2, <3>3
  <2>8. Last(e).spd = Booter
    BY <2>2, <2>4 DEF Last
  <2> QED BY <2>1, <2>2, <2>5, <2>6, <2>7, <2>8 DEF StackOK, Under, e
<1>PopOK.
  ASSUME NEW t, NEW k, NEW p, NEW w, StackOK(t, k, p, w), p # "notif",
         Len(k) > 1
  PROVE  StackOK(t, Pop(k), "run", w)
  <2> USE <1>PopOK
  <2> DEFINE e == Pop(k)
             n == Len(k)
  <2>1. k \in Seq(AnyFrame) /\ n \in Nat /\ n > 1
    BY DEF StackOK
  <2>2. /\ e \in Seq(AnyFrame)
        /\ e # <<>>
        /\ Len(e) = n - 1
        /\ \A i \in 1..(n - 1) : e[i] = k[i]
    <3>1. /\ e \in Seq(AnyFrame)
          /\ Len(e) = n - 1
          /\ \A i \in 1..(n - 1) : e[i] = k[i]
      BY <2>1 DEF Pop
    <3> HIDE DEF e
    <3> QED BY <2>1, <3>1
  <2> HIDE DEF e
  <2>3. ASSUME NEW i \in 1..Len(e)
        PROVE  (t = Recoverer /\ i = 1) \/ FrameOK(e[i], w)
    <3>1. (t = Recoverer /\ i = 1) \/ Refreshed(k, i, p) \/ FrameOK(k[i], w)
      BY <2>1, <2>2 DEF StackOK
    <3> QED BY <2>1, <2>2, <3>1 DEF Refreshed
  <2>4. ASSUME NEW i \in 2..Len(e)
        PROVE  KnownOK(e[i - 1], e[i], w)
    <3>1. KnownOK(k[i - 1], k[i], w)
      BY <2>1, <2>2 DEF StackOK, Refreshed
    <3>2. e[i - 1] = k[i - 1] /\ e[i] = k[i]
      BY <2>1, <2>2
    <3> QED BY <3>1, <3>2
  <2>5. t # Recoverer => e[1].spd = HomeOf(t)
    BY <2>1, <2>2 DEF StackOK
  <2> QED BY <2>2, <2>3, <2>4, <2>5 DEF StackOK, InHandler, e
<1>RemoveOK.
  ASSUME NEW t, NEW k, NEW p, NEW w, StackOK(t, k, p, w), CanRemove(k),
         Last(k).spd = Booter, NEW q \in InHandler \ {"notif"}
  PROVE  /\ StackOK(t, Remove(k), q, w)
         /\ Len(Remove(k)) > 1
  <2> USE <1>RemoveOK
  <2> DEFINE e == Remove(k)
             n == Len(k)
  <2>1. k \in Seq(AnyFrame) /\ n \in Nat /\ n > 2
    BY DEF StackOK, CanRemove
  <2>2. k[n] \in AnyFrame /\ k[n - 1] \in AnyFrame /\ k[n - 2] \in AnyFrame
    BY <2>1
  <2>3. k[n].inc = 0
    <3>1. FrameOK(k[n], w)
      BY <2>1 DEF StackOK, Refreshed
    <3> QED BY <3>1, FaultNotifAssumption DEF FrameOK, Last
  <2> DEFINE g == k[n - 1]
             z == k[n].inc
             a == [k[n - 2] EXCEPT !.stub = g.spd]
             b == [g EXCEPT !.spd = Booter, !.inc = z]
  <2>4. /\ a \in AnyFrame
        /\ a.spd = k[n - 2].spd
        /\ a.cnt = k[n - 2].cnt
        /\ a.inc = k[n - 2].inc
    BY Zenon, <2>2 DEF AnyFrame
  <2>5. b \in AnyFrame /\ b.spd = Booter /\ b.inc = 0
    <3>1. Booter \in Comps /\ z \in Nat /\ g \in AnyFrame
      BY <2>2, <2>3 DEF Comps
    <3> HIDE DEF g, z
    <3>2. b \in AnyFrame /\ b.spd = Booter /\ b.inc = z
      BY Zenon, <3>1 DEF AnyFrame
    <3> QED BY <2>3, <3>2 DEF z
  <2>6. e[n - 1] = b
    <3>1. n - 1 \in 1..(n - 1) /\ n - 1 # n - 2
      BY <2>1
    <3> QED BY <3>1 DEF Remove
  <2>7. e[n - 2] = a
    <3>1. n - 2 \in 1..(n - 1)
      BY <2>1
    <3> QED BY <3>1 DEF Remove
  <2>8. ASSUME NEW i \in 1..(n - 3)
        PROVE  e[i] = k[i]
    <3>1. i \in 1..(n - 1) /\ i # n - 2 /\ i # n - 1
      BY <2>1
    <3> QED BY <3>1 DEF Remove
  <2> HIDE DEF a, b
  <2>9. e \in Seq(AnyFrame) /\ Len(e) = n - 1
    <3>1. \A i \in 1..(n - 1) : e[i] \in AnyFrame
      <4> HIDE DEF e
      <4> QED BY <2>1, <2>4, <2>5, <2>6, <2>7, <2>8
    <3>2. e = [i \in 1..(n - 1) |-> e[i]]
      BY DEF Remove
    <3> HIDE DEF e
    <3> QED BY <2>1, <3>1, <3>2
  <2> HIDE DEF e
  <2>10. ASSUME NEW i \in 1..Len(e)
         PROVE  (t = Recoverer /\ i = 1) \/ FrameOK(e[i], w)
    <3>1. CASE i = n - 1
      BY Zenon, <2>5, <2>6, <3>1, FaultNotifAssumption DEF FrameOK
    <3>2. CASE i = n - 2
      <4>1. (t = Recoverer /\ i = 1) \/ FrameOK(k[n - 2], w)
        BY <2>1, <3>2 DEF StackOK, Refreshed
      <4> QED BY Zenon, <2>4, <2>7, <3>2, <4>1 DEF FrameOK
    <3>3. CASE i \in 1..(n - 3)
      <4>1. (t = Recoverer /\ i = 1) \/ FrameOK(k[i], w)
        BY <2>1, <3>3 DEF StackOK, Refreshed
      <4> QED BY <2>8, <3>3, <4>1
    <3> QED BY <2>1, <2>9, <3>1, <3>2, <3>3
  <2>11. ASSUME NEW i \in 2..Len(e)
         PROVE  KnownOK(e[i - 1], e[i], w)
    <3>1. CASE i = n - 1
      BY <2>5, <2>6, <3>1, FaultNotifAssumption DEF KnownOK
    <3>2. CASE i = n - 2
      <4>1. KnownOK(k[n - 3], k[n - 2], w)
        BY <2>1, <2>9, <3>2 DEF StackOK, Refreshed
      <4>2. e[i - 1] = k[n - 3] /\ e[i] = a
        BY <2>1, <2>7, <2>8, <2>9, <3>2
      <4> QED BY <2>4, <4>1, <4>2 DEF KnownOK
    <3>3. CASE i \in 2..(n - 3)
      <4>1. KnownOK(k[i - 1], k[i], w)
        BY <2>1, <3>3 DEF StackOK, Refreshed
      <4>2. e[i - 1] = k[i - 1] /\ e[i] = k[i]
        BY <2>1, <2>8, <3>3
      <4> QED BY <4>1, <4>2
    <3> QED BY <2>1, <2>9, <3>1, <3>2, <3>3
  <2>12. e[1].spd = k[1].spd
    <3>1. CASE n = 3
      BY <2>4, <2>7, <3>1
    <3>2. CASE n > 3
      BY <2>1, <2>8, <3>2
    <3>3. n = 3 \/ n > 3
      <4>1. n \in Nat /\ n > 2
        BY <2>1
      <4> HIDE DEF n
      <4> QED BY <4>1
    <3> QED BY <3>1, <3>2, <3>3
  <2>13. Last(e).spd = Booter
    BY <2>5, <2>6, <2>9 DEF Last
  <2>14. e # <<>> /\ Len(e) > 1 /\ q # "complete"
    BY <2>1, <2>9 DEF InHandler
  <2>15. t # Recoverer => e[1].spd = HomeOf(t)
    BY <2>12 DEF StackOK
  <2>16. StackOK(t, e, q, w)
    BY <2>9, <2>10, <2>11, <2>13, <2>14, <2>15 DEF StackOK
  <2> QED BY <2>14, <2>16 DEF e
\* FaultUpdate only marks the frame's pending call as told.
<1>StubOK.
  ASSUME NEW t, NEW k, NEW w, StackOK(t, k, "run", w)
  PROVE  LET e == [k EXCEPT ![Len(k)].stub = None] IN
         /\ StackOK(t, e, "run", w)
         /\ Len(e) = Len(k)
         /\ Last(e).spd = Last(k).spd
         /\ Last(e).cnt = Last(k).cnt
  <2> USE <1>StubOK
  <2> DEFINE n == Len(k)
             a == [k[n] EXCEPT !.stub = None]
             e == [k EXCEPT ![n] = a]
  <2>1. k \in Seq(AnyFrame) /\ n \in Nat /\ n > 0
    BY DEF StackOK
  <2>2. k[n] \in AnyFrame
    BY <2>1
  <2>3. a \in AnyFrame /\ a.spd = k[n].spd /\ a.cnt = k[n].cnt /\ a.inc = k[n].inc
    BY <2>2 DEF AnyFrame
  <2>4. [k EXCEPT ![Len(k)].stub = None] = e
    OBVIOUS
  <2> HIDE DEF a
  <2>5. e \in Seq(AnyFrame) /\ Len(e) = n
    BY <2>1, <2>3
  <2>6. e[n] = a /\ \A i \in 1..(n - 1) : e[i] = k[i]
    BY <2>1
  <2> HIDE DEF e
  <2>7. \A i \in 1..n : e[i].spd = k[i].spd /\ e[i].cnt = k[i].cnt /\ e[i].inc = k[i].inc
    <3> SUFFICES ASSUME NEW i \in 1..n
                 PROVE  e[i].spd = k[i].spd /\ e[i].cnt = k[i].cnt
                        /\ e[i].inc = k[i].inc
      OBVIOUS
    <3>1. CASE i = n
      BY <2>3, <2>6, <3>1
    <3>2. CASE i # n
      BY <2>1, <2>6, <3>2
    <3> QED BY <3>1, <3>2
  <2>8. ASSUME NEW i \in 1..n
        PROVE  (t = Recoverer /\ i = 1) \/ FrameOK(e[i], w)
    <3>1. (t = Recoverer /\ i = 1) \/ FrameOK(k[i], w)
      BY DEF StackOK, Refreshed
    <3> QED BY Zenon, <2>7, <3>1 DEF FrameOK
  <2>9. ASSUME NEW i \in 2..n
        PROVE  KnownOK(e[i - 1], e[i], w)
    <3>1. KnownOK(k[i - 1], k[i], w)
      BY DEF StackOK, Refreshed
    <3>2. e[i].spd = k[i].spd /\ e[i].cnt = k[i].cnt /\ e[i - 1].spd = k[i - 1].spd
      BY <2>1, <2>7
    <3> QED BY <3>1, <3>2 DEF KnownOK
  <2>10. t # Recoverer => e[1].spd = HomeOf(t)
    BY <2>1, <2>7 DEF StackOK
  <2>11. e # <<>> /\ "run" \notin InHandler
    BY <2>1, <2>5 DEF InHandler
  <2>12. StackOK(t, e, "run", w)
    BY <2>5, <2>8, <2>9, <2>10, <2>11 DEF StackOK
  <2>13. Last(e).spd = Last(k).spd /\ Last(e).cnt = Last(k).cnt
    BY <2>1, <2>5, <2>7 DEF Last
  <2> QED BY Zenon, <2>4, <2>5, <2>12, <2>13
<1>SameWorld.
  ASSUME FaultInv, UNCHANGED <<fault, inc>>,
         \A k \in Calls : known[k] <= known'[k],
         \A t \in Thds :
           pc[t] = "trigger" => pc'[t] = "trigger" /\ failed'[t] = failed[t]
  PROVE  Later(World, World')
  <2> USE <1>SameWorld
  <2>1. Pending \subseteq Pending'
    BY DEF Pending
  <2>2. World.fault = World'.fault /\ World.inc = World'.inc
    BY DEF World
  <2>3. World.pend \subseteq World'.pend
    BY <2>1 DEF World
  <2>4. \A k \in Calls : World.known[k] <= World'.known[k]
    BY DEF World
  <2> HIDE DEF World
  <2> QED BY <2>2, <2>3, <2>4 DEF Later
<1>SameKnown.
  ASSUME FaultInv, known' = known
  PROVE  \A k \in Calls : known[k] <= known'[k]
  BY <1>SameKnown DEF FaultInv, Types
\* A return, tested.
<1>ResumeOK.
  ASSUME FaultInv, NEW t \in Thds, NEW k, StackOK(t, k, "run", World),
         Resume(t, k)
  PROVE  \E e, p :
           /\ stk' = [stk EXCEPT ![t] = e]
           /\ pc' = [pc EXCEPT ![t] = p]
           /\ p \in {"run", "notif"}
           /\ StackOK(t, e, p, World)
           /\ p = "run" => ~Lags(Last(e))
  <2> USE <1>ResumeOK
  <2>1. CASE Last(k).spd # Booter /\ Lags(Last(k))
    <3>1. /\ stk' = [stk EXCEPT ![t] = Invoke(k, Booter)]
          /\ pc' = [pc EXCEPT ![t] = "notif"]
      BY Zenon, <2>1 DEF Resume
    <3>2. StackOK(t, Invoke(k, Booter), "notif", World)
      BY WorldNow, <1>StackUnder, <1>NotifOK
    <3> WITNESS Invoke(k, Booter), "notif"
    <3> QED BY <3>1, <3>2
  <2>2. CASE ~(Last(k).spd # Booter /\ Lags(Last(k)))
    <3>1. stk' = [stk EXCEPT ![t] = k] /\ pc' = [pc EXCEPT ![t] = "run"]
      BY <2>2 DEF Resume
    <3>2. CASE Last(k).spd = Booter
      <4>1. fault[Booter] = 0
        BY FaultNotifAssumption DEF FaultInv, Counted, Comps
      <4>2. Last(k).cnt \in Nat
        <5>1. k \in Seq(AnyFrame) /\ k # <<>>
          BY DEF StackOK
        <5>2. k[Len(k)] \in AnyFrame
          BY <5>1
        <5> QED BY <5>2 DEF Last, AnyFrame
      <4>3. ~Lags(Last(k))
        BY <3>2, <4>1, <4>2 DEF Lags
      <4> QED BY Zenon, <3>1, <4>3
    <3>3. CASE ~Lags(Last(k))
      BY Zenon, <3>1, <3>3
    <3> QED BY <2>2, <3>2, <3>3
  <2> QED BY <2>1, <2>2
<1>OwnStep.
  ASSUME FaultInv, NEW k, NEW p \in Labels,
         stk' = [stk EXCEPT ![curr] = k],
         pc' = [pc EXCEPT ![curr] = p],
         UNCHANGED <<curr, active, interrupted>>,
         StackOK(curr, k, p, World),
         Later(World, World'),
         \* the counters
         fault' \in [Comps -> Nat], inc' \in [Comps -> Nat],
         cap' \in [Calls -> Nat], known' = cap', Counted',
         \* the failure the thread handles
         failed' \in [Thds -> (Services \cup {None}) \X Nat],
         \A t \in Thds \ {curr} : failed'[t] = failed[t],
         p \in {"reboot", "trigger", "return"} \cup Loops
           => failed'[curr][1] \in Services,
         p \in {"done", "init"} => curr = Recoverer,
         curr = Recoverer => p \in {"done", "init", "run", "notif"},
         \* the recovery thread's slots
         recover_spd' \in Services \cup {None},
         \/ prev_thd' = curr /\ p \in Looping
         \/ prev_thd' = prev_thd /\ (prev_thd = curr => p \in Looping),
         \* its frame does not lag, and the link to the thread it interrupted
         p \in {"run", "init"} /\ (curr # Recoverer \/ Len(k) > 1)
           => ~(Last(k).cnt < fault'[Last(k).spd]),
         (\E u \in Upcalls : interrupted[u] # None) =>
           /\ p \in Loops \/ (pc[curr] \notin Loops /\ fault' = fault)
           /\ p \in Looping => prev_thd' = curr
  PROVE  FaultInv'
  <2> USE <1>OwnStep
  <2>0. curr \in Thds /\ stk \in [Thds -> Seq(AnyFrame)] /\ pc \in [Thds -> Labels]
    BY Zenon DEF FaultInv, Types
  <2>1. /\ stk'[curr] = k /\ pc'[curr] = p
        /\ \A t \in Thds \ {curr} : stk'[t] = stk[t] /\ pc'[t] = pc[t]
    BY Zenon, <2>0
  <2>2. Types'
    <3>1. prev_thd' \in Thds \cup {None}
      BY Zenon, <2>0 DEF FaultInv, Types
    <3>2. k \in Seq(AnyFrame)
      BY Zenon DEF StackOK
    <3>3. pc' \in [Thds -> Labels] /\ stk' \in [Thds -> Seq(AnyFrame)]
      BY Zenon, <2>0, <3>2
    <3>4. active' \subseteq Upcalls /\ interrupted' \in [Upcalls -> Thds \cup {None}]
      BY Zenon DEF FaultInv, Types
    <3> QED BY Zenon, <2>0, <3>1, <3>3, <3>4 DEF Types
  <2>3. Stacks'
    <3>1. WorldOK(World) /\ \A t \in Thds : StackOK(t, stk[t], pc[t], World)
      BY Zenon, WorldNow
    <3>2. WorldOK(World')
      BY Zenon, <2>2 DEF Types, Counted, WorldOK, World
    <3> SUFFICES ASSUME NEW t \in Thds
                 PROVE  StackOK(t, stk'[t], pc'[t], World')
      BY Zenon DEF Stacks
    <3>3. StackOK(t, stk'[t], pc'[t], World)
      BY Zenon, <2>1, <3>1
    <3> HIDE DEF World
    <3> QED BY Zenon, <3>1, <3>2, <3>3, <1>StackLater
  <2>4. Places'
    <3>1. pc'[Recoverer] \in {"done", "init", "run", "notif"}
      BY Zenon, <2>1 DEF FaultInv, Places, Thds
    <3>2. \A t \in Thds \ {Recoverer} : pc'[t] \notin {"done", "init"}
      BY Zenon, <2>1 DEF FaultInv, Places
    <3>3. \A t \in Thds :
            pc'[t] \in {"reboot", "trigger"} \cup {"slot", "return"} \cup Looping
              => failed'[t][1] \in Services
      <4> SUFFICES ASSUME NEW t \in Thds,
                          pc'[t] \in {"reboot", "trigger"} \cup {"slot", "return"}
                                       \cup Looping
                   PROVE  failed'[t][1] \in Services
        BY Zenon
      <4>1. CASE t = curr
        BY Zenon, <2>1, <4>1 DEF Loops
      <4>2. CASE t # curr
        BY Zenon, <2>1, <4>2 DEF FaultInv, Places
      <4> QED BY Zenon, <4>1, <4>2
    <3>4. prev_thd' # None => pc'[prev_thd'] \in Looping
      <4>1. CASE prev_thd' = curr /\ p \in Looping
        BY Zenon, <2>1, <4>1
      <4>2. CASE prev_thd' = prev_thd /\ (prev_thd = curr => p \in Looping)
        <5>1. prev_thd \in Thds \cup {None}
          BY Zenon DEF FaultInv, Types
        <5>2. prev_thd # None => pc[prev_thd] \in Looping
          BY Zenon DEF FaultInv, Places
        <5> QED BY Zenon, <2>1, <4>2, <5>1, <5>2
      <4> QED BY Zenon, <4>1, <4>2
    <3>5. ~Preemptible
            => \A t \in Thds : pc'[t] \in {"reboot", "trigger"} => t = curr'
      BY Zenon, <2>1 DEF FaultInv, Places
    <3> QED BY Zenon, <3>1, <3>2, <3>3, <3>4, <3>5 DEF Places
  <2>5. Runs'
    <3>1. curr' # Recoverer \/ Len(stk'[curr']) > 1 => Current(curr)'
      BY Zenon, <2>1 DEF Current, Lags, Top
    <3>2. curr' \in Upcalls => curr' \in active'
      BY Zenon DEF FaultInv, Runs
    <3>3. \A u \in Upcalls \ active' : pc'[u] = "run" /\ Top(u)'.spd \notin Services
      BY Zenon, <2>1 DEF FaultInv, Runs, Top, Thds
    <3> QED BY Zenon, <3>1, <3>2, <3>3 DEF Runs
  <2>6. Chain'
    <3> SUFFICES ASSUME NEW u \in Upcalls, interrupted[u] # None
                 PROVE  /\ curr' = u
                        /\ interrupted[u] \notin {u, Recoverer}
                        /\ pc'[u] \in {"slot"} \cup Looping
                             \/ Current(interrupted[u])'
                        /\ pc'[u] \in Looping => prev_thd' = u
      BY Zenon DEF Chain
    <3>1. /\ curr = u
          /\ interrupted[u] \notin {u, Recoverer}
          /\ pc[u] \in Loops \/ Current(interrupted[u])
      BY Zenon DEF FaultInv, Chain, Loops
    <3>2. interrupted[u] \in Thds \ {curr}
      BY <3>1 DEF FaultInv, Types
    <3>3. /\ p \in Loops \/ (pc[curr] \notin Loops /\ fault' = fault)
          /\ p \in Looping => prev_thd' = curr
      BY Zenon
    <3>4. CASE p \in Loops
      BY ZenonT(30), <2>1, <3>1, <3>3, <3>4 DEF Loops
    <3>5. CASE pc[curr] \notin Loops /\ fault' = fault
      <4>1. Current(interrupted[u])'
        BY Zenon, <2>1, <3>1, <3>2, <3>5 DEF Current, Lags, Top
      <4> QED BY Zenon, <2>1, <3>1, <3>3, <4>1
    <3> QED BY Zenon, <3>3, <3>4, <3>5
  <2> QED BY Zenon, <2>2, <2>3, <2>4, <2>5, <2>6 DEF FaultInv
<1>LinksCut.
  ASSUME FaultInv, NEW n
  PROVE  \A u \in Upcalls : RemovePreempted(Break(interrupted, curr), n)[u] = None
  <2> USE <1>LinksCut
  <2>1. \A u \in Upcalls : Break(interrupted, curr)[u] = None
    BY DEF FaultInv, Chain, Break
  <2> DEFINE b == Break(interrupted, curr)
  <2> HIDE DEF b
  <2>2. \A u \in Upcalls : b[u] = None
    BY <2>1 DEF b
  <2>3. \A u \in Upcalls : Break(b, n)[u] = None
    BY <2>2 DEF Break
  <2>4. \A u \in Upcalls : RemovePreempted(b, n)[u] = None
    BY <2>2, <2>3 DEF RemovePreempted
  <2> QED BY <2>4 DEF b
<1>LinksTyped.
  ASSUME NEW n, NEW m
  PROVE  DOMAIN RemovePreempted(Break(interrupted, m), n) = Upcalls
  BY Zenon, <1>LinksTyped DEF RemovePreempted, Break
<1>SwitchStep.
  ASSUME FaultInv, NEW n \in Thds \ {curr}, NEW p \in {"run", "loop", "done"},
         SwitchTo(n, p),
         UNCHANGED <<failed, fault, inc, cap, known, recover_spd>>,
         StackOK(curr, stk[curr], p, World),
         pc[curr] \notin {"reboot", "trigger"},
         p = "loop" => failed[curr][1] \in Services /\ curr # Recoverer,
         p = "done" => curr = Recoverer,
         \/ prev_thd' = None
         \/ prev_thd' = prev_thd /\ (prev_thd = curr => p \in Looping),
         active' \subseteq active, n \in Upcalls => n \in active',
         \A u \in active \ active' : 
           u = curr /\ p = "run" /\ Top(curr).spd \notin Services
  PROVE  FaultInv'
  <2> USE <1>SwitchStep
  <2>0. curr \in Thds /\ stk \in [Thds -> Seq(AnyFrame)] /\ pc \in [Thds -> Labels]
    BY Zenon DEF FaultInv, Types
  <2> DEFINE k == IF Lags(Top(n)) THEN Invoke(stk[n], Booter) ELSE stk[n]
             q == IF Lags(Top(n)) THEN "notif" ELSE pc[n]
  <2>1. /\ stk'[n] = k /\ pc'[n] = q
        /\ pc'[curr] = p /\ stk'[curr] = stk[curr]
        /\ \A t \in Thds \ {curr, n} : stk'[t] = stk[t] /\ pc'[t] = pc[t]
        /\ DOMAIN stk' = Thds /\ pc' \in [Thds -> Labels]
        /\ curr' = n
    <3>1. "notif" \in Labels /\ p \in Labels
      BY Zenon DEF Labels, InHandler
    <3>2. CASE Lags(Top(n))
      BY ZenonT(30), <2>0, <3>1, <3>2 DEF SwitchTo
    <3>3. CASE ~Lags(Top(n))
      BY Zenon, <2>0, <3>1, <3>3 DEF SwitchTo
    <3> QED BY Zenon, <3>2, <3>3
  <2>2. Lags(Top(n)) => pc[n] \in {"run", "init"}
    <3> SUFFICES ASSUME Lags(Top(n)) PROVE pc[n] \in {"run", "init"}
      BY Zenon
    <3>1. StackOK(n, stk[n], pc[n], World)
      BY Zenon, WorldNow
    <3>2. Top(n).spd \in Comps /\ Top(n).cnt \in Nat
      BY Zenon, TopTyped
    <3>3. Top(n).spd \in Services
      <4>1. Top(n).cnt < fault[Top(n).spd]
        BY Zenon DEF Lags
      <4>2. \A d \in Comps \ Services : fault[d] = 0
        BY DEF FaultInv, Counted
      <4>3. ASSUME fault[Top(n).spd] = 0 PROVE FALSE
        <5>1. Top(n).cnt < 0
          BY Zenon, <4>1, <4>3
        <5> QED BY <3>2, <5>1
      <4> QED BY Zenon, <3>2, <4>2, <4>3
    <3>4. pc[n] \notin InHandler \cup {"complete"}
      BY Zenon, <3>1, <3>3, FaultNotifAssumption DEF StackOK, Top
    <3> QED BY Zenon, <2>0, <3>4 DEF Labels
  <2>3. \A t \in Thds : pc[t] = "trigger" => pc'[t] = "trigger"
    BY Zenon, <2>1, <2>2
  <2>4. Later(World, World')
    BY Zenon, <2>3, <1>SameWorld, <1>SameKnown
  <2>5. \A t \in Thds : StackOK(t, stk'[t], pc'[t], World)
    <3> SUFFICES ASSUME NEW t \in Thds PROVE StackOK(t, stk'[t], pc'[t], World)
      BY Zenon
    <3>1. StackOK(t, stk[t], pc[t], World) /\ WorldOK(World)
      BY Zenon, WorldNow
    <3>2. CASE t = n /\ Lags(Top(n))
      <4>1. StackOK(n, Invoke(stk[n], Booter), "notif", World)
        BY Zenon, <2>2, <3>1, <3>2, <1>StackUnder, <1>NotifOK
      <4> QED BY Zenon, <2>1, <3>2, <4>1
    <3>3. CASE t = n /\ ~Lags(Top(n))
      BY Zenon, <2>1, <3>1, <3>3
    <3>4. CASE t = curr
      BY ZenonT(30), <2>1, <3>4
    <3>5. CASE t \notin {curr, n}
      BY Zenon, <2>1, <3>1, <3>5
    <3> QED BY Zenon, <3>2, <3>3, <3>4, <3>5
  <2>6. interrupted' \in [Upcalls -> Thds \cup {None}]
        /\ \A u \in Upcalls : interrupted'[u] = None
    <3>1. interrupted' = RemovePreempted(Break(interrupted, curr), n)
      BY Zenon DEF SwitchTo
    <3>2. DOMAIN interrupted' = Upcalls /\ \A u \in Upcalls : interrupted'[u] = None
      BY Zenon, <3>1, <1>LinksCut, <1>LinksTyped
    <3>3. interrupted' = [u \in Upcalls |-> interrupted'[u]]
      BY Zenon, <3>1, <3>2 DEF RemovePreempted, Break
    <3> QED BY <3>2, <3>3
  <2>7. Types'
    <3>1. \A t \in Thds : stk'[t] \in Seq(AnyFrame)
      BY ZenonT(30), <2>5 DEF StackOK
    <3>2. stk' \in [Thds -> Seq(AnyFrame)]
      BY Zenon, <2>0, <3>1 DEF SwitchTo
    <3>3. /\ failed' \in [Thds -> (Services \cup {None}) \X Nat]
          /\ fault' \in [Comps -> Nat]
          /\ inc' \in [Comps -> Nat]
          /\ cap' \in [Calls -> Nat]
          /\ known' = cap'
          /\ prev_thd' \in Thds \cup {None}
          /\ recover_spd' \in Services \cup {None}
          /\ active' \subseteq Upcalls
      BY DEF FaultInv, Types
    <3> QED BY <2>1, <2>6, <3>2, <3>3 DEF Types
  <2>8. Counted'
    BY Zenon DEF FaultInv, Counted
  <2>9. Stacks'
    <3>1. WorldOK(World')
      BY <2>7, <2>8 DEF Types, Counted, WorldOK, World
    <3>2. WorldOK(World)
      BY Zenon, WorldNow
    <3> HIDE DEF World
    <3>3. \A t \in Thds : StackOK(t, stk'[t], pc'[t], World')
      BY Zenon, <2>4, <2>5, <3>1, <3>2, <1>StackLater
    <3> QED BY Zenon, <3>3 DEF Stacks
  <2>10. Places'
    <3>1. pc'[Recoverer] \in {"done", "init", "run", "notif"}
      BY Zenon, <2>1 DEF FaultInv, Places, Thds
    <3>2. \A t \in Thds \ {Recoverer} : pc'[t] \notin {"done", "init"}
      BY ZenonT(30), <2>1 DEF FaultInv, Places
    <3>3. ASSUME NEW t \in Thds,
                 pc'[t] \in {"reboot", "trigger"} \cup {"slot", "return"} \cup Looping
          PROVE  failed'[t][1] \in Services
      <4>1. CASE t = curr
        BY Zenon, <2>1, <3>3, <4>1 DEF Looping
      <4>2. CASE t # curr
        <5>1. pc'[t] = pc[t]
          BY Zenon, <2>1, <3>3, <4>2 DEF Looping
        <5> QED BY Zenon, <3>3, <5>1 DEF FaultInv, Places
      <4> QED BY Zenon, <4>1, <4>2
    <3>4. prev_thd' # None => pc'[prev_thd'] \in Looping
      <4> SUFFICES ASSUME prev_thd' # None
                   PROVE  pc'[prev_thd'] \in Looping
        OBVIOUS
      <4>1. /\ prev_thd' = prev_thd /\ prev_thd \in Thds
            /\ pc[prev_thd] \in Looping /\ (prev_thd = curr => p \in Looping)
        BY Zenon DEF FaultInv, Types, Places
      <4>2. CASE prev_thd = curr
        BY Zenon, <2>1, <4>1, <4>2
      <4>3. CASE prev_thd # curr
        BY Zenon, <2>1, <2>2, <4>1, <4>3 DEF Looping
      <4> QED BY Zenon, <4>2, <4>3
    <3>5. ~Preemptible
            => \A t \in Thds : pc'[t] \in {"reboot", "trigger"} => t = curr'
      <4> SUFFICES ASSUME ~Preemptible, NEW t \in Thds,
                          pc'[t] \in {"reboot", "trigger"}
                   PROVE  FALSE
        OBVIOUS
      <4>1. t # curr
        BY Zenon, <2>1
      <4>2. pc[t] \in {"reboot", "trigger"}
        BY Zenon, <2>1, <4>1
      <4> QED BY ZenonT(30), <4>1, <4>2 DEF FaultInv, Places
    <3> QED BY Zenon, <3>1, <3>2, <3>3, <3>4, <3>5 DEF Places
  <2>11. Runs'
    <3>1. Current(n)'
      <4>1. CASE Lags(Top(n))
        BY Zenon, <2>1, <4>1 DEF Current
      <4>2. CASE ~Lags(Top(n))
        BY Zenon, <2>1, <4>2 DEF Current, Lags, Top
      <4> QED BY <4>1, <4>2
    <3>2. ASSUME NEW u \in Upcalls \ active'
          PROVE  pc'[u] = "run" /\ Top(u)'.spd \notin Services
      <4>1. CASE u = curr
        <5>1. u \in active
          BY Zenon, <4>1 DEF FaultInv, Runs
        <5> QED BY Zenon, <2>1, <4>1, <5>1 DEF Top
      <4>2. CASE u # curr
        <5>1. u \notin active /\ u # n /\ u \in Thds
          BY Zenon, <4>2 DEF Thds
        <5> QED BY Zenon, <2>1, <4>2, <5>1 DEF FaultInv, Runs, Top
      <4> QED BY ZenonT(30), <4>1, <4>2
    <3> QED BY ZenonT(30), <2>1, <3>1, <3>2 DEF Runs
  <2>12. Chain'
    BY <2>6 DEF Chain
  <2> QED BY Zenon, <2>7, <2>8, <2>9, <2>10, <2>11, <2>12 DEF FaultInv
\* A step that touches no counter and no slot.
<1>QuietStep.
  ASSUME FaultInv, NEW k,
         NEW p \in {"run", "notif", "complete", "init", "done", "return"},
         stk' = [stk EXCEPT ![curr] = k],
         pc' = [pc EXCEPT ![curr] = p],
         UNCHANGED <<curr, failed, fault, cap, known, inc, prev_thd, active,
                     interrupted>>,
         recover_spd' \in Services \cup {None},
         StackOK(curr, k, p, World),
         pc[curr] \notin Loops \cup {"trigger"},
         p = "return" => failed[curr][1] \in Services,
         p \in {"done", "init"} => curr = Recoverer,
         p \in {"complete", "return"} => curr # Recoverer,
         p \in {"run", "init"} /\ (curr # Recoverer \/ Len(k) > 1) => ~Lags(Last(k))
  PROVE  FaultInv'
  <2> USE <1>QuietStep
  <2>1. curr \in Thds /\ pc \in [Thds -> Labels]
    BY DEF FaultInv, Types
  <2>2. Later(World, World')
    <3>1. \A t \in Thds :
            pc[t] = "trigger" => pc'[t] = "trigger" /\ failed'[t] = failed[t]
      BY Zenon, <2>1
    <3> QED BY Zenon, <3>1, <1>SameWorld, <1>SameKnown
  <2>3. p \in Labels /\ p \notin {"reboot", "trigger"} \cup Loops
    BY Zenon DEF Labels, InHandler, Loops, Looping
  <2>4. /\ fault' \in [Comps -> Nat] /\ inc' \in [Comps -> Nat]
        /\ cap' \in [Calls -> Nat] /\ known' = cap'
        /\ failed' \in [Thds -> (Services \cup {None}) \X Nat]
        /\ \A t \in Thds \ {curr} : failed'[t] = failed[t]
    BY DEF FaultInv, Types
  <2>5. Counted'
    BY Zenon DEF FaultInv, Counted
  <2>6. prev_thd' = prev_thd /\ prev_thd # curr
    BY Zenon, <2>1, FaultNotifAssumption DEF FaultInv, Places, Loops
  <2>7. p \in {"run", "init"} /\ (curr # Recoverer \/ Len(k) > 1)
          => ~(Last(k).cnt < fault'[Last(k).spd])
    BY Zenon DEF Lags
  <2>8. pc[curr] \notin Loops /\ fault' = fault /\ p \notin Looping
    BY Zenon, <2>3 DEF Loops
  <2>9. /\ p \in {"reboot", "trigger", "return"} \cup Loops
             => failed'[curr][1] \in Services
        /\ p \in {"done", "init"} => curr = Recoverer
        /\ curr = Recoverer => p \in {"done", "init", "run", "notif"}
    BY Zenon, <2>3
  <2> QED BY Zenon, <2>2, <2>3, <2>4, <2>5, <2>6, <2>7, <2>8, <2>9, <1>OwnStep
\* What the running thread's stack and frame are like.
<1>CurrFacts.
  ASSUME FaultInv, pc[curr] = "run"
  PROVE  /\ curr \in Thds
         /\ WorldOK(World)
         /\ StackOK(curr, stk[curr], "run", World)
         /\ stk[curr] \in Seq(AnyFrame)
         /\ Top(curr) \in AnyFrame
         /\ Top(curr) = Last(stk[curr])
         /\ (curr # Recoverer \/ Len(stk[curr]) > 1) => ~Lags(Last(stk[curr]))
         /\ pc[curr] \notin Loops \cup {"trigger"}
  <2> USE <1>CurrFacts
  <2>1. StackOK(curr, stk[curr], "run", World) /\ WorldOK(World) /\ curr \in Thds
    BY Zenon, WorldNow
  <2>2. stk[curr] \in Seq(AnyFrame) /\ stk[curr] # <<>>
    BY Zenon, <2>1 DEF StackOK
  <2>3. stk[curr][Len(stk[curr])] \in AnyFrame
    BY <2>2
  <2>4. (curr # Recoverer \/ Len(stk[curr]) > 1) => ~Lags(Last(stk[curr]))
    BY DEF FaultInv, Runs, Current, Top
  <2>5. pc[curr] \notin Loops \cup {"trigger"}
    BY DEF Loops, Looping
  <2> QED BY Zenon, <2>1, <2>2, <2>3, <2>4, <2>5 DEF Top, Last
<1>CallStep.
  ASSUME FaultInv, NEW s \in Comps, Call(s) PROVE FaultInv'
  <2> USE <1>CallStep
  <2> DEFINE c == <<Top(curr).spd, s>>
             k == Invoke(stk[curr], s)
  <2>1. /\ pc[curr] = "run" /\ c \in Calls
        /\ UNCHANGED <<curr, failed, fault, cap, known, inc, prev_thd, active,
                       interrupted, recover_spd>>
    BY Zenon DEF Call, Running, counters, slots
  <2>2. recover_spd' \in Services \cup {None}
    BY <2>1 DEF FaultInv, Types
  <2>3. CASE cap[c] < fault[s]
    <3>1. Under(curr, k, World)
      BY ZenonT(30), <2>1, <1>CurrFacts, <1>InvokeUnder
    <3>2. StackOK(curr, Invoke(k, Booter), "notif", World)
      BY Zenon, <2>1, <3>1, <1>CurrFacts, <1>NotifOK
    <3>3. /\ stk' = [stk EXCEPT ![curr] = Invoke(k, Booter)]
          /\ pc' = [pc EXCEPT ![curr] = "notif"]
      BY Zenon, <2>3 DEF Call
    <3> QED BY Zenon, <2>1, <2>2, <3>2, <3>3, <1>CurrFacts, <1>QuietStep
  <2>4. CASE ~(cap[c] < fault[s])
    <3>1. stk' = [stk EXCEPT ![curr] = k] /\ pc' = [pc EXCEPT ![curr] = "run"]
      BY Zenon, <2>1, <2>4 DEF Call, FaultInv, Types
    <3>2. Frame(s).spd = s /\ Frame(s).cnt = fault[s]
      BY Zenon, <2>1, <1>CurrFacts, NewFrame
    <3>3. KnownOK(Last(stk[curr]), Frame(s), World)
      <4>1. fault[s] \in Nat /\ known[c] \in Nat /\ known[c] = cap[c]
        BY <2>1 DEF FaultInv, Types
      <4>2. fault[s] <= known[c]
        BY <2>4, <4>1
      <4>3. <<Last(stk[curr]).spd, Frame(s).spd>> = c
        BY Zenon, <2>1, <3>2, <1>CurrFacts
      <4> QED BY Zenon, <3>2, <4>2, <4>3 DEF KnownOK, World
    <3>4. StackOK(curr, k, "run", World)
      BY Zenon, <2>1, <3>3, <1>CurrFacts, <1>InvokeOK
    <3>5. ~Lags(Last(k))
      <4>1. k[Len(k)] = Frame(s)
        BY Zenon, <2>1, <1>CurrFacts, InvokeShape DEF StackOK
      <4>2. fault[s] \in Nat
        BY DEF FaultInv, Types
      <4> QED BY <3>2, <4>1, <4>2 DEF Lags, Last
    <3> QED BY Zenon, <2>1, <2>2, <3>1, <3>4, <3>5, <1>CurrFacts, <1>QuietStep
  <2> QED BY <2>3, <2>4
<1>ReturnStep.
  ASSUME FaultInv, Return PROVE FaultInv'
  <2> USE <1>ReturnStep
  <2>1. /\ pc[curr] = "run" /\ Len(stk[curr]) > 1
        /\ Resume(curr, Pop(stk[curr]))
        /\ UNCHANGED <<curr, failed, fault, cap, known, inc, prev_thd, active,
                       interrupted, recover_spd>>
    BY ZenonT(30) DEF Return, Running, counters, slots
  <2>2. StackOK(curr, Pop(stk[curr]), "run", World)
    BY Zenon, <2>1, <1>CurrFacts, <1>PopOK
  <2>3. PICK e, p : /\ stk' = [stk EXCEPT ![curr] = e]
                    /\ pc' = [pc EXCEPT ![curr] = p]
                    /\ p \in {"run", "notif"}
                    /\ StackOK(curr, e, p, World)
                    /\ p = "run" => ~Lags(Last(e))
    BY Zenon, <2>1, <2>2, <1>CurrFacts, <1>ResumeOK
  <2>4. recover_spd' \in Services \cup {None}
    BY <2>1 DEF FaultInv, Types
  <2> QED BY Zenon, <2>1, <2>3, <2>4, <1>CurrFacts, <1>QuietStep
<1>HandlerReturnStep.
  ASSUME FaultInv, HandlerReturn PROVE FaultInv'
  <2> USE <1>HandlerReturnStep
  <2>1. /\ pc[curr] = "return"
        /\ Resume(curr, Pop(stk[curr]))
        /\ failed' = [failed EXCEPT ![curr] = <<None, 0>>]
        /\ UNCHANGED <<curr, fault, cap, known, inc, prev_thd, active,
                       interrupted, recover_spd>>
    BY Zenon DEF HandlerReturn, Running, counters, slots
  <2>2. curr \in Thds /\ pc \in [Thds -> Labels]
    BY DEF FaultInv, Types
  <2>3. Len(stk[curr]) > 1
    <3>1. StackOK(curr, stk[curr], "return", World)
      BY Zenon, <2>1, WorldNow
    <3>2. curr # Recoverer
      BY <2>1 DEF FaultInv, Places
    <3>3. stk[curr] \in Seq(AnyFrame) /\ stk[curr] # <<>>
      BY ZenonT(30), <3>1 DEF StackOK
    <3>4. stk[curr][1].spd = HomeOf(curr) /\ stk[curr][Len(stk[curr])].spd = Booter
      BY Zenon, <3>1, <3>2 DEF StackOK, InHandler, Last
    <3>5. HomeOf(curr) # Booter
      BY <2>2, <3>2, FaultNotifAssumption DEF HomeOf, Thds
    <3> DEFINE n == Len(stk[curr])
    <3>6. n # 1 /\ n \in Nat \ {0}
      BY <3>3, <3>4, <3>5
    <3> HIDE DEF n
    <3>7. n > 1
      BY <3>6
    <3> QED BY Zenon, <3>7 DEF n
  <2>4. StackOK(curr, Pop(stk[curr]), "run", World)
    BY Zenon, <2>1, <2>3, WorldNow, <1>PopOK
  <2>5. PICK e, p : /\ stk' = [stk EXCEPT ![curr] = e]
                    /\ pc' = [pc EXCEPT ![curr] = p]
                    /\ p \in {"run", "notif"}
                    /\ StackOK(curr, e, p, World)
                    /\ p = "run" => ~Lags(Last(e))
    BY <2>1, <2>2, <2>4, <1>ResumeOK
  <2>6. Later(World, World')
    <3>1. \A t \in Thds :
            pc[t] = "trigger" => pc'[t] = "trigger" /\ failed'[t] = failed[t]
      BY <2>1, <2>2, <2>5
    <3> QED BY Zenon, <2>1, <3>1, <1>SameWorld, <1>SameKnown
  <2>7. /\ fault' \in [Comps -> Nat] /\ inc' \in [Comps -> Nat]
        /\ cap' \in [Calls -> Nat] /\ known' = cap'
        /\ recover_spd' \in Services \cup {None}
    BY Zenon, <2>1 DEF FaultInv, Types
  <2>8. /\ failed' \in [Thds -> (Services \cup {None}) \X Nat]
        /\ \A t \in Thds \ {curr} : failed'[t] = failed[t]
    BY Zenon, <2>1, <2>2 DEF FaultInv, Types
  <2>9. Counted'
    BY Zenon, <2>1 DEF FaultInv, Counted
  <2>10. prev_thd' = prev_thd /\ prev_thd # curr /\ curr # Recoverer
    BY Zenon, <2>1, <2>2, FaultNotifAssumption DEF FaultInv, Places, Looping
  <2>11. p \in Labels /\ p \notin {"reboot", "trigger", "return", "done", "init"} \cup Loops
    BY Zenon, <2>5 DEF Labels, InHandler, Loops, Looping
  <2>12. p = "run" => ~(Last(e).cnt < fault'[Last(e).spd])
    BY Zenon, <2>1, <2>5 DEF Lags
  <2>13. pc[curr] \notin Loops /\ fault' = fault /\ p \notin Looping
    BY ZenonT(30), <2>1, <2>11 DEF Loops, Looping
  <2> QED BY Zenon, <2>1, <2>5, <2>6, <2>7, <2>8, <2>9, <2>10, <2>11, <2>12, <2>13, <1>OwnStep
<1>FaultUpdateStep.
  ASSUME FaultInv, FaultUpdate PROVE FaultInv'
  <2> USE <1>FaultUpdateStep
  <2> DEFINE c == <<Top(curr).spd, Top(curr).stub>>
             e == [stk[curr] EXCEPT ![Len(stk[curr])].stub = None]
             z == fault[Top(curr).stub]
  <2>1. /\ pc[curr] = "run" /\ Top(curr).stub # None
        /\ UNCHANGED <<curr, failed, fault, inc, prev_thd, active, interrupted,
                       recover_spd, pc>>
    BY DEF FaultUpdate, Running, slots
  <2>2. stk' = [stk EXCEPT ![curr] = e] /\ pc' = [pc EXCEPT ![curr] = "run"]
    BY <2>1 DEF FaultUpdate, FaultInv, Types
  <2>3. cap' = [cap EXCEPT ![c] = z] /\ known' = [known EXCEPT ![c] = z]
    BY DEF FaultUpdate
  <2>4. Top(curr).stub \in Comps /\ z \in Nat
    BY Zenon, <2>1, <1>CurrFacts DEF AnyFrame, FaultInv, Types
  <2>5. /\ cap \in [Calls -> Nat] /\ known = cap
        /\ \A k \in Calls : cap[k] <= fault[k[2]] /\ cap[k] \in Nat
    BY DEF FaultInv, Types, Counted
  <2>6. cap' \in [Calls -> Nat] /\ known' = cap'
    <3> HIDE DEF c, z
    <3> QED BY Zenon, <2>3, <2>4, <2>5
  <2>7. \A k \in Calls : cap'[k] = IF k = c THEN z ELSE cap[k]
    <3> HIDE DEF c, z
    <3> QED BY Zenon, <2>3, <2>5
  <2>8. \A k \in Calls : cap'[k] <= fault[k[2]]
    <3> SUFFICES ASSUME NEW k \in Calls PROVE cap'[k] <= fault[k[2]]
      OBVIOUS
    <3>1. CASE k = c
      <4>1. k[2] = Top(curr).stub
        BY <3>1
      <4>2. cap'[k] = z /\ fault[k[2]] = z
        BY Zenon, <2>7, <3>1, <4>1
      <4>3. z <= z
        BY <2>4
      <4> QED BY Zenon, <4>2, <4>3
    <3>2. CASE k # c
      BY Zenon, <2>5, <2>7, <3>2
    <3> QED BY Zenon, <3>1, <3>2
  <2>9. \A k \in Calls : known[k] <= known'[k]
    <3> SUFFICES ASSUME NEW k \in Calls PROVE known[k] <= known'[k]
      OBVIOUS
    <3>1. CASE k = c
      <4>1. k[2] = Top(curr).stub
        BY <3>1
      <4>2. cap[k] <= z /\ cap'[k] = z
        BY <2>5, <2>7, <3>1, <4>1
      <4> QED BY <2>5, <2>6, <4>2
    <3>2. CASE k # c
      BY <2>5, <2>6, <2>7, <3>2
    <3> QED BY <3>1, <3>2
  <2>10. Later(World, World')
    <3>1. \A t \in Thds :
            pc[t] = "trigger" => pc'[t] = "trigger" /\ failed'[t] = failed[t]
      BY Zenon, <2>1
    <3> QED BY Zenon, <2>1, <2>9, <3>1, <1>SameWorld
  <2>11. /\ StackOK(curr, e, "run", World)
         /\ Len(e) = Len(stk[curr])
         /\ Last(e).spd = Last(stk[curr]).spd
         /\ Last(e).cnt = Last(stk[curr]).cnt
    BY Zenon, <2>1, <1>CurrFacts, <1>StubOK
  <2> HIDE DEF e
  <2>12. (curr # Recoverer \/ Len(e) > 1) => ~(Last(e).cnt < fault'[Last(e).spd])
    BY Zenon, <2>1, <2>11, <1>CurrFacts DEF Lags
  <2>13. Counted'
    BY Zenon, <2>1, <2>8 DEF FaultInv, Counted
  <2>14. /\ fault' \in [Comps -> Nat] /\ inc' \in [Comps -> Nat]
         /\ failed' \in [Thds -> (Services \cup {None}) \X Nat]
         /\ \A t \in Thds \ {curr} : failed'[t] = failed[t]
         /\ recover_spd' \in Services \cup {None}
    BY <2>1 DEF FaultInv, Types
  <2>15. prev_thd' = prev_thd /\ prev_thd # curr
    BY Zenon, <2>1, <1>CurrFacts, FaultNotifAssumption DEF FaultInv, Places, Looping, Thds
  <2>16. /\ "run" \in Labels
         /\ "run" \notin {"reboot", "trigger", "return", "done", "init"} \cup Loops
         /\ "run" \notin Looping /\ pc[curr] \notin Loops
    BY <2>1 DEF Labels, Loops, Looping
  <2> QED BY Zenon, <2>1, <2>2, <2>6, <2>10, <2>11, <2>12, <2>13, <2>14, <2>15, <2>16,
             <1>OwnStep
<1>FaultStep.
  ASSUME FaultInv, Fault PROVE FaultInv'
  <2> USE <1>FaultStep
  <2> DEFINE s == Top(curr).spd
             k == Invoke(stk[curr], Booter)
  <2>1. /\ pc[curr] = "run" /\ curr # Recoverer /\ s \in Services
        /\ stk' = [stk EXCEPT ![curr] = k]
        /\ pc' = [pc EXCEPT ![curr] = "reboot"]
        /\ failed' = [failed EXCEPT ![curr] = <<s, 0>>]
        /\ UNCHANGED <<curr, fault, cap, known, inc, prev_thd, active,
                       interrupted, recover_spd>>
    BY Zenon DEF Fault, Running, counters, slots, FaultInv, Types
  <2>2. StackOK(curr, k, "reboot", World)
    <3>1. Booter \in Comps /\ "reboot" \in InHandler
      BY DEF Comps, InHandler
    <3>2. KnownOK(Last(stk[curr]), Frame(Booter), World)
      BY Zenon, <2>1, <3>1, <1>CurrFacts, NewFrame, FaultNotifAssumption DEF KnownOK
    <3> QED BY <2>1, <3>1, <3>2, <1>CurrFacts, <1>InvokeOK
  <2>3. Later(World, World')
    <3>1. \A t \in Thds :
            pc[t] = "trigger" => pc'[t] = "trigger" /\ failed'[t] = failed[t]
      BY Zenon, <2>1 DEF FaultInv, Types
    <3> QED BY <2>1, <3>1, <1>SameWorld, <1>SameKnown
  <2>4. /\ fault' \in [Comps -> Nat] /\ inc' \in [Comps -> Nat]
        /\ cap' \in [Calls -> Nat] /\ known' = cap'
        /\ recover_spd' \in Services \cup {None}
    BY <2>1 DEF FaultInv, Types
  <2>5. /\ failed' \in [Thds -> (Services \cup {None}) \X Nat]
        /\ \A t \in Thds \ {curr} : failed'[t] = failed[t]
        /\ failed'[curr][1] \in Services
    <3> HIDE DEF s
    <3>1. <<s, 0>> \in (Services \cup {None}) \X Nat
      BY Zenon, <2>1
    <3> QED BY <2>1, <3>1 DEF FaultInv, Types
  <2>6. Counted'
    BY Zenon, <2>1 DEF FaultInv, Counted
  <2>7. prev_thd' = prev_thd /\ prev_thd # curr
    BY Zenon, <2>1, <1>CurrFacts, FaultNotifAssumption DEF FaultInv, Places, Looping, Thds
  <2>8. /\ "reboot" \in Labels
        /\ "reboot" \notin {"run", "done", "init"} \cup Looping
        /\ pc[curr] \notin Loops
    BY <2>1 DEF Labels, InHandler, Loops, Looping
  <2> HIDE DEF k
  <2> QED BY Zenon, <2>1, <2>2, <2>3, <2>4, <2>5, <2>6, <2>7, <2>8, <1>OwnStep
<1>RebootStep.
  ASSUME FaultInv, Reboot PROVE FaultInv'
  <2> USE <1>RebootStep
  <2> DEFINE s == failed[curr][1]
             z == inc[s] + 1
  <2>1. /\ pc[curr] = "reboot"
        /\ inc' = [inc EXCEPT ![s] = z]
        /\ pc' = [pc EXCEPT ![curr] = "trigger"]
        /\ UNCHANGED <<curr, stk, failed, fault, cap, known, prev_thd, active,
                       interrupted, recover_spd>>
    BY Zenon DEF Reboot, Running, slots
  <2>2. curr \in Thds /\ curr # Recoverer /\ s \in Services
    BY <2>1 DEF FaultInv, Types, Places
  <2>3. stk' = [stk EXCEPT ![curr] = stk[curr]]
    BY <2>1, <2>2 DEF FaultInv, Types
  <2>4. StackOK(curr, stk[curr], "trigger", World)
    <3>1. StackOK(curr, stk[curr], "reboot", World)
      BY Zenon, <2>1, WorldNow
    <3>2. "reboot" \in InHandler /\ "trigger" # "complete"
      BY DEF InHandler
    <3> HIDE DEF World
    <3> QED BY Zenon, <3>1, <3>2 DEF StackOK, Refreshed
  <2>5. /\ inc' \in [Comps -> Nat]
        /\ \A d \in Comps \ {s} : inc'[d] = inc[d]
    <3>1. inc \in [Comps -> Nat] /\ s \in Comps
      BY <2>2 DEF FaultInv, Types, Comps
    <3>2. z \in Nat
      <4>1. inc[s] \in Nat
        BY Zenon, <3>1
      <4> HIDE DEF s
      <4> QED BY <4>1
    <3> HIDE DEF s, z
    <3> QED BY <2>1, <3>1, <3>2
  <2>6. Later(World, World')
    <3>1. pc'[curr] = "trigger" /\ failed'[curr][1] = s
      BY <2>1, <2>2 DEF FaultInv, Types
    <3>2. s \in Pending'
      BY Zenon, <2>2, <3>1 DEF Pending
    <3>3. Pending \subseteq Pending'
      BY <2>1, <3>1 DEF Pending, FaultInv, Types
    <3>4. World'.pend = Pending' /\ World.pend = Pending
      BY Zenon DEF World
    <3>5. World'.fault = World.fault /\ \A d \in Services \ {s} : World'.inc[d] = World.inc[d]
      BY Zenon, <2>1, <2>5 DEF World, Comps
    <3>6. \A k \in Calls : World.known[k] <= World'.known[k]
      BY Zenon, <2>1, <1>SameKnown DEF World
    <3> HIDE DEF World, s
    <3> QED BY <3>2, <3>3, <3>4, <3>5, <3>6 DEF Later
  <2>7. Counted'
    BY Zenon, <2>1, <2>2, <2>5 DEF FaultInv, Counted
  <2>8. /\ fault' \in [Comps -> Nat]
        /\ cap' \in [Calls -> Nat] /\ known' = cap'
        /\ failed' \in [Thds -> (Services \cup {None}) \X Nat]
        /\ \A t \in Thds \ {curr} : failed'[t] = failed[t]
        /\ failed'[curr][1] \in Services
        /\ recover_spd' \in Services \cup {None}
    BY Zenon, <2>1, <2>2 DEF FaultInv, Types
  <2>9. prev_thd' = prev_thd /\ prev_thd # curr
    BY <2>1, <2>2, FaultNotifAssumption DEF FaultInv, Places, Looping
  <2>10. /\ "trigger" \in Labels
         /\ "trigger" \notin {"run", "done", "init"} \cup Looping
         /\ pc[curr] \notin Loops /\ fault' = fault
    BY Zenon, <2>1 DEF Labels, InHandler, Loops, Looping
  <2> QED BY Zenon, <2>1, <2>2, <2>3, <2>4, <2>5, <2>6, <2>7, <2>8, <2>9, <2>10, <1>OwnStep
<1>TriggerStep.
  ASSUME FaultInv, Trigger PROVE FaultInv'
  <2> USE <1>TriggerStep
  <2> DEFINE s == failed[curr][1]
             z == fault[s] + 1
             k == Remove(stk[curr])
  <2>1. /\ pc[curr] = "trigger" /\ CanRemove(stk[curr])
        /\ stk' = [stk EXCEPT ![curr] = k]
        /\ fault' = [fault EXCEPT ![s] = z]
        /\ failed' = [failed EXCEPT ![curr] = <<s, z>>]
        /\ pc' = [pc EXCEPT ![curr] = "slot"]
        /\ UNCHANGED <<curr, inc, cap, known, prev_thd, active, interrupted,
                       recover_spd>>
    BY Zenon DEF Trigger, Running, slots, FaultInv, Types
  <2>2. curr \in Thds /\ curr # Recoverer /\ s \in Services /\ s \in Comps
    BY Zenon, <2>1 DEF FaultInv, Types, Places, Comps
  <2>3. StackOK(curr, k, "slot", World)
    <3>1. StackOK(curr, stk[curr], "trigger", World)
      BY Zenon, <2>1, WorldNow
    <3>2. Last(stk[curr]).spd = Booter /\ "slot" \in InHandler \ {"notif"}
      BY Zenon, <3>1 DEF StackOK, InHandler
    <3> QED BY <2>1, <3>1, <3>2, <1>RemoveOK
  <2>4. /\ fault \in [Comps -> Nat] /\ fault' \in [Comps -> Nat]
        /\ fault'[s] > fault[s]
        /\ \A d \in Comps \ {s} : fault'[d] = fault[d]
    <3>1. fault \in [Comps -> Nat]
      BY <2>2 DEF FaultInv, Types
    <3>2. z \in Nat /\ z > fault[s]
      BY <2>2, <3>1
    <3> HIDE DEF s, z
    <3> QED BY <2>1, <2>2, <3>1, <3>2
  <2>5. /\ failed' \in [Thds -> (Services \cup {None}) \X Nat]
        /\ \A t \in Thds \ {curr} : failed'[t] = failed[t]
        /\ failed'[curr][1] \in Services
    <3>1. <<s, z>> \in (Services \cup {None}) \X Nat
      BY <2>2, <2>4
    <3> HIDE DEF s, z
    <3> QED BY Zenon, <2>1, <2>2, <3>1 DEF FaultInv, Types
  <2>6. Later(World, World')
    <3>1. \A d \in Pending : d = s \/ d \in Pending'
      <4> SUFFICES ASSUME NEW t \in Thds, pc[t] = "trigger", failed[t][1] # s
                   PROVE  failed[t][1] \in Pending'
        BY DEF Pending
      <4>1. t # curr
        BY Zenon
      <4>2. pc'[t] = "trigger" /\ failed'[t] = failed[t]
        BY <2>1, <2>5, <4>1 DEF FaultInv, Types
      <4> QED BY <4>2 DEF Pending
    <3>2. World'.pend = Pending' /\ World.pend = Pending /\ World'.inc = World.inc
      BY <2>1 DEF World
    <3>3. /\ World'.fault[s] > World.fault[s]
          /\ \A d \in Services \ {s} : World'.fault[d] = World.fault[d]
      BY Zenon, <2>4 DEF World, Comps
    <3>4. \A c \in Calls : World.known[c] <= World'.known[c]
      BY <2>1, <1>SameKnown DEF World
    <3> HIDE DEF World, s
    <3> QED BY <3>1, <3>2, <3>3, <3>4 DEF Later
  <2>7. Counted'
    <3>1. \A d \in Comps \ Services : fault'[d] = 0 /\ inc'[d] = 0
      BY Zenon, <2>1, <2>2, <2>4 DEF FaultInv, Counted
    <3>2. ASSUME NEW c \in Calls PROVE cap'[c] <= fault'[c[2]]
      <4>1. cap[c] <= fault[c[2]] /\ cap[c] \in Nat /\ c[2] \in Comps
        BY FaultNotifAssumption DEF FaultInv, Types, Counted
      <4>2. fault[c[2]] <= fault'[c[2]]
        BY <2>4, <4>1
      <4> QED BY <2>1, <2>4, <4>1, <4>2
    <3> QED BY Zenon, <3>1, <3>2 DEF Counted
  <2>8. /\ inc' \in [Comps -> Nat]
        /\ cap' \in [Calls -> Nat] /\ known' = cap'
        /\ recover_spd' \in Services \cup {None}
    BY Zenon, <2>1 DEF FaultInv, Types
  <2>9. prev_thd' = prev_thd /\ prev_thd # curr
    BY <2>1, <2>2, FaultNotifAssumption DEF FaultInv, Places, Looping
  <2>10. /\ "slot" \in Labels /\ "slot" \in Loops
         /\ "slot" \notin {"run", "done", "init"} \cup Looping
    BY DEF Labels, InHandler, Loops, Looping
  <2> HIDE DEF k, s, z
  <2> QED BY Zenon, <2>1, <2>2, <2>3, <2>4, <2>5, <2>6, <2>7, <2>8, <2>9, <2>10, <1>OwnStep
\* The handler's steps through recovery_upcall.
<1>LoopStep.
  ASSUME FaultInv, NEW p \in Loops \cup {"return"},
         pc[curr] \in Loops,
         pc' = [pc EXCEPT ![curr] = p],
         UNCHANGED <<curr, stk, failed, fault, cap, known, inc, active,
                     interrupted>>,
         recover_spd' \in Services \cup {None},
         \/ prev_thd' = curr /\ p \in Looping
         \/ prev_thd' = prev_thd /\ (prev_thd = curr => p \in Looping),
         (\E u \in Upcalls : interrupted[u] # None) =>
           p \in Loops /\ (p \in Looping => prev_thd' = curr)
  PROVE  FaultInv'
  <2> USE <1>LoopStep
  <2>1. curr \in Thds /\ curr # Recoverer /\ failed[curr][1] \in Services
    BY Zenon DEF FaultInv, Types, Places, Loops, Looping
  <2>2. stk' = [stk EXCEPT ![curr] = stk[curr]]
    BY <2>1 DEF FaultInv, Types
  <2>3. StackOK(curr, stk[curr], p, World)
    <3>1. pc[curr] \in InHandler /\ pc[curr] # "notif"
      BY DEF Loops, Looping, InHandler
    <3>2. p \notin {"notif", "complete"}
      BY Zenon DEF Loops, Looping
    <3>3. StackOK(curr, stk[curr], pc[curr], World)
      BY Zenon, WorldNow
    <3> HIDE DEF World
    <3> QED BY Zenon, <3>1, <3>2, <3>3 DEF StackOK, Refreshed
  <2>4. Later(World, World')
    <3>1. pc[curr] # "trigger"
      BY Zenon DEF Loops, Looping
    <3>2. \A t \in Thds :
            pc[t] = "trigger" => pc'[t] = "trigger" /\ failed'[t] = failed[t]
      BY Zenon, <3>1 DEF FaultInv, Types
    <3> QED BY Zenon, <3>2, <1>SameWorld, <1>SameKnown
  <2>5. /\ fault' \in [Comps -> Nat] /\ inc' \in [Comps -> Nat]
        /\ cap' \in [Calls -> Nat] /\ known' = cap'
        /\ failed' \in [Thds -> (Services \cup {None}) \X Nat]
        /\ \A t \in Thds \ {curr} : failed'[t] = failed[t]
        /\ failed'[curr][1] \in Services
    BY <2>1 DEF FaultInv, Types
  <2>6. Counted'
    BY Zenon DEF FaultInv, Counted
  <2>7. p \in Labels /\ p \notin {"run", "done", "init"}
    BY DEF Loops, Looping, Labels, InHandler
  <2> QED BY Zenon, <2>1, <2>2, <2>3, <2>4, <2>5, <2>6, <2>7, <1>OwnStep
<1>SetPrevThdStep.
  ASSUME FaultInv, SetPrevThd PROVE FaultInv'
  <2> USE <1>SetPrevThdStep
  <2>1. /\ pc[curr] = "slot" /\ prev_thd' = curr
        /\ pc' = [pc EXCEPT ![curr] = "spd"]
        /\ UNCHANGED <<curr, stk, failed, fault, cap, known, inc, active,
                       interrupted, recover_spd>>
    BY DEF SetPrevThd, Running, counters
  <2>2. "slot" \in Loops /\ "spd" \in Loops /\ "spd" \in Looping
    BY DEF Loops, Looping
  <2>3. recover_spd' \in Services \cup {None}
    BY Zenon, <2>1 DEF FaultInv, Types
  <2> QED BY Zenon, <2>1, <2>2, <2>3, <1>LoopStep
\* The thread that an upcall thread interrupted waits until it has looped.
<1>LinkedLoop.
  ASSUME FaultInv, pc[curr] \in Looping, NEW u \in Upcalls, interrupted[u] # None
  PROVE  prev_thd = curr
  BY <1>LinkedLoop DEF FaultInv, Chain
<1>SetRecoverSpdStep.
  ASSUME FaultInv, SetRecoverSpd PROVE FaultInv'
  <2> USE <1>SetRecoverSpdStep
  <2>1. /\ pc[curr] = "spd" /\ prev_thd' = prev_thd
        /\ recover_spd' = failed[curr][1]
        /\ pc' = [pc EXCEPT ![curr] = "loop"]
        /\ UNCHANGED <<curr, stk, failed, fault, cap, known, inc, active,
                       interrupted>>
    BY Zenon DEF SetRecoverSpd, Running, counters
  <2>2. "spd" \in Loops /\ "loop" \in Loops /\ "loop" \in Looping /\ "spd" \in Looping
    BY Zenon DEF Loops, Looping
  <2>3. recover_spd' \in Services \cup {None}
    BY <2>1, <2>2 DEF FaultInv, Types, Places
  <2>4. (\E u \in Upcalls : interrupted[u] # None) => prev_thd' = curr
    BY Zenon, <2>1, <2>2, <1>LinkedLoop
  <2> QED BY Zenon, <2>1, <2>2, <2>3, <2>4, <1>LoopStep
<1>LoopTestStep.
  ASSUME FaultInv, LoopTest PROVE FaultInv'
  <2> USE <1>LoopTestStep
  <2> DEFINE p == IF prev_thd = curr THEN "switch" ELSE "return"
  <2>1. /\ pc[curr] = "loop" /\ prev_thd' = prev_thd
        /\ pc' = [pc EXCEPT ![curr] = p]
        /\ UNCHANGED <<curr, stk, failed, fault, cap, known, inc, active,
                       interrupted, recover_spd>>
    BY DEF LoopTest, Running, counters, slots
  <2>2. "switch" \in Loops /\ "loop" \in Loops /\ "loop" \in Looping /\ "switch" \in Looping
    BY DEF Loops, Looping
  <2>3. recover_spd' \in Services \cup {None}
    BY <2>1 DEF FaultInv, Types
  <2>4. (\E u \in Upcalls : interrupted[u] # None) => prev_thd' = curr /\ p = "switch"
    BY <2>1, <2>2, <1>LinkedLoop
  <2>5. p \in Loops \cup {"return"} /\ (prev_thd = curr => p \in Looping)
    BY <2>2
  <2> HIDE DEF p
  <2> QED BY Zenon, <2>1, <2>2, <2>3, <2>4, <2>5, <1>LoopStep
<1>LoopSwitchStep.
  ASSUME FaultInv, LoopSwitch PROVE FaultInv'
  <2> USE <1>LoopSwitchStep
  <2>1. /\ pc[curr] = "switch" /\ SwitchTo(Recoverer, "loop")
        /\ UNCHANGED <<failed, fault, inc, cap, known, recover_spd, prev_thd,
                       active>>
    BY Zenon DEF LoopSwitch, Running, counters, slots
  <2>2. Recoverer \in Thds \ {curr} /\ Recoverer \notin Upcalls
    BY Zenon, <2>1, FaultNotifAssumption DEF FaultInv, Places, Thds
  <2>3. failed[curr][1] \in Services /\ curr \in Thds
    BY <2>1 DEF FaultInv, Types, Places, Looping
  <2>4. StackOK(curr, stk[curr], "loop", World)
    <3>1. StackOK(curr, stk[curr], "switch", World)
      BY Zenon, <2>1, WorldNow
    <3>2. "switch" \in InHandler
      BY DEF InHandler
    <3> HIDE DEF World
    <3> QED BY Zenon, <3>1, <3>2 DEF StackOK, Refreshed
  <2>5. "loop" \in Looping
    BY DEF Looping
  <2> QED BY Zenon, <2>1, <2>2, <2>3, <2>4, <2>5, <1>SwitchStep
<1>RecoverSwitchStep.
  ASSUME FaultInv, RecoverSwitch, prev_thd \notin {None, Recoverer}
  PROVE  FaultInv'
  <2> USE <1>RecoverSwitchStep
  <2>1. /\ pc[curr] = "done" /\ prev_thd' = None /\ SwitchTo(prev_thd, "done")
        /\ UNCHANGED <<failed, fault, inc, cap, known, recover_spd, active>>
    BY DEF RecoverSwitch, Running, counters
  <2>2. curr = Recoverer /\ prev_thd \in Thds \ {curr}
    BY Zenon, <2>1 DEF FaultInv, Types, Places
  <2>3. prev_thd \in Upcalls => prev_thd \in active
    BY Zenon DEF FaultInv, Places, Runs, Looping
  <2>4. StackOK(curr, stk[curr], "done", World)
    BY Zenon, <2>1, WorldNow
  <2> QED BY Zenon, <2>1, <2>2, <2>3, <2>4, <1>SwitchStep
<1>RescheduleStep.
  ASSUME FaultInv, NEW n \in Thds, Reschedule(n) PROVE FaultInv'
  <2> USE <1>RescheduleStep
  <2>1. /\ pc[curr] \in {"run", "complete"} /\ Top(curr).spd = Sched
        /\ n # curr /\ n \in Threads \cup active
        /\ SwitchTo(n, "run")
        /\ active' \subseteq active /\ active \ active' \subseteq {curr}
        /\ UNCHANGED <<failed, fault, inc, cap, known, recover_spd, prev_thd>>
    BY DEF Reschedule, counters, slots
  <2>2. StackOK(curr, stk[curr], "run", World)
    <3>1. StackOK(curr, stk[curr], pc[curr], World)
      BY Zenon, WorldNow
    <3>2. "run" \notin InHandler
      BY Zenon DEF InHandler
    <3> HIDE DEF World
    <3> QED BY Zenon, <2>1, <3>1, <3>2 DEF StackOK, Refreshed
  <2>3. n \in Upcalls => n \in active'
    BY Zenon, <2>1, FaultNotifAssumption
  <2>4. prev_thd # curr
    <3>1. curr \in Thds
      BY DEF FaultInv, Types
    <3> QED BY Zenon, <2>1, <3>1, FaultNotifAssumption DEF FaultInv, Places, Looping
  <2>5. Sched \notin Services
    BY FaultNotifAssumption
  <2> QED BY Zenon, <2>1, <2>2, <2>3, <2>4, <2>5, <1>SwitchStep
<1>NotifiedStep.
  ASSUME FaultInv, Notified PROVE FaultInv'
  <2> USE <1>NotifiedStep
  <2>1. /\ pc[curr] = "notif"
        /\ UNCHANGED <<curr, failed, fault, cap, known, inc, prev_thd, active,
                       interrupted, recover_spd>>
    BY ZenonT(30) DEF Notified, Running, counters, slots
  <2>2. /\ curr \in Thds /\ StackOK(curr, stk[curr], "notif", World)
        /\ pc[curr] \notin Loops \cup {"trigger"}
    BY Zenon, <2>1, WorldNow DEF Loops, Looping
  <2>3. recover_spd' \in Services \cup {None}
    BY <2>1 DEF FaultInv, Types
  <2>4. CASE CanRemove(stk[curr])
    <3>1. Last(stk[curr]).spd = Booter
      BY Zenon, <2>2 DEF StackOK, InHandler
    <3> DEFINE r == Remove(stk[curr])
    <3>2. StackOK(curr, r, "slot", World) /\ Len(r) > 1
      <4>1. "slot" \in InHandler \ {"notif"}
        BY DEF InHandler
      <4> QED BY Zenon, <2>2, <2>4, <3>1, <4>1, <1>RemoveOK
    <3>3. Resume(curr, Pop(r))
      BY <2>4 DEF Notified
    <3> HIDE DEF r
    <3>4. StackOK(curr, Pop(r), "run", World)
      BY Zenon, <3>2, <1>PopOK
    <3>5. PICK e, p : /\ stk' = [stk EXCEPT ![curr] = e]
                      /\ pc' = [pc EXCEPT ![curr] = p]
                      /\ p \in {"run", "notif"}
                      /\ StackOK(curr, e, p, World)
                      /\ p = "run" => ~Lags(Last(e))
      BY Zenon, <2>2, <3>3, <3>4, <1>ResumeOK
    <3> QED BY Zenon, <2>1, <2>2, <2>3, <3>5, <1>QuietStep
  <2>5. CASE ~CanRemove(stk[curr])
    <3>1. stk' = [stk EXCEPT ![curr] = stk[curr]] /\ pc' = [pc EXCEPT ![curr] = "notif"]
      BY <2>1, <2>5 DEF Notified, FaultInv, Types
    <3> QED BY Zenon, <2>1, <2>2, <2>3, <3>1, <1>QuietStep
  <2> QED BY <2>4, <2>5
\* The recovery thread with its home frame alone, in component s.
<1>HomeFrameOK.
  ASSUME FaultInv, NEW s \in Comps, NEW z \in Nat,
         stk[Recoverer] \in Seq(AnyFrame), stk[Recoverer] # <<>>,
         NEW p \in {"init", "done"}, p = "done" => s = Booter
  PROVE  StackOK(Recoverer,
                 <<[stk[Recoverer][1] EXCEPT !.spd = s, !.inc = z]>>, p, World)
  <2> USE <1>HomeFrameOK
  <2> DEFINE f == [stk[Recoverer][1] EXCEPT !.spd = s, !.inc = z]
             k == <<f>>
  <2>1. stk[Recoverer][1] \in AnyFrame
    OBVIOUS
  <2>2. f \in AnyFrame /\ f.spd = s
    BY Zenon, <2>1 DEF AnyFrame
  <2> HIDE DEF f
  <2>3. k \in Seq(AnyFrame) /\ k # <<>> /\ Len(k) = 1 /\ k[1] = f
    BY <2>2
  <2>4. Last(k).spd = s
    BY <2>2, <2>3 DEF Last
  <2> HIDE DEF k
  <2>5. (\A i \in 1..Len(k) : i = 1) /\ (\A i \in 2..Len(k) : FALSE)
    BY <2>3
  <2>6. p # "complete" /\ (p \in InHandler => s = Booter)
    BY DEF InHandler
  <2>7. StackOK(Recoverer, k, p, World)
    BY Zenon, <2>3, <2>4, <2>5, <2>6 DEF StackOK
  <2> QED BY <2>7 DEF k, f
<1>RecoverUpcallStep.
  ASSUME FaultInv, RecoverUpcall PROVE FaultInv'
  <2> USE <1>RecoverUpcallStep
  <2>1. /\ pc[curr] = "done" /\ recover_spd # None /\ recover_spd' = None
        /\ stk' = [stk EXCEPT ![curr] =
             <<[stk[curr][1] EXCEPT !.spd = recover_spd,
                                    !.inc = inc[recover_spd]]>>]
        /\ pc' = [pc EXCEPT ![curr] = "init"]
        /\ UNCHANGED <<curr, failed, fault, cap, known, inc, prev_thd, active,
                       interrupted>>
    BY DEF RecoverUpcall, Running, counters, FaultInv, Types
  <2>2. /\ curr = Recoverer /\ recover_spd \in Comps
        /\ inc[recover_spd] \in Nat
        /\ pc[curr] \notin Loops \cup {"trigger"}
    BY <2>1 DEF FaultInv, Types, Places, Comps, Loops, Looping
  <2>3. stk[Recoverer] \in Seq(AnyFrame) /\ stk[Recoverer] # <<>>
    BY Zenon, <2>2, WorldNow DEF StackOK
  <2> DEFINE k == <<[stk[curr][1] EXCEPT !.spd = recover_spd,
                                        !.inc = inc[recover_spd]]>>
  <2>4. StackOK(curr, k, "init", World)
    BY Zenon, <2>2, <2>3, <1>HomeFrameOK
  <2>5. recover_spd' \in Services \cup {None}
    BY <2>1
  <2>6. stk' = [stk EXCEPT ![curr] = k] /\ ~(Len(k) > 1)
    BY <2>1
  <2> HIDE DEF k
  <2> QED BY Zenon, <2>1, <2>2, <2>4, <2>5, <2>6, <1>QuietStep
<1>RecoverDoneStep.
  ASSUME FaultInv, RecoverDone PROVE FaultInv'
  <2> USE <1>RecoverDoneStep
  <2>1. /\ pc[curr] = "run" /\ curr = Recoverer
        /\ stk' = [stk EXCEPT ![curr] =
             <<[stk[curr][1] EXCEPT !.spd = Booter, !.inc = 0]>>]
        /\ pc' = [pc EXCEPT ![curr] = "done"]
        /\ UNCHANGED <<curr, failed, fault, cap, known, inc, prev_thd, active,
                       interrupted, recover_spd>>
    BY DEF RecoverDone, Running, counters, slots, FaultInv, Types
  <2>2. stk[Recoverer] \in Seq(AnyFrame) /\ stk[Recoverer] # <<>>
    BY <2>1, WorldNow DEF StackOK
  <2>3. StackOK(curr, <<[stk[curr][1] EXCEPT !.spd = Booter, !.inc = 0]>>,
                "done", World)
    <3>1. Booter \in Comps /\ 0 \in Nat
      BY DEF Comps
    <3> QED BY Zenon, <2>1, <2>2, <3>1, <1>HomeFrameOK
  <2>4. recover_spd' \in Services \cup {None}
    BY <2>1 DEF FaultInv, Types
  <2> QED BY Zenon, <2>1, <2>3, <2>4, <1>CurrFacts, <1>QuietStep
<1>ReflectStep.
  ASSUME FaultInv, Reflect PROVE FaultInv'
  <2> USE <1>ReflectStep
  <2>1. /\ pc[curr] = "init"
        /\ pc' = [pc EXCEPT ![curr] = "run"]
        /\ UNCHANGED <<curr, stk, failed, fault, cap, known, inc, prev_thd,
                       active, interrupted, recover_spd>>
    BY Zenon DEF Reflect, Running, slots
  <2>2. /\ curr = Recoverer /\ pc[curr] \notin Loops \cup {"trigger"}
        /\ recover_spd' \in Services \cup {None}
        /\ stk' = [stk EXCEPT ![curr] = stk[curr]]
    BY <2>1 DEF FaultInv, Types, Places, Loops, Looping
  <2>3. Len(stk[curr]) > 1 => ~Lags(Last(stk[curr]))
    BY <2>1 DEF FaultInv, Runs, Current, Top
  <2>4. StackOK(curr, stk[curr], "run", World)
    <3>1. StackOK(curr, stk[curr], "init", World)
      BY Zenon, <2>1, WorldNow
    <3>2. "run" \notin InHandler
      BY DEF InHandler
    <3> HIDE DEF World
    <3> QED BY Zenon, <3>1, <3>2 DEF StackOK, Refreshed
  <2> QED BY Zenon, <2>1, <2>2, <2>3, <2>4, <1>QuietStep
<1>AppendShape.
  ASSUME NEW k \in Seq(AnyFrame), k # <<>>, NEW f \in AnyFrame
  PROVE  /\ Len(k) \in Nat \ {0}
         /\ Append(k, f) \in Seq(AnyFrame)
         /\ Append(k, f) # <<>>
         /\ Len(Append(k, f)) = Len(k) + 1
         /\ \A i \in 1..Len(k) : Append(k, f)[i] = k[i]
         /\ Append(k, f)[Len(k) + 1] = f
  BY <1>AppendShape
<1>WaitAppendOK.
  ASSUME FaultInv, NEW k, StackOK(curr, k, "run", World), curr # Recoverer
  PROVE  StackOK(curr, Append(k, Frame(Sched)), "complete", World)
  <2> USE <1>WaitAppendOK
  <2> DEFINE f == Frame(Sched)
             e == Append(k, f)
             n == Len(k)
  <2>1. k \in Seq(AnyFrame) /\ k # <<>> /\ WorldOK(World) /\ Sched \in Comps
    BY Zenon, WorldNow DEF StackOK, Comps
  <2>2. f \in AnyFrame /\ f.spd = Sched /\ f.cnt = 0 /\ FrameOK(f, World)
    <3>1. fault[Sched] = 0
      BY Zenon, <2>1, FaultNotifAssumption DEF FaultInv, Counted
    <3> QED BY ZenonT(30), <2>1, <3>1, NewFrame
  <2> HIDE DEF f
  <2>3. /\ n \in Nat \ {0}
        /\ e \in Seq(AnyFrame) /\ e # <<>> /\ Len(e) = n + 1
        /\ \A i \in 1..n : e[i] = k[i]
        /\ e[n + 1] = f
    BY Zenon, <2>1, <2>2, <1>AppendShape
  <2>4. /\ k[1].spd = HomeOf(curr)
        /\ \A i \in 1..n : FrameOK(k[i], World)
        /\ \A i \in 2..n : KnownOK(k[i - 1], k[i], World)
    BY DEF StackOK, Refreshed
  <2> HIDE DEF e, n
  <2>5. Last(e) = f
    BY Zenon, <2>3 DEF Last
  <2>6. ASSUME NEW i \in 1..Len(e) PROVE FrameOK(e[i], World)
    <3>1. i \in 1..n \/ i = n + 1
      BY <2>3
    <3> QED BY <2>2, <2>3, <2>4, <3>1
  <2>7. ASSUME NEW i \in 2..Len(e) PROVE KnownOK(e[i - 1], e[i], World)
    <3>1. CASE i = n + 1
      <4>1. \A c \in Calls : 0 <= World.known[c]
        <5>1. \A c \in Calls : known[c] \in Nat
          BY DEF FaultInv, Types
        <5> QED BY <5>1 DEF World
      <4>2. e[i].cnt = 0
        BY <2>2, <2>3, <3>1
      <4> HIDE DEF World
      <4> QED BY <4>1, <4>2 DEF KnownOK
    <3>2. CASE i \in 2..n
      <4>1. e[i] = k[i] /\ e[i - 1] = k[i - 1]
        BY <2>3, <3>2
      <4> QED BY Zenon, <2>4, <3>2, <4>1
    <3>3. i \in 2..n \/ i = n + 1
      BY <2>3
    <3> QED BY Zenon, <3>1, <3>2, <3>3
  <2>8. e[1] = k[1]
    BY <2>3
  <2>9. StackOK(curr, e, "complete", World)
    BY Zenon, <2>2, <2>3, <2>4, <2>5, <2>6, <2>7, <2>8 DEF StackOK, InHandler
  <2> QED BY <2>9 DEF e, f
\* A step to another thread without a test.
<1>MoveStep.
  ASSUME FaultInv, NEW n \in Thds \ {Recoverer}, curr' = n,
         UNCHANGED <<stk, pc, failed, fault, cap, known, inc, prev_thd,
                     recover_spd>>,
         pc[n] \in {"run", "init"} => ~Lags(Top(n)),
         active' \subseteq Upcalls, n \in Upcalls => n \in active',
         \A u \in Upcalls \ active' : pc[u] = "run" /\ Top(u).spd \notin Services,
         ~Preemptible
           => \A t \in Thds : pc[t] \in {"reboot", "trigger"} => t = n,
         interrupted' \in [Upcalls -> Thds \cup {None}], Chain'
  PROVE  FaultInv'
  <2> USE <1>MoveStep
  <2>1. Types' /\ Counted'
    BY Zenon DEF FaultInv, Types, Counted
  <2>2. Stacks'
    <3>1. World' = World
      BY Zenon DEF World, Pending
    <3> QED BY ZenonT(30), <3>1 DEF FaultInv, Stacks
  <2>3. Places'
    BY Zenon DEF FaultInv, Places
  <2>4. Runs'
    BY Zenon DEF Runs, Current, Top, Lags
  <2> QED BY Zenon, <2>1, <2>2, <2>3, <2>4 DEF FaultInv
\* An upcall thread that is not active waits in a component that never fails.
<1>InactiveFresh.
  ASSUME FaultInv, NEW u \in Upcalls \ active PROVE ~Lags(Top(u))
  <2> USE <1>InactiveFresh
  <2>1. u \in Thds /\ Top(u).spd \notin Services
    BY Zenon DEF FaultInv, Runs, Thds
  <2>2. fault[Top(u).spd] = 0 /\ Top(u).cnt \in Nat
    BY Zenon, <2>1, TopTyped DEF FaultInv, Counted
  <2> QED BY <2>2 DEF Lags
<1>InterruptStep.
  ASSUME OneUpcall, FaultInv, NEW u \in Upcalls, Interrupt(u) PROVE FaultInv'
  <2> USE <1>InterruptStep
  <2>1. /\ u \notin active /\ curr # Recoverer
        /\ Preemptible \/ Top(curr).spd # Booter
        /\ active' = active \cup {u}
        /\ interrupted' = [interrupted EXCEPT ![u] = curr]
        /\ curr' = u
        /\ UNCHANGED <<stk, pc, failed, fault, cap, known, inc, prev_thd,
                       recover_spd>>
    BY DEF Interrupt, CanInterrupt, InBooter, counters, slots
  <2>2. u \in Thds \ {Recoverer} /\ curr \in Thds /\ curr # u
    BY ZenonT(30), <2>1, FaultNotifAssumption DEF FaultInv, Types, Runs, Thds
  <2>3. pc[u] = "run" /\ ~Lags(Top(u))
    BY Zenon, <2>1, <1>InactiveFresh DEF FaultInv, Runs
  <2>4. ~Preemptible => \A t \in Thds : pc[t] \notin {"reboot", "trigger"}
    <3>1. StackOK(curr, stk[curr], pc[curr], World)
      BY WorldNow
    <3>2. pc[curr] \in {"reboot", "trigger"} => Top(curr).spd = Booter
      BY Zenon, <3>1 DEF StackOK, InHandler, Top
    <3> QED BY Zenon, <2>1, <3>2 DEF FaultInv, Places
  <2>5. Current(curr)
    BY Zenon, <2>1 DEF FaultInv, Runs
  <2>6. interrupted' \in [Upcalls -> Thds \cup {None}]
    BY <2>1, <2>2 DEF FaultInv, Types
  <2>7. Chain'
    <3> SUFFICES ASSUME NEW v \in Upcalls
                 PROVE  /\ curr' = v
                        /\ interrupted'[v] \notin {v, Recoverer}
                        /\ Current(interrupted[v])'
                        /\ pc'[v] \notin Looping
      BY Zenon DEF Chain
    <3>1. v = u
      BY Zenon DEF OneUpcall
    <3>2. interrupted'[u] = curr
      BY <2>1 DEF FaultInv, Types
    <3>3. Current(interrupted[u])'
      BY Zenon, <2>1, <2>5, <3>2 DEF Current, Lags, Top
    <3>4. pc'[u] \notin Looping
      BY Zenon, <2>1, <2>3 DEF Looping
    <3> QED BY Zenon, <2>1, <2>2, <3>1, <3>2, <3>3, <3>4
  <2>8. /\ active' \subseteq Upcalls /\ u \in active'
        /\ \A v \in Upcalls \ active' : pc[v] = "run" /\ Top(v).spd \notin Services
    BY <2>1 DEF FaultInv, Types, Runs
  <2> QED BY Zenon, <2>1, <2>2, <2>3, <2>4, <2>6, <2>7, <2>8, <1>MoveStep
<1>ActivateStep.
  ASSUME FaultInv, NEW u \in Upcalls, Activate(u) PROVE FaultInv'
  <2> USE <1>ActivateStep
  <2>1. /\ curr # Recoverer /\ curr' = curr
        /\ active' = active \cup {u}
        /\ interrupted' = IF curr \in active THEN Break(interrupted, curr)
                          ELSE interrupted
        /\ UNCHANGED <<stk, pc, failed, fault, cap, known, inc, prev_thd,
                       recover_spd>>
    BY DEF Activate, CanInterrupt, counters, slots
  <2>2. curr \in Thds /\ (curr \in Upcalls => curr \in active)
    BY DEF FaultInv, Types, Runs
  <2>3. \A v \in Upcalls : interrupted'[v] = None
    BY Zenon, <2>1, <2>2 DEF FaultInv, Chain, Break
  <2>4. interrupted' \in [Upcalls -> Thds \cup {None}] /\ Chain'
    <3>1. DOMAIN interrupted' = Upcalls /\ interrupted' = [v \in Upcalls |-> interrupted'[v]]
      BY Zenon, <2>1 DEF FaultInv, Types, Break
    <3> QED BY <2>3, <3>1 DEF Chain
  <2>5. pc[curr] \in {"run", "init"} => ~Lags(Top(curr))
    BY Zenon, <2>1 DEF FaultInv, Runs, Current
  <2>6. /\ active' \subseteq Upcalls
        /\ \A v \in Upcalls \ active' : pc[v] = "run" /\ Top(v).spd \notin Services
        /\ ~Preemptible
             => \A t \in Thds : pc[t] \in {"reboot", "trigger"} => t = curr
    BY <2>1 DEF FaultInv, Types, Runs, Places
  <2> QED BY Zenon, <2>1, <2>2, <2>4, <2>5, <2>6, <1>MoveStep
<1>UpcallWaitStep.
  ASSUME OneUpcall, FaultInv, UpcallWait PROVE FaultInv'
  <2> USE <1>UpcallWaitStep
  <2>1. /\ pc[curr] = "run" /\ curr \in Upcalls /\ Len(stk[curr]) = 1
        /\ UNCHANGED <<failed, fault, cap, known, inc, prev_thd, recover_spd>>
    BY Zenon DEF UpcallWait, Running, counters, slots
  <2>2. curr # Recoverer /\ curr \in Thds /\ curr \in active
    BY Zenon, <2>1, FaultNotifAssumption DEF FaultInv, Types, Runs
  <2>3. CASE interrupted[curr] # None
    <3> DEFINE n == interrupted[curr]
    <3>1. /\ curr' = n
          /\ interrupted' = RemovePreempted(Break(interrupted, curr), n)
          /\ active' = active \ {curr}
          /\ UNCHANGED <<stk, pc>>
      BY Zenon, <2>3 DEF UpcallWait
    <3>2. n \in Thds \ {Recoverer} /\ n # curr
      BY <2>1, <2>3 DEF FaultInv, Types, Chain
    <3>3. Current(n)
      BY Zenon, <2>1, <2>3 DEF FaultInv, Chain, Looping
    <3>4. n \notin Upcalls
      BY Zenon, <2>1, <3>2 DEF OneUpcall
    <3> HIDE DEF n
    <3>5. interrupted' \in [Upcalls -> Thds \cup {None}] /\ Chain'
      <4>1. \A u \in Upcalls : interrupted'[u] = None
        BY <3>1, <1>LinksCut
      <4>2. DOMAIN interrupted' = Upcalls
        BY <3>1, <1>LinksTyped
      <4>3. interrupted' = [u \in Upcalls |-> interrupted'[u]]
        BY Zenon, <3>1, <4>2 DEF RemovePreempted, Break
      <4> QED BY <4>1, <4>3 DEF Chain
    <3>6. Top(curr).spd \notin Services
      <4>1. stk[curr][1].spd = HomeOf(curr)
        BY Zenon, <2>2, WorldNow DEF StackOK
      <4>2. HomeOf(curr) \notin Services
        BY Zenon, <2>1, FaultNotifAssumption DEF HomeOf
      <4> QED BY Zenon, <2>1, <4>1, <4>2 DEF Top, Last
    <3>7. /\ active' \subseteq Upcalls
          /\ \A u \in Upcalls \ active' : pc[u] = "run" /\ Top(u).spd \notin Services
      BY <2>1, <3>1, <3>6 DEF FaultInv, Types, Runs
    <3>8. ~Preemptible => \A t \in Thds : pc[t] \notin {"reboot", "trigger"}
      BY Zenon, <2>1 DEF FaultInv, Places
    <3> QED BY <2>1, <3>1, <3>2, <3>3, <3>4, <3>5, <3>7, <3>8, <1>MoveStep DEF Current
  <2>4. CASE interrupted[curr] = None
    <3> DEFINE e == Append(stk[curr], Frame(Sched))
    <3>1. /\ stk' = [stk EXCEPT ![curr] = e]
          /\ pc' = [pc EXCEPT ![curr] = "complete"]
          /\ UNCHANGED <<curr, interrupted, active>>
      BY Zenon, <2>2, <2>4 DEF UpcallWait, FaultInv, Types
    <3>2. StackOK(curr, e, "complete", World)
      BY Zenon, <2>1, <2>2, <1>CurrFacts, <1>WaitAppendOK
    <3>3. recover_spd' \in Services \cup {None}
      BY <2>1 DEF FaultInv, Types
    <3> HIDE DEF e
    <3> QED BY Zenon, <2>1, <2>2, <3>1, <3>2, <3>3, <1>CurrFacts, <1>QuietStep
  <2> QED BY <2>3, <2>4
<1>IdleStep.
  ASSUME FaultInv,
         UNCHANGED <<curr, stk, pc, failed, fault, cap, known, inc, prev_thd,
                     recover_spd, active, interrupted>>
  PROVE  FaultInv'
  <2> USE <1>IdleStep
  <2>1. Types' /\ Counted' /\ Places'
    BY Zenon DEF FaultInv, Types, Counted, Places
  <2>2. World' = World
    BY Zenon DEF World, Pending
  <2>3. Stacks'
    BY Zenon, <2>2 DEF FaultInv, Stacks
  <2>4. Runs' /\ Chain'
    BY Zenon DEF FaultInv, Runs, Chain, Current, Top, Lags
  <2> QED BY <2>1, <2>3, <2>4 DEF FaultInv
<1> QED
  <2> SUFFICES ASSUME OneUpcall, FaultInv, [Next]_vars PROVE FaultInv'
    OBVIOUS
  <2>1. ASSUME NEW s \in Comps, Call(s) PROVE FaultInv'
    BY <2>1, <1>CallStep
  <2>2. CASE Return
    BY <2>2, <1>ReturnStep
  <2>3. CASE FaultUpdate
    BY <2>3, <1>FaultUpdateStep
  <2>4. ASSUME NEW n \in Thds, Reschedule(n) PROVE FaultInv'
    BY <2>4, <1>RescheduleStep
  <2>5. ASSUME NEW u \in Upcalls, Interrupt(u) \/ Activate(u) PROVE FaultInv'
    BY <2>5, <1>InterruptStep, <1>ActivateStep
  <2>6. CASE UpcallWait
    BY <2>6, <1>UpcallWaitStep
  <2>7. CASE Fault
    BY <2>7, <1>FaultStep
  <2>8. CASE HomeFault
    BY <2>8, <1>IdleStep DEF HomeFault, counters, slots
  <2>9. CASE Reboot
    BY <2>9, <1>RebootStep
  <2>10. CASE Trigger
    BY <2>10, <1>TriggerStep
  <2>11. CASE SetPrevThd
    BY <2>11, <1>SetPrevThdStep
  <2>12. CASE SetRecoverSpd
    BY <2>12, <1>SetRecoverSpdStep
  <2>13. CASE LoopTest
    BY <2>13, <1>LoopTestStep
  <2>14. CASE LoopSwitch
    BY <2>14, <1>LoopSwitchStep
  <2>15. CASE HandlerReturn
    BY <2>15, <1>HandlerReturnStep
  <2>16. CASE Notified
    BY <2>16, <1>NotifiedStep
  <2>17. CASE RecoverUpcall
    BY <2>17, <1>RecoverUpcallStep
  <2>18. CASE Reflect
    BY <2>18, <1>ReflectStep
  <2>19. CASE RecoverDone
    BY <2>19, <1>RecoverDoneStep
  <2>20. CASE RecoverSwitch
    <3>1. CASE prev_thd \in {None, Recoverer}
      BY <2>20, <3>1, <1>IdleStep DEF RecoverSwitch, counters, slots
    <3> QED BY <2>20, <3>1, <1>RecoverSwitchStep
  <2>21. CASE Stopped \/ UNCHANGED vars
    BY <2>21, <1>IdleStep DEF Stopped, vars, counters, slots
  <2> QED BY <2>1, <2>2, <2>3, <2>4, <2>5, <2>6, <2>7, <2>8, <2>9, <2>10, <2>11,
             <2>12, <2>13, <2>14, <2>15, <2>16, <2>17, <2>18, <2>19, <2>20,
             <2>21 DEF Next

LEMMA InvHolds ==
  ASSUME OneUpcall PROVE Spec => []FaultInv
  BY Initially, Inductive, PTL DEF Spec

LEMMA LastFacts ==
  ASSUME NEW S, NEW q \in Seq(S), q # <<>>
  PROVE  /\ Len(q) \in 1..Len(q) /\ Last(q) \in S /\ Last(q) = q[Len(q)]
         /\ Len(q) > 1 => Len(q) # 1
  BY DEF Last

\* A frame that a thread executes in is of its component's incarnation, or
\* that component is between its reboot and the trigger.
LEMMA FrameFresh ==
  ASSUME FaultInv, pc[curr] \in {"run", "init"},
         curr # Recoverer \/ Len(stk[curr]) > 1,
         Top(curr).inc # inc[Top(curr).spd]
  PROVE  Top(curr).spd \in Pending
<1> DEFINE k == stk[curr]
           f == Last(k)
           n == Len(k)
<1>1. StackOK(curr, k, pc[curr], World) /\ curr \in Thds
  BY Zenon, WorldNow
<1>2. k \in Seq(AnyFrame) /\ k # <<>>
  BY Zenon, <1>1 DEF StackOK
<1>3. n \in 1..Len(k) /\ f \in AnyFrame /\ f = k[n]
  BY Zenon, <1>2, LastFacts
<1>4. FrameOK(f, World)
  <2>1. curr # Recoverer \/ n # 1
    BY Zenon, <1>2, LastFacts
  <2>2. \/ Refreshed(k, n, pc[curr])
        \/ FrameOK(k[n], World)
    BY Zenon, <1>1, <1>3, <2>1 DEF StackOK
  <2> QED BY Zenon, <1>3, <2>2 DEF Refreshed
<1>5. ~Lags(f)
  BY Zenon DEF FaultInv, Runs, Current, Top
<1> HIDE DEF f
<1>6. f.inc # inc[f.spd] /\ f.spd \in Comps /\ f.cnt \in Nat
  BY Zenon, <1>3 DEF Top, f, AnyFrame
<1>7. f.spd \in Services
  BY Zenon, <1>4, <1>6 DEF FaultInv, Counted, FrameOK
<1>8. f.cnt = fault[f.spd]
  <2>1. f.cnt <= fault[f.spd]
    BY Zenon, <1>4, <1>7 DEF FrameOK, World
  <2>2. ~(f.cnt < fault[f.spd])
    BY <1>5 DEF Lags
  <2>3. fault[f.spd] \in Nat
    BY Zenon, <1>6 DEF FaultInv, Types
  <2> QED BY <1>6, <2>1, <2>2, <2>3
<1>9. f.spd \in World.pend
  BY Zenon, <1>4, <1>6, <1>7, <1>8 DEF FrameOK, World
<1> QED BY Zenon, <1>9 DEF World, Top, f
-----------------------------------------------------------------------------
(* The theorems. *)

\* Even when an interrupt may arrive in the booter's handlers, a thread runs
\* on in an incarnation that is gone only until COS_SPD_FAULT_TRIGGER: from
\* then on the tests on return and switch stop it, and the untested way
\* back, through the chain of interrupted threads, is cut.
THEOREM StaleUntilTrigger ==
  ASSUME OneUpcall PROVE Spec => []StaleOnlyBeforeTrigger
<1>1. FaultInv => StaleOnlyBeforeTrigger
  BY Zenon, FrameFresh DEF StaleOnlyBeforeTrigger, Pending
<1> QED BY <1>1, InvHolds, PTL

\* A call that ipc_fault_detect let through comes from a client whose stub
\* has been told of every failure that the callee's frame counts.
THEOREM ClientsKnow ==
  ASSUME OneUpcall PROVE Spec => []ClientKnows
<1>1. FaultInv => ClientKnows
  <2> SUFFICES ASSUME FaultInv, NEW t \in Thds, NEW i \in 2..Len(stk[t]),
                      <<stk[t][i - 1].spd, stk[t][i].spd>> \in Calls,
                      ~(i + 1 = Len(stk[t]) /\ pc[t] = "notif")
               PROVE  stk[t][i].cnt <= known[<<stk[t][i - 1].spd, stk[t][i].spd>>]
    BY ZenonT(30) DEF ClientKnows
  <2>1. StackOK(t, stk[t], pc[t], World)
    BY Zenon, WorldNow
  <2>2. Refreshed(stk[t], i, pc[t]) \/ KnownOK(stk[t][i - 1], stk[t][i], World)
    BY Zenon, <2>1 DEF StackOK
  <2> QED BY Zenon, <2>2 DEF Refreshed, KnownOK, World
<1> QED BY <1>1, InvHolds, PTL
=============================================================================
