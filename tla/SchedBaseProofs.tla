--------------------------- MODULE SchedBaseProofs ---------------------------
(***************************************************************************)
(* Proofs about the scheduler for any number of threads, priorities and    *)
(* components.                                                             *)
(***************************************************************************)
EXTENDS SchedBase, FiniteSetTheorems, TLAPS

\* The inductive invariant.  SectionsAccounted makes the test of sched_block
\* on ncs_held exact, CallState then keeps holders out of sched_block, and
\* RunsReady needs both because a contender switches to the holder.
IInv == TypeOK /\ WakeCountAgrees /\ CallState /\ SectionsAccounted /\ RunsReady

\* What a switch does to the flags dp and contended components ct: at most
\* one contender, whose section is free again, loses its flag.
FlagsAfter(t, dp, ct) ==
  \/ dependent'[t] = dp[t] /\ contended_component'[t] = ct[t]
  \/ /\ dp[t]
     /\ dependency_thd'[t] = NoThd
     /\ ~dependent'[t]
     /\ contended_component'[t] = NoSpd

SwitchResult(dp, ct) ==
  /\ SwitchType'
  /\ RunsReady'
  /\ \A t \in Threads : FlagsAfter(t, dp, ct)

\* A switch to a thread that is not blocked, as sched_switch_thread_target
\* does it, yields a thread that is not blocked.
LEMMA SwitchEffect ==
  ASSUME NEW n \in Threads,
         NEW dp \in [Threads -> BOOLEAN],
         NEW ct \in [Threads -> Spds \cup {NoSpd}],
         dependency_thd' \in [Threads -> Threads \cup {NoThd}],
         blocked' \in [Threads -> BOOLEAN],
         ~blocked'[n],
         SwitchTo(n, dp, ct)
  PROVE  SwitchResult(dp, ct)
<1>1. PICK e \in Threads :
        /\ DependencyOf(e, dp, dependency_thd', ct, holding_thd') = NoThd
        /\ dependent' = [dp EXCEPT ![e] = FALSE]
        /\ contended_component' = IF dp[e] THEN [ct EXCEPT ![e] = NoSpd] ELSE ct
        /\ curr' = IF blocked'[e] THEN n ELSE e
  BY Zenon DEF SwitchTo
<1>2. dp[e] => dependency_thd'[e] = NoThd
  BY <1>1, SchedAssumption DEF DependencyOf
<1>3. ~blocked'[curr']
  BY <1>1
<1>4. SwitchType'
  BY <1>1 DEF SwitchType
<1>5. ASSUME NEW t \in Threads PROVE FlagsAfter(t, dp, ct)
  BY Zenon, <1>1, <1>2 DEF FlagsAfter
<1> QED BY <1>3, <1>4, <1>5 DEF SwitchResult, RunsReady

\* The same for a switch to the choice of the policy.
LEMMA ScheduleEffect ==
  ASSUME NEW dp \in [Threads -> BOOLEAN],
         NEW ct \in [Threads -> Spds \cup {NoSpd}],
         dependency_thd' \in [Threads -> Threads \cup {NoThd}],
         blocked' \in [Threads -> BOOLEAN],
         Schedule(dp, ct)
  PROVE  SwitchResult(dp, ct)
<1>1. PICK n \in Threads : HighestPrio(n) /\ SwitchTo(n, dp, ct)
  BY DEF Schedule
<1> QED BY <1>1, SwitchEffect DEF HighestPrio

\* A thread that holds a section has a positive ncs_held.
LEMMA HolderCounts ==
  ASSUME TypeOK, SectionsAccounted, NEW s \in Spds, holding_thd[s] # NoThd
  PROVE  holding_thd[s] \in Threads /\ ncs_held[holding_thd[s]] > 0
<1> DEFINE t == holding_thd[s]
           S == {r \in Spds : holding_thd[r] = t}
<1>1. t \in Threads
  BY DEF TypeOK
<1>2. IsFiniteSet(S)
  BY FS_Subset, SchedAssumption
<1>3. Cardinality(S) # 0
  BY <1>2, FS_EmptySet
<1>4. Cardinality(S) \in Nat /\ ncs_held[t] = Cardinality(S)
  BY Zenon, <1>1, <1>2, FS_CardinalityType DEF SectionsAccounted
<1> QED BY <1>1, <1>3, <1>4

\* Sections stay accounted for when neither ncs_held nor a holder changes.
LEMMA SectionsUnchanged ==
  ASSUME SectionsAccounted, UNCHANGED <<ncs_held, holding_thd>>
  PROVE  SectionsAccounted'
BY DEF SectionsAccounted

\* The initial state, every thread ready in client code, satisfies the
\* inductive invariant.
LEMMA InitInv == Init => IInv
<1> SUFFICES ASSUME Init PROVE IInv
  OBVIOUS
<1>1. TypeOK
  BY SchedAssumption DEF Init, TypeOK, SwitchType, NoTimeout
<1>2. ASSUME NEW t \in Threads
      PROVE  ncs_held[t] = Cardinality({s \in Spds : holding_thd[s] = t})
  <2>1. {s \in Spds : holding_thd[s] = t} = {}
    BY SchedAssumption DEF Init
  <2> QED BY <2>1, FS_EmptySet DEF Init
<1>3. WakeCountAgrees /\ CallState /\ RunsReady
  BY DEF Init, WakeCountAgrees, CallState, InCall, RunsReady, NoSpd
<1> QED BY <1>1, <1>2, <1>3 DEF IInv, SectionsAccounted

-----------------------------------------------------------------------------
(* sched_block *)

\* sched_block inside a critical section: an error return.
LEMMA BlockRefusedInv ==
  ASSUME IInv, NEW t \in Threads, NEW s \in Spds, BlockRefused(t, s)
  PROVE  IInv'
<1> USE DEF IInv, BlockRefused, Running, StayOnCurr
<1>1. TypeOK'
  BY DEF TypeOK, SwitchType
<1>2. WakeCountAgrees' /\ CallState' /\ RunsReady'
  BY DEF TypeOK, WakeCountAgrees, CallState, InCall, RunsReady
<1> QED BY <1>1, <1>2, SectionsUnchanged

\* sched_block with a wakeup pending returns at once.
LEMMA BlockAlreadyWokenInv ==
  ASSUME IInv, NEW t \in Threads, NEW s \in Spds, BlockAlreadyWoken(t, s)
  PROVE  IInv'
<1> USE DEF IInv, BlockAlreadyWoken, MayBlock, Running, StayOnCurr
<1>1. TypeOK'
  BY DEF TypeOK, SwitchType
<1>2. WakeCountAgrees' /\ CallState' /\ RunsReady'
  BY DEF TypeOK, WakeCountAgrees, CallState, InCall, RunsReady
<1> QED BY <1>1, <1>2, SectionsUnchanged

\* sched_block puts the caller to sleep.
LEMMA BlockNoDependencyInv ==
  ASSUME IInv, NEW t \in Threads, NEW s \in Spds, BlockNoDependency(t, s)
  PROVE  IInv'
<1> USE DEF IInv, BlockNoDependency, MayBlock, Running, fp_block
<1>1. SwitchResult(dependent, contended_component)
  BY ScheduleEffect DEF TypeOK, SwitchType
<1>2. TypeOK'
  BY <1>1 DEF TypeOK, SwitchResult
<1>3. RunsReady'
  BY <1>1 DEF SwitchResult
<1>4. WakeCountAgrees'
  BY DEF TypeOK, WakeCountAgrees
<1>5. ASSUME NEW u \in Threads PROVE InCall(u)'
  <2>1. FlagsAfter(u, dependent, contended_component)
    BY <1>1 DEF SwitchResult
  <2>2. InCall(u)
    BY DEF CallState
  <2> QED BY <2>1, <2>2, SchedAssumption DEF TypeOK, SwitchType, InCall, FlagsAfter, NoSpd
<1> QED BY <1>2, <1>3, <1>4, <1>5, SectionsUnchanged DEF CallState

\* sched_block with a dependency switches to the thread depended on.
LEMMA BlockOnDependencyInv ==
  ASSUME IInv, NEW t \in Threads, NEW s \in Spds, NEW dep \in Threads,
         BlockOnDependency(t, s, dep)
  PROVE  IInv'
<1> USE DEF IInv, BlockOnDependency, MayBlock, Running
<1>1. SwitchResult([dependent EXCEPT ![t] = TRUE], contended_component)
  BY Zenon, SwitchEffect DEF TypeOK, SwitchType
<1>2. TypeOK'
  BY <1>1 DEF TypeOK, SwitchResult
<1>3. RunsReady'
  BY <1>1 DEF SwitchResult
<1>4. WakeCountAgrees'
  BY SchedAssumption DEF TypeOK, WakeCountAgrees, CallState, InCall
<1>5. ASSUME NEW u \in Threads PROVE InCall(u)'
  <2>1. FlagsAfter(u, [dependent EXCEPT ![t] = TRUE], contended_component)
    BY Zenon, <1>1 DEF SwitchResult
  <2>2. InCall(u)
    BY DEF CallState
  <2> QED BY Zenon, <2>1, <2>2, SchedAssumption DEF TypeOK, SwitchType, InCall, FlagsAfter, NoSpd
<1> QED BY <1>2, <1>3, <1>4, <1>5, SectionsUnchanged DEF CallState

\* A woken thread leaves the wait loop of sched_block.
LEMMA ResumeBlockInv ==
  ASSUME IInv, NEW t \in Threads, ResumeBlock(t)
  PROVE  IInv'
<1> USE DEF IInv, ResumeBlock, StayOnCurr
<1>1. TypeOK'
  BY SchedAssumption DEF TypeOK, SwitchType
<1>2. RunsReady'
  BY DEF TypeOK, SwitchType, CallState, InCall, RunsReady
<1>3. WakeCountAgrees'
  BY DEF TypeOK, SwitchType, WakeCountAgrees, CallState, InCall
<1>4. ASSUME NEW u \in Threads PROVE InCall(u)'
  BY SchedAssumption DEF TypeOK, SwitchType, CallState, InCall, RunsReady, NoSpd
<1> QED BY <1>1, <1>2, <1>3, <1>4, SectionsUnchanged DEF CallState

\* sched_block returns an error when the dependency suspended itself.
LEMMA ResumeDependentInv ==
  ASSUME IInv, NEW t \in Threads, ResumeDependent(t)
  PROVE  IInv'
<1> USE DEF IInv, ResumeDependent
<1>1. TypeOK'
  BY SchedAssumption DEF TypeOK, SwitchType
<1>2. RunsReady'
  BY DEF TypeOK, SwitchType, CallState, InCall, RunsReady
<1>3. WakeCountAgrees'
  BY DEF TypeOK, SwitchType, WakeCountAgrees, CallState, InCall
<1>4. ASSUME NEW u \in Threads PROVE InCall(u)'
  BY SchedAssumption DEF TypeOK, SwitchType, CallState, InCall, RunsReady, NoSpd
<1> QED BY <1>1, <1>2, <1>3, <1>4, SectionsUnchanged DEF CallState

-----------------------------------------------------------------------------
(* sched_wakeup *)

\* sched_wakeup of a thread that waits for a dependency.
LEMMA WakeDependentInv ==
  ASSUME IInv, NEW t \in Threads, NEW u \in Threads, WakeDependent(t, u)
  PROVE  IInv'
<1> USE DEF IInv, WakeDependent, Running, fp_pre_wakeup
<1>1. SwitchResult([dependent EXCEPT ![u] = FALSE], contended_component)
  BY Zenon, ScheduleEffect DEF TypeOK, SwitchType
<1>2. TypeOK'
  BY <1>1, SchedAssumption DEF TypeOK, SwitchResult
<1>3. RunsReady'
  BY <1>1 DEF SwitchResult
<1>4. WakeCountAgrees'
  BY SchedAssumption DEF TypeOK, SwitchType, WakeCountAgrees, CallState, InCall
<1>5. ASSUME NEW v \in Threads PROVE InCall(v)'
  <2>1. FlagsAfter(v, [dependent EXCEPT ![u] = FALSE], contended_component)
    BY Zenon, <1>1 DEF SwitchResult
  <2>2. InCall(v)
    BY DEF CallState
  <2> QED BY Zenon, <2>1, <2>2, SchedAssumption DEF TypeOK, SwitchType, InCall, FlagsAfter, NoSpd
<1> QED BY <1>2, <1>3, <1>4, <1>5, SectionsUnchanged DEF CallState

\* sched_wakeup of a thread that is not asleep only counts.
LEMMA WakeNotBlockedInv ==
  ASSUME IInv, NEW t \in Threads, NEW u \in Threads, WakeNotBlocked(t, u)
  PROVE  IInv'
<1> USE DEF IInv, WakeNotBlocked, Running, StayOnCurr, fp_pre_wakeup
<1>1. TypeOK'
  BY SchedAssumption DEF TypeOK, SwitchType
<1>2. RunsReady'
  BY DEF TypeOK, SwitchType, CallState, InCall, RunsReady
<1>3. WakeCountAgrees'
  BY DEF TypeOK, SwitchType, WakeCountAgrees, CallState, InCall
<1>4. ASSUME NEW v \in Threads PROVE InCall(v)'
  BY SchedAssumption DEF TypeOK, SwitchType, CallState, InCall, NoSpd
<1> QED BY <1>1, <1>2, <1>3, <1>4, SectionsUnchanged DEF CallState

\* sched_wakeup of a sleeping thread.
LEMMA WakeBlockedInv ==
  ASSUME IInv, NEW t \in Threads, NEW u \in Threads, WakeBlocked(t, u)
  PROVE  IInv'
<1> USE DEF IInv, WakeBlocked, Running, fp_pre_wakeup, fp_wakeup
<1>1. SwitchResult(dependent, contended_component)
  BY ScheduleEffect DEF TypeOK, SwitchType
<1>2. TypeOK'
  BY <1>1, SchedAssumption DEF TypeOK, SwitchResult
<1>3. RunsReady'
  BY <1>1 DEF SwitchResult
<1>4. WakeCountAgrees'
  BY SchedAssumption DEF TypeOK, SwitchType, WakeCountAgrees, CallState, InCall
<1>5. ASSUME NEW v \in Threads PROVE InCall(v)'
  <2>1. FlagsAfter(v, dependent, contended_component)
    BY <1>1 DEF SwitchResult
  <2>2. InCall(v)
    BY DEF CallState
  <2> QED BY <2>1, <2>2, SchedAssumption DEF TypeOK, SwitchType, InCall, FlagsAfter, NoSpd
<1> QED BY Zenon, <1>2, <1>3, <1>4, <1>5, SectionsUnchanged DEF CallState

-----------------------------------------------------------------------------
(* Timeouts and ticks *)

\* sched_timeout that does not sleep.
LEMMA TimeoutInv ==
  ASSUME IInv, NEW t \in Threads, NEW amnt \in 1..MaxTimeout, Timeout(t, amnt)
  PROVE  IInv'
<1> USE DEF IInv, Timeout, Running, StayOnCurr
<1>1. TypeOK'
  BY SchedAssumption DEF TypeOK, SwitchType, EarlierOf, NoTimeout
<1>2. RunsReady'
  BY DEF TypeOK, SwitchType, CallState, InCall, RunsReady
<1>3. WakeCountAgrees'
  BY DEF TypeOK, SwitchType, WakeCountAgrees, CallState, InCall
<1>4. ASSUME NEW u \in Threads PROVE InCall(u)'
  BY SchedAssumption DEF TypeOK, SwitchType, CallState, InCall, RunsReady, NoSpd
<1> QED BY <1>1, <1>2, <1>3, <1>4, SectionsUnchanged DEF CallState

\* sched_timeout puts the timer thread to sleep.
LEMMA TimeoutSleepInv ==
  ASSUME IInv, NEW t \in Threads, NEW amnt \in 1..MaxTimeout, TimeoutSleep(t, amnt)
  PROVE  IInv'
<1> USE DEF IInv, TimeoutSleep, Running, fp_block
<1>1. SwitchResult(dependent, contended_component)
  BY ScheduleEffect DEF TypeOK, SwitchType
<1>2. TypeOK'
  BY <1>1, SchedAssumption DEF TypeOK, SwitchResult, EarlierOf, NoTimeout
<1>3. RunsReady'
  BY <1>1 DEF SwitchResult
<1>4. WakeCountAgrees'
  BY SchedAssumption DEF TypeOK, SwitchType, WakeCountAgrees, CallState, InCall
<1>5. ASSUME NEW v \in Threads PROVE InCall(v)'
  <2>1. FlagsAfter(v, dependent, contended_component)
    BY <1>1 DEF SwitchResult
  <2>2. InCall(v)
    BY DEF CallState
  <2> QED BY <2>1, <2>2, SchedAssumption DEF TypeOK, SwitchType, InCall, FlagsAfter, NoSpd
<1> QED BY <1>2, <1>3, <1>4, <1>5, SectionsUnchanged DEF CallState

\* The timer thread returns from sched_timeout.
LEMMA ResumeTimeoutInv ==
  ASSUME IInv, NEW t \in Threads, ResumeTimeout(t)
  PROVE  IInv'
<1> USE DEF IInv, ResumeTimeout, StayOnCurr
<1>1. TypeOK'
  BY SchedAssumption DEF TypeOK, SwitchType
<1>2. RunsReady'
  BY DEF TypeOK, SwitchType, CallState, InCall, RunsReady
<1>3. WakeCountAgrees'
  BY DEF TypeOK, SwitchType, WakeCountAgrees, CallState, InCall
<1>4. ASSUME NEW u \in Threads PROVE InCall(u)'
  BY SchedAssumption DEF TypeOK, SwitchType, CallState, InCall, RunsReady, NoSpd
<1> QED BY <1>1, <1>2, <1>3, <1>4, SectionsUnchanged DEF CallState

\* A timer tick with no timeout due.
LEMMA TickNoWakeupInv ==
  ASSUME IInv, TickNoWakeup
  PROVE  IInv'
<1> USE DEF IInv, TickNoWakeup
<1>1. SwitchResult(dependent, contended_component)
  BY ScheduleEffect DEF TypeOK, SwitchType
<1>2. TypeOK'
  BY <1>1, SchedAssumption DEF TypeOK, SwitchResult, Remaining, TicksPerTick, NoTimeout
<1>3. RunsReady'
  BY <1>1 DEF SwitchResult
<1>4. WakeCountAgrees'
  BY SchedAssumption DEF TypeOK, SwitchType, WakeCountAgrees, CallState, InCall
<1>5. ASSUME NEW v \in Threads PROVE InCall(v)'
  <2>1. FlagsAfter(v, dependent, contended_component)
    BY <1>1 DEF SwitchResult
  <2>2. InCall(v)
    BY DEF CallState
  <2> QED BY <2>1, <2>2, SchedAssumption DEF TypeOK, SwitchType, InCall, FlagsAfter, NoSpd
<1> QED BY <1>2, <1>3, <1>4, <1>5, SectionsUnchanged DEF CallState

\* A timer tick that wakes the timer thread.
LEMMA TickWakeupInv ==
  ASSUME IInv, TickWakeup
  PROVE  IInv'
<1> USE DEF IInv, TickWakeup, fp_pre_wakeup, fp_wakeup
<1>1. SwitchResult(dependent, contended_component)
  BY Zenon, ScheduleEffect DEF TypeOK, SwitchType
<1>2. TypeOK'
  <2>1. TimerThd \in Threads /\ NoTimeout \in NoTimeout..MaxTimeout
    BY SchedAssumption DEF NoTimeout
  <2>2. wake_cnt' \in [Threads -> 0..2]
    BY <2>1 DEF TypeOK
  <2>3. /\ blocked' \in [Threads -> BOOLEAN]
        /\ blocking_component' \in [Threads -> Spds \cup {NoSpd, SchedSpd}]
    BY Zenon, <2>1 DEF TypeOK
  <2> QED BY <1>1, <2>1, <2>2, <2>3 DEF TypeOK, SwitchResult
<1>3. RunsReady'
  BY <1>1 DEF SwitchResult
<1>4. WakeCountAgrees'
  BY SchedAssumption DEF TypeOK, SwitchType, WakeCountAgrees, CallState, InCall
<1>5. ASSUME NEW v \in Threads PROVE InCall(v)'
  <2>1. FlagsAfter(v, dependent, contended_component)
    BY <1>1 DEF SwitchResult
  <2>2. InCall(v)
    BY DEF CallState
  <2> QED BY <2>1, <2>2, SchedAssumption DEF TypeOK, SwitchType, InCall, FlagsAfter, NoSpd
<1> QED BY <1>2, <1>3, <1>4, <1>5, SectionsUnchanged DEF CallState

-----------------------------------------------------------------------------
(* sched_component_take, sched_component_release *)

\* sched_component_take of a free section.
LEMMA TakeFreeInv ==
  ASSUME IInv, NEW t \in Threads, NEW s \in Spds,
         t = curr, pc[t] \in {"run", "take"}, TakeFree(t, s)
  PROVE  IInv'
<1> USE DEF IInv, TakeFree
<1>1. TypeOK'
  BY DEF TypeOK, SwitchType
<1>2. RunsReady'
  BY DEF RunsReady
<1>3. WakeCountAgrees'
  BY DEF WakeCountAgrees
<1>4. ASSUME NEW u \in Threads PROVE InCall(u)'
  BY SchedAssumption DEF TypeOK, SwitchType, CallState, InCall, NoSpd
<1>5. ASSUME NEW u \in Threads
      PROVE  ncs_held'[u] = Cardinality({r \in Spds : holding_thd'[r] = u})
  <2> DEFINE Before == {r \in Spds : holding_thd[r] = u}
             After == {r \in Spds : holding_thd'[r] = u}
  <2>1. IsFiniteSet(Before) /\ ncs_held[u] = Cardinality(Before)
    BY FS_Subset, SchedAssumption DEF SectionsAccounted
  <2>2. CASE u = t
    <3>1. After = Before \cup {s} /\ s \notin Before
      BY <2>2, SchedAssumption DEF TypeOK
    <3>2. Cardinality(After) = Cardinality(Before) + 1
      BY <2>1, <3>1, FS_AddElement
    <3> QED BY <2>1, <2>2, <3>2 DEF TypeOK
  <2>3. CASE u # t
    <3>1. After = Before
      BY <2>3, SchedAssumption DEF TypeOK
    <3> QED BY Zenon, <2>1, <2>3, <3>1 DEF TypeOK
  <2> QED BY <2>2, <2>3
<1> QED BY <1>1, <1>2, <1>3, <1>4, <1>5 DEF CallState, SectionsAccounted

\* sched_component_take of a section the caller holds.
LEMMA TakeOwnInv ==
  ASSUME IInv, NEW t \in Threads, NEW s \in Spds, pc[t] = "run", TakeOwn(t, s)
  PROVE  IInv'
<1> USE DEF IInv, TakeOwn
<1>1. TypeOK'
  BY DEF TypeOK, SwitchType
<1>2. RunsReady' /\ WakeCountAgrees'
  BY DEF RunsReady, WakeCountAgrees
<1>3. ASSUME NEW u \in Threads PROVE InCall(u)'
  BY SchedAssumption DEF TypeOK, SwitchType, CallState, InCall, NoSpd
<1> QED BY <1>1, <1>2, <1>3, SectionsUnchanged DEF CallState

\* sched_component_take of a held section switches to the holder.
LEMMA TakeContendedInv ==
  ASSUME IInv, NEW t \in Threads, NEW s \in Spds,
         t = curr, pc[t] \in {"run", "take"}, TakeContended(t, s)
  PROVE  IInv'
<1> DEFINE dp == [dependent EXCEPT ![t] = TRUE]
           ct == [contended_component EXCEPT ![t] = s]
<1> USE DEF IInv, TakeContended
<1>1. dp \in [Threads -> BOOLEAN] /\ ct \in [Threads -> Spds \cup {NoSpd}]
  BY DEF TypeOK, SwitchType
<1>2. holding_thd[s] \in Threads /\ ncs_held[holding_thd[s]] > 0
  BY HolderCounts
<1>3. ~blocked'[holding_thd[s]]
  <2>1. InCall(holding_thd[s])
    BY Zenon, <1>2 DEF CallState
  <2>2. pc[holding_thd[s]] \in {"run", "take", "block", "timeout"}
    BY <1>2 DEF TypeOK
  <2> QED BY <1>2, <2>1, <2>2 DEF InCall, TypeOK
<1>4. SwitchResult(dp, ct)
  BY Zenon, <1>1, <1>2, <1>3, SwitchEffect DEF TypeOK
<1>5. TypeOK'
  BY <1>4 DEF TypeOK, SwitchResult
<1>6. RunsReady'
  BY <1>4 DEF SwitchResult
<1>7. WakeCountAgrees'
  BY DEF WakeCountAgrees
<1>8. ASSUME NEW v \in Threads PROVE InCall(v)'
  <2>1. FlagsAfter(v, dp, ct)
    BY Zenon, <1>4 DEF SwitchResult
  <2>2. InCall(v)
    BY DEF CallState
  <2> QED BY Zenon, <2>1, <2>2, SchedAssumption DEF TypeOK, SwitchType, InCall, FlagsAfter, NoSpd
<1> QED BY <1>5, <1>6, <1>7, <1>8, SectionsUnchanged DEF CallState

\* sched_component_release frees the section and reschedules.
LEMMA ComponentReleaseInv ==
  ASSUME IInv, NEW t \in Threads, NEW s \in Spds, ComponentRelease(t, s)
  PROVE  IInv'
<1> USE DEF IInv, ComponentRelease, Running
<1>1. SwitchResult(dependent, contended_component)
  BY ScheduleEffect DEF TypeOK, SwitchType
<1>2. ASSUME NEW u \in Threads
      PROVE  /\ ncs_held'[u] \in Nat
             /\ ncs_held'[u] = Cardinality({r \in Spds : holding_thd'[r] = u})
  <2> DEFINE Before == {r \in Spds : holding_thd[r] = u}
             After == {r \in Spds : holding_thd'[r] = u}
  <2>1. IsFiniteSet(Before) /\ ncs_held[u] = Cardinality(Before) /\ ncs_held[u] \in Nat
    BY FS_Subset, SchedAssumption DEF SectionsAccounted, TypeOK
  <2>2. CASE holding_thd[s] = u
    <3>0. \A r \in Spds : holding_thd'[r] = IF r = s THEN NoThd ELSE holding_thd[r]
      BY DEF TypeOK
    <3>1. After = Before \ {s} /\ s \in Before
      <4> HIDE DEF IInv, ComponentRelease, Running
      <4> QED BY Zenon, <2>2, <3>0, SchedAssumption
    <3>2. Cardinality(After) = Cardinality(Before) - 1 /\ Cardinality(After) \in Nat
      <4> HIDE DEF IInv, ComponentRelease, Running, Before, After
      <4>1. IsFiniteSet(After) /\ Cardinality(After) = Cardinality(Before) - 1
        BY <2>1, <3>1, FS_RemoveElement
      <4> QED BY <4>1, FS_CardinalityType
    <3>3. ncs_held'[u] = ncs_held[u] - 1
      BY <2>2, SchedAssumption DEF TypeOK
    <3> QED BY <2>1, <3>2, <3>3
  <2>3. CASE holding_thd[s] # u
    <3>1. After = Before
      BY <2>3, SchedAssumption DEF TypeOK
    <3>2. ncs_held'[u] = ncs_held[u]
      BY <2>3 DEF TypeOK
    <3> QED BY Zenon, <2>1, <3>1, <3>2
  <2> QED BY <2>2, <2>3
<1>3. TypeOK'
  <2>1. ncs_held' \in [Threads -> Nat]
    BY Zenon, <1>2 DEF TypeOK
  <2> QED BY <1>1, <2>1 DEF TypeOK, SwitchResult
<1>4. RunsReady' /\ WakeCountAgrees'
  BY <1>1 DEF SwitchResult, WakeCountAgrees
<1>5. ASSUME NEW v \in Threads PROVE InCall(v)'
  <2>1. FlagsAfter(v, dependent, contended_component)
    BY Zenon, <1>1 DEF SwitchResult
  <2>2. InCall(v)
    BY DEF CallState
  <2>3. CASE pc[v] \in {"block", "timeout"}
    <3>1. v # t
      BY <2>3
    <3>2. ncs_held'[v] = ncs_held[v]
      BY <3>1 DEF TypeOK
    <3> QED BY Zenon, <2>1, <2>2, <2>3, <3>2, SchedAssumption
            DEF TypeOK, SwitchType, InCall, FlagsAfter, NoSpd
  <2>4. CASE pc[v] \notin {"block", "timeout"}
    BY Zenon, <2>1, <2>2, <2>4, SchedAssumption
       DEF TypeOK, SwitchType, InCall, FlagsAfter, NoSpd
  <2> QED BY <2>3, <2>4
<1> QED BY <1>2, <1>3, <1>4, <1>5 DEF CallState, SectionsAccounted

-----------------------------------------------------------------------------
(* Priority inheritance.  What a thread waits for is a function of four    *)
(* variables, and a step changes it only at the thread that runs, at those *)
(* that come to wait for it, and at the end of the walk.                   *)

Waits(p) == DependencyOf(p, dependent, dependency_thd, contended_component, holding_thd)

Closed(S) == \A p \in S : Waits(p) \in S \cup {NoThd}

Urgent(h) == ~blocked[h] /\ \A u \in Threads : ~blocked[u] => Priority[h] =< Priority[u]

\* The running thread runs on, and at most other threads come to wait for it.
LEMMA StayInherits ==
  ASSUME InheritedPriority, curr \in Threads, curr' = curr, blocked' = blocked,
         \A p \in Threads \ {curr} : Waits(p)' \in {Waits(p), curr}
  PROVE  InheritedPriority'
<1>1. PICK h \in Threads :
        Urgent(h) /\ \A S \in SUBSET Threads : h \in S /\ Closed(S) => curr \in S
  BY Zenon DEF InheritedPriority, Reaches, Leads, Closed, Waits, Urgent
<1>2. Urgent(h)'
  BY <1>1 DEF Urgent
<1>3. ASSUME NEW S \in SUBSET Threads, h \in S, Closed(S)', curr \notin S
      PROVE  FALSE
  <2>1. ASSUME NEW p \in S PROVE Waits(p) \in S \cup {NoThd}
    <3>1. Waits(p)' \in S \cup {NoThd} /\ Waits(p)' \in {Waits(p), curr}
      BY <1>3 DEF Closed
    <3>2. CASE Waits(p)' = Waits(p)
      BY <3>1, <3>2
    <3>3. CASE Waits(p)' = curr /\ Waits(p)' # Waits(p)
      BY <1>3, <3>1, <3>3, SchedAssumption
    <3> QED BY <3>1, <3>2, <3>3
  <2> QED BY <1>1, <1>3, <2>1 DEF Closed
<1>4. \A S \in SUBSET Threads : h \in S /\ Closed(S)' => curr' \in S
  BY <1>3
<1> QED BY Zenon, <1>2, <1>4 DEF InheritedPriority, Reaches, Leads, Closed, Waits, Urgent

\* What a switch to n does to what the threads wait for.
LEMMA WalkEnd ==
  ASSUME NEW n \in Threads,
         NEW dp \in [Threads -> BOOLEAN],
         NEW ct \in [Threads -> Spds \cup {NoSpd}],
         SwitchTo(n, dp, ct)
  PROVE  /\ \A p \in Threads :
              Waits(p)' = DependencyOf(p, dp, dependency_thd', ct, holding_thd')
         /\ \A S \in SUBSET Threads : n \in S /\ Closed(S)' => curr' \in S
<1> DEFINE W(p) == DependencyOf(p, dp, dependency_thd', ct, holding_thd')
<1>1. PICK e \in Threads :
        /\ Leads(n, e, dp, dependency_thd', ct, holding_thd')
        /\ W(e) = NoThd
        /\ dependent' = [dp EXCEPT ![e] = FALSE]
        /\ contended_component' = IF dp[e] THEN [ct EXCEPT ![e] = NoSpd] ELSE ct
        /\ curr' = IF blocked'[e] THEN n ELSE e
  BY Zenon DEF SwitchTo
<1>2. ASSUME NEW p \in Threads PROVE Waits(p)' = W(p)
  <2>1. CASE p = e
    BY <1>1, <2>1 DEF Waits, DependencyOf
  <2>2. CASE p # e
    <3>1. dependent'[p] = dp[p] /\ contended_component'[p] = ct[p]
      BY <1>1, <2>2
    <3> QED BY <3>1 DEF Waits, DependencyOf
  <2> QED BY <2>1, <2>2
<1> HIDE DEF W
<1>3. ASSUME NEW S \in SUBSET Threads, n \in S, Closed(S)' PROVE e \in S
  <2>1. \A p \in S : W(p) \in S \cup {NoThd}
    BY <1>2, <1>3 DEF Closed
  <2> QED BY <1>1, <1>3, <2>1 DEF Leads, W
<1>4. ASSUME NEW S \in SUBSET Threads, n \in S, Closed(S)' PROVE curr' \in S
  BY <1>1, <1>3, <1>4
<1> QED BY <1>2, <1>4 DEF W

\* A scheduling decision runs what the most urgent thread waits for.
LEMMA ScheduleInherits ==
  ASSUME NEW dp \in [Threads -> BOOLEAN],
         NEW ct \in [Threads -> Spds \cup {NoSpd}],
         Schedule(dp, ct)
  PROVE  InheritedPriority'
<1>1. PICK n \in Threads : HighestPrio(n) /\ SwitchTo(n, dp, ct)
  BY DEF Schedule
<1>2. Urgent(n)'
  BY <1>1 DEF HighestPrio, Urgent
<1>3. \A S \in SUBSET Threads : n \in S /\ Closed(S)' => curr' \in S
  BY <1>1, WalkEnd
<1> QED BY <1>2, <1>3 DEF InheritedPriority, Reaches, Leads, Closed, Waits, Urgent

\* The running thread waits for n from now on and switches to it.
LEMMA HelpInherits ==
  ASSUME InheritedPriority, NEW n \in Threads,
         NEW dp \in [Threads -> BOOLEAN],
         NEW ct \in [Threads -> Spds \cup {NoSpd}],
         SwitchTo(n, dp, ct), NEW t \in Threads, t = curr, blocked' = blocked,
         DependencyOf(t, dp, dependency_thd', ct, holding_thd') = n,
         \A p \in Threads \ {t} :
           DependencyOf(p, dp, dependency_thd', ct, holding_thd') = Waits(p)
  PROVE  InheritedPriority'
<1>1. PICK h \in Threads :
        Urgent(h) /\ \A S \in SUBSET Threads : h \in S /\ Closed(S) => curr \in S
  BY Zenon DEF InheritedPriority, Reaches, Leads, Closed, Waits, Urgent
<1>2. Urgent(h)'
  BY Zenon, <1>1 DEF Urgent
<1>0. /\ \A p \in Threads :
           Waits(p)' = DependencyOf(p, dp, dependency_thd', ct, holding_thd')
      /\ \A S \in SUBSET Threads : n \in S /\ Closed(S)' => curr' \in S
  BY WalkEnd
<1>3. Waits(t)' = n /\ \A p \in Threads \ {t} : Waits(p)' = Waits(p)
  BY <1>0
<1>4. ASSUME NEW S \in SUBSET Threads, h \in S, Closed(S)' PROVE t \in S
  <2>1. \A p \in S : Waits(p)' \in S \cup {NoThd}
    BY <1>4 DEF Closed
  <2>2. t \notin S => \A p \in S : Waits(p) \in S \cup {NoThd}
    BY <1>3, <2>1
  <2> QED BY <1>1, <1>4, <2>2 DEF Closed
<1>5. ASSUME NEW S \in SUBSET Threads, h \in S, Closed(S)' PROVE n \in S
  BY <1>3, <1>4, <1>5, SchedAssumption DEF Closed
<1>6. \A S \in SUBSET Threads : h \in S /\ Closed(S)' => curr' \in S
  BY <1>0, <1>5
<1> QED BY Zenon, <1>2, <1>6 DEF InheritedPriority, Reaches, Leads, Closed, Waits, Urgent

-----------------------------------------------------------------------------
(* The theorems *)

\* Every step of the scheduler preserves the inductive invariant.
LEMMA NextInv == IInv /\ [Next]_vars => IInv'
<1> SUFFICES ASSUME IInv, [Next]_vars PROVE IInv'
  OBVIOUS
<1>1. CASE UNCHANGED vars
  <2>1. TypeOK'
    BY Zenon, <1>1 DEF vars, IInv, TypeOK, SwitchType
  <2>2. WakeCountAgrees'
    BY Zenon, <1>1 DEF vars, IInv, WakeCountAgrees
  <2>3. CallState'
    BY Zenon, <1>1 DEF vars, IInv, CallState, InCall
  <2>4. SectionsAccounted'
    BY Zenon, <1>1 DEF vars, IInv, SectionsAccounted
  <2>5. RunsReady'
    BY Zenon, <1>1 DEF vars, IInv, RunsReady
  <2> QED BY Zenon, <2>1, <2>2, <2>3, <2>4, <2>5 DEF IInv
<1>2. CASE Tick
  BY <1>2, TickNoWakeupInv, TickWakeupInv DEF Tick
<1>3. ASSUME NEW t \in Threads, Call(t) PROVE IInv'
  <2>1. ASSUME NEW s \in Spds, BlockRefused(t, s) PROVE IInv'
    BY <2>1, BlockRefusedInv
  <2>2. ASSUME NEW s \in Spds, BlockAlreadyWoken(t, s) PROVE IInv'
    BY <2>2, BlockAlreadyWokenInv
  <2>3. ASSUME NEW s \in Spds, BlockNoDependency(t, s) PROVE IInv'
    BY <2>3, BlockNoDependencyInv
  <2>4. ASSUME NEW s \in Spds, ComponentTake(t, s) PROVE IInv'
    <3>1. pc[t] = "run" /\ t = curr /\ TakeTurn(t, s)
      BY <2>4 DEF ComponentTake, Running
    <3> QED BY <3>1, TakeFreeInv, TakeOwnInv, TakeContendedInv DEF TakeTurn
  <2>5. ASSUME NEW s \in Spds, ComponentRelease(t, s) PROVE IInv'
    BY <2>5, ComponentReleaseInv
  <2>6. ASSUME NEW s \in Spds, NEW dep \in Threads, BlockOnDependency(t, s, dep)
        PROVE  IInv'
    BY <2>6, BlockOnDependencyInv
  <2>7. ASSUME NEW s \in Spds, NEW dep \in Threads, BlockOnBlocked(t, s, dep)
        PROVE  IInv'
    BY <1>1, <2>7 DEF BlockOnBlocked
  <2>8. ASSUME NEW u \in Threads, WakeDependent(t, u) PROVE IInv'
    BY <2>8, WakeDependentInv
  <2>9. ASSUME NEW u \in Threads, WakeNotBlocked(t, u) PROVE IInv'
    BY <2>9, WakeNotBlockedInv
  <2>10. ASSUME NEW u \in Threads, WakeBlocked(t, u) PROVE IInv'
    BY <2>10, WakeBlockedInv
  <2>11. ASSUME NEW amnt \in 1..MaxTimeout, Timeout(t, amnt) PROVE IInv'
    BY <2>11, TimeoutInv
  <2>12. ASSUME NEW amnt \in 1..MaxTimeout, TimeoutSleep(t, amnt) PROVE IInv'
    BY <2>12, TimeoutSleepInv
  <2> QED BY <1>3, <2>1, <2>2, <2>3, <2>4, <2>5, <2>6, <2>7, <2>8, <2>9, <2>10,
             <2>11, <2>12 DEF Call
<1>4. ASSUME NEW t \in Threads, Resume(t) PROVE IInv'
  <2>1. CASE ResumeTake(t)
    <3>1. t = curr /\ pc[t] = "take" /\ TakeTurn(t, want[t])
      BY <2>1 DEF ResumeTake
    <3>2. want[t] \in Spds /\ holding_thd[want[t]] # t
      BY <3>1 DEF IInv, CallState, InCall
    <3>3. ~TakeOwn(t, want[t])
      BY <3>2 DEF TakeOwn
    <3> QED BY <3>1, <3>2, <3>3, TakeFreeInv, TakeContendedInv DEF TakeTurn
  <2> QED BY <1>4, <2>1, ResumeBlockInv, ResumeDependentInv, ResumeTimeoutInv DEF Resume
<1> QED BY <1>1, <1>2, <1>3, <1>4 DEF Next

\* The inductive invariant holds in every reachable state.
LEMMA Invariance == Spec => []IInv
<1> QED BY InitInv, NextInv, PTL DEF Spec

\* Type correctness of the scheduler's state.
THEOREM TypeCorrect == Spec => []TypeOK
<1>1. IInv => TypeOK
  BY DEF IInv
<1> QED BY <1>1, Invariance, PTL

\* A wake count of 0 means asleep, as struct sched_thd documents it.
THEOREM WakeCountCorrect == Spec => []WakeCountAgrees
<1>1. IInv => WakeCountAgrees
  BY DEF IInv
<1> QED BY <1>1, Invariance, PTL

\* The flags of every thread agree with the scheduler call it is in: none of
\* the assertions on them fails.
THEOREM CallStateCorrect == Spec => []CallState
<1>1. IInv => CallState
  BY DEF IInv
<1> QED BY <1>1, Invariance, PTL

\* ncs_held is the number of critical sections a thread holds.
THEOREM SectionsCorrect == Spec => []SectionsAccounted
<1>1. IInv => SectionsAccounted
  BY DEF IInv
<1> QED BY <1>1, Invariance, PTL

\* The core never executes a blocked thread.
THEOREM RunsReadyAlways == Spec => []RunsReady
<1>1. IInv => RunsReady
  BY DEF IInv
<1> QED BY <1>1, Invariance, PTL

\* The holder of a critical section neither blocks nor waits for a dependency,
\* so a contender that switches to it makes progress.
THEOREM HolderAlwaysCanRun == Spec => []HolderCanRun
<1>1. IInv => HolderCanRun
  <2> SUFFICES ASSUME IInv, NEW s \in Spds, holding_thd[s] # NoThd
               PROVE  ~blocked[holding_thd[s]] /\ dependency_thd[holding_thd[s]] = NoThd
    BY DEF HolderCanRun
  <2>1. holding_thd[s] \in Threads /\ ncs_held[holding_thd[s]] > 0
    BY HolderCounts DEF IInv
  <2>2. InCall(holding_thd[s])
    BY <2>1 DEF IInv, CallState
  <2>3. pc[holding_thd[s]] \in {"run", "take", "block", "timeout"}
    BY <2>1 DEF IInv, TypeOK
  <2> QED BY <2>1, <2>2, <2>3 DEF InCall, IInv, TypeOK
<1> QED BY <1>1, Invariance, PTL

\* Only a thread's own step lowers its wake count: no wakeup is lost to
\* another thread or to a tick.
THEOREM WakeupsAreKept == Spec => WakeupsKept
<1> DEFINE Kept == \A t \in Threads : wake_cnt'[t] < wake_cnt[t] => t = curr
<1>1. IInv /\ [Next]_vars => [Kept]_vars
  <2> SUFFICES ASSUME IInv, Next PROVE Kept
    OBVIOUS
  <2> USE DEF IInv, TypeOK
  <2>1. CASE Tick
    BY <2>1, SchedAssumption DEF Tick, TickNoWakeup, TickWakeup, fp_pre_wakeup
  <2>2. ASSUME NEW t \in Threads, Call(t) PROVE Kept
    <3>1. ASSUME NEW s \in Spds, \/ BlockRefused(t, s)
                                 \/ BlockAlreadyWoken(t, s)
                                 \/ BlockNoDependency(t, s)
          PROVE  Kept
      BY <3>1 DEF BlockRefused, BlockAlreadyWoken, BlockNoDependency, MayBlock, Running
    <3>2. ASSUME NEW s \in Spds, ComponentTake(t, s) \/ ComponentRelease(t, s)
          PROVE  Kept
      BY <3>2 DEF ComponentTake, TakeTurn, TakeFree, TakeOwn, TakeContended,
                  ComponentRelease
    <3>3. ASSUME NEW s \in Spds, NEW dep \in Threads,
                 BlockOnDependency(t, s, dep) \/ BlockOnBlocked(t, s, dep)
          PROVE  Kept
      BY <3>3 DEF BlockOnDependency, BlockOnBlocked, MayBlock, Running, vars
    <3>4. ASSUME NEW u \in Threads,
                 WakeDependent(t, u) \/ WakeNotBlocked(t, u) \/ WakeBlocked(t, u)
          PROVE  Kept
      BY <3>4 DEF WakeDependent, WakeNotBlocked, WakeBlocked, fp_pre_wakeup
    <3>5. ASSUME NEW amnt \in 1..MaxTimeout, Timeout(t, amnt) \/ TimeoutSleep(t, amnt)
          PROVE  Kept
      BY <3>5 DEF Timeout, TimeoutSleep, Running
    <3> QED BY <2>2, <3>1, <3>2, <3>3, <3>4, <3>5 DEF Call
  <2>3. ASSUME NEW t \in Threads, Resume(t) PROVE Kept
    BY <2>3 DEF Resume, ResumeBlock, ResumeDependent, ResumeTake, ResumeTimeout,
                TakeTurn, TakeFree, TakeOwn, TakeContended
  <2> QED BY <2>1, <2>2, <2>3 DEF Next
<1> QED BY <1>1, Invariance, PTL DEF Spec, WakeupsKept

\* A turn of sched_component_take keeps the inheritance.
LEMMA TakeInherits ==
  ASSUME IInv, InheritedPriority, NEW t \in Threads, NEW s \in Spds, t = curr,
         pc[t] \in {"run", "take"}, TakeTurn(t, s)
  PROVE  InheritedPriority'
<1> USE DEF IInv, TypeOK, SwitchType
<1>1. CASE TakeFree(t, s)
  <2>1. ASSUME NEW p \in Threads \ {curr} PROVE Waits(p)' \in {Waits(p), curr}
    BY <1>1, SchedAssumption DEF TakeFree, Waits, DependencyOf, NoSpd
  <2> QED BY <1>1, <2>1, StayInherits DEF TakeFree
<1>2. CASE TakeOwn(t, s)
  <2>1. ASSUME NEW p \in Threads \ {curr} PROVE Waits(p)' \in {Waits(p), curr}
    BY <1>2 DEF TakeOwn, Waits, DependencyOf
  <2> QED BY <1>2, <2>1, StayInherits DEF TakeOwn
<1>3. CASE TakeContended(t, s)
  <2> DEFINE n == holding_thd[s]
             dp == [dependent EXCEPT ![t] = TRUE]
             ct == [contended_component EXCEPT ![t] = s]
  <2>1. n \in Threads /\ SwitchTo(n, dp, ct) /\ blocked' = blocked
    BY <1>3 DEF TakeContended
  <2>2. dp \in [Threads -> BOOLEAN] /\ ct \in [Threads -> Spds \cup {NoSpd}]
    OBVIOUS
  <2>3. dependency_thd[t] = NoThd
    BY DEF CallState, InCall
  <2>4. DependencyOf(t, dp, dependency_thd', ct, holding_thd') = n
    BY <1>3, <2>3, SchedAssumption DEF TakeContended, DependencyOf, NoSpd
  <2>5. ASSUME NEW p \in Threads \ {t}
        PROVE  DependencyOf(p, dp, dependency_thd', ct, holding_thd') = Waits(p)
    BY <1>3 DEF TakeContended, DependencyOf, Waits
  <2> HIDE DEF n, dp, ct, IInv, TypeOK, SwitchType
  <2> QED BY <2>1, <2>2, <2>4, <2>5, HelpInherits
<1> QED BY <1>1, <1>2, <1>3 DEF TakeTurn

\* Every other call and every tick keeps it.
LEMMA NextInherits == IInv /\ InheritedPriority /\ [Next]_vars => InheritedPriority'
<1> SUFFICES ASSUME IInv, InheritedPriority, [Next]_vars PROVE InheritedPriority'
  OBVIOUS
<1>0. /\ curr \in Threads
      /\ dependent \in [Threads -> BOOLEAN]
      /\ contended_component \in [Threads -> Spds \cup {NoSpd}]
  BY DEF IInv, TypeOK, SwitchType
<1>1. ASSUME StayOnCurr, UNCHANGED <<blocked, dependency_thd, holding_thd>>
      PROVE  InheritedPriority'
  <2>1. ASSUME NEW p \in Threads \ {curr} PROVE Waits(p)' \in {Waits(p), curr}
    BY <1>1 DEF StayOnCurr, Waits
  <2> QED BY <1>0, <1>1, <2>1, StayInherits DEF StayOnCurr
<1>2. CASE UNCHANGED vars
  BY <1>1, <1>2 DEF vars, StayOnCurr
<1>3. CASE Tick
  BY <1>0, <1>3, ScheduleInherits DEF Tick, TickNoWakeup, TickWakeup
<1>4. ASSUME NEW t \in Threads, Call(t) PROVE InheritedPriority'
  <2>1. ASSUME NEW s \in Spds, BlockRefused(t, s) \/ BlockAlreadyWoken(t, s)
        PROVE  InheritedPriority'
    BY Zenon, <1>1, <2>1 DEF BlockRefused, BlockAlreadyWoken
  <2>2. ASSUME NEW s \in Spds, BlockNoDependency(t, s) \/ ComponentRelease(t, s)
        PROVE  InheritedPriority'
    BY <1>0, <2>2, ScheduleInherits DEF BlockNoDependency, ComponentRelease
  <2>3. ASSUME NEW s \in Spds, ComponentTake(t, s) PROVE InheritedPriority'
    BY <2>3, TakeInherits DEF ComponentTake, Running
  <2>4. ASSUME NEW s \in Spds, NEW dep \in Threads, BlockOnDependency(t, s, dep)
        PROVE  InheritedPriority'
    <3> DEFINE dp == [dependent EXCEPT ![t] = TRUE]
    <3>1. SwitchTo(dep, dp, contended_component) /\ blocked' = blocked /\ t = curr
      BY <2>4 DEF BlockOnDependency, MayBlock, Running
    <3>2. dp \in [Threads -> BOOLEAN]
      BY <1>0
    <3>3. DependencyOf(t, dp, dependency_thd', contended_component, holding_thd') = dep
      BY Zenon, <1>0, <2>4, SchedAssumption DEF BlockOnDependency, DependencyOf, IInv, TypeOK
    <3>4. ASSUME NEW p \in Threads \ {t}
          PROVE  DependencyOf(p, dp, dependency_thd', contended_component, holding_thd')
                   = Waits(p)
      BY <1>0, <2>4 DEF BlockOnDependency, DependencyOf, Waits, IInv, TypeOK
    <3> HIDE DEF dp
    <3> QED BY <1>0, <3>1, <3>2, <3>3, <3>4, HelpInherits
  <2>5. ASSUME NEW s \in Spds, NEW dep \in Threads, BlockOnBlocked(t, s, dep)
        PROVE  InheritedPriority'
    BY Zenon, <1>2, <2>5 DEF BlockOnBlocked
  <2>6. ASSUME NEW u \in Threads, WakeDependent(t, u) PROVE InheritedPriority'
    <3>1. [dependent EXCEPT ![u] = FALSE] \in [Threads -> BOOLEAN]
      BY <1>0
    <3> QED BY Zenon, <1>0, <2>6, <3>1, ScheduleInherits DEF WakeDependent
  <2>7. ASSUME NEW u \in Threads, WakeNotBlocked(t, u) PROVE InheritedPriority'
    BY Zenon, <1>1, <2>7 DEF WakeNotBlocked
  <2>8. ASSUME NEW u \in Threads, WakeBlocked(t, u) PROVE InheritedPriority'
    BY <1>0, <2>8, ScheduleInherits DEF WakeBlocked
  <2>9. ASSUME NEW amnt \in 1..MaxTimeout, Timeout(t, amnt) PROVE InheritedPriority'
    BY <1>1, <2>9 DEF Timeout
  <2>10. ASSUME NEW amnt \in 1..MaxTimeout, TimeoutSleep(t, amnt) PROVE InheritedPriority'
    BY <1>0, <2>10, ScheduleInherits DEF TimeoutSleep
  <2> QED BY <1>4, <2>1, <2>2, <2>3, <2>4, <2>5, <2>6, <2>7, <2>8, <2>9, <2>10 DEF Call
<1>5. ASSUME NEW t \in Threads, Resume(t) PROVE InheritedPriority'
  <2>1. CASE ResumeBlock(t) \/ ResumeTimeout(t)
    BY <1>1, <2>1 DEF ResumeBlock, ResumeTimeout
  <2>2. CASE ResumeDependent(t)
    <3>1. ASSUME NEW p \in Threads \ {curr} PROVE Waits(p)' \in {Waits(p), curr}
      BY <2>2 DEF ResumeDependent, Waits, DependencyOf, IInv, TypeOK, SwitchType
    <3> QED BY <1>0, <2>2, <3>1, StayInherits DEF ResumeDependent
  <2>3. CASE ResumeTake(t)
    <3>1. want[t] \in Spds
      BY Zenon, <2>3 DEF ResumeTake, IInv, CallState, InCall
    <3> QED BY <2>3, <3>1, TakeInherits DEF ResumeTake
  <2> QED BY <1>5, <2>1, <2>2, <2>3 DEF Resume
<1> QED BY <1>2, <1>3, <1>4, <1>5 DEF Next

\* Priority inheritance: the core always runs a ready thread of the best
\* priority, or the thread at the end of what such a thread waits for.
THEOREM PriorityAlwaysInherited == Spec => []InheritedPriority
<1>1. Init => InheritedPriority
  BY DEF Init, InheritedPriority, Reaches, Leads
<1> QED BY <1>1, NextInherits, Invariance, PTL DEF Spec
=============================================================================
