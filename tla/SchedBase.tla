------------------------------ MODULE SchedBase ------------------------------
(***************************************************************************)
(* The root scheduler of one core: blocking and waking threads with a wake *)
(* count, dependencies (priority inheritance) and the per-component        *)
(* critical sections that every other system component synchronises with   *)
(* (sched/__cos_sched_base_rec, sched/cos_scheduler.h).                    *)
(*                                                                         *)
(* Everything the scheduler does while it holds its own lock is one step;  *)
(* a thread that is switched away inside a call continues the call in a    *)
(* Resume step of its own.  `curr' is the thread the core executes.        *)
(***************************************************************************)
EXTENDS Integers, FiniteSets

CONSTANTS
  Threads,      \* threads known to the scheduler (sched_thd_map)
  Idle,         \* the idle thread: always ready, makes no scheduler calls
  TimerThd,     \* the thread registered by sched_timeout_thd
  Spds,         \* ids of the components whose critical section is used
  NoThd,        \* the NULL thread pointer
  SchedSpd,     \* the scheduler's own component id
  Priority,     \* Priority[t]: 0 is the most urgent (fprr/fp_rr.c)
  MaxTimeout    \* bound on the argument of sched_timeout

ASSUME SchedAssumption ==
  /\ IsFiniteSet(Threads)
  /\ IsFiniteSet(Spds)
  /\ Idle \in Threads
  /\ TimerThd \in Threads \ {Idle}
  /\ NoThd \notin Threads
  /\ Spds \subseteq Nat \ {0}
  /\ SchedSpd \in Nat \ (Spds \cup {0})
  /\ Priority \in [Threads -> Nat]
  /\ \A t \in Threads \ {Idle} : Priority[t] < Priority[Idle]
  /\ MaxTimeout \in Nat \ {0}

VARIABLES
  curr,                 \* the executing thread
  pc,                   \* "run", or the call the thread was switched away in
  wake_cnt,             \* 0 asleep, 1 running, 2 woken before it blocked
  blocked,              \* THD_BLOCKED (off the run queue)
  dependent,            \* THD_DEPENDENCY
  dependency_thd,       \* the thread a sched_block depends on
  blocking_component,
  contended_component,  \* section a sched_component_take waits for
  want,                 \* the spdid argument of a pending sched_component_take
  ncs_held,             \* number of critical sections held
  holding_thd,          \* holder of each component's critical section
  wakeup_in             \* ticks until wakeup_time; -1: wakeup_time = 0

vars == <<curr, pc, wake_cnt, blocked, dependent, dependency_thd,
          blocking_component, contended_component, want, ncs_held,
          holding_thd, wakeup_in>>

NoTimeout == -1

NoSpd == 0

\* What a switch between threads changes.
SwitchType ==
  /\ curr \in Threads
  /\ dependent \in [Threads -> BOOLEAN]
  /\ contended_component \in [Threads -> Spds \cup {NoSpd}]

TypeOK ==
  /\ SwitchType
  /\ pc \in [Threads -> {"run", "block", "timeout", "take"}]
  /\ wake_cnt \in [Threads -> 0..2]
  /\ blocked \in [Threads -> BOOLEAN]
  /\ dependency_thd \in [Threads -> Threads \cup {NoThd}]
  /\ blocking_component \in [Threads -> Spds \cup {NoSpd, SchedSpd}]
  /\ want \in [Threads -> Spds \cup {NoSpd}]
  /\ ncs_held \in [Threads -> Nat]
  /\ holding_thd \in [Spds -> Threads \cup {NoThd}]
  /\ wakeup_in \in NoTimeout..MaxTimeout

-----------------------------------------------------------------------------
(* Scheduling decisions *)

\* __sched_thd_dependency: what p waits for, given the flags, dependency
\* threads, contended components and holders.
DependencyOf(p, dp, dt, ct, ht) ==
  IF ~dp[p] THEN NoThd
  ELSE IF dt[p] # NoThd THEN dt[p]
  ELSE IF ct[p] = NoSpd THEN NoThd
  ELSE ht[ct[p]]

\* The walk of sched_thd_dependency from n comes to e: a set that holds n, and
\* with each thread the one it waits for, holds e.
Leads(n, e, dp, dt, ct, ht) ==
  \A S \in SUBSET Threads :
    /\ n \in S
    /\ \A p \in S : DependencyOf(p, dp, dt, ct, ht) \in S \cup {NoThd}
    => e \in S

\* resolve_dependencies and the switch of sched_switch_thread_target.  The
\* walk ends at a thread that waits for nobody (on a cycle it does not return)
\* and drops the flag of a contender whose critical section is free again.
\* A chain that ends in a thread that is not ready runs its first thread.
SwitchTo(n, dp, ct) ==
  \E e \in Threads :
    /\ Leads(n, e, dp, dependency_thd', ct, holding_thd')
    /\ DependencyOf(e, dp, dependency_thd', ct, holding_thd') = NoThd
    /\ dependent' = [dp EXCEPT ![e] = FALSE]
    /\ contended_component' = IF dp[e] THEN [ct EXCEPT ![e] = NoSpd] ELSE ct
    /\ curr' = IF blocked'[e] THEN n ELSE e

\* schedule(NULL) of the fixed-priority policy: a ready thread of the best
\* priority.  Which one among equals depends on quantum accounting.
HighestPrio(t) ==
  /\ ~blocked'[t]
  /\ \A u \in Threads : ~blocked'[u] => Priority[t] =< Priority[u]

Schedule(dp, ct) == \E n \in Threads : HighestPrio(n) /\ SwitchTo(n, dp, ct)

StayOnCurr == UNCHANGED <<curr, dependent, contended_component>>

-----------------------------------------------------------------------------
(* Wake counts *)

\* Mutant: wakeups are counted without a cap.
PreWakeupUncapped(t) == wake_cnt[t] + 1

\* Mutant: a wakeup beyond the cap starts the count again.
PreWakeupWraps(t) == IF wake_cnt[t] = 2 THEN 1 ELSE wake_cnt[t] + 1

fp_pre_wakeup(t) == IF wake_cnt[t] = 2 THEN 2 ELSE wake_cnt[t] + 1

\* Mutant: the blocking component is not reset.
WakeupKeepsComponent(t) ==
  /\ blocked' = [blocked EXCEPT ![t] = FALSE]
  /\ UNCHANGED blocking_component

\* fp_wakeup and fp_resume_thd
fp_wakeup(t) ==
  /\ blocked' = [blocked EXCEPT ![t] = FALSE]
  /\ blocking_component' = [blocking_component EXCEPT ![t] = NoSpd]

\* fp_block and fp_block_thd
fp_block(t, spdid) ==
  /\ blocked' = [blocked EXCEPT ![t] = TRUE]
  /\ blocking_component' = [blocking_component EXCEPT ![t] = spdid]

Init ==
  /\ curr \in {t \in Threads : \A u \in Threads : Priority[t] =< Priority[u]}
  /\ pc = [t \in Threads |-> "run"]
  /\ wake_cnt = [t \in Threads |-> 1]
  /\ blocked = [t \in Threads |-> FALSE]
  /\ dependent = [t \in Threads |-> FALSE]
  /\ dependency_thd = [t \in Threads |-> NoThd]
  /\ blocking_component = [t \in Threads |-> NoSpd]
  /\ contended_component = [t \in Threads |-> NoSpd]
  /\ want = [t \in Threads |-> NoSpd]
  /\ ncs_held = [t \in Threads |-> 0]
  /\ holding_thd = [s \in Spds |-> NoThd]
  /\ wakeup_in = NoTimeout

\* The executing thread is in client code and may call the scheduler.
Running(t) == t = curr /\ t # Idle /\ pc[t] = "run"

\* Whether following what each thread waits for leads from n to t.
Reaches(n, t) ==
  Leads(n, t, dependent, dependency_thd, contended_component, holding_thd)

-----------------------------------------------------------------------------
(* sched_block(spdid, dep_thd) *)

\* "Blocking while holding lock": -1, and a pending wakeup is consumed.
BlockRefused(t, spdid) ==
  /\ Running(t)
  /\ ncs_held[t] # 0 \/ blocking_component[t] \notin {NoSpd, spdid}
  /\ wake_cnt' = [wake_cnt EXCEPT ![t] = IF wake_cnt[t] = 2 THEN 1 ELSE wake_cnt[t]]
  /\ StayOnCurr
  /\ UNCHANGED <<pc, blocked, dependency_thd, blocking_component, want, ncs_held,
                 holding_thd, wakeup_in>>

\* Mutant: a thread inside a critical section may block.
MayBlockInSection(t, spdid) == Running(t) /\ blocking_component[t] \in {NoSpd, spdid}

MayBlock(t, spdid) ==
  /\ Running(t)
  /\ ncs_held[t] = 0
  /\ blocking_component[t] \in {NoSpd, spdid}

\* The wakeup came first: the call returns at once.
BlockAlreadyWoken(t, spdid) ==
  /\ MayBlock(t, spdid)
  /\ wake_cnt[t] = 2
  /\ wake_cnt' = [wake_cnt EXCEPT ![t] = 1]
  /\ StayOnCurr
  /\ UNCHANGED <<pc, blocked, dependency_thd, blocking_component, want, ncs_held,
                 holding_thd, wakeup_in>>

BlockNoDependency(t, spdid) ==
  /\ MayBlock(t, spdid)
  /\ wake_cnt[t] = 1
  /\ wake_cnt' = [wake_cnt EXCEPT ![t] = 0]
  /\ fp_block(t, spdid)
  /\ pc' = [pc EXCEPT ![t] = "block"]
  /\ UNCHANGED <<dependency_thd, want, ncs_held, holding_thd, wakeup_in>>
  /\ Schedule(dependent, contended_component)

\* Mutant: a thread that sleeps is accepted as the dependency.
BlockOnDependencyUnchecked(t, spdid, dep) ==
  /\ MayBlock(t, spdid)
  /\ wake_cnt[t] = 1
  /\ ~Reaches(dep, t)
  /\ wake_cnt' = [wake_cnt EXCEPT ![t] = 0]
  /\ dependency_thd' = [dependency_thd EXCEPT ![t] = dep]
  /\ pc' = [pc EXCEPT ![t] = "block"]
  /\ UNCHANGED <<blocked, blocking_component, want, ncs_held, holding_thd, wakeup_in>>
  /\ SwitchTo(dep, [dependent EXCEPT ![t] = TRUE], contended_component)

\* A dependent thread stays on the run queue; the core switches to dep.
\* Clients take the locks they build on sched_block in an order, so dep, the
\* owner, does not wait for the caller; the code asserts this for cycles of
\* two and leaves longer ones undetected.
BlockOnDependency(t, spdid, dep) ==
  /\ MayBlock(t, spdid)
  /\ wake_cnt[t] = 1
  /\ ~Reaches(dep, t)
  /\ ~blocked[dep]
  /\ wake_cnt' = [wake_cnt EXCEPT ![t] = 0]
  /\ dependency_thd' = [dependency_thd EXCEPT ![t] = dep]
  /\ pc' = [pc EXCEPT ![t] = "block"]
  /\ UNCHANGED <<blocked, blocking_component, want, ncs_held, holding_thd, wakeup_in>>
  /\ SwitchTo(dep, [dependent EXCEPT ![t] = TRUE], contended_component)

\* Mutant: the wake count is not restored on the error path.
BlockOnBlockedCountDown(t, spdid, dep) ==
  /\ MayBlock(t, spdid)
  /\ wake_cnt[t] = 1
  /\ dep # t
  /\ blocked[dep]
  /\ wake_cnt' = [wake_cnt EXCEPT ![t] = 0]
  /\ StayOnCurr
  /\ UNCHANGED <<pc, want, blocked, dependency_thd, blocking_component, ncs_held,
                 holding_thd, wakeup_in>>

\* dep is blocked itself: the count goes down and up again, and -1 returns.
BlockOnBlocked(t, spdid, dep) ==
  /\ MayBlock(t, spdid)
  /\ wake_cnt[t] = 1
  /\ dep # t
  /\ blocked[dep]
  /\ UNCHANGED vars

\* The caller is switched to again inside the wait loop, awake: a second
\* wakeup that came in the meantime is dropped.
ResumeBlock(t) ==
  /\ t = curr
  /\ pc[t] = "block"
  /\ ~dependent[t]
  /\ wake_cnt[t] > 0
  /\ pc' = [pc EXCEPT ![t] = "run"]
  /\ wake_cnt' = [wake_cnt EXCEPT ![t] = 1]
  /\ StayOnCurr
  /\ UNCHANGED <<blocked, dependency_thd, blocking_component, want, ncs_held,
                 holding_thd, wakeup_in>>

\* It is switched to and still dependent: the thread it depends on suspended
\* itself.  The dependency is dropped and -1 returned.
ResumeDependent(t) ==
  /\ t = curr
  /\ pc[t] = "block"
  /\ dependent[t]
  /\ pc' = [pc EXCEPT ![t] = "run"]
  /\ wake_cnt' = [wake_cnt EXCEPT ![t] = 1]
  /\ dependent' = [dependent EXCEPT ![t] = FALSE]
  /\ dependency_thd' = [dependency_thd EXCEPT ![t] = NoThd]
  /\ UNCHANGED <<curr, blocked, blocking_component, contended_component,
                 want, ncs_held, holding_thd, wakeup_in>>

-----------------------------------------------------------------------------
(* sched_wakeup(spdid, thd_id) *)

WakeDependent(t, u) ==
  /\ Running(t)
  /\ dependency_thd[u] # NoThd
  /\ wake_cnt' = [wake_cnt EXCEPT ![u] = fp_pre_wakeup(u)]
  /\ dependency_thd' = [dependency_thd EXCEPT ![u] = NoThd]
  /\ UNCHANGED <<pc, blocked, blocking_component, want, ncs_held, holding_thd, wakeup_in>>
  /\ Schedule([dependent EXCEPT ![u] = FALSE], contended_component)

\* u is not asleep: the wakeup is only counted.
WakeNotBlocked(t, u) ==
  /\ Running(t)
  /\ dependency_thd[u] = NoThd
  /\ ~dependent[u]
  /\ ~blocked[u]
  /\ wake_cnt' = [wake_cnt EXCEPT ![u] = fp_pre_wakeup(u)]
  /\ StayOnCurr
  /\ UNCHANGED <<pc, blocked, dependency_thd, blocking_component, want, ncs_held,
                 holding_thd, wakeup_in>>

\* Mutant: the caller runs on without a scheduling decision.
WakeBlockedNoSwitch(t, u) ==
  /\ Running(t)
  /\ dependency_thd[u] = NoThd
  /\ ~dependent[u]
  /\ blocked[u]
  /\ wake_cnt' = [wake_cnt EXCEPT ![u] = fp_pre_wakeup(u)]
  /\ fp_wakeup(u)
  /\ UNCHANGED <<pc, want, dependency_thd, ncs_held, holding_thd, wakeup_in>>
  /\ StayOnCurr

WakeBlocked(t, u) ==
  /\ Running(t)
  /\ dependency_thd[u] = NoThd
  /\ ~dependent[u]
  /\ blocked[u]
  /\ wake_cnt' = [wake_cnt EXCEPT ![u] = fp_pre_wakeup(u)]
  /\ fp_wakeup(u)
  /\ UNCHANGED <<pc, dependency_thd, want, ncs_held, holding_thd, wakeup_in>>
  /\ Schedule(dependent, contended_component)

-----------------------------------------------------------------------------
(* sched_component_take(spdid), sched_component_release(spdid) *)

\* One turn of the loop of sched_component_take with the section available.
TakeFree(t, s) ==
  /\ holding_thd[s] = NoThd
  /\ holding_thd' = [holding_thd EXCEPT ![s] = t]
  /\ ncs_held' = [ncs_held EXCEPT ![t] = @ + 1]
  /\ contended_component' = [contended_component EXCEPT ![t] = NoSpd]
  /\ dependent' = [dependent EXCEPT ![t] = FALSE]
  /\ pc' = [pc EXCEPT ![t] = "run"]
  /\ want' = [want EXCEPT ![t] = NoSpd]
  /\ UNCHANGED <<curr, wake_cnt, blocked, dependency_thd, blocking_component, wakeup_in>>

\* Mutant: the recursive take is counted as one more section.
TakeOwnCounted(t, s) ==
  /\ holding_thd[s] = t
  /\ ncs_held[t] < Cardinality(Spds) + 1
  /\ ncs_held' = [ncs_held EXCEPT ![t] = @ + 1]
  /\ dependent' = [dependent EXCEPT ![t] = FALSE]
  /\ pc' = [pc EXCEPT ![t] = "run"]
  /\ want' = [want EXCEPT ![t] = NoSpd]
  /\ UNCHANGED <<curr, wake_cnt, blocked, dependency_thd, blocking_component,
                 contended_component, holding_thd, wakeup_in>>

\* The holder takes the section again, as after a fault inside it.
TakeOwn(t, s) ==
  /\ holding_thd[s] = t
  /\ dependent' = [dependent EXCEPT ![t] = FALSE]
  /\ pc' = [pc EXCEPT ![t] = "run"]
  /\ want' = [want EXCEPT ![t] = NoSpd]
  /\ UNCHANGED <<curr, wake_cnt, blocked, dependency_thd, blocking_component,
                 contended_component, ncs_held, holding_thd, wakeup_in>>

\* Mutant: the contender tries again without running the holder.
TakeContendedSpins(t, s) ==
  /\ holding_thd[s] \notin {NoThd, t}
  /\ pc' = [pc EXCEPT ![t] = "take"]
  /\ want' = [want EXCEPT ![t] = s]
  /\ StayOnCurr
  /\ UNCHANGED <<wake_cnt, blocked, dependency_thd, blocking_component,
                 ncs_held, holding_thd, wakeup_in>>

\* Someone else holds it: help by switching to the holder.
TakeContended(t, s) ==
  /\ holding_thd[s] \notin {NoThd, t}
  /\ pc' = [pc EXCEPT ![t] = "take"]
  /\ want' = [want EXCEPT ![t] = s]
  /\ UNCHANGED <<wake_cnt, blocked, dependency_thd, blocking_component,
                 ncs_held, holding_thd, wakeup_in>>
  /\ SwitchTo(holding_thd[s], [dependent EXCEPT ![t] = TRUE],
              [contended_component EXCEPT ![t] = s])

\* Components release a section they hold, or one nobody holds (a fault can
\* hit before the section was taken).
ComponentRelease(t, s) ==
  /\ Running(t)
  /\ holding_thd[s] \in {t, NoThd}
  /\ holding_thd' = [holding_thd EXCEPT ![s] = NoThd]
  /\ ncs_held' = IF holding_thd[s] = t THEN [ncs_held EXCEPT ![t] = @ - 1] ELSE ncs_held
  /\ UNCHANGED <<pc, wake_cnt, want, blocked, dependency_thd, blocking_component, wakeup_in>>
  /\ Schedule(dependent, contended_component)

TakeTurn(t, s) == TakeFree(t, s) \/ TakeOwn(t, s) \/ TakeContended(t, s)

\* Nested sections follow the invocation order of the components.
ComponentTake(t, s) ==
  /\ Running(t)
  /\ \A r \in Spds : holding_thd[r] = t => r =< s
  /\ TakeTurn(t, s)

ResumeTake(t) ==
  /\ t = curr
  /\ pc[t] = "take"
  /\ TakeTurn(t, want[t])

-----------------------------------------------------------------------------
(* sched_timeout(spdid, amnt) and the timer tick *)

\* Mutant: the latest timeout wins.
LaterOf(amnt) == IF wakeup_in = NoTimeout \/ amnt > wakeup_in THEN amnt ELSE wakeup_in

\* The earliest timeout wins.
EarlierOf(amnt) ==
  IF wakeup_in = NoTimeout \/ amnt < wakeup_in THEN amnt ELSE wakeup_in

\* Other threads move the timeout; the timer thread also sleeps, unless a
\* wakeup is pending.  It calls with no critical section held.
Timeout(t, amnt) ==
  /\ Running(t)
  /\ t # TimerThd \/ wake_cnt[t] = 2
  /\ wakeup_in' = EarlierOf(amnt)
  /\ wake_cnt' = IF t = TimerThd THEN [wake_cnt EXCEPT ![t] = 1] ELSE wake_cnt
  /\ StayOnCurr
  /\ UNCHANGED <<pc, want, blocked, dependency_thd, blocking_component, ncs_held, holding_thd>>

TimeoutSleep(t, amnt) ==
  /\ Running(t)
  /\ t = TimerThd
  /\ wake_cnt[t] = 1
  /\ ncs_held[t] = 0
  /\ wakeup_in' = EarlierOf(amnt)
  /\ wake_cnt' = [wake_cnt EXCEPT ![t] = 0]
  /\ fp_block(t, SchedSpd)
  /\ pc' = [pc EXCEPT ![t] = "timeout"]
  /\ UNCHANGED <<want, dependency_thd, ncs_held, holding_thd>>
  /\ Schedule(dependent, contended_component)

ResumeTimeout(t) ==
  /\ t = curr
  /\ pc[t] = "timeout"
  /\ pc' = [pc EXCEPT ![t] = "run"]
  /\ StayOnCurr
  /\ UNCHANGED <<wake_cnt, want, blocked, dependency_thd, blocking_component,
                 ncs_held, holding_thd, wakeup_in>>

\* sched_timer_tick increments ticks twice: once on its own and once in the
\* argument of COS_SCHED_TRACK_TICKS.
TicksPerTick == 2

Remaining ==
  IF wakeup_in = NoTimeout THEN NoTimeout
  ELSE IF wakeup_in > TicksPerTick THEN wakeup_in - TicksPerTick ELSE 0

\* No timeout is due, or the timer thread already has a wakeup pending.
TickNoWakeup ==
  /\ Remaining = 0 => wake_cnt[TimerThd] = 2
  /\ wakeup_in' = Remaining
  /\ UNCHANGED <<pc, wake_cnt, want, blocked, dependency_thd, blocking_component,
                 ncs_held, holding_thd>>
  /\ Schedule(dependent, contended_component)

\* sched_process_wakeups: the timeout is due.
TickWakeup ==
  /\ Remaining = 0
  /\ wake_cnt[TimerThd] < 2
  /\ wakeup_in' = NoTimeout
  /\ wake_cnt' = [wake_cnt EXCEPT ![TimerThd] = fp_pre_wakeup(TimerThd)]
  /\ IF blocked[TimerThd] THEN fp_wakeup(TimerThd)
                          ELSE UNCHANGED <<blocked, blocking_component>>
  /\ UNCHANGED <<pc, want, dependency_thd, ncs_held, holding_thd>>
  /\ Schedule(dependent, contended_component)

Tick == TickNoWakeup \/ TickWakeup
-----------------------------------------------------------------------------
Call(t) ==
  \/ \E s \in Spds : \/ BlockRefused(t, s)
                     \/ BlockAlreadyWoken(t, s)
                     \/ BlockNoDependency(t, s)
                     \/ ComponentTake(t, s)
                     \/ ComponentRelease(t, s)
  \/ \E s \in Spds, dep \in Threads : \/ BlockOnDependency(t, s, dep)
                                      \/ BlockOnBlocked(t, s, dep)
  \/ \E u \in Threads \ {Idle} : \/ WakeDependent(t, u)
                                 \/ WakeNotBlocked(t, u)
                                 \/ WakeBlocked(t, u)
  \/ \E amnt \in 1..MaxTimeout : Timeout(t, amnt) \/ TimeoutSleep(t, amnt)

Resume(t) == ResumeBlock(t) \/ ResumeDependent(t) \/ ResumeTake(t) \/ ResumeTimeout(t)

Next == Tick \/ \E t \in Threads : Call(t) \/ Resume(t)

Spec == Init /\ [][Next]_vars

\* The core always runs on; a woken thread finishes its call when it is
\* switched to; a component that runs inside its critical section leaves it.
LeaveSection(t, s) == holding_thd[s] = t /\ ComponentRelease(t, s)

Fairness ==
  /\ WF_vars(Tick)
  /\ \A t \in Threads \ {Idle} : WF_vars(Resume(t))
  /\ \A t \in Threads \ {Idle}, s \in Spds : SF_vars(LeaveSection(t, s))

FairSpec == Spec /\ Fairness
-----------------------------------------------------------------------------
(* Properties *)

\* The wake count means what struct sched_thd says of it ("0 = blocked, 1 =
\* running, 2 = received a wake for a block that hasn't happened yet"): a
\* blocked thread has count 0, a thread with count 0 is blocked or waits for
\* the thread it depends on, and only the timer thread, whose timeout may
\* come while it waits for a lock, is dependent with a positive count.
WakeCountAgrees ==
  \A t \in Threads :
    /\ blocked[t] => wake_cnt[t] = 0
    /\ wake_cnt[t] = 0 => blocked[t] \/ dependency_thd[t] # NoThd
    /\ dependency_thd[t] # NoThd /\ t # TimerThd => wake_cnt[t] = 0

InCall(t) ==
  /\ blocked[t] => ~dependent[t]
  /\ blocked[t] <=> blocking_component[t] # NoSpd
  /\ dependency_thd[t] # NoThd => dependent[t]
  /\ dependent[t] /\ dependency_thd[t] = NoThd => contended_component[t] # NoSpd
  /\ contended_component[t] # NoSpd => dependent[t] /\ pc[t] = "take"
  /\ pc[t] = "run" => ~blocked[t] /\ ~dependent[t]
  /\ pc[t] = "take" => /\ ~blocked[t]
                       /\ dependency_thd[t] = NoThd
                       /\ want[t] \in Spds
                       /\ holding_thd[want[t]] # t
  /\ pc[t] = "timeout" => ~dependent[t] /\ ncs_held[t] = 0
  /\ pc[t] = "block" => ncs_held[t] = 0

\* The flags of a thread agree with the call it is in: a thread in client code
\* is not blocked, dependent or contending (the assertions that end
\* sched_block, sched_component_take and sched_component_release), a contender
\* is not blocked, a sleeper holds no critical section, and a thread waits in
\* one way at a time (the assertions of sched_wakeup and fp_resume_thd).
CallState == \A t \in Threads : InCall(t)

\* ncs_held counts the critical sections the thread holds, so the test of
\* sched_block for a caller inside a section is exact.
SectionsAccounted ==
  \A t \in Threads : ncs_held[t] = Cardinality({s \in Spds : holding_thd[s] = t})

\* The holder of a critical section never sleeps in the scheduler, so the
\* threads it delays can always help it by running it
\* (assert(!sched_thd_blocked(cs->holding_thd))).
HolderCanRun ==
  \A s \in Spds : holding_thd[s] # NoThd =>
    ~blocked[holding_thd[s]] /\ dependency_thd[holding_thd[s]] = NoThd

\* The core never runs a blocked thread (assert(!sched_thd_blocked(next))).
RunsReady == ~blocked[curr]

\* Priority inheritance: the core runs a ready thread of the best priority or
\* one that such a thread waits for.
InheritedPriority ==
  \E h \in Threads :
    /\ ~blocked[h]
    /\ \A u \in Threads : ~blocked[u] => Priority[h] =< Priority[u]
    /\ Reaches(h, curr)

\* A wakeup is consumed by the woken thread only: no step of another thread
\* and no tick lowers a wake count.
WakeupsKept ==
  [][\A t \in Threads : wake_cnt'[t] < wake_cnt[t] => t = curr]_vars

\* Helping: a contender of the best priority gets the critical section.
TopContenderServed ==
  \A t \in Threads :
    (\A u \in Threads \ {t} : Priority[t] < Priority[u]) =>
      ((pc[t] = "take") ~> (pc[t] = "run"))

\* A timeout set with sched_timeout wakes the sleeping timer thread.
TimeoutWakes == (pc[TimerThd] = "timeout") ~> (pc[TimerThd] = "run")
=============================================================================
