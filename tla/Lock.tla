-------------------------------- MODULE Lock --------------------------------
(***************************************************************************)
(* The two-phase lock: the word in client memory that is taken and         *)
(* released with compare-and-swap (include/cos_synchronization.h), the     *)
(* lock component behind it that puts contending threads to sleep          *)
(* (lock/two_phase/__lock_rec), the client and server stubs between the    *)
(* two (interface/lock/__stubs_rec), and a failure of the lock component.  *)
(*                                                                         *)
(* A thread can be preempted between any two accesses to shared memory.    *)
(* The lock component runs in its critical section (sched_component_take); *)
(* one step enters the section and one step does the section's work and    *)
(* leaves it.  pc names the step a thread is about to take.                *)
(***************************************************************************)
EXTENDS Integers, FiniteSets

CONSTANTS
  Threads,     \* client threads, all of one component
  NoThd,       \* thread id 0
  Locks,       \* client lock ids; nested locks are taken in their order
  MaxFaults    \* bound on the failures of the lock component

ASSUME LockAssumption ==
  /\ IsFiniteSet(Threads)
  /\ NoThd \notin Threads
  /\ Locks \subseteq Nat
  /\ IsFiniteSet(Locks)
  /\ Locks # {}
  /\ MaxFaults \in Nat

VARIABLES
  \* client memory
  atom,            \* atom[l]: the lock word, owner and contested
  held,            \* held[t]: locks t took and has not released
  server_lock_id,  \* server_lock_id[l]: the descriptor of l in the client stub
  \* each thread
  pc,
  lk,              \* the lock the thread operates on
  prev,            \* its copy of the lock word (prev_val)
  call,            \* the invocation it makes: "pretake", "take" or "release"
  id,              \* that invocation's lock_id, or the result of an allocation
  \* the lock component's memory
  lock_id,         \* next id lock_alloc hands out
  gen_zero,        \* generation = 0
  current,         \* ids of the locks with gen_num = generation: generation only
                   \* grows, so this and gen_zero are all the code can observe
  blocked_on,      \* the lock whose b_thds holds the thread, 0 if none
  waking,          \* threads of the list a lock_component_release detached
  tracked,         \* threads of the server stub's tracking_block_list
  \* the scheduler
  holding_thd,     \* holder of the lock component's critical section
  wake_cnt,
  \* failures
  faults,
  notify,          \* sleeping threads the recovery thread has yet to wake
  failed           \* an assertion of the client or the scheduler has failed

client == <<atom, held, server_lock_id>>
local  == <<lk, prev, call, id>>
server == <<lock_id, gen_zero, current, blocked_on, waking, tracked>>
fault  == <<faults, notify, failed>>

vars == <<client, pc, local, server, holding_thd, wake_cnt, fault>>

Word == [owner : Threads \cup {NoThd}, contested : BOOLEAN]

Free == [owner |-> NoThd, contested |-> FALSE]

NoId == 0

\* Steps in the critical section of the lock component.
SectionPc == {"pretake", "track", "take", "untrack", "release", "alloc"}

\* Steps of a thread that executes in the lock component.
ServerPc == SectionPc \cup {"block", "wake", "done"}

Pc == ServerPc \cup
      {"client", "read", "cas", "owner", "contested", "mark", "marked",  \* lock_take
       "release_read", "release_cas", "release_zero",           \* lock_release
       "call", "cons",                                          \* client stub
       "asleep",                                                \* sched_block
       "stale", "recover", "recover_alloc"}                     \* after a failure

TypeOK ==
  /\ atom \in [Locks -> Word]
  /\ held \in [Threads -> SUBSET Locks]
  /\ server_lock_id \in [Locks -> Nat]
  /\ pc \in [Threads -> Pc]
  /\ lk \in [Threads -> Locks]
  /\ prev \in [Threads -> Word]
  /\ call \in [Threads -> {"pretake", "take", "release"}]
  /\ id \in [Threads -> Nat]
  /\ lock_id \in Nat \ {0}
  /\ gen_zero \in BOOLEAN
  /\ current \subseteq Nat
  /\ blocked_on \in [Threads -> Nat]
  /\ waking \in [Threads -> SUBSET Threads]
  /\ tracked \subseteq Threads
  /\ holding_thd \in Threads \cup {NoThd}
  /\ wake_cnt \in [Threads -> 0..2]
  /\ faults \in 0..MaxFaults
  /\ notify \subseteq Threads
  /\ failed \in BOOLEAN

Goto(t, p) == pc' = [pc EXCEPT ![t] = p]

\* Back in the client's own code; the locals of the call are dead.
Return(t) ==
  /\ Goto(t, "client")
  /\ prev' = [prev EXCEPT ![t] = Free]
  /\ id' = [id EXCEPT ![t] = NoId]
  /\ call' = [call EXCEPT ![t] = "pretake"]
  /\ UNCHANGED lk

\* Each lock was allocated when its component started; the lock component has
\* handed out one id per lock and nothing was contended yet.
Init ==
  /\ atom = [l \in Locks |-> Free]
  /\ held = [t \in Threads |-> {}]
  /\ server_lock_id = [l \in Locks |-> 1 + Cardinality({k \in Locks : k < l})]
  /\ pc = [t \in Threads |-> "client"]
  /\ lk = [t \in Threads |-> CHOOSE l \in Locks : TRUE]
  /\ prev = [t \in Threads |-> Free]
  /\ call = [t \in Threads |-> "pretake"]
  /\ id = [t \in Threads |-> NoId]
  /\ lock_id = 1 + Cardinality(Locks)
  /\ gen_zero = TRUE
  /\ current = 1..Cardinality(Locks)
  /\ blocked_on = [t \in Threads |-> NoId]
  /\ waking = [t \in Threads |-> {}]
  /\ tracked = {}
  /\ holding_thd = NoThd
  /\ wake_cnt = [t \in Threads |-> 1]
  /\ faults = 0
  /\ notify = {}
  /\ failed = FALSE
-----------------------------------------------------------------------------
(* lock_take and lock_release in client memory *)

\* A client calls lock_take(l).  It does not own l (an assertion of
\* __lock_take), and it nests locks in their order.
LockTake(t, l) ==
  /\ pc[t] = "client"
  /\ \A h \in held[t] : h < l
  /\ Goto(t, "read")
  /\ lk' = [lk EXCEPT ![t] = l]
  /\ UNCHANGED <<client, prev, call, id, server, holding_thd, wake_cnt, fault>>

\* Copy the word.  An owner sends the thread down the contention path.
Read(t) ==
  /\ pc[t] = "read"
  /\ prev' = [prev EXCEPT ![t] = atom[lk[t]]]
  /\ IF atom[lk[t]].owner = NoThd
       THEN Goto(t, "cas") /\ UNCHANGED call
       ELSE Goto(t, "call") /\ call' = [call EXCEPT ![t] = "pretake"]
  /\ UNCHANGED <<client, lk, id, server, holding_thd, wake_cnt, fault>>

\* Mutant: the word is stored without comparing it.
CasStore(t) ==
  /\ pc[t] = "cas"
  /\ atom' = [atom EXCEPT ![lk[t]] = [owner |-> t, contested |-> FALSE]]
  /\ held' = [held EXCEPT ![t] = @ \cup {lk[t]}]
  /\ Return(t)
  /\ UNCHANGED <<server_lock_id, server, holding_thd, wake_cnt, fault>>

Cas(t) ==
  /\ pc[t] = "cas"
  /\ IF atom[lk[t]] = prev[t]
       THEN /\ atom' = [atom EXCEPT ![lk[t]] = [owner |-> t, contested |-> FALSE]]
            /\ held' = [held EXCEPT ![t] = @ \cup {lk[t]}]
            /\ Return(t)
       ELSE /\ Goto(t, "read")
            /\ UNCHANGED <<atom, held, local>>
  /\ UNCHANGED <<server_lock_id, server, holding_thd, wake_cnt, fault>>

\* lock_take_contention after the pretake: is the owner still the same?
CheckOwner(t) ==
  /\ pc[t] = "owner"
  /\ Goto(t, IF atom[lk[t]].owner = prev[t].owner THEN "contested" ELSE "read")
  /\ UNCHANGED <<client, local, server, holding_thd, wake_cnt, fault>>

\* Is the word marked as contested already?
CheckContested(t) ==
  /\ pc[t] = "contested"
  /\ IF atom[lk[t]].contested
       THEN Goto(t, "call") /\ call' = [call EXCEPT ![t] = "take"]
       ELSE Goto(t, "mark") /\ UNCHANGED call
  /\ UNCHANGED <<client, lk, prev, id, server, holding_thd, wake_cnt, fault>>

\* Mutant: the word is stored without comparing it.
MarkStore(t) ==
  /\ pc[t] = "mark"
  /\ atom' = [atom EXCEPT ![lk[t]] = [owner |-> prev[t].owner, contested |-> TRUE]]
  /\ Goto(t, "marked")
  /\ UNCHANGED <<held, server_lock_id, local, server, holding_thd, wake_cnt, fault>>

Mark(t) ==
  /\ pc[t] = "mark"
  /\ IF atom[lk[t]] = prev[t]
       THEN /\ atom' = [atom EXCEPT ![lk[t]] = [owner |-> prev[t].owner, contested |-> TRUE]]
            /\ Goto(t, "marked")
       ELSE /\ Goto(t, "read")
            /\ UNCHANGED atom
  /\ UNCHANGED <<held, server_lock_id, local, server, holding_thd, wake_cnt, fault>>

\* assert(l->atom.c.contested), another read of the word.
Marked(t) ==
  /\ pc[t] = "marked"
  /\ atom[lk[t]].contested
  /\ Goto(t, "call")
  /\ call' = [call EXCEPT ![t] = "take"]
  /\ UNCHANGED <<client, lk, prev, id, server, holding_thd, wake_cnt, fault>>

MarkedAssert(t) ==
  /\ pc[t] = "marked"
  /\ ~atom[lk[t]].contested
  /\ failed' = TRUE
  /\ UNCHANGED <<client, pc, local, server, holding_thd, wake_cnt, faults, notify>>

LockRelease(t, l) ==
  /\ pc[t] = "client"
  /\ l \in held[t]
  /\ Goto(t, "release_read")
  /\ lk' = [lk EXCEPT ![t] = l]
  /\ UNCHANGED <<client, prev, call, id, server, holding_thd, wake_cnt, fault>>

\* Mutant: the release does not ask whether the word is contested.
ReleaseReadUnasked(t) ==
  /\ pc[t] = "release_read"
  /\ prev' = [prev EXCEPT ![t] = atom[lk[t]]]
  /\ Goto(t, "release_zero")
  /\ UNCHANGED <<client, lk, call, id, server, holding_thd, wake_cnt, fault>>

ReleaseRead(t) ==
  /\ pc[t] = "release_read"
  /\ prev' = [prev EXCEPT ![t] = atom[lk[t]]]
  /\ Goto(t, IF atom[lk[t]].contested THEN "release_zero" ELSE "release_cas")
  /\ UNCHANGED <<client, lk, call, id, server, holding_thd, wake_cnt, fault>>

\* The word is freed unless a contender marked it since it was read.
ReleaseCas(t) ==
  /\ pc[t] = "release_cas"
  /\ IF atom[lk[t]] = prev[t]
       THEN /\ atom' = [atom EXCEPT ![lk[t]] = Free]
            /\ held' = [held EXCEPT ![t] = @ \ {lk[t]}]
            /\ Return(t)
       ELSE /\ Goto(t, "release_read")
            /\ UNCHANGED <<atom, held, local>>
  /\ UNCHANGED <<server_lock_id, server, holding_thd, wake_cnt, fault>>

\* lock_release_contention: the swap must succeed (a BUG otherwise), then the
\* lock component is called.
ReleaseZero(t) ==
  /\ pc[t] = "release_zero"
  /\ atom[lk[t]] = prev[t]
  /\ atom' = [atom EXCEPT ![lk[t]] = Free]
  /\ held' = [held EXCEPT ![t] = @ \ {lk[t]}]
  /\ Goto(t, "call")
  /\ call' = [call EXCEPT ![t] = "release"]
  /\ UNCHANGED <<server_lock_id, lk, prev, id, server, holding_thd, wake_cnt, fault>>
-----------------------------------------------------------------------------
(* The client stub and the critical section *)

\* An invocation reads the server's id from the descriptor.
Invoke(t) ==
  /\ pc[t] = "call"
  /\ id' = [id EXCEPT ![t] = server_lock_id[lk[t]]]
  /\ Goto(t, IF call[t] = "take" THEN "track" ELSE call[t])
  /\ UNCHANGED <<client, lk, prev, call, server, holding_thd, wake_cnt, fault>>

\* TAKE: the section is free.  A thread that failed inside the section still
\* holds it and goes on without this step.
Enter(t) ==
  /\ pc[t] \in SectionPc
  /\ holding_thd = NoThd
  /\ holding_thd' = t
  /\ UNCHANGED <<client, pc, local, server, wake_cnt, fault>>

InSection(t, p) == pc[t] = p /\ holding_thd = t

RELEASE == holding_thd' = NoThd

\* lock_find
Found(t) == id[t] \in 1..(lock_id - 1)

\* block_cli_if_basic_id: the descriptor is not known to the lock component, so
\* the stub allocates another one ...
Alloc(t) ==
  /\ InSection(t, "alloc")
  /\ id' = [id EXCEPT ![t] = lock_id]
  /\ lock_id' = lock_id + 1
  /\ current' = IF gen_zero THEN current \cup {lock_id} ELSE current
  /\ RELEASE
  /\ Goto(t, "cons")
  /\ UNCHANGED <<client, lk, prev, call, gen_zero, blocked_on, waking, tracked, wake_cnt, fault>>

\* ... and makes the failed invocation again with it.
Cons(t) ==
  /\ pc[t] = "cons"
  /\ server_lock_id' = [server_lock_id EXCEPT ![lk[t]] = id[t]]
  /\ Goto(t, "call")
  /\ UNCHANGED <<atom, held, local, server, holding_thd, wake_cnt, fault>>

-----------------------------------------------------------------------------
(* lock_component_pretake and lock_component_take *)

Pretake(t) ==
  /\ InSection(t, "pretake")
  /\ IF Found(t) THEN current' = current \cup {id[t]} /\ Goto(t, "owner")
                 ELSE UNCHANGED current /\ Goto(t, "alloc")
  /\ RELEASE
  /\ UNCHANGED <<client, local, lock_id, gen_zero, blocked_on, waking, tracked, wake_cnt, fault>>

\* The server stub puts the thread on tracking_block_list.
Track(t) ==
  /\ InSection(t, "track")
  /\ tracked' = tracked \cup {t}
  /\ RELEASE
  /\ Goto(t, "take")
  /\ UNCHANGED <<client, local, lock_id, gen_zero, current, blocked_on, waking, wake_cnt, fault>>

\* -EINVAL, kept in id until the stub sees it.
TakeInvalid(t) ==
  /\ InSection(t, "take")
  /\ ~Found(t)
  /\ id' = [id EXCEPT ![t] = NoId]
  /\ RELEASE
  /\ Goto(t, "untrack")
  /\ UNCHANGED <<client, lk, prev, call, server, wake_cnt, fault>>

\* The generation moved since the pretake: the client has to look again.
TakeMismatch(t) ==
  /\ InSection(t, "take")
  /\ Found(t)
  /\ blocked_on[t] # id[t]
  /\ id[t] \notin current
  /\ current' = current \cup {id[t]}
  /\ RELEASE
  /\ Goto(t, "untrack")
  /\ UNCHANGED <<client, local, lock_id, gen_zero, blocked_on, waking, tracked, wake_cnt, fault>>

\* Mutant: the generation is not compared.
TakeBlockUnchecked(t) ==
  /\ InSection(t, "take")
  /\ Found(t)
  /\ blocked_on[t] # id[t]
  /\ gen_zero' = FALSE
  /\ current' = {}
  /\ blocked_on' = [blocked_on EXCEPT ![t] = id[t]]
  /\ RELEASE
  /\ Goto(t, "block")
  /\ UNCHANGED <<client, local, lock_id, waking, tracked, wake_cnt, fault>>

\* generation++, and the thread joins b_thds.
TakeBlock(t) ==
  /\ InSection(t, "take")
  /\ Found(t)
  /\ blocked_on[t] # id[t]
  /\ id[t] \in current
  /\ gen_zero' = FALSE
  /\ current' = {}
  /\ blocked_on' = [blocked_on EXCEPT ![t] = id[t]]
  /\ RELEASE
  /\ Goto(t, "block")
  /\ UNCHANGED <<client, local, lock_id, waking, tracked, wake_cnt, fault>>

\* sched_block: a wakeup that came before makes it return at once.
Block(t) ==
  /\ pc[t] = "block"
  /\ wake_cnt' = [wake_cnt EXCEPT ![t] = @ - 1]
  /\ Goto(t, IF wake_cnt[t] = 2 THEN "untrack" ELSE "asleep")
  /\ UNCHANGED <<client, local, server, holding_thd, fault>>

\* Mutant: the wake count is taken down when the thread wakes up, too.
ResumeDecrement(t) ==
  /\ pc[t] = "asleep"
  /\ wake_cnt[t] > 0
  /\ wake_cnt' = [wake_cnt EXCEPT ![t] = @ - 1]
  /\ Goto(t, "untrack")
  /\ UNCHANGED <<client, local, server, holding_thd, fault>>

\* Mutant: the loop of sched_block never sees that the thread was woken.
ResumeSleepsAgain(t) ==
  /\ pc[t] = "asleep"
  /\ wake_cnt[t] > 0
  /\ wake_cnt' = [wake_cnt EXCEPT ![t] = 1]
  /\ UNCHANGED <<client, pc, local, server, holding_thd, fault>>

Resume(t) ==
  /\ pc[t] = "asleep"
  /\ wake_cnt[t] > 0
  /\ wake_cnt' = [wake_cnt EXCEPT ![t] = 1]
  /\ Goto(t, "untrack")
  /\ UNCHANGED <<client, local, server, holding_thd, fault>>

\* The server stub takes the thread off its list; the client takes the lock
\* again from the start, or recovers the descriptor after -EINVAL.
Untrack(t) ==
  /\ InSection(t, "untrack")
  /\ tracked' = tracked \ {t}
  /\ RELEASE
  /\ Goto(t, IF id[t] = NoId THEN "alloc" ELSE "read")
  /\ UNCHANGED <<client, local, lock_id, gen_zero, current, blocked_on, waking, wake_cnt, fault>>
-----------------------------------------------------------------------------
(* lock_component_release *)

\* sched_wakeup, with fp_pre_wakeup's cap.
Wakeup(u) == wake_cnt' = [wake_cnt EXCEPT ![u] = IF @ = 2 THEN 2 ELSE @ + 1]

Waiting(i) == {u \in Threads : blocked_on[u] = i}

\* generation++; the id is not known (-EINVAL, which the stub turns into 0) or
\* nobody waits.
ReleaseNobody(t) ==
  /\ InSection(t, "release")
  /\ Found(t) => Waiting(id[t]) = {}
  /\ gen_zero' = FALSE
  /\ current' = {}
  /\ RELEASE
  /\ Return(t)
  /\ UNCHANGED <<client, lock_id, blocked_on, waking, tracked, wake_cnt, fault>>

\* Mutant: the waiters stay on the lock's list.
ReleaseDetachKeeps(t) ==
  /\ InSection(t, "release")
  /\ Found(t)
  /\ Waiting(id[t]) # {}
  /\ waking' = [waking EXCEPT ![t] = Waiting(id[t])]
  /\ gen_zero' = FALSE
  /\ current' = {}
  /\ Goto(t, "wake")
  /\ UNCHANGED <<client, local, lock_id, blocked_on, tracked, holding_thd, wake_cnt, fault>>

\* generation++, and the whole list is detached.
ReleaseDetach(t) ==
  /\ InSection(t, "release")
  /\ Found(t)
  /\ Waiting(id[t]) # {}
  /\ waking' = [waking EXCEPT ![t] = Waiting(id[t])]
  /\ blocked_on' = [u \in Threads |-> IF u \in Waiting(id[t]) THEN NoId ELSE blocked_on[u]]
  /\ gen_zero' = FALSE
  /\ current' = {}
  /\ Goto(t, "wake")
  /\ UNCHANGED <<client, local, lock_id, tracked, holding_thd, wake_cnt, fault>>

WakeOne(t, u) ==
  /\ InSection(t, "wake")
  /\ u \in waking[t]
  /\ waking[t] # {u}
  /\ Wakeup(u)
  /\ waking' = [waking EXCEPT ![t] = @ \ {u}]
  /\ UNCHANGED <<client, pc, local, lock_id, gen_zero, current, blocked_on, tracked,
                 holding_thd, fault>>

\* The section is left before the last thread is woken.
WakeRelease(t) ==
  /\ InSection(t, "wake")
  /\ \E u \in waking[t] : waking[t] = {u}
  /\ RELEASE
  /\ UNCHANGED <<client, pc, local, server, wake_cnt, fault>>

WakeLast(t, u) ==
  /\ pc[t] = "wake"
  /\ holding_thd # t
  /\ waking[t] = {u}
  /\ Wakeup(u)
  /\ waking' = [waking EXCEPT ![t] = {}]
  /\ Goto(t, "done")
  /\ UNCHANGED <<client, local, lock_id, gen_zero, current, blocked_on, tracked,
                 holding_thd, fault>>

\* The code releases the section a second time.  The scheduler accepts this of
\* a section nobody holds and asserts that otherwise the caller holds it.
Done(t) ==
  /\ pc[t] = "done"
  /\ holding_thd \in {NoThd, t}
  /\ RELEASE
  /\ Return(t)
  /\ UNCHANGED <<client, server, wake_cnt, fault>>

DoneAssert(t) ==
  /\ pc[t] = "done"
  /\ holding_thd \notin {NoThd, t}
  /\ failed' = TRUE
  /\ UNCHANGED <<client, pc, local, server, holding_thd, wake_cnt, faults, notify>>

-----------------------------------------------------------------------------
(* A failure of the lock component *)

Recovering == \E t \in Threads : pc[t] \in {"recover", "recover_alloc"}

\* Where a thread is after the failure in thread t.  A thread that executes in
\* the lock component is sent back to its client stub, which makes the call
\* again; one that sleeps in the scheduler is sent back when it wakes up.
AfterFault(t, u) ==
  IF pc[u] \in ServerPc
    THEN IF u = t THEN IF pc[u] = "alloc" THEN "recover_alloc" ELSE "recover"
                  ELSE IF pc[u] = "alloc" THEN "alloc" ELSE "call"
    ELSE IF pc[u] = "asleep" THEN "stale" ELSE pc[u]

\* Mutant: the threads that sleep are not noted for the notification.
RebootForgetful(t) ==
  /\ pc' = [u \in Threads |-> AfterFault(t, u)]
  /\ notify' = {}
  /\ lock_id' = 1
  /\ gen_zero' = TRUE
  /\ current' = {}
  /\ blocked_on' = [u \in Threads |-> NoId]
  /\ waking' = [u \in Threads |-> {}]
  /\ tracked' = {}
  /\ UNCHANGED <<client, local, holding_thd, wake_cnt, failed>>

\* Mutant: the list of the server stub survives the reboot.
RebootKeepsTracked(t) ==
  /\ pc' = [u \in Threads |-> AfterFault(t, u)]
  /\ notify' = {u \in Threads : pc[u] \in {"asleep", "stale"}}
  /\ lock_id' = 1
  /\ gen_zero' = TRUE
  /\ current' = {}
  /\ blocked_on' = [u \in Threads |-> NoId]
  /\ waking' = [u \in Threads |-> {}]
  /\ UNCHANGED <<client, local, tracked, holding_thd, wake_cnt, failed>>

\* The micro-reboot: the component's memory is as loaded, t waits in the fault
\* handler for the recovery thread.  The section's holder is in the scheduler.
Reboot(t) ==
  /\ pc' = [u \in Threads |-> AfterFault(t, u)]
  /\ notify' = {u \in Threads : pc[u] \in {"asleep", "stale"}}
  /\ lock_id' = 1
  /\ gen_zero' = TRUE
  /\ current' = {}
  /\ blocked_on' = [u \in Threads |-> NoId]
  /\ waking' = [u \in Threads |-> {}]
  /\ tracked' = {}
  /\ UNCHANGED <<client, local, holding_thd, wake_cnt, failed>>

\* The component fails while t executes in it; no second failure hits during
\* a recovery (recovery_upcall assumes so).
Fault(t) ==
  /\ pc[t] \in ServerPc
  /\ faults < MaxFaults
  /\ ~Recovering
  /\ faults' = faults + 1
  /\ Reboot(t)

\* assert(!lock_is_thd_blocked(ml, curr)) fails: the component stops itself.
TakeAssert(t) ==
  /\ InSection(t, "take")
  /\ Found(t)
  /\ blocked_on[t] = id[t]
  /\ ~Recovering
  /\ UNCHANGED faults
  /\ Reboot(t)

\* rd_reflection: the recovery thread wakes the threads that sleep in the
\* scheduler on behalf of the lock component.
Notify(t, u) ==
  /\ pc[t] \in {"recover", "recover_alloc"}
  /\ u \in notify
  /\ Wakeup(u)
  /\ notify' = notify \ {u}
  /\ UNCHANGED <<client, pc, local, server, holding_thd, faults, failed>>

Recovered(t) ==
  /\ pc[t] \in {"recover", "recover_alloc"}
  /\ notify = {}
  /\ Goto(t, IF pc[t] = "recover" THEN "call" ELSE "alloc")
  /\ UNCHANGED <<client, local, server, holding_thd, wake_cnt, fault>>

\* A thread that slept through the failure returns to its client stub.
StaleReturn(t) ==
  /\ pc[t] = "stale"
  /\ wake_cnt[t] > 0
  /\ wake_cnt' = [wake_cnt EXCEPT ![t] = 1]
  /\ Goto(t, "call")
  /\ UNCHANGED <<client, local, server, holding_thd, fault>>
-----------------------------------------------------------------------------
Take(t) == \/ Read(t) \/ Cas(t) \/ CheckOwner(t) \/ CheckContested(t)
           \/ Mark(t) \/ Marked(t) \/ MarkedAssert(t)
           \/ Pretake(t) \/ Track(t) \/ TakeInvalid(t) \/ TakeMismatch(t)
           \/ TakeBlock(t) \/ Block(t) \/ Resume(t) \/ Untrack(t)

Release(t) == \/ ReleaseRead(t) \/ ReleaseCas(t) \/ ReleaseZero(t) \/ ReleaseNobody(t)
              \/ ReleaseDetach(t) \/ WakeRelease(t) \/ Done(t) \/ DoneAssert(t)
              \/ \E u \in Threads : WakeOne(t, u) \/ WakeLast(t, u)

Recover(t) == \/ Invoke(t) \/ Alloc(t) \/ Cons(t) \/ Recovered(t) \/ StaleReturn(t)
              \/ TakeAssert(t)
              \/ \E u \in Threads : Notify(t, u)

\* What a thread does once it is in a call, apart from entering the section.
Step(t) == ~failed /\ (Take(t) \/ Release(t) \/ Recover(t))

EnterStep(t) == ~failed /\ Enter(t)

LeaveLock(t) == ~failed /\ \E l \in Locks : LockRelease(t, l)

Stopped == failed /\ UNCHANGED vars

Next ==
  \/ \E t \in Threads :
       \/ Step(t)
       \/ EnterStep(t)
       \/ LeaveLock(t)
       \/ ~failed /\ Fault(t)
       \/ ~failed /\ \E l \in Locks : LockTake(t, l)
  \/ Stopped

Spec == Init /\ [][Next]_vars

\* Threads of one priority share the processor round robin, so each one
\* continues; a thread that contends for the section runs its holder and gets
\* the section in turn; a client releases every lock it took.
Fairness ==
  \A t \in Threads :
    /\ WF_vars(Step(t))
    /\ SF_vars(EnterStep(t))
    /\ \A l \in Locks : SF_vars(~failed /\ LockRelease(t, l))

FairSpec == Spec /\ Fairness
-----------------------------------------------------------------------------
(* Properties *)

\* lock_take and lock_release implement a mutual exclusion lock, whatever the
\* lock component does and whenever it fails.
Holders == [l \in Locks |-> {t \in Threads : l \in held[t]}]

Abstract == INSTANCE Mutex WITH holders <- Holders

ImplementsMutex == Abstract!Spec

\* The thread that took a lock and has not released it is the owner the word
\* names, and no other thread is: the compare-and-swaps of contenders never
\* take a lock away or give it back to an earlier owner.
OwnerHolds == \A t \in Threads, l \in Locks : l \in held[t] <=> atom[l].owner = t

\* The swap of lock_release_contention always succeeds ("This must evaluate to
\* false, as contested is already set, we are the owner").
ReleaseSwapSucceeds == \A t \in Threads : pc[t] = "release_zero" => atom[lk[t]] = prev[t]

\* A thread that sleeps in lock_component_take and has not been woken.
Sleeping(t) == pc[t] = "asleep" /\ wake_cnt[t] = 0

\* What wakes it: a release that took it off the list, the owner of a word
\* marked as contested, or a release that has yet to look at the list.
WillBeWoken(t) ==
  \/ \E u \in Threads : t \in waking[u]
  \/ atom[lk[t]].contested /\ server_lock_id[lk[t]] = blocked_on[t]
  \/ \E u \in Threads : /\ lk[u] = lk[t]
                        /\ \/ pc[u] \in {"call", "recover"} /\ call[u] = "release"
                           \/ pc[u] = "release" /\ id[u] = blocked_on[t]

\* No thread sleeps for a lock that nobody will wake it for: the generation
\* recorded by the pretake "signifies that no release has happened in the
\* interim, and that we really should sleep".
NoLostWakeup == \A t \in Threads : Sleeping(t) => WillBeWoken(t)

\* A thread never joins the list of a lock it is on already
\* (assert(!lock_is_thd_blocked(ml, curr))), and a release never wakes itself
\* (assert(tid != cos_get_thd_id())).
ListsSound ==
  \A t \in Threads :
    /\ InSection(t, "take") /\ Found(t) => blocked_on[t] # id[t]
    /\ t \notin waking[t]

\* The threads on the tracking list of the server stub are those inside
\* lock_component_take, so a client's failure finds the threads to release.
TrackedInTake ==
  \A t \in Threads : t \in tracked <=> pc[t] \in {"take", "block", "asleep", "untrack"}

\* The second RELEASE of lock_component_release finds the section free or held
\* by the caller (assert(cs->holding_thd == curr)).
SectionReleasedByHolder == \A t \in Threads : pc[t] = "done" => holding_thd \in {NoThd, t}

\* A thread that sleeps for a lock is woken, unless an assertion stops the system.
SleepersWoken ==
  \A t \in Threads : (pc[t] = "asleep") ~> (pc[t] # "asleep" \/ failed)

\* A thread that sleeps when the lock component fails is woken and makes its
\* call again.
StaleReturns ==
  \A t \in Threads : (pc[t] = "stale") ~> (pc[t] # "stale" \/ failed)
=============================================================================
