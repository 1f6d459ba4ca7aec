----------------------------- MODULE TrackBlock -----------------------------
(***************************************************************************)
(* How a server stub finds the threads that block in its component.  Each  *)
(* call of sched_block on behalf of one client component puts a node, kept *)
(* on the calling thread's stack, on tracking_block_list[spdid]; when that *)
(* client has failed and calls sched_client_fault_notification, the stub   *)
(* walks the list and wakes every thread on it.                            *)
(*                                                                         *)
(* interface/sched/__stubs_rec/__IDL_s_cstub.c; the stubs of the lock and  *)
(* event interfaces have the same list and the same walk, with             *)
(* lock_component_release and evt_trigger in place of sched_wakeup.        *)
(*                                                                         *)
(* What runs between cos_sched_lock_take and cos_sched_lock_release is one *)
(* step.  The walk gives the lock up around each wakeup.                   *)
(***************************************************************************)
EXTENDS Integers

CONSTANTS
  Threads,   \* threads that call sched_block for the client component
  Anchor       \* tracking_block_list[spdid] itself

ASSUME TrackAssumption == Anchor \notin Threads

VARIABLES
  next, prev,   \* the links; a thread stands for the node on its stack
  pc,           \* where the thread is in __ser_sched_block
  wake_cnt,     \* the scheduler's count for the thread
  tb,           \* the walk's cursor
  walk,         \* where the walk is; "lost" once it follows a dead node's words
  unwoken       \* threads on the list since the walk began that it has not woken

list == <<next, prev>>

vars == <<list, pc, wake_cnt, tb, walk, unwoken>>

Nodes == Threads \cup {Anchor}

TypeOK ==
  /\ next \in [Nodes -> Nodes]
  /\ prev \in [Nodes -> Nodes]
  /\ pc \in [Threads -> {"out", "tracked", "asleep", "untrack"}]
  /\ wake_cnt \in [Threads -> 0..2]
  /\ tb \in Nodes
  /\ walk \in {"idle", "wake", "advance", "lost"}
  /\ unwoken \subseteq Threads

\* A list that was never initialised (next = NULL) is treated as an empty one.
Init ==
  /\ next = [n \in Nodes |-> n]
  /\ prev = [n \in Nodes |-> n]
  /\ pc = [t \in Threads |-> "out"]
  /\ wake_cnt = [t \in Threads |-> 1]
  /\ tb = Anchor
  /\ walk = "idle"
  /\ unwoken = {}

\* Threads whose node is live.
Tracked == {t \in Threads : pc[t] # "out"}
-----------------------------------------------------------------------------
\* Mutant: ADD_END_LIST.
ADD_END_LIST(t) ==
  /\ next' = [next EXCEPT ![prev[Anchor]] = t, ![t] = Anchor]
  /\ prev' = [prev EXCEPT ![t] = prev[Anchor], ![Anchor] = t]

ADD_LIST(t) ==
  /\ next' = [next EXCEPT ![t] = next[Anchor], ![Anchor] = t]
  /\ prev' = [prev EXCEPT ![t] = Anchor, ![next[Anchor]] = t]

\* Mutant: the successor keeps its link to the node.
REM_LIST_HALF(t) ==
  /\ next' = [next EXCEPT ![prev[t]] = next[t], ![t] = t]
  /\ prev' = [prev EXCEPT ![t] = t]

REM_LIST(t) ==
  /\ next' = [next EXCEPT ![prev[t]] = next[t], ![t] = t]
  /\ prev' = [prev EXCEPT ![next[t]] = prev[t], ![t] = t]

\* __ser_sched_block up to the call of sched_block.
Track(t) ==
  /\ pc[t] = "out"
  /\ ADD_LIST(t)
  /\ pc' = [pc EXCEPT ![t] = "tracked"]
  /\ UNCHANGED <<wake_cnt, tb, walk, unwoken>>

\* sched_block: a wakeup that came before makes it return at once, and so does
\* an error.
Block(t) ==
  /\ pc[t] = "tracked"
  /\ \/ /\ wake_cnt' = [wake_cnt EXCEPT ![t] = @ - 1]
        /\ pc' = [pc EXCEPT ![t] = IF wake_cnt[t] = 2 THEN "untrack" ELSE "asleep"]
     \/ /\ pc' = [pc EXCEPT ![t] = "untrack"]
        /\ UNCHANGED wake_cnt
  /\ UNCHANGED <<list, tb, walk, unwoken>>

Resume(t) ==
  /\ pc[t] = "asleep"
  /\ wake_cnt[t] > 0
  /\ wake_cnt' = [wake_cnt EXCEPT ![t] = 1]
  /\ pc' = [pc EXCEPT ![t] = "untrack"]
  /\ UNCHANGED <<list, tb, walk, unwoken>>

\* The node goes off the list and the function returns: the words of the node
\* are dead, but hold the links to itself until the stack is used again.
Untrack(t) ==
  /\ pc[t] = "untrack"
  /\ REM_LIST(t)
  /\ pc' = [pc EXCEPT ![t] = "out"]
  /\ unwoken' = unwoken \ {t}
  /\ UNCHANGED <<wake_cnt, tb, walk>>
-----------------------------------------------------------------------------
\* Mutant: the count is not capped.
WakeupUncapped(t) == wake_cnt' = [wake_cnt EXCEPT ![t] = @ + 1]

\* sched_wakeup, with fp_pre_wakeup's cap.
Wakeup(t) == wake_cnt' = [wake_cnt EXCEPT ![t] = IF @ = 2 THEN 2 ELSE @ + 1]

\* A wakeup by another component.
WakeOther(t) ==
  /\ Wakeup(t)
  /\ UNCHANGED <<list, pc, tb, walk, unwoken>>

\* sched_client_fault_notification up to the first wakeup.
Notification ==
  /\ walk = "idle"
  /\ next[Anchor] # Anchor
  /\ tb' = next[Anchor]
  /\ walk' = "wake"
  /\ unwoken' = Tracked
  /\ UNCHANGED <<list, pc, wake_cnt>>

WakeTracked ==
  /\ walk = "wake"
  /\ Wakeup(tb)
  /\ walk' = "advance"
  /\ unwoken' = unwoken \ {tb}
  /\ UNCHANGED <<list, pc, tb>>

\* tb = FIRST_LIST(tb, next, prev), and the loop's test.
Advance ==
  /\ walk = "advance"
  /\ tb' = next[tb]
  /\ walk' = IF next[tb] = Anchor THEN "idle" ELSE "wake"
  /\ UNCHANGED <<list, pc, wake_cnt, unwoken>>

\* The node is dead and its stack was used again: the walk reads any word, and
\* what the scheduler does from there on is not modelled.
DeadNode ==
  /\ walk \in {"wake", "advance"}
  /\ pc[tb] = "out"
  /\ walk' = "lost"
  /\ UNCHANGED <<list, pc, wake_cnt, tb, unwoken>>

Walk == WakeTracked \/ Advance

Return(t) == Resume(t) \/ Untrack(t)

Next ==
  \/ \E t \in Threads : Track(t) \/ Block(t) \/ Return(t) \/ WakeOther(t)
  \/ Notification
  \/ Walk
  \/ DeadNode

Spec == Init /\ [][Next]_vars

\* The thread that failed keeps switching to the recovery thread until the
\* recovery is over (recovery_upcall), and a woken thread is ready to run.
Fairness == WF_vars(Walk) /\ \A t \in Threads : WF_vars(Return(t))

FairSpec == Spec /\ Fairness
-----------------------------------------------------------------------------
(* Properties *)

\* The nodes met by following next from the head: the smallest set that
\* holds the head and that next does not leave.
OnList ==
  {n \in Nodes :
     \A S \in SUBSET Nodes : Anchor \in S /\ (\A m \in S : next[m] \in S) => n \in S}

\* Whatever threads come and go, the list holds exactly the threads inside
\* __ser_sched_block, ends where it began, and can be followed both ways: the
\* stack nodes of threads that have returned are not on it.
ListHoldsTracked ==
  /\ OnList = Tracked \cup {Anchor}
  /\ \A n \in Nodes : prev[next[n]] = n

\* A walk that ends has woken every thread that was on the list when it began
\* and is still there, although threads join and leave the list while the walk
\* has given up the lock around sched_wakeup.
WalkEndsComplete == walk = "idle" => unwoken = {}

\* "reflection will wake up all threads from lock spd": a thread that blocks
\* for the failed component is woken by the walk or leaves by itself.
ReflectionWakesAll ==
  \A t \in Threads : (t \in unwoken) ~> (t \notin unwoken \/ walk = "lost")
=============================================================================
