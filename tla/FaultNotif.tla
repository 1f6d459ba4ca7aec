----------------------------- MODULE FaultNotif -----------------------------
(***************************************************************************)
(* How a failure is contained and how every thread learns of it.  The      *)
(* kernel keeps an invocation stack per thread; a component, a capability  *)
(* and a stack frame each carry a fault counter.  A fault runs the booter: *)
(* it micro-reboots the component, drops the faulting thread's frame,      *)
(* triggers the component's counter and has the recovery thread upcall     *)
(* into the fresh component.  Any other thread is stopped by a counter     *)
(* that lags: on a call, on a return, or when it is switched to, and is    *)
(* sent back to the stub it called from.                                   *)
(*                                                                         *)
(* kernel/include/recovery.h, kernel/__inv_rec,                            *)
(* kernel/include/__thread_rec, llboot/__boot_deps_rec.                    *)
(*                                                                         *)
(* One CPU.  The scheduler is abstracted to a component that never fails   *)
(* and that switches to any thread its priorities allow.  The recovery     *)
(* thread itself does not fault, as recovery_upcall assumes.               *)
(***************************************************************************)
EXTENDS Integers, Sequences, FiniteSets

CONSTANTS
  Threads,      \* ordinary threads
  Upcalls,      \* threads an interrupt activates
  Recoverer,    \* llboot->recovery_thd
  Services,     \* the components that fail and are rebooted
  App,          \* the home component of the ordinary threads
  Sched,        \* the scheduler
  Booter,       \* llboot
  Home,         \* the component each upcall thread waits in
  Calls,        \* <<client, server>> pairs joined by capabilities
  Higher,       \* <<a, b>>: thread a has priority over b; where neither has
                \* it over the other, each is allowed to
  MaxFaults,    \* bound: how often one service fails
  Preemptible,  \* whether an interrupt may arrive in the booter's handlers
  None

Thds == Threads \cup Upcalls \cup {Recoverer}

Comps == Services \cup {App, Sched, Booter}

ASSUME FaultNotifAssumption ==
  /\ Threads \cap Upcalls = {}
  /\ Recoverer \notin Threads \cup Upcalls
  /\ Services \cap {App, Sched, Booter} = {}
  /\ App # Booter /\ Sched # Booter
  /\ None \notin Thds \cup Comps
  /\ Home \in [Upcalls -> {App, Sched}]
  /\ Calls \subseteq Comps \X (Comps \ {Booter})
  /\ Preemptible \in BOOLEAN

VARIABLES
  curr,         \* the running thread
  stk,          \* invocation stacks, the home frame first
  pc,           \* "run", or where the thread is in the booter's code
  failed,       \* the component whose fault the thread is handling, and
                \* the number its trigger gave that failure
  fault,        \* spd->fault.cnt
  reflection,   \* spd->reflection.cnt
  cap,          \* cap->fault.cnt, one for all functions of an interface
  known,        \* the last failure the client's stub was told of (history)
  inc,          \* micro-reboots of a component so far (history)
  overlapped,   \* whether a service failed before the handler of an earlier
                \* failure returned (history): "assume no fault can happen
                \* during recovery", says recovery_upcall
  prev_thd,     \* llboot->prev_thd
  recover_spd,  \* llboot->recover_spd
  active,       \* upcall threads with THD_STATE_ACTIVE_UPCALL
  interrupted,  \* upcall->interrupted_thread
  dead          \* "no", or why the system was stopped

counters == <<fault, reflection, cap, known, inc, overlapped>>

slots == <<prev_thd, recover_spd>>

vars == <<curr, stk, pc, failed, counters, slots, active, interrupted, dead>>

Frames ==
  [spd : Comps, cnt : Nat, inc : Nat, stub : Services \cup {Sched, None}]

TypeOK ==
  /\ curr \in Thds
  /\ stk \in [Thds -> Seq(Frames) \ {<<>>}]
  /\ pc \in [Thds -> {"run", "complete", "done", "init", "notif", "reboot",
                      "trigger", "slot", "spd", "loop", "switch", "return"}]
  /\ failed \in [Thds -> (Services \cup {None}) \X Nat]
  /\ fault \in [Comps -> Nat]
  /\ reflection \in [Comps -> Nat]
  /\ cap \in [Calls -> Nat]
  /\ known \in [Calls -> Nat]
  /\ inc \in [Comps -> Nat]
  /\ overlapped \in BOOLEAN
  /\ prev_thd \in Thds \cup {None}
  /\ recover_spd \in Services \cup {None}
  /\ active \subseteq Upcalls
  /\ interrupted \in [Upcalls -> Thds \cup {None}]
  /\ dead \in {"no", "home", "lagging", "assert"}

\* A frame as thd_invocation_push makes it.
Frame(s) == [spd |-> s, cnt |-> fault[s], inc |-> inc[s], stub |-> None]

HomeOf(t) ==
  CASE t \in Threads -> App
    [] t \in Upcalls -> Home[t]
    [] t = Recoverer -> Booter

Init ==
  /\ fault = [s \in Comps |-> 0]
  /\ reflection = [s \in Comps |-> 0]
  /\ inc = [s \in Comps |-> 0]
  /\ overlapped = FALSE
  /\ cap = [k \in Calls |-> 0]
  /\ known = [k \in Calls |-> 0]
  /\ stk = [t \in Thds |-> <<Frame(HomeOf(t))>>]
  /\ pc = [t \in Thds |-> IF t = Recoverer THEN "done" ELSE "run"]
  /\ failed = [t \in Thds |-> <<None, 0>>]
  /\ curr \in {t \in Threads : \A m \in Threads : <<m, t>> \notin Higher}
  /\ prev_thd = None
  /\ recover_spd = None
  /\ active = {}
  /\ interrupted = [u \in Upcalls |-> None]
  /\ dead = "no"
-----------------------------------------------------------------------------
Last(k) == k[Len(k)]

Top(t) == Last(stk[t])

Pop(k) == SubSeq(k, 1, Len(k) - 1)

\* The counter test of pop_fault_detect and switch_thd_fault_detect.
Lags(f) == f.cnt < fault[f.spd]

\* Mutant: the caller's frame keeps its counter.
InvokeNoRefresh(k, s) == Append(k, Frame(s))

\* ipc_walk_static_cap: the caller's frame takes its component's counter.
Invoke(k, s) ==
  Append([k EXCEPT ![Len(k)].cnt = fault[Last(k).spd]], Frame(s))

\* Thread t continues with stack k; if k's top frame lags, which both tests
\* then refresh, it continues in the booter's notification handler.
Resume(t, k) ==
  IF Last(k).spd # Booter /\ Lags(Last(k))
  THEN /\ stk' = [stk EXCEPT ![t] = Invoke(k, Booter)]
       /\ pc' = [pc EXCEPT ![t] = "notif"]
  ELSE /\ stk' = [stk EXCEPT ![t] = k]
       /\ pc' = [pc EXCEPT ![t] = "run"]

\* break_preemption_chain, and remove_preempted_status of the next thread.
Break(links, t) ==
  [u \in Upcalls |-> IF u = t \/ links[u] = t THEN None ELSE links[u]]

RemovePreempted(links, n) ==
  IF \E u \in Upcalls : links[u] = n THEN Break(links, n) ELSE links

\* Mutant: no test of the next thread's frame.
SwitchNoDetect(n, p) ==
  /\ curr' = n
  /\ interrupted' = RemovePreempted(Break(interrupted, curr), n)
  /\ pc' = [pc EXCEPT ![curr] = p]
  /\ UNCHANGED stk

\* cos_syscall_switch_thread_cont from the running thread, which is left at
\* p, to n.
SwitchTo(n, p) ==
  LET left == [pc EXCEPT ![curr] = p] IN
  /\ curr' = n
  /\ interrupted' = RemovePreempted(Break(interrupted, curr), n)
  /\ IF Lags(Top(n))
     THEN /\ stk' = [stk EXCEPT ![n] = Invoke(stk[n], Booter)]
          /\ pc' = [left EXCEPT ![n] = "notif"]
     ELSE /\ pc' = left
          /\ UNCHANGED stk
-----------------------------------------------------------------------------
(* What a thread does outside the booter. *)

Running(p) == dead = "no" /\ pc[curr] = p

\* Mutant: the capability is brought up to date where the lag is detected.
CallUpdates(s) ==
  LET k == Invoke(stk[curr], s)
      c == <<Top(curr).spd, s>>
  IN
  /\ Running("run")
  /\ Top(curr).stub = None
  /\ c \in Calls
  /\ IF cap[c] < fault[s]
     THEN /\ stk' = [stk EXCEPT ![curr] = Invoke(k, Booter)]
          /\ pc' = [pc EXCEPT ![curr] = "notif"]
     ELSE /\ stk' = [stk EXCEPT ![curr] = k]
          /\ UNCHANGED pc
  /\ cap' = [cap EXCEPT ![c] = fault[s]]
  /\ UNCHANGED <<curr, failed, fault, reflection, known, inc, overlapped, slots,
                 active, interrupted, dead>>

\* ipc_walk_static_cap, with ipc_fault_detect on the capability.
Call(s) ==
  LET k == Invoke(stk[curr], s) IN
  /\ Running("run")
  /\ Top(curr).stub = None
  /\ <<Top(curr).spd, s>> \in Calls
  /\ IF cap[Top(curr).spd, s] < fault[s]
     THEN /\ stk' = [stk EXCEPT ![curr] = Invoke(k, Booter)]
          /\ pc' = [pc EXCEPT ![curr] = "notif"]
     ELSE /\ stk' = [stk EXCEPT ![curr] = k]
          /\ UNCHANGED pc
  /\ UNCHANGED <<curr, failed, counters, slots, active, interrupted, dead>>

\* pop, with pop_fault_detect on the frame returned to.
Return ==
  /\ Running("run")
  /\ Top(curr).stub = None
  /\ Len(stk[curr]) > 1
  /\ Resume(curr, Pop(stk[curr]))
  /\ UNCHANGED <<curr, failed, counters, slots, active, interrupted, dead>>

\* The stub's CSTUB_FAULT_UPDATE: COS_CAP_FAULT_UPDATE brings the client's
\* capabilities for the server up to date; the call can then be redone.
FaultUpdate ==
  LET f == Top(curr)
      k == <<f.spd, f.stub>>
  IN
  /\ Running("run")
  /\ f.stub # None
  /\ cap' = [cap EXCEPT ![k] = fault[f.stub]]
  /\ known' = [known EXCEPT ![k] = fault[f.stub]]
  /\ stk' = [stk EXCEPT ![curr][Len(stk[curr])].stub = None]
  /\ UNCHANGED <<curr, pc, failed, fault, reflection, inc, overlapped, slots,
                 active, interrupted, dead>>

\* Some thread that fprr would prefer to n: it was not left in the scheduler,
\* so it is not blocked.
Outranked(n) ==
  \E m \in (Threads \cup active) \ {curr} :
    <<m, n>> \in Higher /\ Top(m).spd # Sched

\* A thread in the scheduler switches.  An upcall thread whose activation is
\* over (the timer's loop, COS_UPCALL_ACAP_COMPLETE) passes
\* COS_SCHED_ACAP_WAIT.
Reschedule(n) ==
  LET over == curr \in Upcalls /\ (pc[curr] = "complete" \/ Len(stk[curr]) = 1)
  IN
  /\ dead = "no"
  /\ pc[curr] \in {"run", "complete"}
  /\ Top(curr).spd = Sched
  /\ n # curr
  /\ n \in Threads \cup active
  /\ ~Outranked(n)
  /\ SwitchTo(n, "run")
  /\ active' = IF over THEN active \ {curr} ELSE active
  /\ UNCHANGED <<failed, counters, slots, dead>>
-----------------------------------------------------------------------------
(* Interrupts. *)

InBooter(t) == Top(t).spd = Booter

CanInterrupt(u) ==
  /\ dead = "no"
  /\ u \notin active
  /\ curr # Recoverer
  /\ Preemptible \/ ~InBooter(curr)

\* ainv_next_thread when the upcall is the more urgent.
Interrupt(u) ==
  /\ CanInterrupt(u)
  /\ <<curr, u>> \notin Higher
  /\ \A v \in Upcalls : interrupted[v] # curr
  /\ active' = active \cup {u}
  /\ interrupted' = [interrupted EXCEPT ![u] = curr]
  /\ curr' = u
  /\ UNCHANGED <<stk, pc, failed, counters, slots, dead>>

\* ainv_next_thread when it is not.
Activate(u) ==
  /\ CanInterrupt(u)
  /\ <<u, curr>> \notin Higher
  /\ active' = active \cup {u}
  /\ interrupted' = IF curr \in active THEN Break(interrupted, curr)
                    ELSE interrupted
  /\ UNCHANGED <<curr, stk, pc, failed, counters, slots, dead>>

\* ainv_execution_completion: straight back to the interrupted thread, or,
\* if the chain was broken, into the scheduler.
UpcallWait ==
  /\ Running("run")
  /\ curr \in Upcalls
  /\ Len(stk[curr]) = 1
  /\ Top(curr).spd # Sched
  /\ Top(curr).stub = None
  /\ IF interrupted[curr] # None
     THEN /\ curr' = interrupted[curr]
          /\ interrupted' =
               RemovePreempted(Break(interrupted, curr), interrupted[curr])
          /\ active' = active \ {curr}
          /\ UNCHANGED <<stk, pc>>
     ELSE /\ stk' = [stk EXCEPT ![curr] = Append(@, Frame(Sched))]
          /\ pc' = [pc EXCEPT ![curr] = "complete"]
          /\ UNCHANGED <<curr, interrupted, active>>
  /\ UNCHANGED <<failed, counters, slots, dead>>
-----------------------------------------------------------------------------
(* The booter's two fault handlers. *)

\* INV_FRAME_REM of offset 1, with the client's ip moved back to its stub's
\* fault path: the handler's frame takes the place of the removed one, whose
\* counter it keeps.  Not possible when that frame is the home frame.
CanRemove(k) == Len(k) > 2

\* Mutant: the wrong frame's component goes to the stub.
RemoveOther(k) ==
  LET n == Len(k) IN
  [i \in 1..(n - 1) |->
     CASE i = n - 2 -> [k[i] EXCEPT !.stub = k[i].spd]
       [] i = n - 1 -> [k[i] EXCEPT !.spd = Booter, !.inc = k[n].inc]
       [] OTHER     -> k[i]]

Remove(k) ==
  LET n == Len(k) IN
  [i \in 1..(n - 1) |->
     CASE i = n - 2 -> [k[i] EXCEPT !.stub = k[n - 1].spd]
       [] i = n - 1 -> [k[i] EXCEPT !.spd = Booter, !.inc = k[n].inc]
       [] OTHER     -> k[i]]

\* The kernel delivers a fault in a service to fault_page_fault_handler.
Fault ==
  LET s == Top(curr).spd IN
  /\ Running("run")
  /\ curr # Recoverer
  /\ s \in Services
  /\ inc[s] < MaxFaults
  /\ stk' = [stk EXCEPT ![curr] = Invoke(@, Booter)]
  /\ pc' = [pc EXCEPT ![curr] = "reboot"]
  /\ failed' = [failed EXCEPT ![curr] = <<s, 0>>]
  /\ overlapped' = (overlapped \/ \E t \in Thds : failed[t][1] # None)
  /\ UNCHANGED <<curr, fault, reflection, cap, known, inc, slots, active,
                 interrupted, dead>>

\* A fault in the home component: no frame to remove, sched_exit.
HomeFault ==
  /\ Running("run")
  /\ Top(curr).spd = App
  /\ dead' = "home"
  /\ UNCHANGED <<curr, stk, pc, failed, counters, slots, active, interrupted>>

\* failure_notif_fail: fresh text, data and stack for the failed component.
Reboot ==
  /\ Running("reboot")
  /\ inc' = [inc EXCEPT ![failed[curr][1]] = @ + 1]
  /\ pc' = [pc EXCEPT ![curr] = "trigger"]
  /\ UNCHANGED <<curr, stk, failed, fault, reflection, cap, known, overlapped,
                 slots, active, interrupted, dead>>

\* Mutant: the reflection counter is not reset.
TriggerNoReflection ==
  LET s == failed[curr][1] IN
  /\ Running("trigger")
  /\ CanRemove(stk[curr])
  /\ stk' = [stk EXCEPT ![curr] = Remove(@)]
  /\ fault' = [fault EXCEPT ![s] = @ + 1]
  /\ failed' = [failed EXCEPT ![curr] = <<s, fault[s] + 1>>]
  /\ pc' = [pc EXCEPT ![curr] = "slot"]
  /\ UNCHANGED <<curr, reflection, cap, known, inc, overlapped, slots, active,
                 interrupted, dead>>

\* The frame goes, then COS_SPD_FAULT_TRIGGER.  A service is never the home
\* of a thread that faults in it: HomeFault is the other case.
Trigger ==
  LET s == failed[curr][1] IN
  /\ Running("trigger")
  /\ CanRemove(stk[curr])
  /\ stk' = [stk EXCEPT ![curr] = Remove(@)]
  /\ fault' = [fault EXCEPT ![s] = @ + 1]
  /\ reflection' = [reflection EXCEPT ![s] = fault[s] + 1]
  /\ failed' = [failed EXCEPT ![curr] = <<s, fault[s] + 1>>]
  /\ pc' = [pc EXCEPT ![curr] = "slot"]
  /\ UNCHANGED <<curr, cap, known, inc, overlapped, slots, active, interrupted,
                 dead>>

\* recovery_upcall: llboot->prev_thd, then llboot->recover_spd.
SetPrevThd ==
  /\ Running("slot")
  /\ prev_thd' = curr
  /\ pc' = [pc EXCEPT ![curr] = "spd"]
  /\ UNCHANGED <<curr, stk, failed, counters, recover_spd, active,
                 interrupted, dead>>

SetRecoverSpd ==
  /\ Running("spd")
  /\ recover_spd' = failed[curr][1]
  /\ pc' = [pc EXCEPT ![curr] = "loop"]
  /\ UNCHANGED <<curr, stk, failed, counters, prev_thd, active, interrupted,
                 dead>>

\* while (llboot->prev_thd == cos_get_thd_id())
LoopTest ==
  /\ Running("loop")
  /\ pc' = [pc EXCEPT ![curr] = IF prev_thd = curr THEN "switch" ELSE "return"]
  /\ UNCHANGED <<curr, stk, failed, counters, slots, active, interrupted, dead>>

\*   cos_switch_thread(llboot->recovery_thd, 0);
LoopSwitch ==
  /\ Running("switch")
  /\ SwitchTo(Recoverer, "loop")
  /\ UNCHANGED <<failed, counters, slots, active, dead>>

\* fault_page_fault_handler returns to the client, by pop.
HandlerReturn ==
  /\ Running("return")
  /\ Resume(curr, Pop(stk[curr]))
  /\ failed' = [failed EXCEPT ![curr] = <<None, 0>>]
  /\ UNCHANGED <<curr, counters, slots, active, interrupted, dead>>

\* fault_flt_notif_handler.  A thread whose home frame lags is upcalled into
\* component 0, which does not exist; only the recovery thread's can.
Notified ==
  /\ Running("notif")
  /\ IF CanRemove(stk[curr])
     THEN /\ Resume(curr, Pop(Remove(stk[curr])))
          /\ UNCHANGED dead
     ELSE /\ dead' = "lagging"
          /\ UNCHANGED <<stk, pc>>
  /\ UNCHANGED <<curr, failed, counters, slots, active, interrupted>>
-----------------------------------------------------------------------------
(* The recovery thread: llboot_thd_done. *)

\* Mutant: both slots are cleared when the upcall is made.
RecoverUpcallClears ==
  /\ Running("done")
  /\ recover_spd # None
  /\ recover_spd' = None
  /\ prev_thd' = None
  /\ stk' = [stk EXCEPT ![curr] =
               <<[@[1] EXCEPT !.spd = recover_spd, !.inc = inc[recover_spd]]>>]
  /\ pc' = [pc EXCEPT ![curr] = "init"]
  /\ UNCHANGED <<curr, failed, counters, active, interrupted, dead>>

\* cos_upcall_args(COS_UPCALL_REBOOT, rspd, ...).  upcall_setup replaces the
\* home frame's component and leaves its counter.
RecoverUpcall ==
  /\ Running("done")
  /\ recover_spd # None
  /\ recover_spd' = None
  /\ stk' = [stk EXCEPT ![curr] =
               <<[@[1] EXCEPT !.spd = recover_spd, !.inc = inc[recover_spd]]>>]
  /\ pc' = [pc EXCEPT ![curr] = "init"]
  /\ UNCHANGED <<curr, failed, counters, prev_thd, active, interrupted, dead>>

\* The component's cos_init: COS_CAP_REFLECT_UPDATE admits one rd_reflection
\* per failure.
Reflect ==
  LET s == Top(curr).spd IN
  /\ Running("init")
  /\ reflection' = IF fault[s] > 0 /\ reflection[s] = fault[s]
                   THEN [reflection EXCEPT ![s] = @ + 1]
                   ELSE reflection
  /\ pc' = [pc EXCEPT ![curr] = "run"]
  /\ UNCHANGED <<curr, stk, failed, fault, cap, known, inc, overlapped, slots,
                 active, interrupted, dead>>

\* The upcall is over: thd_ret_term_upcall brings the thread back to llboot.
RecoverDone ==
  /\ Running("run")
  /\ curr = Recoverer
  /\ Len(stk[curr]) = 1
  /\ Top(curr).stub = None
  /\ stk' = [stk EXCEPT ![curr] = <<[@[1] EXCEPT !.spd = Booter, !.inc = 0]>>]
  /\ pc' = [pc EXCEPT ![curr] = "done"]
  /\ UNCHANGED <<curr, failed, counters, slots, active, interrupted, dead>>

\* Nothing left to recover: prev_thd is released and switched to, unless
\* assert(pthd && pthd != tid) fails.
RecoverSwitch ==
  /\ Running("done")
  /\ recover_spd = None
  /\ IF prev_thd \in {None, Recoverer}
     THEN /\ dead' = "assert"
          /\ UNCHANGED <<curr, stk, pc, prev_thd, interrupted>>
     ELSE /\ prev_thd' = None
          /\ SwitchTo(prev_thd, "done")
          /\ UNCHANGED dead
  /\ UNCHANGED <<failed, counters, recover_spd, active>>

Stopped == dead # "no" /\ UNCHANGED vars

Next ==
  \/ \E s \in Comps : Call(s)
  \/ Return \/ FaultUpdate
  \/ \E n \in Thds : Reschedule(n)
  \/ \E u \in Upcalls : Interrupt(u) \/ Activate(u)
  \/ UpcallWait
  \/ Fault \/ HomeFault \/ Reboot \/ Trigger
  \/ SetPrevThd \/ SetRecoverSpd \/ LoopTest \/ LoopSwitch \/ HandlerReturn
  \/ Notified
  \/ RecoverUpcall \/ Reflect \/ RecoverDone \/ RecoverSwitch
  \/ Stopped

Spec == Init /\ [][Next]_vars
-----------------------------------------------------------------------------
(* Properties. *)

\* No thread executes in a component that was rebooted since it entered: the
\* counters stop it on its way back in.
NoStaleExecution ==
  dead = "no" /\ pc[curr] \in {"run", "init"}
    => Top(curr).inc = inc[Top(curr).spd]

\* A call past ipc_fault_detect comes from a client whose stub has been told
\* of every failure the callee's frame counts, so its descriptors are
\* recovered before they are used.
ClientKnows ==
  \A t \in Thds : \A i \in 2..Len(stk[t]) :
    LET s == stk[t][i].spd
        k == <<stk[t][i - 1].spd, s>>
    IN k \in Calls /\ ~(i + 1 = Len(stk[t]) /\ pc[t] = "notif")
         => stk[t][i].cnt <= known[k]

\* While failures do not overlap, the fault handler does not return before the
\* recovery thread has done the reflection for its failure.
ReflectedBeforeReturn ==
  ~overlapped =>
    \A t \in Thds : pc[t] = "return" => reflection[failed[t][1]] > failed[t][2]

\* While failures do not overlap, a reboot does not send the recovery thread
\* itself back: its home frame, whose counter upcall_setup leaves alone, never
\* lags when it is looked at.
RecovererKeepsUp == dead = "lagging" => overlapped

\* The recovery thread's loop always finds a component to recover or a thread
\* to go back to (assert(pthd && pthd != tid)), however failures overlap.
LoopHasWork == dead # "assert"
=============================================================================
