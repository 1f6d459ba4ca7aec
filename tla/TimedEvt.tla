------------------------------ MODULE TimedEvt ------------------------------
(***************************************************************************)
(* The timed event manager (timed_blk/timed_evt/__timed_event_rec): timed  *)
(* blocking and periodic wakeups on two lists ordered by expiration, and   *)
(* the timer thread that walks them.  In front of it are the recovering    *)
(* stubs of its two interfaces (interface/timed_blk and periodic_wake),    *)
(* below it the scheduler's timeout and tick (sched/__cos_sched_base_rec)  *)
(* and, per sleeping thread, one event of the event manager.               *)
(*                                                                         *)
(* Times are offsets from the scheduler's current tick.  Everything a      *)
(* client does in the component's critical section is one step, except for *)
(* the sched_timeout that periodic_wake_create calls inside it.  The timer *)
(* thread has the highest priority, as the comment above event_expiration  *)
(* requires: a client runs only while the timer sleeps or waits for the    *)
(* section that client holds.  An iteration of the timer's walk, with the  *)
(* evt_trigger it makes outside the section, is therefore one step.        *)
(***************************************************************************)
EXTENDS Integers, Sequences

CONSTANTS
  Threads,     \* client threads
  Home,        \* Home[t]: the client component thread t runs in
  Ops,         \* Ops[t]: the functions thread t calls, of Functions
  Amounts,     \* arguments of timed_event_block
  Periods,     \* arguments of periodic_wake_create
  MaxLag,      \* bound: ticks that pass while a thread is on its way from
               \* reading the time to arming the timer
  MaxRestart,  \* bound: deadlines a thread misses before it waits again
  MaxFaults,   \* bound: failures of the manager
  Timer,       \* the timer thread
  None

TicksPerTick == 2   \* sched_timer_tick increments ticks twice
NoTimeout == -1     \* wakeup_time = 0

Calls == {"block", "wakeup", "create", "wait", "remove"}

ASSUME TimedAssumption ==
  /\ Timer \notin Threads /\ None \notin Threads \cup {Timer} /\ None \notin Int
  /\ Amounts \subseteq Nat \ {0} /\ Periods \subseteq Nat \ {0}
  /\ MaxLag \in Nat /\ MaxRestart \in Nat /\ MaxFaults \in Nat
  /\ \A t \in Threads : Ops[t] \subseteq Calls

VARIABLES
  events,     \* &events: records [thd, exp] in the order of expiration
  periodic,   \* &periodic
  te,         \* thd_evts: the thread_event of each thread that blocks
  pte,        \* thd_periodic: the one of each periodic thread
  sec,        \* holder of the component's critical section
  timer,      \* the timer thread: where it is, and the walk's position
  age,        \* now - ticks, while the timer thread works with ticks
  wakeup_in,  \* the scheduler's wakeup_time - now
  twake,      \* a wakeup is kept for the timer thread
  wake,       \* a wakeup is kept for a client thread
  th,         \* the call each client thread is in
  desc,       \* periodic_wake_desc_maps: "none", or fault_cnt is "current"
              \* or "behind" global_fault_cnt
  stale,      \* components whose capabilities are behind the manager
  faults,     \* failures so far
  failed,     \* line of the assertion that failed, or 0
  owed,       \* history: expirations less the waits that returned for them
  left        \* history: ticks until timed_event_block may report a timeout

server == <<events, periodic, te, pte>>
sched == <<wakeup_in, twake, wake>>
stub == <<desc, stale>>
vars == <<server, sec, timer, age, sched, th, stub, faults, failed, owed, left>>

-----------------------------------------------------------------------------
(* Lists of thread events.                                                 *)

InList(l, t) == \E i \in DOMAIN l : l[i].thd = t
Place(l, t) == CHOOSE i \in DOMAIN l : l[i].thd = t

\* The list without its element i, and with e before it.
Without(l, i) == SubSeq(l, 1, i - 1) \o SubSeq(l, i + 1, Len(l))
With(l, i, e) == SubSeq(l, 1, i - 1) \o <<e>> \o SubSeq(l, i, Len(l))

\* Mutant: the thread_event stays in the list.
RemNothing(l, t) == l

\* REM_LIST of t's thread_event; removing one that is in no list does nothing.
REM_LIST(l, t) == IF InList(l, t) THEN Without(l, Place(l, t)) ELSE l

\* __insert_event: before the first one that expires later, or at the end.
Insert(l, t, exp) ==
  LET later == {i \in DOMAIN l : l[i].exp > exp}
      place == IF later = {} THEN Len(l) + 1
               ELSE CHOOSE i \in later : \A j \in later : i <= j
  IN  With(l, place, [thd |-> t, exp |-> exp])

FirstThd(l) == IF l = <<>> THEN None ELSE Head(l).thd
FirstExp(l) == IF l = <<>> THEN None ELSE Head(l).exp

\* Comparison of times; None is TIMER_NO_EVENTS, later than all others.
Before(a, b) == a # None /\ (b = None \/ a < b)

next_event_time(ev, per) ==
  IF Before(FirstExp(ev), FirstExp(per)) THEN FirstExp(ev) ELSE FirstExp(per)

NextEvent == next_event_time(events, periodic)

-----------------------------------------------------------------------------
(* The scheduler and the event manager.                                    *)

\* A client runs only while the timer thread does not.
MayRun(t) ==
  /\ failed = 0
  /\ timer.pc = "asleep" \/ (timer.pc = "take" /\ sec = t)

\* sched_timeout: the earliest request wins.
Timeout(amnt) == IF wakeup_in = NoTimeout \/ amnt < wakeup_in THEN amnt ELSE wakeup_in

Set(t, r) == th' = [th EXCEPT ![t] = r]
Goto(t, pc) == Set(t, [th[t] EXCEPT !.pc = pc])

\* t goes on and no longer needs the times it has read.
Armed(t, pc) == Set(t, [th[t] EXCEPT !.pc = pc, !.amt = 0, !.old = None, !.lag = 0])

\* sched_wakeup of client u, where r is th otherwise.  A thread that has not
\* gone to sleep yet finds the wakeup later.
Wakeup(u, r) ==
  /\ th' = IF r[u].pc = "asleep" THEN [r EXCEPT ![u].pc = "wait"] ELSE r
  /\ wake' = IF r[u].pc = "asleep" THEN wake ELSE [wake EXCEPT ![u] = TRUE]

\* Mutant: the sleeping thread is not woken.
TriggerSilently(u, evt) == UNCHANGED <<th, wake>>

\* evt_trigger wakes the thread that waits for the event, if one does.
Trigger(u, evt) ==
  IF evt = "blocked" THEN Wakeup(u, th) ELSE UNCHANGED <<th, wake>>

-----------------------------------------------------------------------------
(* The client stubs.                                                       *)

NoCall == [pc |-> "idle", op |-> "none", arg |-> 0, amt |-> 0, old |-> None,
           lag |-> 0]
NoDesc == [st |-> "none", period |-> 0]
NoTe == [timed_out |-> FALSE, blocked |-> FALSE, evt |-> "idle"]
NoPte == [periodic |-> FALSE, period |-> 0, blocked |-> FALSE, missed |-> FALSE,
          completion |-> FALSE, restart |-> 0, evt |-> "idle"]

\* A thread calls one of the functions.  A periodic thread creates, waits
\* and removes for itself, and does not block otherwise in between.
Start(t, op, arg) ==
  /\ MayRun(t) /\ th[t].pc = "idle"
  /\ op \in Ops[t]
  /\ \/ op = "block" /\ arg \in Amounts /\ desc[t].st = "none"
     \/ op = "wakeup" /\ arg \in Threads \ {t}
     \/ op = "create" /\ arg \in Periods /\ desc[t].st = "none"
     \/ op \in {"wait", "remove"} /\ arg = 0 /\ desc[t].st # "none"
  /\ Set(t, [NoCall EXCEPT !.pc = "redo", !.op = op, !.arg = arg])
  /\ left' = IF op = "block" THEN [left EXCEPT ![t] = arg] ELSE left
  /\ UNCHANGED <<server, sec, timer, age, sched, desc, stale, faults, failed, owed>>

\* What the stub calls at redo: call_desc_update first creates again what
\* the manager has forgotten.
Function(t) ==
  IF th[t].op \in {"wait", "remove"} /\ desc[t].st = "behind" THEN "exist"
  ELSE th[t].op

\* The capability is behind the manager's fault counter.  The default stub
\* of periodic_wake_create_exist returns an error that nobody looks at.
StaleCall(t) ==
  /\ MayRun(t) /\ th[t].pc = "redo" /\ Home[t] \in stale
  /\ IF Function(t) = "exist"
     THEN desc' = [desc EXCEPT ![t].st = "current"] /\ UNCHANGED th
     ELSE Goto(t, "fault") /\ UNCHANGED desc
  /\ UNCHANGED <<server, sec, timer, age, sched, stale, faults, failed, owed, left>>

\* After a fault the stub brings the component's capabilities up to date and
\* counts the fault, in a counter of its own interface.
FaultUpdate(t) ==
  /\ MayRun(t) /\ th[t].pc = "fault"
  /\ stale' = stale \ {Home[t]}
  /\ desc' = IF th[t].op \in {"block", "wakeup"} THEN desc
             ELSE [u \in Threads |->
                     IF Home[u] = Home[t] /\ desc[u].st # "none"
                     THEN [desc[u] EXCEPT !.st = "behind"] ELSE desc[u]]
  /\ Goto(t, "redo")
  /\ UNCHANGED <<server, sec, timer, age, sched, faults, failed, owed, left>>

\* The call returns, and the stub tracks what it did.  Nobody reads the
\* thread_event of timed_event_block again before the next call sets it up.
Return(t) ==
  /\ MayRun(t) /\ th[t].pc \in {"ret", "err"}
  /\ Set(t, NoCall)
  /\ desc' = CASE th[t].op = "create" ->
                    [desc EXCEPT ![t] = [st |-> "current", period |-> th[t].arg]]
               [] th[t].op = "remove" -> [desc EXCEPT ![t] = NoDesc]
               [] OTHER -> desc
  /\ te' = IF th[t].op = "block" THEN [te EXCEPT ![t] = NoTe] ELSE te
  /\ left' = [left EXCEPT ![t] = 0]
  /\ UNCHANGED <<events, periodic, pte, sec, timer, age, sched, stale, faults, failed, owed>>

-----------------------------------------------------------------------------
(* The manager's functions.                                                *)

\* TAKE; a thread that failed inside the section still holds it.
Enter(t, f) ==
  /\ MayRun(t) /\ th[t].pc = "redo" /\ Home[t] \notin stale
  /\ Function(t) = f
  /\ sec \in {None, t}

Assertion(line) ==
  /\ failed' = line
  /\ UNCHANGED <<server, sec, timer, age, sched, th, stub, faults, owed, left>>

\* timed_event_block up to RELEASE
timed_event_block(t) ==
  /\ Enter(t, "block")
  /\ IF InList(events, t) THEN Assertion(336)
     ELSE /\ events' = Insert(events, t, th[t].arg + 1)
          /\ te' = [te EXCEPT ![t] = [NoTe EXCEPT !.blocked = TRUE]]
          /\ Set(t, [th[t] EXCEPT !.pc = "check", !.amt = th[t].arg + 1,
                                  !.old = NextEvent, !.lag = 0])
          /\ age' = 0
          /\ sec' = None
          /\ UNCHANGED <<periodic, pte, timer, sched, stub, faults, failed, owed, left>>

\* Mutant: the timer is armed where the next event is still the same.
CheckReversed(t) ==
  /\ MayRun(t) /\ th[t].pc = "check"
  /\ IF th[t].old = NextEvent THEN Goto(t, "arm") ELSE Armed(t, "wait")
  /\ UNCHANGED <<server, sec, timer, age, sched, stub, faults, failed, owed, left>>

\* Has the next event changed?  The lists are read outside the section.
Check(t) ==
  /\ MayRun(t) /\ th[t].pc = "check"
  /\ IF th[t].old # NextEvent THEN Goto(t, "arm") ELSE Armed(t, "wait")
  /\ UNCHANGED <<server, sec, timer, age, sched, stub, faults, failed, owed, left>>

\* sched_timeout by a client, which does not block there.
Arm(t) ==
  /\ MayRun(t) /\ th[t].pc = "arm"
  /\ wakeup_in' = Timeout(th[t].amt)
  /\ Armed(t, "wait")
  /\ UNCHANGED <<server, sec, timer, age, twake, wake, stub, faults, failed, owed, left>>

Listed(t) == InList(IF th[t].op = "block" THEN events ELSE periodic, t)
EvtOf(t) == IF th[t].op = "block" THEN te[t].evt ELSE pte[t].evt

\* Mutant: an event that was triggered stays so.
SetEvtSticky(t, e) ==
  IF th[t].op = "block" THEN te' = [te EXCEPT ![t].evt = IF @ = "triggered" THEN @ ELSE e] /\ UNCHANGED pte
  ELSE pte' = [pte EXCEPT ![t].evt = IF @ = "triggered" THEN @ ELSE e] /\ UNCHANGED te

SetEvt(t, e) ==
  IF th[t].op = "block" THEN te' = [te EXCEPT ![t].evt = e] /\ UNCHANGED pte
  ELSE pte' = [pte EXCEPT ![t].evt = e] /\ UNCHANGED te

\* evt_wait, called again while it fails and the thread_event is listed: it
\* fails when the event still has the thread as its waiter.
EvtWait(t) ==
  /\ MayRun(t) /\ th[t].pc = "wait"
  /\ \/ /\ EvtOf(t) = "idle"
        /\ SetEvt(t, "blocked") /\ Goto(t, "sleep")
        /\ UNCHANGED <<failed, owed>>
     \/ /\ EvtOf(t) = "blocked" /\ ~Listed(t)
        /\ Goto(t, "ret")
        /\ UNCHANGED <<te, pte, failed, owed>>
     \/ /\ EvtOf(t) = "triggered"
        /\ IF th[t].op = "block" /\ Listed(t)
           THEN failed' = 372 /\ UNCHANGED <<te, pte, th, owed>>
           ELSE /\ SetEvt(t, "idle") /\ Goto(t, "ret")
                /\ owed' = IF th[t].op = "block" THEN owed
                           ELSE [owed EXCEPT ![t] = @ - 1]
                /\ UNCHANGED failed
  /\ UNCHANGED <<events, periodic, sec, timer, age, sched, stub, faults, left>>

\* sched_block inside evt_wait
Sleep(t) ==
  /\ MayRun(t) /\ th[t].pc = "sleep"
  /\ Goto(t, IF wake[t] THEN "wait" ELSE "asleep")
  /\ wake' = [wake EXCEPT ![t] = FALSE]
  /\ UNCHANGED <<server, sec, timer, age, wakeup_in, twake, stub, faults, failed, owed, left>>

timed_event_wakeup(t) ==
  /\ Enter(t, "wakeup")
  /\ events' = REM_LIST(events, th[t].arg)
  /\ Goto(t, IF InList(events, th[t].arg) THEN "kick" ELSE "ret")
  /\ age' = 0
  /\ sec' = None
  /\ UNCHANGED <<periodic, te, pte, timer, sched, stub, faults, failed, owed, left>>

\* sched_wakeup at its end
Kick(t) ==
  /\ MayRun(t) /\ th[t].pc = "kick"
  /\ Wakeup(th[t].arg, [th EXCEPT ![t].pc = "ret"])
  /\ UNCHANGED <<server, sec, timer, age, wakeup_in, twake, stub, faults, failed, owed, left>>

\* __periodic_wake_create up to the sched_timeout.  A thread_event that is
\* created again expires with the phase of its creation.
periodic_wake_create(t, f) ==
  LET period == IF f = "create" THEN th[t].arg ELSE desc[t].period
      others == REM_LIST(periodic, t)
      next == next_event_time(events, others)
  IN  /\ Enter(t, f)
      /\ IF pte[t].periodic # InList(periodic, t)
         THEN Assertion(IF pte[t].periodic THEN 576 ELSE 579)
         ELSE IF next # None /\ next <= 0 THEN Assertion(623)
         ELSE \E n \in IF f = "create" THEN {period} ELSE 1..period :
                /\ periodic' = Insert(others, t, n)
                /\ pte' = [pte EXCEPT ![t].periodic = TRUE, ![t].period = period,
                                      ![t].evt = "idle"]
                /\ Set(t, [th[t] EXCEPT !.pc = "parm", !.lag = 0,
                             !.amt = IF Before(n, next) THEN n ELSE 0])
                /\ sec' = t
                /\ age' = 0
                /\ desc' = IF f = "exist" THEN [desc EXCEPT ![t].st = "current"] ELSE desc
                /\ UNCHANGED <<events, te, timer, sched, stale, faults, failed, owed, left>>

\* Its end: sched_timeout if t is now the first, and RELEASE.
Created(t) ==
  /\ MayRun(t) /\ th[t].pc = "parm"
  /\ wakeup_in' = IF th[t].amt = 0 THEN wakeup_in ELSE Timeout(th[t].amt)
  /\ pte' = [pte EXCEPT ![t].restart = 0]
  /\ owed' = [owed EXCEPT ![t] = 0]
  /\ sec' = None
  /\ Armed(t, IF th[t].op = "create" THEN "ret" ELSE "redo")
  /\ UNCHANGED <<events, periodic, te, timer, age, twake, wake, stub, faults, failed, left>>

periodic_wake_remove(t) ==
  /\ Enter(t, "remove")
  /\ IF pte[t].periodic /\ ~InList(periodic, t) THEN Assertion(667)
     ELSE /\ periodic' = REM_LIST(periodic, t)
          /\ pte' = [pte EXCEPT ![t].periodic = FALSE, ![t].blocked = FALSE]
          /\ Goto(t, IF pte[t].periodic THEN "ret" ELSE "err")
          /\ sec' = None
          /\ UNCHANGED <<events, te, timer, age, sched, stub, faults, failed, owed, left>>

\* periodic_wake_wait up to RELEASE: a thread that missed deadlines returns
\* once for each of them before it blocks again.
periodic_wake_wait(t) ==
  LET late == pte[t].missed
      p == [pte[t] EXCEPT !.completion = ~late, !.missed = FALSE]
  IN  /\ Enter(t, "wait")
      /\ IF ~pte[t].periodic THEN Goto(t, "err") /\ sec' = None /\ UNCHANGED <<pte, failed, owed>>
         ELSE IF ~InList(periodic, t) \/ (late /\ ~pte[t].completion)
         THEN /\ failed' = IF InList(periodic, t) THEN 721 ELSE 700
              /\ UNCHANGED <<pte, th, sec, owed>>
         ELSE IF pte[t].restart > 0
         THEN /\ pte' = [pte EXCEPT ![t] = [p EXCEPT !.restart = @ - 1]]
              /\ Goto(t, "ret") /\ sec' = None /\ UNCHANGED failed
              /\ owed' = [owed EXCEPT ![t] = @ - 1]
         ELSE /\ pte' = [pte EXCEPT ![t] = [p EXCEPT !.blocked = TRUE]]
              /\ Goto(t, "wait") /\ sec' = None /\ UNCHANGED <<failed, owed>>
      /\ UNCHANGED <<events, periodic, te, timer, age, sched, stub, faults, left>>

-----------------------------------------------------------------------------
(* The timer thread.                                                       *)

TimerStamp ==
  /\ failed = 0 /\ timer.pc = "stamp"
  /\ timer' = [timer EXCEPT !.pc = "take"]
  /\ age' = 0
  /\ UNCHANGED <<server, sec, sched, th, stub, faults, failed, owed, left>>

\* The section is free, or the timer thread failed inside it.
TimerTake ==
  /\ failed = 0 /\ timer.pc = "take" /\ sec \in {None, Timer}
  /\ sec' = Timer
  /\ timer' = [timer EXCEPT !.pc = "walk", !.list = "periodic", !.tmp = FirstThd(periodic)]
  /\ UNCHANGED <<server, age, sched, th, stub, faults, failed, owed, left>>

Walking == failed = 0 /\ timer.pc = "walk"
List == IF timer.list = "periodic" THEN periodic ELSE events

\* Mutant: the walk does not look at the time.
ExpiredAlways(l, t) == t # None

\* Mutant: the walk stops before what expires at this very tick.
ExpiredBefore(l, t) == t # None /\ l[Place(l, t)].exp < -age

\* The test of the walk's loop.
Expired(l, t) == t # None /\ l[Place(l, t)].exp <= -age

\* next_te, read before tmp is moved
NextThd(l, t) == IF Place(l, t) = Len(l) THEN None ELSE l[Place(l, t) + 1].thd

\* One iteration for an event of timed_event_block
ExpireEvent ==
  LET t == timer.tmp
      b == te[t].blocked
  IN  /\ Walking /\ timer.list = "events" /\ Expired(events, t)
      /\ events' = REM_LIST(events, t)
      /\ te' = [te EXCEPT ![t].timed_out = TRUE, ![t].blocked = FALSE,
                          ![t].evt = IF b THEN "triggered" ELSE @]
      /\ IF b THEN Trigger(t, te[t].evt) ELSE UNCHANGED <<th, wake>>
      /\ timer' = [timer EXCEPT !.tmp = NextThd(events, t)]
      /\ UNCHANGED <<periodic, pte, sec, age, wakeup_in, twake, stub, faults, failed, owed, left>>

\* Mutant: only the first of several missed deadlines is counted.
MissedOnce(p) ==
  [p EXCEPT !.restart = IF p.missed THEN @ ELSE @ + 1, !.missed = TRUE, !.completion = TRUE]

\* What an iteration does to a periodic thread_event: a deadline it missed,
\* or the release of a thread that waits.
Missed(p) == [p EXCEPT !.restart = @ + 1, !.missed = TRUE, !.completion = TRUE]
Released(p) == [p EXCEPT !.blocked = FALSE, !.completion = FALSE, !.evt = "triggered"]

\* One iteration for a periodic one, which is listed again for its next
\* deadline
ExpirePeriodic ==
  LET t == timer.tmp
      p == pte[t]
      exp == periodic[Place(periodic, t)].exp
  IN  /\ Walking /\ timer.list = "periodic" /\ Expired(periodic, t)
      /\ IF p.blocked /\ (p.missed \/ ~p.completion)
         THEN Assertion(IF p.missed THEN 230 ELSE 232)
         ELSE /\ periodic' = Insert(REM_LIST(periodic, t), t, exp + p.period)
              /\ pte' = [pte EXCEPT ![t] = IF p.blocked THEN Released(p) ELSE Missed(p)]
              /\ owed' = [owed EXCEPT ![t] = @ + 1]
              /\ IF p.blocked THEN Trigger(t, p.evt) ELSE UNCHANGED <<th, wake>>
              /\ timer' = [timer EXCEPT !.tmp = NextThd(periodic, t)]
              /\ UNCHANGED <<events, te, sec, age, wakeup_in, twake, stub, faults, failed, left>>

EndPeriodic ==
  /\ Walking /\ timer.list = "periodic" /\ ~Expired(periodic, timer.tmp)
  /\ timer' = [timer EXCEPT !.list = "events", !.tmp = FirstThd(events)]
  /\ UNCHANGED <<server, sec, age, sched, th, stub, faults, failed, owed, left>>

\* event_expiration is done: when to wake up next?
NextWakeup ==
  /\ Walking /\ timer.list = "events" /\ ~Expired(events, timer.tmp)
  /\ IF NextEvent # None /\ NextEvent <= -age THEN Assertion(853)
     ELSE /\ sec' = None
          /\ timer' = IF NextEvent = None THEN [timer EXCEPT !.pc = "block", !.tmp = None]
                      ELSE [timer EXCEPT !.pc = "arm", !.tmp = None, !.amt = NextEvent + age]
          /\ UNCHANGED <<server, age, sched, th, stub, faults, failed, owed, left>>

\* sched_timeout, or without events sched_block: a wakeup that has come in
\* the meantime is taken instead of sleeping.
TimerSleep ==
  /\ failed = 0 /\ timer.pc \in {"arm", "block"}
  /\ wakeup_in' = IF timer.pc = "arm" THEN Timeout(timer.amt) ELSE wakeup_in
  /\ timer' = [timer EXCEPT !.pc = IF twake THEN "stamp" ELSE "asleep", !.amt = 0]
  /\ age' = 0
  /\ twake' = FALSE
  /\ UNCHANGED <<server, sec, wake, th, stub, faults, failed, owed, left>>

TimerStep ==
  \/ TimerStamp \/ TimerTake \/ ExpirePeriodic \/ EndPeriodic \/ ExpireEvent
  \/ NextWakeup \/ TimerSleep

-----------------------------------------------------------------------------
(* Time, and failures.                                                     *)

Arming(t) == th[t].pc \in {"check", "arm", "parm"}
Later(l) == [i \in DOMAIN l |-> [l[i] EXCEPT !.exp = @ - TicksPerTick]]

\* The bounds on how far time runs away from the threads.  The walk does not
\* look at the time, so a tick inside it is one right after it.
InTime ==
  /\ \A t \in Threads : Arming(t) => th[t].lag + TicksPerTick <= MaxLag
  /\ timer.pc \in {"stamp", "take", "arm"} => age + TicksPerTick <= MaxLag
  /\ timer.pc # "walk"
  /\ \A i \in DOMAIN periodic :
       pte[periodic[i].thd].restart >= MaxRestart => periodic[i].exp > TicksPerTick

\* sched_timer_tick and sched_process_wakeups
Tick ==
  LET due == wakeup_in # NoTimeout /\ wakeup_in <= TicksPerTick
  IN  /\ failed = 0 /\ InTime
      /\ events' = Later(events) /\ periodic' = Later(periodic)
      /\ wakeup_in' = CASE due /\ ~twake -> NoTimeout
                        [] due /\ twake -> 0
                        [] wakeup_in = NoTimeout -> NoTimeout
                        [] OTHER -> wakeup_in - TicksPerTick
      /\ twake' = (twake \/ (due /\ timer.pc # "asleep"))
      /\ timer' = IF due /\ timer.pc = "asleep" THEN [timer EXCEPT !.pc = "stamp"] ELSE timer
      /\ age' = IF timer.pc \in {"stamp", "take", "arm"} THEN age + TicksPerTick ELSE 0
      /\ th' = [t \in Threads |->
                  IF ~Arming(t) THEN th[t]
                  ELSE [th[t] EXCEPT !.lag = @ + TicksPerTick,
                                     !.old = IF @ = None THEN None ELSE @ - TicksPerTick]]
      /\ left' = [t \in Threads |-> IF left[t] <= TicksPerTick THEN 0 ELSE left[t] - TicksPerTick]
      /\ UNCHANGED <<te, pte, sec, wake, stub, faults, failed, owed>>

Inside == {"check", "arm", "wait", "sleep", "asleep", "kick", "parm", "ret", "err"}

\* The manager fails and is rebooted: its data starts anew, every thread in
\* it returns to its stub (those in E had just entered it), the timer thread
\* starts again.  Who holds the section is the scheduler's data.
Fail(E) ==
  /\ faults < MaxFaults
  /\ E \subseteq {t \in Threads : /\ th[t].pc = "redo" /\ Home[t] \notin stale
                                  /\ Function(t) # "exist"}
  /\ \/ failed # 0 \/ timer.pc # "asleep" \/ E # {}
     \/ \E t \in Threads : th[t].pc \in Inside \ {"sleep", "asleep"}
  /\ events' = <<>> /\ periodic' = <<>>
  /\ te' = [t \in Threads |-> NoTe] /\ pte' = [t \in Threads |-> NoPte]
  /\ th' = [t \in Threads |->
              IF t \in E \/ th[t].pc \in Inside
              THEN [NoCall EXCEPT !.op = th[t].op, !.arg = th[t].arg,
                      !.pc = IF th[t].pc = "parm" /\ th[t].op # "create"
                             THEN "redo" ELSE "fault"]
              ELSE th[t]]
  /\ timer' = [pc |-> "stamp", list |-> "events", tmp |-> None, amt |-> 0]
  /\ age' = 0
  /\ stale' = {Home[t] : t \in Threads}
  /\ faults' = faults + 1
  /\ failed' = 0
  /\ owed' = [t \in Threads |-> 0]
  /\ UNCHANGED <<sec, sched, desc, left>>

-----------------------------------------------------------------------------

Init ==
  /\ events = <<>> /\ periodic = <<>>
  /\ te = [t \in Threads |-> NoTe] /\ pte = [t \in Threads |-> NoPte]
  /\ sec = None
  /\ timer = [pc |-> "asleep", list |-> "events", tmp |-> None, amt |-> 0]
  /\ age = 0
  /\ wakeup_in = NoTimeout /\ twake = FALSE
  /\ wake = [t \in Threads |-> FALSE]
  /\ th = [t \in Threads |-> NoCall]
  /\ desc = [t \in Threads |-> NoDesc] /\ stale = {}
  /\ faults = 0 /\ failed = 0
  /\ owed = [t \in Threads |-> 0] /\ left = [t \in Threads |-> 0]

\* What a thread does once it has made a call.
Proceed(t) ==
  \/ StaleCall(t) \/ FaultUpdate(t) \/ Return(t)
  \/ timed_event_block(t) \/ Check(t) \/ Arm(t) \/ EvtWait(t) \/ Sleep(t)
  \/ timed_event_wakeup(t) \/ Kick(t)
  \/ \E f \in {"create", "exist"} : periodic_wake_create(t, f)
  \/ Created(t) \/ periodic_wake_remove(t) \/ periodic_wake_wait(t)

Next ==
  \/ \E t \in Threads :
       \/ \E op \in Calls, arg \in Amounts \cup Periods \cup Threads \cup {0} : Start(t, op, arg)
       \/ Proceed(t)
  \/ TimerStep
  \/ Tick
  \/ \E E \in SUBSET Threads : Fail(E)

Spec == Init /\ [][Next]_vars

\* Ticks go on, the timer thread has the highest priority, and a client
\* thread that is ready again and again is scheduled (the timer thread takes
\* the core away from it in between).  A periodic thread keeps waiting, and
\* a manager that failed an assertion is rebooted.
Fairness ==
  /\ WF_vars(Tick) /\ WF_vars(TimerStep)
  /\ \A t \in Threads : SF_vars(Proceed(t) \/ Start(t, "wait", 0))
  /\ WF_vars(failed # 0 /\ Fail({}))

FairSpec == Spec /\ Fairness

-----------------------------------------------------------------------------
(* Properties.                                                             *)

Event(S) == [thd : S, exp : Int]

TypeOK ==
  /\ events \in Seq(Event(Threads)) /\ periodic \in Seq(Event(Threads))
  /\ te \in [Threads -> [timed_out : BOOLEAN, blocked : BOOLEAN,
                         evt : {"idle", "blocked", "triggered"}]]
  /\ pte \in [Threads -> [periodic : BOOLEAN, period : Periods \cup {0},
                          blocked : BOOLEAN, missed : BOOLEAN, completion : BOOLEAN,
                          restart : Nat, evt : {"idle", "blocked", "triggered"}]]
  /\ sec \in Threads \cup {Timer, None}
  /\ timer \in [pc : {"stamp", "take", "walk", "arm", "block", "asleep"},
                list : {"events", "periodic"}, tmp : Threads \cup {None}, amt : Nat]
  /\ age \in 0..MaxLag
  /\ wakeup_in \in Nat \cup {NoTimeout} /\ twake \in BOOLEAN
  /\ wake \in [Threads -> BOOLEAN]
  /\ th \in [Threads -> [pc : Inside \cup {"idle", "redo", "fault"},
                         op : Calls \cup {"none"},
                         arg : Amounts \cup Periods \cup Threads \cup {0}, amt : Nat,
                         old : Int \cup {None}, lag : 0..MaxLag]]
  /\ desc \in [Threads -> [st : {"none", "current", "behind"}, period : Periods \cup {0}]]
  /\ stale \subseteq {Home[t] : t \in Threads}
  /\ faults \in 0..MaxFaults /\ failed \in Nat
  /\ owed \in [Threads -> Nat] /\ left \in [Threads -> Nat]

\* Whoever is about to call sched_timeout for the event it put first.
AboutToArm(t) ==
  \/ th[t].pc = "arm"
  \/ th[t].pc = "check" /\ th[t].old = None
  \/ th[t].pc = "parm" /\ th[t].amt > 0

\* While an event is listed, the timer thread is awake or will be woken: its
\* timeout is set, or the thread that has to set it is on its way there.
\* Clients decide outside the critical section whether they have to.
ExpirationArmed ==
  events # <<>> \/ periodic # <<>> =>
    \/ timer.pc # "asleep"
    \/ wakeup_in # NoTimeout
    \/ \E t \in Threads : AboutToArm(t)

\* timed_event_block reports a timeout only after the ticks it was asked
\* for, counted from the call, over failures and repeated calls.
NotEarly ==
  \A t \in Threads :
    th[t].pc = "ret" /\ th[t].op = "block" /\ te[t].timed_out => left[t] = 0

\* The assertions on the lists and on the deadline accounting hold: that a
\* thread_event is listed exactly when its flags say so (336, 576, 579, 667,
\* 700), that a block that returns has been taken off the list (372), and
\* that a missed deadline has its time (721) and was seen by the wait before
\* the next one (230).
ListAssertionsHold == failed \notin {336, 372, 576, 579, 667, 700, 721, 230}

\* Every expiration of a periodic thread_event is good for exactly one
\* return of periodic_wake_wait: it is counted in need_restart, or it is the
\* release of the thread that waits and has not returned yet.
ActivationsConserved ==
  \A t \in Threads :
    pte[t].periodic =>
      owed[t] = pte[t].restart +
                  IF /\ th[t].op = "wait" /\ th[t].pc \in {"wait", "sleep", "asleep"}
                     /\ ~pte[t].blocked
                  THEN 1 ELSE 0

\* A pass of the timer thread overlooks nothing that has expired, although
\* it reads the next thread_event before it lists the current one again.
\* Where assert(next_wakeup > ticks) fails (853) it is because of a periodic
\* thread_event that the pass has listed again for a time already past: its
\* thread has just been released, or has missed the deadline.
WalkOverlooksNothing ==
  timer.pc \in {"arm", "block"} \/ failed = 853 =>
    /\ \A i \in DOMAIN events : events[i].exp > -age
    /\ \A i \in DOMAIN periodic :
         periodic[i].exp <= -age =>
           LET p == pte[periodic[i].thd] IN p.restart > 0 \/ p.evt = "triggered"

\* The manager's last failure was an assertion.
Halted == failed # 0 /\ faults = MaxFaults

\* Every call returns: a thread that sleeps is released by the timer thread
\* or woken up, over a failure of the manager too.
CallsReturn ==
  \A t \in Threads : th[t].op # "none" ~> th[t].op = "none" \/ Halted

\* periodic_wake_wait does not tell a thread that has created a periodic
\* wakeup, and not removed it, that it has none: after a failure the stub
\* creates the wakeup again.
RegistrationKept == \A t \in Threads : ~(th[t].pc = "err" /\ th[t].op = "wait")
=============================================================================
