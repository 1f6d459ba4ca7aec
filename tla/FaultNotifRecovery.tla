------------------------- MODULE FaultNotifRecovery -------------------------
(***************************************************************************)
(* Proofs about FaultNotif's recovery thread, where the booter's handlers  *)
(* are not interrupted.                                                    *)
(*                                                                         *)
(* The recovery thread runs only when a handler's loop has switched to it, *)
(* with llboot->prev_thd set, so it has work whatever else has failed.     *)
(* While failures do not overlap, one failure is handed over at a time,    *)
(* and no counter is triggered while the recovery thread is away from      *)
(* llboot: that is what keeps its home frame from lagging.                 *)
(*                                                                         *)
(* Last come FaultNotif's types, which hold with interrupts in the         *)
(* handlers as well.                                                       *)
(***************************************************************************)
EXTENDS FaultNotifProofs

Outside == {"run", "notif", "complete"}

Handling ==
  {"reboot", "trigger", "slot", "spd", "loop", "switch", "return"}

\* Where the threads are: a handler leaves the CPU only in its loop.
Handlers ==
  /\ \A t \in Thds : pc[t] \notin Handling => failed[t][1] = None
  /\ \A t \in Thds : pc[t] \in Handling \ {"loop"} => t = curr
  /\ pc[curr] \in {"spd", "switch"} => prev_thd = curr
  /\ curr = Recoverer => prev_thd # None
  /\ dead # "assert"

\* A home frame the recovery thread is away from is of its component's
\* incarnation, or it lags, or the trigger is the next step.
HomeCounted(h) ==
  /\ h.cnt <= fault[h.spd]
  /\ h.cnt = fault[h.spd] =>
       \/ h.inc = inc[h.spd]
       \/ pc[curr] = "trigger" /\ failed[curr][1] = h.spd

\* The recovery thread's home frame.  The thread leaves the CPU in llboot or
\* away from home; a notification with no other frame stops the system.
HomeFrame ==
  LET h == stk[Recoverer][1]
      n == Len(stk[Recoverer])
      p == pc[Recoverer]
  IN
  /\ p \in {"done", "init"} => n = 1
  /\ p = "notif" => n > 1
  /\ p # "done" => h.spd \in Services
  /\ n = 1 => p = "done" \/ curr = Recoverer
  /\ n = 1 /\ p # "done" => h.inc = inc[h.spd]
  /\ n > 1 /\ ~(n = 2 /\ p = "notif") => HomeCounted(h)

\* The recovery thread is in llboot and has nothing to do.
Rest == pc[Recoverer] = "done" /\ recover_spd = None

\* The failure that t handles has, or has not yet, been reflected.
Awaiting(t) ==
  LET s == failed[t][1] IN
  failed[t][2] = fault[s] /\ reflection[s] = fault[s] /\ fault[s] > 0

Reflected(t) == reflection[failed[t][1]] > failed[t][2]

\* How far the failure that t, in its loop, handed over has come.
HandedOver(t) ==
  LET s == failed[t][1] IN
  \/ /\ prev_thd = t /\ recover_spd = s
     /\ pc[Recoverer] = "done" /\ Awaiting(t)
  \/ /\ prev_thd = t /\ recover_spd = None
     /\ pc[Recoverer] = "init" /\ Top(Recoverer).spd = s /\ Awaiting(t)
  \/ /\ prev_thd = t \/ pc[Recoverer] = "done"
     /\ recover_spd = None /\ Reflected(t)

OneAtATime ==
  /\ \A t, u \in Thds : failed[t][1] # None /\ failed[u][1] # None => t = u
  /\ (\A t \in Thds : failed[t][1] = None) => Rest
  /\ \A t \in Thds :
       /\ pc[t] \in Handling \ {"loop", "switch"} => Rest
       /\ pc[t] \in {"slot", "spd"} => Awaiting(t)
       /\ pc[t] \in {"loop", "switch"} => HandedOver(t)
       /\ pc[t] = "return" => Reflected(t)

\* Nobody's home frame lags when it is looked at.
HomeKeepsUp ==
  /\ Len(stk[Recoverer]) > 1 => ~Lags(stk[Recoverer][1])
  /\ \A t \in Thds : pc[t] = "notif" => Len(stk[t]) > 2
  /\ dead # "lagging"

RecoveryInv ==
  /\ reflection \in [Comps -> Nat]
  /\ overlapped \in BOOLEAN
  /\ Handlers
  /\ HomeFrame
  /\ ~overlapped => OneAtATime /\ HomeKeepsUp
-----------------------------------------------------------------------------
(* What the steps do to the threads' places. *)

\* A step outside the handlers and the recovery thread's loop.
Calm ==
  /\ UNCHANGED <<failed, prev_thd, recover_spd, reflection, fault, inc,
                 overlapped>>
  /\ pc[curr] \in Outside
  /\ \A t \in Thds :
       pc'[t] = pc[t] \/ (pc[t] \in Outside /\ pc'[t] \in Outside)
  /\ curr' \in Thds
  /\ curr' = Recoverer => curr = Recoverer
  /\ dead' # dead => dead' \in {"home", "lagging"}
  /\ curr # Recoverer =>
       pc'[Recoverer] = pc[Recoverer] /\ stk'[Recoverer] = stk[Recoverer]

\* A step of the running thread from p to q that keeps it running.
Moves(p, q) ==
  /\ pc[curr] = p
  /\ pc'[curr] = q
  /\ \A t \in Thds \ {curr} : pc'[t] = pc[t]
  /\ curr' = curr
  /\ dead' = dead

LEMMA Placed ==
  ASSUME FaultInv
  PROVE  /\ curr \in Thds
         /\ Recoverer \in Thds
         /\ pc \in [Thds -> Labels]
         /\ stk \in [Thds -> Seq(AnyFrame)]
         /\ failed \in [Thds -> (Services \cup {None}) \X Nat]
         /\ pc[Recoverer] \in {"done", "init", "run", "notif"}
         /\ \A t \in Thds \ {Recoverer} : pc[t] \notin {"done", "init"}
  BY Zenon DEF FaultInv, Types, Places, Thds

\* A frame of a component that cannot fail does not lag.
LEMMA NeverLags ==
  ASSUME FaultInv, NEW f \in AnyFrame, f.spd \notin Services
  PROVE  ~Lags(f)
<1>1. f.spd \in Comps \ Services /\ f.cnt \in Nat
  BY DEF AnyFrame
<1>2. fault[f.spd] = 0
  BY <1>1 DEF FaultInv, Counted
<1> QED BY <1>1, <1>2 DEF Lags

LEMMA InHandlerTop ==
  ASSUME FaultInv, NEW t \in Thds, pc[t] \in InHandler
  PROVE  Top(t).spd = Booter /\ ~Lags(Top(t))
<1>1. StackOK(t, stk[t], pc[t], World)
  BY WorldNow
<1>2. Top(t).spd = Booter
  BY Zenon, <1>1 DEF StackOK, Top
<1>3. Top(t) \in AnyFrame
  BY TopTyped
<1> QED BY <1>2, <1>3, NeverLags, FaultNotifAssumption

LEMMA SwitchPlaces ==
  ASSUME FaultInv, NEW n \in Thds, n # curr, NEW p, SwitchTo(n, p)
  PROVE  /\ curr' = n
         /\ pc'[curr] = p
         /\ \A t \in Thds \ {curr, n} : pc'[t] = pc[t]
         /\ \A t \in Thds \ {n} : stk'[t] = stk[t]
         /\ \/ pc'[n] = pc[n] /\ stk'[n] = stk[n] /\ ~Lags(Top(n))
            \/ /\ pc[n] \notin InHandler /\ pc'[n] = "notif" /\ Lags(Top(n))
               /\ stk'[n] = Invoke(stk[n], Booter)
<1>1. curr' = n
  BY DEF SwitchTo
<1>2. CASE Lags(Top(n))
  <2>1. /\ stk' = [stk EXCEPT ![n] = Invoke(stk[n], Booter)]
        /\ pc' = [[pc EXCEPT ![curr] = p] EXCEPT ![n] = "notif"]
    BY Zenon, <1>2 DEF SwitchTo
  <2>2. pc[n] \notin InHandler
    BY Zenon, <1>2, InHandlerTop
  <2>3. /\ pc'[curr] = p /\ pc'[n] = "notif"
        /\ \A t \in Thds \ {curr, n} : pc'[t] = pc[t]
    BY <2>1, Placed
  <2>4. /\ stk'[n] = Invoke(stk[n], Booter)
        /\ \A t \in Thds \ {n} : stk'[t] = stk[t]
    BY <2>1, Placed
  <2> QED BY Zenon, <1>1, <1>2, <2>2, <2>3, <2>4
<1>3. CASE ~Lags(Top(n))
  <2>1. stk' = stk /\ pc' = [pc EXCEPT ![curr] = p]
    BY Zenon, <1>3 DEF SwitchTo
  <2>2. pc'[curr] = p /\ \A t \in Thds \ {curr} : pc'[t] = pc[t]
    BY <2>1, Placed
  <2> QED BY Zenon, <1>1, <1>3, <2>1, <2>2
<1> QED BY <1>2, <1>3

LEMMA ResumePlaces ==
  ASSUME FaultInv, NEW k, Resume(curr, k)
  PROVE  /\ pc'[curr] \in {"run", "notif"}
         /\ \A t \in Thds \ {curr} : pc'[t] = pc[t] /\ stk'[t] = stk[t]
         /\ \/ pc'[curr] = "run" /\ stk'[curr] = k
            \/ /\ pc'[curr] = "notif" /\ stk'[curr] = Invoke(k, Booter)
               /\ Last(k).spd # Booter /\ Lags(Last(k))
         /\ pc'[curr] = "run" => ~(Last(k).spd # Booter /\ Lags(Last(k)))
<1>1. CASE Last(k).spd # Booter /\ Lags(Last(k))
  <2>1. /\ stk' = [stk EXCEPT ![curr] = Invoke(k, Booter)]
        /\ pc' = [pc EXCEPT ![curr] = "notif"]
    BY Zenon, <1>1 DEF Resume
  <2>2. /\ pc'[curr] = "notif" /\ stk'[curr] = Invoke(k, Booter)
        /\ \A t \in Thds \ {curr} : pc'[t] = pc[t] /\ stk'[t] = stk[t]
    BY <2>1, Placed
  <2> QED BY <1>1, <2>2
<1>2. CASE ~(Last(k).spd # Booter /\ Lags(Last(k)))
  <2>1. /\ stk' = [stk EXCEPT ![curr] = k]
        /\ pc' = [pc EXCEPT ![curr] = "run"]
    BY Zenon, <1>2 DEF Resume
  <2>2. /\ pc'[curr] = "run" /\ stk'[curr] = k
        /\ \A t \in Thds \ {curr} : pc'[t] = pc[t] /\ stk'[t] = stk[t]
    BY <2>1, Placed
  <2> QED BY Zenon, <1>2, <2>2
<1> QED BY <1>1, <1>2

\* The steps of a handler and of the recovery thread's loop.
LEMMA FaultPlaces ==
  ASSUME FaultInv, Fault
  PROVE  LET s == Top(curr).spd IN
         /\ Moves("run", "reboot")
         /\ curr # Recoverer /\ s \in Services
         /\ failed' = [failed EXCEPT ![curr] = <<s, 0>>]
         /\ overlapped' = (overlapped \/ \E t \in Thds : failed[t][1] # None)
         /\ UNCHANGED <<prev_thd, recover_spd, reflection, fault, inc>>
         /\ stk'[Recoverer] = stk[Recoverer]
<1>1. /\ pc[curr] = "run" /\ curr # Recoverer /\ Top(curr).spd \in Services
      /\ pc' = [pc EXCEPT ![curr] = "reboot"]
      /\ failed' = [failed EXCEPT ![curr] = <<Top(curr).spd, 0>>]
      /\ overlapped' = (overlapped \/ \E t \in Thds : failed[t][1] # None)
      /\ UNCHANGED <<prev_thd, recover_spd, reflection, fault, inc, curr, dead>>
  BY Zenon DEF Fault, Running, slots
<1>2. stk' = [stk EXCEPT ![curr] = Invoke(stk[curr], Booter)]
  BY Zenon DEF Fault
<1>3. stk'[Recoverer] = stk[Recoverer]
  BY <1>1, <1>2, Placed
<1>4. Moves("run", "reboot")
  BY <1>1, Placed DEF Moves
<1> QED BY <1>1, <1>3, <1>4

LEMMA RebootPlaces ==
  ASSUME FaultInv, Reboot
  PROVE  /\ Moves("reboot", "trigger")
         /\ inc' = [inc EXCEPT ![failed[curr][1]] = @ + 1]
         /\ UNCHANGED <<prev_thd, recover_spd, reflection, fault, failed,
                        overlapped, stk>>
<1>1. /\ pc[curr] = "reboot"
      /\ pc' = [pc EXCEPT ![curr] = "trigger"]
      /\ inc' = [inc EXCEPT ![failed[curr][1]] = @ + 1]
      /\ UNCHANGED <<prev_thd, recover_spd, reflection, fault, failed,
                     overlapped, stk, curr, dead>>
  BY DEF Reboot, Running, slots
<1>2. Moves("reboot", "trigger")
  BY <1>1, Placed DEF Moves
<1> QED BY <1>1, <1>2

LEMMA TriggerPlaces ==
  ASSUME FaultInv, Trigger
  PROVE  LET s == failed[curr][1] IN
         /\ Moves("trigger", "slot")
         /\ fault' = [fault EXCEPT ![s] = @ + 1]
         /\ reflection' = [reflection EXCEPT ![s] = fault[s] + 1]
         /\ failed' = [failed EXCEPT ![curr] = <<s, fault[s] + 1>>]
         /\ UNCHANGED <<prev_thd, recover_spd, inc, overlapped>>
         /\ \A t \in Thds \ {curr} : stk'[t] = stk[t]
<1> DEFINE s == failed[curr][1]
<1>1. /\ pc[curr] = "trigger"
      /\ pc' = [pc EXCEPT ![curr] = "slot"]
      /\ stk' = [stk EXCEPT ![curr] = Remove(stk[curr])]
      /\ fault' = [fault EXCEPT ![s] = @ + 1]
      /\ reflection' = [reflection EXCEPT ![s] = fault[s] + 1]
      /\ failed' = [failed EXCEPT ![curr] = <<s, fault[s] + 1>>]
      /\ UNCHANGED <<prev_thd, recover_spd, inc, overlapped, curr, dead>>
  BY DEF Trigger, Running, slots
<1> HIDE DEF s
<1>2. Moves("trigger", "slot")
  BY <1>1, Placed DEF Moves
<1>3. \A t \in Thds \ {curr} : stk'[t] = stk[t]
  BY <1>1, Placed
<1> QED BY Zenon, <1>1, <1>2, <1>3 DEF s

LEMMA SlotPlaces ==
  ASSUME FaultInv
  PROVE  /\ SetPrevThd =>
              /\ Moves("slot", "spd")
              /\ prev_thd' = curr /\ recover_spd' = recover_spd
              /\ UNCHANGED <<reflection, fault, inc, failed, overlapped, stk>>
         /\ SetRecoverSpd =>
              /\ Moves("spd", "loop")
              /\ recover_spd' = failed[curr][1] /\ prev_thd' = prev_thd
              /\ UNCHANGED <<reflection, fault, inc, failed, overlapped, stk>>
         /\ LoopTest =>
              /\ Moves("loop", IF prev_thd = curr THEN "switch" ELSE "return")
              /\ UNCHANGED <<prev_thd, recover_spd, reflection, fault, inc,
                             failed, overlapped, stk>>
<1>1. ASSUME SetPrevThd
      PROVE  /\ Moves("slot", "spd")
             /\ prev_thd' = curr /\ recover_spd' = recover_spd
             /\ UNCHANGED <<reflection, fault, inc, failed, overlapped, stk>>
  <2>1. /\ pc[curr] = "slot"
        /\ pc' = [pc EXCEPT ![curr] = "spd"]
        /\ prev_thd' = curr /\ recover_spd' = recover_spd
        /\ UNCHANGED <<reflection, fault, inc, failed, overlapped, stk, curr,
                       dead>>
    BY <1>1 DEF SetPrevThd, Running, counters
  <2> QED BY <2>1, Placed DEF Moves
<1>2. ASSUME SetRecoverSpd
      PROVE  /\ Moves("spd", "loop")
             /\ recover_spd' = failed[curr][1] /\ prev_thd' = prev_thd
             /\ UNCHANGED <<reflection, fault, inc, failed, overlapped, stk>>
  <2>1. /\ pc[curr] = "spd"
        /\ pc' = [pc EXCEPT ![curr] = "loop"]
        /\ recover_spd' = failed[curr][1] /\ prev_thd' = prev_thd
        /\ UNCHANGED <<reflection, fault, inc, failed, overlapped, stk, curr,
                       dead>>
    BY <1>2 DEF SetRecoverSpd, Running, counters
  <2> QED BY <2>1, Placed DEF Moves
<1>3. ASSUME LoopTest
      PROVE  /\ Moves("loop", IF prev_thd = curr THEN "switch" ELSE "return")
             /\ UNCHANGED <<prev_thd, recover_spd, reflection, fault, inc,
                            failed, overlapped, stk>>
  <2> DEFINE q == IF prev_thd = curr THEN "switch" ELSE "return"
  <2>1. /\ pc[curr] = "loop"
        /\ pc' = [pc EXCEPT ![curr] = q]
        /\ UNCHANGED <<prev_thd, recover_spd, reflection, fault, inc, failed,
                       overlapped, stk, curr, dead>>
    BY <1>3 DEF LoopTest, Running, counters, slots
  <2> HIDE DEF q
  <2>2. Moves("loop", q)
    BY <2>1, Placed DEF Moves
  <2> QED BY Zenon, <2>1, <2>2 DEF q
<1> QED BY Zenon, <1>1, <1>2, <1>3

LEMMA LoopSwitchPlaces ==
  ASSUME FaultInv, LoopSwitch
  PROVE  /\ pc[curr] = "switch" /\ curr # Recoverer
         /\ pc'[curr] = "loop"
         /\ curr' = Recoverer
         /\ dead' = dead
         /\ \A t \in Thds \ {curr, Recoverer} : pc'[t] = pc[t]
         /\ \A t \in Thds \ {Recoverer} : stk'[t] = stk[t]
         /\ \/ /\ pc'[Recoverer] = pc[Recoverer]
               /\ stk'[Recoverer] = stk[Recoverer]
            \/ /\ pc[Recoverer] \notin InHandler
               /\ pc'[Recoverer] = "notif"
               /\ Lags(Top(Recoverer))
               /\ stk'[Recoverer] = Invoke(stk[Recoverer], Booter)
         /\ UNCHANGED <<prev_thd, recover_spd, reflection, fault, inc, failed,
                        overlapped>>
<1>1. /\ pc[curr] = "switch"
      /\ SwitchTo(Recoverer, "loop")
      /\ UNCHANGED <<prev_thd, recover_spd, reflection, fault, inc, failed,
                     overlapped, dead>>
  BY DEF LoopSwitch, Running, counters, slots
<1>2. curr # Recoverer /\ Recoverer \in Thds
  BY <1>1, Placed
<1> QED BY Zenon, <1>1, <1>2, SwitchPlaces

LEMMA HandlerReturnPlaces ==
  ASSUME FaultInv, HandlerReturn
  PROVE  /\ pc[curr] = "return" /\ curr # Recoverer
         /\ Resume(curr, Pop(stk[curr]))
         /\ pc'[curr] \in {"run", "notif"}
         /\ \A t \in Thds \ {curr} : pc'[t] = pc[t] /\ stk'[t] = stk[t]
         /\ failed' = [failed EXCEPT ![curr] = <<None, 0>>]
         /\ curr' = curr
         /\ dead' = dead
         /\ UNCHANGED <<prev_thd, recover_spd, reflection, fault, inc,
                        overlapped>>
<1>1. /\ pc[curr] = "return"
      /\ Resume(curr, Pop(stk[curr]))
      /\ failed' = [failed EXCEPT ![curr] = <<None, 0>>]
      /\ UNCHANGED <<prev_thd, recover_spd, reflection, fault, inc,
                     overlapped, curr, dead>>
  BY Zenon DEF HandlerReturn, Running, counters, slots
<1>2. curr # Recoverer
  BY <1>1, Placed
<1> QED BY Zenon, <1>1, <1>2, ResumePlaces

LEMMA RecoverUpcallPlaces ==
  ASSUME FaultInv, RecoverUpcall
  PROVE  /\ curr = Recoverer
         /\ Moves("done", "init")
         /\ recover_spd \in Services
         /\ recover_spd' = None
         /\ \A t \in Thds \ {Recoverer} : stk'[t] = stk[t]
         /\ stk'[Recoverer] =
              <<[stk[Recoverer][1] EXCEPT !.spd = recover_spd,
                                          !.inc = inc[recover_spd]]>>
         /\ UNCHANGED <<prev_thd, reflection, fault, inc, failed, overlapped>>
<1> DEFINE e == <<[stk[curr][1] EXCEPT !.spd = recover_spd,
                                       !.inc = inc[recover_spd]]>>
<1>1. /\ pc[curr] = "done" /\ recover_spd # None
      /\ pc' = [pc EXCEPT ![curr] = "init"]
      /\ recover_spd' = None
      /\ stk' = [stk EXCEPT ![curr] = e]
      /\ UNCHANGED <<prev_thd, reflection, fault, inc, failed, overlapped, curr,
                     dead>>
  BY DEF RecoverUpcall, Running, counters
<1>2. recover_spd \in Services
  BY <1>1 DEF FaultInv, Types
<1>3. curr = Recoverer
  BY Zenon, <1>1, Placed
<1> HIDE DEF e
<1>4. Moves("done", "init")
  BY <1>1, Placed DEF Moves
<1>5. stk'[Recoverer] = e /\ \A t \in Thds \ {Recoverer} : stk'[t] = stk[t]
  BY <1>1, <1>3, Placed
<1>6. e = <<[stk[Recoverer][1] EXCEPT !.spd = recover_spd,
                                      !.inc = inc[recover_spd]]>>
  BY Zenon, <1>3 DEF e
<1> QED BY Zenon, <1>1, <1>2, <1>3, <1>4, <1>5, <1>6

LEMMA ReflectPlaces ==
  ASSUME FaultInv, Reflect
  PROVE  LET s == Top(Recoverer).spd IN
         /\ curr = Recoverer
         /\ Moves("init", "run")
         /\ reflection' = IF fault[s] > 0 /\ reflection[s] = fault[s]
                          THEN [reflection EXCEPT ![s] = @ + 1]
                          ELSE reflection
         /\ UNCHANGED <<prev_thd, recover_spd, fault, inc, failed, overlapped,
                        stk>>
<1>1. /\ pc[curr] = "init"
      /\ pc' = [pc EXCEPT ![curr] = "run"]
      /\ UNCHANGED <<prev_thd, recover_spd, fault, inc, failed, overlapped, stk,
                     curr, dead>>
  BY DEF Reflect, Running, slots
<1>2. curr = Recoverer
  BY Zenon, <1>1, Placed
<1>3. Moves("init", "run")
  BY <1>1, Placed DEF Moves
<1> QED BY Zenon, <1>1, <1>2, <1>3 DEF Reflect

LEMMA RecoverDonePlaces ==
  ASSUME FaultInv, RecoverDone
  PROVE  /\ curr = Recoverer
         /\ Moves("run", "done")
         /\ Len(stk[Recoverer]) = 1
         /\ \A t \in Thds \ {Recoverer} : stk'[t] = stk[t]
         /\ stk'[Recoverer] =
              <<[stk[Recoverer][1] EXCEPT !.spd = Booter, !.inc = 0]>>
         /\ UNCHANGED <<prev_thd, recover_spd, reflection, fault, inc, failed,
                        overlapped>>
<1> DEFINE e == <<[stk[curr][1] EXCEPT !.spd = Booter, !.inc = 0]>>
<1>1. /\ pc[curr] = "run" /\ curr = Recoverer /\ Len(stk[curr]) = 1
      /\ pc' = [pc EXCEPT ![curr] = "done"]
      /\ stk' = [stk EXCEPT ![curr] = e]
      /\ UNCHANGED <<prev_thd, recover_spd, reflection, fault, inc, failed,
                     overlapped, curr, dead>>
  BY DEF RecoverDone, Running, counters, slots
<1>2. e = <<[stk[Recoverer][1] EXCEPT !.spd = Booter, !.inc = 0]>>
  BY Zenon, <1>1 DEF e
<1> HIDE DEF e
<1>3. Moves("run", "done")
  BY <1>1, Placed DEF Moves
<1>4. stk'[Recoverer] = e /\ \A t \in Thds \ {Recoverer} : stk'[t] = stk[t]
  BY <1>1, Placed
<1> QED BY Zenon, <1>1, <1>2, <1>3, <1>4

LEMMA RecoverSwitchPlaces ==
  ASSUME FaultInv, RecoverSwitch, prev_thd # None
  PROVE  /\ curr = Recoverer
         /\ pc[Recoverer] = "done" /\ recover_spd = None
         /\ prev_thd \in Thds /\ prev_thd # Recoverer
         /\ pc[prev_thd] \in Looping
         /\ pc'[Recoverer] = "done"
         /\ \A t \in Thds \ {Recoverer} : pc'[t] = pc[t]
         /\ \A t \in Thds : stk'[t] = stk[t]
         /\ curr' = prev_thd
         /\ prev_thd' = None
         /\ dead' = dead
         /\ UNCHANGED <<recover_spd, reflection, fault, inc, failed, overlapped>>
<1>1. /\ pc[curr] = "done" /\ recover_spd = None
      /\ UNCHANGED <<recover_spd, reflection, fault, inc, failed, overlapped>>
  BY DEF RecoverSwitch, Running, counters
<1>2. curr = Recoverer
  BY Zenon, <1>1, Placed
<1>3. prev_thd \in Thds /\ pc[prev_thd] \in Looping
  BY DEF FaultInv, Types, Places
<1>4. prev_thd # Recoverer /\ pc[prev_thd] \in InHandler
  BY <1>3, Placed DEF Looping, InHandler
<1>5. prev_thd' = None /\ SwitchTo(prev_thd, "done") /\ dead' = dead
  BY Zenon, <1>4 DEF RecoverSwitch
<1>6. /\ curr' = prev_thd
      /\ pc'[curr] = "done"
      /\ \A t \in Thds \ {curr, prev_thd} : pc'[t] = pc[t]
      /\ \A t \in Thds \ {prev_thd} : stk'[t] = stk[t]
      /\ pc'[prev_thd] = pc[prev_thd] /\ stk'[prev_thd] = stk[prev_thd]
  BY Zenon, <1>2, <1>3, <1>4, <1>5, SwitchPlaces
<1> QED BY Zenon, <1>1, <1>2, <1>3, <1>4, <1>5, <1>6
-----------------------------------------------------------------------------
(* Handlers is preserved. *)

LEMMA Disjoint ==
  /\ \A p \in Outside : p \notin Handling /\ p \notin {"done", "init"}
  /\ \A p \in Handling : p \notin {"done", "init"}
  /\ Looping \subseteq Handling
  BY DEF Outside, Handling, Looping
\* The steps of Next: outside the handlers, in one, of the recovery thread.
CalmAction ==
  \/ \E s \in Comps : Call(s)
  \/ Return \/ FaultUpdate
  \/ \E n \in Thds : Reschedule(n)
  \/ \E u \in Upcalls : Interrupt(u) \/ Activate(u)
  \/ UpcallWait \/ HomeFault \/ Notified

LEMMA CalmActions ==
  ~Preemptible /\ FaultInv /\ CalmAction => Calm
<1>ResumeCalm.
  ASSUME FaultInv, NEW k, Resume(curr, k), pc[curr] \in Outside, curr' = curr,
         dead' = dead,
         UNCHANGED <<failed, prev_thd, recover_spd, reflection, fault, inc,
                     overlapped>>
  PROVE  Calm
  <2> USE <1>ResumeCalm
  <2>1. /\ pc'[curr] \in Outside
        /\ \A t \in Thds \ {curr} : pc'[t] = pc[t] /\ stk'[t] = stk[t]
    BY ResumePlaces DEF Outside
  <2> QED BY Zenon, <2>1, Placed DEF Calm
<1>CallCalm.
  ASSUME FaultInv, NEW s \in Comps, Call(s) PROVE Calm
  <2> USE <1>CallCalm
  <2>1. /\ pc[curr] = "run"
        /\ UNCHANGED <<failed, prev_thd, recover_spd, reflection, fault, inc,
                       overlapped, curr, dead>>
    BY Zenon DEF Call, Running, counters, slots
  <2>2. /\ pc' = pc \/ pc' = [pc EXCEPT ![curr] = "notif"]
        /\ \E e : stk' = [stk EXCEPT ![curr] = e]
    BY Zenon DEF Call
  <2>3. /\ pc'[curr] \in Outside
        /\ \A t \in Thds \ {curr} : pc'[t] = pc[t]
    BY <2>1, <2>2, Placed DEF Outside
  <2>4. \A t \in Thds \ {curr} : stk'[t] = stk[t]
    BY <2>2, Placed
  <2>5. "run" \in Outside
    BY DEF Outside
  <2> QED BY Zenon, <2>1, <2>3, <2>4, <2>5, Placed DEF Calm
<1>ReturnCalm.
  ASSUME FaultInv, Return PROVE Calm
  <2> USE <1>ReturnCalm
  <2>1. /\ pc[curr] = "run"
        /\ Resume(curr, Pop(stk[curr]))
        /\ UNCHANGED <<failed, prev_thd, recover_spd, reflection, fault, inc,
                       overlapped, curr, dead>>
    BY ZenonT(30) DEF Return, Running, counters, slots
  <2>2. "run" \in Outside
    BY DEF Outside
  <2> QED BY Zenon, <2>1, <2>2, <1>ResumeCalm
<1>FaultUpdateCalm.
  ASSUME FaultInv, FaultUpdate PROVE Calm
  <2> USE <1>FaultUpdateCalm
  <2>1. /\ pc[curr] = "run"
        /\ \E e : stk' = [stk EXCEPT ![curr] = e]
        /\ UNCHANGED <<failed, prev_thd, recover_spd, reflection, fault, inc,
                       overlapped, curr, pc, dead>>
    BY Zenon DEF FaultUpdate, Running, slots
  <2>2. \A t \in Thds \ {curr} : stk'[t] = stk[t]
    BY <2>1, Placed
  <2>3. "run" \in Outside
    BY DEF Outside
  <2> QED BY Zenon, <2>1, <2>2, <2>3, Placed DEF Calm
<1>RescheduleCalm.
  ASSUME FaultInv, NEW n \in Thds, Reschedule(n) PROVE Calm
  <2> USE <1>RescheduleCalm
  <2>1. /\ pc[curr] \in {"run", "complete"}
        /\ n # curr /\ n \in Threads \cup active
        /\ SwitchTo(n, "run")
        /\ UNCHANGED <<failed, prev_thd, recover_spd, reflection, fault, inc,
                       overlapped, dead>>
    BY DEF Reschedule, counters, slots
  <2>2. n # Recoverer
    BY <2>1, FaultNotifAssumption DEF FaultInv, Types
  <2>3. /\ curr' = n
        /\ pc'[curr] = "run"
        /\ \A t \in Thds \ {curr, n} : pc'[t] = pc[t]
        /\ \A t \in Thds \ {n} : stk'[t] = stk[t]
        /\ pc'[n] = pc[n] \/ (pc[n] \notin InHandler /\ pc'[n] = "notif")
    BY Zenon, <2>1, SwitchPlaces
  <2>4. pc[n] \notin InHandler => pc[n] \in Outside
    BY <2>2, Placed DEF Labels, Outside
  <2>5. pc[curr] \in Outside /\ {"run", "notif"} \subseteq Outside
    BY <2>1 DEF Outside
  <2>6. \A t \in Thds :
          pc'[t] = pc[t] \/ (pc[t] \in Outside /\ pc'[t] \in Outside)
    BY <2>3, <2>4, <2>5
  <2>7. curr # Recoverer =>
          pc'[Recoverer] = pc[Recoverer] /\ stk'[Recoverer] = stk[Recoverer]
    BY Zenon, <2>2, <2>3, Placed
  <2> QED BY Zenon, <2>1, <2>2, <2>3, <2>5, <2>6, <2>7 DEF Calm
<1>InterruptCalm.
  ASSUME ~Preemptible, FaultInv, NEW u \in Upcalls, Interrupt(u) \/ Activate(u)
  PROVE  Calm
  <2> USE <1>InterruptCalm
  <2>1. /\ curr # Recoverer /\ Top(curr).spd # Booter
        /\ curr' \in {curr, u}
        /\ UNCHANGED <<failed, prev_thd, recover_spd, reflection, fault, inc,
                       overlapped, pc, stk, dead>>
    BY DEF Interrupt, Activate, CanInterrupt, InBooter, counters, slots
  <2>2. u \in Thds /\ u # Recoverer
    BY FaultNotifAssumption DEF Thds
  <2>3. pc[curr] \notin InHandler
    BY Zenon, <2>1, InHandlerTop, Placed
  <2>4. pc[curr] \in Outside
    BY <2>1, <2>3, Placed DEF Labels, Outside
  <2>5. curr' \in Thds /\ curr' # Recoverer
    BY <2>1, <2>2, Placed
  <2> QED BY Zenon, <2>1, <2>4, <2>5 DEF Calm
<1>UpcallWaitCalm.
  ASSUME FaultInv, UpcallWait PROVE Calm
  <2> USE <1>UpcallWaitCalm
  <2>1. /\ pc[curr] = "run" /\ curr \in Upcalls
        /\ UNCHANGED <<failed, prev_thd, recover_spd, reflection, fault, inc,
                       overlapped, dead>>
    BY DEF UpcallWait, Running, counters, slots
  <2>2. curr # Recoverer
    BY <2>1, FaultNotifAssumption
  <2>3. {"run", "complete"} \subseteq Outside
    BY DEF Outside
  <2>4. CASE interrupted[curr] # None
    <3>1. curr' = interrupted[curr] /\ stk' = stk /\ pc' = pc
      BY Zenon, <2>4 DEF UpcallWait
    <3>2. interrupted[curr] \in Thds /\ interrupted[curr] # Recoverer
      BY <2>1, <2>4 DEF FaultInv, Types, Chain
    <3> QED BY <2>1, <2>3, <3>1, <3>2 DEF Calm
  <2>5. CASE interrupted[curr] = None
    <3>1. /\ \E e : stk' = [stk EXCEPT ![curr] = e]
          /\ pc' = [pc EXCEPT ![curr] = "complete"]
          /\ curr' = curr
      BY Zenon, <2>5 DEF UpcallWait
    <3>2. /\ pc'[curr] = "complete"
          /\ \A t \in Thds \ {curr} : pc'[t] = pc[t] /\ stk'[t] = stk[t]
      BY <3>1, Placed
    <3>3. pc'[Recoverer] = pc[Recoverer] /\ stk'[Recoverer] = stk[Recoverer]
      BY <2>2, <3>2, Placed
    <3> QED BY <2>1, <2>2, <2>3, <3>1, <3>2, <3>3, Placed DEF Calm
  <2> QED BY <2>4, <2>5
<1>HomeFaultCalm.
  ASSUME HomeFault, FaultInv PROVE Calm
  <2> USE <1>HomeFaultCalm
  <2>1. /\ pc[curr] = "run" /\ dead' = "home"
        /\ UNCHANGED <<failed, prev_thd, recover_spd, reflection, fault, inc,
                       overlapped, curr, pc, stk>>
    BY DEF HomeFault, Running, counters, slots
  <2> QED BY <2>1, Placed DEF Calm, Outside
<1>NotifiedCalm.
  ASSUME FaultInv, Notified PROVE Calm
  <2> USE <1>NotifiedCalm
  <2>1. /\ pc[curr] = "notif"
        /\ UNCHANGED <<failed, prev_thd, recover_spd, reflection, fault, inc,
                       overlapped, curr>>
    BY ZenonT(30) DEF Notified, Running, counters, slots
  <2>2. "notif" \in Outside
    BY DEF Outside
  <2>3. CASE CanRemove(stk[curr])
    <3>1. Resume(curr, Pop(Remove(stk[curr]))) /\ dead' = dead
      BY Zenon, <2>3 DEF Notified
    <3> QED BY Zenon, <2>1, <2>2, <3>1, <1>ResumeCalm
  <2>4. CASE ~CanRemove(stk[curr])
    <3>1. dead' = "lagging" /\ stk' = stk /\ pc' = pc
      BY Zenon, <2>4 DEF Notified
    <3> QED BY <2>1, <2>2, <3>1, Placed DEF Calm
  <2> QED BY <2>3, <2>4
<1> QED
  <2> SUFFICES ASSUME ~Preemptible, FaultInv, CalmAction PROVE Calm
    OBVIOUS
  <2> QED BY <1>CallCalm, <1>ReturnCalm, <1>FaultUpdateCalm, <1>RescheduleCalm, <1>InterruptCalm,
     <1>UpcallWaitCalm, <1>HomeFaultCalm, <1>NotifiedCalm DEF CalmAction
HandlerAction ==
  \/ Fault \/ Reboot \/ Trigger
  \/ SetPrevThd \/ SetRecoverSpd \/ LoopTest \/ LoopSwitch \/ HandlerReturn

RecoveryAction == RecoverUpcall \/ Reflect \/ RecoverDone \/ RecoverSwitch

LEMMA NextSplit ==
  ASSUME [Next]_vars
  PROVE  CalmAction \/ HandlerAction \/ RecoveryAction \/ UNCHANGED vars
  BY Zenon DEF Next, CalmAction, HandlerAction, RecoveryAction, Stopped

\* Every step keeps what is known of the handlers.
LEMMA HandlersNext ==
  ~Preemptible /\ FaultInv /\ Handlers /\ (CalmAction \/ HandlerAction \/ RecoveryAction) => Handlers'
<1>HandlersCalm.
  ASSUME FaultInv, Handlers, Calm PROVE Handlers'
  <2> USE <1>HandlersCalm
  <2>1. ASSUME NEW t \in Thds, pc'[t] \notin Handling
        PROVE  failed'[t][1] = None
    <3>1. pc[t] \notin Handling
      BY Zenon, <2>1, Disjoint DEF Calm
    <3> QED BY <3>1 DEF Handlers, Calm
  <2>2. ASSUME NEW t \in Thds, pc'[t] \in Handling \ {"loop"}
        PROVE  FALSE
    <3>1. pc[t] = pc'[t]
      BY Zenon, <2>2, Disjoint DEF Calm
    <3>2. t = curr
      BY <2>2, <3>1 DEF Handlers
    <3> QED BY <2>2, <3>1, <3>2, Disjoint DEF Calm
  <2>3. pc'[curr'] \notin {"spd", "switch"}
    BY <2>2 DEF Calm, Handling
  <2>4. curr' = Recoverer => prev_thd' # None
    BY Zenon DEF Calm, Handlers
  <2>5. dead' # "assert"
    BY DEF Calm, Handlers
  <2> QED BY Zenon, <2>1, <2>2, <2>3, <2>4, <2>5 DEF Handlers
<1>HandlersMove.
  ASSUME FaultInv, Handlers, NEW p, NEW q, Moves(p, q),
         \A t \in Thds \ {curr} : failed'[t] = failed[t],
         q \notin Handling => failed'[curr][1] = None,
         q \in {"spd", "switch"} => prev_thd' = curr,
         curr = Recoverer => prev_thd' # None
  PROVE  Handlers'
  <2> USE <1>HandlersMove
  <2>1. ASSUME NEW t \in Thds, pc'[t] \notin Handling
        PROVE  failed'[t][1] = None
    <3>1. CASE t = curr
      BY Zenon, <2>1, <3>1 DEF Moves
    <3>2. CASE t # curr
      <4>1. pc[t] \notin Handling /\ failed'[t] = failed[t]
        BY <2>1, <3>2 DEF Moves
      <4> QED BY <4>1 DEF Handlers
    <3> QED BY <3>1, <3>2
  <2>2. ASSUME NEW t \in Thds, pc'[t] \in Handling \ {"loop"}
        PROVE  t = curr'
    BY <2>2 DEF Moves, Handlers
  <2>3. pc'[curr'] \in {"spd", "switch"} => prev_thd' = curr'
    BY Zenon DEF Moves
  <2>4. curr' = Recoverer => prev_thd' # None
    BY Zenon DEF Moves
  <2>5. dead' # "assert"
    BY DEF Moves, Handlers
  <2> QED BY Zenon, <2>1, <2>2, <2>3, <2>4, <2>5 DEF Handlers
<1>HandlersLoopSwitch.
  ASSUME FaultInv, Handlers, LoopSwitch PROVE Handlers'
  <2> USE <1>HandlersLoopSwitch
  <2>1. /\ pc[curr] = "switch" /\ curr # Recoverer
        /\ pc'[curr] = "loop"
        /\ curr' = Recoverer
        /\ dead' = dead
        /\ \A t \in Thds \ {curr, Recoverer} : pc'[t] = pc[t]
        /\ prev_thd' = prev_thd /\ failed' = failed
    BY Zenon, LoopSwitchPlaces
  <2>2. pc'[Recoverer] = pc[Recoverer] \/ pc'[Recoverer] = "notif"
    BY Zenon, LoopSwitchPlaces
  <2>3. pc[Recoverer] \notin Handling /\ pc'[Recoverer] \notin Handling
    BY <2>2, Placed DEF Handling
  <2>4. ASSUME NEW t \in Thds, pc'[t] \notin Handling
        PROVE  failed'[t][1] = None
    <3>1. pc[t] \notin Handling
      BY <2>1, <2>3, <2>4 DEF Handling
    <3> QED BY <2>1, <3>1 DEF Handlers
  <2>5. ASSUME NEW t \in Thds, pc'[t] \in Handling \ {"loop"}
        PROVE  FALSE
    BY <2>1, <2>3, <2>5 DEF Handlers
  <2>6. prev_thd' # None
    <3>1. prev_thd = curr
      BY <2>1 DEF Handlers
    <3> QED BY <2>1, <3>1, Placed, FaultNotifAssumption
  <2>7. pc'[curr'] \notin {"spd", "switch"}
    BY <2>1, <2>3 DEF Handling
  <2> QED BY Zenon, <2>1, <2>4, <2>5, <2>6, <2>7 DEF Handlers
<1>HandlersRecoverSwitch.
  ASSUME FaultInv, Handlers, RecoverSwitch PROVE Handlers'
  <2> USE <1>HandlersRecoverSwitch
  <2>1. curr = Recoverer
    <3>1. pc[curr] = "done"
      BY DEF RecoverSwitch, Running
    <3> QED BY Zenon, <3>1, Placed
  <2>2. prev_thd # None
    BY <2>1 DEF Handlers
  <2>3. /\ pc[Recoverer] = "done"
        /\ prev_thd \in Thds /\ prev_thd # Recoverer
        /\ pc'[Recoverer] = "done"
        /\ \A t \in Thds \ {Recoverer} : pc'[t] = pc[t]
        /\ curr' = prev_thd
        /\ dead' = dead /\ failed' = failed
    BY Zenon, <2>2, RecoverSwitchPlaces
  <2>4. ASSUME NEW t \in Thds, pc'[t] \notin Handling
        PROVE  failed'[t][1] = None
    <3>1. pc[t] \notin Handling
      BY <2>3, <2>4
    <3> QED BY <2>3, <3>1 DEF Handlers
  <2>5. ASSUME NEW t \in Thds, pc'[t] \in Handling \ {"loop"}
        PROVE  FALSE
    <3>1. t # Recoverer
      BY <2>3, <2>5, Disjoint
    <3>2. pc[t] \in Handling \ {"loop"}
      BY <2>3, <2>5, <3>1
    <3> QED BY Zenon, <2>1, <3>1, <3>2 DEF Handlers
  <2>6. pc'[curr'] \notin {"spd", "switch"}
    BY <2>3, <2>5 DEF Handling
  <2> QED BY Zenon, <2>3, <2>4, <2>5, <2>6 DEF Handlers
<1>HandlersHandler.
  ASSUME FaultInv, Handlers, HandlerAction PROVE Handlers'
  <2> USE <1>HandlersHandler
  <2>1. CASE Fault
    <3>1. /\ Moves("run", "reboot") /\ curr # Recoverer
          /\ failed' = [failed EXCEPT ![curr] = <<Top(curr).spd, 0>>]
      BY Zenon, <2>1, FaultPlaces
    <3>2. \A t \in Thds \ {curr} : failed'[t] = failed[t]
      BY <3>1, Placed
    <3>3. "reboot" \in Handling \ {"spd", "switch"}
      BY DEF Handling
    <3> QED BY Zenon, <3>1, <3>2, <3>3, <1>HandlersMove
  <2>2. CASE Reboot
    <3>1. Moves("reboot", "trigger") /\ failed' = failed
      BY Zenon, <2>2, RebootPlaces
    <3>2. "trigger" \in Handling \ {"spd", "switch"} /\ curr # Recoverer
      BY <3>1, Placed DEF Handling, Moves
    <3> QED BY Zenon, <3>1, <3>2, <1>HandlersMove
  <2>3. CASE Trigger
    <3>1. /\ Moves("trigger", "slot")
          /\ failed' = [failed EXCEPT ![curr] =
                          <<failed[curr][1], fault[failed[curr][1]] + 1>>]
      BY Zenon, <2>3, TriggerPlaces
    <3>2. \A t \in Thds \ {curr} : failed'[t] = failed[t]
      BY <3>1, Placed
    <3>3. "slot" \in Handling \ {"spd", "switch"} /\ curr # Recoverer
      BY <3>1, Placed DEF Handling, Moves
    <3> QED BY Zenon, <3>1, <3>2, <3>3, <1>HandlersMove
  <2>4. CASE SetPrevThd
    <3>1. Moves("slot", "spd") /\ failed' = failed /\ prev_thd' = curr
      BY Zenon, <2>4, SlotPlaces
    <3>2. "spd" \in Handling /\ curr # Recoverer
      BY <3>1, Placed DEF Handling, Moves
    <3> QED BY Zenon, <3>1, <3>2, <1>HandlersMove
  <2>5. CASE SetRecoverSpd
    <3>1. Moves("spd", "loop") /\ failed' = failed
      BY Zenon, <2>5, SlotPlaces
    <3>2. "loop" \in Handling \ {"spd", "switch"} /\ curr # Recoverer
      BY <3>1, Placed DEF Handling, Moves
    <3> QED BY Zenon, <3>1, <3>2, <1>HandlersMove
  <2>6. CASE LoopTest
    <3> DEFINE q == IF prev_thd = curr THEN "switch" ELSE "return"
    <3>1. Moves("loop", q) /\ failed' = failed /\ prev_thd' = prev_thd
      BY Zenon, <2>6, SlotPlaces
    <3>2. q \in Handling /\ (q \in {"spd", "switch"} => prev_thd = curr)
      BY DEF Handling
    <3> HIDE DEF q
    <3>3. curr # Recoverer
      BY <3>1, Placed DEF Moves
    <3> QED BY Zenon, <3>1, <3>2, <3>3, <1>HandlersMove
  <2>7. CASE LoopSwitch
    BY <2>7, <1>HandlersLoopSwitch
  <2>8. CASE HandlerReturn
    <3>1. /\ pc[curr] = "return" /\ curr # Recoverer
          /\ pc'[curr] \in {"run", "notif"}
          /\ \A t \in Thds \ {curr} : pc'[t] = pc[t]
          /\ failed' = [failed EXCEPT ![curr] = <<None, 0>>]
          /\ curr' = curr /\ dead' = dead
      BY Zenon, <2>8, HandlerReturnPlaces
    <3>2. Moves("return", pc'[curr])
      BY Zenon, <3>1 DEF Moves
    <3>3. failed'[curr][1] = None /\ \A t \in Thds \ {curr} : failed'[t] = failed[t]
      BY <3>1, Placed
    <3>4. pc'[curr] \notin {"spd", "switch"}
      BY <3>1
    <3> QED BY Zenon, <3>1, <3>2, <3>3, <3>4, <1>HandlersMove
  <2> QED BY Zenon, <2>1, <2>2, <2>3, <2>4, <2>5, <2>6, <2>7, <2>8 DEF HandlerAction
<1>HandlersRecovery.
  ASSUME FaultInv, Handlers, RecoveryAction PROVE Handlers'
  <2> USE <1>HandlersRecovery
  <2>1. ASSUME NEW p, NEW q, Moves(p, q), curr = Recoverer, failed' = failed,
               prev_thd' = prev_thd, q \in {"init", "run", "done"}
        PROVE  Handlers'
    <3>1. pc[Recoverer] \notin Handling
      BY Placed DEF Handling
    <3>2. failed'[curr][1] = None /\ prev_thd' # None
      BY <2>1, <3>1, Placed DEF Handlers
    <3>3. q \notin {"spd", "switch"}
      BY <2>1
    <3> QED BY Zenon, <2>1, <3>2, <3>3, <1>HandlersMove
  <2>2. CASE RecoverUpcall
    BY Zenon, <2>1, <2>2, RecoverUpcallPlaces
  <2>3. CASE Reflect
    BY Zenon, <2>1, <2>3, ReflectPlaces
  <2>4. CASE RecoverDone
    BY Zenon, <2>1, <2>4, RecoverDonePlaces
  <2>5. CASE RecoverSwitch
    BY <2>5, <1>HandlersRecoverSwitch
  <2> QED BY Zenon, <2>2, <2>3, <2>4, <2>5 DEF RecoveryAction
<1> QED
  <2> SUFFICES ASSUME ~Preemptible, FaultInv, Handlers, (CalmAction \/ HandlerAction \/ RecoveryAction) PROVE Handlers'
    OBVIOUS
  <2> QED BY Zenon, CalmActions, <1>HandlersCalm, <1>HandlersHandler, <1>HandlersRecovery
-----------------------------------------------------------------------------
(* OneAtATime is preserved while failures do not overlap. *)

\* Failures that do not overlap are handled one at a time.
LEMMA SerialNext ==
  ~Preemptible /\ FaultInv /\ Handlers /\ HomeFrame /\ OneAtATime /\ ~overlapped' /\ reflection \in [Comps -> Nat] /\ (CalmAction \/ HandlerAction \/ RecoveryAction) => OneAtATime'
<1>Sole.
  ASSUME FaultInv, Handlers, OneAtATime, NEW c \in Thds, pc[c] \in Handling
  PROVE  /\ failed[c][1] \in Services /\ failed[c][1] # None
         /\ failed[c] = <<failed[c][1], failed[c][2]>> /\ failed[c][2] \in Nat
         /\ \A t \in Thds \ {c} : failed[t][1] = None /\ pc[t] \notin Handling
  <2> USE <1>Sole
  <2>1. \A t \in Thds : pc[t] \in Handling => failed[t][1] \in Services
    BY DEF FaultInv, Places, Handling, Looping
  <2>2. None \notin Services
    BY FaultNotifAssumption DEF Comps
  <2>3. \A t \in Thds \ {c} : failed[t][1] = None
    BY <2>1, <2>2 DEF OneAtATime
  <2>4. \A t \in Thds \ {c} : pc[t] \notin Handling
    BY <2>1, <2>2, <2>3
  <2>5. failed[c] = <<failed[c][1], failed[c][2]>> /\ failed[c][2] \in Nat
    BY Placed
  <2> QED BY Zenon, <2>1, <2>2, <2>3, <2>4, <2>5
<1>SoleAfter.
  ASSUME NEW c \in Thds,
         \A t \in Thds \ {c} : failed'[t][1] = None /\ pc'[t] \notin Handling,
         failed'[c][1] = None => Rest',
         pc'[c] \in Handling \ {"loop", "switch"} => Rest',
         pc'[c] \in {"slot", "spd"} => Awaiting(c)',
         pc'[c] \in {"loop", "switch"} => HandedOver(c)',
         pc'[c] = "return" => Reflected(c)'
  PROVE  OneAtATime'
  <2> USE <1>SoleAfter
  <2>1. \A t, u \in Thds : failed'[t][1] # None /\ failed'[u][1] # None => t = u
    OBVIOUS
  <2>2. (\A t \in Thds : failed'[t][1] = None) => Rest'
    OBVIOUS
  <2>3. ASSUME NEW t \in Thds
        PROVE  /\ pc'[t] \in Handling \ {"loop", "switch"} => Rest'
               /\ pc'[t] \in {"slot", "spd"} => Awaiting(t)'
               /\ pc'[t] \in {"loop", "switch"} => HandedOver(t)'
               /\ pc'[t] = "return" => Reflected(t)'
    <3>1. CASE t = c
      BY Zenon, <3>1
    <3>2. CASE t # c
      <4>1. pc'[t] \notin Handling
        BY <3>2
      <4>2. {"slot", "spd", "loop", "switch", "return"} \subseteq Handling
        BY DEF Handling
      <4> QED BY Zenon, <4>1, <4>2
    <3> QED BY <3>1, <3>2
  <2> QED BY Zenon, <2>1, <2>2, <2>3 DEF OneAtATime
<1>SerialCalm.
  ASSUME FaultInv, OneAtATime, Calm PROVE OneAtATime'
  <2> USE <1>SerialCalm
  <2>1. UNCHANGED <<failed, prev_thd, recover_spd, reflection, fault>>
    BY DEF Calm
  <2>2. \A p \in {"done", "init"} : pc[Recoverer] = p => pc'[Recoverer] = p
    BY Zenon, Disjoint, Placed DEF Calm
  <2>3. pc[Recoverer] = "init" => Top(Recoverer)' = Top(Recoverer)
    <3>1. pc[Recoverer] = "init" => curr # Recoverer
      BY Disjoint DEF Calm
    <3>2. curr # Recoverer => stk'[Recoverer] = stk[Recoverer]
      BY Zenon DEF Calm
    <3> QED BY Zenon, <3>1, <3>2 DEF Top, Last
  <2>4. Rest => Rest'
    BY <2>1, <2>2 DEF Rest
  <2>5. \A t \in Thds : (Awaiting(t) => Awaiting(t)') /\ (Reflected(t) => Reflected(t)')
    BY Zenon, <2>1 DEF Awaiting, Reflected
  <2>6. ASSUME NEW t \in Thds, HandedOver(t) PROVE HandedOver(t)'
    BY <2>1, <2>2, <2>3, <2>5, <2>6 DEF HandedOver
  <2>7. \A t \in Thds : pc'[t] \in Handling => pc'[t] = pc[t]
    BY Zenon, Disjoint DEF Calm
  <2>8. {"slot", "spd", "loop", "switch", "return"} \subseteq Handling
    BY DEF Handling
  <2>9. ASSUME NEW t \in Thds
        PROVE  /\ pc'[t] \in Handling \ {"loop", "switch"} => Rest'
               /\ pc'[t] \in {"slot", "spd"} => Awaiting(t)'
               /\ pc'[t] \in {"loop", "switch"} => HandedOver(t)'
               /\ pc'[t] = "return" => Reflected(t)'
    <3>1. CASE pc'[t] \in Handling
      <4>1. pc'[t] = pc[t]
        BY <2>7, <3>1
      <4> QED BY Zenon, <2>4, <2>5, <2>6, <4>1 DEF OneAtATime
    <3>2. CASE pc'[t] \notin Handling
      BY Zenon, <2>8, <3>2
    <3> QED BY <3>1, <3>2
  <2>10. \A t, u \in Thds : failed'[t][1] # None /\ failed'[u][1] # None => t = u
    BY Zenon, <2>1 DEF OneAtATime
  <2>11. (\A t \in Thds : failed'[t][1] = None) => Rest'
    BY Zenon, <2>1, <2>4 DEF OneAtATime
  <2> QED BY Zenon, <2>9, <2>10, <2>11 DEF OneAtATime
<1>SerialFault.
  ASSUME FaultInv, Handlers, OneAtATime, Fault, ~overlapped' PROVE OneAtATime'
  <2> USE <1>SerialFault
  <2>1. /\ Moves("run", "reboot") /\ curr # Recoverer
        /\ failed' = [failed EXCEPT ![curr] = <<Top(curr).spd, 0>>]
        /\ overlapped' = (overlapped \/ \E t \in Thds : failed[t][1] # None)
        /\ Top(curr).spd \in Services
        /\ recover_spd' = recover_spd
    BY Zenon, FaultPlaces
  <2>2. \A t \in Thds : failed[t][1] = None
    BY Zenon, <2>1
  <2>3. Rest'
    <3>1. Rest
      BY <2>2 DEF OneAtATime
    <3> QED BY <2>1, <3>1, Placed DEF Rest, Moves
  <2>4. \A t \in Thds : pc[t] \notin Handling
    <3>1. None \notin Services
      BY FaultNotifAssumption DEF Comps
    <3> QED BY <2>2, <3>1 DEF FaultInv, Places, Handling, Looping
  <2>5. \A t \in Thds \ {curr} : failed'[t][1] = None /\ pc'[t] \notin Handling
    BY <2>1, <2>2, <2>4, Placed DEF Moves
  <2>6. pc'[curr] = "reboot" /\ curr \in Thds
    BY <2>1, Placed DEF Moves
  <2> QED BY <2>3, <2>5, <2>6, <1>SoleAfter
<1>SerialReboot.
  ASSUME FaultInv, Handlers, OneAtATime, Reboot PROVE OneAtATime'
  <2> USE <1>SerialReboot
  <2>1. Moves("reboot", "trigger") /\ UNCHANGED <<recover_spd, failed>>
    BY Zenon, RebootPlaces
  <2>2. pc[curr] = "reboot" /\ pc'[curr] = "trigger" /\ curr \in Thds
    BY <2>1, Placed DEF Moves
  <2>3. pc[curr] \in Handling \ {"loop", "switch"}
    BY <2>2 DEF Handling
  <2>4. Rest'
    <3>1. Rest
      BY <2>2, <2>3 DEF OneAtATime
    <3> QED BY <2>1, <2>2, <3>1, Placed DEF Rest, Moves
  <2>5. \A t \in Thds \ {curr} : failed'[t][1] = None /\ pc'[t] \notin Handling
    BY <2>1, <2>2, <2>3, <1>Sole DEF Moves
  <2> QED BY <2>2, <2>4, <2>5, <1>SoleAfter
<1>SerialTrigger.
  ASSUME FaultInv, Handlers, OneAtATime, Trigger,
         reflection \in [Comps -> Nat]
  PROVE  OneAtATime'
  <2> USE <1>SerialTrigger
  <2> DEFINE s == failed[curr][1]
  <2>1. /\ Moves("trigger", "slot") /\ recover_spd' = recover_spd
        /\ fault' = [fault EXCEPT ![s] = @ + 1]
        /\ reflection' = [reflection EXCEPT ![s] = fault[s] + 1]
        /\ failed' = [failed EXCEPT ![curr] = <<s, fault[s] + 1>>]
    BY Zenon, TriggerPlaces
  <2>2. pc[curr] = "trigger" /\ pc'[curr] = "slot" /\ curr \in Thds
    BY <2>1, Placed DEF Moves
  <2>3. pc[curr] \in Handling \ {"loop", "switch"}
    BY <2>2 DEF Handling
  <2>4. Rest'
    <3>1. Rest
      BY <2>2, <2>3 DEF OneAtATime
    <3> QED BY <2>1, <2>2, <3>1, Placed DEF Rest, Moves
  <2>5. s \in Services /\ \A t \in Thds \ {curr} : failed[t][1] = None /\ pc[t] \notin Handling
    BY <2>2, <2>3, <1>Sole
  <2>6. s \in Comps /\ fault[s] \in Nat /\ fault \in [Comps -> Nat]
    BY <2>5 DEF FaultInv, Types, Comps
  <2> HIDE DEF s
  <2>7. \A t \in Thds \ {curr} : failed'[t][1] = None /\ pc'[t] \notin Handling
    BY <2>1, <2>5, Placed DEF Moves
  <2>8. failed'[curr] = <<s, fault[s] + 1>>
    BY <2>1, <2>2, Placed
  <2>9. fault'[s] = fault[s] + 1 /\ reflection'[s] = fault[s] + 1
    BY <2>1, <2>6
  <2>10. PICK c \in Thds : c = curr
    BY <2>2
  <2>11. Awaiting(c)'
    <3>1. failed'[c][1] = s /\ failed'[c][2] = fault[s] + 1
      BY <2>8, <2>10
    <3> QED BY <2>6, <2>9, <3>1 DEF Awaiting
  <2>12. pc'[c] = "slot" /\ \A t \in Thds \ {c} : failed'[t][1] = None /\ pc'[t] \notin Handling
    BY <2>2, <2>7, <2>10
  <2> QED BY <2>4, <2>11, <2>12, <1>SoleAfter
<1>SerialSlot.
  ASSUME FaultInv, Handlers, OneAtATime, SetPrevThd \/ SetRecoverSpd
  PROVE  OneAtATime'
  <2> USE <1>SerialSlot
  <2>1. PICK c \in Thds : c = curr
    BY Placed
  <2>2. /\ UNCHANGED <<failed, fault, reflection>>
        /\ \A t \in Thds \ {c} : pc'[t] = pc[t]
        /\ \/ pc[c] = "slot" /\ pc'[c] = "spd" /\ recover_spd' = recover_spd
           \/ /\ pc[c] = "spd" /\ pc'[c] = "loop"
              /\ recover_spd' = failed[c][1] /\ prev_thd' = c
    <3>1. CASE SetPrevThd
      <4>1. /\ UNCHANGED <<failed, fault, reflection>>
            /\ Moves("slot", "spd") /\ recover_spd' = recover_spd
        BY Zenon, <3>1, SlotPlaces
      <4> QED BY Zenon, <2>1, <4>1 DEF Moves
    <3>2. CASE SetRecoverSpd
      <4>1. /\ UNCHANGED <<failed, fault, reflection>>
            /\ Moves("spd", "loop") /\ recover_spd' = failed[curr][1]
            /\ prev_thd' = prev_thd
        BY Zenon, <3>2, SlotPlaces
      <4>2. prev_thd = curr
        BY <4>1 DEF Handlers, Moves
      <4> QED BY Zenon, <2>1, <4>1, <4>2 DEF Moves
    <3> QED BY <3>1, <3>2
  <2>3. pc[c] \in {"slot", "spd"} /\ pc[c] \in Handling \ {"loop", "switch"}
    BY <2>2 DEF Handling
  <2>4. Rest /\ Awaiting(c)
    BY Zenon, <2>3 DEF OneAtATime
  <2>5. Awaiting(c)'
    BY Zenon, <2>2, <2>4 DEF Awaiting
  <2>6. c # Recoverer
    BY <2>3, Placed DEF Handling
  <2>7. pc'[Recoverer] = "done"
    BY <2>2, <2>4, <2>6, Placed DEF Rest
  <2>8. /\ failed'[c][1] # None
        /\ \A t \in Thds \ {c} : failed'[t][1] = None /\ pc'[t] \notin Handling
    BY Zenon, <2>2, <2>3, <1>Sole
  <2>9. CASE pc[c] = "slot"
    <3>1. Rest' /\ pc'[c] = "spd"
      BY <2>2, <2>4, <2>7, <2>9 DEF Rest
    <3> QED BY <2>5, <2>8, <3>1, <1>SoleAfter
  <2>10. CASE pc[c] = "spd"
    <3>1. pc'[c] = "loop" /\ recover_spd' = failed'[c][1] /\ prev_thd' = c
      BY <2>2, <2>10
    <3>2. HandedOver(c)'
      BY <2>5, <2>7, <3>1 DEF HandedOver
    <3> QED BY <2>8, <3>1, <3>2, <1>SoleAfter
  <2> QED BY <2>3, <2>9, <2>10
<1>SerialLoopTest.
  ASSUME FaultInv, Handlers, OneAtATime, LoopTest PROVE OneAtATime'
  <2> USE <1>SerialLoopTest
  <2>1. PICK c \in Thds : c = curr
    BY Placed
  <2>2. /\ UNCHANGED <<failed, fault, reflection, recover_spd, prev_thd, stk>>
        /\ \A t \in Thds \ {c} : pc'[t] = pc[t]
        /\ pc[c] = "loop"
        /\ pc'[c] = IF prev_thd = c THEN "switch" ELSE "return"
    BY Zenon, <2>1, SlotPlaces DEF Moves
  <2>3. pc[c] \in Handling /\ c # Recoverer
    BY <2>2, Placed DEF Handling
  <2>4. HandedOver(c)
    BY <2>2 DEF OneAtATime
  <2>5. pc'[Recoverer] = pc[Recoverer]
    BY <2>2, <2>3, Placed
  <2>6. (Awaiting(c) => Awaiting(c)') /\ (Reflected(c) => Reflected(c)')
    BY Zenon, <2>2 DEF Awaiting, Reflected
  <2>7. /\ failed'[c][1] # None
        /\ \A t \in Thds \ {c} : failed'[t][1] = None /\ pc'[t] \notin Handling
    BY <2>2, <2>3, <1>Sole
  <2>8. CASE prev_thd = c
    <3>1. pc'[c] = "switch"
      BY <2>2, <2>8
    <3>2. Top(Recoverer)' = Top(Recoverer)
      BY Zenon, <2>2 DEF Top, Last
    <3>3. HandedOver(c)'
      BY <2>2, <2>4, <2>5, <2>6, <3>2 DEF HandedOver
    <3> QED BY <2>7, <3>1, <3>3, <1>SoleAfter
  <2>9. CASE prev_thd # c
    <3>1. pc'[c] = "return"
      BY <2>2, <2>9
    <3>2. pc[Recoverer] = "done" /\ recover_spd = None /\ Reflected(c)
      BY <2>4, <2>9 DEF HandedOver
    <3>3. Rest' /\ Reflected(c)'
      BY <2>2, <2>5, <2>6, <3>2 DEF Rest
    <3> QED BY <2>7, <3>1, <3>3, <1>SoleAfter
  <2> QED BY <2>8, <2>9
<1>SerialLoopSwitch.
  ASSUME FaultInv, Handlers, OneAtATime, LoopSwitch,
         pc[Recoverer] = "init" => curr = Recoverer
  PROVE  OneAtATime'
  <2> USE <1>SerialLoopSwitch
  <2>1. PICK c \in Thds : c = curr
    BY Placed
  <2>2. /\ UNCHANGED <<failed, fault, reflection, recover_spd, prev_thd>>
        /\ \A t \in Thds \ {c, Recoverer} : pc'[t] = pc[t]
        /\ pc[c] = "switch" /\ pc'[c] = "loop" /\ c # Recoverer
    BY Zenon, <2>1, LoopSwitchPlaces
  <2>3. pc'[Recoverer] = pc[Recoverer]
        \/ (pc[Recoverer] \notin InHandler /\ pc'[Recoverer] = "notif")
    BY Zenon, LoopSwitchPlaces
  <2>4. pc[c] \in Handling /\ prev_thd = c
    BY <2>1, <2>2 DEF Handling, Handlers
  <2>5. HandedOver(c) /\ pc[Recoverer] # "init"
    BY <2>1, <2>2 DEF OneAtATime
  <2>6. (Awaiting(c) => Awaiting(c)') /\ (Reflected(c) => Reflected(c)')
    BY Zenon, <2>2 DEF Awaiting, Reflected
  <2>7. pc[Recoverer] = "done" => pc'[Recoverer] = "done"
    BY Zenon, <2>3 DEF InHandler
  <2>8. HandedOver(c)'
    BY <2>2, <2>4, <2>5, <2>6, <2>7 DEF HandedOver
  <2>9. pc'[Recoverer] \notin Handling
    BY <2>3, Placed DEF Handling
  <2>10. /\ failed'[c][1] # None
         /\ \A t \in Thds \ {c} : failed'[t][1] = None /\ pc'[t] \notin Handling
    BY <2>2, <2>4, <2>9, <1>Sole
  <2> QED BY <2>2, <2>8, <2>10, <1>SoleAfter
<1>SerialHandlerReturn.
  ASSUME FaultInv, Handlers, OneAtATime, HandlerReturn PROVE OneAtATime'
  <2> USE <1>SerialHandlerReturn
  <2>1. /\ pc[curr] = "return" /\ curr # Recoverer /\ curr \in Thds
        /\ pc'[curr] \in {"run", "notif"}
        /\ \A t \in Thds \ {curr} : pc'[t] = pc[t]
        /\ failed' = [failed EXCEPT ![curr] = <<None, 0>>]
        /\ recover_spd' = recover_spd
    BY Zenon, HandlerReturnPlaces, Placed
  <2>2. pc[curr] \in Handling \ {"loop", "switch"}
    BY <2>1 DEF Handling
  <2>3. Rest'
    <3>1. Rest
      BY <2>1, <2>2 DEF OneAtATime
    <3> QED BY <2>1, <3>1, Placed DEF Rest
  <2>4. \A t \in Thds \ {curr} : failed'[t][1] = None /\ pc'[t] \notin Handling
    BY <2>1, <2>2, <1>Sole, Placed
  <2>5. PICK c \in Thds : c = curr
    BY <2>1
  <2>6. /\ pc'[c] \in {"run", "notif"}
        /\ \A t \in Thds \ {c} : failed'[t][1] = None /\ pc'[t] \notin Handling
    BY Zenon, <2>1, <2>4, <2>5
  <2> QED BY <2>3, <2>6, <1>SoleAfter
\* While the recovery thread runs, some thread waits for it in its loop.
<1>Waiting.
  ASSUME FaultInv, Handlers, OneAtATime, curr = Recoverer
  PROVE  \E c \in Thds \ {Recoverer} :
           /\ prev_thd = c /\ pc[c] = "loop" /\ HandedOver(c)
           /\ failed[c][1] \in Services /\ failed[c][1] # None
           /\ failed[c][2] \in Nat
           /\ \A t \in Thds \ {c} : failed[t][1] = None /\ pc[t] \notin Handling
  <2> USE <1>Waiting
  <2>1. prev_thd \in Thds /\ pc[prev_thd] \in Looping
    BY DEF Handlers, FaultInv, Types, Places
  <2>2. prev_thd # Recoverer /\ pc[prev_thd] \in Handling
    BY <2>1, Placed, Disjoint DEF Looping
  <2>3. pc[prev_thd] = "loop"
    BY <2>1, <2>2 DEF Handlers, Looping
  <2>4. HandedOver(prev_thd)
    BY Zenon, <2>1, <2>3 DEF OneAtATime
  <2> QED BY Zenon, <2>1, <2>2, <2>3, <2>4, <1>Sole
<1>SerialRecovery.
  ASSUME FaultInv, Handlers, OneAtATime, RecoveryAction,
         reflection \in [Comps -> Nat]
  PROVE  OneAtATime'
  <2> USE <1>SerialRecovery
  <2>1. curr = Recoverer /\ Recoverer \in Thds
    <3>1. RecoverSwitch => pc[curr] = "done"
      BY DEF RecoverSwitch, Running
    <3> QED BY Zenon, <3>1, RecoverUpcallPlaces, ReflectPlaces, RecoverDonePlaces,
               Placed DEF RecoveryAction
  <2>2. PICK c \in Thds \ {Recoverer} :
          /\ prev_thd = c /\ pc[c] = "loop" /\ HandedOver(c)
          /\ failed[c][1] \in Services /\ failed[c][1] # None
          /\ failed[c][2] \in Nat
          /\ \A t \in Thds \ {c} : failed[t][1] = None /\ pc[t] \notin Handling
    BY Zenon, <2>1, <1>Waiting
  <2> DEFINE s == failed[c][1]
  <2>3. s \in Comps /\ fault[s] \in Nat /\ reflection[s] \in Nat
    BY <2>2 DEF FaultInv, Types, Comps
  <2> HIDE DEF s
  <2>4. ASSUME failed' = failed, pc'[c] = pc[c], pc'[Recoverer] \notin Handling,
               \A t \in Thds \ {Recoverer} : pc'[t] = pc[t], HandedOver(c)'
        PROVE  OneAtATime'
    <3>1. /\ failed'[c][1] # None /\ pc'[c] = "loop" /\ c \in Thds
          /\ \A t \in Thds \ {c} : failed'[t][1] = None /\ pc'[t] \notin Handling
      BY <2>2, <2>4
    <3> QED BY Zenon, <2>4, <3>1, <1>SoleAfter
  <2>5. CASE RecoverUpcall
    <3>1. /\ Moves("done", "init") /\ recover_spd \in Services /\ recover_spd' = None
          /\ stk'[Recoverer] =
               <<[stk[Recoverer][1] EXCEPT !.spd = recover_spd,
                                           !.inc = inc[recover_spd]]>>
          /\ UNCHANGED <<prev_thd, reflection, fault, failed>>
      BY Zenon, <2>5, RecoverUpcallPlaces
    <3>2. recover_spd # None
      BY <3>1, FaultNotifAssumption DEF Comps
    <3>3. recover_spd = failed[c][1] /\ Awaiting(c)
      BY Zenon, <2>2, <3>2 DEF HandedOver
    <3>4. Awaiting(c)'
      BY Zenon, <3>1, <3>3 DEF Awaiting
    <3>5. pc'[Recoverer] = "init" /\ \A t \in Thds \ {Recoverer} : pc'[t] = pc[t]
      BY Zenon, <2>1, <3>1 DEF Moves
    <3>6. Top(Recoverer)'.spd = recover_spd
      <4> DEFINE h == stk[Recoverer][1]
      <4>1. h \in AnyFrame
        <5>1. stk[Recoverer] \in Seq(AnyFrame) /\ stk[Recoverer] # <<>>
          BY <2>1, TopTyped
        <5> QED BY <5>1
      <4> DEFINE g == [h EXCEPT !.spd = recover_spd, !.inc = inc[recover_spd]]
      <4>2. g.spd = recover_spd
        BY <4>1 DEF AnyFrame
      <4>3. stk'[Recoverer] = <<g>>
        BY <3>1
      <4> HIDE DEF g
      <4>4. Top(Recoverer)' = g
        BY <4>3 DEF Top, Last
      <4> QED BY <4>2, <4>4
    <3>7. HandedOver(c)'
      BY <2>2, <3>1, <3>3, <3>4, <3>5, <3>6 DEF HandedOver
    <3>8. pc'[Recoverer] \notin Handling
      BY <3>5 DEF Handling
    <3> QED BY Zenon, <2>2, <2>4, <3>1, <3>5, <3>7, <3>8
  <2>6. CASE Reflect
    <3> DEFINE r == Top(Recoverer).spd
    <3>1. /\ Moves("init", "run")
          /\ reflection' = IF fault[r] > 0 /\ reflection[r] = fault[r]
                           THEN [reflection EXCEPT ![r] = @ + 1]
                           ELSE reflection
          /\ UNCHANGED <<prev_thd, recover_spd, fault, failed>>
      BY Zenon, <2>6, ReflectPlaces
    <3>2. pc[Recoverer] = "init" /\ pc'[Recoverer] = "run"
          /\ \A t \in Thds \ {Recoverer} : pc'[t] = pc[t]
      BY Zenon, <2>1, <3>1 DEF Moves
    <3>3. recover_spd = None
      BY <2>2, <3>2 DEF HandedOver
    <3> HIDE DEF r
    <3>4. reflection'[s] \in Nat /\ reflection'[s] >= reflection[s]
      BY <2>3, <3>1
    <3>5. Reflected(c)'
      <4>1. CASE Reflected(c)
        BY <2>2, <2>3, <3>1, <3>4, <4>1 DEF Reflected, s
      <4>2. CASE ~Reflected(c)
        <5>1. r = s /\ Awaiting(c)
          BY Zenon, <2>2, <3>2, <4>2 DEF HandedOver, r, s
        <5>2. failed[c][2] = fault[s] /\ reflection[s] = fault[s] /\ fault[s] > 0
          BY Zenon, <5>1 DEF Awaiting, s
        <5>3. reflection'[s] = reflection[s] + 1
          BY <2>3, <3>1, <5>1, <5>2
        <5>4. reflection'[s] > failed[c][2]
          BY <2>3, <5>2, <5>3
        <5> QED BY Zenon, <3>1, <5>4 DEF Reflected, s
      <4> QED BY Zenon, <4>1, <4>2
    <3>6. HandedOver(c)'
      BY Zenon, <2>2, <3>1, <3>3, <3>5 DEF HandedOver
    <3>7. pc'[Recoverer] \notin Handling
      BY <3>2 DEF Handling
    <3> QED BY Zenon, <2>2, <2>4, <3>1, <3>2, <3>6, <3>7
  <2>7. CASE RecoverDone
    <3>1. Moves("run", "done") /\ UNCHANGED <<prev_thd, recover_spd, reflection, fault, failed>>
      BY Zenon, <2>7, RecoverDonePlaces
    <3>2. pc[Recoverer] = "run" /\ pc'[Recoverer] = "done"
          /\ \A t \in Thds \ {Recoverer} : pc'[t] = pc[t]
      BY Zenon, <2>1, <3>1 DEF Moves
    <3>3. recover_spd = None /\ Reflected(c)
      BY <2>2, <3>2 DEF HandedOver
    <3>4. Reflected(c)'
      BY Zenon, <3>1, <3>3 DEF Reflected
    <3>5. HandedOver(c)'
      BY Zenon, <2>2, <3>1, <3>3, <3>4 DEF HandedOver
    <3>6. pc'[Recoverer] \notin Handling
      BY <3>2 DEF Handling
    <3> QED BY Zenon, <2>2, <2>4, <3>1, <3>2, <3>5, <3>6
  <2>8. CASE RecoverSwitch
    <3>1. prev_thd # None
      BY <2>1 DEF Handlers
    <3>2. /\ pc[Recoverer] = "done" /\ recover_spd = None
          /\ pc'[Recoverer] = "done"
          /\ \A t \in Thds \ {Recoverer} : pc'[t] = pc[t]
          /\ UNCHANGED <<recover_spd, reflection, fault, failed>>
      BY Zenon, <2>8, <3>1, RecoverSwitchPlaces
    <3>3. Reflected(c)
      BY <2>2, <3>2 DEF HandedOver
    <3>4. Reflected(c)'
      BY Zenon, <3>2, <3>3 DEF Reflected
    <3>5. HandedOver(c)'
      BY <3>2, <3>4 DEF HandedOver
    <3>6. pc'[Recoverer] \notin Handling
      BY <3>2 DEF Handling
    <3> QED BY Zenon, <2>2, <2>4, <3>2, <3>5, <3>6
  <2> QED BY Zenon, <2>5, <2>6, <2>7, <2>8 DEF RecoveryAction
<1> QED
  <2> SUFFICES ASSUME ~Preemptible, FaultInv, Handlers, HomeFrame, OneAtATime, ~overlapped', reflection \in [Comps -> Nat], (CalmAction \/ HandlerAction \/ RecoveryAction) PROVE OneAtATime'
    OBVIOUS
  <2>1. pc[Recoverer] = "init" => curr = Recoverer
    BY Zenon DEF HomeFrame
  <2>2. CASE CalmAction
    BY Zenon, <2>2, CalmActions, <1>SerialCalm
  <2>3. CASE HandlerAction
    BY Zenon, <2>1, <2>3, <1>SerialFault, <1>SerialReboot, <1>SerialTrigger, <1>SerialSlot, <1>SerialLoopTest,
       <1>SerialLoopSwitch, <1>SerialHandlerReturn DEF HandlerAction
  <2>4. CASE RecoveryAction
    BY Zenon, <2>4, <1>SerialRecovery
  <2> QED BY <2>2, <2>3, <2>4
-----------------------------------------------------------------------------
(* The recovery thread's home frame. *)

SameHome(g, h) == g.spd = h.spd /\ g.cnt = h.cnt /\ g.inc = h.inc

LEMMA HomeTyped ==
  ASSUME FaultInv, NEW t \in Thds
  PROVE  /\ stk[t] \in Seq(AnyFrame) /\ stk[t] # <<>>
         /\ Len(stk[t]) \in Nat \ {0}
         /\ stk[t][1] \in AnyFrame
         /\ stk[t][1].cnt \in Nat
         /\ fault[stk[t][1].spd] \in Nat
         /\ Len(stk[t]) = 1 => Top(t) = stk[t][1]
<1>1. stk[t] \in Seq(AnyFrame) /\ stk[t] # <<>>
  BY TopTyped
<1>2. Len(stk[t]) \in Nat \ {0} /\ stk[t][1] \in AnyFrame
  BY <1>1
<1>3. stk[t][1].cnt \in Nat /\ fault[stk[t][1].spd] \in Nat
  BY Zenon, <1>2 DEF AnyFrame, FaultInv, Types
<1> QED BY Zenon, <1>1, <1>2, <1>3 DEF Top, Last

LEMMA InvokeHome ==
  ASSUME FaultInv, NEW k \in Seq(AnyFrame), k # <<>>, NEW s \in Comps
  PROVE  LET e == Invoke(k, s) IN
         /\ Len(k) \in Nat \ {0}
         /\ e \in Seq(AnyFrame) /\ e # <<>>
         /\ Len(e) = Len(k) + 1
         /\ e[1].spd = k[1].spd /\ e[1].inc = k[1].inc
         /\ Len(k) = 1 => e[1].cnt = fault[k[1].spd]
         /\ Len(k) > 1 => e[1].cnt = k[1].cnt
<1> DEFINE e == Invoke(k, s)
           n == Len(k)
<1>1. /\ n \in Nat \ {0}
      /\ e \in Seq(AnyFrame) /\ e # <<>>
      /\ Len(e) = n + 1
      /\ \A i \in 1..(n - 1) : e[i] = k[i]
      /\ e[n].spd = k[n].spd
      /\ e[n].inc = k[n].inc
      /\ e[n].cnt = fault[k[n].spd]
  BY Zenon, WorldNow, InvokeShape
<1> HIDE DEF e
<1>2. CASE n = 1
  BY <1>1, <1>2 DEF e
<1>3. CASE n > 1
  <2>1. e[1] = k[1]
    BY <1>1, <1>3
  <2> QED BY <1>1, <1>3, <2>1 DEF e
<1>4. n = 1 \/ n > 1
  <2> HIDE DEF n
  <2> QED BY <1>1
<1> QED BY <1>2, <1>3, <1>4

LEMMA PopHome ==
  ASSUME NEW k \in Seq(AnyFrame), Len(k) > 1
  PROVE  /\ Pop(k) \in Seq(AnyFrame) /\ Pop(k) # <<>>
         /\ Len(Pop(k)) = Len(k) - 1
         /\ Pop(k)[1] = k[1]
<1> DEFINE e == Pop(k)
           n == Len(k)
<1>1. /\ n \in Nat /\ e \in Seq(AnyFrame)
      /\ Len(e) = n - 1
      /\ \A i \in 1..(n - 1) : e[i] = k[i]
  BY DEF Pop
<1> HIDE DEF e
<1>2. e # <<>> /\ e[1] = k[1]
  BY <1>1
<1> QED BY <1>1, <1>2 DEF e

LEMMA RemoveHome ==
  ASSUME NEW k \in Seq(AnyFrame), Len(k) > 2
  PROVE  /\ Remove(k) \in Seq(AnyFrame)
         /\ Len(Remove(k)) = Len(k) - 1
         /\ SameHome(Remove(k)[1], k[1])
<1> DEFINE n == Len(k)
           g == k[n - 1]
           z == k[n].inc
           a == [k[n - 2] EXCEPT !.stub = g.spd]
           b == [g EXCEPT !.spd = Booter, !.inc = z]
           e == Remove(k)
<1>1. n \in Nat /\ n > 2 /\ k[n] \in AnyFrame /\ g \in AnyFrame
      /\ k[n - 2] \in AnyFrame
  OBVIOUS
<1>2. /\ a \in AnyFrame /\ SameHome(a, k[n - 2])
  BY Zenon, <1>1 DEF AnyFrame, SameHome
<1>3. b \in AnyFrame
  <2>1. Booter \in Comps /\ z \in Nat
    BY <1>1 DEF Comps, AnyFrame
  <2> HIDE DEF g, z
  <2> QED BY Zenon, <1>1, <2>1 DEF AnyFrame
<1>4. e[n - 1] = b
  <2>1. n - 1 \in 1..(n - 1) /\ n - 1 # n - 2
    BY <1>1
  <2> QED BY <2>1 DEF Remove
<1>5. e[n - 2] = a
  <2>1. n - 2 \in 1..(n - 1)
    BY <1>1
  <2> QED BY <2>1 DEF Remove
<1>6. ASSUME NEW i \in 1..(n - 3)
      PROVE  e[i] = k[i]
  <2>1. i \in 1..(n - 1) /\ i # n - 2 /\ i # n - 1
    BY <1>1
  <2> QED BY <2>1 DEF Remove
<1> HIDE DEF a, b
<1>7. e \in Seq(AnyFrame) /\ Len(e) = n - 1
  <2>1. \A i \in 1..(n - 1) : e[i] \in AnyFrame
    <3> HIDE DEF e
    <3> QED BY <1>1, <1>2, <1>3, <1>4, <1>5, <1>6
  <2>2. e = [i \in 1..(n - 1) |-> e[i]]
    BY DEF Remove
  <2> HIDE DEF e
  <2> QED BY <1>1, <2>1, <2>2
<1> HIDE DEF e
<1>8. SameHome(e[1], k[1])
  <2>1. CASE n = 3
    BY <1>2, <1>5, <2>1
  <2>2. CASE n > 3
    <3>1. e[1] = k[1]
      BY <1>1, <1>6, <2>2
    <3> QED BY Zenon, <3>1 DEF SameHome
  <2>3. n = 3 \/ n > 3
    <3> HIDE DEF n
    <3> QED BY <1>1
  <2> QED BY <2>1, <2>2, <2>3
<1> QED BY Zenon, <1>7, <1>8 DEF e, n

\* What a step of the recovery thread outside llboot does to its home frame h,
\* to the number n of its frames and to its place p: nothing, a call, an
\* update of the stub, or a return.
HomeStays(p) ==
  /\ stk'[Recoverer] = stk[Recoverer]
  /\ p = pc[Recoverer]
  /\ curr' = Recoverer \/ Len(stk[Recoverer]) > 1

HomeCalls(h, n, p) ==
  LET g == stk[Recoverer][1]
      m == Len(stk[Recoverer])
  IN
  /\ pc[Recoverer] = "run"
  /\ curr' = Recoverer
  /\ h.spd = g.spd /\ h.inc = g.inc
  /\ m = 1 => h.cnt = fault[g.spd]
  /\ m > 1 => h.cnt = g.cnt
  /\ n > 1
  /\ p = "run" \/ (p = "notif" /\ n > 2)

HomeStubbed(h, n, p) ==
  /\ SameHome(h, stk[Recoverer][1]) /\ n = Len(stk[Recoverer])
  /\ pc[Recoverer] = "run" /\ p = "run"
  /\ curr' = Recoverer

HomeReturns(h, n, p) ==
  LET g == stk[Recoverer][1]
      m == Len(stk[Recoverer])
  IN
  /\ m > 1 /\ ~(m = 2 /\ pc[Recoverer] = "notif")
  /\ curr' = Recoverer
  /\ h.spd = g.spd
  /\ \/ p = "run" /\ SameHome(h, g) /\ (n = 1 => ~Lags(g))
     \/ p = "notif" /\ SameHome(h, g) /\ n > 2 /\ n > 1
     \/ p = "notif" /\ Lags(g) /\ n = 2

HomeMoves(h, n, p) ==
  \/ HomeStays(p)
  \/ HomeCalls(h, n, p)
  \/ HomeStubbed(h, n, p)
  \/ HomeReturns(h, n, p)

LEMMA Lengths ==
  /\ \A n \in Nat \ {0} : n = 1 \/ n > 1
  /\ \A n \in Nat \ {0} : n > 2 => n > 1 /\ n # 2
  OBVIOUS

LEMMA ResumeHome ==
  ASSUME FaultInv, HomeFrame, curr = Recoverer, curr' = curr,
         pc[Recoverer] # "done", Len(stk[Recoverer]) > 1,
         ~(Len(stk[Recoverer]) = 2 /\ pc[Recoverer] = "notif"),
         NEW k \in Seq(AnyFrame), k # <<>>,
         SameHome(k[1], stk[Recoverer][1]), Resume(curr, k)
  PROVE  HomeReturns(stk'[Recoverer][1], Len(stk'[Recoverer]), pc'[Recoverer])
<1> DEFINE h == stk[Recoverer][1]
<1>1. h.spd # Booter /\ h.spd = k[1].spd
  BY FaultNotifAssumption DEF HomeFrame, SameHome
<1>2. Len(k) \in Nat \ {0} /\ (Len(k) = 1 => Last(k) = k[1])
  BY DEF Last
<1>3. Lags(k[1]) <=> Lags(h)
  BY DEF SameHome, Lags
<1>4. CASE pc'[Recoverer] = "run" /\ stk'[Recoverer] = k
  <2>1. ~(Last(k).spd # Booter /\ Lags(Last(k)))
    BY Zenon, <1>4, ResumePlaces
  <2>2. Len(k) = 1 => ~Lags(h)
    BY Zenon, <1>1, <1>2, <1>3, <2>1
  <2> QED BY Zenon, <1>1, <1>4, <2>2 DEF HomeReturns
<1>5. CASE /\ pc'[Recoverer] = "notif" /\ stk'[Recoverer] = Invoke(k, Booter)
           /\ Lags(Last(k))
  <2> DEFINE e == Invoke(k, Booter)
  <2>1. /\ Len(e) = Len(k) + 1
        /\ e[1].spd = k[1].spd /\ e[1].inc = k[1].inc
        /\ Len(k) > 1 => e[1].cnt = k[1].cnt
    <3>1. Booter \in Comps
      BY DEF Comps
    <3> QED BY Zenon, <3>1, InvokeHome
  <2> HIDE DEF e
  <2>2. stk'[Recoverer] = e /\ e[1].spd = h.spd
    BY <1>1, <1>5, <2>1 DEF e
  <2>3. CASE Len(k) = 1
    <3>1. Lags(h) /\ Len(e) = 2
      BY <1>2, <1>3, <1>5, <2>1, <2>3
    <3> QED BY Zenon, <1>5, <2>2, <3>1 DEF HomeReturns
  <2>4. CASE Len(k) > 1
    <3>1. SameHome(e[1], h) /\ Len(e) > 2 /\ Len(e) > 1
      BY <1>2, <2>1, <2>4 DEF SameHome
    <3> QED BY Zenon, <1>5, <2>2, <3>1 DEF HomeReturns
  <2> QED BY Zenon, <1>2, <2>3, <2>4, Lengths
<1> QED BY Zenon, <1>4, <1>5, ResumePlaces

LEMMA HomeOfCall ==
  ASSUME FaultInv, NEW s \in Comps, Call(s), curr = Recoverer
  PROVE  HomeCalls(stk'[Recoverer][1], Len(stk'[Recoverer]), pc'[Recoverer])
<1> DEFINE k == stk[Recoverer]
           e == Invoke(k, s)
           d == Invoke(e, Booter)
<1>1. k \in Seq(AnyFrame) /\ k # <<>> /\ Len(k) \in Nat \ {0}
  BY Zenon, HomeTyped, Placed
<1>2. /\ e \in Seq(AnyFrame) /\ e # <<>>
      /\ Len(e) = Len(k) + 1
      /\ e[1].spd = k[1].spd /\ e[1].inc = k[1].inc
      /\ Len(k) = 1 => e[1].cnt = fault[k[1].spd]
      /\ Len(k) > 1 => e[1].cnt = k[1].cnt
  BY <1>1, InvokeHome
<1>3. Len(e) > 1
  BY <1>1, <1>2
<1> HIDE DEF e
<1>4. /\ Len(d) = Len(e) + 1
      /\ d[1].spd = e[1].spd /\ d[1].inc = e[1].inc /\ d[1].cnt = e[1].cnt
  <2>1. Booter \in Comps
    BY DEF Comps
  <2> QED BY <1>2, <1>3, <2>1, InvokeHome
<1>5. Len(d) > 2
  BY <1>1, <1>2, <1>4
<1> HIDE DEF d
<1>6. pc[Recoverer] = "run" /\ curr' = Recoverer
  BY Zenon DEF Call, Running
<1>7. CASE cap[Top(curr).spd, s] < fault[s]
  <2>1. stk' = [stk EXCEPT ![curr] = d] /\ pc' = [pc EXCEPT ![curr] = "notif"]
    BY Zenon, <1>7 DEF Call, d, e
  <2>2. stk'[Recoverer] = d /\ pc'[Recoverer] = "notif"
    BY <2>1, Placed
  <2> HIDE DEF k
  <2>3. Len(d) > 1
    BY <1>5
  <2> QED BY Zenon, <1>2, <1>4, <1>5, <1>6, <2>2, <2>3 DEF HomeCalls, k
<1>8. CASE ~(cap[Top(curr).spd, s] < fault[s])
  <2>1. stk' = [stk EXCEPT ![curr] = e] /\ pc' = pc
    BY Zenon, <1>8 DEF Call, e
  <2>2. stk'[Recoverer] = e /\ pc'[Recoverer] = "run"
    BY <1>6, <2>1, Placed
  <2> QED BY Zenon, <1>2, <1>3, <1>6, <2>2 DEF HomeCalls
<1> QED BY Zenon, <1>7, <1>8

LEMMA HomeOfCalm ==
  ASSUME ~Preemptible, FaultInv, HomeFrame, CalmAction, curr = Recoverer
  PROVE  HomeMoves(stk'[Recoverer][1], Len(stk'[Recoverer]), pc'[Recoverer])
<1> DEFINE k == stk[Recoverer]
<1>1. Recoverer \in Thds /\ k \in Seq(AnyFrame) /\ k # <<>> /\ Len(k) \in Nat \ {0}
  BY HomeTyped, Placed
<1>2. ASSUME NEW s \in Comps, Call(s)
      PROVE  HomeMoves(stk'[Recoverer][1], Len(stk'[Recoverer]), pc'[Recoverer])
  BY Zenon, <1>2, HomeOfCall DEF HomeMoves
<1>3. CASE Return
  <2>1. /\ pc[curr] = "run" /\ Len(k) > 1
        /\ Resume(curr, Pop(k)) /\ curr' = curr
    BY Zenon, <1>3 DEF Return, Running
  <2>2. Pop(k) \in Seq(AnyFrame) /\ Pop(k) # <<>> /\ SameHome(Pop(k)[1], k[1])
    BY Zenon, <1>1, <2>1, PopHome DEF SameHome
  <2> QED BY Zenon, <2>1, <2>2, ResumeHome DEF HomeMoves
<1>4. CASE FaultUpdate
  <2>1. /\ pc[curr] = "run" /\ curr' = curr /\ pc' = pc
        /\ stk' = [stk EXCEPT ![curr][Len(stk[curr])].stub = None]
    BY Zenon, <1>4 DEF FaultUpdate, Running
  <2> DEFINE f == [k[Len(k)] EXCEPT !.stub = None]
             e == [k EXCEPT ![Len(k)] = f]
  <2>2. stk'[Recoverer] = e
    BY <1>1, <2>1, Placed
  <2>3. SameHome(f, k[Len(k)])
    <3>1. k[Len(k)] \in AnyFrame
      BY <1>1
    <3> QED BY Zenon, <3>1 DEF SameHome, AnyFrame
  <2> HIDE DEF f
  <2>4. Len(e) = Len(k) /\ (e[1] = k[1] \/ (Len(k) = 1 /\ e[1] = f))
    BY <1>1
  <2> HIDE DEF e
  <2>5. SameHome(e[1], k[1])
    BY Zenon, <2>3, <2>4 DEF SameHome
  <2> QED BY Zenon, <2>1, <2>2, <2>4, <2>5 DEF HomeMoves, HomeStubbed
<1>5. ASSUME NEW n \in Thds, Reschedule(n)
      PROVE  HomeMoves(stk'[Recoverer][1], Len(stk'[Recoverer]), pc'[Recoverer])
  <2>1. /\ pc[curr] \in {"run", "complete"} /\ Top(curr).spd = Sched
        /\ n # curr /\ SwitchTo(n, "run")
    BY <1>5 DEF Reschedule
  <2>2. stk'[Recoverer] = k /\ pc'[Recoverer] = "run" /\ pc[Recoverer] = "run"
    <3>1. stk'[Recoverer] = k /\ pc'[Recoverer] = "run"
      BY Zenon, <1>1, <2>1, SwitchPlaces
    <3> QED BY <2>1, <3>1, Placed
  <2>3. Len(k) > 1
    <3>1. Len(k) = 1 => Top(Recoverer) = k[1]
      BY Zenon, <1>1, HomeTyped
    <3>2. k[1].spd \in Services
      BY Zenon, <2>2 DEF HomeFrame
    <3>3. Len(k) # 1
      BY Zenon, <2>1, <3>1, <3>2, FaultNotifAssumption
    <3> QED BY Zenon, <1>1, <3>3, Lengths
  <2> QED BY Zenon, <2>2, <2>3 DEF HomeMoves, HomeStays
<1>6. ASSUME NEW u \in Upcalls, Interrupt(u) \/ Activate(u)
      PROVE  FALSE
  BY Zenon, <1>6 DEF Interrupt, Activate, CanInterrupt
<1>7. CASE UpcallWait
  BY Zenon, <1>7, FaultNotifAssumption DEF UpcallWait
<1>8. CASE HomeFault
  BY Zenon, <1>8 DEF HomeFault, HomeMoves, HomeStays
<1>9. CASE Notified
  <2>1. pc[Recoverer] = "notif" /\ curr' = Recoverer
    BY Zenon, <1>9 DEF Notified, Running
  <2>2. CASE Len(k) > 2
    <3>1. Resume(curr, Pop(Remove(k)))
      BY Zenon, <1>9, <2>2 DEF Notified, CanRemove
    <3> DEFINE r == Remove(k)
    <3>2. r \in Seq(AnyFrame) /\ Len(r) = Len(k) - 1 /\ SameHome(r[1], k[1])
      BY <1>1, <2>2, RemoveHome
    <3> HIDE DEF r
    <3>3. Len(r) > 1
      BY <1>1, <2>2, <3>2
    <3>4. Pop(r) \in Seq(AnyFrame) /\ Pop(r) # <<>> /\ SameHome(Pop(r)[1], k[1])
      BY Zenon, <3>2, <3>3, PopHome DEF SameHome
    <3>5. Len(k) > 1 /\ Len(k) # 2
      BY Zenon, <1>1, <2>2, Lengths
    <3>6. Resume(curr, Pop(r))
      BY <3>1 DEF r
    <3> QED BY Zenon, <2>1, <3>4, <3>5, <3>6, ResumeHome DEF HomeMoves
  <2>3. CASE ~(Len(k) > 2)
    <3>1. stk' = stk /\ pc' = pc
      BY Zenon, <1>9, <2>3 DEF Notified, CanRemove
    <3> QED BY Zenon, <2>1, <3>1 DEF HomeMoves, HomeStays
  <2> QED BY <2>2, <2>3
<1> QED BY Zenon, <1>2, <1>3, <1>4, <1>5, <1>6, <1>7, <1>8, <1>9 DEF CalmAction

\* A lagging recovery thread is away from home when it is switched to.
LEMMA SwitchedHome ==
  ASSUME FaultInv, HomeFrame, LoopSwitch,
         ~(/\ pc'[Recoverer] = pc[Recoverer]
           /\ stk'[Recoverer] = stk[Recoverer])
  PROVE  /\ Len(stk[Recoverer]) > 1
         /\ pc[Recoverer] \notin {"done", "init", "notif"}
         /\ pc'[Recoverer] = "notif"
         /\ SameHome(stk'[Recoverer][1], stk[Recoverer][1])
         /\ Len(stk'[Recoverer]) > 2 /\ Len(stk'[Recoverer]) > 1
<1> DEFINE k == stk[Recoverer]
           e == Invoke(k, Booter)
<1>1. /\ pc[Recoverer] \notin InHandler /\ pc'[Recoverer] = "notif"
      /\ stk'[Recoverer] = e /\ curr # Recoverer
  BY Zenon, LoopSwitchPlaces
<1>2. k \in Seq(AnyFrame) /\ k # <<>> /\ Len(k) \in Nat \ {0}
  BY Zenon, HomeTyped, Placed
<1>3. pc[Recoverer] \notin {"done", "notif"}
  BY <1>1 DEF InHandler
<1>4. Len(k) # 1
  BY Zenon, <1>1, <1>3 DEF HomeFrame
<1>5. Len(k) > 1 /\ pc[Recoverer] # "init"
  <2>1. Len(k) > 1
    BY Zenon, <1>2, <1>4, Lengths
  <2> QED BY <1>4, <2>1 DEF HomeFrame
<1>6. Len(e) = Len(k) + 1 /\ SameHome(e[1], k[1])
  <2>1. Booter \in Comps
    BY DEF Comps
  <2> QED BY <1>2, <1>5, <2>1, InvokeHome DEF SameHome
<1> HIDE DEF e
<1>7. Len(e) > 2 /\ Len(e) > 1
  BY <1>2, <1>5, <1>6
<1> QED BY <1>1, <1>3, <1>5, <1>6, <1>7

\* Every step keeps what is known of the recovery thread's home frame.
LEMMA HomeFrameNext ==
  ~Preemptible /\ FaultInv /\ Handlers /\ HomeFrame /\ (CalmAction \/ HandlerAction \/ RecoveryAction) => HomeFrame'
<1>HomeNext.
  ASSUME NEW h, NEW n, NEW p,
         h = stk'[Recoverer][1], n = Len(stk'[Recoverer]), p = pc'[Recoverer],
         p \in {"done", "init"} => n = 1,
         p = "notif" => n > 1,
         p # "done" => h.spd \in Services,
         n = 1 => p = "done" \/ curr' = Recoverer,
         n = 1 /\ p # "done" => h.inc = inc'[h.spd],
         n > 1 /\ ~(n = 2 /\ p = "notif") => HomeCounted(h)'
  PROVE  HomeFrame'
  <2> USE <1>HomeNext
  <2>1. n > 1 /\ ~(n = 2 /\ p = "notif") => HomeCounted(stk[Recoverer][1])'
    BY Zenon DEF HomeCounted
  <2> QED BY Zenon, <2>1 DEF HomeFrame
\* A home frame's counter while no failure is triggered.
<1>HomeCountedKept.
  ASSUME NEW g, NEW h, SameHome(h, g), HomeCounted(g), pc[curr] # "trigger",
         fault' = fault, inc' = inc
  PROVE  HomeCounted(h)'
  <2> USE <1>HomeCountedKept
  <2>1. g.cnt <= fault[g.spd] /\ (g.cnt = fault[g.spd] => g.inc = inc[g.spd])
    BY Zenon DEF HomeCounted
  <2>2. h.spd = g.spd /\ h.cnt = g.cnt /\ h.inc = g.inc
    BY DEF SameHome
  <2> QED BY Zenon, <2>1, <2>2 DEF HomeCounted
<1>HomeUntouched.
  ASSUME FaultInv, HomeFrame, curr # Recoverer, curr' # Recoverer,
         stk'[Recoverer] = stk[Recoverer], pc'[Recoverer] = pc[Recoverer],
         pc[curr] # "trigger", fault' = fault, inc' = inc
  PROVE  HomeFrame'
  <2> USE <1>HomeUntouched
  <2> DEFINE h == stk[Recoverer][1]
             n == Len(stk[Recoverer])
             p == pc[Recoverer]
  <2>1. /\ p \in {"done", "init"} => n = 1
        /\ p = "notif" => n > 1
        /\ p # "done" => h.spd \in Services
        /\ n = 1 => p = "done"
        /\ n > 1 /\ ~(n = 2 /\ p = "notif") => HomeCounted(h)
    BY Zenon DEF HomeFrame
  <2>2. n > 1 /\ ~(n = 2 /\ p = "notif") => HomeCounted(stk[Recoverer][1])'
    <3>1. PICK g : g = h
      OBVIOUS
    <3>2. SameHome(g, g)
      BY DEF SameHome
    <3>3. HomeCounted(g) => HomeCounted(g)'
      BY Zenon, <3>2, <1>HomeCountedKept
    <3> QED BY Zenon, <2>1, <3>1, <3>3 DEF HomeCounted
  <2> QED BY Zenon, <2>1, <2>2 DEF HomeFrame
<1>HomeFrameMoves.
  ASSUME FaultInv, HomeFrame, curr = Recoverer,
         pc[curr] \in Outside, fault' = fault, inc' = inc,
         HomeMoves(stk'[Recoverer][1], Len(stk'[Recoverer]), pc'[Recoverer])
  PROVE  HomeFrame'
  <2> USE <1>HomeFrameMoves
  <2>1. PICK g, m, o : /\ g = stk[Recoverer][1]
                       /\ m = Len(stk[Recoverer])
                       /\ o = pc[Recoverer]
    BY Zenon
  <2>2. PICK h, n, p : /\ h = stk'[Recoverer][1]
                       /\ n = Len(stk'[Recoverer])
                       /\ p = pc'[Recoverer]
    OBVIOUS
  <2>3. /\ o # "done" /\ o # "init" /\ o # "trigger"
        /\ m \in Nat \ {0} /\ g.cnt \in Nat /\ fault[g.spd] \in Nat
        /\ n = m \/ stk'[Recoverer] # stk[Recoverer]
    <3>1. o # "done" /\ o # "init" /\ o # "trigger"
      BY <2>1 DEF Outside
    <3> QED BY Zenon, <2>1, <2>2, <3>1, HomeTyped, Placed
  <2>4. /\ g.spd \in Services
        /\ o = "notif" => m > 1
        /\ m = 1 => g.inc = inc[g.spd]
        /\ m > 1 /\ ~(m = 2 /\ o = "notif") => HomeCounted(g)
    BY Zenon, <2>1, <2>3 DEF HomeFrame
  <2>5. HomeCounted(g) /\ SameHome(h, g) => HomeCounted(h)'
    BY Zenon, <2>1, <2>3, <1>HomeCountedKept
  <2>6. CASE HomeStays(p)
    <3>1. h = g /\ n = m /\ p = o /\ (curr' = Recoverer \/ m > 1)
      BY Zenon, <2>1, <2>2, <2>6 DEF HomeStays
    <3>2. SameHome(h, g)
      BY <3>1 DEF SameHome
    <3>3. m = 1 => ~(m > 1)
      OBVIOUS
    <3> QED BY Zenon, <2>2, <2>3, <2>4, <2>5, <3>1, <3>2, <3>3, <1>HomeNext
  <2>7. CASE HomeCalls(h, n, p)
    <3>1. /\ o = "run" /\ curr' = Recoverer
          /\ h.spd = g.spd /\ h.inc = g.inc
          /\ m = 1 => h.cnt = fault[g.spd]
          /\ m > 1 => h.cnt = g.cnt
          /\ n > 1
          /\ p = "run" \/ (p = "notif" /\ n > 2)
      BY Zenon, <2>1, <2>7 DEF HomeCalls
    <3>2. HomeCounted(h)'
      <4>1. CASE m = 1
        <5>1. h.cnt = fault'[h.spd] /\ h.inc = inc'[h.spd] /\ fault'[h.spd] \in Nat
          BY <2>3, <2>4, <3>1, <4>1
        <5> QED BY <5>1 DEF HomeCounted
      <4>2. CASE m > 1
        <5>1. o # "notif" /\ SameHome(h, g)
          BY <3>1, <4>2 DEF SameHome
        <5> QED BY Zenon, <2>4, <2>5, <4>2, <5>1
      <4> QED BY Zenon, <2>3, <4>1, <4>2, Lengths
    <3>3. p \notin {"done", "init"} /\ n # 1
      BY <3>1
    <3>4. h.spd \in Services
      BY <2>4, <3>1
    <3> QED BY Zenon, <2>2, <3>1, <3>2, <3>3, <3>4, <1>HomeNext
  <2>8. CASE HomeStubbed(h, n, p)
    <3>1. SameHome(h, g) /\ n = m /\ o = "run" /\ p = "run" /\ curr' = Recoverer
      BY Zenon, <2>1, <2>8 DEF HomeStubbed
    <3>2. h.spd \in Services /\ (n = 1 => h.inc = inc'[h.spd])
      BY <2>4, <3>1 DEF SameHome
    <3>3. p \notin {"done", "init", "notif"} /\ o # "notif"
      BY <3>1
    <3> QED BY Zenon, <2>2, <2>4, <2>5, <3>1, <3>2, <3>3, <1>HomeNext
  <2>9. CASE HomeReturns(h, n, p)
    <3>1. /\ m > 1 /\ ~(m = 2 /\ o = "notif")
          /\ curr' = Recoverer
          /\ h.spd = g.spd
          /\ \/ p = "run" /\ SameHome(h, g) /\ (n = 1 => ~Lags(g))
             \/ p = "notif" /\ SameHome(h, g) /\ n > 2 /\ n > 1
             \/ p = "notif" /\ Lags(g) /\ n = 2
      BY Zenon, <2>1, <2>9 DEF HomeReturns
    <3>2. HomeCounted(g) /\ h.spd \in Services
      BY Zenon, <2>4, <3>1
    <3>3. CASE p = "run" /\ SameHome(h, g) /\ (n = 1 => ~Lags(g))
      <4>1. n = 1 => h.inc = inc'[h.spd]
        <5> SUFFICES ASSUME n = 1 PROVE h.inc = inc'[h.spd]
          OBVIOUS
        <5>1. ~(g.cnt < fault[g.spd]) /\ g.cnt <= fault[g.spd]
          BY Zenon, <3>2, <3>3 DEF Lags, HomeCounted
        <5>2. g.cnt = fault[g.spd]
          BY <2>3, <5>1
        <5>3. g.inc = inc[g.spd]
          BY Zenon, <2>1, <2>3, <3>2, <5>2 DEF HomeCounted
        <5> QED BY <3>3, <5>3 DEF SameHome
      <4>2. p \notin {"done", "init", "notif"}
        BY <3>3
      <4> QED BY Zenon, <2>2, <2>5, <3>1, <3>2, <3>3, <4>1, <4>2, <1>HomeNext
    <3>4. CASE p = "notif" /\ SameHome(h, g) /\ n > 2 /\ n > 1
      <4>1. p \notin {"done", "init"} /\ n > 1 /\ n # 1
        BY <3>4
      <4> QED BY Zenon, <2>2, <2>5, <3>1, <3>2, <3>4, <4>1, <1>HomeNext
    <3>5. CASE p = "notif" /\ Lags(g) /\ n = 2
      <4>1. p \notin {"done", "init"} /\ n > 1 /\ n # 1
        BY <3>5
      <4> QED BY Zenon, <2>2, <3>1, <3>2, <3>5, <4>1, <1>HomeNext
    <3> QED BY <3>1, <3>3, <3>4, <3>5
  <2> QED BY Zenon, <2>2, <2>6, <2>7, <2>8, <2>9 DEF HomeMoves
<1>HomeFrameCalm.
  ASSUME ~Preemptible, FaultInv, HomeFrame, CalmAction PROVE HomeFrame'
  <2> USE <1>HomeFrameCalm
  <2>1. Calm
    BY CalmActions
  <2>2. pc[curr] \in Outside /\ fault' = fault /\ inc' = inc
    BY <2>1 DEF Calm
  <2>3. CASE curr # Recoverer
    <3>1. /\ curr' # Recoverer /\ stk'[Recoverer] = stk[Recoverer]
          /\ pc'[Recoverer] = pc[Recoverer]
      BY Zenon, <2>1, <2>3 DEF Calm
    <3>2. pc[curr] # "trigger"
      BY <2>2 DEF Outside
    <3> QED BY Zenon, <2>2, <2>3, <3>1, <3>2, <1>HomeUntouched
  <2>4. CASE curr = Recoverer
    BY Zenon, <2>2, <2>4, HomeOfCalm, <1>HomeFrameMoves
  <2> QED BY <2>3, <2>4
<1>HomeFrameCounters.
  ASSUME FaultInv, HomeFrame, Reboot \/ Trigger PROVE HomeFrame'
  <2> USE <1>HomeFrameCounters
  <2>1. PICK h, n, p : /\ h = stk[Recoverer][1]
                       /\ n = Len(stk[Recoverer])
                       /\ p = pc[Recoverer]
    BY Zenon
  <2>2. PICK s : s = failed[curr][1]
    OBVIOUS
  <2>3. /\ pc[curr] \in {"reboot", "trigger"} /\ curr' = curr
        /\ \A t \in Thds \ {curr} : pc'[t] = pc[t] /\ stk'[t] = stk[t]
    BY Zenon, RebootPlaces, TriggerPlaces DEF Moves
  <2>4. curr # Recoverer /\ Recoverer \in Thds /\ curr \in Thds
    BY <2>3, Placed
  <2>5. stk'[Recoverer] = stk[Recoverer] /\ pc'[Recoverer] = pc[Recoverer]
    BY <2>3, <2>4
  <2>6. /\ p \in {"done", "init"} => n = 1
        /\ p = "notif" => n > 1
        /\ p # "done" => h.spd \in Services
        /\ n = 1 => p = "done"
        /\ n > 1 /\ ~(n = 2 /\ p = "notif") => HomeCounted(h)
    BY Zenon, <2>1, <2>4 DEF HomeFrame
  <2>7. /\ h \in AnyFrame /\ h.spd \in Comps /\ h.cnt \in Nat
        /\ fault \in [Comps -> Nat] /\ inc \in [Comps -> Nat] /\ s \in Comps
    <3>1. h \in AnyFrame
      BY Zenon, <2>1, <2>4, HomeTyped
    <3>2. s \in Services
      BY Zenon, <2>2, <2>3, <2>4 DEF FaultInv, Places
    <3> QED BY Zenon, <3>1, <3>2 DEF AnyFrame, FaultInv, Types, Comps
  <2>8. ASSUME HomeCounted(h) PROVE HomeCounted(h)'
    <3>1. h.cnt <= fault[h.spd]
      BY <2>8 DEF HomeCounted
    <3>2. CASE Reboot
      <4>1. /\ pc[curr] = "reboot" /\ pc'[curr] = "trigger"
            /\ inc' = [inc EXCEPT ![s] = @ + 1] /\ fault' = fault
            /\ failed' = failed
        BY Zenon, <2>2, <3>2, RebootPlaces DEF Moves
      <4>2. h.cnt = fault[h.spd] => h.inc = inc[h.spd]
        BY <2>8, <4>1 DEF HomeCounted
      <4>3. CASE h.spd = s
        <5>1. pc'[curr'] = "trigger" /\ failed'[curr'][1] = h.spd
          BY <2>2, <2>3, <4>1, <4>3
        <5> QED BY Zenon, <3>1, <4>1, <5>1 DEF HomeCounted
      <4>4. CASE h.spd # s
        <5>1. inc'[h.spd] = inc[h.spd]
          BY <2>7, <4>1, <4>4
        <5> QED BY Zenon, <3>1, <4>1, <4>2, <5>1 DEF HomeCounted
      <4> QED BY <4>3, <4>4
    <3>3. CASE Trigger
      <4>1. /\ fault' = [fault EXCEPT ![s] = @ + 1] /\ inc' = inc
            /\ pc[curr] = "trigger"
        BY Zenon, <2>2, <3>3, TriggerPlaces DEF Moves
      <4>2. CASE h.spd = s
        <5>1. fault'[h.spd] = fault[h.spd] + 1 /\ fault[h.spd] \in Nat
          BY <2>7, <4>1, <4>2
        <5>2. h.cnt <= fault'[h.spd] /\ h.cnt # fault'[h.spd]
          BY <2>7, <3>1, <5>1
        <5> QED BY Zenon, <5>2 DEF HomeCounted
      <4>3. CASE h.spd # s
        <5>1. fault'[h.spd] = fault[h.spd]
          BY <2>7, <4>1, <4>3
        <5>2. h.cnt = fault[h.spd] => h.inc = inc[h.spd]
          BY Zenon, <2>2, <2>8, <4>3 DEF HomeCounted
        <5> QED BY Zenon, <3>1, <4>1, <5>1, <5>2 DEF HomeCounted
      <4> QED BY <4>2, <4>3
    <3> QED BY <3>2, <3>3
  <2>9. h = stk'[Recoverer][1] /\ n = Len(stk'[Recoverer]) /\ p = pc'[Recoverer]
    BY Zenon, <2>1, <2>5
  <2> QED BY Zenon, <2>6, <2>8, <2>9, <1>HomeNext
<1>HomeFrameLoopSwitch.
  ASSUME FaultInv, HomeFrame, LoopSwitch PROVE HomeFrame'
  <2> USE <1>HomeFrameLoopSwitch
  <2>1. PICK g, m, o : /\ g = stk[Recoverer][1]
                       /\ m = Len(stk[Recoverer])
                       /\ o = pc[Recoverer]
    BY Zenon
  <2>2. PICK h, n, p : /\ h = stk'[Recoverer][1]
                       /\ n = Len(stk'[Recoverer])
                       /\ p = pc'[Recoverer]
    BY Zenon
  <2>3. /\ pc[curr] = "switch" /\ curr # Recoverer /\ curr' = Recoverer
        /\ fault' = fault /\ inc' = inc
    BY Zenon, LoopSwitchPlaces
  <2>4. /\ o \in {"done", "init"} => m = 1
        /\ o = "notif" => m > 1
        /\ o # "done" => g.spd \in Services
        /\ m = 1 => o = "done"
        /\ m > 1 /\ ~(m = 2 /\ o = "notif") => HomeCounted(g)
    BY Zenon, <2>1, <2>3 DEF HomeFrame
  <2>5. HomeCounted(g) /\ SameHome(h, g) => HomeCounted(h)'
    <3>1. pc[curr] # "trigger"
      BY <2>3
    <3> QED BY Zenon, <2>3, <3>1, <1>HomeCountedKept
  <2>6. CASE p = o /\ stk'[Recoverer] = stk[Recoverer]
    <3>1. h = g /\ n = m
      BY Zenon, <2>1, <2>2, <2>6
    <3>2. SameHome(h, g)
      BY <3>1 DEF SameHome
    <3> QED BY Zenon, <2>2, <2>4, <2>5, <2>6, <3>1, <3>2, <1>HomeNext
  <2>7. CASE ~(p = o /\ stk'[Recoverer] = stk[Recoverer])
    <3>1. /\ m > 1 /\ o \notin {"done", "init", "notif"} /\ p = "notif"
          /\ SameHome(h, g) /\ n > 2 /\ n > 1
      BY Zenon, <2>1, <2>2, <2>7, SwitchedHome
    <3>2. h.spd \in Services
      BY <2>4, <3>1 DEF SameHome
    <3>3. p \notin {"done", "init"} /\ n # 1 /\ o # "notif"
      BY <3>1
    <3> QED BY Zenon, <2>2, <2>3, <2>4, <2>5, <3>1, <3>2, <3>3, <1>HomeNext
  <2> QED BY <2>6, <2>7
<1>HomeFrameHandler.
  ASSUME FaultInv, HomeFrame, HandlerAction PROVE HomeFrame'
  <2> USE <1>HomeFrameHandler
  <2>1. Recoverer \in Thds
    BY Placed
  <2>2. ASSUME NEW p, NEW q, Moves(p, q), p \notin {"trigger", "done", "init"},
               curr # Recoverer, stk'[Recoverer] = stk[Recoverer],
               fault' = fault, inc' = inc
        PROVE  HomeFrame'
    <3>1. /\ curr' # Recoverer /\ pc'[Recoverer] = pc[Recoverer]
          /\ pc[curr] # "trigger"
      BY Zenon, <2>1, <2>2 DEF Moves
    <3> QED BY Zenon, <2>2, <3>1, <1>HomeUntouched
  <2>3. \A p \in {"slot", "spd", "loop", "run"} : p \notin {"trigger", "done", "init"}
    OBVIOUS
  <2>4. pc[curr] \in {"slot", "spd", "loop"} => curr # Recoverer
    BY Placed
  <2>5. CASE Fault
    <3>1. /\ Moves("run", "reboot") /\ curr # Recoverer
          /\ stk'[Recoverer] = stk[Recoverer] /\ fault' = fault /\ inc' = inc
      BY Zenon, <2>5, FaultPlaces
    <3> QED BY Zenon, <2>2, <2>3, <3>1
  <2>6. CASE SetPrevThd
    <3>1. Moves("slot", "spd") /\ stk' = stk /\ fault' = fault /\ inc' = inc
      BY Zenon, <2>6, SlotPlaces
    <3>2. curr # Recoverer
      BY <2>4, <3>1 DEF Moves
    <3> QED BY Zenon, <2>2, <2>3, <3>1, <3>2
  <2>7. CASE SetRecoverSpd
    <3>1. Moves("spd", "loop") /\ stk' = stk /\ fault' = fault /\ inc' = inc
      BY Zenon, <2>7, SlotPlaces
    <3>2. curr # Recoverer
      BY <2>4, <3>1 DEF Moves
    <3> QED BY Zenon, <2>2, <2>3, <3>1, <3>2
  <2>8. CASE LoopTest
    <3>1. /\ Moves("loop", IF prev_thd = curr THEN "switch" ELSE "return")
          /\ stk' = stk /\ fault' = fault /\ inc' = inc
      BY Zenon, <2>8, SlotPlaces
    <3>2. curr # Recoverer
      BY <2>4, <3>1 DEF Moves
    <3> QED BY Zenon, <2>2, <2>3, <3>1, <3>2
  <2>9. CASE HandlerReturn
    <3>1. /\ pc[curr] = "return" /\ curr # Recoverer /\ curr' = curr
          /\ pc'[Recoverer] = pc[Recoverer] /\ stk'[Recoverer] = stk[Recoverer]
          /\ fault' = fault /\ inc' = inc
      BY Zenon, <2>1, <2>9, HandlerReturnPlaces
    <3>2. pc[curr] # "trigger"
      BY <3>1
    <3> QED BY Zenon, <3>1, <3>2, <1>HomeUntouched
  <2> QED BY Zenon, <2>5, <2>6, <2>7, <2>8, <2>9, <1>HomeFrameCounters,
             <1>HomeFrameLoopSwitch DEF HandlerAction
<1>HomeFrameRecovery.
  ASSUME FaultInv, Handlers, HomeFrame, RecoveryAction PROVE HomeFrame'
  <2> USE <1>HomeFrameRecovery
  <2>1. PICK g : g = stk[Recoverer][1]
    OBVIOUS
  <2>2. g \in AnyFrame
    BY Zenon, <2>1, HomeTyped, Placed
  <2>3. CASE RecoverUpcall
    <3>1. PICK r, z : r = recover_spd /\ z = inc[recover_spd]
      OBVIOUS
    <3>2. PICK f : f = [g EXCEPT !.spd = r, !.inc = z]
      OBVIOUS
    <3>3. /\ curr = Recoverer /\ Moves("done", "init") /\ r \in Services
          /\ stk'[Recoverer] = <<f>> /\ inc' = inc
      BY Zenon, <2>1, <2>3, <3>1, <3>2, RecoverUpcallPlaces
    <3>4. f.spd = r /\ f.inc = z
      BY <2>2, <3>2 DEF AnyFrame
    <3>5. f = stk'[Recoverer][1] /\ 1 = Len(stk'[Recoverer])
      BY <3>3
    <3>6. "init" = pc'[Recoverer] /\ curr' = Recoverer
      BY <3>3 DEF Moves
    <3>7. f.spd \in Services /\ f.inc = inc'[f.spd] /\ ~(1 > 1) /\ "init" # "notif"
      BY <3>1, <3>3, <3>4
    <3> QED BY Zenon, <3>5, <3>6, <3>7, <1>HomeNext
  <2>4. CASE Reflect
    <3>1. curr = Recoverer /\ Moves("init", "run") /\ stk' = stk /\ inc' = inc
      BY Zenon, <2>4, ReflectPlaces
    <3>2. pc[Recoverer] = "init" /\ "run" = pc'[Recoverer] /\ curr' = Recoverer
      BY <3>1 DEF Moves
    <3>3. 1 = Len(stk[Recoverer]) /\ g.spd \in Services /\ g.inc = inc[g.spd]
      BY <2>1, <3>2 DEF HomeFrame
    <3>4. /\ g = stk'[Recoverer][1] /\ 1 = Len(stk'[Recoverer])
          /\ g.inc = inc'[g.spd]
      BY <2>1, <3>1, <3>3
    <3>5. ~(1 > 1) /\ "run" \notin {"notif", "done", "init"}
      OBVIOUS
    <3> QED BY Zenon, <3>2, <3>3, <3>4, <3>5, <1>HomeNext
  <2>5. CASE RecoverDone
    <3>1. PICK f : f = [g EXCEPT !.spd = Booter, !.inc = 0]
      OBVIOUS
    <3>2. Moves("run", "done") /\ curr = Recoverer /\ stk'[Recoverer] = <<f>>
      BY Zenon, <2>1, <2>5, <3>1, RecoverDonePlaces
    <3>3. /\ f = stk'[Recoverer][1] /\ 1 = Len(stk'[Recoverer])
          /\ "done" = pc'[Recoverer]
      BY <3>2 DEF Moves
    <3>4. ~(1 > 1) /\ "done" # "notif"
      OBVIOUS
    <3> QED BY Zenon, <3>3, <3>4, <1>HomeNext
  <2>6. CASE RecoverSwitch
    <3>1. pc[curr] = "done"
      BY <2>6 DEF RecoverSwitch, Running
    <3>2. prev_thd # None
      BY Zenon, <3>1, Placed DEF Handlers
    <3>3. /\ pc[Recoverer] = "done" /\ "done" = pc'[Recoverer]
          /\ stk'[Recoverer] = stk[Recoverer]
      BY Zenon, <2>6, <3>2, RecoverSwitchPlaces, Placed
    <3>4. 1 = Len(stk[Recoverer])
      BY <3>3 DEF HomeFrame
    <3>5. g = stk'[Recoverer][1] /\ 1 = Len(stk'[Recoverer])
      BY <2>1, <3>3, <3>4
    <3>6. ~(1 > 1) /\ "done" # "notif"
      OBVIOUS
    <3> QED BY Zenon, <3>3, <3>5, <3>6, <1>HomeNext
  <2> QED BY Zenon, <2>3, <2>4, <2>5, <2>6 DEF RecoveryAction
<1> QED
  <2> SUFFICES ASSUME ~Preemptible, FaultInv, Handlers, HomeFrame, (CalmAction \/ HandlerAction \/ RecoveryAction) PROVE HomeFrame'
    OBVIOUS
  <2> QED BY Zenon, <1>HomeFrameCalm, <1>HomeFrameHandler, <1>HomeFrameRecovery
-----------------------------------------------------------------------------
(* While failures do not overlap, no home frame lags. *)

\* A thread that is at its notification after the step, but was not so with
\* the same frames before, has frames above its home frame.
LongNotif(t) ==
  pc'[t] = "notif" =>
    (pc[t] = "notif" /\ stk'[t] = stk[t]) \/ Len(stk'[t]) > 2

\* Failures that do not overlap leave no home frame behind.
LEMMA HomeKeepsUpNext ==
  ~Preemptible /\ FaultInv /\ Handlers /\ HomeFrame /\ OneAtATime /\ HomeKeepsUp /\ (CalmAction \/ HandlerAction \/ RecoveryAction) => HomeKeepsUp'
<1>KeepsUpNext.
  ASSUME HomeKeepsUp, \A t \in Thds : LongNotif(t),
         NEW h, h = stk'[Recoverer][1],
         Len(stk'[Recoverer]) > 1 => ~(h.cnt < fault'[h.spd]),
         dead' # "lagging"
  PROVE  HomeKeepsUp'
  <2> USE <1>KeepsUpNext
  <2>1. \A t \in Thds : pc'[t] = "notif" => Len(stk'[t]) > 2
    BY Zenon DEF HomeKeepsUp, LongNotif
  <2>2. Len(stk'[Recoverer]) > 1 => ~Lags(stk[Recoverer][1])'
    BY Zenon DEF Lags
  <2> QED BY Zenon, <2>1, <2>2 DEF HomeKeepsUp
<1>HomeUpToDate.
  ASSUME FaultInv, HomeKeepsUp, NEW t \in Thds,
         t # Recoverer \/ Len(stk[t]) > 1
  PROVE  ~Lags(stk[t][1])
  <2> USE <1>HomeUpToDate
  <2>1. CASE t = Recoverer
    BY <2>1 DEF HomeKeepsUp
  <2>2. CASE t # Recoverer
    <3>1. stk[t][1].spd = HomeOf(t)
      BY Zenon, <2>2, WorldNow DEF StackOK
    <3>2. HomeOf(t) \in {App, Sched}
      BY <2>2, FaultNotifAssumption DEF HomeOf, Thds
    <3>3. stk[t][1].spd \notin Services
      BY <3>1, <3>2, FaultNotifAssumption
    <3>4. stk[t][1] \in AnyFrame
      BY HomeTyped
    <3> QED BY Zenon, <3>3, <3>4, NeverLags
  <2> QED BY <2>1, <2>2
<1>ResumeLong.
  ASSUME FaultInv, HomeKeepsUp, curr # Recoverer \/ Len(stk[curr]) > 1,
         NEW k \in Seq(AnyFrame), k # <<>>, SameHome(k[1], stk[curr][1]),
         Resume(curr, k)
  PROVE  \A t \in Thds : LongNotif(t)
  <2> USE <1>ResumeLong
  <2>1. \A t \in Thds \ {curr} : pc'[t] = pc[t] /\ stk'[t] = stk[t]
    BY Zenon, ResumePlaces
  <2>2. ~Lags(k[1])
    <3>1. ~Lags(stk[curr][1])
      BY Zenon, <1>HomeUpToDate, Placed
    <3> QED BY <3>1 DEF SameHome, Lags
  <2>3. ASSUME pc'[curr] = "notif" PROVE Len(stk'[curr]) > 2
    <3>1. stk'[curr] = Invoke(k, Booter) /\ Lags(Last(k))
      <4>1. "notif" # "run"
        OBVIOUS
      <4> QED BY Zenon, <2>3, <4>1, ResumePlaces
    <3>2. Len(k) \in Nat \ {0} /\ (Len(k) = 1 => Last(k) = k[1])
      BY DEF Last
    <3>3. Len(k) > 1
      BY Zenon, <2>2, <3>1, <3>2, Lengths
    <3>4. Len(Invoke(k, Booter)) = Len(k) + 1
      <4>1. Booter \in Comps
        BY DEF Comps
      <4> QED BY <4>1, InvokeHome
    <3> HIDE DEF Invoke
    <3> QED BY <3>1, <3>2, <3>3, <3>4
  <2>4. LongNotif(curr)
    BY Zenon, <2>3 DEF LongNotif
  <2>5. \A t \in Thds \ {curr} : LongNotif(t)
    BY Zenon, <2>1 DEF LongNotif
  <2> QED BY <2>4, <2>5
<1>CallLong.
  ASSUME FaultInv, NEW s \in Comps, Call(s)
  PROVE  \A t \in Thds : LongNotif(t)
  <2> USE <1>CallLong
  <2> DEFINE k == stk[curr]
             e == Invoke(k, s)
             d == Invoke(e, Booter)
  <2>1. curr \in Thds /\ k \in Seq(AnyFrame) /\ k # <<>> /\ Len(k) \in Nat \ {0}
    BY Zenon, HomeTyped, Placed
  <2>2. e \in Seq(AnyFrame) /\ e # <<>> /\ Len(e) = Len(k) + 1
    BY Zenon, <2>1, InvokeHome
  <2>3. Len(d) = Len(e) + 1
    <3>1. Booter \in Comps
      BY DEF Comps
    <3> HIDE DEF e
    <3> QED BY <2>2, <3>1, InvokeHome
  <2> HIDE DEF d, e
  <2>4. Len(d) > 2
    BY <2>1, <2>2, <2>3
  <2>5. pc[curr] = "run"
    BY Zenon DEF Call, Running
  <2>6. CASE cap[Top(curr).spd, s] < fault[s]
    <3>1. stk' = [stk EXCEPT ![curr] = d] /\ pc' = [pc EXCEPT ![curr] = "notif"]
      BY Zenon, <2>6 DEF Call, d, e
    <3>2. stk'[curr] = d /\ \A t \in Thds \ {curr} : pc'[t] = pc[t] /\ stk'[t] = stk[t]
      BY <2>1, <3>1, Placed
    <3> QED BY Zenon, <2>4, <3>2 DEF LongNotif
  <2>7. CASE ~(cap[Top(curr).spd, s] < fault[s])
    <3>1. stk' = [stk EXCEPT ![curr] = e] /\ pc' = pc
      BY Zenon, <2>7 DEF Call, e
    <3>2. \A t \in Thds \ {curr} : stk'[t] = stk[t]
      BY <2>1, <3>1, Placed
    <3>3. pc'[curr] # "notif"
      BY <2>5, <3>1
    <3> QED BY Zenon, <3>1, <3>2, <3>3 DEF LongNotif
  <2> QED BY Zenon, <2>6, <2>7
<1>SwitchLong.
  ASSUME FaultInv, HomeKeepsUp, NEW n \in Thds, n # curr, NEW p, p # "notif",
         SwitchTo(n, p), n # Recoverer \/ Len(stk[n]) > 1
  PROVE  \A t \in Thds : LongNotif(t)
  <2> USE <1>SwitchLong
  <2>1. \A t \in Thds \ {curr, n} : LongNotif(t)
    BY Zenon, SwitchPlaces DEF LongNotif
  <2>2. LongNotif(curr)
    BY Zenon, SwitchPlaces DEF LongNotif
  <2>3. LongNotif(n)
    <3>1. CASE pc'[n] = pc[n] /\ stk'[n] = stk[n]
      BY Zenon, <3>1 DEF LongNotif
    <3>2. CASE Lags(Top(n)) /\ stk'[n] = Invoke(stk[n], Booter)
      <4> DEFINE k == stk[n]
      <4>1. /\ k \in Seq(AnyFrame) /\ k # <<>> /\ Len(k) \in Nat \ {0}
            /\ Len(k) = 1 => Top(n) = k[1]
        BY Zenon, HomeTyped
      <4>2. ~Lags(k[1])
        BY Zenon, <1>HomeUpToDate
      <4>3. Len(k) > 1
        BY Zenon, <3>2, <4>1, <4>2, Lengths
      <4>4. Len(Invoke(k, Booter)) = Len(k) + 1
        <5>1. Booter \in Comps
          BY DEF Comps
        <5> QED BY <4>1, <5>1, InvokeHome
      <4>5. Len(stk'[n]) > 2
        BY <3>2, <4>1, <4>3, <4>4
      <4> QED BY Zenon, <4>5 DEF LongNotif
    <3> QED BY Zenon, <3>1, <3>2, SwitchPlaces
  <2> QED BY Zenon, <2>1, <2>2, <2>3
<1>CalmLong.
  ASSUME ~Preemptible, FaultInv, HomeFrame, HomeKeepsUp, CalmAction
  PROVE  (\A t \in Thds : LongNotif(t)) /\ dead' # "lagging"
  <2> USE <1>CalmLong
  <2>1. /\ curr \in Thds /\ stk[curr] \in Seq(AnyFrame) /\ stk[curr] # <<>>
        /\ Len(stk[curr]) \in Nat \ {0}
    BY Zenon, HomeTyped, Placed
  <2>2. dead # "lagging"
    BY DEF HomeKeepsUp
  <2>3. ASSUME NEW s \in Comps, Call(s)
        PROVE  (\A t \in Thds : LongNotif(t)) /\ dead' = dead
    <3>1. dead' = dead
      BY Zenon, <2>3 DEF Call
    <3> QED BY Zenon, <2>3, <3>1, <1>CallLong
  <2>4. CASE Return
    <3>1. Len(stk[curr]) > 1 /\ Resume(curr, Pop(stk[curr])) /\ dead' = dead
      BY Zenon, <2>4 DEF Return
    <3>2. /\ Pop(stk[curr]) \in Seq(AnyFrame) /\ Pop(stk[curr]) # <<>>
          /\ SameHome(Pop(stk[curr])[1], stk[curr][1])
      BY Zenon, <2>1, <3>1, PopHome DEF SameHome
    <3> QED BY Zenon, <2>2, <3>1, <3>2, <1>ResumeLong
  <2>5. CASE FaultUpdate
    <3>1. /\ pc[curr] = "run" /\ pc' = pc /\ dead' = dead
          /\ stk' = [stk EXCEPT ![curr][Len(stk[curr])].stub = None]
      BY Zenon, <2>5 DEF FaultUpdate, Running
    <3>2. /\ pc'[curr] # "notif"
          /\ \A t \in Thds \ {curr} : stk'[t] = stk[t]
      BY <3>1, Placed
    <3> QED BY Zenon, <2>2, <3>1, <3>2 DEF LongNotif
  <2>6. ASSUME NEW n \in Thds, Reschedule(n)
        PROVE  (\A t \in Thds : LongNotif(t)) /\ dead' = dead
    <3>1. /\ n # curr /\ n \in Threads \cup active /\ SwitchTo(n, "run")
          /\ dead' = dead
      BY Zenon, <2>6 DEF Reschedule
    <3>2. n # Recoverer
      BY <3>1, FaultNotifAssumption DEF FaultInv, Types
    <3>3. "run" # "notif"
      OBVIOUS
    <3> QED BY Zenon, <3>1, <3>2, <3>3, <1>SwitchLong
  <2>7. ASSUME NEW u \in Upcalls, Interrupt(u) \/ Activate(u)
        PROVE  (\A t \in Thds : LongNotif(t)) /\ dead' = dead
    <3>1. stk' = stk /\ pc' = pc /\ dead' = dead
      BY <2>7 DEF Interrupt, Activate
    <3> QED BY Zenon, <3>1 DEF LongNotif
  <2>8. CASE UpcallWait
    <3>1. dead' = dead
      BY <2>8 DEF UpcallWait
    <3>2. CASE stk' = stk /\ pc' = pc
      BY Zenon, <2>2, <3>1, <3>2 DEF LongNotif
    <3>3. CASE /\ stk' = [stk EXCEPT ![curr] = Append(@, Frame(Sched))]
               /\ pc' = [pc EXCEPT ![curr] = "complete"]
      <4>1. /\ pc'[curr] # "notif"
            /\ \A t \in Thds \ {curr} : pc'[t] = pc[t] /\ stk'[t] = stk[t]
        BY <2>1, <3>3, Placed
      <4> QED BY Zenon, <2>2, <3>1, <4>1 DEF LongNotif
    <3> QED BY Zenon, <2>8, <3>2, <3>3 DEF UpcallWait
  <2>9. CASE HomeFault
    <3>1. stk' = stk /\ pc' = pc /\ dead' # "lagging"
      BY <2>9 DEF HomeFault
    <3> QED BY Zenon, <3>1 DEF LongNotif
  <2>10. CASE Notified
    <3>1. pc[curr] = "notif" /\ Len(stk[curr]) > 2
      BY Zenon, <2>1, <2>10 DEF Notified, Running, HomeKeepsUp
    <3>2. Resume(curr, Pop(Remove(stk[curr]))) /\ dead' = dead
      BY Zenon, <2>10, <3>1 DEF Notified, CanRemove
    <3> DEFINE k == stk[curr]
               r == Remove(k)
    <3>3. r \in Seq(AnyFrame) /\ Len(r) = Len(k) - 1 /\ SameHome(r[1], k[1])
      BY <2>1, <3>1, RemoveHome
    <3> HIDE DEF r
    <3>4. Len(r) > 1
      BY <2>1, <3>1, <3>3
    <3>5. Pop(r) \in Seq(AnyFrame) /\ Pop(r) # <<>> /\ SameHome(Pop(r)[1], k[1])
      BY Zenon, <3>3, <3>4, PopHome DEF SameHome
    <3>6. Resume(curr, Pop(r)) /\ Len(k) > 1
      BY Zenon, <2>1, <3>1, <3>2, Lengths DEF r
    <3> QED BY Zenon, <2>2, <3>2, <3>5, <3>6, <1>ResumeLong
  <2> QED BY Zenon, <2>2, <2>3, <2>4, <2>5, <2>6, <2>7, <2>8, <2>9, <2>10
          DEF CalmAction
<1>CalmKeepsUp.
  ASSUME ~Preemptible, FaultInv, HomeFrame, HomeKeepsUp, CalmAction
  PROVE  HomeKeepsUp'
  <2> USE <1>CalmKeepsUp
  <2>1. PICK g, m : g = stk[Recoverer][1] /\ m = Len(stk[Recoverer])
    BY Zenon
  <2>2. PICK h, n, p : /\ h = stk'[Recoverer][1]
                       /\ n = Len(stk'[Recoverer])
                       /\ p = pc'[Recoverer]
    BY Zenon
  <2>3. Calm
    BY CalmActions
  <2>4. fault' = fault
    BY <2>3 DEF Calm
  <2>5. /\ m > 1 => ~(g.cnt < fault[g.spd])
        /\ m \in Nat \ {0} /\ fault[g.spd] \in Nat
    BY Zenon, <2>1, HomeTyped, Placed DEF HomeKeepsUp, Lags
  <2>6. n > 1 => ~(h.cnt < fault'[h.spd])
    <3>1. CASE curr # Recoverer
      <4>1. h = g /\ n = m
        BY Zenon, <2>1, <2>2, <2>3, <3>1 DEF Calm
      <4> QED BY Zenon, <2>4, <2>5, <4>1
    <3>2. CASE curr = Recoverer
      <4>1. HomeMoves(h, n, p)
        BY Zenon, <2>2, <3>2, HomeOfCalm
      <4>2. CASE HomeStays(p)
        <5>1. h = g /\ n = m
          BY Zenon, <2>1, <2>2, <4>2 DEF HomeStays
        <5> QED BY Zenon, <2>4, <2>5, <5>1
      <4>3. CASE HomeCalls(h, n, p)
        <5>1. /\ h.spd = g.spd
              /\ m = 1 => h.cnt = fault[g.spd]
              /\ m > 1 => h.cnt = g.cnt
          BY Zenon, <2>1, <4>3 DEF HomeCalls
        <5>2. CASE m = 1
          BY <2>4, <2>5, <5>1, <5>2
        <5>3. CASE m > 1
          BY Zenon, <2>4, <2>5, <5>1, <5>3
        <5> QED BY Zenon, <2>5, <5>2, <5>3, Lengths
      <4>4. CASE HomeStubbed(h, n, p)
        <5>1. h.spd = g.spd /\ h.cnt = g.cnt /\ n = m
          BY Zenon, <2>1, <4>4 DEF HomeStubbed, SameHome
        <5> QED BY Zenon, <2>4, <2>5, <5>1
      <4>5. CASE HomeReturns(h, n, p)
        <5>1. m > 1 /\ (SameHome(h, g) \/ Lags(g))
          BY Zenon, <2>1, <4>5 DEF HomeReturns
        <5>2. h.spd = g.spd /\ h.cnt = g.cnt
          BY Zenon, <2>5, <5>1 DEF SameHome, Lags
        <5> QED BY Zenon, <2>4, <2>5, <5>1, <5>2
      <4> QED BY Zenon, <4>1, <4>2, <4>3, <4>4, <4>5 DEF HomeMoves
    <3> QED BY <3>1, <3>2
  <2> QED BY Zenon, <2>2, <2>6, <1>CalmLong, <1>KeepsUpNext
\* A step of the running thread that neither lets a notification begin nor
\* touches a home frame that is looked at.
<1>KeepsUpMoves.
  ASSUME HomeKeepsUp, NEW p, NEW q, Moves(p, q), q # "notif",
         \A t \in Thds \ {curr} : stk'[t] = stk[t],
         Len(stk'[Recoverer]) > 1
           => stk'[Recoverer] = stk[Recoverer] /\ fault' = fault
  PROVE  HomeKeepsUp'
  <2> USE <1>KeepsUpMoves
  <2>1. \A t \in Thds : LongNotif(t)
    BY Zenon DEF Moves, LongNotif
  <2>2. PICK h : h = stk'[Recoverer][1]
    OBVIOUS
  <2>3. Len(stk'[Recoverer]) > 1 => ~(h.cnt < fault'[h.spd])
    BY Zenon, <2>2 DEF HomeKeepsUp, Lags
  <2>4. dead' # "lagging"
    BY Zenon DEF Moves, HomeKeepsUp
  <2> QED BY Zenon, <2>1, <2>2, <2>3, <2>4, <1>KeepsUpNext
<1>LoopSwitchKeepsUp.
  ASSUME FaultInv, HomeFrame, HomeKeepsUp, LoopSwitch PROVE HomeKeepsUp'
  <2> USE <1>LoopSwitchKeepsUp
  <2>1. PICK g, h : g = stk[Recoverer][1] /\ h = stk'[Recoverer][1]
    OBVIOUS
  <2>2. /\ pc'[curr] = "loop" /\ dead' = dead /\ fault' = fault
        /\ curr # Recoverer
        /\ \A t \in Thds \ {curr, Recoverer} : pc'[t] = pc[t]
        /\ \A t \in Thds \ {Recoverer} : stk'[t] = stk[t]
    BY Zenon, LoopSwitchPlaces
  <2>3. pc'[curr] # "notif"
    BY <2>2
  <2>4. \A t \in Thds \ {Recoverer} : LongNotif(t)
    BY Zenon, <2>2, <2>3 DEF LongNotif
  <2>5. CASE /\ pc'[Recoverer] = pc[Recoverer]
             /\ stk'[Recoverer] = stk[Recoverer]
    <3>1. LongNotif(Recoverer)
      BY Zenon, <2>5 DEF LongNotif
    <3>2. Len(stk'[Recoverer]) > 1 => ~(h.cnt < fault'[h.spd])
      BY Zenon, <2>1, <2>2, <2>5 DEF HomeKeepsUp, Lags
    <3> QED BY Zenon, <2>1, <2>2, <2>4, <3>1, <3>2, <1>KeepsUpNext DEF HomeKeepsUp
  <2>6. CASE ~(/\ pc'[Recoverer] = pc[Recoverer]
               /\ stk'[Recoverer] = stk[Recoverer])
    <3>1. /\ Len(stk[Recoverer]) > 1 /\ SameHome(h, g)
          /\ Len(stk'[Recoverer]) > 2
      BY Zenon, <2>1, <2>6, SwitchedHome
    <3>2. LongNotif(Recoverer)
      BY Zenon, <3>1 DEF LongNotif
    <3>3. ~(h.cnt < fault'[h.spd])
      BY Zenon, <2>1, <2>2, <3>1 DEF HomeKeepsUp, Lags, SameHome
    <3> QED BY Zenon, <2>1, <2>2, <2>4, <3>2, <3>3, <1>KeepsUpNext DEF HomeKeepsUp
  <2> QED BY <2>5, <2>6
<1>HandlerReturnKeepsUp.
  ASSUME FaultInv, HomeKeepsUp, HandlerReturn PROVE HomeKeepsUp'
  <2> USE <1>HandlerReturnKeepsUp
  <2>1. PICK h : h = stk'[Recoverer][1]
    OBVIOUS
  <2>2. /\ pc[curr] = "return" /\ curr # Recoverer /\ dead' = dead
        /\ fault' = fault /\ Resume(curr, Pop(stk[curr]))
        /\ \A t \in Thds \ {curr} : stk'[t] = stk[t]
    BY Zenon, HandlerReturnPlaces
  <2>3. /\ curr \in Thds /\ stk[curr] \in Seq(AnyFrame) /\ stk[curr] # <<>>
        /\ Len(stk[curr]) \in Nat \ {0}
        /\ Len(stk[curr]) = 1 => Top(curr) = stk[curr][1]
        /\ Recoverer \in Thds
    BY Zenon, HomeTyped, Placed
  <2>4. Len(stk[curr]) > 1
    <3>1. Top(curr).spd = Booter
      <4>1. pc[curr] \in InHandler
        BY <2>2 DEF InHandler
      <4> QED BY Zenon, <2>3, <4>1, InHandlerTop
    <3>2. stk[curr][1].spd = HomeOf(curr)
      BY Zenon, <2>2, WorldNow DEF StackOK
    <3>3. HomeOf(curr) # Booter
      BY <2>2, <2>3, FaultNotifAssumption DEF HomeOf, Thds
    <3>4. Len(stk[curr]) # 1
      BY Zenon, <2>3, <3>1, <3>2, <3>3
    <3> QED BY Zenon, <2>3, <3>4, Lengths
  <2>5. /\ Pop(stk[curr]) \in Seq(AnyFrame) /\ Pop(stk[curr]) # <<>>
        /\ SameHome(Pop(stk[curr])[1], stk[curr][1])
    BY Zenon, <2>3, <2>4, PopHome DEF SameHome
  <2>6. \A t \in Thds : LongNotif(t)
    BY Zenon, <2>2, <2>5, <1>ResumeLong
  <2>7. stk'[Recoverer] = stk[Recoverer]
    BY <2>2, <2>3
  <2>8. Len(stk'[Recoverer]) > 1 => ~(h.cnt < fault'[h.spd])
    BY Zenon, <2>1, <2>2, <2>7 DEF HomeKeepsUp, Lags
  <2> QED BY Zenon, <2>1, <2>2, <2>6, <2>8, <1>KeepsUpNext DEF HomeKeepsUp
\* The trigger comes while the recovery thread is in llboot, at home.
<1>TriggerKeepsUp.
  ASSUME FaultInv, HomeFrame, OneAtATime, HomeKeepsUp, Trigger
  PROVE  HomeKeepsUp'
  <2> USE <1>TriggerKeepsUp
  <2>1. /\ Moves("trigger", "slot")
        /\ \A t \in Thds \ {curr} : stk'[t] = stk[t]
    BY Zenon, TriggerPlaces
  <2>2. pc[curr] \in Handling \ {"loop", "switch"}
    BY <2>1 DEF Moves, Handling
  <2>3. pc[Recoverer] = "done"
    BY Zenon, <2>2, Placed DEF OneAtATime, Rest
  <2>4. Len(stk[Recoverer]) = 1
    BY <2>3 DEF HomeFrame
  <2>5. stk'[Recoverer] = stk[Recoverer]
    <3>1. curr # Recoverer
      BY <2>2, <2>3 DEF Handling
    <3> QED BY <2>1, <3>1, Placed
  <2>6. ~(Len(stk'[Recoverer]) > 1)
    <3>1. ~(1 > 1)
      OBVIOUS
    <3> QED BY Zenon, <2>4, <2>5, <3>1
  <2>7. "slot" # "notif"
    OBVIOUS
  <2> QED BY Zenon, <2>1, <2>6, <2>7, <1>KeepsUpMoves
<1>HandlerKeepsUp.
  ASSUME FaultInv, HomeFrame, OneAtATime, HomeKeepsUp, HandlerAction
  PROVE  HomeKeepsUp'
  <2> USE <1>HandlerKeepsUp
  <2>1. /\ \A p \in {"reboot", "trigger", "spd", "loop", "switch", "return"} :
             p # "notif"
        /\ (IF prev_thd = curr THEN "switch" ELSE "return") # "notif"
    OBVIOUS
  <2>2. CASE Fault
    <3>1. /\ Moves("run", "reboot") /\ fault' = fault
          /\ stk'[Recoverer] = stk[Recoverer]
      BY Zenon, <2>2, FaultPlaces
    <3>2. \A t \in Thds \ {curr} : stk'[t] = stk[t]
      <4>1. stk' = [stk EXCEPT ![curr] = Invoke(@, Booter)]
        BY <2>2 DEF Fault
      <4> QED BY Zenon, <4>1, Placed
    <3> QED BY Zenon, <2>1, <3>1, <3>2, <1>KeepsUpMoves
  <2>3. CASE Reboot
    <3>1. Moves("reboot", "trigger") /\ fault' = fault /\ stk' = stk
      BY Zenon, <2>3, RebootPlaces
    <3> QED BY Zenon, <2>1, <3>1, <1>KeepsUpMoves
  <2>4. CASE SetPrevThd
    <3>1. Moves("slot", "spd") /\ fault' = fault /\ stk' = stk
      BY Zenon, <2>4, SlotPlaces
    <3> QED BY Zenon, <2>1, <3>1, <1>KeepsUpMoves
  <2>5. CASE SetRecoverSpd
    <3>1. Moves("spd", "loop") /\ fault' = fault /\ stk' = stk
      BY Zenon, <2>5, SlotPlaces
    <3> QED BY Zenon, <2>1, <3>1, <1>KeepsUpMoves
  <2>6. CASE LoopTest
    <3>1. /\ Moves("loop", IF prev_thd = curr THEN "switch" ELSE "return")
          /\ fault' = fault /\ stk' = stk
      BY Zenon, <2>6, SlotPlaces
    <3> QED BY Zenon, <2>1, <3>1, <1>KeepsUpMoves
  <2> QED BY Zenon, <2>2, <2>3, <2>4, <2>5, <2>6, <1>TriggerKeepsUp,
             <1>LoopSwitchKeepsUp, <1>HandlerReturnKeepsUp DEF HandlerAction
<1>RecoveryKeepsUp.
  ASSUME FaultInv, Handlers, HomeFrame, HomeKeepsUp, RecoveryAction
  PROVE  HomeKeepsUp'
  <2> USE <1>RecoveryKeepsUp
  <2>1. "init" # "notif" /\ "run" # "notif" /\ "done" # "notif"
    OBVIOUS
  <2>2. CASE RecoverUpcall
    <3>1. PICK f : stk'[Recoverer] = <<f>>
      BY Zenon, <2>2, RecoverUpcallPlaces
    <3>2. ~(Len(stk'[Recoverer]) > 1)
      BY <3>1
    <3>3. /\ Moves("done", "init") /\ curr = Recoverer
          /\ \A t \in Thds \ {Recoverer} : stk'[t] = stk[t]
      BY Zenon, <2>2, RecoverUpcallPlaces
    <3> QED BY Zenon, <2>1, <3>2, <3>3, <1>KeepsUpMoves
  <2>3. CASE Reflect
    <3>1. Moves("init", "run") /\ fault' = fault /\ stk' = stk
      BY Zenon, <2>3, ReflectPlaces
    <3> QED BY Zenon, <2>1, <3>1, <1>KeepsUpMoves
  <2>4. CASE RecoverDone
    <3>1. PICK f : stk'[Recoverer] = <<f>>
      BY Zenon, <2>4, RecoverDonePlaces
    <3>2. ~(Len(stk'[Recoverer]) > 1)
      BY <3>1
    <3>3. /\ Moves("run", "done") /\ curr = Recoverer
          /\ \A t \in Thds \ {Recoverer} : stk'[t] = stk[t]
      BY Zenon, <2>4, RecoverDonePlaces
    <3> QED BY Zenon, <2>1, <3>2, <3>3, <1>KeepsUpMoves
  <2>5. CASE RecoverSwitch
    <3>1. pc[curr] = "done"
      BY <2>5 DEF RecoverSwitch, Running
    <3>2. prev_thd # None
      BY Zenon, <3>1, Placed DEF Handlers
    <3>3. /\ pc'[Recoverer] = "done" /\ dead' = dead /\ fault' = fault
          /\ \A t \in Thds \ {Recoverer} : pc'[t] = pc[t]
          /\ \A t \in Thds : stk'[t] = stk[t]
      BY Zenon, <2>5, <3>2, RecoverSwitchPlaces
    <3>4. \A t \in Thds : LongNotif(t)
      BY Zenon, <2>1, <3>3 DEF LongNotif
    <3>5. PICK h : h = stk'[Recoverer][1]
      OBVIOUS
    <3>6. Len(stk'[Recoverer]) > 1 => ~(h.cnt < fault'[h.spd])
      BY Zenon, <3>3, <3>5, Placed DEF HomeKeepsUp, Lags
    <3> QED BY Zenon, <3>3, <3>4, <3>5, <3>6, <1>KeepsUpNext DEF HomeKeepsUp
  <2> QED BY Zenon, <2>2, <2>3, <2>4, <2>5 DEF RecoveryAction
<1> QED
  <2> SUFFICES ASSUME ~Preemptible, FaultInv, Handlers, HomeFrame, OneAtATime, HomeKeepsUp, (CalmAction \/ HandlerAction \/ RecoveryAction) PROVE HomeKeepsUp'
    OBVIOUS
  <2> QED BY Zenon, <1>CalmKeepsUp, <1>HandlerKeepsUp, <1>RecoveryKeepsUp
-----------------------------------------------------------------------------
(* The induction. *)

LEMMA RecoveryInit ==
  ASSUME Init PROVE RecoveryInv
<1>1. /\ curr \in Threads /\ dead = "no" /\ prev_thd = None /\ recover_spd = None
      /\ \A t \in Thds : pc[t] = IF t = Recoverer THEN "done" ELSE "run"
      /\ \A t \in Thds : failed[t] = <<None, 0>>
      /\ reflection \in [Comps -> Nat] /\ overlapped = FALSE
      /\ stk[Recoverer] = <<Frame(HomeOf(Recoverer))>>
      /\ Recoverer \in Thds
  BY DEF Init, Thds
<1>2. curr \in Thds /\ curr # Recoverer /\ pc[curr] = "run"
  BY Zenon, <1>1, FaultNotifAssumption DEF Thds
<1>3. \A t \in Thds : pc[t] \notin Handling /\ failed[t][1] = None
  <2>1. "run" \notin Handling /\ "done" \notin Handling /\ <<None, 0>>[1] = None
    BY DEF Handling
  <2> QED BY Zenon, <1>1, <2>1
<1>8. Handlers
  BY Zenon, <1>1, <1>2, <1>3 DEF Handlers
<1>4. Len(stk[Recoverer]) = 1 /\ ~(Len(stk[Recoverer]) > 1) /\ pc[Recoverer] = "done"
  BY <1>1
<1>5. HomeFrame
  BY Zenon, <1>4 DEF HomeFrame
<1>6. OneAtATime
  <2>1. {"slot", "spd", "loop", "switch", "return"} \subseteq Handling
    BY Zenon DEF Handling
  <2> QED BY Zenon, <1>1, <1>3, <1>4, <2>1 DEF OneAtATime, Rest
<1>7. HomeKeepsUp
  BY <1>1, <1>4 DEF HomeKeepsUp
<1> QED BY Zenon, <1>1, <1>5, <1>6, <1>7, <1>8 DEF RecoveryInv

LEMMA ReflectionTyped ==
  ASSUME ~Preemptible, FaultInv, reflection \in [Comps -> Nat],
         overlapped \in BOOLEAN,
         CalmAction \/ HandlerAction \/ RecoveryAction
  PROVE  /\ reflection' \in [Comps -> Nat]
         /\ overlapped' \in BOOLEAN
         /\ overlapped => overlapped'
<1>1. ASSUME reflection' = reflection, overlapped' = overlapped
      PROVE  /\ reflection' \in [Comps -> Nat]
             /\ overlapped' \in BOOLEAN
             /\ overlapped => overlapped'
  BY Zenon, <1>1
<1>2. CASE CalmAction
  BY Zenon, <1>1, <1>2, CalmActions DEF Calm
<1>3. CASE Fault
  <2>1. /\ overlapped' = (overlapped \/ \E t \in Thds : failed[t][1] # None)
        /\ reflection' = reflection
    BY Zenon, <1>3, FaultPlaces
  <2> QED BY Zenon, <2>1
<1>4. CASE Trigger
  <2>1. PICK s, x : s = failed[curr][1] /\ x = fault[s] + 1
    OBVIOUS
  <2>2. reflection' = [reflection EXCEPT ![s] = x] /\ overlapped' = overlapped
    BY Zenon, <1>4, <2>1, TriggerPlaces
  <2>3. x \in Nat
    <3>1. s \in Services
      <4>1. pc[curr] = "trigger"
        BY <1>4 DEF Trigger, Running
      <4> QED BY <2>1, <4>1 DEF FaultInv, Places, Types
    <3> QED BY <2>1, <3>1 DEF FaultInv, Types, Comps
  <2> QED BY Zenon, <2>2, <2>3
<1>5. CASE Reflect
  <2>1. PICK s : s = Top(Recoverer).spd
    OBVIOUS
  <2>2. /\ \/ reflection' = [reflection EXCEPT ![s] = @ + 1]
           \/ reflection' = reflection
        /\ overlapped' = overlapped
    BY Zenon, <1>5, <2>1, ReflectPlaces
  <2>3. s \in Comps
    BY <2>1, TopTyped, Placed
  <2> QED BY <2>2, <2>3
<1>6. CASE Reboot \/ SetPrevThd \/ SetRecoverSpd \/ LoopTest \/ LoopSwitch
             \/ HandlerReturn
  <2>1. reflection' = reflection /\ overlapped' = overlapped
    BY Zenon, <1>6, RebootPlaces, SlotPlaces, LoopSwitchPlaces,
       HandlerReturnPlaces
  <2> QED BY Zenon, <1>1, <2>1
<1>7. CASE RecoverUpcall \/ RecoverDone
  <2>1. reflection' = reflection /\ overlapped' = overlapped
    BY Zenon, <1>7, RecoverUpcallPlaces, RecoverDonePlaces
  <2> QED BY Zenon, <1>1, <2>1
<1>8. CASE RecoverSwitch
  <2>1. reflection' = reflection /\ overlapped' = overlapped
    BY <1>8 DEF RecoverSwitch, counters
  <2> QED BY Zenon, <1>1, <2>1
<1> QED BY Zenon, <1>2, <1>3, <1>4, <1>5, <1>6, <1>7, <1>8
        DEF HandlerAction, RecoveryAction

LEMMA RecoveryInductive ==
  ASSUME ~Preemptible, FaultInv, RecoveryInv, [Next]_vars
  PROVE  RecoveryInv'
<1>1. CASE UNCHANGED vars
  <2>1. /\ curr' = curr /\ stk' = stk /\ pc' = pc /\ failed' = failed
        /\ fault' = fault /\ reflection' = reflection /\ inc' = inc
        /\ overlapped' = overlapped /\ prev_thd' = prev_thd
        /\ recover_spd' = recover_spd /\ dead' = dead
    BY <1>1 DEF vars, counters, slots
  <2>2. Handlers => Handlers'
    BY Zenon, <2>1 DEF Handlers
  <2>3. HomeFrame => HomeFrame'
    BY Zenon, <2>1 DEF HomeFrame, HomeCounted
  <2>4. OneAtATime => OneAtATime'
    <3>1. Rest' = Rest
      BY Zenon, <2>1 DEF Rest
    <3>2. \A t \in Thds : /\ Awaiting(t)' = Awaiting(t)
                         /\ Reflected(t)' = Reflected(t)
      BY Zenon, <2>1 DEF Awaiting, Reflected
    <3>3. \A t \in Thds : HandedOver(t)' = HandedOver(t)
      BY Zenon, <2>1, <3>2 DEF HandedOver, Top
    <3> QED BY Zenon, <2>1, <3>1, <3>2, <3>3 DEF OneAtATime
  <2>5. HomeKeepsUp => HomeKeepsUp'
    BY Zenon, <2>1 DEF HomeKeepsUp, Lags
  <2> QED BY Zenon, <2>1, <2>2, <2>3, <2>4, <2>5 DEF RecoveryInv
<1>2. CASE CalmAction \/ HandlerAction \/ RecoveryAction
  <2>1. /\ reflection \in [Comps -> Nat] /\ overlapped \in BOOLEAN
        /\ Handlers /\ HomeFrame
        /\ ~overlapped => OneAtATime /\ HomeKeepsUp
    BY Zenon DEF RecoveryInv
  <2>2. /\ reflection' \in [Comps -> Nat] /\ overlapped' \in BOOLEAN
        /\ overlapped => overlapped'
    BY Zenon, <1>2, <2>1, ReflectionTyped
  <2>3. Handlers'
    BY Zenon, <1>2, <2>1, HandlersNext
  <2>4. HomeFrame'
    BY Zenon, <1>2, <2>1, HomeFrameNext
  <2>5. ASSUME ~overlapped' PROVE OneAtATime' /\ HomeKeepsUp'
    <3>1. OneAtATime /\ HomeKeepsUp
      BY Zenon, <2>1, <2>2, <2>5
    <3>2. OneAtATime'
      BY Zenon, <1>2, <2>1, <2>5, <3>1, SerialNext
    <3>3. HomeKeepsUp'
      BY Zenon, <1>2, <2>1, <3>1, HomeKeepsUpNext
    <3> QED BY <3>2, <3>3
  <2> QED BY Zenon, <2>2, <2>3, <2>4, <2>5 DEF RecoveryInv
<1> QED BY Zenon, <1>1, <1>2, NextSplit

LEMMA RecoveryHolds ==
  ASSUME OneUpcall, ~Preemptible PROVE Spec => [](FaultInv /\ RecoveryInv)
<1>1. Init => RecoveryInv
  BY RecoveryInit
<1>2. FaultInv /\ RecoveryInv /\ [Next]_vars => RecoveryInv'
  BY RecoveryInductive
<1> QED BY <1>1, <1>2, InvHolds, PTL DEF Spec
-----------------------------------------------------------------------------
(* The theorems. *)

\* Where the handlers are not preempted no thread, and not the recovery
\* thread either, executes in a component that was rebooted since the thread
\* entered it, however failures overlap: while the recovery thread is at home
\* in a component, no handler runs that could reboot it.
THEOREM NotStale ==
  ASSUME OneUpcall, ~Preemptible PROVE Spec => []NoStaleExecution
<1>1. FaultInv /\ RecoveryInv => NoStaleExecution
  <2> SUFFICES ASSUME FaultInv, RecoveryInv, pc[curr] \in {"run", "init"},
                      Top(curr).inc # inc[Top(curr).spd]
               PROVE  FALSE
    BY Zenon DEF NoStaleExecution
  <2>1. CASE curr # Recoverer \/ Len(stk[curr]) > 1
    <3>1. PICK t \in Thds : pc[t] = "trigger"
      BY Zenon, <2>1, FrameFresh DEF Pending
    <3>2. t = curr
      BY <3>1 DEF FaultInv, Places
    <3> QED BY <3>1, <3>2
  <2>2. CASE curr = Recoverer /\ ~(Len(stk[curr]) > 1)
    <3>1. Len(stk[curr]) = 1 /\ Top(curr) = stk[curr][1]
      BY Zenon, <2>2, HomeTyped, Placed, Lengths
    <3>2. pc[Recoverer] # "done"
      BY <2>2
    <3>3. stk[curr][1].inc = inc[stk[curr][1].spd]
      BY Zenon, <2>2, <3>1, <3>2 DEF RecoveryInv, HomeFrame
    <3> QED BY Zenon, <3>1, <3>3
  <2> QED BY Zenon, <2>1, <2>2
<1> QED BY <1>1, RecoveryHolds, PTL

\* llboot_thd_done never finds both slots empty: assert(pthd && pthd != tid)
\* holds however failures overlap, because every switch to the recovery
\* thread leaves the switching thread in llboot->prev_thd.
THEOREM AssertHolds ==
  ASSUME OneUpcall, ~Preemptible PROVE Spec => []LoopHasWork
<1>1. RecoveryInv => LoopHasWork
  BY DEF RecoveryInv, Handlers, LoopHasWork
<1> QED BY <1>1, RecoveryHolds, PTL

\* While failures do not overlap, recovery_upcall's loop ends only after the
\* fresh component has done the reflection for the failure being handled.
THEOREM Reflects ==
  ASSUME OneUpcall, ~Preemptible PROVE Spec => []ReflectedBeforeReturn
<1>1. RecoveryInv => ReflectedBeforeReturn
  BY Zenon DEF RecoveryInv, OneAtATime, Reflected, ReflectedBeforeReturn
<1> QED BY <1>1, RecoveryHolds, PTL

\* While failures do not overlap, fault_flt_notif_handler always has a frame
\* below the one it removes: no home frame is found lagging, not even the
\* recovery thread's, whose counter upcall_setup leaves as it was.
THEOREM KeepsUp ==
  ASSUME OneUpcall, ~Preemptible PROVE Spec => []RecovererKeepsUp
<1>1. RecoveryInv => RecovererKeepsUp
  BY Zenon DEF RecoveryInv, HomeKeepsUp, RecovererKeepsUp
<1> QED BY <1>1, RecoveryHolds, PTL
-----------------------------------------------------------------------------
(* The types. *)

Stubbed(k) == \A i \in 1..Len(k) : k[i].stub \in Services \cup {None}

\* The frame under the booter's is a service's: the one that failed, or that
\* was found lagging.
Removable(k) == Len(k) > 1 /\ k[Len(k) - 1].spd \in Services

StubOK(k, p) ==
  Stubbed(k) /\ (p \in {"notif", "reboot", "trigger"} => Removable(k))

Stubs == \A t \in Thds : StubOK(stk[t], pc[t])

\* Only INV_FRAME_REM sends a thread to its stub, and only for a service.
TypesInv ==
  /\ Stubs
  /\ reflection \in [Comps -> Nat]
  /\ overlapped \in BOOLEAN
  /\ dead \in {"no", "home", "lagging", "assert"}

\* A call adds a frame that no stub waits for.
LEMMA InvokeStubs ==
  ASSUME NEW k \in Seq(AnyFrame), k # <<>>, NEW s \in Comps, WorldOK(World),
         Stubbed(k)
  PROVE  /\ Invoke(k, s) \in Seq(AnyFrame) /\ Invoke(k, s) # <<>>
         /\ Last(Invoke(k, s)).spd = s
         /\ Stubbed(Invoke(k, s))
         /\ Last(k).spd \in Services => Removable(Invoke(k, s))
<1> DEFINE n == Len(k)
           e == Invoke(k, s)
<1>1. /\ n \in Nat \ {0} /\ e \in Seq(AnyFrame) /\ e # <<>> /\ Len(e) = n + 1
      /\ \A i \in 1..(n - 1) : e[i] = k[i]
      /\ e[n].spd = k[n].spd /\ e[n].stub = k[n].stub
      /\ e[n + 1] = Frame(s)
  BY Zenon, InvokeShape
<1>2. Frame(s).stub = None /\ Frame(s).spd = s
  BY DEF Frame
<1> HIDE DEF e
<1>3. Stubbed(e)
  <2> SUFFICES ASSUME NEW i \in 1..(n + 1)
               PROVE  e[i].stub \in Services \cup {None}
    BY <1>1 DEF Stubbed
  <2>1. CASE i = n + 1
    BY Zenon, <1>1, <1>2, <2>1
  <2>2. CASE i \in 1..n
    <3>1. e[i].stub = k[i].stub
      BY <1>1, <2>2
    <3> QED BY <2>2, <3>1 DEF Stubbed
  <2> QED BY <1>1, <2>1, <2>2
<1>4. Last(e).spd = s
  BY <1>1, <1>2 DEF Last
<1>5. Last(k).spd \in Services => Removable(e)
  <2>1. Len(e) > 1 /\ Len(e) - 1 = n
    BY <1>1
  <2> QED BY Zenon, <1>1, <2>1 DEF Removable, Last
<1> QED BY Zenon, <1>1, <1>3, <1>4, <1>5 DEF e

LEMMA PopStubs ==
  ASSUME NEW k \in Seq(AnyFrame), Len(k) > 1, Stubbed(k)
  PROVE  Pop(k) \in Seq(AnyFrame) /\ Pop(k) # <<>> /\ Stubbed(Pop(k))
<1> DEFINE e == Pop(k)
           n == Len(k)
<1>1. /\ n \in Nat /\ e \in Seq(AnyFrame)
      /\ Len(e) = n - 1
      /\ \A i \in 1..(n - 1) : e[i] = k[i]
  BY DEF Pop
<1> HIDE DEF e
<1>2. e # <<>>
  BY <1>1
<1>3. Stubbed(e)
  BY <1>1 DEF Stubbed
<1> QED BY Zenon, <1>1, <1>2, <1>3 DEF e

\* INV_FRAME_REM sends the client to its stub for the service it removes.
LEMMA RemoveStubs ==
  ASSUME NEW k \in Seq(AnyFrame), Len(k) > 2, Stubbed(k), Removable(k)
  PROVE  /\ Remove(k) \in Seq(AnyFrame) /\ Len(Remove(k)) > 1
         /\ Stubbed(Remove(k))
<1> DEFINE n == Len(k)
           g == k[n - 1]
           z == k[n].inc
           a == [k[n - 2] EXCEPT !.stub = g.spd]
           b == [g EXCEPT !.spd = Booter, !.inc = z]
           e == Remove(k)
<1>1. n \in Nat /\ n > 2 /\ k[n] \in AnyFrame /\ g \in AnyFrame
      /\ k[n - 2] \in AnyFrame
  OBVIOUS
<1>2. a \in AnyFrame /\ a.stub \in Services \cup {None}
  <2>1. g.spd \in Services
    BY DEF Removable
  <2> HIDE DEF g
  <2> QED BY Zenon, <1>1, <2>1 DEF AnyFrame, Comps
<1>3. b \in AnyFrame /\ b.stub \in Services \cup {None}
  <2>1. Booter \in Comps /\ z \in Nat
    BY <1>1 DEF Comps, AnyFrame
  <2>2. g.stub \in Services \cup {None}
    BY <1>1 DEF Stubbed
  <2> HIDE DEF g, z
  <2> QED BY Zenon, <1>1, <2>1, <2>2 DEF AnyFrame
<1>4. e[n - 1] = b
  <2>1. n - 1 \in 1..(n - 1) /\ n - 1 # n - 2
    BY <1>1
  <2> QED BY <2>1 DEF Remove
<1>5. e[n - 2] = a
  <2>1. n - 2 \in 1..(n - 1)
    BY <1>1
  <2> QED BY <2>1 DEF Remove
<1>6. ASSUME NEW i \in 1..(n - 3)
      PROVE  e[i] = k[i]
  <2>1. i \in 1..(n - 1) /\ i # n - 2 /\ i # n - 1
    BY <1>1
  <2> QED BY <2>1 DEF Remove
<1> HIDE DEF a, b
<1>7. ASSUME NEW i \in 1..(n - 1)
      PROVE  e[i] \in AnyFrame /\ e[i].stub \in Services \cup {None}
  <2> HIDE DEF e
  <2>1. CASE i = n - 1
    BY Zenon, <1>3, <1>4, <2>1
  <2>2. CASE i = n - 2
    BY Zenon, <1>2, <1>5, <2>2
  <2>3. CASE i \in 1..(n - 3)
    <3>1. k[i] \in AnyFrame /\ k[i].stub \in Services \cup {None}
      BY <1>1, <2>3 DEF Stubbed
    <3> QED BY Zenon, <1>6, <2>3, <3>1
  <2> QED BY <1>1, <2>1, <2>2, <2>3
<1>8. e \in Seq(AnyFrame) /\ Len(e) = n - 1
  <2>1. e = [i \in 1..(n - 1) |-> e[i]]
    BY DEF Remove
  <2> HIDE DEF e
  <2> QED BY <1>1, <1>7, <2>1
<1> HIDE DEF e
<1>9. Len(e) > 1
  BY <1>1, <1>8
<1>10. Stubbed(e)
  BY Zenon, <1>7, <1>8 DEF Stubbed
<1> QED BY Zenon, <1>8, <1>9, <1>10 DEF e

\* Only the counters of services are ever triggered.
LEMMA LagsInService ==
  ASSUME FaultInv, NEW f \in AnyFrame, Lags(f)
  PROVE  f.spd \in Services
<1>1. f.spd \in Comps /\ f.cnt \in Nat
  BY DEF AnyFrame
<1>2. f.spd \notin Services => fault[f.spd] = 0
  BY Zenon, <1>1 DEF FaultInv, Counted
<1> QED BY <1>1, <1>2 DEF Lags

\* One thread continues with stack k at p.
LEMMA StubsMove ==
  ASSUME FaultInv, Stubs, NEW t \in Thds, NEW k, NEW p, StubOK(k, p),
         stk' = [stk EXCEPT ![t] = k], pc' = [pc EXCEPT ![t] = p]
  PROVE  Stubs'
<1>1. stk \in [Thds -> Seq(AnyFrame)] /\ pc \in [Thds -> Labels]
  BY Zenon DEF FaultInv, Types
<1> SUFFICES ASSUME NEW u \in Thds PROVE StubOK(stk'[u], pc'[u])
  BY Zenon DEF Stubs
<1>2. CASE u = t
  <2>1. stk'[u] = k /\ pc'[u] = p
    BY Zenon, <1>1, <1>2
  <2> QED BY Zenon, <2>1
<1>3. CASE u # t
  <2>1. stk'[u] = stk[u] /\ pc'[u] = pc[u]
    BY Zenon, <1>1, <1>3
  <2> QED BY Zenon, <2>1 DEF Stubs
<1> QED BY Zenon, <1>2, <1>3

\* A stack whose thread is at none of the three places.
LEMMA StubsQuiet ==
  ASSUME NEW k, NEW p, Stubbed(k), p \notin {"notif", "reboot", "trigger"}
  PROVE  StubOK(k, p)
  BY Zenon DEF StubOK

LEMMA StubsPlace ==
  ASSUME FaultInv, Stubs, NEW t \in Thds, NEW p,
         p \notin {"notif", "reboot", "trigger"},
         stk' = stk, pc' = [pc EXCEPT ![t] = p]
  PROVE  Stubs'
<1>1. stk \in [Thds -> Seq(AnyFrame)]
  BY Zenon DEF FaultInv, Types
<1>2. stk' = [stk EXCEPT ![t] = stk[t]]
  BY Zenon, <1>1
<1>3. StubOK(stk[t], p)
  BY Zenon, StubsQuiet DEF Stubs, StubOK
<1> QED BY Zenon, <1>2, <1>3, StubsMove

LEMMA StubsOf ==
  ASSUME FaultInv, Stubs, NEW t \in Thds
  PROVE  /\ stk[t] \in Seq(AnyFrame) /\ stk[t] # <<>> /\ WorldOK(World)
         /\ Stubbed(stk[t]) /\ Top(t) \in AnyFrame /\ Top(t).spd \in Comps
         /\ Booter \in Comps /\ Sched \in Comps
<1>1. Booter \in Comps /\ Sched \in Comps
  BY Zenon DEF Comps
<1> QED BY Zenon, <1>1, TopTyped, WorldNow DEF Stubs, StubOK

\* A return, with pop_fault_detect on the frame returned to.
LEMMA ResumeStubs ==
  ASSUME FaultInv, Stubs, NEW t \in Thds, NEW k \in Seq(AnyFrame), k # <<>>,
         Stubbed(k), Resume(t, k)
  PROVE  Stubs'
<1>1. Last(k) \in AnyFrame
  BY DEF Last
<1>2. CASE Last(k).spd # Booter /\ Lags(Last(k))
  <2>1. Last(k).spd \in Services
    BY Zenon, <1>1, <1>2, LagsInService
  <2>2. StubOK(Invoke(k, Booter), "notif")
    BY Zenon, <2>1, StubsOf, InvokeStubs DEF StubOK
  <2> QED BY Zenon, <1>2, <2>2, StubsMove DEF Resume
<1>3. CASE ~(Last(k).spd # Booter /\ Lags(Last(k)))
  <2>1. StubOK(k, "run")
    BY StubsQuiet
  <2> QED BY Zenon, <1>3, <2>1, StubsMove DEF Resume
<1> QED BY Zenon, <1>2, <1>3

\* A switch, with switch_thd_fault_detect.
LEMMA SwitchStubs ==
  ASSUME FaultInv, Stubs, NEW n \in Thds, NEW p \in {"run", "loop", "done"},
         SwitchTo(n, p)
  PROVE  Stubs'
<1> DEFINE left == [pc EXCEPT ![curr] = p]
<1>1. curr \in Thds /\ pc \in [Thds -> Labels] /\ p \in Labels
      /\ stk \in [Thds -> Seq(AnyFrame)]
  BY Zenon DEF FaultInv, Types, Labels, InHandler
<1>2. left \in [Thds -> Labels]
  BY Zenon, <1>1
<1>3. \A t \in Thds : StubOK(stk[t], left[t])
  <2> TAKE t \in Thds
  <2>1. CASE t = curr
    <3>1. left[t] = p
      BY Zenon, <1>1, <2>1
    <3>2. p \notin {"notif", "reboot", "trigger"}
      OBVIOUS
    <3> QED BY Zenon, <3>1, <3>2, StubsQuiet DEF Stubs, StubOK
  <2>2. CASE t # curr
    <3>1. left[t] = pc[t]
      BY Zenon, <1>1, <2>2
    <3> QED BY Zenon, <3>1 DEF Stubs
  <2> QED BY Zenon, <2>1, <2>2
<1>4. CASE Lags(Top(n))
  <2>1. stk' = [stk EXCEPT ![n] = Invoke(stk[n], Booter)]
        /\ pc' = [left EXCEPT ![n] = "notif"]
    BY Zenon, <1>4 DEF SwitchTo
  <2>2. Top(n).spd \in Services
    BY Zenon, <1>4, StubsOf, LagsInService
  <2>3. StubOK(Invoke(stk[n], Booter), "notif")
    BY Zenon, <2>2, StubsOf, InvokeStubs DEF StubOK, Top
  <2> HIDE DEF left
  <2> SUFFICES ASSUME NEW u \in Thds PROVE StubOK(stk'[u], pc'[u])
    BY Zenon DEF Stubs
  <2>4. CASE u = n
    <3>1. stk'[u] = Invoke(stk[n], Booter) /\ pc'[u] = "notif"
      BY Zenon, <1>1, <1>2, <2>1, <2>4
    <3> QED BY Zenon, <2>3, <3>1
  <2>5. CASE u # n
    <3>1. stk'[u] = stk[u] /\ pc'[u] = left[u]
      BY Zenon, <1>1, <1>2, <2>1, <2>5
    <3> QED BY Zenon, <1>3, <3>1
  <2> QED BY Zenon, <2>4, <2>5
<1>5. CASE ~Lags(Top(n))
  <2>1. stk' = stk /\ pc' = left
    BY Zenon, <1>5 DEF SwitchTo
  <2> QED BY Zenon, <1>3, <2>1 DEF Stubs
<1> QED BY Zenon, <1>4, <1>5

\* The actions, one by one.
LEMMA CallStubs ==
  ASSUME FaultInv, Stubs, NEW s \in Comps, Call(s)
  PROVE  Stubs'
<1>1. PICK k : k = Invoke(stk[curr], s)
  OBVIOUS
<1>2. curr \in Thds
  BY Zenon, WorldNow
<1>3. k \in Seq(AnyFrame) /\ k # <<>> /\ Last(k).spd = s /\ Stubbed(k)
  BY Zenon, <1>1, <1>2, StubsOf, InvokeStubs
<1>4. CASE cap[Top(curr).spd, s] < fault[s]
  <2>1. s \in Services
    <3>1. PICK c : c = <<Top(curr).spd, s>>
      BY Zenon
    <3>2. c \in Calls /\ cap[c] < fault[s]
      BY Zenon, <1>4, <3>1 DEF Call
    <3>3. cap[c] \in Nat
      BY Zenon, <3>2 DEF FaultInv, Types
    <3>4. s \notin Services => fault[s] = 0
      BY Zenon DEF FaultInv, Counted
    <3>5. ~(cap[c] < 0)
      BY <3>3
    <3> QED BY Zenon, <3>2, <3>4, <3>5
  <2>2. StubOK(Invoke(k, Booter), "notif")
    BY Zenon, <1>2, <1>3, <2>1, StubsOf, InvokeStubs DEF StubOK
  <2>3. /\ stk' = [stk EXCEPT ![curr] = Invoke(k, Booter)]
        /\ pc' = [pc EXCEPT ![curr] = "notif"]
    BY Zenon, <1>1, <1>4 DEF Call
  <2> QED BY Zenon, <1>2, <2>2, <2>3, StubsMove
<1>5. CASE ~(cap[Top(curr).spd, s] < fault[s])
  <2>1. stk' = [stk EXCEPT ![curr] = k] /\ pc' = pc /\ pc[curr] = "run"
    BY Zenon, <1>1, <1>5 DEF Call, Running
  <2>2. pc' = [pc EXCEPT ![curr] = "run"]
    BY Zenon, <1>2, <2>1 DEF FaultInv, Types
  <2>3. StubOK(k, "run")
    BY <1>3, StubsQuiet
  <2> QED BY Zenon, <1>2, <2>1, <2>2, <2>3, StubsMove
<1> QED BY Zenon, <1>4, <1>5

LEMMA FaultUpdateStubs ==
  ASSUME FaultInv, Stubs, FaultUpdate
  PROVE  Stubs'
<1>1. curr \in Thds /\ pc \in [Thds -> Labels] /\ stk \in [Thds -> Seq(AnyFrame)]
  BY Zenon DEF FaultInv, Types
<1>2. PICK k, n : k = stk[curr] /\ n = Len(k)
  BY Zenon
<1>3. PICK f : f = [k[n] EXCEPT !.stub = None]
  BY Zenon
<1>4. PICK e : e = [k EXCEPT ![n] = f]
  BY Zenon
<1>5. k \in Seq(AnyFrame) /\ k # <<>> /\ Stubbed(k)
  BY Zenon, <1>1, <1>2, StubsOf
<1>6. n \in Nat \ {0} /\ k[n] \in AnyFrame
  BY <1>2, <1>5
<1>7. f.stub = None
  BY Zenon, <1>3, <1>6 DEF AnyFrame
<1>8. Len(e) = n /\ \A i \in 1..n : e[i] = IF i = n THEN f ELSE k[i]
  BY <1>2, <1>4, <1>5, <1>6
<1>9. Stubbed(e)
  BY Zenon, <1>2, <1>5, <1>7, <1>8 DEF Stubbed
<1>10. StubOK(e, "run")
  BY <1>9, StubsQuiet
<1>11. stk' = [stk EXCEPT ![curr] = e]
  BY Zenon, <1>2, <1>3, <1>4 DEF FaultUpdate
<1>12. pc' = [pc EXCEPT ![curr] = "run"]
  BY Zenon, <1>1 DEF FaultUpdate, Running
<1> QED BY Zenon, <1>1, <1>10, <1>11, <1>12, StubsMove

LEMMA UpcallWaitStubs ==
  ASSUME FaultInv, Stubs, UpcallWait
  PROVE  Stubs'
<1>1. curr \in Thds
  BY Zenon, WorldNow
<1>2. CASE stk' = stk /\ pc' = pc
  BY Zenon, <1>2 DEF Stubs
<1>3. CASE /\ stk' = [stk EXCEPT ![curr] = Append(@, Frame(Sched))]
           /\ pc' = [pc EXCEPT ![curr] = "complete"]
  <2>1. PICK k, f : k = stk[curr] /\ f = Frame(Sched)
    OBVIOUS
  <2>2. k \in Seq(AnyFrame) /\ Stubbed(k) /\ f \in AnyFrame
    BY Zenon, <1>1, <2>1, StubsOf, NewFrame
  <2>3. f.stub = None
    BY <2>1 DEF Frame
  <2>4. /\ Len(k) \in Nat /\ Len(Append(k, f)) = Len(k) + 1
        /\ \A i \in 1..Len(k) : Append(k, f)[i] = k[i]
        /\ Append(k, f)[Len(k) + 1] = f
    BY <2>2
  <2>5. \A i \in 1..(Len(k) + 1) : i \in 1..Len(k) \/ i = Len(k) + 1
    BY <2>4
  <2>6. Stubbed(Append(k, f))
    BY Zenon, <2>2, <2>3, <2>4, <2>5 DEF Stubbed
  <2>7. StubOK(Append(k, f), "complete")
    BY <2>6, StubsQuiet
  <2>8. stk' = [stk EXCEPT ![curr] = Append(k, f)]
    BY Zenon, <1>3, <2>1
  <2> QED BY Zenon, <1>1, <1>3, <2>7, <2>8, StubsMove
<1> QED BY Zenon, <1>2, <1>3 DEF UpcallWait

LEMMA FaultStubs ==
  ASSUME FaultInv, Stubs, Fault
  PROVE  Stubs'
<1>1. curr \in Thds /\ Top(curr).spd \in Services
  BY Zenon, WorldNow DEF Fault
<1>2. StubOK(Invoke(stk[curr], Booter), "reboot")
  BY Zenon, <1>1, StubsOf, InvokeStubs DEF StubOK, Top
<1>3. /\ stk' = [stk EXCEPT ![curr] = Invoke(stk[curr], Booter)]
      /\ pc' = [pc EXCEPT ![curr] = "reboot"]
  BY Zenon DEF Fault
<1> QED BY Zenon, <1>1, <1>2, <1>3, StubsMove

LEMMA RebootStubs ==
  ASSUME FaultInv, Stubs, Reboot
  PROVE  Stubs'
<1>1. curr \in Thds /\ stk \in [Thds -> Seq(AnyFrame)]
  BY Zenon DEF FaultInv, Types
<1>2. StubOK(stk[curr], "trigger")
  BY Zenon, <1>1 DEF Stubs, StubOK, Reboot, Running
<1>3. stk' = [stk EXCEPT ![curr] = stk[curr]]
  BY Zenon, <1>1 DEF Reboot
<1>4. pc' = [pc EXCEPT ![curr] = "trigger"]
  BY Zenon DEF Reboot
<1> QED BY Zenon, <1>1, <1>2, <1>3, <1>4, StubsMove

LEMMA TriggerStubs ==
  ASSUME FaultInv, Stubs, Trigger
  PROVE  Stubs'
<1>1. curr \in Thds
  BY Zenon, WorldNow
<1>2. Removable(stk[curr])
  BY Zenon, <1>1 DEF Stubs, StubOK, Trigger, Running
<1>3. Stubbed(Remove(stk[curr]))
  BY Zenon, <1>1, <1>2, StubsOf, RemoveStubs DEF Trigger, CanRemove
<1>4. StubOK(Remove(stk[curr]), "slot")
  BY <1>3, StubsQuiet
<1>5. /\ stk' = [stk EXCEPT ![curr] = Remove(stk[curr])]
      /\ pc' = [pc EXCEPT ![curr] = "slot"]
  BY Zenon DEF Trigger
<1> QED BY Zenon, <1>1, <1>4, <1>5, StubsMove

LEMMA ReturnStubs ==
  ASSUME FaultInv, Stubs, Return \/ HandlerReturn
  PROVE  Stubs'
<1>1. curr \in Thds
  BY Zenon, WorldNow
<1>2. Len(stk[curr]) > 1
  <2>1. CASE Return
    BY Zenon, <2>1 DEF Return
  <2>2. CASE HandlerReturn
    <3>1. pc[curr] = "return"
      BY Zenon, <2>2 DEF HandlerReturn, Running
    <3>2. curr # Recoverer
      BY <3>1 DEF FaultInv, Places
    <3>3. "return" \in InHandler
      BY DEF InHandler
    <3>4. stk[curr][1].spd = HomeOf(curr) /\ stk[curr][Len(stk[curr])].spd = Booter
      BY Zenon, <3>1, <3>2, <3>3, WorldNow DEF StackOK, Last
    <3>5. HomeOf(curr) # Booter
      BY <1>1, <3>2, FaultNotifAssumption DEF HomeOf, Thds
    <3>6. stk[curr] \in Seq(AnyFrame) /\ stk[curr] # <<>>
      BY Zenon, <1>1, StubsOf
    <3>7. Len(stk[curr]) \in Nat /\ Len(stk[curr]) # 0
      BY <3>6
    <3>8. Len(stk[curr]) # 1
      BY Zenon, <3>4, <3>5
    <3>9. PICK m : m = Len(stk[curr])
      BY Zenon
    <3>10. m \in Nat /\ m # 0 /\ m # 1
      BY Zenon, <3>7, <3>8, <3>9
    <3>11. m > 1
      BY <3>10
    <3> QED BY Zenon, <3>9, <3>11
  <2> QED BY Zenon, <2>1, <2>2
<1>3. PICK k : k = Pop(stk[curr])
  OBVIOUS
<1>4. k \in Seq(AnyFrame) /\ k # <<>> /\ Stubbed(k)
  BY Zenon, <1>1, <1>2, <1>3, StubsOf, PopStubs
<1> QED BY Zenon, <1>1, <1>3, <1>4, ResumeStubs DEF Return, HandlerReturn

LEMMA NotifiedStubs ==
  ASSUME FaultInv, Stubs, Notified
  PROVE  Stubs'
<1>1. curr \in Thds
  BY Zenon, WorldNow
<1>2. CASE CanRemove(stk[curr])
  <2>1. Removable(stk[curr])
    BY Zenon, <1>1 DEF Stubs, StubOK, Notified, Running
  <2>2. PICK r : r = Remove(stk[curr])
    OBVIOUS
  <2>3. r \in Seq(AnyFrame) /\ Len(r) > 1 /\ Stubbed(r)
    BY Zenon, <1>1, <1>2, <2>1, <2>2, StubsOf, RemoveStubs DEF CanRemove
  <2>4. Pop(r) \in Seq(AnyFrame) /\ Pop(r) # <<>> /\ Stubbed(Pop(r))
    BY Zenon, <2>3, PopStubs
  <2> QED BY Zenon, <1>1, <1>2, <2>2, <2>4, ResumeStubs DEF Notified
<1>3. CASE ~CanRemove(stk[curr])
  BY Zenon, <1>3 DEF Notified, Stubs
<1> QED BY Zenon, <1>2, <1>3

LEMMA RecoverStubs ==
  ASSUME FaultInv, Stubs, RecoverUpcall \/ RecoverDone
  PROVE  Stubs'
<1>1. curr \in Thds
  BY Zenon, WorldNow
<1>2. PICK g : g = stk[curr][1]
  OBVIOUS
<1>3. g \in AnyFrame /\ g.stub \in Services \cup {None}
  <2>1. stk[curr] \in Seq(AnyFrame) /\ stk[curr] # <<>> /\ Stubbed(stk[curr])
    BY Zenon, <1>1, StubsOf
  <2>2. 1 \in 1..Len(stk[curr]) /\ stk[curr][1] \in AnyFrame
    BY <2>1
  <2> QED BY Zenon, <1>2, <2>1, <2>2 DEF Stubbed
<1>4. ASSUME NEW s, NEW z, NEW p \in {"init", "done"},
             stk' = [stk EXCEPT ![curr] = <<[g EXCEPT !.spd = s, !.inc = z]>>],
             pc' = [pc EXCEPT ![curr] = p]
      PROVE  Stubs'
  <2>1. PICK f : f = [g EXCEPT !.spd = s, !.inc = z]
    OBVIOUS
  <2>2. f.stub = g.stub
    BY Zenon, <1>3, <2>1 DEF AnyFrame
  <2>3. Len(<<f>>) = 1 /\ <<f>>[1] = f /\ \A i \in 1..1 : i = 1
    OBVIOUS
  <2>4. Stubbed(<<f>>)
    BY Zenon, <1>3, <2>2, <2>3 DEF Stubbed
  <2>5. StubOK(<<f>>, p)
    BY <2>4, StubsQuiet
  <2> QED BY Zenon, <1>1, <1>4, <2>1, <2>5, StubsMove
<1>5. CASE RecoverUpcall
  <2>1. /\ stk' = [stk EXCEPT ![curr] =
                     <<[g EXCEPT !.spd = recover_spd, !.inc = inc[recover_spd]]>>]
        /\ pc' = [pc EXCEPT ![curr] = "init"]
    BY Zenon, <1>2, <1>5 DEF RecoverUpcall
  <2> QED BY Zenon, <1>4, <2>1
<1>6. CASE RecoverDone
  <2>1. /\ stk' = [stk EXCEPT ![curr] = <<[g EXCEPT !.spd = Booter, !.inc = 0]>>]
        /\ pc' = [pc EXCEPT ![curr] = "done"]
    BY Zenon, <1>2, <1>6 DEF RecoverDone
  <2> QED BY Zenon, <1>4, <2>1
<1> QED BY Zenon, <1>5, <1>6

LEMMA SwitchesStubs ==
  ASSUME FaultInv, Stubs,
         (\E n \in Thds : Reschedule(n)) \/ LoopSwitch \/ RecoverSwitch
  PROVE  Stubs'
<1>1. CASE \E n \in Thds : Reschedule(n)
  <2>1. PICK n \in Thds : SwitchTo(n, "run")
    BY Zenon, <1>1 DEF Reschedule
  <2> QED BY Zenon, <2>1, SwitchStubs
<1>2. CASE LoopSwitch
  <2>1. Recoverer \in Thds
    BY Zenon DEF Thds
  <2> QED BY Zenon, <1>2, <2>1, SwitchStubs DEF LoopSwitch
<1>3. CASE RecoverSwitch
  <2>1. CASE prev_thd \in {None, Recoverer}
    BY Zenon, <1>3, <2>1 DEF RecoverSwitch, Stubs
  <2>2. CASE prev_thd \notin {None, Recoverer}
    <3>1. prev_thd \in Thds
      BY Zenon, <2>2 DEF FaultInv, Types
    <3> QED BY Zenon, <1>3, <2>2, <3>1, SwitchStubs DEF RecoverSwitch
  <2> QED BY Zenon, <2>1, <2>2
<1> QED BY Zenon, <1>1, <1>2, <1>3

LEMMA PlacesStubs ==
  ASSUME FaultInv, Stubs, SetPrevThd \/ SetRecoverSpd \/ LoopTest \/ Reflect
  PROVE  Stubs'
<1>1. curr \in Thds
  BY Zenon, WorldNow
<1>2. CASE SetPrevThd
  BY Zenon, <1>1, <1>2, StubsPlace DEF SetPrevThd
<1>3. CASE SetRecoverSpd
  BY Zenon, <1>1, <1>3, StubsPlace DEF SetRecoverSpd
<1>4. CASE LoopTest
  <2>1. PICK p : p = IF prev_thd = curr THEN "switch" ELSE "return"
    OBVIOUS
  <2>2. p \notin {"notif", "reboot", "trigger"}
    BY <2>1
  <2>3. stk' = stk /\ pc' = [pc EXCEPT ![curr] = p]
    BY Zenon, <1>4, <2>1 DEF LoopTest
  <2> QED BY Zenon, <1>1, <2>2, <2>3, StubsPlace
<1>5. CASE Reflect
  BY Zenon, <1>1, <1>5, StubsPlace DEF Reflect
<1> QED BY Zenon, <1>2, <1>3, <1>4, <1>5

LEMMA StubsNext ==
  ASSUME FaultInv, Stubs, [Next]_vars
  PROVE  Stubs'
<1>1. ASSUME stk' = stk, pc' = pc PROVE Stubs'
  BY Zenon, <1>1 DEF Stubs
<1>2. CASE UNCHANGED vars \/ HomeFault
           \/ \E u \in Upcalls : Interrupt(u) \/ Activate(u)
  <2>1. stk' = stk /\ pc' = pc
    BY Zenon, <1>2 DEF vars, HomeFault, Interrupt, Activate
  <2> QED BY Zenon, <1>1, <2>1
<1>3. CASE \E s \in Comps : Call(s)
  BY Zenon, <1>3, CallStubs
<1>4. CASE Return \/ HandlerReturn
  BY Zenon, <1>4, ReturnStubs
<1>5. CASE (\E n \in Thds : Reschedule(n)) \/ LoopSwitch \/ RecoverSwitch
  BY Zenon, <1>5, SwitchesStubs
<1>6. CASE SetPrevThd \/ SetRecoverSpd \/ LoopTest \/ Reflect
  BY Zenon, <1>6, PlacesStubs
<1>7. CASE RecoverUpcall \/ RecoverDone
  BY Zenon, <1>7, RecoverStubs
<1>8. CASE FaultUpdate \/ UpcallWait \/ Fault \/ Reboot \/ Trigger \/ Notified
  BY Zenon, <1>8, FaultUpdateStubs, UpcallWaitStubs, FaultStubs, RebootStubs,
     TriggerStubs, NotifiedStubs
<1> QED BY Zenon, <1>2, <1>3, <1>4, <1>5, <1>6, <1>7, <1>8 DEF Next, Stopped

LEMMA TypesNext ==
  ASSUME FaultInv, TypesInv, [Next]_vars
  PROVE  TypesInv'
<1>1. Stubs'
  BY Zenon, StubsNext DEF TypesInv
<1>2. reflection' \in [Comps -> Nat]
  <2>0. reflection \in [Comps -> Nat]
    BY Zenon DEF TypesInv
  <2>1. CASE Trigger
    <3>1. PICK s, x : s = failed[curr][1] /\ x = fault[s] + 1
      OBVIOUS
    <3>2. curr \in Thds /\ pc[curr] = "trigger"
      BY Zenon, <2>1, WorldNow DEF Trigger, Running
    <3>3. s \in Services
      BY Zenon, <3>1, <3>2 DEF FaultInv, Places
    <3>4. fault[s] \in Nat
      BY Zenon, <3>3 DEF FaultInv, Types, Comps
    <3>5. x \in Nat
      BY <3>1, <3>4
    <3>6. reflection' = [reflection EXCEPT ![s] = x]
      BY Zenon, <2>1, <3>1 DEF Trigger
    <3> QED BY Zenon, <2>0, <3>5, <3>6
  <2>2. CASE Reflect
    <3>1. PICK s : s = Top(curr).spd
      OBVIOUS
    <3>2. s \in Comps
      BY Zenon, <3>1, WorldNow, TopTyped
    <3>3. reflection[s] + 1 \in Nat
      BY <2>0, <3>2
    <3>4. reflection' = [reflection EXCEPT ![s] = reflection[s] + 1]
          \/ reflection' = reflection
      BY Zenon, <2>2, <3>1 DEF Reflect
    <3> QED BY Zenon, <2>0, <3>3, <3>4
  <2>3. CASE ~Trigger /\ ~Reflect
    <3>1. reflection' = reflection
      BY Zenon, <2>3
         DEF Next, vars, counters, Call, Return, FaultUpdate, Reschedule,
             Interrupt, Activate, UpcallWait, Fault, HomeFault, Reboot,
             SetPrevThd, SetRecoverSpd, LoopTest, LoopSwitch, HandlerReturn,
             Notified, RecoverUpcall, RecoverDone, RecoverSwitch, Stopped
    <3> QED BY Zenon, <2>0, <3>1
  <2> QED BY Zenon, <2>1, <2>2, <2>3
<1>3. overlapped' \in BOOLEAN
  <2>1. CASE Fault
    <3>1. overlapped' = (overlapped \/ \E t \in Thds : failed[t][1] # None)
      BY Zenon, <2>1 DEF Fault
    <3> QED BY Zenon, <3>1
  <2>2. CASE ~Fault
    <3>1. overlapped' = overlapped
      BY Zenon, <2>2
         DEF Next, vars, counters, Call, Return, FaultUpdate, Reschedule,
             Interrupt, Activate, UpcallWait, HomeFault, Reboot, Trigger,
             SetPrevThd, SetRecoverSpd, LoopTest, LoopSwitch, HandlerReturn,
             Notified, RecoverUpcall, Reflect, RecoverDone, RecoverSwitch,
             Stopped
    <3> QED BY Zenon, <3>1 DEF TypesInv
  <2> QED BY Zenon, <2>1, <2>2
<1>4. dead' \in {"no", "home", "lagging", "assert"}
  <2>1. dead' \in {dead, "home", "lagging", "assert"}
    BY Zenon
       DEF Next, vars, Call, Return, FaultUpdate, Reschedule, Interrupt,
           Activate, UpcallWait, Fault, HomeFault, Reboot, Trigger,
           SetPrevThd, SetRecoverSpd, LoopTest, LoopSwitch, HandlerReturn,
           Notified, RecoverUpcall, Reflect, RecoverDone, RecoverSwitch,
           Stopped
  <2> QED BY Zenon, <2>1 DEF TypesInv
<1> QED BY Zenon, <1>1, <1>2, <1>3, <1>4 DEF TypesInv

\* The variables keep their types; in particular the kernel only ever sends a
\* thread to the fault path of its stub for a service that can fail.
THEOREM TypesHold ==
  ASSUME OneUpcall PROVE Spec => []TypeOK
<1>1. Init => TypesInv
  <2> SUFFICES ASSUME Init PROVE TypesInv
    OBVIOUS
  <2>1. /\ reflection \in [Comps -> Nat] /\ overlapped \in BOOLEAN
        /\ dead \in {"no", "home", "lagging", "assert"}
    BY Zenon DEF Init
  <2>2. ASSUME NEW t \in Thds PROVE StubOK(stk[t], pc[t])
    <3>1. PICK f : f = Frame(HomeOf(t))
      OBVIOUS
    <3>2. stk[t] = <<f>> /\ pc[t] \in {"done", "run"}
      BY <3>1 DEF Init
    <3>3. f.stub = None
      BY Zenon, <3>1 DEF Frame
    <3>4. Len(<<f>>) = 1 /\ <<f>>[1] = f /\ \A i \in 1..1 : i = 1
      OBVIOUS
    <3>5. Stubbed(stk[t])
      BY Zenon, <3>2, <3>3, <3>4 DEF Stubbed
    <3> QED BY Zenon, <3>2, <3>5, StubsQuiet
  <2> QED BY Zenon, <2>1, <2>2 DEF TypesInv, Stubs
<1>2. FaultInv /\ TypesInv /\ [Next]_vars => TypesInv'
  BY Zenon, TypesNext
<1>3. FaultInv /\ TypesInv => TypeOK
  <2> SUFFICES ASSUME FaultInv, TypesInv PROVE TypeOK
    OBVIOUS
  <2>1. stk \in [Thds -> Seq(Frames) \ {<<>>}]
    <3>1. ASSUME NEW t \in Thds PROVE stk[t] \in Seq(Frames) \ {<<>>}
      <4>1. PICK k : k = stk[t]
        OBVIOUS
      <4>2. k \in Seq(AnyFrame) /\ k # <<>> /\ Stubbed(k)
        BY Zenon, <4>1, StubsOf DEF TypesInv
      <4>3. \A f \in AnyFrame : f.stub \in Services \cup {None} => f \in Frames
        BY DEF AnyFrame, Frames
      <4>4. \A i \in 1..Len(k) : k[i] \in AnyFrame
        BY <4>2
      <4>5. \A i \in 1..Len(k) : k[i] \in Frames
        BY Zenon, <4>2, <4>3, <4>4 DEF Stubbed
      <4>6. k \in Seq(Frames)
        BY <4>2, <4>5
      <4> QED BY Zenon, <4>1, <4>2, <4>6
    <3>2. stk \in [Thds -> Seq(AnyFrame)]
      BY Zenon DEF FaultInv, Types
    <3> QED BY Zenon, <3>1, <3>2
  <2>2. Labels = {"run", "complete", "done", "init", "notif", "reboot",
                  "trigger", "slot", "spd", "loop", "switch", "return"}
    BY DEF Labels, InHandler
  <2> QED BY Zenon, <2>1, <2>2 DEF TypeOK, TypesInv, FaultInv, Types
<1> QED BY <1>1, <1>2, <1>3, InvHolds, PTL DEF Spec
=============================================================================
