----------------------------- MODULE EvtProofs -----------------------------
(***************************************************************************)
(* No thread that sleeps in evt_wait is forgotten, for any number of       *)
(* threads, components, events and failures.                               *)
(*                                                                         *)
(* SleeperCanBeWoken is not inductive: a thread about to call sched_block  *)
(* must be covered as well, by its event, by a wakeup the scheduler keeps  *)
(* or by a thread about to wake it; and a struct evt that is linked into   *)
(* evt_map must be neither free nor linked twice, or freeing one event and *)
(* using its memory again could take the blocked thread off another one.   *)
(* What the groups and their lists hold does not matter, so the invariant  *)
(* says nothing of node.                                                   *)
(*                                                                         *)
(* And every descriptor a stub keeps is registered at the name server,     *)
(* where every component has one thread.  The ids a thread frees or has    *)
(* just been given must be its component's, and the name server's free     *)
(* list must hold no id twice and none that is owned.                      *)
(***************************************************************************)
EXTENDS Evt, TLAPS

Fields == {"pc", "op", "id", "par", "kind", "ret", "tid", "upd", "rec", "inner"}

ThOK(c) ==
  /\ c = [f \in Fields |-> c[f]]
  /\ c.op \in {"wait", "trigger", "free"} => c.id \in Ids
  /\ c.inner => c.op = "wait"
  /\ c.pc \in {"again", "block", "sleep"} => c.op = "wait"

DataOK ==
  /\ map \in [Ids -> Addr \cup {None}]
  /\ used \subseteq Addr
  /\ bthd \in [Addr -> Threads \cup {None}]
  /\ woken \in [Threads -> BOOLEAN]
  /\ \A i \in Ids : map[i] # None => map[i] \in used
  /\ \A i, j \in Ids : map[i] # None /\ map[i] = map[j] => i = j

Named(t) ==
  /\ map[th[t].id] # None
  /\ bthd[map[th[t].id]] = t

BeingWoken(t) == \E u \in Threads : th[u].pc = "wake" /\ th[u].tid = t

Covered ==
  \A t \in Threads :
    /\ th[t].pc = "sleep" => Named(t) \/ BeingWoken(t)
    /\ th[t].pc = "block" => Named(t) \/ BeingWoken(t) \/ woken[t]

Calling == DOMAIN th = Threads /\ \A t \in Threads : ThOK(th[t])

\* The inductive invariant.
WakeInv == DataOK /\ Calling /\ Covered

-----------------------------------------------------------------------------
LEMMA IdleOK == ThOK(Idle)
  BY DEF ThOK, Idle, Fields

LEMMA Initially == Init => WakeInv
<1> SUFFICES ASSUME Init PROVE WakeInv
  OBVIOUS
<1>1. DataOK
  BY EvtAssumption DEF Init, DataOK
<1>2. \A t \in Threads : th[t] = Idle
  BY DEF Init
<1>3. Idle.pc = "run"
  BY DEF Idle
<1>4. Calling
  BY <1>2, IdleOK DEF Calling, Init
<1>5. Covered
  BY <1>2, <1>3 DEF Covered
<1> QED BY <1>1, <1>4, <1>5 DEF WakeInv

\* What changes only one thread that neither slept nor is about to wake
\* another one, and takes no event out of evt_map, keeps every sleeper
\* covered.
LEMMA Local ==
  ASSUME WakeInv, DataOK',
         NEW t \in Threads, NEW c, ThOK(c),
         c.pc \notin {"block", "sleep"},
         th[t].pc # "wake",
         th' = [th EXCEPT ![t] = c],
         \A i \in Ids : map[i] # None => map'[i] = map[i],
         bthd' = bthd, woken' = woken
  PROVE  WakeInv'
<1>1. DOMAIN th' = Threads /\ th'[t] = c
  BY DEF WakeInv, Calling
<1>2. \A u \in Threads \ {t} : th'[u] = th[u]
  BY DEF WakeInv, Calling
<1>3. Calling'
  BY <1>1, <1>2 DEF WakeInv, Calling
<1>4. ASSUME NEW u \in Threads, th'[u].pc \in {"block", "sleep"}
      PROVE  /\ th'[u] = th[u]
             /\ Named(u) => Named(u)'
             /\ BeingWoken(u) => BeingWoken(u)'
  <2>1. u # t
    BY <1>1, <1>4
  <2>2. th'[u] = th[u] /\ th[u].id \in Ids
    BY <2>1, <1>2, <1>4 DEF WakeInv, Calling, ThOK
  <2>3. Named(u) => Named(u)'
    BY <2>2 DEF Named
  <2>4. ASSUME NEW v \in Threads, th[v].pc = "wake", th[v].tid = u
        PROVE  th'[v].pc = "wake" /\ th'[v].tid = u
    BY <2>4, <1>2
  <2> QED BY <2>2, <2>3, <2>4 DEF BeingWoken
<1>5. Covered'
  BY <1>4 DEF Covered, WakeInv
<1> QED BY <1>3, <1>5 DEF WakeInv

\* The same for a step that leaves the manager's data alone.
LEMMA Quiet ==
  ASSUME WakeInv, NEW t \in Threads, NEW c, ThOK(c),
         c.pc \notin {"block", "sleep"}, th[t].pc # "wake", Set(t, c),
         UNCHANGED <<map, used, bthd, woken>>
  PROVE  WakeInv'
<1>1. DataOK'
  BY DEF WakeInv, DataOK
<1>2. th' = [th EXCEPT ![t] = c]
  BY DEF Set
<1> QED BY Zenon, <1>1, <1>2, Local

\* The updates of a call's record that leave op and id alone.
LEMMA PcOK ==
  ASSUME NEW c, ThOK(c), NEW pc, pc \notin {"again", "block", "sleep"}
  PROVE  ThOK([c EXCEPT !.pc = pc]) /\ [c EXCEPT !.pc = pc].pc = pc
  BY DEF ThOK, Fields

LEMMA RetOK ==
  ASSUME NEW c, ThOK(c), NEW ret
  PROVE  LET d == [c EXCEPT !.pc = "ret", !.ret = ret]
         IN  ThOK(d) /\ d.pc = "ret"
  BY Zenon DEF ThOK, Fields

LEMMA OverOK ==
  ASSUME NEW c, ThOK(c)
  PROVE  ThOK(Over(c)) /\ Over(c).pc \in {"run", "invoke"}
<1>1. CASE c.inner
  <2> DEFINE d == [c EXCEPT !.op = "trigger", !.pc = "invoke", !.ret = 0,
                            !.inner = FALSE]
  <2>1. ThOK(d) /\ d.pc = "invoke"
    BY Zenon, <1>1 DEF ThOK, Fields
  <2> QED BY <1>1, <2>1 DEF Over
<1>2. CASE ~c.inner
  BY <1>2, IdleOK DEF Over, Idle
<1> QED BY <1>1, <1>2

\* A failed call, one that waits for a section, a return and a tracked call
\* change nothing the invariant is about.
LEMMA GotoKeeps ==
  ASSUME WakeInv, NEW t \in Threads,
         NEW pc, pc \notin {"again", "block", "sleep"}, th[t].pc # "wake",
         Goto(t, pc), UNCHANGED <<map, used, bthd, woken>>
  PROVE  WakeInv'
<1>1. ThOK(th[t])
  BY DEF WakeInv, Calling
<1>2. Set(t, [th[t] EXCEPT !.pc = pc])
  BY DEF Goto
<1> QED BY Zenon, <1>1, <1>2, PcOK, Quiet

LEMMA ReturnKeeps ==
  ASSUME WakeInv, NEW t \in Threads, NEW ret, th[t].pc # "wake",
         Return(t, ret), UNCHANGED <<map, used, bthd, woken>>
  PROVE  WakeInv'
<1>1. ThOK(th[t])
  BY DEF WakeInv, Calling
<1>2. Set(t, [th[t] EXCEPT !.pc = "ret", !.ret = ret])
  BY DEF Return
<1> QED BY Zenon, <1>1, <1>2, RetOK, Quiet

LEMMA OverKeeps ==
  ASSUME WakeInv, NEW t \in Threads, th[t].pc # "wake",
         Set(t, Over(th[t])), UNCHANGED <<map, used, bthd, woken>>
  PROVE  WakeInv'
<1>1. ThOK(th[t])
  BY DEF WakeInv, Calling
<1> QED BY <1>1, OverOK, Quiet

-----------------------------------------------------------------------------
(* The client and its stub.                                                *)

LEMMA CallKeeps == ASSUME WakeInv, NEW t \in Threads, Call(t) PROVE WakeInv'
<1>1. th[t].pc # "wake" /\ UNCHANGED <<map, used, bthd, woken>>
  BY Zenon DEF Call, server
<1>2. CASE \E par \in {0} \cup Held(Home[t]), kind \in {"group", "normal"} :
             Set(t, [Idle EXCEPT !.pc = "update", !.op = "split", !.par = par,
                                 !.upd = par, !.kind = kind])
  <2>1. PICK par \in {0} \cup Held(Home[t]) :
          \E kind \in {"group", "normal"} :
             Set(t, [Idle EXCEPT !.pc = "update", !.op = "split", !.par = par,
                                 !.upd = par, !.kind = kind])
    BY Zenon, <1>2
  <2>2. PICK kind \in {"group", "normal"} :
             Set(t, [Idle EXCEPT !.pc = "update", !.op = "split", !.par = par,
                                 !.upd = par, !.kind = kind])
    BY Zenon, <2>1
  <2> DEFINE d == [Idle EXCEPT !.pc = "update", !.op = "split", !.par = par,
                               !.upd = par, !.kind = kind]
  <2>3. ThOK(d) /\ d.pc = "update"
    BY Zenon DEF ThOK, Fields, Idle
  <2> HIDE DEF d
  <2>4. Set(t, d)
    BY <2>2 DEF d
  <2> QED BY <1>1, <2>3, <2>4, Quiet
<1>3. CASE \E op \in {"wait", "trigger", "free"}, i \in Ids :
             Set(t, [Idle EXCEPT !.pc = "invoke", !.op = op, !.id = i])
  <2>1. PICK op \in {"wait", "trigger", "free"}, i \in Ids :
             Set(t, [Idle EXCEPT !.pc = "invoke", !.op = op, !.id = i])
    BY Zenon, <1>3
  <2> DEFINE d == [Idle EXCEPT !.pc = "invoke", !.op = op, !.id = i]
  <2>2. ThOK(d) /\ d.pc = "invoke"
    BY Zenon DEF ThOK, Fields, Idle
  <2> HIDE DEF d
  <2>3. Set(t, d)
    BY <2>1 DEF d
  <2> QED BY <1>1, <2>2, <2>3, Quiet
<1> QED BY Zenon, <1>2, <1>3 DEF Call, Held

LEMMA StaleKeeps == ASSUME WakeInv, NEW t \in Threads, Stale(t) PROVE WakeInv'
<1>1. th[t].pc # "wake" /\ UNCHANGED <<map, used, bthd, woken>> /\ Goto(t, "fault")
  BY DEF Stale, server
<1> QED BY <1>1, GotoKeeps

LEMMA FaultUpdateKeeps ==
  ASSUME WakeInv, NEW t \in Threads, FaultUpdate(t) PROVE WakeInv'
<1> DEFINE d == [th[t] EXCEPT !.pc = Begin(th[t].op), !.upd = th[t].par]
<1>1. th[t].pc # "wake" /\ UNCHANGED <<map, used, bthd, woken>>
  BY DEF FaultUpdate, server
<1>2. Begin(th[t].op) \notin {"again", "block", "sleep"}
  BY DEF Begin
<1>3. ThOK(th[t])
  BY DEF WakeInv, Calling
<1>4. ThOK(d) /\ d.pc = Begin(th[t].op)
  BY Zenon, <1>2, <1>3 DEF ThOK, Fields
<1>5. Set(t, d)
  BY DEF FaultUpdate
<1> HIDE DEF d
<1> QED BY <1>1, <1>2, <1>4, <1>5, Quiet

LEMMA TrackKeeps ==
  ASSUME WakeInv, NEW t \in Threads, TrackCall(t) \/ TrackSplit(t) \/ TrackFree(t)
  PROVE  WakeInv'
<1> DEFINE d == [th[t] EXCEPT !.pc = "update", !.upd = th[t].id, !.ret = 0]
<1>1. th[t].pc # "wake" /\ UNCHANGED <<map, used, bthd, woken>>
  BY DEF TrackCall, TrackSplit, TrackFree, server
<1>2. ThOK(th[t])
  BY DEF WakeInv, Calling
<1>3. ThOK(d) /\ d.pc = "update"
  BY Zenon, <1>2 DEF ThOK, Fields
<1>4. Set(t, d) \/ Set(t, Over(th[t])) \/ Goto(t, "assert")
  BY DEF TrackCall, TrackSplit, TrackFree
<1> HIDE DEF d
<1>5. CASE Set(t, d)
  BY <1>1, <1>3, <1>5, Quiet
<1>6. CASE Set(t, Over(th[t]))
  BY <1>1, <1>6, OverKeeps
<1>7. CASE Goto(t, "assert")
  BY <1>1, <1>7, GotoKeeps
<1> QED BY <1>4, <1>5, <1>6, <1>7

LEMMA UpdateKeeps == ASSUME WakeInv, NEW t \in Threads, Update(t) PROVE WakeInv'
<1> DEFINE resume == [th[t] EXCEPT !.upd = 0,
                        !.pc = IF th[t].rec = <<>> THEN "invoke" ELSE "recover"]
           push(f) == [th[t] EXCEPT !.upd = 0, !.rec = Append(@, f), !.pc = "recover"]
<1>1. th[t].pc # "wake" /\ UNCHANGED <<map, used, bthd, woken>>
  BY DEF Update, server
<1>2. ThOK(th[t])
  BY DEF WakeInv, Calling
<1>3. ThOK(resume) /\ resume.pc \in {"invoke", "recover"}
  BY Zenon, <1>2 DEF ThOK, Fields
<1>4. ASSUME NEW f PROVE ThOK(push(f)) /\ push(f).pc = "recover"
  BY Zenon, <1>2 DEF ThOK, Fields
<1>5. Set(t, resume) \/ (\E f : Set(t, push(f))) \/ Goto(t, "assert")
  BY Zenon DEF Update, Resume, Push
<1> HIDE DEF resume, push
<1>6. CASE Set(t, resume)
  BY <1>1, <1>3, <1>6, Quiet
<1>7. CASE \E f : Set(t, push(f))
  <2>1. PICK f : Set(t, push(f))
    BY <1>7
  <2> QED BY <1>1, <1>4, <2>1, Quiet
<1>8. CASE Goto(t, "assert")
  BY <1>1, <1>8, GotoKeeps
<1> QED BY <1>5, <1>6, <1>7, <1>8

\* The call after a recovery is over.
LEMMA RecoveredOK ==
  ASSUME NEW t, ThOK(th[t]), th[t].pc = "recover"
  PROVE  ThOK(Recovered(t)) /\ Recovered(t).pc \in {"recover", "invoke"}
<1> DEFINE c == th[t]
           b == Front(c.rec)
           d1 == [c EXCEPT !.rec = b]
           d2 == [c EXCEPT !.rec = b, !.pc = "invoke", !.op = "wait", !.inner = TRUE]
           d3 == [c EXCEPT !.rec = b, !.pc = "invoke"]
<1>1. Recovered(t) = d1 \/ (c.op = "trigger" /\ Recovered(t) = d2) \/ Recovered(t) = d3
  BY DEF Recovered
<1> HIDE DEF b
<1>2. ThOK(d1) /\ d1.pc = "recover"
  BY DEF ThOK, Fields
<1>3. c.op = "trigger" => ThOK(d2) /\ d2.pc = "invoke"
  BY Zenon DEF ThOK, Fields
<1>4. ThOK(d3) /\ d3.pc = "invoke"
  BY Zenon DEF ThOK, Fields
<1> QED BY Zenon, <1>1, <1>2, <1>3, <1>4

\* __evt_split puts a free struct evt under an id that evt_map does not have.
LEMMA SplitKeeps ==
  ASSUME DataOK, woken' = woken, NEW par, NEW kind, NEW spd, NEW existing, NEW ret,
         Split(par, kind, spd, existing, ret)
  PROVE  /\ DataOK'
         /\ \A i \in Ids : map[i] # None => map'[i] = map[i]
         /\ bthd' = bthd
<1>1. CASE AllocError(par, spd) # 0
  <2>1. UNCHANGED <<map, used, bthd>>
    BY <1>1 DEF Split, server
  <2> QED BY <2>1 DEF DataOK
<1>2. CASE AllocError(par, spd) = 0
  <2> DEFINE id == NsAlloc(existing)
  <2>1. used # Addr
    BY <1>2 DEF AllocError, EINVAL, ENOMEM
  <2>2. FreeNode \in Addr /\ FreeNode \notin used
    BY <2>1 DEF FreeNode, DataOK
  <2>3. FreeNode # None
    BY <2>2, EvtAssumption DEF Addr
  <2>4. /\ used' = used \cup {FreeNode}
        /\ map' = IF id > 0 THEN [map EXCEPT ![id] = FreeNode] ELSE map
        /\ bthd' = bthd
    BY <1>2 DEF Split
  <2>5. id > 0 => map[id] = None
    BY <1>2 DEF Split, AddAsserts
  <2> HIDE DEF id
  <2> DEFINE a == FreeNode
  <2> HIDE DEF a
  <2>6. a \in Addr /\ a \notin used /\ a # None /\ used' = used \cup {a}
    BY <2>2, <2>3, <2>4 DEF a
  <2>7. map' = map \/ (id \in Ids /\ map[id] = None /\ map' = [map EXCEPT ![id] = a])
    BY <2>4, <2>5 DEF a, DataOK
  <2>8. map' \in [Ids -> Addr \cup {None}]
    BY <2>6, <2>7 DEF DataOK
  <2>9. \A i \in Ids : map[i] # None => map'[i] = map[i]
    BY <2>7 DEF DataOK
  <2>10. \A i \in Ids : map'[i] # None => map'[i] \in used'
    BY <2>6, <2>7 DEF DataOK
  <2>11. \A i, j \in Ids : map'[i] # None /\ map'[i] = map'[j] => i = j
    BY <2>6, <2>7 DEF DataOK
  <2> QED BY <2>4, <2>6, <2>8, <2>9, <2>10, <2>11 DEF DataOK
<1> QED BY <1>1, <1>2

LEMMA RecoverKeeps == ASSUME WakeInv, NEW t \in Threads, Recover(t) PROVE WakeInv'
<1>1. th[t].pc = "recover" /\ bthd' = bthd /\ woken' = woken
  BY Zenon DEF Recover, server, Split
<1>2. ThOK(th[t])
  BY DEF WakeInv, Calling
<1>3. ThOK(Recovered(t)) /\ Recovered(t).pc \in {"recover", "invoke"}
  BY <1>1, <1>2, RecoveredOK
<1> DEFINE again(u, r) == [th[t] EXCEPT !.pc = "update", !.upd = u,
                             !.rec = Append(Front(@), r)]
<1>4. ASSUME NEW u, NEW r PROVE ThOK(again(u, r)) /\ again(u, r).pc = "update"
  BY Zenon, <1>2 DEF ThOK, Fields
<1>5. DataOK' /\ (\A i \in Ids : map[i] # None => map'[i] = map[i])
  <2>1. CASE UNCHANGED server
    BY <1>1, <2>1 DEF server, WakeInv, DataOK
  <2>2. CASE \E ret, par, kind, spd, id : Split(par, kind, spd, id, ret)
    BY <1>1, <2>2, SplitKeeps DEF WakeInv
  <2> QED BY <2>1, <2>2 DEF Recover
<1>6. \/ th' = [th EXCEPT ![t] = Recovered(t)]
      \/ \E u, r : th' = [th EXCEPT ![t] = again(u, r)]
  BY Zenon DEF Recover, Set
<1> HIDE DEF again
<1> QED BY <1>1, <1>3, <1>4, <1>5, <1>6, Local

-----------------------------------------------------------------------------
(* The manager.                                                            *)

LEMMA EvtSplitKeeps == ASSUME WakeInv, NEW t \in Threads, EvtSplit(t) PROVE WakeInv'
<1>1. th[t].pc # "wake" /\ woken' = woken
  BY DEF EvtSplit, Entered
<1>2. PICK ret : Split(th[t].par, th[t].kind, Home[t], 0, ret) /\ Return(t, ret)
  BY DEF EvtSplit
<1>3. ThOK(th[t])
  BY DEF WakeInv, Calling
<1> DEFINE d == [th[t] EXCEPT !.pc = "ret", !.ret = ret]
<1>4. ThOK(d) /\ d.pc = "ret"
  BY Zenon, <1>3, RetOK
<1>5. th' = [th EXCEPT ![t] = d]
  BY <1>2 DEF Return, Set
<1> HIDE DEF d
<1>6. DataOK' /\ (\A i \in Ids : map[i] # None => map'[i] = map[i]) /\ bthd' = bthd
  BY <1>1, <1>2, SplitKeeps DEF WakeInv
<1> QED BY Zenon, <1>1, <1>4, <1>5, <1>6, Local

\* __evt_wait registers the caller at an event nobody is registered at.
LEMMA EvtWaitKeeps == ASSUME WakeInv, NEW t \in Threads, EvtWait(t) PROVE WakeInv'
<1> DEFINE i == th[t].id
           a == map[i]
           d == [th[t] EXCEPT !.pc = "block"]
<1>1. th[t].pc \in {"invoke", "again"} /\ th[t].op = "wait" /\ woken' = woken
  BY Zenon DEF EvtWait, Entered, WakeInv, Calling, ThOK
<1>2. ThOK(th[t]) /\ i \in Ids
  BY <1>1 DEF WakeInv, Calling, ThOK
<1>3. CASE UNCHANGED server /\ \E ret : Return(t, ret)
  BY <1>1, <1>3, ReturnKeeps DEF server
<1>4. CASE UNCHANGED server /\ Goto(t, "spin")
  BY <1>1, <1>4, GotoKeeps DEF server
<1>5. CASE UNCHANGED <<map, used, bthd>> /\ \E ret : Return(t, ret)
  BY <1>1, <1>5, ReturnKeeps
<1>6. CASE /\ a # None /\ bthd[a] = None
           /\ bthd' = [bthd EXCEPT ![a] = t]
           /\ Goto(t, "block")
           /\ UNCHANGED <<map, node, used>>
  <2>1. a \in Addr
    BY <1>2, <1>6 DEF WakeInv, DataOK
  <2>2. ThOK(d) /\ d.pc = "block" /\ d.id = i
    BY <1>1, <1>2 DEF ThOK, Fields
  <2>3. th' = [th EXCEPT ![t] = d]
    BY <1>6 DEF Goto, Set
  <2> HIDE DEF d
  <2>4. DOMAIN th' = Threads /\ th'[t] = d /\ \A u \in Threads \ {t} : th'[u] = th[u]
    BY <2>3 DEF WakeInv, Calling
  <2>5. Calling'
    BY <2>2, <2>4 DEF WakeInv, Calling
  <2>6. DataOK'
    BY <1>1, <1>6, <2>1 DEF WakeInv, DataOK
  <2>7. Named(t)'
    <3>1. th'[t].id = i /\ map'[i] = a /\ a # None
      BY <1>6, <2>2, <2>4
    <3>2. bthd'[a] = t
      BY <1>6, <2>1 DEF WakeInv, DataOK
    <3> QED BY <3>1, <3>2 DEF Named
  <2>8. ASSUME NEW u \in Threads \ {t}, th[u].pc \in {"block", "sleep"}
        PROVE  (Named(u) => Named(u)') /\ (BeingWoken(u) => BeingWoken(u)')
    <3>1. th[u].id \in Ids /\ th'[u] = th[u]
      BY <2>4, <2>8 DEF WakeInv, Calling, ThOK
    <3>2. ASSUME Named(u) PROVE Named(u)'
      <4>1. map[th[u].id] # None /\ bthd[map[th[u].id]] = u
        BY <3>2 DEF Named
      <4>2. u # None
        BY EvtAssumption
      <4>3. map[th[u].id] # a
        BY <1>6, <4>1, <4>2
      <4>4. bthd'[map[th[u].id]] = u
        BY <1>6, <2>1, <3>1, <4>1, <4>3 DEF WakeInv, DataOK
      <4> QED BY <1>6, <3>1, <4>1, <4>4 DEF Named
    <3>3. ASSUME NEW v \in Threads, th[v].pc = "wake", th[v].tid = u
          PROVE  th'[v].pc = "wake" /\ th'[v].tid = u
      BY <1>1, <2>4, <3>3
    <3> QED BY <3>2, <3>3 DEF BeingWoken
  <2>9. Covered'
    BY <1>1, <2>2, <2>4, <2>7, <2>8 DEF WakeInv, Covered
  <2> QED BY <2>5, <2>6, <2>9 DEF WakeInv
<1> QED BY Zenon, <1>3, <1>4, <1>5, <1>6 DEF EvtWait

\* sched_block returns at once if a wakeup came first.
LEMMA BlockKeeps == ASSUME WakeInv, NEW t \in Threads, Block(t) PROVE WakeInv'
<1> DEFINE pc == IF woken[t] THEN "again" ELSE "sleep"
           d == [th[t] EXCEPT !.pc = pc]
<1>1. th[t].pc = "block" /\ UNCHANGED <<map, used, bthd>>
  BY DEF Block, server
<1>2. ThOK(d) /\ d.pc = pc /\ d.id = th[t].id
  <2>1. ThOK(th[t]) /\ th[t].op = "wait"
    BY <1>1 DEF WakeInv, Calling, ThOK
  <2> HIDE DEF pc
  <2> QED BY <2>1 DEF ThOK, Fields
<1>3. th' = [th EXCEPT ![t] = d] /\ woken' = [woken EXCEPT ![t] = FALSE]
  BY DEF Block, Goto, Set
<1> HIDE DEF d
<1>4. DOMAIN th' = Threads /\ th'[t] = d /\ \A u \in Threads \ {t} : th'[u] = th[u]
  BY <1>3 DEF WakeInv, Calling
<1>5. Calling'
  BY <1>2, <1>4 DEF WakeInv, Calling
<1>6. DataOK'
  BY <1>1, <1>3 DEF WakeInv, DataOK
<1>7. \A u \in Threads \ {t} : woken'[u] = woken[u]
  BY <1>3 DEF WakeInv, DataOK
<1>8. ASSUME NEW u \in Threads
      PROVE  (Named(u) => Named(u)') /\ (BeingWoken(u) => BeingWoken(u)')
  <2>1. th'[u].id = th[u].id
    BY <1>2, <1>4
  <2>2. ASSUME NEW v \in Threads, th[v].pc = "wake", th[v].tid = u
        PROVE  th'[v].pc = "wake" /\ th'[v].tid = u
    BY <1>1, <1>4, <2>2
  <2> QED BY <1>1, <2>1, <2>2 DEF Named, BeingWoken
<1>9. th'[t].pc = "sleep" => Named(t)' \/ BeingWoken(t)'
  BY <1>1, <1>2, <1>4, <1>8 DEF WakeInv, Covered
<1>10. th'[t].pc # "block"
  BY <1>2, <1>4
<1>11. Covered'
  BY <1>4, <1>7, <1>8, <1>9, <1>10 DEF WakeInv, Covered
<1> QED BY <1>5, <1>6, <1>11 DEF WakeInv

\* __evt_trigger takes a thread off its event only to wake it.
LEMMA EvtTriggerKeeps ==
  ASSUME WakeInv, NEW t \in Threads, EvtTrigger(t) PROVE WakeInv'
<1> DEFINE g == Target(map[th[t].id])
           d == [th[t] EXCEPT !.tid = bthd[g], !.ret = 0,
                   !.pc = IF bthd[g] = None THEN "ret" ELSE "wake"]
<1>1. th[t].pc = "invoke" /\ woken' = woken
  BY DEF EvtTrigger, Entered
<1>2. CASE UNCHANGED server /\ Return(t, EINVAL)
  BY <1>1, <1>2, ReturnKeeps DEF server
<1>3. CASE UNCHANGED server /\ Goto(t, "spin")
  BY <1>1, <1>3, GotoKeeps DEF server
<1>4. CASE /\ bthd' = [bthd EXCEPT ![g] = None]
           /\ Set(t, d)
           /\ UNCHANGED <<map, used>>
  <2> DEFINE w == bthd[g]
  <2>1. /\ ThOK(d) /\ d.tid = w
        /\ d.pc = IF w = None THEN "ret" ELSE "wake"
    <3>1. ThOK(th[t])
      BY DEF WakeInv, Calling
    <3> HIDE DEF w, g
    <3> QED BY Zenon, <3>1 DEF ThOK, Fields, w
  <2>2. th' = [th EXCEPT ![t] = d]
    BY <1>4 DEF Set
  <2> HIDE DEF d, g
  <2>3. DOMAIN th' = Threads /\ th'[t] = d /\ \A u \in Threads \ {t} : th'[u] = th[u]
    BY <2>2 DEF WakeInv, Calling
  <2>4. Calling'
    BY <2>1, <2>3 DEF WakeInv, Calling
  <2>5. DataOK'
    BY Zenon, <1>1, <1>4 DEF WakeInv, DataOK
  <2>6. d.pc \notin {"block", "sleep"}
    BY <2>1
  <2>7. ASSUME NEW u \in Threads \ {t}, th[u].pc \in {"block", "sleep"}
        PROVE  /\ BeingWoken(u) => BeingWoken(u)'
               /\ Named(u) => Named(u)' \/ BeingWoken(u)'
    <3>1. th[u].id \in Ids /\ th'[u] = th[u]
      BY <2>3, <2>7 DEF WakeInv, Calling, ThOK
    <3>2. ASSUME NEW v \in Threads, th[v].pc = "wake", th[v].tid = u
          PROVE  th'[v].pc = "wake" /\ th'[v].tid = u
      BY <1>1, <2>3, <3>2
    <3>3. ASSUME Named(u), map[th[u].id] # g PROVE Named(u)'
      <4>1. map[th[u].id] \in Addr /\ bthd[map[th[u].id]] = u
        BY <3>1, <3>3 DEF Named, WakeInv, DataOK
      <4>2. bthd'[map[th[u].id]] = u
        BY <1>4, <3>3, <4>1 DEF WakeInv, DataOK
      <4> QED BY <1>4, <3>1, <3>3, <4>2 DEF Named
    <3>4. ASSUME Named(u), map[th[u].id] = g PROVE BeingWoken(u)'
      <4>1. w = u /\ u # None
        BY <3>4, EvtAssumption DEF Named
      <4>2. th'[t].pc = "wake" /\ th'[t].tid = u
        BY <2>1, <2>3, <4>1
      <4> QED BY <4>2 DEF BeingWoken
    <3> QED BY <3>2, <3>3, <3>4 DEF BeingWoken
  <2>8. Covered'
    BY <1>1, <2>3, <2>6, <2>7 DEF WakeInv, Covered
  <2> QED BY <2>4, <2>5, <2>8 DEF WakeInv
<1> QED BY <1>2, <1>3, <1>4 DEF EvtTrigger

\* sched_wakeup ends the sleep or is kept for the block that is coming.
LEMMA WakeKeeps == ASSUME WakeInv, NEW t \in Threads, Wake(t) PROVE WakeInv'
<1> DEFINE w == th[t].tid
           back == [th[t] EXCEPT !.pc = "ret", !.tid = None]
           up == [th[w] EXCEPT !.pc = "again"]
<1>1. th[t].pc = "wake" /\ UNCHANGED <<map, used, bthd>>
  BY DEF Wake, server
<1>2. ThOK(back) /\ back.pc = "ret"
  <2>1. ThOK(th[t])
    BY DEF WakeInv, Calling
  <2> QED BY Zenon, <2>1 DEF ThOK, Fields
<1>3. ASSUME NEW u \in Threads \ {t}, u # w, th'[u] = th[u],
             \A v \in Threads \ {t, w} : th'[v] = th[v],
             w \in Threads \ {t} => th'[w] = th[w] \/ th[w].pc = "sleep"
      PROVE  (Named(u) => Named(u)') /\ (BeingWoken(u) => BeingWoken(u)')
  <2>1. ASSUME NEW v \in Threads, th[v].pc = "wake", th[v].tid = u
        PROVE  th'[v].pc = "wake" /\ th'[v].tid = u
    BY <1>3, <2>1
  <2> QED BY <1>1, <1>3, <2>1 DEF Named, BeingWoken
<1>4. CASE /\ w \in Threads /\ th[w].pc = "sleep"
           /\ th' = [th EXCEPT ![t] = back, ![w].pc = "again"] /\ woken' = woken
  <2>1. w # t /\ ThOK(th[w]) /\ th[w].op = "wait"
    BY <1>1, <1>4 DEF WakeInv, Calling, ThOK
  <2>2. ThOK(up) /\ up.pc = "again"
    BY Zenon, <2>1 DEF ThOK, Fields
  <2>3. /\ DOMAIN th' = Threads /\ th'[t] = back /\ th'[w] = up
        /\ \A u \in Threads \ {t, w} : th'[u] = th[u]
    BY <1>4, <2>1 DEF WakeInv, Calling
  <2> HIDE DEF back, up
  <2>4. Calling'
    BY <1>2, <2>2, <2>3 DEF WakeInv, Calling
  <2>5. DataOK'
    BY <1>1, <1>4 DEF WakeInv, DataOK
  <2>6. Covered'
    BY <1>2, <1>3, <1>4, <2>2, <2>3 DEF WakeInv, Covered
  <2> QED BY <2>4, <2>5, <2>6 DEF WakeInv
<1>5. CASE /\ w \in Threads => th[w].pc # "sleep"
           /\ DOMAIN th' = Threads /\ th'[t] = back
           /\ \A u \in Threads \ {t} : th'[u] = th[u]
           /\ woken' \in [Threads -> BOOLEAN]
           /\ \A u \in Threads : (woken[u] => woken'[u]) /\ (u = w => woken'[u])
  <2> HIDE DEF back
  <2>1. Calling'
    BY <1>2, <1>5 DEF WakeInv, Calling
  <2>2. DataOK'
    BY <1>1, <1>5 DEF WakeInv, DataOK
  <2>3. ASSUME NEW u \in Threads, th'[u].pc \in {"block", "sleep"}
        PROVE  /\ th'[u].pc = "sleep" => Named(u)' \/ BeingWoken(u)'
               /\ th'[u].pc = "block" => Named(u)' \/ BeingWoken(u)' \/ woken'[u]
    <3>1. u # t /\ th'[u] = th[u]
      BY <1>2, <1>5, <2>3
    <3>2. CASE u = w
      BY <1>5, <3>1, <3>2
    <3>3. CASE u # w
      <4>1. (Named(u) => Named(u)') /\ (BeingWoken(u) => BeingWoken(u)')
        BY <1>3, <1>5, <3>1, <3>3
      <4> QED BY <1>5, <3>1, <4>1 DEF WakeInv, Covered
    <3> QED BY <3>2, <3>3
  <2>4. Covered'
    BY <2>3 DEF Covered
  <2> QED BY <2>1, <2>2, <2>4 DEF WakeInv
<1>6. CASE th[w].pc # "sleep"
  <2>1. Set(t, back) /\ woken' = [woken EXCEPT ![w] = TRUE]
    BY <1>6 DEF Wake
  <2> HIDE DEF back
  <2>2. /\ DOMAIN th' = Threads /\ th'[t] = back
        /\ \A u \in Threads \ {t} : th'[u] = th[u]
    BY <2>1 DEF Set, WakeInv, Calling
  <2>3. /\ woken' \in [Threads -> BOOLEAN]
        /\ \A u \in Threads : (woken[u] => woken'[u]) /\ (u = w => woken'[u])
    BY Zenon, <2>1 DEF WakeInv, DataOK
  <2> QED BY <1>5, <1>6, <2>2, <2>3
<1>7. CASE w \notin Threads /\ th[w].pc = "sleep"
  <2>1. th' = [th EXCEPT ![t] = back, ![w].pc = "again"] /\ woken' = woken
    BY <1>7 DEF Wake
  <2> HIDE DEF back
  <2>2. /\ DOMAIN th' = Threads /\ th'[t] = back
        /\ \A u \in Threads \ {t} : th'[u] = th[u]
    BY <1>7, <2>1 DEF WakeInv, Calling
  <2>3. /\ woken' \in [Threads -> BOOLEAN]
        /\ \A u \in Threads : (woken[u] => woken'[u]) /\ (u = w => woken'[u])
    BY <1>7, <2>1 DEF WakeInv, DataOK
  <2> QED BY <1>5, <1>7, <2>2, <2>3
<1> QED BY <1>4, <1>6, <1>7 DEF Wake

\* __evt_free takes only events out of evt_map that no thread is blocked on.
LEMMA EvtFreeKeeps == ASSUME WakeInv, NEW t \in Threads, EvtFree(t) PROVE WakeInv'
<1> DEFINE i == th[t].id
           a == map[i]
           d == [th[t] EXCEPT !.pc = "nsfree"]
<1>1. th[t].pc = "invoke" /\ th[t].op = "free" /\ woken' = woken
  BY DEF EvtFree, Entered
<1>2. ThOK(th[t]) /\ i \in Ids
  BY <1>1 DEF WakeInv, Calling, ThOK
<1>3. CASE UNCHANGED server /\ Return(t, 0)
  BY <1>1, <1>3, ReturnKeeps DEF server
<1>4. CASE UNCHANGED server /\ Goto(t, "spin")
  BY <1>1, <1>4, GotoKeeps DEF server
<1>5. CASE /\ a # None /\ bthd[a] = None
           /\ map' = [map EXCEPT ![i] = None]
           /\ used' = used \ {a}
           /\ UNCHANGED bthd
           /\ Goto(t, "nsfree")
  <2>1. ThOK(d) /\ d.pc = "nsfree"
    BY <1>2, PcOK
  <2>2. th' = [th EXCEPT ![t] = d]
    BY <1>5 DEF Goto, Set
  <2> HIDE DEF d
  <2>3. DOMAIN th' = Threads /\ th'[t] = d /\ \A u \in Threads \ {t} : th'[u] = th[u]
    BY <2>2 DEF WakeInv, Calling
  <2>4. Calling'
    BY <2>1, <2>3 DEF WakeInv, Calling
  <2>5. \A j \in Ids : map'[j] = IF j = i THEN None ELSE map[j]
    BY Zenon, <1>2, <1>5 DEF WakeInv, DataOK
  <2>6. DataOK'
    <3>1. map' \in [Ids -> Addr \cup {None}]
      BY Zenon, <1>5 DEF WakeInv, DataOK
    <3>2. \A j \in Ids : map'[j] # None => map'[j] \in used'
      BY <1>2, <1>5, <2>5 DEF WakeInv, DataOK
    <3>3. \A j, k \in Ids : map'[j] # None /\ map'[j] = map'[k] => j = k
      BY <1>2, <2>5 DEF WakeInv, DataOK
    <3> QED BY <1>1, <1>5, <3>1, <3>2, <3>3 DEF WakeInv, DataOK
  <2>7. ASSUME NEW u \in Threads \ {t}, th[u].pc \in {"block", "sleep"}
        PROVE  (Named(u) => Named(u)') /\ (BeingWoken(u) => BeingWoken(u)')
    <3>1. th[u].id \in Ids /\ th'[u] = th[u] /\ u # None
      BY <2>3, <2>7, EvtAssumption DEF WakeInv, Calling, ThOK
    <3>2. ASSUME Named(u) PROVE Named(u)'
      <4>1. th[u].id # i
        BY <1>5, <3>1, <3>2 DEF Named
      <4> QED BY <1>5, <2>5, <3>1, <3>2, <4>1 DEF Named
    <3>3. ASSUME NEW v \in Threads, th[v].pc = "wake", th[v].tid = u
          PROVE  th'[v].pc = "wake" /\ th'[v].tid = u
      BY <1>1, <2>3, <3>3
    <3> QED BY <3>2, <3>3 DEF BeingWoken
  <2>8. Covered'
    BY <1>1, <2>1, <2>3, <2>7 DEF WakeInv, Covered
  <2> QED BY <2>4, <2>6, <2>8 DEF WakeInv
<1> QED BY Zenon, <1>3, <1>4, <1>5 DEF EvtFree

LEMMA NsFreeKeeps == ASSUME WakeInv, NEW t \in Threads, NsFree(t) PROVE WakeInv'
<1>1. th[t].pc # "wake" /\ UNCHANGED <<map, used, bthd, woken>> /\ Return(t, 0)
  BY DEF NsFree, server
<1> QED BY <1>1, ReturnKeeps

\* The reboot empties evt_map and leaves no thread asleep.
LEMMA FailKeeps == ASSUME WakeInv, NEW t \in Threads, Fail(t) PROVE WakeInv'
<1> DEFINE out(u) == [th[u] EXCEPT !.pc = "fault", !.tid = None]
<1>1. DataOK'
  BY Zenon, EvtAssumption DEF Fail, WakeInv, DataOK
<1>2. ASSUME NEW u \in Threads
      PROVE  ThOK(out(u)) /\ out(u).pc = "fault"
  <2>1. ThOK(th[u])
    BY DEF WakeInv, Calling
  <2> QED BY Zenon, <2>1 DEF ThOK, Fields
<1>3. DOMAIN th' = Threads
  BY Zenon DEF Fail
<1>4. ASSUME NEW u \in Threads
      PROVE  ThOK(th'[u]) /\ th'[u].pc \notin {"block", "sleep"}
  <2>1. ThOK(th[u])
    BY DEF WakeInv, Calling
  <2>2. CASE u = t /\ th[u].pc = "recover"
    <3>1. th'[u] = Recovered(u)
      BY Zenon, <2>2 DEF Fail
    <3> QED BY <2>1, <2>2, <3>1, RecoveredOK
  <2>3. CASE ~(u = t /\ th[u].pc = "recover") /\ (u = t \/ th[u].pc \in InServer)
    <3>1. th'[u] = out(u)
      BY Zenon, <2>3 DEF Fail
    <3> QED BY Zenon, <1>2, <3>1
  <2>4. CASE u # t /\ th[u].pc \notin InServer
    <3>1. th'[u] = th[u]
      BY Zenon, <2>4 DEF Fail
    <3> QED BY <2>1, <2>4, <3>1 DEF InServer
  <2> QED BY <2>2, <2>3, <2>4
<1> QED BY <1>1, <1>3, <1>4 DEF WakeInv, Calling, Covered

LEMMA Inductive == WakeInv /\ [Next]_vars => WakeInv'
<1>1. CASE UNCHANGED vars
  BY <1>1 DEF vars, WakeInv, DataOK, Calling, Covered, Named, BeingWoken
<1>2. ASSUME WakeInv, Next PROVE WakeInv'
  <2>1. PICK t \in Threads : Call(t) \/ Step(t) \/ Fail(t)
    BY <1>2 DEF Next
  <2> QED BY <1>2, <2>1, CallKeeps, StaleKeeps, FaultUpdateKeeps, EvtSplitKeeps,
             EvtWaitKeeps, BlockKeeps, EvtTriggerKeeps, WakeKeeps, EvtFreeKeeps,
             NsFreeKeeps, TrackKeeps, UpdateKeeps, RecoverKeeps, FailKeeps
          DEF Step
<1> QED BY <1>1, <1>2

\* No thread that sleeps in evt_wait is forgotten: its event is in evt_map and
\* names it, or a thread is about to call sched_wakeup for it - for any
\* threads, components, events, failures and frees.
THEOREM NoSleeperForgotten == Spec => []SleeperCanBeWoken
<1>1. WakeInv => SleeperCanBeWoken
  BY DEF WakeInv, Covered, Named, BeingWoken, SleeperCanBeWoken
<1>2. Spec => []WakeInv
  BY Initially, Inductive, PTL DEF Spec
<1> QED BY <1>1, <1>2, PTL

-----------------------------------------------------------------------------
(* The name server keeps what a stub has a descriptor for, where every     *)
(* client component has one thread.                                        *)
(*                                                                         *)
(* Then only that thread frees the component's events, and it has the      *)
(* descriptor until after ns_free: so an id is under its component's name  *)
(* until ns_free, and nobody else's ns_free takes it away.                 *)

Kinds == {"group", "normal"}

Recs == [spd : Spds, d : Ids, id : Ids, par : Ids \cup {0}, kind : Kinds, up : BOOLEAN]

Descs == [par : Ids \cup {0}, kind : Kinds, fcnt : Nat]

StubOK ==
  /\ desc \in [Spds -> [Ids -> Descs \cup {None}]]
  /\ gcnt \in [Spds -> Nat]

\* The ids in the name server's free list are free, and are in it once.
NsOK ==
  /\ ns \in [creator : [Ids -> Spds \cup {None}], free : Seq(Ids)]
  /\ \A k \in DOMAIN ns.free : ns.creator[ns.free[k]] = None
  /\ \A j, k \in DOMAIN ns.free : ns.free[j] = ns.free[k] => j = k

\* The recoveries a stub is in the middle of.
RecOK(c) ==
  /\ c.rec \in Seq(Recs)
  /\ c.pc = "recover" => c.rec # <<>>
  /\ c.upd \in Ids \cup {0} /\ c.par \in Ids \cup {0} /\ c.kind \in Kinds
  /\ c.pc = "wake" => c.op = "trigger"
  /\ c.pc = "nsfree" => c.op = "free"

\* An id that thread t is freeing, or has just been given, is its component's.
OwnOK(t, c, creator) ==
  /\ c.op = "free" /\ c.pc # "ret" => creator[c.id] = Home[t]
  /\ c.op = "split" /\ c.pc = "ret" /\ c.ret \in Ids => creator[c.ret] = Home[t]

\* The thread of component s is about to drop the descriptor of i.
Drops(c, i) == c.op = "free" /\ c.pc = "ret" /\ c.id = i

Dropping(s, i) == \E t \in Threads : Home[t] = s /\ Drops(th[t], i)

Registered ==
  \A s \in Spds : \A i \in Ids :
    desc[s][i] # None => ns.creator[i] = s \/ Dropping(s, i)

Owned == \A t \in Threads : RecOK(th[t]) /\ OwnOK(t, th[t], ns.creator)

RegInv == StubOK /\ NsOK /\ Owned /\ Registered

\* The assumption on the clients: no id is freed by one thread of a component
\* while another one uses it.
OneThreadEach == \A t, u \in Threads : Home[t] = Home[u] => t = u

LEMMA IdleReg == RecOK(Idle) /\ Idle.op = "none"
  BY DEF RecOK, Idle, Kinds

LEMMA InitReg == Init => RegInv
<1> SUFFICES ASSUME Init PROVE RegInv
  OBVIOUS
<1>1. StubOK
  BY DEF Init, StubOK
<1>2. NsOK
  <2>1. ns.creator = [i \in Ids |-> None] /\ ns.free = [i \in Ids |-> i]
    BY DEF Init
  <2>2. ns = [creator |-> ns.creator, free |-> ns.free]
    BY DEF Init
  <2>3. ns.free \in Seq(Ids)
    BY <2>1, EvtAssumption DEF Ids
  <2> QED BY <2>1, <2>2, <2>3 DEF NsOK
<1>3. \A t \in Threads : th[t] = Idle
  BY DEF Init
<1>4. Owned
  BY <1>3, IdleReg DEF Owned, OwnOK
<1>5. Registered
  BY DEF Init, Registered
<1> QED BY <1>1, <1>2, <1>4, <1>5 DEF RegInv

\* A step that leaves the name server alone and adds no descriptor.
LEMMA RegAll ==
  ASSUME RegInv, StubOK', ns' = ns,
         \A s \in Spds : \A i \in Ids : desc[s][i] = None => desc'[s][i] = None,
         \A u \in Threads : /\ RecOK(th'[u]) /\ OwnOK(u, th'[u], ns.creator)
                            /\ \A i \in Ids : Drops(th[u], i) => Drops(th'[u], i)
  PROVE  RegInv'
<1>1. NsOK'
  BY DEF RegInv, NsOK
<1>2. Owned'
  BY DEF Owned
<1>3. ASSUME NEW s \in Spds, NEW i \in Ids, Dropping(s, i) PROVE Dropping(s, i)'
  BY <1>3 DEF Dropping
<1>4. Registered'
  BY Zenon, <1>3 DEF RegInv, Registered
<1> QED BY <1>1, <1>2, <1>4 DEF RegInv

\* The same where only one thread moves.
LEMMA RegLocal ==
  ASSUME WakeInv, RegInv, StubOK', ns' = ns,
         \A s \in Spds : \A i \in Ids : desc[s][i] = None => desc'[s][i] = None,
         NEW t \in Threads, NEW c, Set(t, c), RecOK(c), OwnOK(t, c, ns.creator),
         th[t].op # "free" \/ th[t].pc # "ret"
  PROVE  RegInv'
<1>1. th'[t] = c /\ \A u \in Threads \ {t} : th'[u] = th[u]
  BY DEF Set, WakeInv, Calling
<1>2. ASSUME NEW u \in Threads
      PROVE  /\ RecOK(th'[u]) /\ OwnOK(u, th'[u], ns.creator)
             /\ \A i \in Ids : Drops(th[u], i) => Drops(th'[u], i)
  <2>1. CASE u = t
    BY <1>1, <2>1 DEF Drops
  <2>2. CASE u # t
    BY <1>1, <2>2 DEF RegInv, Owned
  <2> QED BY <2>1, <2>2
<1> QED BY <1>2, RegAll

LEMMA RegQuiet ==
  ASSUME WakeInv, RegInv, UNCHANGED <<ns, desc, gcnt>>,
         NEW t \in Threads, NEW c, Set(t, c), RecOK(c), OwnOK(t, c, ns.creator),
         th[t].op # "free" \/ th[t].pc # "ret"
  PROVE  RegInv'
<1>1. StubOK'
  BY DEF RegInv, StubOK
<1> QED BY <1>1, RegLocal

\* A thread goes on to another part of its call.
LEMMA GotoReg ==
  ASSUME WakeInv, RegInv, UNCHANGED <<ns, desc, gcnt>>,
         NEW t \in Threads, NEW p, Goto(t, p), p \notin {"recover", "wake", "ret"},
         p = "nsfree" => th[t].op = "free",
         th[t].op # "free" \/ th[t].pc # "ret"
  PROVE  RegInv'
<1> DEFINE c == [th[t] EXCEPT !.pc = p]
<1>1. ThOK(th[t]) /\ RecOK(th[t]) /\ OwnOK(t, th[t], ns.creator)
  BY DEF WakeInv, Calling, RegInv, Owned
<1>2. /\ c.pc = p /\ c.op = th[t].op /\ c.id = th[t].id /\ c.rec = th[t].rec
      /\ c.upd = th[t].upd /\ c.par = th[t].par /\ c.kind = th[t].kind
  BY <1>1 DEF ThOK, Fields
<1>3. Set(t, c)
  BY Zenon DEF Goto
<1> HIDE DEF c
<1>4. RecOK(c) /\ OwnOK(t, c, ns.creator)
  BY Zenon, <1>1, <1>2 DEF RecOK, OwnOK
<1> QED BY <1>3, <1>4, RegQuiet

\* A call other than evt_split comes back from the manager.
LEMMA ReturnReg ==
  ASSUME WakeInv, RegInv, UNCHANGED <<ns, desc, gcnt>>,
         NEW t \in Threads, NEW ret, Return(t, ret), th[t].op # "split",
         th[t].pc # "ret"
  PROVE  RegInv'
<1> DEFINE c == [th[t] EXCEPT !.pc = "ret", !.ret = ret]
<1>1. ThOK(th[t]) /\ RecOK(th[t])
  BY DEF WakeInv, Calling, RegInv, Owned
<1>2. /\ c.pc = "ret" /\ c.op = th[t].op /\ c.rec = th[t].rec
      /\ c.upd = th[t].upd /\ c.par = th[t].par /\ c.kind = th[t].kind
  BY <1>1 DEF ThOK, Fields
<1>3. Set(t, c)
  BY Zenon DEF Return
<1> HIDE DEF c
<1>4. RecOK(c) /\ OwnOK(t, c, ns.creator)
  BY <1>1, <1>2 DEF RecOK, OwnOK
<1> QED BY Zenon, <1>3, <1>4, RegQuiet

\* The component's thread frees an event the name server still has under the
\* component's name.
LEMMA CallReg ==
  ASSUME OneThreadEach, WakeInv, RegInv, NEW t \in Threads, Call(t) PROVE RegInv'
<1>1. th[t].pc = "run" /\ UNCHANGED <<ns, desc, gcnt>>
  BY Zenon DEF Call, stub
<1>2. CASE \E par \in {0} \cup Held(Home[t]), kind \in {"group", "normal"} :
             Set(t, [Idle EXCEPT !.pc = "update", !.op = "split", !.par = par,
                                 !.upd = par, !.kind = kind])
  <2>1. PICK par \in {0} \cup Ids, kind \in Kinds :
             Set(t, [Idle EXCEPT !.pc = "update", !.op = "split", !.par = par,
                                 !.upd = par, !.kind = kind])
    BY Zenon, <1>2 DEF Held, Kinds
  <2> DEFINE c == [Idle EXCEPT !.pc = "update", !.op = "split", !.par = par,
                               !.upd = par, !.kind = kind]
  <2>2. /\ c.pc = "update" /\ c.op = "split" /\ c.rec = <<>> /\ c.upd = par
        /\ c.par = par /\ c.kind = kind
    BY DEF Idle
  <2>3. Set(t, c)
    BY <2>1
  <2> HIDE DEF c
  <2>4. RecOK(c) /\ OwnOK(t, c, ns.creator)
    BY <2>2 DEF RecOK, OwnOK
  <2> QED BY <1>1, <2>3, <2>4, RegQuiet
<1>3. CASE \E op \in {"wait", "trigger", "free"}, i \in Ids :
             /\ Set(t, [Idle EXCEPT !.pc = "invoke", !.op = op, !.id = i])
             /\ op = "free" => i \in Held(Home[t])
  <2>1. PICK op \in {"wait", "trigger", "free"}, i \in Ids :
             /\ Set(t, [Idle EXCEPT !.pc = "invoke", !.op = op, !.id = i])
             /\ op = "free" => i \in Held(Home[t])
    BY Zenon, <1>3
  <2> DEFINE c == [Idle EXCEPT !.pc = "invoke", !.op = op, !.id = i]
  <2>2. /\ c.pc = "invoke" /\ c.op = op /\ c.id = i /\ c.rec = <<>> /\ c.upd = 0
        /\ c.par = 0 /\ c.kind = "normal"
    BY DEF Idle
  <2>3. Set(t, c)
    BY <2>1
  <2> HIDE DEF c
  <2>4. RecOK(c)
    BY <2>2 DEF RecOK, Kinds
  <2>5. op = "free" => ns.creator[i] = Home[t]
    <3> SUFFICES ASSUME op = "free" PROVE ns.creator[i] = Home[t]
      OBVIOUS
    <3>1. Home[t] \in Spds /\ desc[Home[t]][i] # None
      BY <2>1, EvtAssumption DEF Held
    <3>2. ~Dropping(Home[t], i)
      BY <1>1 DEF Dropping, Drops, OneThreadEach
    <3> QED BY <3>1, <3>2 DEF RegInv, Registered
  <2>6. OwnOK(t, c, ns.creator)
    BY <2>1, <2>2, <2>5 DEF OwnOK
  <2> QED BY <1>1, <2>3, <2>4, <2>6, RegQuiet
<1>4. ASSUME \E op \in {"wait", "free"} \cap Ops[Home[t]], i \in Held(Home[t]) :
                Set(t, [Idle EXCEPT !.pc = "invoke", !.op = op, !.id = i])
      PROVE  RegInv'
  BY Zenon, <1>3, <1>4 DEF Held
<1>5. ASSUME \E s \in Spds : \E op \in {"trigger"} \cap Ops[Home[t]], i \in Held(s) :
                Set(t, [Idle EXCEPT !.pc = "invoke", !.op = op, !.id = i])
      PROVE  RegInv'
  <2>1. "trigger" # "free"
    OBVIOUS
  <2> QED BY Zenon, <1>3, <1>5, <2>1 DEF Held
<1> QED BY Zenon, <1>2, <1>4, <1>5 DEF Call

LEMMA StaleReg == ASSUME WakeInv, RegInv, NEW t \in Threads, Stale(t) PROVE RegInv'
<1>1. th[t].pc = "invoke" /\ UNCHANGED <<ns, desc, gcnt>> /\ Goto(t, "fault")
  BY DEF Stale, stub
<1> QED BY <1>1, GotoReg

LEMMA FaultUpdateReg ==
  ASSUME WakeInv, RegInv, NEW t \in Threads, FaultUpdate(t) PROVE RegInv'
<1> DEFINE p == Begin(th[t].op)
           c == [th[t] EXCEPT !.pc = p, !.upd = th[t].par]
<1>1. th[t].pc = "fault" /\ ns' = ns /\ desc' = desc /\ Set(t, c)
  BY DEF FaultUpdate
<1>2. StubOK'
  <2>1. Home[t] \in Spds
    BY EvtAssumption
  <2>2. gcnt' = [gcnt EXCEPT ![Home[t]] = @ + 1]
    BY DEF FaultUpdate
  <2> QED BY <1>1, <2>1, <2>2 DEF RegInv, StubOK
<1>3. ThOK(th[t]) /\ RecOK(th[t]) /\ OwnOK(t, th[t], ns.creator)
  BY DEF WakeInv, Calling, RegInv, Owned
<1>4. p \in {"update", "invoke"}
  BY DEF Begin
<1> HIDE DEF p
<1>5. /\ c.pc = p /\ c.op = th[t].op /\ c.id = th[t].id /\ c.rec = th[t].rec
      /\ c.upd = th[t].par /\ c.par = th[t].par /\ c.kind = th[t].kind
  BY Zenon, <1>3 DEF ThOK, Fields
<1> HIDE DEF c
<1>6. RecOK(c) /\ OwnOK(t, c, ns.creator)
  BY <1>1, <1>3, <1>4, <1>5 DEF RecOK, OwnOK
<1> QED BY <1>1, <1>2, <1>6, RegLocal

\* The call after one that is over: none, or the trigger the wait was for.
LEMMA OverReg ==
  ASSUME NEW c, ThOK(c), RecOK(c)
  PROVE  RecOK(Over(c)) /\ Over(c).op \in {"none", "trigger"}
<1>1. CASE c.inner
  <2> DEFINE d == [c EXCEPT !.op = "trigger", !.pc = "invoke", !.ret = 0,
                            !.inner = FALSE]
  <2>1. /\ d.pc = "invoke" /\ d.op = "trigger" /\ d.rec = c.rec /\ d.upd = c.upd
        /\ d.par = c.par /\ d.kind = c.kind
    BY DEF ThOK, Fields
  <2>2. Over(c) = d
    BY <1>1 DEF Over
  <2> HIDE DEF d
  <2> QED BY <2>1, <2>2 DEF RecOK
<1>2. CASE ~c.inner
  BY <1>2, IdleReg DEF Over
<1> QED BY <1>1, <1>2

LEMMA TrackCallReg ==
  ASSUME WakeInv, RegInv, NEW t \in Threads, TrackCall(t) PROVE RegInv'
<1> DEFINE c == [th[t] EXCEPT !.pc = "update", !.upd = th[t].id, !.ret = 0]
<1>1. th[t].op \in {"wait", "trigger"} /\ UNCHANGED <<ns, desc, gcnt>>
  BY DEF TrackCall, stub
<1>2. ThOK(th[t]) /\ RecOK(th[t]) /\ th[t].id \in Ids
  BY <1>1 DEF WakeInv, Calling, ThOK, RegInv, Owned
<1>3. /\ c.pc = "update" /\ c.op = th[t].op /\ c.rec = th[t].rec
      /\ c.upd = th[t].id /\ c.par = th[t].par /\ c.kind = th[t].kind
  BY <1>2 DEF ThOK, Fields
<1>4. Set(t, c) \/ Set(t, Over(th[t]))
  BY DEF TrackCall
<1> HIDE DEF c
<1>5. RecOK(c) /\ OwnOK(t, c, ns.creator)
  BY Zenon, <1>1, <1>2, <1>3 DEF RecOK, OwnOK
<1>6. RecOK(Over(th[t])) /\ OwnOK(t, Over(th[t]), ns.creator)
  BY <1>2, OverReg DEF OwnOK
<1> QED BY Zenon, <1>1, <1>4, <1>5, <1>6, RegQuiet

\* The descriptor is made for an id that evt_split got for this component.
LEMMA TrackSplitReg ==
  ASSUME WakeInv, RegInv, NEW t \in Threads, TrackSplit(t) PROVE RegInv'
<1> DEFINE c == th[t]
           s == Home[t]
<1>1. c.pc = "ret" /\ c.op = "split" /\ UNCHANGED <<ns, gcnt>>
  BY DEF TrackSplit
<1>2. ThOK(c) /\ RecOK(c) /\ OwnOK(t, c, ns.creator) /\ s \in Spds
  BY Zenon, EvtAssumption DEF WakeInv, Calling, RegInv, Owned
<1>3. RecOK(Over(c)) /\ OwnOK(t, Over(c), ns.creator)
  BY <1>2, OverReg DEF OwnOK
<1>4. CASE Set(t, Over(c)) /\ UNCHANGED desc
  BY <1>1, <1>3, <1>4, RegQuiet
<1>5. CASE Goto(t, "assert") /\ UNCHANGED desc
  BY <1>1, <1>5, GotoReg
<1>6. CASE /\ c.ret \in Ids \ Held(s)
           /\ desc' = [desc EXCEPT ![s][c.ret] =
                        [par |-> c.par, kind |-> c.kind, fcnt |-> gcnt[s]]]
           /\ Set(t, Over(c))
  <2> DEFINE d == [par |-> c.par, kind |-> c.kind, fcnt |-> gcnt[s]]
  <2>1. d \in Descs
    BY <1>2 DEF RegInv, StubOK, RecOK, Descs
  <2>2. c.ret \in Ids /\ desc' = [desc EXCEPT ![s][c.ret] = d] /\ gcnt' = gcnt
    BY <1>1, <1>6
  <2>3. th'[t] = Over(c) /\ \A u \in Threads \ {t} : th'[u] = th[u]
    BY <1>6 DEF Set, WakeInv, Calling
  <2> HIDE DEF d
  <2>4. StubOK'
    BY <1>2, <2>1, <2>2 DEF RegInv, StubOK
  <2>5. \A r \in Spds : \A i \in Ids :
          desc'[r][i] = IF r = s /\ i = c.ret THEN d ELSE desc[r][i]
    BY <1>2, <2>2 DEF RegInv, StubOK
  <2>6. NsOK'
    BY <1>1 DEF RegInv, NsOK
  <2>7. Owned'
    BY <1>1, <1>3, <2>3 DEF RegInv, Owned
  <2>8. ASSUME NEW r \in Spds, NEW i \in Ids, Dropping(r, i) PROVE Dropping(r, i)'
    BY <1>1, <2>3, <2>8 DEF Dropping, Drops
  <2>9. ASSUME NEW r \in Spds, NEW i \in Ids, desc'[r][i] # None
        PROVE  ns'.creator[i] = r \/ Dropping(r, i)'
    <3>1. CASE r = s /\ i = c.ret
      BY <1>1, <1>2, <2>2, <3>1 DEF OwnOK
    <3>2. CASE ~(r = s /\ i = c.ret)
      <4>1. desc[r][i] # None
        BY Zenon, <2>5, <2>9, <3>2
      <4> QED BY Zenon, <1>1, <2>8, <4>1 DEF RegInv, Registered
    <3> QED BY <3>1, <3>2
  <2>10. Registered'
    BY <2>9 DEF Registered
  <2> QED BY Zenon, <2>4, <2>6, <2>7, <2>10 DEF RegInv
<1> QED BY <1>4, <1>5, <1>6 DEF TrackSplit

\* The descriptor of a freed event is dropped, and no other thread of the
\* component was about to drop one.
LEMMA TrackFreeReg ==
  ASSUME OneThreadEach, WakeInv, RegInv, NEW t \in Threads, TrackFree(t) PROVE RegInv'
<1> DEFINE c == th[t]
           s == Home[t]
<1>1. /\ c.pc = "ret" /\ c.op = "free" /\ UNCHANGED <<ns, gcnt>> /\ Set(t, Over(c))
      /\ desc' = [desc EXCEPT ![s][c.id] = None]
  BY DEF TrackFree
<1>2. ThOK(c) /\ RecOK(c) /\ s \in Spds /\ c.id \in Ids
  BY Zenon, <1>1, EvtAssumption DEF WakeInv, Calling, ThOK, RegInv, Owned
<1>3. RecOK(Over(c)) /\ OwnOK(t, Over(c), ns.creator)
  BY <1>2, OverReg DEF OwnOK
<1>4. th'[t] = Over(c) /\ \A u \in Threads \ {t} : th'[u] = th[u]
  BY <1>1 DEF Set, WakeInv, Calling
<1>5. StubOK'
  BY Zenon, <1>1, <1>2 DEF RegInv, StubOK
<1>6. \A r \in Spds : \A i \in Ids :
        desc'[r][i] = IF r = s /\ i = c.id THEN None ELSE desc[r][i]
  BY <1>1, <1>2 DEF RegInv, StubOK
<1>7. NsOK'
  BY <1>1 DEF RegInv, NsOK
<1>8. Owned'
  BY <1>1, <1>3, <1>4 DEF RegInv, Owned
<1>9. ASSUME NEW r \in Spds, NEW i \in Ids, desc'[r][i] # None
      PROVE  ns'.creator[i] = r \/ Dropping(r, i)'
  <2>1. desc[r][i] # None /\ ~(r = s /\ i = c.id)
    BY <1>6, <1>9
  <2>2. CASE ns.creator[i] = r
    BY <1>1, <2>2
  <2>3. CASE Dropping(r, i)
    <3>1. PICK u \in Threads : Home[u] = r /\ Drops(th[u], i)
      BY <2>3 DEF Dropping
    <3>2. u # t
      BY <2>1, <3>1 DEF Drops
    <3> QED BY <1>4, <3>1, <3>2 DEF Dropping
  <2> QED BY <2>1, <2>2, <2>3 DEF RegInv, Registered
<1>10. Registered'
  BY <1>9 DEF Registered
<1> QED BY <1>5, <1>7, <1>8, <1>10 DEF RegInv

\* The component whose stub a thread is in.
LEMMA InSpds == ASSUME RegInv, NEW t \in Threads PROVE In(t) \in Spds
<1>1. th[t].rec \in Seq(Recs) /\ Home[t] \in Spds
  BY EvtAssumption DEF RegInv, Owned, RecOK
<1>2. ASSUME NEW q \in Seq(Recs), q # <<>> PROVE Last(q).spd \in Spds
  <2>1. q[Len(q)] \in Recs
    BY <1>2
  <2> QED BY <2>1 DEF Last, Recs
<1> QED BY <1>1, <1>2 DEF In

\* A descriptor whose fault counter is written stays one.
LEMMA CountedOK ==
  ASSUME StubOK, NEW s \in Spds, NEW i \in Ids, desc[s][i] # None,
         desc' = [desc EXCEPT ![s][i].fcnt = gcnt[s]], gcnt' = gcnt
  PROVE  /\ StubOK'
         /\ \A r \in Spds : \A j \in Ids : desc[r][j] = None => desc'[r][j] = None
<1> DEFINE d == [desc[s][i] EXCEPT !.fcnt = gcnt[s]]
<1>1. desc[s][i] \in Descs /\ gcnt[s] \in Nat
  BY DEF StubOK
<1>2. d \in Descs
  BY <1>1 DEF Descs
<1>3. desc' = [desc EXCEPT ![s] = [desc[s] EXCEPT ![i] = d]]
  OBVIOUS
<1> HIDE DEF d
<1>4. StubOK'
  BY <1>2, <1>3 DEF StubOK
<1>5. \A r \in Spds : \A j \in Ids : (r # s \/ j # i) => desc'[r][j] = desc[r][j]
  BY <1>3 DEF StubOK
<1> QED BY <1>4, <1>5

LEMMA AppendTyped ==
  ASSUME NEW R, NEW a \in Seq(R), NEW f \in R
  PROVE  Append(a, f) \in Seq(R) /\ Append(a, f) # <<>>
<1>1. Append(a, f) \in Seq(R)
  OBVIOUS
<1>2. Len(Append(a, f)) = Len(a) + 1 /\ Len(a) \in Nat
  OBVIOUS
<1>3. Len(<<>>) = 0
  OBVIOUS
<1>4. Append(a, f) # <<>>
  BY <1>2, <1>3
<1> QED BY Zenon, <1>1, <1>4

LEMMA UpdateReg == ASSUME WakeInv, RegInv, NEW t \in Threads, Update(t) PROVE RegInv'
<1> DEFINE c == th[t]
           u == c.upd
           s == In(t)
           resume == [c EXCEPT !.upd = 0,
                        !.pc = IF c.rec = <<>> THEN "invoke" ELSE "recover"]
           push(f) == [c EXCEPT !.upd = 0, !.rec = Append(@, f), !.pc = "recover"]
<1>1. c.pc = "update" /\ UNCHANGED <<ns, gcnt>>
  BY DEF Update
<1>2. ThOK(c) /\ RecOK(c) /\ OwnOK(t, c, ns.creator)
  BY DEF WakeInv, Calling, RegInv, Owned
<1>3. s \in Spds
  BY InSpds
<1>4. RecOK(resume) /\ OwnOK(t, resume, ns.creator)
  <2> DEFINE p == IF c.rec = <<>> THEN "invoke" ELSE "recover"
  <2>1. p \in {"invoke", "recover"} /\ (p = "recover" => c.rec # <<>>)
    OBVIOUS
  <2> HIDE DEF p
  <2> DEFINE r == [c EXCEPT !.upd = 0, !.pc = p]
  <2>2. /\ r.pc = p /\ r.op = c.op /\ r.id = c.id /\ r.rec = c.rec /\ r.upd = 0
        /\ r.par = c.par /\ r.kind = c.kind
    BY <1>2 DEF ThOK, Fields
  <2>3. resume = r
    BY DEF p
  <2> HIDE DEF r, resume
  <2>4. p \notin {"ret", "wake", "nsfree"} /\ c.pc # "ret"
    BY <1>1, <2>1
  <2>5. RecOK(resume)
    BY Zenon, <1>2, <2>1, <2>2, <2>3, <2>4 DEF RecOK
  <2>6. OwnOK(t, resume, ns.creator)
    BY Zenon, <1>2, <2>2, <2>3, <2>4 DEF OwnOK
  <2> QED BY <2>5, <2>6
<1>5. ASSUME NEW f \in Recs PROVE RecOK(push(f)) /\ OwnOK(t, push(f), ns.creator)
  <2> DEFINE q == Append(c.rec, f)
  <2>1. q \in Seq(Recs) /\ q # <<>>
    BY Zenon, <1>2, <1>5, AppendTyped DEF RecOK
  <2> HIDE DEF q
  <2> DEFINE r == [c EXCEPT !.upd = 0, !.rec = q, !.pc = "recover"]
  <2>2. /\ r.pc = "recover" /\ r.op = c.op /\ r.id = c.id /\ r.rec = q /\ r.upd = 0
        /\ r.par = c.par /\ r.kind = c.kind
    BY <1>2 DEF ThOK, Fields
  <2>3. push(f) = r
    BY Zenon DEF q
  <2> HIDE DEF r, push
  <2> QED BY <1>1, <1>2, <2>1, <2>2, <2>3 DEF RecOK, OwnOK
<1>6. ASSUME NEW r \in Spds, NEW up \in BOOLEAN, u # 0, u \in Held(r)
      PROVE  Frame(r, u, up) \in Recs
  <2>1. u \in Ids /\ desc[r][u] \in Descs
    BY <1>6 DEF Held, RegInv, StubOK
  <2> QED BY Zenon, <2>1 DEF Frame, Recs, Descs
<1>7. CASE Set(t, resume) /\ UNCHANGED desc
  <2> HIDE DEF resume
  <2> QED BY <1>1, <1>4, <1>7, RegQuiet
<1>8. CASE Goto(t, "assert") /\ UNCHANGED desc
  BY Zenon, <1>1, <1>8, GotoReg
<1>9. CASE u # 0 /\ NsUpcall(u) # None /\ u \in Held(NsUpcall(u))
           /\ Set(t, push(Frame(NsUpcall(u), u, TRUE))) /\ UNCHANGED desc
  <2>1. u \in Ids
    BY <1>2, <1>9 DEF RecOK
  <2>2. NsUpcall(u) \in Spds
    BY <1>9, <2>1 DEF NsUpcall, RegInv, NsOK
  <2>3. Frame(NsUpcall(u), u, TRUE) \in Recs
    BY Zenon, <1>6, <1>9, <2>2
  <2> HIDE DEF push
  <2> QED BY Zenon, <1>1, <1>5, <1>9, <2>3, RegQuiet
<1>10. CASE u # 0 /\ u \in Held(s) /\ desc' = [desc EXCEPT ![s][u].fcnt = gcnt[s]]
            /\ Set(t, push(Frame(s, u, FALSE)))
  <2>1. Frame(s, u, FALSE) \in Recs
    BY Zenon, <1>3, <1>6, <1>10
  <2>2. u \in Ids /\ desc[s][u] # None
    BY <1>10 DEF Held
  <2>3. /\ StubOK'
        /\ \A r \in Spds : \A j \in Ids : desc[r][j] = None => desc'[r][j] = None
    BY Zenon, <1>1, <1>3, <1>10, <2>2, CountedOK DEF RegInv
  <2> HIDE DEF push
  <2> QED BY Zenon, <1>1, <1>5, <1>10, <2>1, <2>3, RegLocal
<1> QED BY Zenon, <1>7, <1>8, <1>9, <1>10 DEF Update, Resume, Push

\* What is left of a recovery when one evt_split_exist is done.
LEMMA FrontOK ==
  ASSUME NEW q \in Seq(Recs), q # <<>>
  PROVE  Front(q) \in Seq(Recs) /\ Last(q) \in Recs
  BY DEF Front, Last

LEMMA RecoveredReg ==
  ASSUME NEW t \in Threads, ThOK(th[t]), RecOK(th[t]), OwnOK(t, th[t], ns.creator),
         th[t].pc = "recover"
  PROVE  RecOK(Recovered(t)) /\ OwnOK(t, Recovered(t), ns.creator)
<1> DEFINE c == th[t]
           b == Front(c.rec)
           d1 == [c EXCEPT !.rec = b]
           d2 == [c EXCEPT !.rec = b, !.pc = "invoke", !.op = "wait", !.inner = TRUE]
           d3 == [c EXCEPT !.rec = b, !.pc = "invoke"]
<1>1. b \in Seq(Recs)
  BY Zenon, FrontOK DEF RecOK
<1>2. (b # <<>> /\ Recovered(t) = d1) \/ Recovered(t) = d2 \/ Recovered(t) = d3
  BY DEF Recovered
<1> HIDE DEF b
<1>3. /\ d1.pc = "recover" /\ d1.op = c.op /\ d1.id = c.id /\ d1.rec = b
      /\ d1.upd = c.upd /\ d1.par = c.par /\ d1.kind = c.kind
  BY DEF ThOK, Fields
<1>4. /\ d2.pc = "invoke" /\ d2.op = "wait" /\ d2.rec = b
      /\ d2.upd = c.upd /\ d2.par = c.par /\ d2.kind = c.kind
  BY DEF ThOK, Fields
<1>5. /\ d3.pc = "invoke" /\ d3.op = c.op /\ d3.id = c.id /\ d3.rec = b
      /\ d3.upd = c.upd /\ d3.par = c.par /\ d3.kind = c.kind
  BY DEF ThOK, Fields
<1> HIDE DEF d1, d2, d3
<1>6. b # <<>> => RecOK(d1) /\ OwnOK(t, d1, ns.creator)
  BY Zenon, <1>1, <1>3 DEF RecOK, OwnOK
<1>7. RecOK(d2) /\ OwnOK(t, d2, ns.creator)
  BY <1>1, <1>4 DEF RecOK, OwnOK
<1>8. RecOK(d3) /\ OwnOK(t, d3, ns.creator)
  BY <1>1, <1>5 DEF RecOK, OwnOK
<1> QED BY Zenon, <1>2, <1>6, <1>7, <1>8

LEMMA DescRecoveredReg ==
  ASSUME RegInv, NEW t \in Threads, th[t].pc = "recover", desc' = DescRecovered(t),
         gcnt' = gcnt
  PROVE  /\ StubOK'
         /\ \A s \in Spds : \A i \in Ids : desc[s][i] = None => desc'[s][i] = None
<1> DEFINE r == Last(th[t].rec)
<1>1. r \in Recs
  BY FrontOK DEF RegInv, Owned, RecOK
<1> HIDE DEF r
<1>2. r.spd \in Spds /\ r.d \in Ids
  BY Zenon, <1>1 DEF Recs
<1>3. CASE r.d \in Held(r.spd)
  <2>1. desc' = [desc EXCEPT ![r.spd][r.d].fcnt = gcnt[r.spd]] /\ desc[r.spd][r.d] # None
    BY Zenon, <1>3 DEF DescRecovered, r, Held
  <2> QED BY Zenon, <1>2, <2>1, CountedOK DEF RegInv
<1>4. CASE r.d \notin Held(r.spd)
  <2>1. desc' = desc
    BY <1>4 DEF DescRecovered, r
  <2> QED BY <2>1 DEF RegInv, StubOK
<1> QED BY Zenon, <1>3, <1>4

\* evt_split_exist leaves the name server's table as it is.
LEMMA RecoverReg == ASSUME WakeInv, RegInv, NEW t \in Threads, Recover(t) PROVE RegInv'
<1> DEFINE c == th[t]
           r == Last(c.rec)
           par == Kept(r).par
           b == Front(c.rec)
           again == [c EXCEPT !.pc = "update", !.upd = par,
                       !.rec = Append(Front(@), [r EXCEPT !.id = par])]
<1>1. c.pc = "recover" /\ gcnt' = gcnt
  BY Zenon DEF Recover
<1>2. ThOK(c) /\ RecOK(c) /\ OwnOK(t, c, ns.creator)
  BY DEF WakeInv, Calling, RegInv, Owned
<1>3. b \in Seq(Recs) /\ r \in Recs
  BY <1>1, <1>2, FrontOK DEF RecOK
<1>4. r.id # 0 /\ par \in Ids \cup {0}
  <2>1. r.spd \in Spds /\ r.d \in Ids /\ r.id \in Ids /\ r.par \in Ids \cup {0}
    BY Zenon, <1>3 DEF Recs
  <2> HIDE DEF r
  <2>2. CASE r.d \in Held(r.spd)
    <3>1. desc[r.spd][r.d] \in Descs /\ Kept(r) = desc[r.spd][r.d]
      BY <2>1, <2>2 DEF Kept, Held, RegInv, StubOK
    <3> QED BY <2>1, <3>1 DEF Descs, Ids
  <2>3. CASE r.d \notin Held(r.spd)
    BY <2>1, <2>3 DEF Kept, Ids
  <2> QED BY <2>2, <2>3
<1> HIDE DEF r, par, b
<1>5. ns' = ns
  <2>1. ASSUME NEW ret, Split(par, Kept(r).kind, r.spd, r.id, ret) PROVE ns' = ns
    BY <1>4, <2>1 DEF Split, NsAfter
  <2> QED BY Zenon, <2>1 DEF Recover, r, par
<1>6. CASE Set(t, Recovered(t)) /\ desc' = DescRecovered(t)
  <2>1. RecOK(Recovered(t)) /\ OwnOK(t, Recovered(t), ns.creator)
    BY <1>1, <1>2, RecoveredReg
  <2>2. /\ StubOK'
        /\ \A s \in Spds : \A i \in Ids : desc[s][i] = None => desc'[s][i] = None
    BY <1>1, <1>6, DescRecoveredReg
  <2> QED BY Zenon, <1>1, <1>5, <1>6, <2>1, <2>2, RegLocal
<1>7. CASE /\ Set(t, again) /\ UNCHANGED desc
           /\ Split(par, Kept(r).kind, r.spd, r.id, EINVAL)
  <2>1. par # 0
    <3>1. AllocError(par, r.spd) # 0 /\ EINVAL = AllocError(par, r.spd)
      BY <1>7 DEF Split, EINVAL, ENOMEM
    <3> QED BY <3>1 DEF AllocError, EINVAL, ENOMEM
  <2>2. [r EXCEPT !.id = par] \in Recs
    BY <1>3, <1>4, <2>1 DEF Recs
  <2> DEFINE q == Append(b, [r EXCEPT !.id = par])
  <2>3. q \in Seq(Recs)
    BY <1>3, <2>2
  <2>4. again = [c EXCEPT !.pc = "update", !.upd = par, !.rec = q]
    BY DEF b
  <2> HIDE DEF q
  <2>5. /\ again.pc = "update" /\ again.op = c.op /\ again.id = c.id /\ again.rec = q
        /\ again.upd = par /\ again.par = c.par /\ again.kind = c.kind
    BY Zenon, <1>2, <2>4 DEF ThOK, Fields
  <2> HIDE DEF again
  <2>6. RecOK(again) /\ OwnOK(t, again, ns.creator)
    BY Zenon, <1>1, <1>2, <1>4, <2>3, <2>5 DEF RecOK, OwnOK
  <2> QED BY Zenon, <1>1, <1>5, <1>7, <2>6, RegQuiet
<1> QED BY Zenon, <1>6, <1>7 DEF Recover, r, par

\* ns_alloc hands out an id nobody has, under the caller's name.
LEMMA EvtSplitReg ==
  ASSUME WakeInv, RegInv, NEW t \in Threads, EvtSplit(t) PROVE RegInv'
<1> DEFINE s == Home[t]
           h == Head(ns.free)
<1>1. /\ th[t].pc = "invoke" /\ th[t].op = "split" /\ UNCHANGED <<desc, gcnt>>
      /\ ns.free # <<>>
  BY DEF EvtSplit, Entered, stub
<1>2. PICK ret : Split(th[t].par, th[t].kind, s, 0, ret) /\ Return(t, ret)
  BY Zenon DEF EvtSplit
<1>3. ThOK(th[t]) /\ RecOK(th[t]) /\ s \in Spds /\ s # None
  BY EvtAssumption DEF WakeInv, Calling, RegInv, Owned
<1> DEFINE c == [th[t] EXCEPT !.pc = "ret", !.ret = ret]
<1>4. /\ c.pc = "ret" /\ c.op = "split" /\ c.ret = ret /\ c.rec = th[t].rec
      /\ c.upd = th[t].upd /\ c.par = th[t].par /\ c.kind = th[t].kind
  BY <1>1, <1>3 DEF ThOK, Fields
<1>5. Set(t, c)
  BY Zenon, <1>2 DEF Return
<1> HIDE DEF c
<1>6. RecOK(c)
  BY Zenon, <1>3, <1>4 DEF RecOK
<1>7. CASE ns' = ns /\ ret \notin Ids
  <2>1. OwnOK(t, c, ns.creator)
    BY <1>4, <1>7 DEF OwnOK
  <2> QED BY <1>1, <1>5, <1>6, <1>7, <2>1, RegQuiet
<1>8. CASE /\ ns' = [creator |-> [ns.creator EXCEPT ![h] = s], free |-> Tail(ns.free)]
           /\ ret = h
  <2>1. ns.free \in Seq(Ids) /\ ns.creator \in [Ids -> Spds \cup {None}]
    BY DEF RegInv, NsOK
  <2>2. /\ h \in Ids /\ Tail(ns.free) \in Seq(Ids) /\ 1 \in DOMAIN ns.free
        /\ h = ns.free[1]
        /\ \A k \in DOMAIN Tail(ns.free) :
             k + 1 \in DOMAIN ns.free /\ k \in Nat \ {0} /\ Tail(ns.free)[k] = ns.free[k + 1]
    BY <1>1, <2>1
  <2>3. ns.creator[h] = None
    BY <2>2 DEF RegInv, NsOK
  <2> DEFINE f == Tail(ns.free)
             cr == [ns.creator EXCEPT ![h] = s]
  <2>4. ns'.creator = cr /\ ns'.free = f /\ ns' = [creator |-> cr, free |-> f]
    BY Zenon, <1>8
  <2>5. cr \in [Ids -> Spds \cup {None}] /\ cr[h] = s /\ \A i \in Ids \ {h} : cr[i] = ns.creator[i]
    BY Zenon, <1>3, <2>1, <2>2
  <2>6. \A k \in DOMAIN f : f[k] \in Ids /\ f[k] # h /\ ns.creator[f[k]] = None
    BY <2>1, <2>2 DEF RegInv, NsOK
  <2>7. \A j, k \in DOMAIN f : f[j] = f[k] => j = k
    BY <2>1, <2>2 DEF RegInv, NsOK
  <2>8. f \in Seq(Ids)
    BY <2>2
  <2> HIDE DEF f, cr, h
  <2>9. NsOK'
    <3>1. ns' \in [creator : [Ids -> Spds \cup {None}], free : Seq(Ids)]
      BY <2>4, <2>5, <2>8
    <3>2. \A k \in DOMAIN f : cr[f[k]] = None
      BY <2>5, <2>6
    <3> QED BY Zenon, <2>4, <2>7, <3>1, <3>2 DEF NsOK
  <2>10. \A i \in Ids : ns.creator[i] \in Spds => cr[i] = ns.creator[i]
    BY <2>3, <2>5, EvtAssumption
  <2>11. th'[t] = c /\ \A u \in Threads \ {t} : th'[u] = th[u]
    BY <1>5 DEF Set, WakeInv, Calling
  <2>12. ASSUME NEW u \in Threads PROVE RecOK(th'[u]) /\ OwnOK(u, th'[u], cr)
    <3>1. CASE u = t
      BY Zenon, <1>4, <1>6, <1>8, <2>5, <2>11, <3>1 DEF OwnOK
    <3>2. CASE u # t
      <4>1. RecOK(th[u]) /\ OwnOK(u, th[u], ns.creator) /\ ThOK(th[u]) /\ Home[u] \in Spds
        BY Zenon, EvtAssumption DEF WakeInv, Calling, RegInv, Owned
      <4>2. OwnOK(u, th[u], cr)
        BY <2>10, <4>1 DEF OwnOK, ThOK
      <4> QED BY <2>11, <3>2, <4>1, <4>2
    <3> QED BY Zenon, <3>1, <3>2
  <2>13. Owned'
    BY <2>4, <2>12 DEF Owned
  <2>14. ASSUME NEW r \in Spds, NEW i \in Ids, Dropping(r, i) PROVE Dropping(r, i)'
    BY Zenon, <1>1, <2>11, <2>14 DEF Dropping, Drops
  <2>15. ASSUME NEW r \in Spds, NEW i \in Ids, desc'[r][i] # None
         PROVE  ns'.creator[i] = r \/ Dropping(r, i)'
    <3>1. ns.creator[i] = r \/ Dropping(r, i)
      BY <1>1, <2>15 DEF RegInv, Registered
    <3> QED BY <2>4, <2>10, <2>14, <3>1
  <2>16. Registered'
    BY <2>15 DEF Registered
  <2>17. StubOK'
    BY <1>1 DEF RegInv, StubOK
  <2> QED BY <2>9, <2>13, <2>16, <2>17 DEF RegInv
<1>9. (ns' = ns /\ ret \notin Ids) \/
      /\ ns' = [creator |-> [ns.creator EXCEPT ![h] = s], free |-> Tail(ns.free)]
      /\ ret = h
  <2>1. CASE AllocError(th[t].par, s) # 0
    <3>1. ret = AllocError(th[t].par, s) /\ ns' = ns
      BY Zenon, <1>2, <2>1 DEF Split
    <3>2. ret \in {EINVAL, ENOMEM}
      BY Zenon, <2>1, <3>1 DEF AllocError
    <3> QED BY <3>1, <3>2 DEF EINVAL, ENOMEM, Ids
  <2>2. CASE AllocError(th[t].par, s) = 0
    <3>1. h \in Ids
      BY <1>1 DEF RegInv, NsOK
    <3>2. NsAlloc(0) = h
      BY DEF NsAlloc
    <3>3. /\ ns' = NsAfter(s, 0)
          /\ ret = IF NsAlloc(0) > 0 THEN NsAlloc(0) ELSE ENOMEM
      BY <1>2, <2>2 DEF Split
    <3>4. ns' = [creator |-> [ns.creator EXCEPT ![h] = s], free |-> Tail(ns.free)]
      BY <3>3 DEF NsAfter
    <3> HIDE DEF h
    <3>5. h > 0
      BY <3>1 DEF Ids
    <3>6. ret = h
      BY <3>2, <3>3, <3>5
    <3> QED BY <3>4, <3>6 DEF h
  <2> QED BY <2>1, <2>2
<1> QED BY <1>7, <1>8, <1>9

LEMMA EvtWaitReg == ASSUME WakeInv, RegInv, NEW t \in Threads, EvtWait(t) PROVE RegInv'
<1>1. th[t].pc \in {"invoke", "again"} /\ th[t].op = "wait"
  BY Zenon DEF EvtWait, Entered, WakeInv, Calling, ThOK
<1>2. UNCHANGED <<ns, desc, gcnt>>
  BY Zenon DEF EvtWait, stub
<1>3. (\E ret : Return(t, ret)) \/ Goto(t, "block") \/ Goto(t, "spin")
  BY Zenon DEF EvtWait
<1>4. CASE \E ret : Return(t, ret)
  BY <1>1, <1>2, <1>4, ReturnReg
<1>5. CASE Goto(t, "block")
  BY <1>1, <1>2, <1>5, GotoReg
<1>6. CASE Goto(t, "spin")
  BY <1>1, <1>2, <1>6, GotoReg
<1> QED BY <1>3, <1>4, <1>5, <1>6

LEMMA BlockReg == ASSUME WakeInv, RegInv, NEW t \in Threads, Block(t) PROVE RegInv'
<1>1. th[t].pc = "block" /\ UNCHANGED <<ns, desc, gcnt>>
  BY Zenon DEF Block, stub
<1>2. Goto(t, "again") \/ Goto(t, "sleep")
  BY DEF Block
<1> QED BY <1>1, <1>2, GotoReg

LEMMA EvtTriggerReg ==
  ASSUME WakeInv, RegInv, NEW t \in Threads, EvtTrigger(t) PROVE RegInv'
<1> DEFINE w == bthd[Target(map[th[t].id])]
           p == IF w = None THEN "ret" ELSE "wake"
           c == [th[t] EXCEPT !.tid = w, !.ret = 0, !.pc = p]
<1>1. th[t].pc = "invoke" /\ th[t].op = "trigger"
  BY DEF EvtTrigger, Entered
<1>2. UNCHANGED <<ns, desc, gcnt>>
  BY Zenon DEF EvtTrigger, stub
<1>3. Return(t, EINVAL) \/ Goto(t, "spin") \/ Set(t, c)
  BY Zenon DEF EvtTrigger
<1>4. CASE Return(t, EINVAL)
  BY <1>1, <1>2, <1>4, ReturnReg
<1>5. CASE Goto(t, "spin")
  BY <1>1, <1>2, <1>5, GotoReg
<1>6. CASE Set(t, c)
  <2>1. ThOK(th[t]) /\ RecOK(th[t])
    BY DEF WakeInv, Calling, RegInv, Owned
  <2>2. p \in {"ret", "wake"}
    OBVIOUS
  <2> HIDE DEF p, w
  <2>3. /\ c.pc = p /\ c.op = "trigger" /\ c.rec = th[t].rec
        /\ c.upd = th[t].upd /\ c.par = th[t].par /\ c.kind = th[t].kind
    BY <1>1, <2>1 DEF ThOK, Fields
  <2>4. Set(t, c)
    BY Zenon, <1>6
  <2> HIDE DEF c
  <2>5. RecOK(c) /\ OwnOK(t, c, ns.creator)
    BY Zenon, <2>1, <2>2, <2>3 DEF RecOK, OwnOK
  <2> QED BY <1>1, <1>2, <2>4, <2>5, RegQuiet
<1> QED BY <1>3, <1>4, <1>5, <1>6

LEMMA WakeReg == ASSUME WakeInv, RegInv, NEW t \in Threads, Wake(t) PROVE RegInv'
<1> DEFINE w == th[t].tid
           back == [th[t] EXCEPT !.pc = "ret", !.tid = None]
<1>1. th[t].pc = "wake" /\ UNCHANGED <<ns, desc, gcnt>>
  BY Zenon DEF Wake, stub
<1>2. ThOK(th[t]) /\ RecOK(th[t]) /\ th[t].op = "trigger"
  BY Zenon, <1>1 DEF WakeInv, Calling, RegInv, Owned, RecOK
<1>3. /\ back.pc = "ret" /\ back.op = "trigger" /\ back.rec = th[t].rec
      /\ back.upd = th[t].upd /\ back.par = th[t].par /\ back.kind = th[t].kind
  BY <1>2 DEF ThOK, Fields
<1>4. /\ th[w].pc = "sleep" => th' = [th EXCEPT ![t] = back, ![w].pc = "again"]
      /\ th[w].pc # "sleep" => th' = [th EXCEPT ![t] = back]
  BY Zenon DEF Wake, Set
<1> HIDE DEF back
<1>5. RecOK(back) /\ OwnOK(t, back, ns.creator)
  BY Zenon, <1>2, <1>3 DEF RecOK, OwnOK
<1>6. ASSUME NEW u \in Threads
      PROVE  /\ RecOK(th'[u]) /\ OwnOK(u, th'[u], ns.creator)
             /\ \A i \in Ids : Drops(th[u], i) => Drops(th'[u], i)
  <2>1. ThOK(th[u]) /\ RecOK(th[u]) /\ OwnOK(u, th[u], ns.creator)
    BY Zenon DEF WakeInv, Calling, RegInv, Owned
  <2>2. CASE u = t
    <3>1. th'[u] = back
      <4>1. th[w].pc = "sleep" => w # t
        BY Zenon, <1>1
      <4> QED BY Zenon, <1>4, <2>2, <4>1 DEF WakeInv, Calling
    <3> QED BY <1>1, <1>5, <2>2, <3>1 DEF Drops
  <2>3. CASE u # t /\ (u # w \/ th[w].pc # "sleep")
    <3>1. th'[u] = th[u]
      BY <1>4, <2>3 DEF WakeInv, Calling
    <3> QED BY <2>1, <3>1
  <2>4. CASE u # t /\ u = w /\ th[w].pc = "sleep"
    <3> DEFINE c == [th[u] EXCEPT !.pc = "again"]
    <3>1. th'[u] = c
      BY <1>4, <2>4 DEF WakeInv, Calling
    <3>2. /\ c.pc = "again" /\ c.op = th[u].op /\ c.rec = th[u].rec
          /\ c.upd = th[u].upd /\ c.par = th[u].par /\ c.kind = th[u].kind
      BY Zenon, <2>1 DEF ThOK, Fields
    <3>3. th[u].op = "wait"
      BY Zenon, <2>1, <2>4 DEF ThOK
    <3> HIDE DEF c
    <3>4. RecOK(c) /\ OwnOK(u, c, ns.creator)
      BY Zenon, <2>1, <3>2, <3>3 DEF RecOK, OwnOK
    <3> QED BY <3>1, <3>3, <3>4 DEF Drops
  <2> QED BY Zenon, <2>2, <2>3, <2>4
<1>7. StubOK'
  BY <1>1 DEF RegInv, StubOK
<1> QED BY Zenon, <1>1, <1>6, <1>7, RegAll

LEMMA EvtFreeReg == ASSUME WakeInv, RegInv, NEW t \in Threads, EvtFree(t) PROVE RegInv'
<1>1. th[t].pc = "invoke" /\ th[t].op = "free"
  BY Zenon DEF EvtFree, Entered
<1>2. UNCHANGED <<ns, desc, gcnt>>
  BY Zenon DEF EvtFree, stub
<1>3. Return(t, 0) \/ Goto(t, "nsfree") \/ Goto(t, "spin")
  BY Zenon DEF EvtFree
<1>4. CASE Return(t, 0)
  BY <1>1, <1>2, <1>4, ReturnReg
<1> QED BY Zenon, <1>1, <1>2, <1>3, <1>4, GotoReg

\* ns_free takes the component's name off an id whose descriptor the thread
\* is about to drop.
LEMMA NsFreeReg ==
  ASSUME OneThreadEach, WakeInv, RegInv, NEW t \in Threads, NsFree(t) PROVE RegInv'
<1> DEFINE i == th[t].id
           s == Home[t]
           c == [th[t] EXCEPT !.pc = "ret", !.ret = 0]
           cr == [ns.creator EXCEPT ![i] = None]
           f == <<i>> \o ns.free
<1>1. th[t].pc = "nsfree" /\ UNCHANGED <<desc, gcnt>> /\ Set(t, c)
  BY DEF NsFree, Return, stub
<1>2. ThOK(th[t]) /\ RecOK(th[t]) /\ OwnOK(t, th[t], ns.creator)
  BY DEF WakeInv, Calling, RegInv, Owned
<1>3. th[t].op = "free" /\ i \in Ids /\ ns.creator[i] = s
  BY <1>1, <1>2 DEF RecOK, OwnOK, ThOK
<1>4. s \in Spds /\ s # None
  BY EvtAssumption
<1>5. /\ c.pc = "ret" /\ c.op = "free" /\ c.id = i /\ c.rec = th[t].rec
      /\ c.upd = th[t].upd /\ c.par = th[t].par /\ c.kind = th[t].kind
  BY <1>2, <1>3 DEF ThOK, Fields
<1> HIDE DEF c
<1>6. th'[t] = c /\ \A u \in Threads \ {t} : th'[u] = th[u]
  BY <1>1 DEF Set, WakeInv, Calling
<1>7. ns'.creator = cr /\ ns'.free = f /\ ns' = [creator |-> cr, free |-> f]
  BY <1>3, <1>4 DEF NsFree
<1>8. ns.free \in Seq(Ids) /\ ns.creator \in [Ids -> Spds \cup {None}]
  BY DEF RegInv, NsOK
<1>9. cr \in [Ids -> Spds \cup {None}] /\ cr[i] = None /\ \A j \in Ids \ {i} : cr[j] = ns.creator[j]
  BY <1>3, <1>8
<1>10. /\ f \in Seq(Ids) /\ f[1] = i
       /\ \A k \in DOMAIN f : k \in Nat \ {0}
       /\ \A k \in DOMAIN f : k # 1 => k - 1 \in DOMAIN ns.free /\ f[k] = ns.free[k - 1]
  BY <1>3, <1>8
<1>11. \A k \in DOMAIN ns.free : ns.free[k] # i /\ ns.free[k] \in Ids /\ ns.creator[ns.free[k]] = None
  BY <1>3, <1>4, <1>8 DEF RegInv, NsOK
<1> HIDE DEF f, cr
<1>12. NsOK'
  <2>1. ns' \in [creator : [Ids -> Spds \cup {None}], free : Seq(Ids)]
    BY Zenon, <1>7, <1>9, <1>10
  <2>2. \A k \in DOMAIN f : cr[f[k]] = None
    BY <1>9, <1>10, <1>11
  <2>3. ASSUME NEW j \in DOMAIN f, NEW k \in DOMAIN f, f[j] = f[k] PROVE j = k
    <3>1. CASE j = 1 \/ k = 1
      BY <1>10, <1>11, <2>3, <3>1
    <3>2. CASE j # 1 /\ k # 1
      <4>1. j - 1 = k - 1
        BY <1>10, <2>3, <3>2 DEF RegInv, NsOK
      <4>2. j \in Nat /\ k \in Nat
        BY <1>10
      <4> QED BY <4>1, <4>2
    <3> QED BY <3>1, <3>2
  <2> QED BY Zenon, <1>7, <2>1, <2>2, <2>3 DEF NsOK
<1>13. ASSUME NEW u \in Threads PROVE RecOK(th'[u]) /\ OwnOK(u, th'[u], cr)
  <2>1. CASE u = t
    BY Zenon, <1>2, <1>5, <1>6, <2>1 DEF RecOK, OwnOK
  <2>2. CASE u # t
    <3>1. RecOK(th[u]) /\ OwnOK(u, th[u], ns.creator) /\ ThOK(th[u]) /\ Home[u] # s
      BY Zenon, <2>2 DEF WakeInv, Calling, RegInv, Owned, OneThreadEach
    <3>2. OwnOK(u, th[u], cr)
      BY Zenon, <1>3, <1>9, <3>1 DEF OwnOK, ThOK
    <3> QED BY <1>6, <2>2, <3>1, <3>2
  <2> QED BY Zenon, <2>1, <2>2
<1>14. Owned'
  BY <1>7, <1>13 DEF Owned
<1>15. ASSUME NEW r \in Spds, NEW j \in Ids, Dropping(r, j) PROVE Dropping(r, j)'
  BY <1>1, <1>6, <1>15 DEF Dropping, Drops
<1>16. ASSUME NEW r \in Spds, NEW j \in Ids, r = s, j = i
       PROVE  Dropping(r, j)'
  <2>1. th'[t].op = "free" /\ th'[t].pc = "ret" /\ th'[t].id = j
    BY Zenon, <1>5, <1>6, <1>16
  <2>2. Home[t] = r
    BY Zenon, <1>16
  <2> HIDE DEF i, s
  <2> QED BY Zenon, <2>1, <2>2 DEF Dropping, Drops
<1>17. ASSUME NEW r \in Spds, NEW j \in Ids, desc'[r][j] # None
       PROVE  ns'.creator[j] = r \/ Dropping(r, j)'
  <2>1. ns.creator[j] = r \/ Dropping(r, j)
    BY <1>1, <1>17 DEF RegInv, Registered
  <2>2. CASE Dropping(r, j)
    BY Zenon, <1>15, <2>2
  <2>3. CASE ns.creator[j] = r /\ j # i
    BY Zenon, <1>7, <1>9, <2>3
  <2>4. CASE ns.creator[j] = r /\ j = i
    BY Zenon, <1>3, <1>16, <2>4
  <2> QED BY Zenon, <2>1, <2>2, <2>3, <2>4
<1>18. Registered'
  BY <1>17 DEF Registered
<1>19. StubOK'
  BY Zenon, <1>1 DEF RegInv, StubOK
<1> QED BY <1>12, <1>14, <1>18, <1>19 DEF RegInv

\* A failure leaves the name server and the stubs as they are.
LEMMA FailReg == ASSUME WakeInv, RegInv, NEW t \in Threads, Fail(t) PROVE RegInv'
<1> DEFINE out(u) == [th[u] EXCEPT !.pc = "fault", !.tid = None]
<1>1. UNCHANGED <<ns, gcnt>> /\ Executes(t)
  BY Zenon DEF Fail
<1>2. /\ StubOK'
      /\ \A s \in Spds : \A i \in Ids : desc[s][i] = None => desc'[s][i] = None
  <2>1. CASE th[t].pc = "recover"
    <3>1. desc' = DescRecovered(t)
      BY Zenon, <2>1 DEF Fail
    <3> QED BY <1>1, <2>1, <3>1, DescRecoveredReg
  <2>2. CASE th[t].pc # "recover"
    <3>1. desc' = desc
      BY Zenon, <2>2 DEF Fail
    <3> QED BY <1>1, <3>1 DEF RegInv, StubOK
  <2> QED BY <2>1, <2>2
<1>3. ASSUME NEW u \in Threads
      PROVE  /\ RecOK(th'[u]) /\ OwnOK(u, th'[u], ns.creator)
             /\ \A i \in Ids : Drops(th[u], i) => Drops(th'[u], i)
  <2>1. ThOK(th[u]) /\ RecOK(th[u]) /\ OwnOK(u, th[u], ns.creator)
    BY DEF WakeInv, Calling, RegInv, Owned
  <2>2. CASE u = t /\ th[u].pc = "recover"
    <3>1. th'[u] = Recovered(u)
      BY Zenon, <2>2 DEF Fail
    <3>2. RecOK(Recovered(u)) /\ OwnOK(u, Recovered(u), ns.creator)
      BY Zenon, <2>1, <2>2, RecoveredReg
    <3> QED BY Zenon, <2>2, <3>1, <3>2 DEF Drops
  <2>3. CASE ~(u = t /\ th[u].pc = "recover") /\ (u = t \/ th[u].pc \in InServer)
    <3>1. th'[u] = out(u)
      BY Zenon, <2>3 DEF Fail
    <3>2. th[u].pc # "ret"
      BY <1>1, <2>3 DEF Executes, InServer
    <3>3. LET c == out(u) IN
          /\ c.pc = "fault" /\ c.op = th[u].op /\ c.id = th[u].id /\ c.rec = th[u].rec
          /\ c.upd = th[u].upd /\ c.par = th[u].par /\ c.kind = th[u].kind
      BY Zenon, <2>1 DEF ThOK, Fields
    <3> HIDE DEF out
    <3>4. RecOK(out(u)) /\ OwnOK(u, out(u), ns.creator)
      BY Zenon, <2>1, <3>2, <3>3 DEF RecOK, OwnOK
    <3> QED BY Zenon, <3>1, <3>2, <3>4 DEF Drops
  <2>4. CASE u # t /\ th[u].pc \notin InServer
    <3>1. th'[u] = th[u]
      BY Zenon, <2>4 DEF Fail
    <3> QED BY Zenon, <2>1, <3>1
  <2> QED BY Zenon, <2>2, <2>3, <2>4
<1> QED BY Zenon, <1>1, <1>2, <1>3, RegAll

LEMMA RegInductive ==
  ASSUME OneThreadEach PROVE WakeInv /\ RegInv /\ [Next]_vars => RegInv'
<1>1. CASE UNCHANGED vars
  BY Zenon, <1>1 DEF vars, RegInv, StubOK, NsOK, Owned, Registered, Dropping
<1>2. ASSUME WakeInv, RegInv, Next PROVE RegInv'
  <2>1. PICK t \in Threads : Call(t) \/ Step(t) \/ Fail(t)
    BY <1>2 DEF Next
  <2> QED BY <1>2, <2>1, CallReg, StaleReg, FaultUpdateReg, EvtSplitReg,
             EvtWaitReg, BlockReg, EvtTriggerReg, WakeReg, EvtFreeReg, NsFreeReg,
             TrackCallReg, TrackSplitReg, TrackFreeReg, UpdateReg, RecoverReg, FailReg
          DEF Step
<1> QED BY Zenon, <1>1, <1>2

\* Where every component has one thread, an event a stub has a descriptor for
\* is registered under its component's name until it is being freed, for any
\* components, events, failures and frees: evt_split_exist can rebuild it.
THEOREM DescStaysRegistered ==
  ASSUME OneThreadEach PROVE Spec => []DescRegistered
<1>1. RegInv => DescRegistered
  BY DEF RegInv, Registered, Dropping, Drops, DescRegistered, Held, Freeing
<1>2. Spec => []WakeInv
  BY Initially, Inductive, PTL DEF Spec
<1>3. Spec => []RegInv
  BY <1>2, InitReg, RegInductive, PTL DEF Spec
<1> QED BY <1>1, <1>3, PTL
=============================================================================
