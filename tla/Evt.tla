-------------------------------- MODULE Evt --------------------------------
(***************************************************************************)
(* The event manager (implementation/evt/edge_grp/__evt_rec), the name     *)
(* server that numbers its events (name_server/evt_ns/evt_ns.c), and the   *)
(* recovering client stub in front of it (interface/evt/__stubs_rec/       *)
(* __IDL_c_stub.c).  Threads of several client components split, wait for, *)
(* trigger and free events; the manager may fail inside any call, and the  *)
(* stubs then rebuild its events one by one from their descriptors.        *)
(*                                                                         *)
(* A section under evt_lock is one step.  What the code does outside the   *)
(* lock - sched_block, sched_wakeup, ns_free, each return to the stub and  *)
(* each part of the stub - is a step of its own.  A rebooted manager has   *)
(* finished its reflection before any thread returns from it (the property *)
(* ReflectedBeforeReturn of FaultNotif), so a failure is one step too.     *)
(***************************************************************************)
EXTENDS Integers, Sequences, FiniteSets

CONSTANTS
  Threads,    \* client threads
  Spds,       \* client components
  Home,       \* Home[t]: the component thread t runs in
  MaxId,      \* bound: event ids the name server has
  FreeIds,    \* bound: ids in use where events are freed
  NumNodes,   \* bound: struct evt the slab has room for
  MaxFaults,  \* bound: failures of the manager
  Ops,        \* Ops[s]: what component s calls, of "split", "wait",
              \* "trigger" and "free"
  None

Ids == 1..MaxId
Addr == 1..NumNodes

ASSUME EvtAssumption ==
  /\ MaxId \in Nat /\ FreeIds \in Nat /\ NumNodes \in Nat /\ MaxFaults \in Nat
  /\ Home \in [Threads -> Spds]
  /\ None \notin Threads /\ None \notin Spds /\ None \notin Int

EINVAL == -22
EAGAIN == -11
EACCES == -13
ENOMEM == -12
DEAD == -57005       \* -0xDEAD, what the default stub returns after a fault

VARIABLES
  map,     \* evt_map: id -> address of its struct evt, or None
  node,    \* struct evt by address; a freed one keeps its contents
  used,    \* the addresses the slab has handed out
  bthd,    \* bthd of the struct evt; EVT_BLOCKED is set exactly with it
  ns,      \* ns_evtids: the creator of each id, and the list of free ids
  desc,    \* evt_desc_maps: per component, id -> struct desc_track or None
  gcnt,    \* global_fault_cnt of each component's stub
  seen,    \* the manager's fault counter in each component's capabilities
  fcnt,    \* the manager's fault counter in the kernel
  th,      \* the call each thread is in
  woken,   \* the scheduler keeps a wakeup for this thread
  freed    \* history: a component has called evt_free

vars == <<map, node, used, bthd, ns, desc, gcnt, seen, fcnt, th,
          woken, freed>>
server == <<map, node, used, bthd>>
stub == <<desc, gcnt, seen>>

-----------------------------------------------------------------------------
(* struct evt, and the rings of cos_list.h its members are linked in.      *)

Node(a, kind, p, spd) ==
  [kind |-> kind, trig |-> FALSE, eid |-> 0, grp |-> p, creator |-> spd,
   iachildren |-> None, tchildren |-> None, next |-> a, prev |-> a]

Zero(a) == Node(a, "normal", None, None)

\* Mutant: the removed member is poisoned instead of linked to itself.
REM_LIST_POISON(N, a) ==
  LET M == [N EXCEPT ![N[a].next].prev = N[a].prev]
      L == [M EXCEPT ![M[a].prev].next = M[a].next]
  IN  [L EXCEPT ![a].next = None, ![a].prev = None]

REM_LIST(N, a) ==
  LET M == [N EXCEPT ![N[a].next].prev = N[a].prev]
      L == [M EXCEPT ![M[a].prev].next = M[a].next]
  IN  [L EXCEPT ![a].next = a, ![a].prev = a]

ADD_LIST(N, h, a) ==
  LET M == [N EXCEPT ![a].next = N[h].next, ![a].prev = h]
      L == [M EXCEPT ![h].next = a]
  IN  [L EXCEPT ![L[a].next].prev = a]

ADD_END_LIST(N, h, a) == ADD_LIST(N, N[h].prev, a)

EMPTY_LIST(N, a) == N[a].next = a

Last(s) == s[Len(s)]
Front(s) == SubSeq(s, 1, Len(s) - 1)

\* a, its group, that one's group...; and a, the head of its triggered
\* children...: a walk that is still not at its end after every node never
\* ends.
Walk(N, a, f(_)) ==
  LET w[n \in 0..NumNodes] ==
        IF n = 0 THEN <<a>>
        ELSE IF f(Last(w[n - 1])) = None THEN w[n - 1]
        ELSE Append(w[n - 1], f(Last(w[n - 1])))
  IN  w[NumNodes]

Up(N, a) == Walk(N, a, LAMBDA g : N[g].grp)
Down(N, a) == Walk(N, a, LAMBDA g : N[g].tchildren)

\* The rounds of a loop along a walk, first to last.
Rounds(round(_, _), base, walk) ==
  LET r[n \in 0..Len(walk)] ==
        IF n = 0 THEN base ELSE round(r[n - 1], walk[n])
  IN  r[Len(walk)]

-----------------------------------------------------------------------------
(* The manager's sections, as functions of its data.                       *)

\* __evt_alloc up to the name server: the parent is checked, a node taken
\* from the slab and linked as an inactive child.
AllocError(par, spd) ==
  CASE par # 0 /\ map[par] = None -> EINVAL
    [] par # 0 /\ map[par] # None
         /\ \/ node[map[par]].creator # spd
            \/ node[map[par]].kind # "group" -> ENOMEM
    [] OTHER -> IF used = Addr THEN ENOMEM ELSE 0

FreeNode == CHOOSE a \in Addr : a \notin used

Linked(par, kind, spd) ==
  LET a == FreeNode
      p == IF par = 0 THEN None ELSE map[par]
      N == [node EXCEPT ![a] = Node(a, kind, p, spd)]
  IN  IF p = None THEN N
      ELSE IF N[p].iachildren # None THEN ADD_LIST(N, N[p].iachildren, a)
      ELSE [N EXCEPT ![p].iachildren = a]

\* One round of the loop of __evt_trigger: g is triggered and moves to the
\* end of its group's triggered children.
Propagate(N, g) ==
  LET p == N[g].grp
      M == [N EXCEPT ![g].trig = TRUE]
      L == REM_LIST(M, g)
  IN  IF p = None THEN M
      ELSE IF L[p].tchildren = None THEN [L EXCEPT ![p].tchildren = g]
      ELSE ADD_END_LIST(L, L[p].tchildren, g)

Triggered(a) == Rounds(Propagate, node, Up(node, a))

\* The most specific event with a thread blocked on it, or the root.
Target(a) ==
  LET up == Up(node, a)
      hit == {i \in DOMAIN up : bthd[up[i]] # None}
  IN  IF hit = {} THEN Last(up)
      ELSE up[CHOOSE i \in hit : \A j \in hit : i <= j]

\* Mutant: the group stays marked when its last triggered child leaves.
RetireMarked(acc, g) ==
  LET N == acc.n
      r == N[g].tchildren
      M == IF EMPTY_LIST(N, r)
           THEN [REM_LIST(N, r) EXCEPT ![g].tchildren = None]
           ELSE [REM_LIST(N, r) EXCEPT ![g].tchildren = N[r].next]
  IN  IF ~acc.more \/ ~acc.ok THEN acc
      ELSE IF r = None THEN [acc EXCEPT !.ok = FALSE]
      ELSE [n |-> IF M[g].iachildren # None
                  THEN ADD_LIST(M, M[g].iachildren, r)
                  ELSE [M EXCEPT ![g].iachildren = r],
            more |-> EMPTY_LIST(N, r), ok |-> TRUE]

\* One round of the loop of __evt_wait on the way up from the event that is
\* delivered: the head of g's triggered children becomes inactive.  The
\* round asserts that there is one.
Retire(acc, g) ==
  LET N == acc.n
      r == N[g].tchildren
      M == IF EMPTY_LIST(N, r)
           THEN [REM_LIST(N, r) EXCEPT ![g].tchildren = None, ![g].trig = FALSE]
           ELSE [REM_LIST(N, r) EXCEPT ![g].tchildren = N[r].next]
  IN  IF ~acc.more \/ ~acc.ok THEN acc
      ELSE IF r = None THEN [acc EXCEPT !.ok = FALSE]
      ELSE [n |-> IF M[g].iachildren # None
                  THEN ADD_LIST(M, M[g].iachildren, r)
                  ELSE [M EXCEPT ![g].iachildren = r],
            more |-> EMPTY_LIST(N, r), ok |-> TRUE]

Delivered(a) ==
  LET N == [node EXCEPT ![Last(Down(node, a))].trig = FALSE] IN
  Rounds(Retire, [n |-> N, more |-> TRUE, ok |-> TRUE],
         Tail(Up(N, Last(Down(N, a)))))

\* The loops of __evt_free end only for a list of one child.
FreeEnds(a) ==
  \A h \in {node[a].iachildren, node[a].tchildren} \ {None} : EMPTY_LIST(node, h)

Freed(a) ==
  LET N == [b \in Addr |->
              IF b \in {node[a].iachildren, node[a].tchildren}
              THEN [node[b] EXCEPT !.grp = None] ELSE node[b]]
  IN  REM_LIST([N EXCEPT ![a].iachildren = None, ![a].tchildren = None], a)

-----------------------------------------------------------------------------
(* A thread's call.  pc says where it is:                                  *)
(*   run      in its component, between calls                              *)
(*   update   the stub is about to bring descriptor upd up to date         *)
(*   recover  the stub is about to call evt_split_exist for Last(rec)      *)
(*   invoke   the stub is about to invoke the manager                      *)
(*   fault    the invocation came back with a fault                        *)
(*   ret      the invocation came back with ret                            *)
(*   again    in the manager, evt_wait is about to look at its event       *)
(*   block    in the manager, about to call sched_block                    *)
(*   sleep    in the manager, blocked in the scheduler                     *)
(*   wake     in the manager, about to call sched_wakeup for tid           *)
(*   nsfree   in the manager, about to call ns_free                        *)
(*   spin     in the manager, in a loop that does not end, with evt_lock   *)
(*   assert   stopped by an assertion in its component                     *)

Idle == [pc |-> "run", op |-> "none", id |-> 0, par |-> 0, kind |-> "normal",
         ret |-> 0, tid |-> None, upd |-> 0, rec |-> <<>>, inner |-> FALSE]

InServer == {"again", "block", "sleep", "wake", "nsfree", "spin"}

Begin(op) == IF op = "split" THEN "update" ELSE "invoke"

Set(t, r) == th' = [th EXCEPT ![t] = r]
Goto(t, pc) == Set(t, [th[t] EXCEPT !.pc = pc])
Return(t, ret) == Set(t, [th[t] EXCEPT !.pc = "ret", !.ret = ret])

\* evt_lock is free, and the thread has got through to the manager.
LockFree == \A u \in Threads : th[u].pc # "spin"
Current(spd) == seen[spd] = fcnt
Entered(t, op) ==
  /\ th[t].op = op
  /\ th[t].pc = "invoke" /\ Current(Home[t])
  /\ LockFree

Held(spd) == {i \in Ids : desc[spd][i] # None}

Init ==
  /\ map = [i \in Ids |-> None]
  /\ node = [a \in Addr |-> Zero(a)]
  /\ used = {}
  /\ bthd = [a \in Addr |-> None]
  /\ ns = [creator |-> [i \in Ids |-> None], free |-> [i \in Ids |-> i]]
  /\ desc = [s \in Spds |-> [i \in Ids |-> None]]
  /\ gcnt = [s \in Spds |-> 0]
  /\ seen = [s \in Spds |-> 0]
  /\ fcnt = 0
  /\ th = [t \in Threads |-> Idle]
  /\ woken = [t \in Threads |-> FALSE]
  /\ freed = FALSE

-----------------------------------------------------------------------------
(* The client component makes a call: it splits below one of its own       *)
(* events or at the root, waits for and frees its own events, and triggers *)
(* any event a component has.                                              *)

InUse == MaxId - Len(ns.free)

Call(t) ==
  /\ th[t].pc = "run"
  /\ \/ \E par \in {0} \cup Held(Home[t]), kind \in {"group", "normal"} :
          /\ "split" \in Ops[Home[t]]
          /\ ns.free # <<>> /\ (freed => InUse < FreeIds)
          /\ Set(t, [Idle EXCEPT !.pc = "update", !.op = "split", !.par = par,
                                 !.upd = par, !.kind = kind])
     \/ \E op \in {"wait", "free"} \cap Ops[Home[t]], i \in Held(Home[t]) :
          /\ op = "free" => InUse <= FreeIds
          /\ Set(t, [Idle EXCEPT !.pc = "invoke", !.op = op, !.id = i])
     \/ \E s \in Spds : \E op \in {"trigger"} \cap Ops[Home[t]], i \in Held(s) :
          Set(t, [Idle EXCEPT !.pc = "invoke", !.op = op, !.id = i])
  /\ freed' = (freed \/ th'[t].op = "free")
  /\ UNCHANGED <<server, ns, stub, fcnt, woken>>

\* The invocation finds the capability behind the manager's fault counter.
Stale(t) ==
  /\ th[t].pc = "invoke" /\ ~Current(Home[t])
  /\ Goto(t, "fault")
  /\ UNCHANGED <<server, ns, stub, fcnt, woken>>

\* CSTUB_FAULT_UPDATE, and back to redo.
FaultUpdate(t) ==
  /\ th[t].pc = "fault"
  /\ seen' = [seen EXCEPT ![Home[t]] = fcnt]
  /\ gcnt' = [gcnt EXCEPT ![Home[t]] = @ + 1]
  /\ Set(t, [th[t] EXCEPT !.pc = Begin(th[t].op), !.upd = th[t].par])
  /\ UNCHANGED <<server, ns, desc, fcnt, woken>>

-----------------------------------------------------------------------------
(* The manager.                                                            *)

\* The id ns_alloc answers with: a new one, or the existing one unless the
\* name server has deleted it.
NsAlloc(existing) ==
  IF existing = 0 THEN Head(ns.free)
  ELSE IF ns.creator[existing] # None THEN existing ELSE -1

NsAfter(spd, existing) ==
  IF existing # 0 THEN ns
  ELSE [creator |-> [ns.creator EXCEPT ![Head(ns.free)] = spd],
        free |-> Tail(ns.free)]

\* Mutant: an entry that exists is replaced.
AddReplaces(par, spd, existing) == FALSE

\* cvect_add asserts that the id is not in evt_map.
AddAsserts(par, spd, existing) ==
  /\ AllocError(par, spd) = 0
  /\ NsAlloc(existing) > 0
  /\ map[NsAlloc(existing)] # None

\* The section of __evt_split, with its result.
Split(par, kind, spd, existing, ret) ==
  LET id == NsAlloc(existing) IN
  /\ ~AddAsserts(par, spd, existing)
  /\ IF AllocError(par, spd) # 0
     THEN ret = AllocError(par, spd) /\ UNCHANGED <<server, ns>>
     ELSE /\ used' = used \cup {FreeNode}
          /\ node' = [Linked(par, kind, spd) EXCEPT ![FreeNode].eid = id]
          /\ ns' = NsAfter(spd, existing)
          /\ map' = IF id > 0 THEN [map EXCEPT ![id] = FreeNode] ELSE map
          /\ ret = IF id > 0 THEN id ELSE ENOMEM
          /\ UNCHANGED bthd

EvtSplit(t) ==
  /\ Entered(t, "split") /\ ns.free # <<>>
  /\ \E ret \in Ids \cup {EINVAL, ENOMEM} :
       /\ Split(th[t].par, th[t].kind, Home[t], 0, ret)
       /\ Return(t, ret)
  /\ UNCHANGED <<stub, fcnt, woken>>

\* __evt_wait finds that the assertion of its upward walk does not hold.
WaitAsserts(t) ==
  LET a == map[th[t].id] IN
  /\ th[t].op = "wait" /\ th[t].pc \in {"invoke", "again"}
  /\ a # None
  /\ bthd[a] = None /\ node[a].creator = Home[t] /\ node[a].trig
  /\ ~Delivered(a).ok

Spins(N, walk, f) == N[Last(walk)][f] # None

EvtWait(t) ==
  LET a == map[th[t].id] IN
  /\ Entered(t, "wait") \/ (th[t].pc = "again" /\ LockFree)
  /\ \/ /\ IF a = None THEN TRUE ELSE bthd[a] = None /\ node[a].creator # Home[t]
        /\ Return(t, EINVAL)
        /\ UNCHANGED server
     \/ /\ IF a = None THEN FALSE ELSE bthd[a] # None
        /\ Return(t, EAGAIN)
        /\ UNCHANGED server
     \/ /\ a # None
        /\ bthd[a] = None /\ node[a].creator = Home[t] /\ ~node[a].trig
        /\ bthd' = [bthd EXCEPT ![a] = t]
        /\ Goto(t, "block")
        /\ UNCHANGED <<map, node, used>>
     \/ /\ a # None
        /\ bthd[a] = None /\ node[a].creator = Home[t] /\ node[a].trig
        /\ ~WaitAsserts(t)
        /\ IF \/ Spins(node, Down(node, a), "tchildren")
              \/ /\ Delivered(a).more
                 /\ Spins(node, Up(node, Last(Down(node, a))), "grp")
           THEN Goto(t, "spin") /\ UNCHANGED server
           ELSE /\ node' = Delivered(a).n
                /\ Return(t, node[Last(Down(node, a))].eid)
                /\ UNCHANGED <<map, used, bthd>>
  /\ UNCHANGED <<ns, stub, fcnt, woken>>

\* sched_block of evt_wait: a wakeup that came first is used up.
Block(t) ==
  /\ th[t].pc = "block"
  /\ woken' = [woken EXCEPT ![t] = FALSE]
  /\ Goto(t, IF woken[t] THEN "again" ELSE "sleep")
  /\ UNCHANGED <<server, ns, stub, fcnt>>

EvtTrigger(t) ==
  LET a == map[th[t].id] IN
  /\ Entered(t, "trigger")
  /\ \/ /\ IF a = None THEN TRUE ELSE node[a].kind # "normal"
        /\ Return(t, EINVAL)
        /\ UNCHANGED server
     \/ /\ a # None
        /\ node[a].kind = "normal"
        /\ IF Spins(node, Up(node, a), "grp")
           THEN Goto(t, "spin") /\ UNCHANGED server
           ELSE LET g == Target(a) IN
                /\ node' = Triggered(a)
                /\ bthd' = [bthd EXCEPT ![g] = None]
                /\ Set(t, [th[t] EXCEPT !.tid = bthd[g], !.ret = 0,
                             !.pc = IF bthd[g] = None THEN "ret" ELSE "wake"])
                /\ UNCHANGED <<map, used>>
  /\ UNCHANGED <<ns, stub, fcnt, woken>>

\* Mutant: a thread that does not sleep yet is not woken.
WakeSleeping(t) ==
  LET w == th[t].tid
      back == [th[t] EXCEPT !.pc = "ret", !.tid = None] IN
  /\ th[t].pc = "wake"
  /\ th' = IF th[w].pc = "sleep" THEN [th EXCEPT ![t] = back, ![w].pc = "again"]
           ELSE [th EXCEPT ![t] = back]
  /\ UNCHANGED <<server, ns, stub, fcnt, woken>>

\* sched_wakeup of evt_trigger: it ends the thread's sleep or is kept.
Wake(t) ==
  LET w == th[t].tid
      back == [th[t] EXCEPT !.pc = "ret", !.tid = None] IN
  /\ th[t].pc = "wake"
  /\ IF th[w].pc = "sleep"
     THEN th' = [th EXCEPT ![t] = back, ![w].pc = "again"] /\ UNCHANGED woken
     ELSE Set(t, back) /\ woken' = [woken EXCEPT ![w] = TRUE]
  /\ UNCHANGED <<server, ns, stub, fcnt>>

EvtFree(t) ==
  LET a == map[th[t].id] IN
  /\ Entered(t, "free")
  /\ \/ /\ IF a = None THEN TRUE
           ELSE node[a].creator # Home[t] \/ bthd[a] # None
        /\ Return(t, 0)
        /\ UNCHANGED server
     \/ /\ a # None
        /\ node[a].creator = Home[t] /\ bthd[a] = None
        /\ IF FreeEnds(a)
           THEN /\ node' = Freed(a)
                /\ map' = [map EXCEPT ![th[t].id] = None]
                /\ used' = used \ {a}
                /\ UNCHANGED bthd
                /\ Goto(t, "nsfree")
           ELSE Goto(t, "spin") /\ UNCHANGED server
  /\ UNCHANGED <<ns, stub, fcnt, woken>>

NsFree(t) ==
  LET i == th[t].id IN
  /\ th[t].pc = "nsfree"
  /\ ns' = IF ns.creator[i] = None THEN ns
           ELSE [creator |-> [ns.creator EXCEPT ![i] = None],
                 free |-> <<i>> \o ns.free]
  /\ Return(t, 0)
  /\ UNCHANGED <<server, stub, fcnt, woken>>

-----------------------------------------------------------------------------
(* The client stub.                                                        *)

\* After an evt_wait that the recovery of a trigger made, the stub tries the
\* trigger again; any other call is over.
Over(c) ==
  IF c.inner
  THEN [c EXCEPT !.op = "trigger", !.pc = "invoke", !.ret = 0, !.inner = FALSE]
  ELSE Idle

\* block_cli_if_track_evt_wait and _trigger answer -EINVAL with a recovery and
\* another try.
TrackCall(t) ==
  LET c == th[t] IN
  /\ c.pc = "ret" /\ c.op \in {"wait", "trigger"}
  /\ Set(t, IF c.ret = EINVAL
            THEN [c EXCEPT !.pc = "update", !.upd = c.id, !.ret = 0]
            ELSE Over(c))
  /\ UNCHANGED <<server, ns, stub, fcnt, woken>>

\* block_cli_if_track_evt_split: call_desc_alloc asserts that the id is one
\* and has no descriptor yet.
TrackSplit(t) ==
  LET c == th[t]
      s == Home[t] IN
  /\ c.pc = "ret" /\ c.op = "split"
  /\ \/ c.ret = EINVAL /\ Set(t, Over(c)) /\ UNCHANGED desc
     \/ /\ c.ret \in Ids \ Held(s)
        /\ desc' = [desc EXCEPT ![s][c.ret] =
                     [par |-> c.par, kind |-> c.kind, fcnt |-> gcnt[s]]]
        /\ Set(t, Over(c))
     \/ /\ c.ret \notin {EINVAL} \cup (Ids \ Held(s))
        /\ Goto(t, "assert") /\ UNCHANGED desc
  /\ UNCHANGED <<server, ns, gcnt, seen, fcnt, woken>>

\* Mutant: evt_free leaves the descriptor.
TrackFreeKeeps(t) ==
  /\ th[t].pc = "ret" /\ th[t].op = "free"
  /\ Set(t, Over(th[t]))
  /\ UNCHANGED <<server, ns, stub, fcnt, woken>>

\* block_cli_if_track_evt_free, whatever the manager answered.
TrackFree(t) ==
  /\ th[t].pc = "ret" /\ th[t].op = "free"
  /\ desc' = [desc EXCEPT ![Home[t]][th[t].id] = None]
  /\ Set(t, Over(th[t]))
  /\ UNCHANGED <<server, ns, gcnt, seen, fcnt, woken>>

\* The stub whose code the thread is in: its own, or in a recovery the one
\* of the component the recovery is for.
In(t) == IF th[t].rec = <<>> THEN Home[t] ELSE Last(th[t].rec).spd

Frame(s, i, up) ==
  [spd |-> s, d |-> i, id |-> i, par |-> desc[s][i].par,
   kind |-> desc[s][i].kind, up |-> up]

Resume(t) ==
  Set(t, [th[t] EXCEPT !.upd = 0,
                       !.pc = IF th[t].rec = <<>> THEN "invoke" ELSE "recover"])
Push(t, f) ==
  Set(t, [th[t] EXCEPT !.upd = 0, !.rec = Append(@, f), !.pc = "recover"])

\* ns_upcall: the component the name server knows as the event's creator.
NsUpcall(id) == ns.creator[id]

\* call_desc_update.  A descriptor the component does not have is rebuilt
\* by its creator, which the name server finds and upcalls.
Update(t) ==
  LET u == th[t].upd
      s == In(t)
      own == u # 0 /\ u \in Held(s) IN
  /\ th[t].pc = "update"
  /\ \/ /\ u = 0
        /\ Resume(t) /\ UNCHANGED desc
     \/ /\ u # 0 /\ ~own
        /\ IF ~Current(s) \/ NsUpcall(u) = None THEN Resume(t)
           ELSE IF u \in Held(NsUpcall(u)) THEN Push(t, Frame(NsUpcall(u), u, TRUE))
           ELSE Goto(t, "assert")
        /\ UNCHANGED desc
     \/ /\ own
        /\ IF desc[s][u].fcnt = gcnt[s] THEN Resume(t) /\ UNCHANGED desc
           ELSE /\ desc' = [desc EXCEPT ![s][u].fcnt = gcnt[s]]
                /\ Push(t, Frame(s, u, FALSE))
  /\ UNCHANGED <<server, ns, gcnt, seen, fcnt, woken>>

\* The end of block_cli_if_basic_id, and of call_desc_update around it: the
\* recovery of a trigger goes on with an evt_wait for the event.
Recovered(t) ==
  LET c == th[t]
      r == Last(c.rec)
      b == Front(c.rec) IN
  IF b # <<>> THEN [c EXCEPT !.rec = b]
  ELSE IF c.op = "trigger" /\ ~r.up
  THEN [c EXCEPT !.rec = b, !.pc = "invoke", !.op = "wait", !.inner = TRUE]
  ELSE [c EXCEPT !.rec = b, !.pc = "invoke"]

DescRecovered(t) ==
  LET r == Last(th[t].rec) IN
  IF r.d \in Held(r.spd)
  THEN [desc EXCEPT ![r.spd][r.d].fcnt = gcnt[r.spd]] ELSE desc

\* The descriptor behind the pointer block_cli_if_basic_id keeps: a freed one
\* still has its contents.
Kept(r) == IF r.d \in Held(r.spd) THEN desc[r.spd][r.d] ELSE r

\* block_cli_if_basic_id calls evt_split_exist.  When the parent is missing
\* it recovers that one first and calls again, now with the parent's id.
\* Any other answer is taken for success, also the default stub's -0xDEAD
\* for a capability that is behind.
Recover(t) ==
  LET c == th[t]
      r == Last(c.rec)
      par == Kept(r).par IN
  /\ c.pc = "recover"
  /\ \/ /\ ~Current(r.spd)
        /\ Set(t, Recovered(t)) /\ desc' = DescRecovered(t)
        /\ UNCHANGED <<server, ns>>
     \/ /\ Current(r.spd) /\ LockFree
        /\ \E ret \in Ids \cup {EINVAL, ENOMEM} :
             /\ Split(par, Kept(r).kind, r.spd, r.id, ret)
             /\ IF ret = EINVAL
                THEN /\ Set(t, [c EXCEPT !.pc = "update", !.upd = par,
                                  !.rec = Append(Front(@), [r EXCEPT !.id = par])])
                     /\ UNCHANGED desc
                ELSE Set(t, Recovered(t)) /\ desc' = DescRecovered(t)
  /\ UNCHANGED <<gcnt, seen, fcnt, woken>>

-----------------------------------------------------------------------------
(* The manager fails while t executes in it - by a transient fault, or by  *)
(* one of its assertions - and is rebooted: its data is gone, every thread *)
(* inside comes back to its stub with a fault, the sleeping ones woken by  *)
(* the reflection.  The default stub of evt_split_exist has no fault path  *)
(* and answers -0xDEAD.                                                    *)
Executes(t) ==
  \/ th[t].pc = "invoke" /\ Current(Home[t]) /\ LockFree
  \/ th[t].pc \in InServer \ {"sleep", "spin"}
  \/ th[t].pc = "recover" /\ Current(Last(th[t].rec).spd) /\ LockFree

Fail(t) ==
  /\ fcnt < MaxFaults
  /\ Executes(t)
  /\ fcnt' = fcnt + 1
  /\ map' = [i \in Ids |-> None]
  /\ node' = [a \in Addr |-> Zero(a)]
  /\ used' = {}
  /\ bthd' = [a \in Addr |-> None]
  /\ th' = [u \in Threads |->
              IF u = t /\ th[u].pc = "recover" THEN Recovered(u)
              ELSE IF u = t \/ th[u].pc \in InServer
              THEN [th[u] EXCEPT !.pc = "fault", !.tid = None]
              ELSE th[u]]
  /\ desc' = IF th[t].pc = "recover" THEN DescRecovered(t) ELSE desc
  /\ UNCHANGED <<ns, gcnt, seen, woken>>

Step(t) ==
  \/ Stale(t) \/ FaultUpdate(t) \/ EvtSplit(t) \/ EvtWait(t) \/ Block(t)
  \/ EvtTrigger(t) \/ Wake(t) \/ EvtFree(t) \/ NsFree(t)
  \/ TrackCall(t) \/ TrackSplit(t) \/ TrackFree(t) \/ Update(t) \/ Recover(t)

Next == \E t \in Threads : Call(t) \/ ((Step(t) \/ Fail(t)) /\ UNCHANGED freed)

Spec == Init /\ [][Next]_vars

-----------------------------------------------------------------------------
(* Properties.                                                             *)

Calls ==
  [pc : InServer \cup {"run", "update", "recover", "invoke", "fault", "ret", "assert"},
   op : {"none", "split", "wait", "trigger", "free"},
   id : Ids \cup {0}, par : Ids \cup {0}, kind : {"group", "normal"},
   ret : Int, tid : Threads \cup {None}, upd : Ids \cup {0},
   rec : Seq([spd : Spds, d : Ids, id : Ids, par : Ids \cup {0},
              kind : {"group", "normal"}, up : BOOLEAN]),
   inner : BOOLEAN]

\* Every variable keeps its type: in particular the pointers of struct evt
\* stay inside the slab, and the threads recorded as blocked are threads.
TypeOK ==
  /\ map \in [Ids -> Addr \cup {None}]
  /\ node \in [Addr ->
       [kind : {"group", "normal"}, trig : BOOLEAN, eid : Int,
        grp : Addr \cup {None}, creator : Spds \cup {None},
        iachildren : Addr \cup {None}, tchildren : Addr \cup {None},
        next : Addr, prev : Addr]]
  /\ used \subseteq Addr
  /\ bthd \in [Addr -> Threads \cup {None}]
  /\ ns \in [creator : [Ids -> Spds \cup {None}], free : Seq(Ids)]
  /\ desc \in [Spds -> [Ids -> {None} \cup
                 [par : Ids \cup {0}, kind : {"group", "normal"}, fcnt : Nat]]]
  /\ gcnt \in [Spds -> Nat]
  /\ seen \in [Spds -> Nat]
  /\ fcnt \in Nat
  /\ th \in [Threads -> Calls]
  /\ woken \in [Threads -> BOOLEAN]
  /\ freed \in BOOLEAN

\* A thread that sleeps in evt_wait can still be woken: the event it waits
\* for is in evt_map and names it as its blocked thread, so a trigger of the
\* event finds it, or a trigger has taken it off the event and is about to
\* call sched_wakeup for it.  This is what __evt_wait and __evt_trigger must
\* keep although sched_block and sched_wakeup are called outside evt_lock,
\* events are freed and their memory is used again, and the manager fails.
SleeperCanBeWoken ==
  \A t \in Threads : th[t].pc = "sleep" =>
    \/ /\ map[th[t].id] # None
       /\ bthd[map[th[t].id]] = t
    \/ \E u \in Threads : th[u].pc = "wake" /\ th[u].tid = t

\* A group is marked triggered exactly as long as it has triggered children,
\* however events of the group and of groups inside it are triggered, waited
\* for and freed: __evt_trigger and __evt_wait change the mark and the list
\* in different rounds of their loops.
GroupTriggered ==
  \A i \in Ids : map[i] # None =>
    LET n == node[map[i]] IN
    n.kind = "group" => (n.trig <=> n.tchildren # None)

Freeing(i) == \E t \in Threads : th[t].op = "free" /\ th[t].id = i

\* An event a stub has a descriptor for is still registered under the stub's
\* component at the name server, unless it is just being freed: without the
\* registration evt_split_exist could not rebuild it after a failure.
DescRegistered ==
  \A s \in Spds : \A i \in Held(s) : ns.creator[i] = s \/ Freeing(i)

\* As long as no event is freed, an event means the same to the manager as to
\* the stub of the component that created it - its id, its kind and the group
\* it is in - also after the manager was rebooted and the event was rebuilt
\* from the stub's descriptor, by whichever thread and in whichever order.
ServerMatchesDesc ==
  \A i \in Ids : map[i] # None /\ ~freed =>
    LET n == node[map[i]]
        d == desc[n.creator][i] IN
    d # None =>
      /\ n.eid = i /\ n.kind = d.kind
      /\ n.grp = (IF d.par = 0 THEN None ELSE map[d.par])
=============================================================================
