---------------------------- MODULE MCFaultNotif ----------------------------
(* Small systems of components for FaultNotif. *)
EXTENDS FaultNotif, TLC

CONSTANTS th1, th2, net, timer, evt, lock

\* Event manager over lock manager over scheduler, as the components are
\* linked; net waits in its own component, the timer in the scheduler.
TwoServices ==
  {<<App, evt>>, <<App, lock>>, <<evt, lock>>, <<lock, Sched>>}

OneService == {<<App, lock>>, <<lock, Sched>>}

Homes == [u \in Upcalls |-> IF u = timer THEN Sched ELSE App]

\* th2 over net over th1, the timer over all.
Ranked ==
  LET rank == <<th1, net, th2, timer>> IN
  {<<rank[i], rank[j]>> : <<i, j>> \in {p \in (1..4) \X (1..4) : p[1] > p[2]}}

Symmetry == Permutations(Threads)
=============================================================================
