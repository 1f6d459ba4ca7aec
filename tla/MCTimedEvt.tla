----------------------------- MODULE MCTimedEvt -----------------------------
(* A thread that blocks with a timeout, and one that is periodic and wakes *)
(* the other, in one client component.                                     *)
EXTENDS TimedEvt, TLC

CONSTANTS th1, th2

MCThreads == {th1, th2}

MCHome == [t \in MCThreads |-> 1]

MCOps == (th1 :> {"block"}) @@ (th2 :> {"create", "wait", "remove", "wakeup"})
=============================================================================
