------------------------------- MODULE MCLock -------------------------------
(* The lock with model values for its threads. *)
EXTENDS Lock

CONSTANTS th1, th2, th3

TwoThreads == {th1, th2}

ThreeThreads == {th1, th2, th3}
=============================================================================
