------------------------------- MODULE Mutex -------------------------------
(***************************************************************************)
(* What lock_take and lock_release promise to a client: a lock is held by  *)
(* one thread at a time, and only that thread gives it up.                 *)
(***************************************************************************)
CONSTANTS Threads, Locks

VARIABLE holders    \* holders[l]: the threads that returned from lock_take(l)

Init == holders = [l \in Locks |-> {}]

Acquire(t, l) ==
  /\ holders[l] = {}
  /\ holders' = [holders EXCEPT ![l] = {t}]

Release(t, l) ==
  /\ holders[l] = {t}
  /\ holders' = [holders EXCEPT ![l] = {}]

Next == \E t \in Threads, l \in Locks : Acquire(t, l) \/ Release(t, l)

Spec == Init /\ [][Next]_holders
=============================================================================
