CONSTANTS
  th1 = th1
  th2 = th2
  th3 = th3
  Threads <- ThreeThreads
  NoThd = NoThd
  Locks = {1}
  MaxFaults = 0
SPECIFICATION Spec
INVARIANTS NoLostWakeup
CHECK_DEADLOCK TRUE
