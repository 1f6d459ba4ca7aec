CONSTANTS
  th1 = th1
  th2 = th2
  th3 = th3
  Threads <- TwoThreads
  NoThd = NoThd
  Locks = {1, 2}
  MaxFaults = 0
SPECIFICATION FairSpec
INVARIANTS NoLostWakeup ListsSound
PROPERTIES SleepersWoken
CHECK_DEADLOCK TRUE
