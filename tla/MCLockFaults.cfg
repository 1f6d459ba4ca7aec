CONSTANTS
  th1 = th1
  th2 = th2
  th3 = th3
  Threads <- TwoThreads
  NoThd = NoThd
  Locks = {1}
  MaxFaults = 2
SPECIFICATION FairSpec
INVARIANTS TypeOK OwnerHolds ReleaseSwapSucceeds TrackedInTake
PROPERTIES ImplementsMutex 
CHECK_DEADLOCK TRUE
