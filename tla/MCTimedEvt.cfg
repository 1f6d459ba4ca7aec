CONSTANTS
  th1 = th1
  th2 = th2
  Threads <- MCThreads
  Home <- MCHome
  Ops <- MCOps
  Amounts = {3}
  Periods = {2}
  MaxLag = 2
  MaxRestart = 1
  MaxFaults = 1
  Timer = timer
  None = None
SPECIFICATION FairSpec
INVARIANTS TypeOK ExpirationArmed NotEarly ListAssertionsHold WalkOverlooksNothing ActivationsConserved
 
CHECK_DEADLOCK FALSE
