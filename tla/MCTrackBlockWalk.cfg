CONSTANTS
  th1 = th1
  th2 = th2
  th3 = th3
  th4 = th4
  Threads <- TwoThreads
  Anchor = Anchor
SPECIFICATION FairSpec
PROPERTIES ReflectionWakesAll
CHECK_DEADLOCK TRUE
