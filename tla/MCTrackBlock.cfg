CONSTANTS
  th1 = th1
  th2 = th2
  th3 = th3
  th4 = th4
  Threads <- FourThreads
  Anchor = Anchor
SPECIFICATION Spec
INVARIANTS TypeOK ListHoldsTracked WalkEndsComplete
SYMMETRY Symmetry
CHECK_DEADLOCK TRUE
