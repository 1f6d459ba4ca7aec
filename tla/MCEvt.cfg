SPECIFICATION Spec
CONSTANTS
  t1 = t1
  t2 = t2
  app = app
  net = net
  Threads = {t1, t2}
  Spds = {app, net}
  Home <- Homes
  MaxId = 3
  FreeIds = 1
  NumNodes = 3
  MaxFaults = 1
  Ops <- Owner
  None = None
CHECK_DEADLOCK FALSE
INVARIANTS TypeOK   DescRegistered ServerMatchesDesc
