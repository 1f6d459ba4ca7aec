SPECIFICATION Spec
CONSTANTS
  th1 = th1
  th2 = th2
  net = net
  timer = timer
  evt = evt
  lock = lock
  Threads = {th1, th2}
  Upcalls = {net}
  Recoverer = rec
  Services = {evt, lock}
  App = app
  Sched = sched
  Booter = booter
  Home <- Homes
  Calls <- TwoServices
  Higher = {}
  MaxFaults = 2
  Preemptible = FALSE
  None = None
SYMMETRY Symmetry
INVARIANT TypeOK
INVARIANT NoStaleExecution
 
INVARIANT ReflectedBeforeReturn
INVARIANT RecovererKeepsUp
INVARIANT LoopHasWork
