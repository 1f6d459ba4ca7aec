SPECIFICATION Spec
CONSTANTS
  th1 = th1
  th2 = th2
  net = net
  timer = timer
  evt = evt
  lock = lock
  Threads = {th1, th2}
  Upcalls = {timer}
  Recoverer = rec
  Services = {lock}
  App = app
  Sched = sched
  Booter = booter
  Home <- Homes
  Calls <- OneService
  Higher <- Ranked
  MaxFaults = 1
  Preemptible = TRUE
  None = None
INVARIANT NoStaleExecution
