CONSTANTS
  th1 = th1
  th2 = th2
  tmr = tmr
  idle = idle
  Threads <- MCThreads
  Idle = idle
  TimerThd = tmr
  Spds = {1, 2}
  NoThd = NoThd
  SchedSpd = 9
  Priority <- MCPriority
  MaxTimeout = 3
SPECIFICATION FairSpec
INVARIANTS TypeOK WakeCountAgrees  SectionsAccounted HolderCanRun RunsReady InheritedPriority
PROPERTIES  TopContenderServed TimeoutWakes
CHECK_DEADLOCK TRUE
