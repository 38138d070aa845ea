SPECIFICATION FairSpec
CONSTANTS
  r1 = r1
  r2 = r2
  t1 = t1
  q1 = q1
  q2 = q2
  NoRun = noRun
  NoThread = noThread
  noRun = noRun
  noThread = noThread
  Runs <- OneRun
  Threads <- T1
  ThreadOf <- OneThreadOf
  Requests <- OneRequest
  Streamed <- OneRun
  QueueSize = 1
  Policy = "block"
  Faults = TRUE
CHECK_DEADLOCK FALSE
INVARIANTS LifecycleInv
PROPERTIES TasksEnd RequestsReturn
