SPECIFICATION FairSpec
CONSTANTS
  r1 = r1
  r2 = r2
  t1 = t1
  q1 = q1
  q2 = q2
  NoRun = noRun
  NoThread = noThread
  noRun = noRun
  noThread = noThread
  Runs <- OneRun
  Threads <- T1
  ThreadOf <- OneThreadOf
  Requests <- NoRequest
  Streamed <- NoStream
  QueueSize = 1
  Policy = "block"
  Faults = FALSE
CHECK_DEADLOCK FALSE
PROPERTY TasksEnd
