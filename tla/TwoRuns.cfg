SPECIFICATION Spec
CONSTANTS
  r1 = r1
  r2 = r2
  t1 = t1
  q1 = q1
  q2 = q2
  NoRun = noRun
  NoThread = noThread
  noRun = noRun
  noThread = noThread
  Runs <- TwoRuns
  Threads <- T1
  ThreadOf <- OneThreadOf
  Requests <- OneRequest
  Streamed <- NoStream
  QueueSize = 1
  Policy = "block"
  Faults = FALSE
SYMMETRY Symmetry
CHECK_DEADLOCK FALSE
INVARIANTS RunsOfThreadInv
