SPECIFICATION FairSpec
CONSTANTS
  task = task
  h1 = h1
  h2 = h2
  c1 = c1
  c2 = c2
  Task <- task
  Handlers <- MCHandlers
  Consumers <- MCConsumers
  Patient <- PatientC1
  MaxSize = 2
  Policy = "block"
  MaxEvents = 4
CHECK_DEADLOCK FALSE
INVARIANTS BlockLosesNothing BrokerInv
PROPERTIES NobodyIsHeldUp FlowsAsPromised
