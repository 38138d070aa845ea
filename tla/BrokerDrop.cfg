SPECIFICATION MCSpec
CONSTANTS
  task = task
  h1 = h1
  h2 = h2
  c1 = c1
  c2 = c2
  Task <- task
  Handlers <- MCHandlers
  Consumers <- MCConsumers
  Patient <- NoPatient
  MaxSize = 2
  Policy = "drop_oldest"
  MaxEvents = 4
  a1 = a1
  a2 = a2
  Askers <- TwoAskers
  Graphs = {"g"}
  Boot = boot
  MaxConns = 3
  MaxDbFaults = 1
SYMMETRY Symmetry
CHECK_DEADLOCK FALSE
INVARIANTS DropKeepsNewest ConnsInv
PROPERTIES FlowsAsPromised
