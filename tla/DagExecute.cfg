SPECIFICATION FairExecuteSpec
CONSTANTS
  a = a
  b = b
  c = c
  Node = {a, b, c}
  Edge <- Join
  Down = TRUE
  Worker = {w1, w2}
  ProcessCap = 2
  DoneCap = 0
  Boot = Boot
  NoNode = NoNode
  Commands <- Executed
INVARIANTS
  SuccessMeansApplied
  AppliedInOrder
PROPERTIES
  WalkWithWorkers
  ReturnsWhileServed
CHECK_DEADLOCK FALSE
