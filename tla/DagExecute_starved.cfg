SPECIFICATION FairExecuteSpec
CONSTANTS
  a = a
  b = b
  c = c
  Node = {a, b, c}
  Edge <- Join
  Down = TRUE
  Worker = {w1}
  ProcessCap = 1
  DoneCap = 0
  Boot = Boot
  NoNode = NoNode
  Commands <- JustInstall
PROPERTY
  ExecuteReturns
CHECK_DEADLOCK FALSE
