SPECIFICATION FairPrintSpec
CONSTANTS
  a = a
  b = b
  c = c
  d = d
  Node = {a, b, c, d}
  Edge <- Fork
  Down = TRUE
  Worker = {w1}
  ProcessCap = 1
  DoneCap = 1
  Boot = Boot
  NoNode = NoNode
PROPERTIES
  PrintReturns
  GoroutinesEnd
CHECK_DEADLOCK FALSE
