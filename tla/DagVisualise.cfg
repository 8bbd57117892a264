SPECIFICATION VisualiseSpec
CONSTANTS
  a = a
  b = b
  c = c
  d = d
  Node = {a, b, c, d}
  Edge <- Diamond
  Down = TRUE
  Worker = {w1, w2}
  ProcessCap = 2
  DoneCap = 2
  Boot = Boot
  NoNode = NoNode
  MarkedSets <- AllButOne
INVARIANTS
  IInv
  OnePlace
  NoChannelPanic
  NoLostWakeup
  ArrowsDrawn
PROPERTY
  Schedule
CHECK_DEADLOCK FALSE
