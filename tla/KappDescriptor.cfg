CONSTANTS
  p1 = p1
  p2 = p2
  Program = {p1, p2}
  Inputs <- MCInputs
  MaxRenders = 2
  Unset = Unset
SPECIFICATION DescriptorSpec
INVARIANTS
  PrecedenceKept
  DescriptorInv
CHECK_DEADLOCK FALSE
