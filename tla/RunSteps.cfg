SPECIFICATION Spec
CONSTANTS
  Unit = {"helm", "terraform"}
  Phase = {"apply_install", "output"}
  Name <- Names
  NoCall = NoCall
  Every = Every
  MaxRecursions = 5
  Configurations <- Kapps
INVARIANTS
  ListIsMerged
  StepsInv
  SuccessMeansNoFailure
CHECK_DEADLOCK FALSE
