SPECIFICATION FairAcquireSpec
CONSTANTS
  k = k
  l = l
  git1 = git1
  git2 = git2
  file = file
  Kapps <- TwoKapps
  SourcesOf <- ThreeSources
  FileSource = {file}
  MaxRuns = 2
INVARIANTS
  SuccessMeansLinked
PROPERTIES
  NoWorkLost
  AcquireReturns
CHECK_DEADLOCK FALSE
