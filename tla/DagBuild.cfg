SPECIFICATION FairSpec
CONSTANTS
  a = a
  b = b
  c = c
  unknown = unknown
  Node = {a, b, c}
  Manifests <- TwoManifests
  Declarable <- AnyDependency
INVARIANTS
  ExactAncestry
  MarkedWereAskedFor
  CopiesAgree
  OnlyDags
PROPERTY
  CreateEnds
CHECK_DEADLOCK FALSE
