CONSTANTS
  a = a
  b = b
  Actor = {a, b}
  Group = {g}
  Setups <- MCSetups
  SshMaxTries = 2
SPECIFICATION Spec
INVARIANTS
  SuccessMeansReady
  LaunchedPatched
  TunnelBeforeKubectl
PROPERTIES
  NothingUnwanted
  EveryJobEnds
CHECK_DEADLOCK FALSE
