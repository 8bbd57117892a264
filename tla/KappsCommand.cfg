SPECIFICATION Spec
CONSTANTS
  db = db
  app = app
  kops = kops
  helm = helm
  Kapp = {db, app}
  Dependency <- Chain
  Descriptors <- Variants
  Binary = {kops, helm}
  ProvisionerBinary = kops
INVARIANTS
  NothingUnapproved
  CommandInv
  SuccessMeansDone
CHECK_DEADLOCK FALSE
