SPECIFICATION Spec
CONSTANTS
  base = base
  web = web
  db = db
  app = app
  shop = shop
  infra = infra
  x = x
  y = y
  z = z
  Node = {base, web, db, app}
  Edge <- Tree
  Manifest = {shop, infra}
  Id = {x, y, z}
  ManifestOf <- Manifests
  IdOf <- Ids
  WithOutputs = {base, web, db}
  LoadsEarly = {web}
  Sensitive = {}
  MapOutput = {web}
  host = host
  port = port
  Field = {host, port}
  Whole = Whole
  NoRegistry = NoRegistry
INVARIANTS
  SeesAncestors
  ShortNamesStayHome
  StackKeepsOutputs
CHECK_DEADLOCK FALSE
