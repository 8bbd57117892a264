SPECIFICATION ProviderSpec
CONSTANTS
  shared = shared
  own = own
  values = values
  aws = aws
  region = region
  notes = notes
  ami = ami
  zone = zone
  app = app
  mail = mail
  f = f
  g = g
  h = h
  i = i
  Root <- Roots
  Precedence <- Names
  Trees <- MostTrees
  Node = {ami, zone, app, mail}
  Dependency <- Chain
  File = {f, g, h, i}
  FilesOf <- Files
  PreAction = {zone, app}
INVARIANTS
  MergedExactly
  OverridesByName
  SeesFiles
  ProviderInv
CHECK_DEADLOCK FALSE
