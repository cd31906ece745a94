SPECIFICATION FairSpec
CONSTANTS
  Nodes = {n1, n2}
  Clients = {a, b}
  NoOne = NoOne
  Plugin = Plugin
  Refresher = Refresher
  NumMetadataServers = 1
INVARIANTS
  ListenersUpToDate
  RetriesBounded
PROPERTIES
  CallsReturn
  StopReturns
CHECK_DEADLOCK FALSE
