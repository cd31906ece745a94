SPECIFICATION FairSpec
CONSTANTS
  c1 = c1  c2 = c2  s1 = s1
  Conns = {c1}
  Hosts = {h1}
  Servers = {s1}
  NumListen = 1
  NoServer = NoServer
  NoConn = NoConn
  NumBuckets = 1
  BucketOf <- MCBucketOf
  MaxConnections = 1
  MaxConnectErrors = 1
  DisconnectOnMetadataUnavailable = FALSE
  RouteModulus = 4
PROPERTIES
  StopTerminates
  DisconnectHonoured
CHECK_DEADLOCK FALSE
