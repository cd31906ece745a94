SPECIFICATION Spec
CONSTANTS
  c1 = c1  c2 = c2  s1 = s1
  Conns = {c1, c2}
  Hosts = {h1}
  Servers = {s1}
  NumListen = 1
  NoServer = NoServer
  NoConn = NoConn
  NumBuckets = 2
  BucketOf <- MCBucketOf
  MaxConnections = 1
  MaxConnectErrors = 1
  DisconnectOnMetadataUnavailable = TRUE
  RouteModulus = 2
INVARIANTS
  TypeOK
  ThreadsCounted
  RoutesCounted
  SocketsClosed
  NotifierNeverOutlivesRouting
  NotificationComplete
  DrainMarksAll
PROPERTIES
  ImplementsSection
CHECK_DEADLOCK FALSE
