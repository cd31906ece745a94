SPECIFICATION FairStaticSpec
CONSTANT NumServers = 3
INVARIANTS
  CopyStillQuarantined
  NonePassedOver
  FailedNeverReturns
PROPERTIES
  EventuallyReleased
  StopTerminates
CHECK_DEADLOCK FALSE
