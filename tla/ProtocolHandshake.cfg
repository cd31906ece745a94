SPECIFICATION Spec
CONSTANTS
  MaxInFlight = 1
INVARIANTS
  AnsweredNotBlamed
  ServerSeesHandshake
  HonestNotAborted
PROPERTIES
  AuthenticatedOrEnded
CHECK_DEADLOCK FALSE
