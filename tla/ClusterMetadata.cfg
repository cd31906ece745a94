SPECIFICATION Spec
CONSTANTS
  NumInstances = 2
  NumExtra = 1
INVARIANTS
  OneTrustedView
  OnePrimary
CHECK_DEADLOCK FALSE
