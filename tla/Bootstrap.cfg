SPECIFICATION Spec
CONSTANTS
  Rings = {mine, other}
  Mine = mine
  Nodes = {n1, n2}
  Initial = n1
  MaxNum = 7
  MaxFaults = 2
  MaxRuns = 2
  Deletions = {{"keyring"}, {"master"}, {"keyring", "master"}}
INVARIANTS Usable OldConfigKept FailureRestores OthersKeyKept OneAccount
PROPERTIES BootstrapEnds
CHECK_DEADLOCK FALSE
