SPECIFICATION Spec
CONSTANTS
  Rings = {mine, other}
  Mine = mine
  Nodes = {n1}
  Initial = n1
  MaxNum = 5
  MaxFaults = 1
  MaxRuns = 2
  Deletions = {{"keyring"}}
INVARIANTS UsableAfterDeletion
CHECK_DEADLOCK FALSE
