SPECIFICATION Spec
CONSTANT NumInstances = 3
INVARIANTS
  IndexValid
  RoundRobinFair
  FreshAreKept
  RoleRespected
