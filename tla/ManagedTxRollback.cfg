SPECIFICATION Spec
CONSTANTS
  Calls = {c1}
  Nodes = {n1, n2}
  Balancer = Balancer
  HasTimeout = TRUE
  MaxFaults = 1
PROPERTIES
  RollbackAttempted
