SPECIFICATION Spec
CONSTANTS
  Calls = {c1, c2}
  Nodes = {n1, n2}
  Balancer = Balancer
  HasTimeout = TRUE
  MaxFaults = 2
INVARIANTS
  TypeOK
  Pinned
  NilMeansCommitted
