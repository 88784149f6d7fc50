SPECIFICATION FairSpec
CONSTANTS
  Calls = {c1}
  Nodes = {n1, n2}
  Balancer = Balancer
  HasTimeout = TRUE
  MaxFaults = 4
INVARIANTS
  ErrorMeansNotCommitted
  NothingLeftOpen
PROPERTIES
  CallsReturn
  ImplementsTransaction
