\* A cluster behind the proxy: the connections of all hosts share one limit.
CONSTANTS
  Configs <- MCClusterConfigs
  Proxy = proxy
  Nodes = {n1, n2}
  MinPoolSize = 2
  MaxDials = 1

SPECIFICATION Spec

INVARIANT StaysWarm
