\* One host: what the client's pool does in each of the eight benchmarks.
CONSTANTS
  Configs <- MCConfigs
  Proxy = proxy
  Nodes = {}
  MinPoolSize = 2
  MaxDials = 5

SPECIFICATION Spec

INVARIANTS
  TypeOK
  NoDeadConnection
  SocketsReleased
  StaysWarm
