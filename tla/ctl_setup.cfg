SPECIFICATION Spec
CONSTANTS
  Switches = {"s1", "s2"}
  Hosts <- MCHosts
  Wires <- AllWires
  Pairs <- MCPairs
  Neighbor <- MCNeighbor
  Port <- TwoPort
  Bandwidths = {1}
  FailTimes = {1}
  ClientFailTimes = {2}
  DataSizes = {3}
  UpdateInterval = 1
  MaxUpdates = 1
  MaxSwitches = 2
  MaxPairs = 1
  QueueCap = 1
  MaxConns = 1
  MaxChains = 1
  BandwidthInf = 1000
INVARIANTS
  TypeOK
  LinkHasPorts
  PairsHaveIp
