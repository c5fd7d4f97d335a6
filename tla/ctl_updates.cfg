SPECIFICATION UpdatesSpec
CONSTANTS
  Switches = {"s1", "s2", "s3"}
  Hosts <- MCHosts
  Wires <- AllWires
  Pairs <- MCPairs
  Neighbor <- MCNeighbor
  Port <- ThreePort
  Bandwidths = {1}
  FailTimes = {1}
  ClientFailTimes = {2}
  DataSizes = {3}
  UpdateInterval = 1
  MaxUpdates = 2
  MaxSwitches = 3
  MaxPairs = 1
  QueueCap = 1
  MaxConns = 2
  MaxChains = 1
  BandwidthInf = 1000
INVARIANTS
  NewestWins
