SPECIFICATION HealsSpec
CONSTANTS
  Switches = {"s1", "s2", "s3"}
  Hosts <- MCHosts
  Wires <- AllWires
  Pairs <- MCPairs
  Neighbor <- MCNeighbor
  Port <- ThreePort
  Bandwidths = {1}
  FailTimes = {}
  ClientFailTimes = {2}
  DataSizes = {3}
  UpdateInterval = 1
  MaxUpdates = 1
  MaxSwitches = 3
  MaxPairs = 1
  QueueCap = 8
  MaxConns = 1
  MaxChains = 1
  BandwidthInf = 1000
INVARIANTS
  NoGhostLink
  UpdatesGoOn
PROPERTIES Heals
