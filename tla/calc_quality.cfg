SPECIFICATION QualitySpec
CONSTANTS
  Switches = {"s1", "s2", "s3", "s4"}
  Hosts = {"c1", "c2", "v"}
  Wires <- AllWires
  Pairs <- ThreePairs
  Neighbor <- FourNeighbor
  Bandwidths = {1, 2}
  FailTimes = {1}
  ClientFailTimes = {2}
  DataSizes = {1, 3}
  UpdateInterval = 2
  MaxUpdates = 0
  MaxSwitches = 4
  MaxPairs = 2
  BandwidthInf = 1000
INVARIANTS
  RoutesServe
  LinksTakenOnce
CHECK_DEADLOCK FALSE
