SPECIFICATION CalcSpec
CONSTANTS
  Switches = {"s1", "s2", "s3"}
  Hosts = {"c1", "c2", "v"}
  Wires <- AllWires
  Pairs <- ThreePairs
  Neighbor <- ThreeNeighbor
  Bandwidths = {1, 2}
  FailTimes = {2, 3}
  ClientFailTimes = {2}
  DataSizes = {3}
  UpdateInterval = 2
  MaxUpdates = 1
  MaxSwitches = 3
  MaxPairs = 2
  BandwidthInf = 1000
INVARIANTS
  CalcTypeOK
  RoutesServe
  RoutesKeepToTheirPart
  LeftIsAccounted
  MostUrgentFirst
  PredictionIsExact
PROPERTIES
  PairsSurvive
  LinksKeepWhatIsKnown
