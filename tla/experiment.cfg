SPECIFICATION ExpSpec
CONSTANTS
  Switches = {"s1", "s2", "s3"}
  Hosts <- MCHosts
  Wires <- MCWires
  Pairs <- MCPairs
  Neighbor <- MCNeighbor
  Port <- MCPort
  Bandwidths = {1}
  FailTimes = {2, 6, 7}
  ClientFailTimes = {2}
  DataSizes = {3}
  UpdateInterval = 3
  MaxUpdates = 3
  MaxSwitches = 3
  MaxPairs = 1
  QueueCap = 8
  MaxConns = 2
  MaxChains = 2
  BandwidthInf = 1000
  Cables <- MCCables
  Served <- MCServed
  Doomed <- MCDoomed
  Boot = 1
  Prepare = 3
  RunTime = 8
  CleanupTime = 6
  EarliestFail = 6
  MaxRounds = 2
INVARIANTS
  RestartsFromZero
  ElapsedNotAhead
  DisasterStartsUpdates
  RoutesWork
  KnowsWhatWorks
  KnowsNothingElse
  FailuresAreForeseen
  DatapathsAreFresh
CHECK_DEADLOCK FALSE
