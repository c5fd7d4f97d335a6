SPECIFICATION GridSpec
CONSTANTS
  Switches <- GridSwitches
  Hosts = {"h2c", "h2s"}
  Wires <- GridWires
  Pairs <- GridPairs
  Neighbor <- GridNeighbor
  Bandwidths = {500}
  FailTimes = {60}
  ClientFailTimes = {450}
  DataSizes = {50}
  UpdateInterval = 30
  MaxUpdates = 0
  MaxSwitches = 9
  MaxPairs = 1
  BandwidthInf = 100000
INVARIANT ConnectedPairsGetRoutes
