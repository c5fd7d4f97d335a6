SPECIFICATION Spec
CONSTANTS
  Switches = {"s1", "s2"}
  Hosts = {"a", "b", "c"}
  Ports <- MCPorts
  Toward <- MCToward
  Packet <- MCPacket
  Everyone = "all"
  None = "none"
  QueueCap = 1
INVARIANT NothingLeadsAstray
PROPERTIES
  ArrivesOnce
  ImplementsWire
