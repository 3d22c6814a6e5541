CONSTANTS
  Conns = {c1, c2, c3}
  MaxConnections = 2
  c1 = c1
  c2 = c2
  c3 = c3
SPECIFICATION Spec
INVARIANTS CountIsExact NothingAliveWhileStopping
PROPERTIES TunnelEndsWhole HandshakeSettles ImplementsServer
CHECK_DEADLOCK FALSE
