SPECIFICATION FairSpec
CONSTANTS
  Conns = {c1, c2}
  TlsConns = {c1}
  WriteWanters = {}
  ReadWanters = {c1}
  Announced = {}
  Ips = {i1, i2}
  IpOf <- TwoIps
  MaxPerIp = 1
  MaxConnections = 1
  HandshakeTries = 2
  MaxQueue = 2
  MaxList = 2
  ColdStart = FALSE
  None = None
  c1 = c1
  c2 = c2
  i1 = i1
  i2 = i2
INVARIANTS SendScheduled NeverCrashes NoLostClose
PROPERTY ImplementsLifecycle
PROPERTY ShutdownDrains
PROPERTY IdleIsClosed
