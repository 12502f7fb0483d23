SPECIFICATION Spec
CONSTANTS
  Conns = {c1, c2}
  TlsConns = {c1}
  WriteWanters = {c1}
  ReadWanters = {}
  Announced = {c1, c2}
  Ips = {i1, i2}
  IpOf <- OneIp
  MaxPerIp = 2
  MaxConnections = 0
  HandshakeTries = 2
  MaxQueue = 1
  MaxList = 1
  ColdStart = TRUE
  None = None
  c1 = c1
  c2 = c2
  i1 = i1
  i2 = i2
INVARIANT SlotsExact
