SPECIFICATION Spec
CONSTANTS
  h1 = h1
  h2 = h2
  Hosts = {h1, h2}
  NoIp = NoIp
  NoEntry = NoEntry
  IntPorts = {1, 2}
  Senders <- TcpFlows
  Forwards <- TcpForward
  PortBase = 10
  PoolSize = 2
  BitmapBits = 3
  IcmpScan = 4
  FirstIdx = 1
  TcpTimeout = 1
  UdpTimeout = 1
  IcmpTimeout = 1
  CleanupPeriod = 1
  MaxTime = 5
  MissTest <- PaddingZero
PROPERTIES
  TcpSenderKept
