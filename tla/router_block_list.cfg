SPECIFICATION Spec
CONSTANTS
  zero = zero
  lanip = lanip
  wanip = wanip
  gateway = gateway
  h1 = h1
  h2 = h2
  deep = deep
  server = server
  everyone = everyone
  group = group
  self = self
  Zero = zero
  LanIp = lanip
  WanIp = wanip
  Gateway = gateway
  LanLink <- MCLanLink
  WanLink <- MCWanLink
  Private <- MCPrivate
  Loopback = {self}
  Multicast = {group}
  Elsewhere <- MCElsewhere
  Neighbors = {zero, gateway, h1, h2}
  Inputs <- BlockedInputs
  Flows <- MCFlows
  Keys <- MCKeys
  Numbers = {1, 60}
  Nobody <- MCNobody
  Forwards <- MCForwards
  BlockList <- MCBlockList
  DefaultPolicy = "accept"
  MaxPackets = 1
INVARIANTS
  BlockListDrops
