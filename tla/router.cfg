SPECIFICATION Spec
CONSTANTS
  zero = zero
  lanip = lanip
  wanip = wanip
  gateway = gateway
  h1 = h1
  h2 = h2
  deep = deep
  server = server
  everyone = everyone
  group = group
  self = self
  Zero = zero
  LanIp = lanip
  WanIp = wanip
  Gateway = gateway
  LanLink <- MCLanLink
  WanLink <- MCWanLink
  Private <- MCPrivate
  Loopback = {self}
  Multicast = {group}
  Elsewhere <- MCElsewhere
  Neighbors = {gateway, h2}
  Inputs <- MCInputs
  Flows <- MCFlows
  Keys <- MCKeys
  Numbers = {1, 60}
  Nobody <- MCNobody
  Forwards <- MCForwards
  BlockList <- MCBlockList
  DefaultPolicy = "accept"
  MaxPackets = 2
INVARIANTS
  TypeOK
  ForwardsServed
  RouteMostSpecific
  ForwardedHasHop
  SideMatchesHop
