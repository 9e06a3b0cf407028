SPECIFICATION FairSpec
CONSTANTS
  host = host
  gateway = gateway
  Hops = {host, gateway}
  LanHops = {host}
  MaxPackets = 3
INVARIANTS
  TypeOK
  Conserved
  HeldInOrder
PROPERTIES
  WaitingLeaves
