SPECIFICATION Spec
CONSTANTS
  c1 = c1
  c2 = c2
  Clients = {c1, c2}
  Nums <- OneNum
  StartNum = 0
  EndNum = 0
  Statics <- NoStatics
  LeaseTime = 2
  NoNum = 256
  NoMac = NoMac
  MaxTime = 3
  MaxRestarts = 1
  MaxFrames = 2
INVARIANTS
  TypeOK
  UniqueLease
  ServerOutlastsHolder
  HolderResolved
PROPERTIES
  OfferedIsFree
SYMMETRY EqualHosts
