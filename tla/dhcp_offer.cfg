SPECIFICATION Spec
CONSTANTS
  c1 = c1
  c2 = c2
  Clients = {c1, c2}
  Nums <- ThreeNums
  StartNum = 1
  EndNum = 2
  Statics <- NoStatics
  LeaseTime = 2
  NoNum = 256
  NoMac = NoMac
  MaxTime = 3
  MaxRestarts = 0
  MaxFrames = 2
PROPERTIES
  OfferedIsFree
