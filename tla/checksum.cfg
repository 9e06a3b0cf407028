SPECIFICATION Spec
CONSTANTS
  Base = 4
  Protocol = 1
  Addresses <- AllAddresses
  Contents <- AllContents
INVARIANTS
  NothingCut
  Accepted
CHECK_DEADLOCK FALSE
