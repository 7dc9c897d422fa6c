SPECIFICATION Spec
CONSTANTS
  Names <- MCNames
  SerialPairs <- MCSlash
  NoRootfs = FALSE
  Site <- MCSite
  Browsing <- MCBrowsing
  Cap = 1
  MaxSent = 2
  NetMayFail = FALSE
INVARIANTS
  SameSerialTunnels
CHECK_DEADLOCK FALSE
