SPECIFICATION Spec
CONSTANTS
  Names <- MCNames
  SerialPairs <- MCDifferent
  NoRootfs = FALSE
  Site <- MCSite
  Browsing <- MCBrowsing
  Cap = 1
  MaxSent = 2
  NetMayFail = FALSE
INVARIANTS
  RelayOnlyInTunnel
CHECK_DEADLOCK FALSE
