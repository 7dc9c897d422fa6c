SPECIFICATION FairSpec
CONSTANTS
  Names <- MCNames
  SerialPairs <- MCSerials
  NoRootfs = FALSE
  Site <- MCSite
  Browsing <- MCBrowsing
  Cap = 1
  MaxSent = 2
  NetMayFail = TRUE
INVARIANTS
  TypeOK
  SameMode
  AppSeesOnlyTunnelData
  TunnelOnlyOnSerial
PROPERTIES
  ServerHandshakeEnds
  ClientHandshakeEnds
CHECK_DEADLOCK FALSE
