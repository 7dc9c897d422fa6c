SPECIFICATION FairSpec
CONSTANTS
  IsSrv = FALSE
  MaxConns = 2
  Slots = {1, 2}
  KindOf <- MCClients
  NoSlot = NoSlot
  StartClock = 0
  MaxClock = 0
  STimeout = 0
PROPERTIES
  EndedIsReaped
  SignalEndsProcess
