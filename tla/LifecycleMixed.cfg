SPECIFICATION Spec
CONSTANTS
  IsSrv = TRUE
  MaxConns = 2
  Slots = {1, 2}
  KindOf <- MCMixed
  NoSlot = NoSlot
  StartClock = 2
  MaxClock = 3
  STimeout = 1
INVARIANTS
  TypeOK
  TraversalSeesLiveObjects
  ServingOwnsObject
  DoubleFreeTakesTwo
  ExitLeaksOnlyLost
