SPECIFICATION Spec
CONSTANTS
  IsSrv = FALSE
  MaxConns = 3
  Slots = {c1}
  KindOf <- MCClients
  NoSlot = NoSlot
  StartClock = 2
  MaxClock = 2
  STimeout = 1
INVARIANTS
  TraversalSeesLiveObjects
  TunnelDescriptorClosed
SYMMETRY MCChunks
