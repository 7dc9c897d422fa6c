SPECIFICATION FairSpec
CONSTANTS
  Cap = 2
  MaxSent = 3
INVARIANTS
  TypeOK
  DownComplete
  UpComplete
PROPERTIES
  UpPipe
  DownPipe
  EndsUnlessHeld
CHECK_DEADLOCK FALSE
