SPECIFICATION FairSpec
CONSTANTS
  Procs <- MCProcs
  None = None
  Commands <- MCCommands
  CommandsOf <- MCCommandsOf
  Split <- MCSplit
  Addresses <- MCAddresses
  ReadOnly = {"/etc/pid"}
  MaxLaunches = 3
INVARIANTS
  TypeOK
  PidFileExclusive
  NoFileLeftBehind
  UsersAsListed
PROPERTIES
  LoneStartServes
CHECK_DEADLOCK FALSE
