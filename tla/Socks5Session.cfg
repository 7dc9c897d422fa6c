SPECIFICATION FairSpec
CONSTANTS
  Creds <- MCCreds
  UserTables <- MCTables
  Offers <- MCOffers
  Requests <- MCRequests
  MaxSent = 2
INVARIANTS
  TypeOK
  AuthBeforeConnect
  InStep
  StreamReachesTarget
PROPERTIES
  Answered
CHECK_DEADLOCK FALSE
