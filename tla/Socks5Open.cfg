SPECIFICATION Spec
CONSTANTS
  Creds <- MCCreds
  UserTables <- MCTables
  Offers <- MCOffers
  Requests <- MCRequests
  MaxSent = 2
INVARIANTS
  OpenToAll
CHECK_DEADLOCK FALSE
