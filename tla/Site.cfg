SPECIFICATION FairSpec
CONSTANTS
  Archives <- MCArchives
  Heap <- MCHeap
  Edits <- MCEdits
  Requests <- MCRequests
  Names <- MCNames
  BufSize = 7
  MaxEdits = 3
  MaxRequests = 3
INVARIANTS
  TypeOK
  HiddenStaysHidden
  SpellingIrrelevant
  DamageIsLocal
  SavedSiteAnswersAlike
  ServesWhatWasMade
  RightAnswers
  AnswersInOrder
PROPERTIES
  ConnectionEnds
CHECK_DEADLOCK FALSE
