CONSTANTS
  NumBlock = 4
  MAX_THREAD = 2
  MaxExtra = 1
  FreeBranches = FALSE
  Carriers = {3}
  Joins = {0}
  Shapes <- Conditions
  Programs <- MCPrograms
  QUEUE_MAXLEN = 1
  MaxPath = 7
SPECIFICATION PFairSpec
INVARIANTS
  PTypeOK
  SameValues
  MemoryOrder
  AllDone
  LiveOutsLoaded
PROPERTIES
  Completes
