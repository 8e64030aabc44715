CONSTANTS
  NumInst = 4
  MayDepend <- MCMayDepend
SPECIFICATION FairSpec
INVARIANTS
  FinishOrder
  SccCorrect
  DagForward
  DagMatches
PROPERTIES
  Terminates
