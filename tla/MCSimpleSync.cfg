CONSTANTS
  NUM_THREADS = 3
  NUM_QUEUES = 3
  QUEUE_MAXLEN = 2
  Region <- MCRegion
  Main = Main
  None = None
  Dangling = Dangling
  Program <- MCProgram
  Start <- MCStart
  CreateMayFail = TRUE
SPECIFICATION FairSpec
INVARIANTS
  JoinedBeforeLoad
  InitQuiet
  StreamIntact
PROPERTIES
  Completes
CHECK_DEADLOCK FALSE
