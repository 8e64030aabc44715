CONSTANTS
  NUM_THREADS = 2
  NUM_QUEUES = 2
  QUEUE_MAXLEN = 2
  Region <- MCRegion
  Main = Main
  None = None
  Dangling = Dangling
  Program <- MCNested
  CreateMayFail = FALSE
SPECIFICATION Spec
INVARIANTS
  JoinedBeforeLoad
CHECK_DEADLOCK FALSE
