CONSTANTS
  MAX_THREAD = 2
  MaxFunction = 8
  Modules <- MCModules
  WorkerLoops <- MCWorkerLoops
SPECIFICATION FairSpec
INVARIANTS
  TablesOfThisLoop
  OneLoopPerWorker
  ReplacedOrDead
PROPERTIES
  Terminates
