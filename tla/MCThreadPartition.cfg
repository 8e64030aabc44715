CONSTANTS
  MAX_THREAD = 3
  sccNum = 4
  Latencies <- MCLatencies
SPECIFICATION FairSpec
INVARIANTS
  DependencesFlowForward
  QueuedOnce
  EveryComponentPlaced
  ShortStagesTrail
  LoadBalanced
PROPERTIES
  Terminates
