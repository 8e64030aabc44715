CONSTANTS
  NumBlock = 4
  MAX_THREAD = 2
  MaxExtra = 1
  FreeBranches = TRUE
  Carriers = {0, 3}
  Joins = {0, 3}
  Shapes <- MCShapes
  Programs <- MCPrograms
SPECIFICATION Spec
INVARIANTS
  PhisRepointed
