CONSTANTS
  NumBlock = 4
  Location = {}
  Programs <- MCPrograms
SPECIFICATION FairCSpec
INVARIANTS
  OrderIsTopological
  ControlExact
  CoversLoop
PROPERTIES
  Terminates
