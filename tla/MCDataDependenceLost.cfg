CONSTANTS
  NumBlock = 3
  x = x
  y = y
  MaxAccess = 3
  Kinds <- MCKinds
  Location <- MCLocation
  Programs <- MCPrograms
SPECIFICATION Spec
INVARIANTS
  AllOrdered
