CONSTANTS
  NumBlock = 3
  x = x
  y = y
  MaxAccess = 4
  Kinds <- MCKinds
  Location <- MCLocation
  Programs <- MCPrograms
SPECIFICATION Spec
INVARIANTS
  TypeOK
  TablesAgree
  
