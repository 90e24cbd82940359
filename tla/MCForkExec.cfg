SPECIFICATION Spec
CONSTANTS
  Programs <- Contracts
  MaxDepth = 4
INVARIANTS
  TypeOK
  WaysOut
  SeenExactly
PROPERTIES
  Returns
