SPECIFICATION Spec
CONSTANTS
  NULL = NULL
  NODE_DEADEND = 99
  Programs <- SharedEntry
INVARIANT AllFunctionsListed
