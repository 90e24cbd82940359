SPECIFICATION FSpec
CONSTANTS
  NULL = NULL
  NODE_DEADEND = 99
  Programs <- CalledTwice
INVARIANT PathPrinted
