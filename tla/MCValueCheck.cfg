SPECIFICATION CSpec
CONSTANTS
  NULL = NULL
  NODE_DEADEND = 99
  Programs <- ValueCheck
INVARIANT ExitNodesResolved
