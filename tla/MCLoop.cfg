SPECIFICATION CSpec
CONSTANTS
  NULL = NULL
  NODE_DEADEND = 99
  Programs <- Loop
PROPERTY AnalysisEnds
