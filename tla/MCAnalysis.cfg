SPECIFICATION ASpec
CONSTANTS
  NULL = NULL
  NODE_DEADEND = 99
  Programs <- ForwardContracts
  N = 10
  IntBits = 12
  WordBits = 12
  Pending = Pending
INVARIANTS
  CTypeOK
  NothingDangles
  FirstFunctionKeepsExit
  DominatorsOfCode
PROPERTIES
  AnalysisAnswers
  WalkStaysInFunction
