SPECIFICATION Spec
CONSTANTS
  N = 4
  Graphs <- MCGraphs
  IntBits = 5
  WordBits = 6
  Pending = Pending
INVARIANTS
  TypeOK
  DominatorsKept
PROPERTIES
  AnswersDominance
  Narrowing
  Terminates
