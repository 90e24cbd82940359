SPECIFICATION Spec
CONSTANTS
  NULL = NULL
  NODE_DEADEND = 99
  Programs <- ThreeBlocks
INVARIANTS
  TypeOK
  LinksMutual
  ReferencesResolve
  InInnermostBlock
  EdgesExact
  SizesExact
  ListedByLastReference
PROPERTIES
  LeftBlocksFrozen
