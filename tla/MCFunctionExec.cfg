SPECIFICATION FSpec
CONSTANTS
  NULL = NULL
  NODE_DEADEND = 99
  Programs <- TwoFunctions
INVARIANTS
  FTypeOK
  FlaggedAfterCall
  FlagsHaveCause
  PathLinksLive
  PrintedBlocksExist
PROPERTIES
  DecompilationEnds
