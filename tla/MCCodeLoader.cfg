SPECIFICATION Spec
CONSTANTS
  MaxLen = 5
  Bytes <- ByteKinds
  Valid <- Instructions
  Additional <- Operands
  STOP = "STOP"
  CODECOPY = "CODECOPY"
  RETURN = "RETURN"
  Codes <- AllCodes
INVARIANTS
  TypeOK
  ListingWellFormed
  ListingIsTail
  DeployedCodeFound
