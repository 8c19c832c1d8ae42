CONSTANTS
  Installable <- SameName
  NoVer = NoVer
  MaxChanges = 1
SPECIFICATION MCHandlesSpec
INVARIANT NameAgreesWithAlias
CHECK_DEADLOCK FALSE
