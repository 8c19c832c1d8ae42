CONSTANTS
  Installable <- SameName
  NoVer = NoVer
  MaxChanges = 1
SPECIFICATION MCHandlesSpec
INVARIANT PathReadsItsFolder
CHECK_DEADLOCK FALSE
