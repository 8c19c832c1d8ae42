CONSTANTS
  Site <- Sites
  PatchSize <- Sizes
  Game <- GameCode
  Heap <- HeapRange
  CodeTable <- Tables
  Source <- Sources
  Label <- Labels
  Script <- Scripts
  Assembly <- ScriptSizes
  Elsewhere <- ElseAddress
  MaxCalls = 3
SPECIFICATION Spec
INVARIANT HooksRunAgain
CHECK_DEADLOCK FALSE
