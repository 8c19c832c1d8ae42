CONSTANTS
  Site <- Sites
  PatchSize <- Sizes
  Game <- GameCode
  Heap <- HeapRange
  CodeTable <- Tables
  Source <- Sources
  Label <- Labels
  Script <- PushesLabel
  Assembly <- PushSizes
  Elsewhere <- ElseAddress
  MaxCalls = 3
SPECIFICATION Spec
INVARIANT AssemblyIsThere
CHECK_DEADLOCK FALSE
