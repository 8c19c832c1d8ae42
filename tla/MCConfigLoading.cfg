CONSTANTS
  Extension = {1, 2, 3}
  Name = {"a", "b"}
  Version <- Versions
  Operator = {"==", ">", ">=", "<"}
  None = None
  NoFile = NoFile
  Text = "a == 1.1.1"
  Ext = {e1, e2, e3, e4}
  Site <- Sites
  PatchSize <- Sizes
  Game <- GameCode
  Heap <- HeapRange
  CodeTable <- Tables
  Source <- Sources
  Label <- Labels
  Script <- Scripts
  Assembly <- ScriptSizes
  Elsewhere <- ElseAddress
  MaxCalls = 3
SPECIFICATION MCSpec
INVARIANTS FindsTheNewest MissesNothing
INVARIANTS OrderRespectsDependencies CompleteWhenDone
INVARIANTS HooksRun OnlyPatchesOverwritten
PROPERTIES AcyclicReturns CyclicNeverReturns BlocksAreKept
INVARIANTS ReadsBackTheSame OptionsAreResolved AcceptedConfigsLoad
CHECK_DEADLOCK FALSE
