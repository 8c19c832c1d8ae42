CONSTANTS
  File <- Files
  Spelling <- Spellings
  FileOf <- FilesOf
  Binary = {"c"}
  Restricted = TRUE
  MaxNeeds = 2
  MaxDepth = 3
  MaxCalls = 2
  None = None
  Obj = {"handle", "table", "inner"}
  Handle = "handle"
  Fun = {"enables", "gets"}
  Key = {"enable", "get"}
  LuaValue = {"nil", "chunk", "error", "hook", "left", "x", "y", "unprintable"}
  Snippet <- Snippets
  Resting <- Left
  MaxStack = 3
SPECIFICATION MCSpec
INVARIANTS OneFinishedObject OnlyLeaksAreWritten LifecycleHidden SnippetsAnswer
CHECK_DEADLOCK FALSE
