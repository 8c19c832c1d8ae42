CONSTANTS
  Names = {"a", "b"}
  Inputs <- AllInputs
  Hosts <- AllHosts
SPECIFICATION MCSpec
INVARIANT FollowsLoadOrder
INVARIANT SeesTheEarlier
INVARIANT OwnSection
INVARIANT ConsoleOnlyWhereAllowed
INVARIANT OnlyVerifiedCodeRuns
INVARIANT NothingHeld
PROPERTY GameStarts
PROPERTY ImplementsLifecycle
CHECK_DEADLOCK FALSE
