SPECIFICATION SafeSpec
CONSTANTS
  Calls <- FewCalls
  Builds = {TRUE, FALSE}
  WholeBuffers = TRUE
  CallbacksMayThrow = TRUE
  MaxDepth = 2
  MaxPushes = 4
CHECK_DEADLOCK FALSE
INVARIANTS NeverEarlyUnlessNested SkipsOnlyIfNested
