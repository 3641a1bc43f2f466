SPECIFICATION SafeSpec
CONSTANTS
  Calls <- FewCalls
  Builds = {TRUE}
  WholeBuffers = FALSE
  CallbacksMayThrow = FALSE
  MaxDepth = 1
  MaxPushes = 2
CHECK_DEADLOCK FALSE
INVARIANT ByteFidelity
