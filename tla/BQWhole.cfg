SPECIFICATION Spec
CONSTANTS
  Calls <- MixedCalls
  Builds = {TRUE}
  WholeBuffers = TRUE
  CallbacksMayThrow = FALSE
  MaxDepth = 1
  MaxPushes = 3
CHECK_DEADLOCK FALSE
INVARIANTS TypeOK ByteFidelity InOrderOnce NeverEarly NeverLate EmptyIsExact
PROPERTIES EveryWriteCompletes PopTerminates ImplementsWriteQueue
