SPECIFICATION Spec
CONSTANTS
  Timers <- SomeTimers
  NDEBUG = TRUE
  MaxSize = 3
CHECK_DEADLOCK FALSE
INVARIANT NextWakeupFirst
