SPECIFICATION CoroutinesSpec
CONSTANTS
  Objects = {a, b, c}
  Values = {v1, v2, null}
  Shared = {null}
  null = null
  MaxAwaits = 2
CHECK_DEADLOCK FALSE
INVARIANTS CoroutinesTypeOK UniqueOwner NothingLost HandlesAreAlive AwaitNeverYields FailureToldOnce UndefinedOnlyByMisuse
PROPERTIES CallsReturn
