SPECIFICATION Spec
CONSTANTS
  MaxFd = 3
  MaxFiles = 5
  Objects = {a, b}
CHECK_DEADLOCK FALSE
INVARIANTS TypeOK ContextStaysOpen
