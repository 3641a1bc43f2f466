SPECIFICATION Spec
CONSTANTS
  Handles = {h1, h2}
  Flags = {"in", "hup"}
  EVENT_BUFFER_SIZE = 2
  Timeouts <- NoTimeouts
  INT_MAX = 7
INVARIANT ErrorsAreSeen
