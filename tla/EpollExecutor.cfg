SPECIFICATION Spec
CONSTANTS
  Handles = {h1, h2}
  Flags = {"in", "out"}
  EVENT_BUFFER_SIZE = 1
  Timeouts <- SomeTimeouts
  INT_MAX = 7
INVARIANTS TypeOK EdgesAreQueued
PROPERTIES NoEdgeLost WaitsReturn
