SPECIFICATION Spec
CONSTANTS
  Code <- MCCode
  Rom <- MCRom
  Bytes <- MCBytes
  Sizes = {2, 4}
  MAX_WP = 3
INVARIANTS
  TypeOK
  Quiet
  WatchSeen
PROPERTIES
  BreakpointsTrue
  PromiseKept
