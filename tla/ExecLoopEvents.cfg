SPECIFICATION Spec
CONSTANTS
  Addr <- EventAddr
  Succ <- EventSucc
  After <- EventAfter
  Kind <- EventKind
  Writes = {}
  Entry = 1
  Cell = 0
  Values = {0}
  MaxCount = 0
  MaxPoints = 2
  Shapes <- EventShapes
  Edits = {"set", "toggle", "activate", "clear", "until"}
  TraceTypes = {"NEXT", "INTO", "OVER"}
  BreakOnMessage = TRUE
  ContinueUnexpected = FALSE
  BreakOnWrite = TRUE
INVARIANTS
  MemoryIntact
  FatalReported
PROPERTIES
  ServiceSpec
  UserBreakStops
CONSTRAINT
  UntilAlone
