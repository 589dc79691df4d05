SPECIFICATION Spec
CONSTANTS
  Addr <- LoopAddr
  Succ <- LoopSucc
  After <- LoopAfter
  Kind <- LoopKind
  Writes = {}
  Entry = 1
  Cell = 0
  Values = {0}
  MaxCount = 2
  MaxPoints = 2
  Shapes <- CountShapes
  Edits = {"set", "autodestruct", "until"}
  TraceTypes = {"OVER"}
  BreakOnMessage = FALSE
  ContinueUnexpected = FALSE
  BreakOnWrite = FALSE
INVARIANTS
  TypeOK
  GoLeavesBreakpoint
PROPERTIES
  CountedOnce
CONSTRAINT
  UntilAlone
