SPECIFICATION Spec
CONSTANTS
  Addr <- WriteAddr
  Succ <- WriteSucc
  After <- WriteAfter
  Kind <- WriteKind
  Writes = {1, 3}
  Entry = 1
  Cell = 0
  Values = {0, 1}
  MaxCount = 0
  MaxPoints = 2
  Shapes <- PlainShapes
  Edits = {"set"}
  TraceTypes = {"OVER"}
  BreakOnMessage = FALSE
  ContinueUnexpected = FALSE
  BreakOnWrite = TRUE
INVARIANTS
  WatchReportsAWrite
