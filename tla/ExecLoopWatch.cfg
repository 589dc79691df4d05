SPECIFICATION FairSpec
CONSTANTS
  Addr <- WriteAddr
  Succ <- WriteSucc
  After <- WriteAfter
  Kind <- WriteKind
  Writes = {1, 3}
  Entry = 1
  Cell = 0
  Values = {0, 1}
  MaxCount = 0
  MaxPoints = 2
  Shapes <- WriteShapes
  Edits = {"set"}
  TraceTypes = {"OVER"}
  BreakOnMessage = FALSE
  ContinueUnexpected = TRUE
  BreakOnWrite = FALSE
PROPERTIES
  Progress
  WatchesTrue
