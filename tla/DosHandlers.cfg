SPECIFICATION FairSpec
CONSTANTS
  CountSize <- MCCountSize
  MaxDepth = 3
  MaxLost = 3
INVARIANTS
  TypeOK
  CallsNest
  DebuggerApart
PROPERTIES
  BreakHeard
  OutsideDos
  RequestAnsweredOnce
CHECK_DEADLOCK FALSE
