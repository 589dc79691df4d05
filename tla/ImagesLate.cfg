SPECIFICATION Spec
CONSTANTS
  P = P
  D = D
  l1 = l1
  l2 = l2
  None = None
  Programs = {P}
  Libs = {D}
  Symbols <- LateSymbols
  Lines <- MCLines
  Builds <- LateBuilds
  MaxBase = 2
  MaxSeg = 2
  MaxOff = 0
  Data = {2}
  Flat = TRUE
  Defer = TRUE
  Files <- SomeFiles
  Junk <- SomeJunk
  MaxPoints = 1
  MaxImages = 3
INVARIANTS PointsFollow
PROPERTIES NamedRestored PointsKept
