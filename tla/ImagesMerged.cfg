SPECIFICATION Spec
CONSTANTS
  P = P
  D = D
  l1 = l1
  l2 = l2
  None = None
  Programs = {P}
  Libs = {D}
  Symbols <- FullSymbols
  Lines <- MCLines
  Builds <- MergedBuilds
  MaxBase = 2
  MaxSeg = 2
  MaxOff = 1
  Data = {2}
  Flat = FALSE
  Defer = FALSE
  Files = {}
  Junk = {}
  MaxPoints = 2
  MaxImages = 3
INVARIANTS NothingLeft
