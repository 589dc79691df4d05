SPECIFICATION Spec
CONSTANTS
  CountSize <- MCCountSize
  MaxDepth = 2
  MaxLost = 2
PROPERTIES
  NoPendingRequest
CHECK_DEADLOCK FALSE
