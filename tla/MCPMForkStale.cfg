SPECIFICATION ObservedSpec
CONSTANTS
  p1 = p1
  p2 = p2
  p3 = p3
  Spaces <- MCSpaces
  Initial = p1
  NumPages = 1
  NumPhysPages = 2
  SWAP_SECTORS = 2
  Values <- MCValues
  Image <- MCImage
  Zero = 0
  Calls = {"fork"}
  HeapZeroed = TRUE
  NULL = NULL
  Garbage = Garbage
CHECK_DEADLOCK FALSE
PROPERTY PagingInvisible
