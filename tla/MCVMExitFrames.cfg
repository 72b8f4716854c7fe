SPECIFICATION ObservedSpec
CONSTANTS
  p1 = p1
  p2 = p2
  p3 = p3
  Spaces <- MCSpaces
  Initial = p1
  NumPages = 2
  NumPhysPages = 3
  SWAP_SECTORS = 4
  Values <- MCValues
  Image <- MCImage
  Zero = 0
  Calls = {"exec", "exit"}
  HeapZeroed = TRUE
  NULL = NULL
  Garbage = Garbage
CHECK_DEADLOCK FALSE
INVARIANT FrameTableExact
