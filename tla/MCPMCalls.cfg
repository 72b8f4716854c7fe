SPECIFICATION ObservedSpec
CONSTANTS
  p1 = p1
  p2 = p2
  p3 = p3
  Spaces <- MCThree
  Initial = p1
  NumPages = 2
  NumPhysPages = 1
  SWAP_SECTORS = 5
  Values <- MCValues
  Image <- MCImage
  Zero = 0
  Calls = {"exec", "fork", "read", "exit"}
  HeapZeroed = FALSE
  NULL = NULL
  Garbage = Garbage
CHECK_DEADLOCK FALSE
INVARIANTS TypeOK SwapSlotsExact
PROPERTY StepsInvisible
