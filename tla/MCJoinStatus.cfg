SPECIFICATION Spec
CONSTANTS
  t1 = t1
  t2 = t2
  t3 = t3
  Threads <- MCThreads
  Main = t1
  MAX_PROCESSES = 3
  ExitStatuses <- MCStatus
  HeapStatuses = {0}
  NULL = NULL
CHECK_DEADLOCK FALSE
PROPERTY JoinReturnsStatus
