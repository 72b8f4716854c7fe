SPECIFICATION FairSpec
CONSTANTS
  t1 = t1
  t2 = t2
  t3 = t3
  Threads <- MCThreads
  Main = t1
  MAX_PROCESSES = 2
  ExitStatuses <- MCStatuses
  HeapStatuses = {0}
  NULL = NULL
CHECK_DEADLOCK FALSE
INVARIANTS TypeOK PidsExact LockExact NoEarlyReturn
PROPERTIES JoinReturnsStatusOrFailure WokenReturn
