SPECIFICATION FairSpec
CONSTANTS
  t1 = t1
  t2 = t2
  t3 = t3
  t4 = t4
  Threads <- MCThreads
  Main = t1
  InitialValue = 0
  MaxValue = 2
  NULL = NULL
CHECK_DEADLOCK FALSE
INVARIANTS TypeOK EachThreadOnce SemaphoreWakeups LockWakeups
PROPERTIES ImplementsMonitor ReadyRuns
