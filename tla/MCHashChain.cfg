SPECIFICATION ChainSpec
CONSTANTS
  t1 = t1
  t2 = t2
  t3 = t3
  k1 = k1
  k2 = k2
  e1 = e1
  e2 = e2
  Threads <- MCThreads
  SpuriousWakeups = TRUE
  Keys <- MCKeys
  Entries <- MCEntries
  PutValues = {0}
  MaxValue = 1
  NULL = NULL
INVARIANTS TypeOK CountersExact Exclusion SleepersHaveAWaker ChainSound
PROPERTIES Implements WritePriority Quiesces Linearizable
