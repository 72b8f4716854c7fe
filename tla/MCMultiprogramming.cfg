SPECIFICATION FairSpec
CONSTANTS
  Threads <- MCThreads
  Main = 1
  MAX_PROCESSES = 3
  NumPhysPages = 2
  ProgramSizes <- MCSizes
  ExitStatuses <- MCStatuses
  Files = {f, g}
  Fds = {3, 4}
  OPEN_FILE_TABLE_SIZE = 2
  NULL = NULL
CHECK_DEADLOCK FALSE
INVARIANTS TypeOK ProgramsTracked FramesCounted SleepersAreWoken FilesIntact
PROPERTIES MachineStops
VIEW MCView
