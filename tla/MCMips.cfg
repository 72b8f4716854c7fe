SPECIFICATION Spec
CONSTANTS
  Width = 4
  NumGPRegs = 4
  MemorySize = 8
  CodeSize = 3
  PageSize = 4
  Programs <- MCPrograms
  InitialRegisters <- MCRegisters
  InitialMemories <- MCMemories
  Results <- MCResults
CHECK_DEADLOCK FALSE
INVARIANTS TypeOK
PROPERTIES Implements
