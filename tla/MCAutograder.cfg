SPECIFICATION Spec
CONSTANTS
  Limit = 3
  Pause = 2
  TicksPerDay = 4
  DaysPerMonth = 2
  Start = 62
  End = 112
  Tests = 2
  Timeout = 2
CHECK_DEADLOCK FALSE
INVARIANTS VerdictsSound
PROPERTIES LimitsHold
