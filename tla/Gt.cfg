CONSTANTS
  Callbacks = {"v54", "v60", "v71", "reset", "hang"}
  RealTGL = FALSE
  ErrorClears = "RW"
  DriverRegs = {"MSTR_IRQ", "RC_INTR_EN", "RCS_MASK", "EMR_RCS", "EMR_BCS", "ERROR_GEN6"}
  DriverQuiet = 2
  V54Ticks = 2
  V60Ticks = 1
  Pool <- NoLimit
  Scenarios <- FourScenarios
SPECIFICATION FairSSpec
INVARIANTS
  WatchdogCovers
  EnforcerCovers
PROPERTIES
  StartReturns
  NeverUndone
  EnforcedForever
\* start() returns and the timers run out.
CHECK_DEADLOCK FALSE
