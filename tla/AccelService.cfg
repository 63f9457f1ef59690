CONSTANTS
  Devices = {"d"}
  Shared = {"s"}
  Pipes = {"p", "q"}
  Checks = 2
  Iterations = 2
  Boots <- SixBoots
SPECIFICATION FairSpec
INVARIANTS SchedulerHasItsFirmware
PROPERTIES ChildRescued PipeActivates PipeTerminated PipesGone
\* Timers run out and children are not attached for ever.
CHECK_DEADLOCK FALSE
