CONSTANTS
  t1 = t1
  t2 = t2
  Calls = {t1, t2}
  Platforms <- AllPlatforms
  ContextEngines = {"RCS", "BCS", "None"}
  EngineOf <- OneThreadEach
  Scripts <- BothOrders
  FreeEngines = {"RCS"}
SPECIFICATION FairBSpec
INVARIANTS
  ReadinessOrder
  AtMostOneLateOriginal
  RcsNeverQuarantined
PROPERTIES
  RcsQuarantineNeedsSequenceError
  ImplementsLife
  RcsEventuallyPasses
