CONSTANTS
  t1 = t1
  t2 = t2
  Callers = {t1, t2}
  Ctx <- NormalAndInterrupt
  DomSets = {{"BLITTER"}}
  Passes = 1
  HangcheckCall = 1
  StartAt = "first"
SPECIFICATION Spec
INVARIANTS
  HeldUntilReleased
  FallbackTransient
  Bit0Transient
  DumpsBounded
