CONSTANTS
  d1 = d1
  d2 = d2
  Drivers = {d1, d2}
  Monitors = {}
  Planes = {"A"}
  MonitorPlane = "A"
  NoPlane = "none"
  Surfaces = {1}
  Paths = {"export"}
  V93 = FALSE
  Slots = 1
SPECIFICATION Spec
INVARIANTS
  ZeroNeverArmed
