CONSTANTS
  d1 = d1
  d2 = d2
  Drivers = {d1, d2}
  Monitors = {}
  Planes = {"A", "B"}
  MonitorPlane = "A"
  NoPlane = "none"
  Surfaces = {1}
  Paths = {"export", "export64", "ra", "raNull", "fast"}
  V93 = TRUE
  Slots = 1
SPECIFICATION Spec
SYMMETRY DriverSymmetry
PROPERTIES
  ZeroNeedsRace
