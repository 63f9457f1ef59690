CONSTANTS
  d1 = d1
  d2 = d2
  Drivers = {d1}
  Monitors = {"v60"}
  Planes = {"A", "B"}
  MonitorPlane = "A"
  NoPlane = "none"
  Surfaces = {1, 2}
  Paths = {"ra"}
  V93 = TRUE
  Slots = 1
SPECIFICATION FairSpec
PROPERTIES
  PlaneComesBack
  GuardKeepsSurface
