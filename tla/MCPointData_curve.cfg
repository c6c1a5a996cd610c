SPECIFICATION Spec
CONSTANTS
  Ids = {"123", "124"}
  CurveId = "123"
  Placements <- Measurable
  Micro = 2
  Grain = 8
  MaxPlacement = 24
  TicksPerSecond = 2
  Window = 1
  Skews <- DeviceSkews
  MaxTime = 4
  MaxMeasured = 2
  MaxQueue = 1
INVARIANTS
  TypeOK
  ShownIsMeasured
  OnePointPerStamp
PROPERTIES
  WindowBounds
  ShownStays
