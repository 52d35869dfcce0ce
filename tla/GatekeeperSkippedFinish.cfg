SPECIFICATION Spec
CONSTANTS
  N = 4
  GateType <- MCGateType
  GateCheck <- MCGateCheck
  HasTakeoff = TRUE
  HasLanding = TRUE
  CorridorTask = TRUE
  Segments <- GapSegments
  Proximities <- MCProximities
CHECK_DEADLOCK FALSE
INVARIANT NotEnrouteAfterFinish
