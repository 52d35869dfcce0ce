SPECIFICATION Spec
CONSTANTS
  N = 4
  GateType <- MCGateType
  GateCheck <- MCGateCheck
  HasTakeoff = TRUE
  HasLanding = TRUE
  CorridorTask = TRUE
  Segments <- SingleSegments
  Proximities <- MCProximities
CHECK_DEADLOCK FALSE
INVARIANTS
  TypeOK GatesInSequence ScoredOnce FinishScoresAll NotEnrouteAfterFinish
PROPERTY OutcomeIsFinal
