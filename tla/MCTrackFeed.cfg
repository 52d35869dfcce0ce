SPECIFICATION FeedSpec
CONSTANTS
  PageSize = 1
  MaxRuns = 1
  MaxPositions = 3
  MaxScore = 1
  MaxEvents = 3
  MaxUpsets = 1
  MaxBacklog = 0
INVARIANTS
  FeedTypeOK
  NoGapWithoutCause
PROPERTIES
  LoadingEnds
  ScoreCatchesUp
CHECK_DEADLOCK FALSE
