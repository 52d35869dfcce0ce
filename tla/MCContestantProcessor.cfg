CONSTANTS
  Spots <- MCSpots
  Flights <- MCFlights
  Batches <- MCBatches
  Delay = 1
  FinishedBy = 1
  BufferedLimit = 0
  LandedCount = 2
  MaxCommands = 1
  MaxNow = 3
SPECIFICATION FairSpec
INVARIANTS TypeOK InTimeOrder BatchComplete
PROPERTIES NothingEarly BatchEnds EndsOnceLoaded
CHECK_DEADLOCK FALSE
