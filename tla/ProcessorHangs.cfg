CONSTANTS
  Spots <- MCSpots
  Flights <- MCFlights
  Batches <- NoTracks
  Delay = 1
  FinishedBy = 1
  BufferedLimit = 0
  LandedCount = 2
  MaxCommands = 1
  MaxNow = 3
SPECIFICATION FairSpec
PROPERTY EndsWhenTerminated
CHECK_DEADLOCK FALSE
