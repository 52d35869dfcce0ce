CONSTANTS
  Types <- MCTypes
  GateNames <- MCGates
  Messages <- MCMessages
  Initial = 10
  Changes <- MCChanges
  Commands = TRUE
  MaxMessages = 2
  MaxEdits = 1
SPECIFICATION FairSpec
INVARIANTS ScoreTypeOK CapIsExact LogTellsAccumulated ScoreIsSumUnlessRaced
  FinishedIsLogged FinishedUnlessLostTwice
PROPERTY JoinEnds
CHECK_DEADLOCK FALSE
