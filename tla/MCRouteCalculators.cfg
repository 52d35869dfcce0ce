SPECIFICATION Spec
CONSTANTS
  Calculators = {"corridor", "prohibited", "penalty", "backtracking"}
  Types <- MCTypes
  TurnGates <- MCTurnGates
  Grace = 1
  TurnTime = 2
  MaxStep = 2
  MaxTime = 10
INVARIANTS
  TypeOK
  ChargedAsOwed
  BacktrackingDeserved
CHECK_DEADLOCK FALSE
