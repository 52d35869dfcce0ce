SPECIFICATION Spec
CONSTANTS
  Ids = {1, 2, 3, 4}
  Places = {1, 2, 3, 4}
  Paths <- MCPaths
  Areas <- MCAreas
  Spots = {1, 4}
  StoredRoutes <- MCStoredRoutes
  NewNames <- MCNewNames
  MaxVertices = 4
  MaxEdits = 3
  MaxActs = 4
  MaxRequests = 2
INVARIANTS
  TypeOK
  StoredRoutesAreSound
  SavedIsStored
PROPERTIES
  OthersKeepTheirWaypoint
CHECK_DEADLOCK FALSE
