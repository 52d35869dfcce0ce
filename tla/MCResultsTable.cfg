SPECIFICATION Spec
CONSTANTS
  Pages = {p1, p2}
  Starts <- MCStarts
  MaxClicks = 2
  MaxRequests = 3
  MaxBacklog = 1
  MaxUpsets = 1
INVARIANTS
  TypeOK
  OrderIsAsAsked
  PagesShowStored
SYMMETRY PagesAlike
CHECK_DEADLOCK FALSE
