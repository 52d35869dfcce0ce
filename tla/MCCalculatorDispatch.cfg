SPECIFICATION Spec
CONSTANTS
  Calculators = {c1, c2}
  Productions = {TRUE, FALSE}
  AliveFor = 1
  SpinUp = 3
  RequestFor = 3
  Patience = 2
  CacheTtl = 2
  MaxRequests = 1
  MaxUpsets = 1
INVARIANTS
  TypeOK
  OneCalculator
  StoppedStaysStopped
PROPERTIES
  RestartedIsTracked
CHECK_DEADLOCK FALSE
