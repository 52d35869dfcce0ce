SPECIFICATION Spec
CONSTANTS
  Calculators = {c1, c2}
  Productions = {FALSE}
  AliveFor = 2
  SpinUp = 5
  RequestFor = 5
  Patience = 4
  CacheTtl = 4
  MaxRequests = 1
  MaxUpsets = 0
PROPERTY TimeoutTellsTruth
CHECK_DEADLOCK FALSE
