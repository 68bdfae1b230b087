\* lsr on a line of three routers: the link a-b is cut and mended, nothing else is lost.
CONSTANTS
  a = a  b = b  c = c
  Node <- Nodes
  Router <- Nodes
  Nbr <- LineNbr
  Fragile <- AB
  DelayTolerant = FALSE
  DownMetrics = {}
  AfterStart = TRUE
  Talkers = {a}
  MaxClock = 3
  LastChange = 2
  MaxChanges = 2
  MaxLosses = 0
SPECIFICATION Spec
INVARIANT TypeOK
PROPERTY Converges
PROPERTY Refinement
