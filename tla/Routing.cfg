\* dtlsr: the link a-d has just been cut or mended, one router LSA more may be lost.
CONSTANTS
  a = a  b = b  c = c  d = d  h = h
  NULL = NULL
  Node = {a, b, c, d, h}
  Router = {a, b, c, d}
  Nbr <- Box
  Fragile <- AD
  Recomputers = {a, b}
  DelayTolerant = TRUE
  DownMetrics = {1, 5}
  AfterStart = FALSE
  Talkers = {a}
  MaxClock = 3
  LastChange = 2
  MaxChanges = 1
  MaxLosses = 1
SPECIFICATION RoutingSpec
INVARIANT TablesOK
PROPERTY Delivers
