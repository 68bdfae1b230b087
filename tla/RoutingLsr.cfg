\* lsr: the link a-d has just been cut or mended, nothing else is lost.
CONSTANTS
  a = a  b = b  c = c  d = d  h = h
  NULL = NULL
  Node = {a, b, c, d, h}
  Router = {a, b, c, d}
  Nbr <- Box
  Fragile <- AD
  Recomputers = {a, b}
  DelayTolerant = FALSE
  DownMetrics = {}
  AfterStart = FALSE
  Talkers = {a}
  MaxClock = 3
  LastChange = 2
  MaxChanges = 1
  MaxLosses = 0
SPECIFICATION RoutingSpec
PROPERTY Delivers
