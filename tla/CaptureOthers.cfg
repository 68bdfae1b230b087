\* Two interfaces, one of which stays down.
CONSTANTS
  i1 = i1  i2 = i2  i3 = i3  p = p  q = q
  NULL = NULL
  Reroutes = FALSE  Prompt = TRUE
  Iface <- TwoIfaces
  Dest = {p, q}
SPECIFICATION Spec
PROPERTY OthersStayInDump
CHECK_DEADLOCK FALSE
