\* Two interfaces: i1 goes up and down again, then i2 comes UP.
CONSTANTS
  i1 = i1  i2 = i2  i3 = i3  p = p  q = q
  NULL = NULL
  Reroutes = FALSE  Prompt = TRUE
  Iface <- TwoIfaces
  Dest = {p, q}
SPECIFICATION Spec
INVARIANT NeverCrashes
CHECK_DEADLOCK FALSE
