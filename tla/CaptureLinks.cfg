\* Three interfaces, one destination: every order of link changes and packets.
CONSTANTS
  i1 = i1  i2 = i2  i3 = i3  p = p  q = q
  NULL = NULL
  Reroutes = TRUE  Prompt = FALSE
  Iface <- ThreeIfaces
  Dest = {p}
SPECIFICATION Spec
INVARIANT TypeOK
INVARIANT Bookkeeping
INVARIANT DumpAwaitsReplay
PROPERTY DumpDrains
PROPERTY StoresAndForwards
CHECK_DEADLOCK FALSE
