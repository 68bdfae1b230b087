\* dtlsr on a -- b -- h, with every kind of datagram and a restarted router.
CONSTANTS
  a = a  b = b  h = h
  Node <- PairNode
  Router <- PairRouter
  Nbr <- PairNbr
  Hears <- PairHears
  DelayTolerant = TRUE
  DownMetrics = {2}
  Talkers = {a, b}
  Crashes = {b}
  MaxClock = 2
  MaxLsas = 1
  MaxNets = 1
  MaxReqs = 1
SPECIFICATION Spec
INVARIANT TypeOK
INVARIANT ArmedIffUp
INVARIANT OwnSlotCurrent
INVARIANT NeighboursKnown
INVARIANT Inductive
PROPERTY ViewsMoveForward
