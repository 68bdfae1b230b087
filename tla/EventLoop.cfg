\* dtlsr with two neighbours, one of which comes and goes; the unit is 100 ms.
CONSTANTS
  N = 2
  DelayTolerant = TRUE
  Steady = {2}
  HbPeriod = 1
  HbTimeout = 5
  LsaPeriod = 2
  ReplayDelay = 1
  Recompute = 1
  MaxStall = 2
  MaxLost = 1
SPECIFICATION Spec
INVARIANT TypeOK
INVARIANT DetectsDead
PROPERTY KeepsLive
PROPERTY EveryoneServed
