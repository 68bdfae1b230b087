\* A history of four cells, wrapped twice.
CONSTANTS
  TS_SIZE = 4
  SIZE_MAX1 = 16
  Weight <- Weights
  MaxClock = 7
  MaxToggles = 9
SPECIFICATION Spec
INVARIANT TypeOK
INVARIANT Inductive
INVARIANT UptimeFollowsHistory
PROPERTY DownOnlyGetsWorse
