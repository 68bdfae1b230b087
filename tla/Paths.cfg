\* A ring with a chord: DOWN links cost three in dtlsr and are left out in lsr.
CONSTANTS
  MAX_NODE_NUM = 4
  Graphs <- RingGraphs
  Builds = {TRUE, FALSE}
  Source = 1
SPECIFICATION Spec
INVARIANT TypeOK
INVARIANT Inductive
INVARIANT ShortestPaths
INVARIANT NextHopsLeadThere
PROPERTY PoppedAreFinal
CHECK_DEADLOCK FALSE
