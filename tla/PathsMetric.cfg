\* dtlsr: a line of five nodes cut long ago.
CONSTANTS
  MAX_NODE_NUM = 5
  Graphs <- DownLine
  Builds = {TRUE}
  Source = 1
SPECIFICATION Spec
INVARIANT MetricSaturates
CHECK_DEADLOCK FALSE
