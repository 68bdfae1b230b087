\* Three slots, three nodes of which two share a subnet, restarts.
CONSTANTS
  MAX_NODE_NUM = 3
  Neighbour = {"n1"}
  Subnet <- SharedSubnet
  Metric = {2, 3, 4}
  MaxPaths = 2
  Restarts = TRUE
SPECIFICATION Spec
INVARIANT TypeOK
INVARIANT NotedAreInstalled
PROPERTY PathsInstalled
PROPERTY ExactWhileItFits
PROPERTY NotedOnceSettled
