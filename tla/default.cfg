SPECIFICATION ClusterSpec
CONSTANTS
  Initial = 1
  Allowed = {1, 2}
  MaxMerges = 2
  MaxFaults = 1
  MaxPullFaults = 0
  MaxDispatches = 0
  MaxByHand = 0
  MaxSpent = 3
INVARIANT DefaultIsStable
CHECK_DEADLOCK FALSE
