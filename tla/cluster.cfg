SPECIFICATION ClusterFairSpec
CONSTANTS
  Initial = 1
  Allowed = {1, 3}
  MaxMerges = 3
  MaxFaults = 2
  MaxPullFaults = 0
  MaxDispatches = 0
  MaxByHand = 0
  MaxSpent = 2
INVARIANT PathsAgree NeverStranded
PROPERTY ChannelKept FollowsStable
CHECK_DEADLOCK FALSE
