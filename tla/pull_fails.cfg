SPECIFICATION Spec
CONSTANTS
  Initial = 1
  Allowed = {1, 2}
  MaxMerges = 2
  MaxFaults = 0
  MaxPullFaults = 1
  MaxDispatches = 0
  MaxByHand = 0
  MaxSpent = 3
PROPERTY ChannelKept
CHECK_DEADLOCK FALSE
