SPECIFICATION FairSpec
CONSTANTS
  Initial = 0
  Allowed = {1, 2}
  MaxMerges = 2
  MaxFaults = 1
  MaxPullFaults = 1
  MaxDispatches = 1
  MaxByHand = 2
  MaxSpent = 2
INVARIANT TypeOK OneVersionPerSource ShaAgrees OffersOnlyPushed
PROPERTY Implements Immutable EveryMergeReleased CurrentPromoted
CHECK_DEADLOCK FALSE
