SPECIFICATION FairSpec
CONSTANTS
  Images = {v1, v2}
  Default = v1
  NoImage = none
  MaxCalls = 2
PROPERTY PurgeDeletes
CHECK_DEADLOCK FALSE
