SPECIFICATION FairSpec
CONSTANTS
  Images = {v1, v2}
  Default = v1
  NoImage = none
  MaxCalls = 3
INVARIANT TypeOK NothingOutlivesTheKind
PROPERTY DeployDelivers UndeployRemoves
CHECK_DEADLOCK FALSE
