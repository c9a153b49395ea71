SPECIFICATION FairSpec
CONSTANTS
  old = old
  new = new
  Callers = {old, new}
  None = None
  Steps = 4
  MaxForeign = 1
  MaxFaults = 2
INVARIANT TypeOK AddressIsCurrent
PROPERTY Implements OkIsTrue Settles
CHECK_DEADLOCK FALSE
