SPECIFICATION FairSpec
CONSTANTS
  c1 = c1
  c2 = c2
  CRs = {c1, c2}
  Home = {c1}
  None = None
  Objects <- SharedObjects
  ClusterScoped <- Policy
  StatefulSets = {}
  Watched = {"service"}
  NamespaceObj = "namespace"
  Plan <- SharedPlan
  Cleanup <- Cleanups
  Deletable = {}
  MaxUid = 1
  MaxGen = 1
  MaxFaults = 0
PROPERTY Converges OnlyUnownedStays
CHECK_DEADLOCK FALSE
