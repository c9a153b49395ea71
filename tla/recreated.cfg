SPECIFICATION FairSpec
CONSTANTS
  c1 = c1
  CRs = {c1}
  Home = {c1}
  None = None
  Objects <- RebornObjects
  ClusterScoped <- Policy
  StatefulSets = {"db"}
  Watched = {"db"}
  NamespaceObj = "namespace"
  Plan <- RebornPlan
  Cleanup <- Cleanups
  Deletable = {"claim"}
  MaxUid = 2
  MaxGen = 1
  MaxFaults = 1
INVARIANT ReadyMeansWritten
PROPERTY Converges
CHECK_DEADLOCK FALSE
