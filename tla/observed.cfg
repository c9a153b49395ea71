SPECIFICATION FairSpec
CONSTANTS
  c1 = c1
  CRs = {c1}
  Home = {c1}
  None = None
  Objects <- TinyObjects
  ClusterScoped <- Policy
  StatefulSets = {"db"}
  Watched = {"db"}
  NamespaceObj = "namespace"
  Plan <- TinyPlan
  Cleanup <- Cleanups
  Deletable = {}
  MaxUid = 1
  MaxGen = 2
  MaxFaults = 0
PROPERTY ObservedIsReconciled
CHECK_DEADLOCK FALSE
