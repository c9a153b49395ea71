SPECIFICATION Spec
CONSTANTS
  c1 = c1
  c2 = c2
  CRs = {c1, c2}
  Home = {c1, c2}
  None = None
  Objects <- SharedObjects
  ClusterScoped <- Policy
  StatefulSets = {}
  Watched = {"service"}
  NamespaceObj = "namespace"
  Plan <- SharedPlan
  Cleanup <- Cleanups
  Deletable <- Policy
  MaxUid = 1
  MaxGen = 1
  MaxFaults = 1
SYMMETRY Symmetric
INVARIANT TypeOK NoOrphan PastFinalizerCheck
PROPERTY FinalizerLast NoDeadOwner
CHECK_DEADLOCK FALSE
