SPECIFICATION Spec
CONSTANTS
  c1 = c1
  CRs = {c1}
  Home = {c1}
  None = None
  Objects <- InvObjects
  ClusterScoped <- InvClusterScoped
  StatefulSets <- InvStatefulSets
  Watched <- InvWatched
  NamespaceObj <- Namespace
  Plan <- InvPlan
  Cleanup <- InvCleanup
  Deletable = {}
  MaxUid = 1
  MaxGen = 1
  MaxFaults = 1
ACTION_CONSTRAINT InOrder
INVARIANT AlwaysGuarded Residue
PROPERTY RefsBeforePods
CHECK_DEADLOCK FALSE
