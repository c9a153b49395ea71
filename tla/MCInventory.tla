------------------------------ MODULE MCInventory ------------------------------
(* The reconcile loop with the real operands: one resource, all 39 calls of a   *)
(* pass, all eleven cluster-scoped objects, and what that inventory promises.   *)
EXTENDS ShiftWiseReconciler, Inventory

InvPlan == AllCalls
InvCleanup == ClusterScopedFor
InvObjects == {AllCalls[i].obj : i \in DOMAIN AllCalls} \cup {Namespace}
InvClusterScoped == {o \in InvObjects : Kind(o) \in ClusterKinds}
InvStatefulSets == DOMAIN PodRefs
InvWatched == {o \in InvObjects : Kind(o) \in {"StatefulSet", "Service"}}

-----------------------------------------------------------------------------
(* Reduction: the garbage collector takes orphans in the order of the plan,    *)
(* no StatefulSet becomes ready, the cache is at most one version behind, and  *)
(* what is deleted in the foreground meets no fault.  (Other runs are about    *)
(* readiness, about longer delays and about those two together.)               *)

Rank == [o \in InvObjects |->
           IF o = Namespace THEN 0
           ELSE CHOOSE i \in DOMAIN AllCalls :
                  AllCalls[i].obj = o /\ \A j \in 1 .. i - 1 : AllCalls[j].obj # o]

InOrder ==
  /\ ready' = {}
  /\ \A c \in CRs : Len(hist'[c]) <= 2
  /\ faults' = 0 \/ \A c \in CRs : ~Server(c)'.fg
  /\ \A o \in present \ present' :
       Orphaned(o) => \A p \in present : Rank[p] < Rank[o] => ~Orphaned(p)

-----------------------------------------------------------------------------
(* What the inventory is known for below, here of any plan.                    *)

\* A workload is written after its guards, which are cluster-scoped, and after
\* what its pods refer to.
ASSUME OrderAssumption ==
  \A o \in StatefulSets :
    /\ Guards[o] \subseteq ClusterScoped
    /\ \A i \in DOMAIN Plan : Plan[i].obj = o =>
         \A r \in Guards[o] \cup PodRefs[o] :
           \E j \in 1 .. i - 1 : Plan[j].obj = r /\ Plan[j].op # "deleteIgnoreMissing"

\* Only the dashboard's route is written without an owner.
ASSUME UnownedAssumption ==
  /\ NamespaceObj = Namespace
  /\ \A i \in DOMAIN Plan :
       Plan[i].op = "applyUnowned" => Plan[i].obj = Obj("Route", "kubeoptix-dashboard")

-----------------------------------------------------------------------------
\* A StatefulSet never appears before what its pods need and what its
\* environment points at, though half of that is written by other components
\* (the claim by the harvester, the database's secret by Postgres), unless the
\* resource is being deleted and the garbage collector runs beside the pass.
RefsBeforePods ==
  [][\A o \in (present' \ present) \cap StatefulSets :
       Server(cur).deleting \/ PodRefs[o] \subseteq present]_vars

\* A workload that belongs to a live resource is never without the policy and
\* the binding that limit its replicas: they are written first, and the cleanup
\* that takes them away runs for deleted resources only.
AlwaysGuarded ==
  \A o \in present \cap StatefulSets : \A c \in CRs :
    owner[o] = [cr |-> c, uid |-> Server(c).uid] /\ Server(c).exists /\ ~Server(c).deleting
    => Guards[o] \subseteq present

\* When the last resource is gone and the garbage collector has caught up, what
\* is left of 38 objects is the namespace, the dashboard's route (written
\* without an owner and unknown to the finalizer) and routes of an earlier
\* release that no pass came to delete.
Residue ==
  (\A c \in CRs : ~Server(c).exists) /\ (\A o \in present : ~Orphaned(o))
  => present \subseteq Legacy \cup {Namespace, Obj("Route", "kubeoptix-dashboard")}
===============================================================================
