------------------------------- MODULE Inventory -------------------------------
(***************************************************************************)
(* The operands: which object each component writes, by which call and in  *)
(* which order, what each pod template refers to, and what the finalizer   *)
(* deletes.  An object is a pair of its kind and its name; its content is  *)
(* left out, except for its references to other objects.                   *)
(***************************************************************************)
EXTENDS Sequences

Obj(kind, name) == <<kind, name>>
Kind(o) == o[1]

ClusterKinds == {"ClusterRoleBinding", "AdmissionPolicy", "AdmissionBinding"}

\* The calls of apply.go.
Apply(o) == [op |-> "apply", obj |-> o]
ApplyUnstructured(o) == [op |-> "applyUnowned", obj |-> o]
ApplyIfMissing(o) == [op |-> "applyIfMissing", obj |-> o]
DeleteIgnoreMissing(o) == [op |-> "deleteIgnoreMissing", obj |-> o]

-----------------------------------------------------------------------------
(* shared.go, openshift.go, scale.go, secrets.go                           *)

Namespace == Obj("Namespace", "shiftwise-ai")
DataClaim == Obj("PersistentVolumeClaim", "harvester-app-data")
SharedAccount == Obj("ServiceAccount", "shiftwisea-ai-user")

reconcileSharedPVC == << ApplyIfMissing(DataClaim) >>
reconcileSharedServiceAccount == << ApplyIfMissing(SharedAccount) >>
reconcileClusterReaderBinding(name) ==
  << Apply(Obj("ClusterRoleBinding", name \o "-cluster-reader")) >>
reconcileGeneratedSecret(name) == << ApplyIfMissing(Obj("Secret", name)) >>
deleteRoute(name) == << DeleteIgnoreMissing(Obj("Route", name)) >>

\* The policy first, then the binding that puts it in force.
applyAdmissionPolicy(policy, binding) ==
  << Apply(Obj("AdmissionPolicy", policy)), Apply(Obj("AdmissionBinding", binding)) >>
applyMaxReplicaPolicy(name) == applyAdmissionPolicy(name, name \o "-binding")
applyExactReplicaPolicy(name) == applyAdmissionPolicy(name, name)

apiService(name) == << Apply(Obj("Service", name)) >>
serviceAccount(name) == << Apply(Obj("ServiceAccount", name)) >>
disruptionBudget(name) == << Apply(Obj("PodDisruptionBudget", name)) >>
StatefulSet(name) == Obj("StatefulSet", name)

-----------------------------------------------------------------------------
(* What each pod template refers to: the kubelet starts no pod without its  *)
(* claim, account, secrets and config maps.                                 *)

harvesterSTS == {SharedAccount, DataClaim, Obj("Service", "harvester-api")}
postgresSTS ==
  {Obj("ServiceAccount", "kubeoptix-db"), Obj("Secret", "kubeoptix-db"),
   Obj("Service", "kubeoptix-db")}
configurationsSTS ==
  {Obj("ServiceAccount", "kubeoptix-configurations"), Obj("Secret", "kubeoptix-db"),
   Obj("Service", "configurations-api")}
analyzerSTS ==
  {DataClaim, Obj("Service", "analyzer-api"), Obj("Service", "configurations-api")}
coreAISTS ==
  {DataClaim, Obj("Service", "core-ai-api"), Obj("Service", "configurations-api")}
reporterSTS == {SharedAccount, DataClaim, Obj("Service", "reporter-api")}
dashboardSTS ==
  {Obj("ServiceAccount", "kubeoptix-dashboard"), Obj("ConfigMap", "kubeoptix-dashboard-env"),
   Obj("Secret", "kubeoptix-dashboard-oauth"), Obj("Service", "kubeoptix-dashboard")}

\* The services the dashboard's environment points at.
dashboardConfigMap ==
  {Obj("Service", s) : s \in {"harvester-api", "analyzer-api", "reporter-api",
                              "core-ai-api", "configurations-api"}}

-----------------------------------------------------------------------------
(* The components, each a sequence of calls that stops at the first error.  *)

ReconcileHarvester ==
  reconcileSharedPVC \o reconcileSharedServiceAccount
  \o reconcileClusterReaderBinding("kubeoptix-harvester")
  \o apiService("harvester-api") \o deleteRoute("harvester")
  \o applyMaxReplicaPolicy("kubeoptix-harvester-max-replicas")
  \o << Apply(StatefulSet("kubeoptix-harvester")) >>

ReconcilePostgres ==
  reconcileGeneratedSecret("kubeoptix-db") \o serviceAccount("kubeoptix-db")
  \o apiService("kubeoptix-db") \o << Apply(StatefulSet("kubeoptix-db")) >>

ReconcileConfigurations ==
  ReconcilePostgres \o serviceAccount("kubeoptix-configurations")
  \o apiService("configurations-api") \o disruptionBudget("kubeoptix-configurations")
  \o << Apply(StatefulSet("kubeoptix-configurations")) >>

ReconcileAnalyzer ==
  apiService("analyzer-api") \o deleteRoute("analyzer")
  \o applyMaxReplicaPolicy("kubeoptix-analyzer-max-replicas")
  \o << Apply(StatefulSet("kubeoptix-analyzer")) >>

ReconcileCoreAI ==
  apiService("core-ai-api") \o << Apply(StatefulSet("kubeoptix-core-ai")) >>

ReconcileReporter ==
  reconcileSharedServiceAccount \o reconcileClusterReaderBinding("kubeoptix-reporter")
  \o apiService("reporter-api") \o disruptionBudget("kubeoptix-reporter")
  \o applyExactReplicaPolicy("kubeoptix-reporter")
  \o << Apply(StatefulSet("kubeoptix-reporter")) >>

ReconcileDashboard ==
  << Apply(Obj("ConfigMap", "kubeoptix-dashboard-env")),
     Apply(Obj("ServiceAccount", "kubeoptix-dashboard")),
     Apply(Obj("ClusterRoleBinding", "kubeoptix-dashboard-auth-delegator")) >>
  \o reconcileGeneratedSecret("kubeoptix-dashboard-oauth")
  \o apiService("kubeoptix-dashboard")
  \o << ApplyUnstructured(Obj("Route", "kubeoptix-dashboard")) >>
  \o applyExactReplicaPolicy("kubeoptix-dashboard-single-replica")
  \o << Apply(StatefulSet("kubeoptix-dashboard")) >>

\* Reconcile's order; every component is enabled in every resource (FromCR).
AllCalls ==
  ReconcileHarvester \o ReconcileConfigurations \o ReconcileAnalyzer
  \o ReconcileCoreAI \o ReconcileReporter \o ReconcileDashboard

-----------------------------------------------------------------------------
(* What readiness counts and what the finalizer deletes.                    *)

enabledComponents ==
  << "kubeoptix-harvester", "kubeoptix-db", "kubeoptix-configurations",
     "kubeoptix-analyzer", "kubeoptix-core-ai", "kubeoptix-reporter", "kubeoptix-dashboard" >>

ClusterScopedFor ==
  << Obj("ClusterRoleBinding", "kubeoptix-harvester-cluster-reader"),
     Obj("AdmissionPolicy", "kubeoptix-harvester-max-replicas"),
     Obj("AdmissionBinding", "kubeoptix-harvester-max-replicas-binding"),
     Obj("AdmissionPolicy", "kubeoptix-analyzer-max-replicas"),
     Obj("AdmissionBinding", "kubeoptix-analyzer-max-replicas-binding"),
     Obj("ClusterRoleBinding", "kubeoptix-reporter-cluster-reader"),
     Obj("AdmissionPolicy", "kubeoptix-reporter"),
     Obj("AdmissionBinding", "kubeoptix-reporter"),
     Obj("AdmissionPolicy", "kubeoptix-dashboard-single-replica"),
     Obj("AdmissionBinding", "kubeoptix-dashboard-single-replica"),
     Obj("ClusterRoleBinding", "kubeoptix-dashboard-auth-delegator") >>

-----------------------------------------------------------------------------
(* References.                                                              *)

PodRefs ==
  [ o \in {StatefulSet(enabledComponents[i]) : i \in DOMAIN enabledComponents} |->
      CASE o[2] = "kubeoptix-harvester"      -> harvesterSTS
        [] o[2] = "kubeoptix-db"             -> postgresSTS
        [] o[2] = "kubeoptix-configurations" -> configurationsSTS
        [] o[2] = "kubeoptix-analyzer"       -> analyzerSTS
        [] o[2] = "kubeoptix-core-ai"        -> coreAISTS
        [] o[2] = "kubeoptix-reporter"       -> reporterSTS
        [] o[2] = "kubeoptix-dashboard"      -> dashboardSTS \cup dashboardConfigMap ]

\* The admission policy and binding that limit a workload's replicas.
Guards ==
  [ o \in DOMAIN PodRefs |->
      CASE o[2] \in {"kubeoptix-harvester", "kubeoptix-analyzer"} ->
             {Obj("AdmissionPolicy", o[2] \o "-max-replicas"),
              Obj("AdmissionBinding", o[2] \o "-max-replicas-binding")}
        [] o[2] = "kubeoptix-reporter" ->
             {Obj("AdmissionPolicy", o[2]), Obj("AdmissionBinding", o[2])}
        [] o[2] = "kubeoptix-dashboard" ->
             {Obj("AdmissionPolicy", o[2] \o "-single-replica"),
              Obj("AdmissionBinding", o[2] \o "-single-replica")}
        [] OTHER -> {} ]
================================================================================
