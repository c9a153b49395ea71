------------------------- MODULE ShiftWiseReconciler -------------------------
(***************************************************************************)
(* The reconcile loop of the operator: one worker, the ShiftWise resources *)
(* as the API server holds them and as the informer cache shows them, the  *)
(* work queue, the operands, and what surrounds them: users, the garbage   *)
(* collector, the StatefulSet controller, failing API calls and restarts.  *)
(*                                                                         *)
(* hist[c] is the history of resource c from the version the cache shows   *)
(* (its first element) to the version the API server holds (its last).     *)
(* The informer delivers the versions in order; a write appends one.  No   *)
(* two versions of one history are equal between two writes of the worker, *)
(* so comparing versions stands for comparing resourceVersions.            *)
(*                                                                         *)
(* The operands are constants: Plan is the sequence of API calls that the  *)
(* Reconcile* functions of internal/operands make, Cleanup the sequence of *)
(* objects ClusterScopedFor returns.  Module Inventory gives the real ones.*)
(*                                                                         *)
(* A definition named X_Fault is X with a plausible mistake in it.  Nothing*)
(* uses them: put in the place of X, each breaks a property stated below.  *)
(***************************************************************************)
EXTENDS Integers, Sequences, FiniteSets

CONSTANTS
  CRs,            \* the names of the ShiftWise resources
  Home,           \* those that live in the namespace the operands live in
  Objects,        \* the objects the operator writes
  ClusterScoped,  \* those without a namespace, the namespace itself apart: nothing owns them
  StatefulSets,   \* those that report ready replicas
  Watched,        \* those whose events the manager maps to the owning resource
  NamespaceObj,   \* the operand namespace
  Plan,           \* the calls of one pass over the operands: [op, obj] records
  Cleanup,        \* the objects the finalizer deletes, in order
  Deletable,      \* the objects somebody else may delete (bounded by MaxFaults)
  None,           \* no owner, no current request
  MaxUid,         \* bound: how often one name is created
  MaxGen,         \* bound: the generation up to which the specification is edited
  MaxFaults       \* bound: API errors, restarts, pod failures, foreign deletions

Ops == {"apply", "applyUnowned", "applyIfMissing", "deleteIgnoreMissing"}

ASSUME PlanAssumption ==
  /\ Plan \in Seq([op : Ops, obj : Objects])
  /\ \A i \in DOMAIN Plan :
       Plan[i].op = "deleteIgnoreMissing" => Plan[i].obj \notin ClusterScoped

\* Two calls of a pass on one object are of one kind.
ASSUME CallAssumption ==
  \A i, j \in DOMAIN Plan : Plan[i].obj = Plan[j].obj => Plan[i].op = Plan[j].op

ASSUME CleanupAssumption ==
  /\ Cleanup \in Seq(Objects)
  /\ \A i \in DOMAIN Plan :
       Plan[i].obj \in ClusterScoped => \E j \in DOMAIN Cleanup : Cleanup[j] = Plan[i].obj

ASSUME ObjectAssumption ==
  /\ ClusterScoped \subseteq Objects
  /\ StatefulSets \subseteq Watched
  /\ Watched \subseteq Objects \ ClusterScoped
  /\ NamespaceObj \in Objects \ (ClusterScoped \cup StatefulSets)
  /\ None \notin CRs /\ None \notin [cr : CRs, uid : Nat]
  /\ Home \subseteq CRs

ASSUME BoundAssumption == MaxUid \in Nat /\ MaxGen \in Nat /\ MaxFaults \in Nat

VARIABLES
  hist,       \* [CRs -> Seq(Version)], cached version first, server version last
  queue,      \* names the work queue holds, now or after a delay
  present,    \* the objects that exist
  owner,      \* their controller owner reference
  ready,      \* StatefulSets with a ready replica
  readySeen,  \* the same, as the cache shows it
  pc,         \* where the worker is in Reconcile
  cur,        \* the request it is working on
  inst,       \* the copy of the resource it fetched
  step,       \* the next element of Cleanup or Plan
  recErr,     \* an operand failed in this pass
  verdict,    \* the phase it is about to publish
  faults      \* disturbances so far

worker == <<pc, cur, inst, step, recErr, verdict>>
cluster == <<present, owner, ready, readySeen>>
vars == <<hist, queue, cluster, worker, faults>>

-----------------------------------------------------------------------------
(* Versions of a resource.                                                 *)

Phases == {"Pending", "Initializing", "Progressing", "Ready", "Error"}

Version ==
  [exists : BOOLEAN, deleting : BOOLEAN, fin : BOOLEAN, fg : BOOLEAN,
   uid : Nat, gen : Nat, phase : Phases \cup {""}, observed : Nat]

Created(u) ==
  [exists |-> TRUE, deleting |-> FALSE, fin |-> FALSE, fg |-> FALSE,
   uid |-> u, gen |-> 1, phase |-> "", observed |-> 0]

Gone(u) ==
  [exists |-> FALSE, deleting |-> FALSE, fin |-> FALSE, fg |-> FALSE,
   uid |-> u, gen |-> 0, phase |-> "", observed |-> 0]

\* A deleting resource disappears with its last finalizer.
Stored(v) == IF v.deleting /\ ~v.fin /\ ~v.fg THEN Gone(v.uid) ELSE v

Cached(c) == hist[c][1]
Server(c) == hist[c][Len(hist[c])]

Write(c, v) == hist' = [hist EXCEPT ![c] = Append(@, Stored(v))]

\* A resource that still wants its cluster-scoped objects cleaned up.
Holds(c) == Server(c).exists /\ Server(c).fin

OwnerRef == [cr : CRs, uid : Nat]
OwnersOf(S) == {owner[o].cr : o \in {x \in S : owner[x] # None}}

\* The garbage collector's view: the owner is gone, or it is being deleted in
\* the foreground, which takes its dependents first.
Orphaned(o) ==
  /\ owner[o] # None
  /\ LET v == Server(owner[o].cr)
     IN  ~(v.exists /\ v.uid = owner[o].uid) \/ (v.deleting /\ v.fg)

-----------------------------------------------------------------------------
HistType ==
  /\ hist \in [CRs -> Seq(Version)]
  /\ \A c \in CRs : Len(hist[c]) >= 1

ClusterType ==
  /\ queue \subseteq CRs
  /\ present \subseteq Objects
  /\ owner \in [Objects -> OwnerRef \cup {None}]
  /\ ready \subseteq StatefulSets
  /\ readySeen \subseteq StatefulSets

WorkerType ==
  /\ pc \in {"idle", "cleanup", "addFinalizer", "namespace", "operands", "count", "status"}
  /\ cur \in CRs \cup {None}
  /\ pc # "idle" => cur \in CRs
  /\ inst \in Version
  /\ step \in Nat \ {0}
  /\ recErr \in BOOLEAN
  /\ verdict \in Phases \cup {""}

TypeOK == HistType /\ ClusterType /\ WorkerType /\ faults \in 0 .. MaxFaults

\* Routes of an earlier release may still be there when the operator starts.
Legacy == {Plan[i].obj : i \in {j \in DOMAIN Plan : Plan[j].op = "deleteIgnoreMissing"}}

IdleWorker ==
  /\ pc = "idle" /\ cur = None /\ inst = Gone(0) /\ step = 1
  /\ recErr = FALSE /\ verdict = ""

Init ==
  /\ hist = [c \in CRs |-> <<Gone(0)>>]
  /\ queue = {}
  /\ present \in SUBSET Legacy
  /\ owner = [o \in Objects |-> None]
  /\ ready = {} /\ readySeen = {}
  /\ IdleWorker
  /\ faults = 0

-----------------------------------------------------------------------------
(* Users.                                                                  *)

CreateCR(c) ==
  /\ ~Server(c).exists
  /\ Server(c).uid < MaxUid
  /\ Write(c, Created(Server(c).uid + 1))
  /\ UNCHANGED <<queue, cluster, worker, faults>>

EditSpec(c) ==
  /\ Server(c).exists
  /\ Server(c).gen < MaxGen
  /\ Write(c, [Server(c) EXCEPT !.gen = @ + 1])
  /\ UNCHANGED <<queue, cluster, worker, faults>>

\* A deletion is graceful while a finalizer is left; foreground adds one.
DeleteCR(c, foreground) ==
  /\ Server(c).exists
  /\ ~Server(c).deleting
  /\ Write(c, [Server(c) EXCEPT !.deleting = TRUE, !.fg = foreground, !.gen = @ + 1])
  /\ UNCHANGED <<queue, cluster, worker, faults>>

User == \E c \in CRs : CreateCR(c) \/ EditSpec(c) \/ \E f \in BOOLEAN : DeleteCR(c, f)

-----------------------------------------------------------------------------
(* The informer of the resources.                                          *)

\* The informer shows the next version and enqueues the resource's name.
Deliver(c) ==
  /\ Len(hist[c]) > 1
  /\ hist' = [hist EXCEPT ![c] = Tail(@)]
  /\ queue' = queue \cup {c}
  /\ UNCHANGED <<cluster, worker, faults>>

-----------------------------------------------------------------------------
(* The StatefulSet controller and the garbage collector.                   *)

StsReady(o) ==
  /\ o \in (present \cap StatefulSets) \ ready
  /\ ready' = ready \cup {o}
  /\ UNCHANGED <<hist, queue, present, owner, readySeen, worker, faults>>

\* The cache catches up with one StatefulSet's status; its owner is notified.
ReadySync(o) ==
  /\ (o \in ready) # (o \in readySeen)
  /\ readySeen' = IF o \in ready THEN readySeen \cup {o} ELSE readySeen \ {o}
  /\ queue' = queue \cup OwnersOf({o})
  /\ UNCHANGED <<hist, present, owner, ready, worker, faults>>

Remove(o) ==
  /\ present' = present \ {o}
  /\ owner' = [owner EXCEPT ![o] = None]
  /\ ready' = ready \ {o}
  /\ queue' = queue \cup OwnersOf({o} \cap Watched)

Collect(o) ==
  /\ o \in present
  /\ Orphaned(o)
  /\ Remove(o)
  /\ UNCHANGED <<hist, readySeen, worker, faults>>

ForegroundDone(c) ==
  /\ Server(c).fg
  /\ \A o \in present : owner[o] # [cr |-> c, uid |-> Server(c).uid]
  /\ Write(c, [Server(c) EXCEPT !.fg = FALSE])
  /\ UNCHANGED <<queue, cluster, worker, faults>>

-----------------------------------------------------------------------------
(* Disturbances, MaxFaults of them in a behaviour.                         *)

\* The worker holds no request.
Idle ==
  /\ pc' = "idle" /\ cur' = None /\ inst' = Gone(0) /\ step' = 1
  /\ recErr' = FALSE /\ verdict' = ""

Disturb == faults < MaxFaults /\ faults' = faults + 1

DeleteOperand(o) ==
  /\ Disturb
  /\ o \in present \cap Deletable
  /\ Remove(o)
  /\ UNCHANGED <<hist, readySeen, worker>>

PodFails(o) ==
  /\ Disturb
  /\ o \in ready
  /\ ready' = ready \ {o}
  /\ UNCHANGED <<hist, queue, present, owner, readySeen, worker>>

\* The manager stops, or loses its lease; its successor lists the resources
\* (no older than what the last one saw) and enqueues all of them.
Restart ==
  /\ Disturb
  /\ Idle
  /\ queue' = {c \in CRs : Cached(c).exists}
  /\ UNCHANGED <<hist, cluster>>

-----------------------------------------------------------------------------
(* The worker.                                                             *)

Done == Idle /\ UNCHANGED queue

\* Result.Requeue, RequeueAfter and a returned error: the name comes back, at
\* once or after a delay (there is no clock: a name that waits is in the queue).
Requeue == Idle /\ queue' = queue \cup {cur}

\* It trusts the status of an earlier pass and skips the finalizer check.
Start_NoFinalizerCheck(c) ==
  /\ pc = "idle" /\ c \in queue /\ queue' = queue \ {c}
  /\ IF Cached(c).exists
     THEN /\ cur' = c /\ inst' = Cached(c)
          /\ pc' = IF Cached(c).deleting THEN "cleanup" ELSE "namespace"
          /\ UNCHANGED <<step, recErr, verdict>>
     ELSE UNCHANGED worker
  /\ UNCHANGED <<hist, cluster, faults>>

\* The worker takes a name and reads the resource from the cache.
Start(c) ==
  /\ pc = "idle"
  /\ c \in queue
  /\ queue' = queue \ {c}
  /\ LET v == Cached(c) IN
       \/ /\ ~v.exists
          /\ UNCHANGED worker
       \/ /\ v.exists
          /\ cur' = c /\ inst' = v
          /\ pc' = IF v.deleting THEN "cleanup"
                   ELSE IF ~v.fin THEN "addFinalizer" ELSE "namespace"
          /\ UNCHANGED <<step, recErr, verdict>>
  /\ UNCHANGED <<hist, cluster, faults>>

\* r.Update(instance): refused unless the fetched copy is still the stored one;
\* a call that fails may have taken effect all the same.
UpdateInstance(v, requeue) ==
  \/ /\ inst = Server(cur)
     /\ Write(cur, v)
     /\ IF requeue THEN Requeue ELSE Done
     /\ UNCHANGED faults
  \/ /\ inst # Server(cur)
     /\ Requeue
     /\ UNCHANGED <<hist, faults>>
  \/ /\ Disturb
     /\ UNCHANGED hist \/ (inst = Server(cur) /\ Write(cur, v))
     /\ Requeue

\* An error of one deletion does not stop the cleanup.
CleanupStep_Swallows ==
  /\ pc = "cleanup" /\ step <= Len(Cleanup)
  /\ \/ present' = present \ {Cleanup[step]} /\ UNCHANGED faults
     \/ UNCHANGED present /\ Disturb
  /\ step' = step + 1
  /\ UNCHANGED <<hist, queue, owner, ready, readySeen, pc, cur, inst, recErr, verdict>>

\* An error of one deletion is logged instead of returned.
CleanupStep_NoRetry ==
  /\ pc = "cleanup" /\ step <= Len(Cleanup)
  /\ \/ /\ present' = present \ {Cleanup[step]} /\ step' = step + 1
        /\ UNCHANGED <<queue, pc, cur, inst, recErr, verdict, faults>>
     \/ Disturb /\ UNCHANGED present /\ Done
  /\ UNCHANGED <<hist, owner, ready, readySeen>>

CleanupStep ==
  /\ pc = "cleanup"
  /\ step <= Len(Cleanup)
  /\ \/ /\ present' = present \ {Cleanup[step]}
        /\ step' = step + 1
        /\ UNCHANGED <<queue, pc, cur, inst, recErr, verdict, faults>>
     \/ /\ Disturb
        /\ present' \in {present, present \ {Cleanup[step]}}
        /\ Requeue
  /\ UNCHANGED <<hist, owner, ready, readySeen>>

\* The finalizer goes before the last object.
RemoveFinalizer_Early ==
  /\ pc = "cleanup" /\ step >= Len(Cleanup)
  /\ IF inst.fin THEN UpdateInstance([inst EXCEPT !.fin = FALSE], FALSE)
                 ELSE Done /\ UNCHANGED <<hist, faults>>
  /\ UNCHANGED cluster

RemoveFinalizer ==
  /\ pc = "cleanup"
  /\ step > Len(Cleanup)
  /\ IF inst.fin THEN UpdateInstance([inst EXCEPT !.fin = FALSE], FALSE)
                 ELSE Done /\ UNCHANGED <<hist, faults>>
  /\ UNCHANGED cluster

\* The pass goes on whether or not the update was accepted.
AddFinalizer_GoesOn ==
  /\ pc = "addFinalizer"
  /\ IF inst = Server(cur) THEN Write(cur, [inst EXCEPT !.fin = TRUE]) ELSE UNCHANGED hist
  /\ pc' = "namespace"
  /\ UNCHANGED <<queue, cluster, cur, inst, step, recErr, verdict, faults>>

AddFinalizer ==
  /\ pc = "addFinalizer"
  /\ UpdateInstance([inst EXCEPT !.fin = TRUE], TRUE)
  /\ UNCHANGED cluster

\* ReconcileNamespace; its failure publishes Error through fail().
ReconcileNamespace ==
  /\ pc = "namespace"
  /\ \/ /\ present' = present \cup {NamespaceObj}
        /\ pc' = "operands"
        /\ UNCHANGED <<verdict, faults>>
     \/ /\ Disturb
        /\ present' \in {present, present \cup {NamespaceObj}}
        /\ pc' = "status"
        /\ verdict' = "Error"
  /\ UNCHANGED <<hist, queue, owner, ready, readySeen,
                 cur, inst, step, recErr>>

\* Only what the manager watches gets an owner.
NewOwner_WatchedOnly(s) ==
  IF s.obj \notin Watched \/ cur \notin Home
  THEN None ELSE [cr |-> cur, uid |-> inst.uid]

\* The reference setOwner adds: only to an object in the owner's own namespace.
NewOwner(s) ==
  IF s.op = "applyUnowned" \/ s.obj \in ClusterScoped \/ cur \notin Home
  THEN None ELSE [cr |-> cur, uid |-> inst.uid]

\* An object that is there keeps the owner it has.
Effect_KeepsOwner(s) ==
  IF s.op = "deleteIgnoreMissing" THEN Remove(s.obj)
  ELSE /\ present' = present \cup {s.obj}
       /\ owner' = IF s.obj \in present THEN owner ELSE [owner EXCEPT ![s.obj] = NewOwner(s)]
       /\ UNCHANGED <<ready, queue>>

\* What one call of Plan does to the cluster when it takes effect.
Effect(s) ==
  CASE s.op = "deleteIgnoreMissing" -> Remove(s.obj)
    [] s.op = "applyIfMissing" /\ s.obj \in present ->
         UNCHANGED <<present, owner, ready, queue>>
    [] OTHER ->
         /\ present' = present \cup {s.obj}
         /\ owner' = [owner EXCEPT ![s.obj] = NewOwner(s)]
         /\ ready' = ready
         /\ queue' = queue \cup
              (IF s.obj \in Watched /\ (s.obj \notin present \/ owner[s.obj] # NewOwner(s))
               THEN OwnersOf({s.obj}) \cup {r.cr : r \in {NewOwner(s)} \ {None}}
               ELSE {})

\* The error of an operand is forgotten.
Operand_Forgets ==
  /\ pc = "operands" /\ step <= Len(Plan)
  /\ \/ /\ Effect(Plan[step]) /\ step' = step + 1
        /\ UNCHANGED <<pc, faults>>
     \/ /\ Disturb /\ pc' = "count"
        /\ UNCHANGED <<present, owner, ready, queue, step>>
  /\ UNCHANGED <<hist, readySeen, cur, inst, recErr, verdict>>

\* The error of a call stops neither its component nor the next ones.
Operand_GoesOn ==
  /\ pc = "operands" /\ step <= Len(Plan)
  /\ \/ Effect(Plan[step]) /\ UNCHANGED <<recErr, faults>>
     \/ Disturb /\ UNCHANGED <<present, owner, ready, queue>> /\ recErr' = TRUE
  /\ step' = step + 1
  /\ UNCHANGED <<hist, readySeen, pc, cur, inst, verdict>>

Operand ==
  /\ pc = "operands"
  /\ step <= Len(Plan)
  /\ \/ /\ Effect(Plan[step])
        /\ step' = step + 1
        /\ UNCHANGED <<pc, recErr, faults>>
     \/ /\ Disturb
        /\ Effect(Plan[step]) \/ UNCHANGED <<present, owner, ready, queue>>
        /\ recErr' = TRUE
        /\ pc' = "count"
        /\ UNCHANGED step
  /\ UNCHANGED <<hist, readySeen, cur, inst, verdict>>

\* The pass may stop before its last call.
OperandsDone_Early ==
  /\ pc = "operands" /\ step >= Len(Plan)
  /\ pc' = "count"
  /\ UNCHANGED <<hist, queue, cluster, cur, inst, step, recErr, verdict, faults>>

OperandsDone ==
  /\ pc = "operands"
  /\ step > Len(Plan)
  /\ pc' = "count"
  /\ UNCHANGED <<hist, queue, cluster, cur, inst, step, recErr, verdict, faults>>

\* A phase the resource definition does not list.
Phase_Unlisted(n, desired, err) == IF err THEN "Failed" ELSE "Ready"

Phase(n, desired, err) ==
  IF err THEN "Error"
  ELSE IF desired = 0 THEN "Pending"
  ELSE IF n = desired THEN "Ready"
  ELSE IF n = 0 THEN "Initializing" ELSE "Progressing"

\* ReadyCount over the cache, then Phase of the count and the joined error.
Count ==
  /\ pc = "count"
  /\ \E readyErr \in BOOLEAN :
       /\ IF readyErr THEN Disturb ELSE UNCHANGED faults
       /\ verdict' = Phase(Cardinality(readySeen), Cardinality(StatefulSets),
                           recErr \/ readyErr)
  /\ pc' = "status"
  /\ UNCHANGED <<hist, queue, cluster, cur, inst, step, recErr>>

\* The name does not come back after thirty seconds.
PatchStatus_NoPoll ==
  /\ pc = "status"
  /\ LET v == [Cached(cur) EXCEPT !.phase = verdict, !.observed = Cached(cur).gen]
     IN IF Len(hist[cur]) = 1 /\ v # Cached(cur) THEN Write(cur, v) ELSE UNCHANGED hist
  /\ Done
  /\ UNCHANGED <<cluster, faults>>

\* patchStatus: read the newest cached version, write its status back.  With a
\* cache that lags the write conflicts; four attempts, then the error is
\* returned (by fail() it is dropped).  Either way the name comes back.
PatchStatus ==
  /\ pc = "status"
  /\ LET latest == Cached(cur)
         v == [latest EXCEPT !.phase = verdict, !.observed = latest.gen]
     IN \/ /\ latest.exists /\ Len(hist[cur]) = 1
           /\ IF v = latest THEN UNCHANGED hist ELSE Write(cur, v)
           /\ UNCHANGED faults
        \/ /\ ~latest.exists \/ Len(hist[cur]) > 1
           /\ UNCHANGED <<hist, faults>>
        \/ /\ Disturb
           /\ \/ UNCHANGED hist
              \/ latest.exists /\ Len(hist[cur]) = 1 /\ v # latest /\ Write(cur, v)
  /\ Requeue
  /\ UNCHANGED cluster

Worker ==
  CleanupStep \/ RemoveFinalizer \/ AddFinalizer \/ ReconcileNamespace
  \/ Operand \/ OperandsDone \/ Count \/ PatchStatus

Environment ==
  \/ User
  \/ \E c \in CRs : Deliver(c) \/ ForegroundDone(c)
  \/ \E o \in Objects : StsReady(o) \/ ReadySync(o) \/ Collect(o)
                        \/ DeleteOperand(o) \/ PodFails(o)
  \/ Restart

Next == Environment \/ Worker \/ \E c \in CRs : Start(c)

\* The informer, the queue (first in, first out, hence strong fairness per name),
\* the timers and Kubernetes' own controllers make progress.  Users and
\* disturbances need not.
Fairness ==
  /\ \A c \in CRs : WF_vars(Deliver(c)) /\ WF_vars(ForegroundDone(c)) /\ SF_vars(Start(c))
  /\ \A o \in Objects : WF_vars(StsReady(o)) /\ WF_vars(ReadySync(o)) /\ WF_vars(Collect(o))
  /\ WF_vars(Worker)

Spec == Init /\ [][Next]_vars
FairSpec == Spec /\ Fairness

-----------------------------------------------------------------------------
(* Safety.                                                                 *)

\* While an object exists that only the finalizer can delete, some resource
\* still carries the finalizer: nothing cluster-scoped is ever left behind
\* (Reconcile's order: finalizer first, operands after; cleanup, then removal).
NoOrphan == present \cap ClusterScoped # {} => \E c \in CRs : Holds(c)

\* Past the finalizer check, whatever users did since the cached read, the very
\* resource that was read still exists and still carries the finalizer.
PastFinalizerCheck ==
  pc \in {"namespace", "operands", "count", "status"} =>
    Holds(cur) /\ Server(cur).uid = inst.uid

\* The finalizer leaves a resource only when no cluster-scoped operand exists,
\* not even one another resource had written meanwhile.
FinalizerLast ==
  [][\A c \in CRs : Holds(c) /\ ~Holds(c)' => present \cap ClusterScoped = {}]_vars

\* An operand is never handed to an owner that is already gone: the garbage
\* collector would take it from under the pass that just wrote it.
NoDeadOwner ==
  [][\A o \in Objects : owner'[o] # owner[o] /\ owner'[o] # None =>
       LET v == Server(owner'[o].cr) IN v.exists /\ v.uid = owner'[o].uid]_vars

\* "ObservedGeneration is the last reconciled metadata.generation": a status
\* write publishes the generation of the copy this pass worked from.
ObservedIsReconciled ==
  [][\A c \in CRs :
       Server(c)'.exists /\ Server(c)'.observed # Server(c).observed =>
         Server(c)'.observed = inst.gen]_vars

\* When a pass is about to publish Ready, over Ready too, all its calls took
\* effect, and as long as its resource is not deleted their effect is there: an
\* object that is corrected exists with the owner that this pass gives it, not
\* one of the resource's earlier life, and a route that is deleted is gone.
\* Two things are excepted: what somebody else deletes, and what is only created
\* when missing (a claim of a dead owner counts as there, and goes).
ReadyMeansWritten ==
  pc = "status" /\ verdict = "Ready" =>
    /\ step > Len(Plan)
    /\ ~Server(cur).deleting =>
         \A i \in DOMAIN Plan : LET o == Plan[i].obj IN
           CASE Plan[i].op = "deleteIgnoreMissing" -> o \notin present
             [] Plan[i].op = "applyIfMissing"      -> TRUE
             [] OTHER -> o \in Deletable \/ (o \in present /\ owner[o] = NewOwner(Plan[i]))

-----------------------------------------------------------------------------
(* Liveness.                                                               *)

\* A resource that is being deleted disappears in the end.
DeletionCompletes == \A c \in CRs : Server(c).deleting ~> ~Server(c).exists

Wanted == {Plan[i].obj : i \in {j \in DOMAIN Plan : Plan[j].op # "deleteIgnoreMissing"}}

\* A resource that is neither deleted nor recreated for ever gets, and keeps,
\* every operand and a status that says so, whatever was deleted or failed and
\* whichever other resource took the shared operands with it.
Converges ==
  \A c \in CRs :
    <>[](Server(c).exists /\ ~Server(c).deleting) =>
    <>[](/\ Wanted \subseteq present
         /\ Legacy \cap present = {}
         /\ Server(c).phase = IF StatefulSets = {} THEN "Pending" ELSE "Ready"
         /\ Server(c).observed = Server(c).gen)

\* Once every resource is gone for good, the finalizer and the garbage collector
\* between them leave nothing behind but the namespace, what is written without
\* an owner and the old routes a pass never came to delete.  (Resources in Home:
\* those elsewhere own nothing.)
LeavesNothing ==
  <>[](\A c \in CRs : ~Server(c).exists) =>
  <>[](present \subseteq {NamespaceObj} \cup Legacy
         \cup {Plan[i].obj : i \in {j \in DOMAIN Plan : Plan[j].op = "applyUnowned"}})

\* With resources inside and outside Home on the same objects, whoever wrote an
\* object last decides whether it goes: once every resource is gone for good,
\* only what has no owner is left, and nothing cluster-scoped (setOwner: a
\* resource outside takes an object it writes out of the garbage collector's
\* reach, and one it only creates when missing stays with its owner).
OnlyUnownedStays ==
  <>[](\A c \in CRs : ~Server(c).exists) =>
  <>[](\A o \in present : o \notin ClusterScoped /\ owner[o] = None)
=============================================================================
