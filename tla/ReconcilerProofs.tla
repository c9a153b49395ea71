--------------------------- MODULE ReconcilerProofs ---------------------------
(***************************************************************************)
(* Theorems of ShiftWiseReconciler for every set of resources, every plan  *)
(* of operand calls and every bound.  The argument for NoOrphan: a cached  *)
(* version that is alive and carries the finalizer guarantees that the     *)
(* stored resource carries it too (HistoryInv), because only the worker    *)
(* takes the finalizer away, after it saw the resource being deleted, and  *)
(* because the cache never goes back.                                      *)
(***************************************************************************)
EXTENDS ShiftWiseReconciler, TLAPS

Alive(v) == v.exists /\ ~v.deleting

\* What the versions between the cache and the server have in common.
HistoryInv ==
  \A c \in CRs : \A i \in 1 .. Len(hist[c]) :
    /\ hist[c][i].uid <= Server(c).uid
    /\ Alive(hist[c][i]) /\ hist[c][i].fin => Holds(c) /\ Server(c).uid = hist[c][i].uid
    /\ \A j \in i .. Len(hist[c]) :
         hist[c][i].deleting /\ hist[c][j].exists /\ hist[c][j].uid = hist[c][i].uid
         => hist[c][j].deleting

\* What the worker knows of the resource it works on.
PassInv ==
  /\ pc = "addFinalizer" => Alive(inst)
  /\ pc = "cleanup" =>
       /\ inst.deleting
       /\ inst.uid <= Server(cur).uid
       /\ \A i \in 1 .. Len(hist[cur]) :
            hist[cur][i].exists /\ hist[cur][i].uid = inst.uid => hist[cur][i].deleting

\* What it has deleted so far, and why that will be everything.
CleanupInv ==
  /\ \A o \in present \cap ClusterScoped : \E j \in DOMAIN Cleanup : Cleanup[j] = o
  /\ pc = "cleanup" => \A j \in DOMAIN Cleanup : j < step => Cleanup[j] \notin present
  /\ pc = "idle" => step = 1

\* What a step may do to the finalizers: take one only when all is cleaned up.
Kept ==
  \/ \A c \in CRs : Holds(c) => Holds(c)'
  \/ present \cap ClusterScoped = {}

IInv == HistoryInv /\ PassInv /\ CleanupInv /\ PastFinalizerCheck /\ NoOrphan

-----------------------------------------------------------------------------
(* The history of a resource: what a write and a delivery do to it.        *)

\* Storing a version, or removing the resource with it, yields a version.
LEMMA StoredType ==
  ASSUME NEW v \in Version
  PROVE  Stored(v) \in Version /\ Stored(v).uid = v.uid
BY DEF Stored, Gone, Version

\* The versions users write: a first one, one with another generation, one
\* that is being deleted.
LEMMA UserVersions ==
  ASSUME NEW v \in Version, NEW n \in Nat, NEW f \in BOOLEAN
  PROVE  /\ Created(n) \in Version
         /\ [v EXCEPT !.gen = n] \in Version
         /\ [v EXCEPT !.deleting = TRUE, !.fg = f, !.gen = n] \in Version
BY DEF Created, Version

\* Every element of the plan is a call on an object.
LEMMA PlanType ==
  \A i \in DOMAIN Plan : Plan[i] \in [op : Ops, obj : Objects]
<1>1. Plan \in Seq([op : Ops, obj : Objects])
  BY PlanAssumption
<1> DEFINE Calls == [op : Ops, obj : Objects]
<1>2. Plan \in Seq(Calls)
  BY <1>1
<1> HIDE DEF Calls
<1>3. \A i \in DOMAIN Plan : Plan[i] \in Calls
  BY <1>2
<1> QED BY <1>3 DEF Calls

\* The successors of a version's counters are numbers.
LEMMA VersionCounters ==
  ASSUME NEW v \in Version
  PROVE  v.uid \in Nat /\ v.gen \in Nat /\ v.uid + 1 \in Nat /\ v.gen + 1 \in Nat
<1>1. v.uid \in Nat /\ v.gen \in Nat
  BY DEF Version
<1> QED BY <1>1

\* Both ends of a history are versions.
LEMMA EndsType ==
  ASSUME TypeOK, NEW c \in CRs
  PROVE  /\ Len(hist[c]) \in Nat \ {0}
         /\ \A i \in 1 .. Len(hist[c]) : hist[c][i] \in Version
         /\ Cached(c) \in Version
         /\ Server(c) \in Version
<1>1. hist[c] \in Seq(Version) /\ Len(hist[c]) >= 1
  BY DEF TypeOK, HistType
<1>2. Len(hist[c]) \in Nat \ {0} /\ \A i \in 1 .. Len(hist[c]) : hist[c][i] \in Version
  BY <1>1
<1> QED BY <1>2 DEF Cached, Server

\* A write appends the stored version and leaves the older ones.
LEMMA WriteHist ==
  ASSUME TypeOK, NEW c \in CRs, NEW v \in Version, Write(c, v)
  PROVE  /\ hist' \in [CRs -> Seq(Version)]
         /\ \A d \in CRs : Len(hist'[d]) >= 1
         /\ Len(hist'[c]) = Len(hist[c]) + 1
         /\ hist'[c][Len(hist[c]) + 1] = Stored(v)
         /\ \A i \in 1 .. Len(hist[c]) : hist'[c][i] = hist[c][i]
         /\ Server(c)' = Stored(v)
         /\ \A d \in CRs \ {c} : hist'[d] = hist[d] /\ Server(d)' = Server(d)
<1>1. Stored(v) \in Version
  BY StoredType
<1>2. hist \in [CRs -> Seq(Version)] /\ \A d \in CRs : Len(hist[d]) >= 1
  BY DEF TypeOK, HistType
<1>3. hist'[c] = Append(hist[c], Stored(v)) /\ \A d \in CRs \ {c} : hist'[d] = hist[d]
  BY <1>2 DEF Write
<1>4. /\ Append(hist[c], Stored(v)) \in Seq(Version)
      /\ Len(Append(hist[c], Stored(v))) = Len(hist[c]) + 1
      /\ Append(hist[c], Stored(v))[Len(hist[c]) + 1] = Stored(v)
      /\ \A i \in 1 .. Len(hist[c]) : Append(hist[c], Stored(v))[i] = hist[c][i]
  BY <1>1, <1>2
<1>5. hist' \in [CRs -> Seq(Version)]
  BY <1>1, <1>2, <1>4 DEF Write
<1>6. Server(c)' = Stored(v)
  BY <1>3, <1>4 DEF Server
<1>7. \A d \in CRs \ {c} : Server(d)' = Server(d)
  BY <1>3 DEF Server
<1>8. Len(hist[c]) \in Nat /\ Len(hist'[c]) >= 1
  BY <1>2, <1>3, <1>4
<1>9. \A d \in CRs : Len(hist'[d]) >= 1
  BY <1>2, <1>3, <1>8
<1> QED BY <1>3, <1>4, <1>5, <1>6, <1>7, <1>9

\* A delivery drops the oldest version and leaves the stored one.
LEMMA DeliverHist ==
  ASSUME TypeOK, NEW c \in CRs, Deliver(c)
  PROVE  /\ hist' \in [CRs -> Seq(Version)]
         /\ \A d \in CRs : Len(hist'[d]) >= 1
         /\ Len(hist'[c]) = Len(hist[c]) - 1
         /\ \A i \in 1 .. Len(hist'[c]) : hist'[c][i] = hist[c][i + 1]
         /\ \A d \in CRs : Server(d)' = Server(d)
         /\ \A d \in CRs \ {c} : hist'[d] = hist[d]
<1>1. hist \in [CRs -> Seq(Version)] /\ Len(hist[c]) > 1 /\ \A d \in CRs : Len(hist[d]) >= 1
  BY DEF TypeOK, HistType, Deliver
<1>2. hist'[c] = Tail(hist[c]) /\ \A d \in CRs \ {c} : hist'[d] = hist[d]
  BY <1>1 DEF Deliver
<1>3. /\ Tail(hist[c]) \in Seq(Version)
      /\ Len(Tail(hist[c])) = Len(hist[c]) - 1
      /\ \A i \in 1 .. Len(Tail(hist[c])) : Tail(hist[c])[i] = hist[c][i + 1]
  BY <1>1
<1>4. hist' \in [CRs -> Seq(Version)]
  BY <1>1, <1>3 DEF Deliver
<1>5. Len(hist'[c]) >= 1 /\ Len(hist'[c]) \in Nat
  BY <1>1, <1>2, <1>3
<1>6. Server(c)' = Server(c)
  <2>1. Tail(hist[c])[Len(hist[c]) - 1] = hist[c][Len(hist[c])]
    BY <1>1, <1>3
  <2> QED BY <2>1, <1>2, <1>3 DEF Server
<1>7. \A d \in CRs \ {c} : Server(d)' = Server(d)
  BY <1>2 DEF Server
<1>8. \A d \in CRs : Len(hist'[d]) >= 1
  BY <1>1, <1>2, <1>5
<1> QED BY <1>2, <1>3, <1>4, <1>6, <1>7, <1>8

-----------------------------------------------------------------------------
(* Type correctness.                                                       *)

\* The budget of disturbances is never exceeded.
LEMMA FaultsType ==
  ASSUME TypeOK, UNCHANGED faults \/ Disturb
  PROVE  faults' \in 0 .. MaxFaults
<1>0. faults \in 0 .. MaxFaults
  BY DEF TypeOK
<1>1. faults \in Nat /\ faults <= MaxFaults
  BY <1>0, BoundAssumption
<1>2. CASE UNCHANGED faults
  BY <1>1, <1>2, BoundAssumption
<1>3. CASE Disturb
  <2>1. faults < MaxFaults /\ faults' = faults + 1
    BY <1>3 DEF Disturb
  <2> QED BY <1>1, <2>1, BoundAssumption
<1> QED BY <1>2, <1>3

\* A worker that let go of its request is well typed.
LEMMA IdleType ==
  ASSUME Idle
  PROVE  WorkerType'
<1>1. Gone(0) \in Version
  BY DEF Gone, Version
<1>2. pc' = "idle" /\ cur' = None /\ inst' = Gone(0) /\ verdict' = ""
  BY DEF Idle
<1>3. recErr' \in BOOLEAN
  BY DEF Idle
<1>4. step' = 1
  BY DEF Idle
<1>5. step' \in Nat \ {0}
  BY <1>4
<1> QED BY <1>1, <1>2, <1>3, <1>5 DEF WorkerType

\* What one operand call leaves behind has the right type.
LEMMA EffectType ==
  ASSUME TypeOK, pc = "operands", NEW s \in [op : Ops, obj : Objects], Effect(s)
  PROVE  /\ present' \subseteq Objects
         /\ owner' \in [Objects -> OwnerRef \cup {None}]
         /\ ready' \subseteq StatefulSets
         /\ queue' \subseteq CRs
<1>0. /\ cur \in CRs /\ inst.uid \in Nat /\ s.obj \in Objects
      /\ owner \in [Objects -> OwnerRef \cup {None}] /\ present \subseteq Objects
      /\ ready \subseteq StatefulSets /\ queue \subseteq CRs
  BY DEF TypeOK, ClusterType, WorkerType, Version
<1>1. \A S \in SUBSET Objects : OwnersOf(S) \subseteq CRs
  BY <1>0 DEF OwnersOf, OwnerRef
<1>2. NewOwner(s) \in OwnerRef \cup {None}
  BY <1>0 DEF NewOwner, OwnerRef
<1>3. CASE s.op = "deleteIgnoreMissing"
  <2>1. Remove(s.obj)
    BY <1>3 DEF Effect
  <2>2. {s.obj} \cap Watched \in SUBSET Objects
    BY <1>0
  <2> QED BY <1>0, <1>1, <2>1, <2>2 DEF Remove
<1>4. CASE s.op = "applyIfMissing" /\ s.obj \in present
  BY <1>0, <1>4 DEF Effect
<1>5. CASE s.op # "deleteIgnoreMissing" /\ ~(s.op = "applyIfMissing" /\ s.obj \in present)
  <2>1. /\ present' = present \cup {s.obj}
        /\ owner' = [owner EXCEPT ![s.obj] = NewOwner(s)]
        /\ ready' = ready
        /\ queue' = queue \cup
             (IF s.obj \in Watched /\ (s.obj \notin present \/ owner[s.obj] # NewOwner(s))
              THEN OwnersOf({s.obj}) \cup {r.cr : r \in {NewOwner(s)} \ {None}}
              ELSE {})
    BY <1>5 DEF Effect
  <2>2. {r.cr : r \in {NewOwner(s)} \ {None}} \subseteq CRs
    BY <1>2 DEF OwnerRef
  <2>3. OwnersOf({s.obj}) \subseteq CRs
    BY <1>0, <1>1
  <2> QED BY <1>0, <1>2, <2>1, <2>2, <2>3
<1> QED BY <1>3, <1>4, <1>5

\* A write of the fetched copy, granted, refused or failed, keeps the types.
LEMMA UpdateType ==
  ASSUME TypeOK, pc # "idle", NEW v \in Version, NEW again \in BOOLEAN,
         UpdateInstance(v, again), UNCHANGED cluster
  PROVE  TypeOK' /\ (Disturb \/ UNCHANGED faults)
<1>0. cur \in CRs /\ queue \subseteq CRs
  BY DEF TypeOK, ClusterType, WorkerType
<1>1. HistType'
  <2>1. CASE Write(cur, v)
    BY <1>0, <2>1, WriteHist DEF HistType
  <2>2. CASE UNCHANGED hist
    BY <2>2 DEF TypeOK, HistType
  <2> QED BY <2>1, <2>2 DEF UpdateInstance
<1>2. Idle /\ queue' \subseteq CRs
  BY <1>0 DEF UpdateInstance, Requeue, Done
<1>3. UNCHANGED faults \/ Disturb
  BY DEF UpdateInstance
<1>4. ClusterType'
  BY <1>2 DEF TypeOK, ClusterType, cluster
<1> QED BY <1>1, <1>2, <1>3, <1>4, FaultsType, IdleType DEF TypeOK

\* The initial state is well typed.
LEMMA InitType == Init => TypeOK
<1> SUFFICES ASSUME Init PROVE TypeOK
  OBVIOUS
<1>1. Gone(0) \in Version
  BY DEF Gone, Version
<1>2. HistType
  <2>1. <<Gone(0)>> \in Seq(Version) /\ Len(<<Gone(0)>>) = 1
    BY <1>1
  <2> QED BY <2>1 DEF Init, HistType
<1>3. ClusterType
  <2>1. Legacy \subseteq Objects
    BY PlanType DEF Legacy
  <2> QED BY <2>1 DEF Init, ClusterType
<1>4. WorkerType
  <2>1. recErr \in BOOLEAN
    BY DEF Init, IdleWorker
  <2>2. step \in Nat \ {0}
    <3>1. step = 1
      BY DEF Init, IdleWorker
    <3> QED BY <3>1
  <2>3. pc = "idle" /\ cur = None /\ inst = Gone(0) /\ verdict = ""
    BY DEF Init, IdleWorker
  <2> QED BY <1>1, <2>1, <2>2, <2>3 DEF WorkerType
<1>5. faults \in 0 .. MaxFaults
  BY BoundAssumption DEF Init
<1> QED BY <1>2, <1>3, <1>4, <1>5 DEF TypeOK

\* Every step keeps the types.
LEMMA NextType == TypeOK /\ [Next]_vars => TypeOK'
<1> SUFFICES ASSUME TypeOK, [Next]_vars PROVE TypeOK'
  OBVIOUS
<1> USE DEF TypeOK
<1>a. /\ queue \subseteq CRs /\ present \subseteq Objects
      /\ owner \in [Objects -> OwnerRef \cup {None}]
      /\ ready \subseteq StatefulSets /\ readySeen \subseteq StatefulSets
  BY DEF ClusterType
<1>b. \A S \in SUBSET Objects : OwnersOf(S) \subseteq CRs
  BY <1>a DEF OwnersOf, OwnerRef
<1>c. StatefulSets \subseteq Objects
  BY ObjectAssumption
<1>1. ASSUME NEW c \in CRs, CreateCR(c) PROVE TypeOK'
  <2>1. Server(c) \in Version
    BY EndsType
  <2>2. Created(Server(c).uid + 1) \in Version
    <3>1. Server(c).uid + 1 \in Nat
      BY <2>1, VersionCounters
    <3> QED BY <3>1, <2>1, UserVersions
  <2>3. Write(c, Created(Server(c).uid + 1)) /\ UNCHANGED <<queue, cluster, worker, faults>>
    BY <1>1 DEF CreateCR
  <2> QED BY <2>2, <2>3, WriteHist DEF HistType, ClusterType, WorkerType, cluster, worker
<1>2. ASSUME NEW c \in CRs, EditSpec(c) PROVE TypeOK'
  <2>1. Server(c) \in Version
    BY EndsType
  <2>2. [Server(c) EXCEPT !.gen = @ + 1] \in Version
    <3>1. Server(c).gen + 1 \in Nat
      BY <2>1, VersionCounters
    <3> QED BY <3>1, <2>1, UserVersions
  <2>3. Write(c, [Server(c) EXCEPT !.gen = @ + 1]) /\ UNCHANGED <<queue, cluster, worker, faults>>
    BY <1>2 DEF EditSpec
  <2> QED BY <2>2, <2>3, WriteHist DEF HistType, ClusterType, WorkerType, cluster, worker
<1>3. ASSUME NEW c \in CRs, NEW f \in BOOLEAN, DeleteCR(c, f) PROVE TypeOK'
  <2> DEFINE v == [Server(c) EXCEPT !.deleting = TRUE, !.fg = f, !.gen = @ + 1]
  <2>1. Server(c) \in Version
    BY EndsType
  <2>2. v \in Version
    <3>1. Server(c).gen + 1 \in Nat
      BY <2>1, VersionCounters
    <3> QED BY <3>1, <2>1, UserVersions
  <2>3. Write(c, v) /\ UNCHANGED <<queue, cluster, worker, faults>>
    BY <1>3 DEF DeleteCR
  <2> HIDE DEF v
  <2> QED BY <2>2, <2>3, WriteHist DEF HistType, ClusterType, WorkerType, cluster, worker
<1>4. ASSUME NEW c \in CRs, Deliver(c) PROVE TypeOK'
  <2>1. HistType'
    BY <1>4, DeliverHist DEF HistType
  <2>2. queue' \subseteq CRs /\ UNCHANGED <<cluster, worker, faults>>
    BY <1>4, <1>a DEF Deliver
  <2> QED BY <2>1, <2>2 DEF ClusterType, WorkerType, cluster, worker
<1>5. ASSUME NEW c \in CRs, ForegroundDone(c) PROVE TypeOK'
  <2>1. Server(c) \in Version
    BY EndsType
  <2>2. [Server(c) EXCEPT !.fg = FALSE] \in Version
    BY <2>1 DEF Version
  <2>3. Write(c, [Server(c) EXCEPT !.fg = FALSE]) /\ UNCHANGED <<queue, cluster, worker, faults>>
    BY <1>5 DEF ForegroundDone
  <2> QED BY <2>2, <2>3, WriteHist DEF HistType, ClusterType, WorkerType, cluster, worker
<1>6. ASSUME NEW o \in Objects, StsReady(o) PROVE TypeOK'
  BY <1>6, <1>a DEF StsReady, HistType, ClusterType, WorkerType, worker
<1>7. ASSUME NEW o \in Objects, ReadySync(o) PROVE TypeOK'
  <2>1. OwnersOf({o}) \subseteq CRs
    BY <1>b
  <2>2. o \in StatefulSets
    BY <1>7, <1>a DEF ReadySync
  <2>3. readySeen' \subseteq StatefulSets /\ queue' \subseteq CRs
    BY <1>7, <1>a, <2>1, <2>2 DEF ReadySync
  <2>4. UNCHANGED <<hist, present, owner, ready, worker, faults>>
    BY <1>7 DEF ReadySync
  <2> QED BY <2>3, <2>4 DEF HistType, ClusterType, WorkerType, worker
<1>8. ASSUME NEW o \in Objects, Remove(o)
      PROVE  /\ present' \subseteq Objects /\ ready' \subseteq StatefulSets
             /\ owner' \in [Objects -> OwnerRef \cup {None}] /\ queue' \subseteq CRs
  <2>1. OwnersOf({o} \cap Watched) \subseteq CRs
    BY <1>b
  <2> QED BY <1>8, <1>a, <2>1 DEF Remove
<1>9. ASSUME NEW o \in Objects, Collect(o) PROVE TypeOK'
  <2>1. Remove(o) /\ UNCHANGED <<hist, readySeen, worker, faults>>
    BY <1>9 DEF Collect
  <2> QED BY <1>8, <2>1 DEF HistType, ClusterType, WorkerType, worker
<1>10. ASSUME NEW o \in Objects, DeleteOperand(o) PROVE TypeOK'
  <2>1. Remove(o) /\ UNCHANGED <<hist, readySeen, worker>> /\ Disturb
    BY <1>10 DEF DeleteOperand
  <2> QED BY <1>8, <2>1, FaultsType DEF HistType, ClusterType, WorkerType, worker
<1>11. ASSUME NEW o \in Objects, PodFails(o) PROVE TypeOK'
  <2>1. Disturb /\ ready' = ready \ {o} /\ UNCHANGED <<hist, queue, present, owner, readySeen, worker>>
    BY <1>11 DEF PodFails
  <2> QED BY <1>a, <2>1, FaultsType DEF HistType, ClusterType, WorkerType, worker
<1>12. CASE Restart
  <2>1. Idle /\ Disturb /\ UNCHANGED <<hist, cluster>> /\ queue' \subseteq CRs
    BY <1>12 DEF Restart
  <2> QED BY <2>1, IdleType, FaultsType DEF HistType, ClusterType, cluster
<1>13. ASSUME NEW c \in CRs, Start(c) PROVE TypeOK'
  <2>1. Cached(c) \in Version
    BY EndsType
  <2>2. queue' \subseteq CRs /\ UNCHANGED <<hist, cluster, faults>>
    BY <1>13, <1>a DEF Start
  <2>3. WorkerType'
    <3>1. CASE UNCHANGED worker
      BY <3>1 DEF WorkerType, worker
    <3>2. CASE /\ cur' = c /\ inst' = Cached(c)
               /\ pc' \in {"cleanup", "addFinalizer", "namespace"}
               /\ UNCHANGED <<step, recErr, verdict>>
      BY <2>1, <3>2 DEF WorkerType
    <3> QED BY <1>13, <3>1, <3>2 DEF Start
  <2> QED BY <2>2, <2>3 DEF HistType, ClusterType, cluster
<1>14. CASE CleanupStep
  <2>1. cur \in CRs /\ step \in Nat \ {0}
    BY <1>14 DEF CleanupStep, WorkerType
  <2>2. /\ present' \subseteq Objects
        /\ UNCHANGED <<hist, owner, ready, readySeen>>
        /\ UNCHANGED faults \/ Disturb
    BY <1>14, <1>a DEF CleanupStep
  <2>3. CASE step' = step + 1 /\ UNCHANGED <<queue, pc, cur, inst, recErr, verdict>>
    <3>1. step' \in Nat \ {0}
      BY <2>1, <2>3
    <3> QED BY <2>2, <2>3, <3>1, FaultsType DEF HistType, ClusterType, WorkerType
  <2>4. CASE Requeue
    <3>1. Idle /\ queue' \subseteq CRs
      BY <1>a, <2>1, <2>4 DEF Requeue
    <3> QED BY <2>2, <3>1, FaultsType, IdleType DEF HistType, ClusterType
  <2> QED BY <1>14, <2>3, <2>4 DEF CleanupStep
<1>15. CASE RemoveFinalizer
  <2>1. pc # "idle" /\ UNCHANGED cluster
    BY <1>15 DEF RemoveFinalizer
  <2>2. [inst EXCEPT !.fin = FALSE] \in Version
    BY DEF WorkerType, Version
  <2>3. CASE UpdateInstance([inst EXCEPT !.fin = FALSE], FALSE)
    BY <2>1, <2>2, <2>3, UpdateType
  <2>4. CASE Done /\ UNCHANGED <<hist, faults>>
    <3>1. Idle /\ UNCHANGED <<queue, hist, faults>>
      BY <2>4 DEF Done
    <3> QED BY <2>1, <3>1, IdleType DEF HistType, ClusterType, cluster
  <2> QED BY <1>15, <2>3, <2>4 DEF RemoveFinalizer
<1>16. CASE AddFinalizer
  <2>1. pc # "idle" /\ UNCHANGED cluster
    BY <1>16 DEF AddFinalizer
  <2>2. [inst EXCEPT !.fin = TRUE] \in Version
    BY DEF WorkerType, Version
  <2> QED BY <1>16, <2>1, <2>2, UpdateType DEF AddFinalizer
<1>17. CASE ReconcileNamespace
  <2>1. NamespaceObj \in Objects
    BY ObjectAssumption
  <2>2. /\ present' \subseteq Objects
        /\ UNCHANGED <<hist, queue, owner, ready, readySeen, cur, inst, step, recErr>>
        /\ UNCHANGED faults \/ Disturb
    BY <1>17, <1>a, <2>1 DEF ReconcileNamespace
  <2>3. cur \in CRs
    BY <1>17 DEF ReconcileNamespace, WorkerType
  <2>4. pc' \in {"operands", "status"} /\ verdict' \in Phases \cup {""}
    BY <1>17 DEF ReconcileNamespace, WorkerType, Phases
  <2> QED BY <2>2, <2>3, <2>4, FaultsType DEF HistType, ClusterType, WorkerType
<1>18. CASE Operand
  <2>1. cur \in CRs /\ step \in Nat \ {0} /\ pc = "operands" /\ step <= Len(Plan)
    BY <1>18 DEF Operand, WorkerType
  <2>2. Plan[step] \in [op : Ops, obj : Objects]
    <3>1. Plan \in Seq([op : Ops, obj : Objects])
      BY PlanAssumption
    <3>2. step \in DOMAIN Plan
      BY <2>1, <3>1
    <3> QED BY <3>2, PlanType
  <2>3. /\ UNCHANGED <<hist, readySeen, cur, inst, verdict>>
        /\ UNCHANGED faults \/ Disturb
        /\ Effect(Plan[step]) \/ UNCHANGED <<present, owner, ready, queue>>
    BY <1>18 DEF Operand
  <2>4. ClusterType'
    BY <1>a, <2>1, <2>2, <2>3, EffectType DEF ClusterType
  <2>5. /\ pc' \in {"operands", "count"}
        /\ step' = step + 1 \/ step' = step
        /\ recErr' \in BOOLEAN
    BY <1>18 DEF Operand, WorkerType
  <2>6. step' \in Nat \ {0}
    BY <2>1, <2>5
  <2> QED BY <2>1, <2>3, <2>4, <2>5, <2>6, FaultsType DEF HistType, WorkerType
<1>19. CASE OperandsDone
  BY <1>19 DEF OperandsDone, HistType, ClusterType, WorkerType, cluster
<1>20. CASE Count
  <2>1. cur \in CRs /\ pc' = "status" /\ UNCHANGED <<hist, queue, cluster, cur, inst, step, recErr>>
    BY <1>20 DEF Count, WorkerType
  <2>2. UNCHANGED faults \/ Disturb
    BY <1>20 DEF Count
  <2>3. \A n, d, e : Phase(n, d, e) \in Phases
    BY DEF Phase, Phases
  <2>4. verdict' \in Phases \cup {""}
    BY <1>20, <2>3 DEF Count
  <2> QED BY <2>1, <2>2, <2>4, FaultsType DEF HistType, ClusterType, WorkerType, cluster
<1>21. CASE PatchStatus
  <2> DEFINE v == [Cached(cur) EXCEPT !.phase = verdict, !.observed = Cached(cur).gen]
  <2>1. cur \in CRs
    BY <1>21 DEF PatchStatus, WorkerType
  <2>2. Cached(cur) \in Version
    BY <2>1, EndsType
  <2>3. v \in Version
    BY <2>2 DEF Version, WorkerType
  <2>4. /\ UNCHANGED hist \/ Write(cur, v)
        /\ UNCHANGED faults \/ Disturb
        /\ Requeue
        /\ UNCHANGED cluster
    BY <1>21 DEF PatchStatus
  <2> HIDE DEF v
  <2>5. HistType'
    BY <2>1, <2>3, <2>4, WriteHist DEF HistType
  <2>6. Idle /\ queue' \subseteq CRs
    BY <1>a, <2>1, <2>4 DEF Requeue
  <2> QED BY <2>4, <2>5, <2>6, FaultsType, IdleType DEF ClusterType, cluster
<1>22. CASE UNCHANGED vars
  BY <1>22 DEF vars, HistType, ClusterType, WorkerType, cluster, worker
<1> QED
  <2>1. CASE Environment
    BY <1>1, <1>2, <1>3, <1>4, <1>5, <1>6, <1>7, <1>9, <1>10, <1>11, <1>12, <2>1
    DEF Environment, User
  <2>2. CASE Worker
    BY <1>14, <1>15, <1>16, <1>17, <1>18, <1>19, <1>20, <1>21, <2>2 DEF Worker
  <2> QED BY <1>13, <1>22, <2>1, <2>2 DEF Next

\* The variables keep their types in every behaviour.
THEOREM TypeCorrect == Spec => []TypeOK
BY InitType, NextType, PTL DEF Spec

-----------------------------------------------------------------------------
(* The inductive invariant.                                                *)

\* A write that agrees with every live finalized version before it, and leaves
\* a deleting resource deleting, keeps the history's invariant.
LEMMA WriteKeepsHistory ==
  ASSUME TypeOK, HistoryInv, NEW c \in CRs, NEW v \in Version, Write(c, v),
         Server(c).uid <= Stored(v).uid,
         \A i \in 1 .. Len(hist[c]) : Alive(hist[c][i]) /\ hist[c][i].fin =>
           Stored(v).exists /\ Stored(v).fin /\ Stored(v).uid = hist[c][i].uid,
         Stored(v).exists /\ Stored(v).uid = Server(c).uid =>
           Server(c).exists /\ (Server(c).deleting => Stored(v).deleting)
  PROVE  HistoryInv'
<1> DEFINE n == Len(hist[c])
           w == Stored(v)
<1>1. /\ n \in Nat /\ n >= 1
      /\ \A i \in 1 .. n : hist[c][i] \in Version
      /\ Server(c) \in Version /\ w \in Version
  BY EndsType, StoredType
<1>2. /\ Len(hist'[c]) = n + 1
      /\ hist'[c][n + 1] = w
      /\ \A i \in 1 .. n : hist'[c][i] = hist[c][i]
      /\ Server(c)' = w
      /\ \A d \in CRs \ {c} : hist'[d] = hist[d] /\ Server(d)' = Server(d)
  BY WriteHist
<1>3. Server(c) = hist[c][n]
  BY DEF Server
<1>4. \A i \in 1 .. n : hist[c][i].uid \in Nat /\ w.uid \in Nat /\ Server(c).uid \in Nat
  BY <1>1, VersionCounters
<1> HIDE DEF n, w
<1>5. \A i \in 1 .. n : hist[c][i].uid <= w.uid
  <2> TAKE i \in 1 .. n
  <2>1. hist[c][i].uid <= Server(c).uid /\ Server(c).uid <= w.uid
    BY DEF HistoryInv, n, w
  <2> QED BY <2>1, <1>4
<1>6. \A i \in 1 .. n : Alive(hist[c][i]) /\ hist[c][i].fin =>
                          w.exists /\ w.fin /\ w.uid = hist[c][i].uid
  BY DEF n, w
<1>7. \A i \in 1 .. n : hist[c][i].deleting /\ w.exists /\ w.uid = hist[c][i].uid => w.deleting
  <2> SUFFICES ASSUME NEW i \in 1 .. n, hist[c][i].deleting, w.exists, w.uid = hist[c][i].uid
               PROVE  w.deleting
    OBVIOUS
  <2>1. hist[c][i].uid <= Server(c).uid /\ Server(c).uid <= w.uid
    BY DEF HistoryInv, n, w
  <2>2. Server(c).uid = w.uid
    BY <2>1, <1>4
  <2>3. Server(c).exists /\ (Server(c).deleting => w.deleting)
    BY <2>2 DEF w
  <2>4. n \in i .. n
    BY <1>1
  <2>5. hist[c][n].deleting
    BY <1>3, <2>2, <2>3, <2>4 DEF HistoryInv, n
  <2> QED BY <1>3, <2>3, <2>5
<1>9. ASSUME NEW d \in CRs, NEW i \in 1 .. Len(hist'[d])
      PROVE  /\ hist'[d][i].uid <= Server(d)'.uid
             /\ Alive(hist'[d][i]) /\ hist'[d][i].fin =>
                  Holds(d)' /\ Server(d)'.uid = hist'[d][i].uid
             /\ \A j \in i .. Len(hist'[d]) :
                  hist'[d][i].deleting /\ hist'[d][j].exists /\ hist'[d][j].uid = hist'[d][i].uid
                  => hist'[d][j].deleting
  <2>1. CASE d # c
    <3>1. hist'[d] = hist[d] /\ Server(d)' = Server(d) /\ (Holds(d)' <=> Holds(d))
      BY <1>2, <2>1 DEF Holds
    <3> QED BY <3>1 DEF HistoryInv
  <2>2. CASE d = c /\ i \in 1 .. n
    <3>1. hist'[d][i] = hist[c][i] /\ Server(d)' = w
      BY <1>2, <2>2
    <3>2. hist'[d][i].uid <= Server(d)'.uid
      BY <1>5, <2>2, <3>1
    <3>3. Alive(hist'[d][i]) /\ hist'[d][i].fin =>
            Holds(d)' /\ Server(d)'.uid = hist'[d][i].uid
      BY <1>6, <2>2, <3>1 DEF Holds
    <3>4. ASSUME NEW j \in i .. Len(hist'[d]), hist'[d][i].deleting, hist'[d][j].exists,
                 hist'[d][j].uid = hist'[d][i].uid
          PROVE  hist'[d][j].deleting
      <4>1. CASE j = n + 1
        <5>1. hist'[d][j] = w
          BY <1>2, <2>2, <4>1
        <5> QED BY <1>7, <2>2, <3>1, <3>4, <5>1
      <4>2. CASE j # n + 1
        <5>1. j \in i .. n /\ j \in 1 .. n
          BY <1>1, <1>2, <2>2, <4>2
        <5>2. hist'[d][j] = hist[c][j]
          BY <1>2, <2>2, <5>1
        <5>3. i \in 1 .. Len(hist[c]) /\ j \in i .. Len(hist[c])
          BY <2>2, <5>1 DEF n
        <5> QED BY <3>1, <3>4, <5>2, <5>3 DEF HistoryInv
      <4> QED BY <4>1, <4>2
    <3> QED BY <3>2, <3>3, <3>4
  <2>3. CASE d = c /\ i = n + 1
    <3>1. hist'[d][i] = w /\ Server(d)' = w
      BY <1>2, <2>3
    <3>2. w.uid \in Nat
      BY <1>1, VersionCounters
    <3>3. \A j \in i .. Len(hist'[d]) : hist'[d][j] = w
      BY <1>1, <1>2, <2>3
    <3> QED BY <3>1, <3>2, <3>3 DEF Holds, Alive
  <2>4. d = c => i \in 1 .. n \/ i = n + 1
    BY <1>1, <1>2
  <2> QED BY <2>1, <2>2, <2>3, <2>4
<1> QED BY <1>9 DEF HistoryInv

\* In particular a write that leaves a held resource held.
LEMMA WriteKeepsHold ==
  ASSUME TypeOK, HistoryInv, NEW c \in CRs, NEW v \in Version, Write(c, v),
         Server(c).uid <= Stored(v).uid,
         Holds(c) => /\ Stored(v).exists /\ Stored(v).fin
                     /\ Stored(v).uid = Server(c).uid,
         Stored(v).exists /\ Stored(v).uid = Server(c).uid =>
           Server(c).exists /\ (Server(c).deleting => Stored(v).deleting)
  PROVE  /\ HistoryInv'
         /\ \A d \in CRs : Holds(d) => Holds(d)' /\ Server(d)'.uid = Server(d).uid
<1>1. \A i \in 1 .. Len(hist[c]) : Alive(hist[c][i]) /\ hist[c][i].fin =>
        Holds(c) /\ Server(c).uid = hist[c][i].uid
  BY DEF HistoryInv
<1>2. HistoryInv'
  BY <1>1, WriteKeepsHistory
<1>3. Server(c)' = Stored(v) /\ \A d \in CRs \ {c} : Server(d)' = Server(d)
  BY WriteHist
<1>4. ASSUME NEW d \in CRs PROVE Holds(d) => Holds(d)' /\ Server(d)'.uid = Server(d).uid
  <2>1. CASE d = c
    BY <1>3, <2>1 DEF Holds
  <2>2. CASE d # c
    BY <1>3, <2>2 DEF Holds
  <2> QED BY <2>1, <2>2
<1> QED BY <1>2, <1>4
\* A delivery keeps it too.
LEMMA DeliverKeepsHistory ==
  ASSUME TypeOK, HistoryInv, NEW c \in CRs, Deliver(c)
  PROVE  HistoryInv'
<1>1. /\ Len(hist'[c]) = Len(hist[c]) - 1
      /\ \A i \in 1 .. Len(hist'[c]) : hist'[c][i] = hist[c][i + 1]
      /\ \A d \in CRs : Server(d)' = Server(d)
      /\ \A d \in CRs \ {c} : hist'[d] = hist[d]
  BY DeliverHist
<1>2. \A d \in CRs : Holds(d)' <=> Holds(d)
  BY <1>1 DEF Holds
<1>3. Len(hist[c]) \in Nat
  BY EndsType
<1> SUFFICES ASSUME NEW d \in CRs, NEW i \in 1 .. Len(hist'[d])
    PROVE  /\ hist'[d][i].uid <= Server(d)'.uid
           /\ Alive(hist'[d][i]) /\ hist'[d][i].fin =>
                Holds(d)' /\ Server(d)'.uid = hist'[d][i].uid
           /\ \A j \in i .. Len(hist'[d]) :
                hist'[d][i].deleting /\ hist'[d][j].exists /\ hist'[d][j].uid = hist'[d][i].uid
                => hist'[d][j].deleting
  BY DEF HistoryInv
<1>4. CASE d # c
  BY <1>1, <1>2, <1>4 DEF HistoryInv
<1>5. CASE d = c
  <2>1. i + 1 \in 1 .. Len(hist[c]) /\ hist'[d][i] = hist[c][i + 1] /\ Server(d)' = Server(c)
    BY <1>1, <1>3, <1>5
  <2>2. \A j \in i .. Len(hist'[d]) :
          j + 1 \in (i + 1) .. Len(hist[c]) /\ hist'[d][j] = hist[c][j + 1]
    BY <1>1, <1>3, <1>5
  <2>3. /\ hist[c][i + 1].uid <= Server(c).uid
        /\ Alive(hist[c][i + 1]) /\ hist[c][i + 1].fin =>
             Holds(c) /\ Server(c).uid = hist[c][i + 1].uid
        /\ \A j \in (i + 1) .. Len(hist[c]) :
             hist[c][i + 1].deleting /\ hist[c][j].exists /\ hist[c][j].uid = hist[c][i + 1].uid
             => hist[c][j].deleting
    BY <2>1 DEF HistoryInv
  <2>4. \A j \in i .. Len(hist'[d]) :
          hist'[d][i].deleting /\ hist'[d][j].exists /\ hist'[d][j].uid = hist'[d][i].uid
          => hist'[d][j].deleting
    BY <2>1, <2>2, <2>3
  <2> QED BY <1>2, <1>5, <2>1, <2>3, <2>4
<1> QED BY <1>4, <1>5

\* Steps of the cluster that touch neither the resources nor the worker, and
\* only take objects away.
LEMMA ClusterStep ==
  ASSUME TypeOK, IInv, UNCHANGED <<hist, worker>>, present' \subseteq present
  PROVE  IInv' /\ Kept
<1>1. HistoryInv' /\ \A c \in CRs : Holds(c)' = Holds(c) /\ Server(c)' = Server(c)
  BY DEF IInv, HistoryInv, Holds, Server
<1>2. cur \in CRs \cup {None} /\ (pc # "idle" => cur \in CRs)
  BY DEF TypeOK, WorkerType
<1>3. PassInv' /\ PastFinalizerCheck'
  BY <1>1, <1>2 DEF IInv, PassInv, PastFinalizerCheck, worker
<1>4. CleanupInv' /\ NoOrphan'
  BY <1>1 DEF IInv, CleanupInv, NoOrphan, worker
<1> QED BY <1>1, <1>3, <1>4 DEF IInv, Kept

\* The worker lets go of its request.
LEMMA IdleStep ==
  ASSUME TypeOK, IInv, Idle, present' \subseteq present, HistoryInv',
         \A c \in CRs : Holds(c) => Holds(c)'
  PROVE  IInv' /\ Kept
<1>1. pc' = "idle" /\ step' = 1
  BY DEF Idle
<1>2. PassInv' /\ PastFinalizerCheck'
  BY <1>1 DEF PassInv, PastFinalizerCheck
<1>3. CleanupInv' /\ NoOrphan'
  BY <1>1 DEF IInv, CleanupInv, NoOrphan
<1> QED BY <1>2, <1>3 DEF IInv, Kept

\* A history that does not change keeps its invariant.
LEMMA SameHistory ==
  ASSUME HistoryInv, UNCHANGED hist
  PROVE  HistoryInv' /\ \A c \in CRs : Holds(c)' = Holds(c) /\ Server(c)' = Server(c)
BY DEF HistoryInv, Holds, Server

\* A write by a user or by the garbage collector, beside the worker.
LEMMA UserStep ==
  ASSUME TypeOK, IInv, UNCHANGED <<cluster, worker>>,
         NEW c \in CRs, NEW v \in Version, Write(c, v),
         Server(c).uid <= Stored(v).uid,
         Holds(c) => /\ Stored(v).exists /\ Stored(v).fin
                     /\ Stored(v).uid = Server(c).uid,
         Stored(v).exists /\ Stored(v).uid = Server(c).uid =>
           Server(c).exists /\ (Server(c).deleting => Stored(v).deleting)
  PROVE  IInv' /\ Kept
<1>1. HistoryInv' /\ \A d \in CRs : Holds(d) => Holds(d)' /\ Server(d)'.uid = Server(d).uid
  BY WriteKeepsHold DEF IInv
<1>2. UNCHANGED <<present, pc, cur, inst, step>> /\ (pc # "idle" => cur \in CRs)
  BY DEF cluster, worker, TypeOK, WorkerType
<1>3. PastFinalizerCheck' /\ CleanupInv' /\ NoOrphan'
  BY <1>1, <1>2 DEF IInv, PastFinalizerCheck, CleanupInv, NoOrphan
<1>4. PassInv'
  <2>1. CASE pc # "cleanup"
    BY <1>2, <2>1 DEF IInv, PassInv
  <2>2. CASE pc = "cleanup" /\ cur # c
    <3>1. cur \in CRs /\ hist'[cur] = hist[cur] /\ Server(cur)' = Server(cur)
      BY <1>2, <2>2, WriteHist
    <3> QED BY <1>2, <2>2, <3>1 DEF IInv, PassInv
  <2>3. CASE pc = "cleanup" /\ cur = c
    <3>1. /\ inst.deleting
          /\ inst.uid <= Server(c).uid
          /\ \A i \in 1 .. Len(hist[c]) :
               hist[c][i].exists /\ hist[c][i].uid = inst.uid => hist[c][i].deleting
      BY <2>3 DEF IInv, PassInv
    <3>2. /\ Len(hist'[c]) = Len(hist[c]) + 1
          /\ hist'[c][Len(hist[c]) + 1] = Stored(v)
          /\ \A i \in 1 .. Len(hist[c]) : hist'[c][i] = hist[c][i]
          /\ Server(c)' = Stored(v)
      BY WriteHist
    <3>3. /\ Len(hist[c]) \in Nat \ {0} /\ Server(c) = hist[c][Len(hist[c])]
          /\ inst.uid \in Nat /\ Server(c).uid \in Nat /\ Stored(v).uid \in Nat
      <4>1. inst \in Version /\ Server(c) \in Version /\ Stored(v) \in Version
        BY EndsType, StoredType DEF TypeOK, WorkerType
      <4> QED BY <4>1, EndsType, VersionCounters DEF Server
    <3>4. inst.uid <= Stored(v).uid
      BY <3>1, <3>3
    <3>5. Stored(v).exists /\ Stored(v).uid = inst.uid => Stored(v).deleting
      <4> SUFFICES ASSUME Stored(v).exists, Stored(v).uid = inst.uid PROVE Stored(v).deleting
        OBVIOUS
      <4>1. Server(c).uid = inst.uid
        BY <3>1, <3>3
      <4>2. Server(c).exists /\ (Server(c).deleting => Stored(v).deleting)
        BY <4>1
      <4>3. Server(c).deleting
        BY <3>1, <3>3, <4>1, <4>2
      <4> QED BY <4>2, <4>3
    <3>6. \A i \in 1 .. Len(hist'[c]) :
            hist'[c][i].exists /\ hist'[c][i].uid = inst.uid => hist'[c][i].deleting
      <4> TAKE i \in 1 .. Len(hist'[c])
      <4>1. i \in 1 .. Len(hist[c]) \/ i = Len(hist[c]) + 1
        BY <3>2, <3>3
      <4> QED BY <3>1, <3>2, <3>5, <4>1
    <3> QED BY <1>2, <2>3, <3>1, <3>2, <3>4, <3>6 DEF PassInv
  <2> QED BY <2>1, <2>2, <2>3
<1> QED BY <1>1, <1>3, <1>4 DEF IInv, Kept
\* At the end of a cleanup no cluster-scoped operand is left.
LEMMA CleanupDone ==
  ASSUME TypeOK, IInv, pc = "cleanup", step > Len(Cleanup)
  PROVE  present \cap ClusterScoped = {}
<1> SUFFICES ASSUME NEW o \in present \cap ClusterScoped PROVE FALSE
  OBVIOUS
<1>1. PICK j \in DOMAIN Cleanup : Cleanup[j] = o
  BY DEF IInv, CleanupInv
<1>2. Cleanup \in Seq(Objects) /\ step \in Nat
  BY CleanupAssumption DEF TypeOK, WorkerType
<1>3. j < step
  BY <1>1, <1>2
<1> QED BY <1>1, <1>3 DEF IInv, CleanupInv

\* The write that removes the finalizer: no cached version is alive any more.
LEMMA RemovalKeepsHistory ==
  ASSUME TypeOK, IInv, pc = "cleanup", inst.fin, inst = Server(cur),
         Write(cur, [inst EXCEPT !.fin = FALSE])
  PROVE  HistoryInv'
<1> DEFINE v == [inst EXCEPT !.fin = FALSE]
<1>1. cur \in CRs /\ inst \in Version /\ v \in Version
  BY DEF TypeOK, WorkerType, Version
<1>2. v.uid = inst.uid /\ v.deleting = inst.deleting /\ Stored(v).uid = inst.uid
  BY <1>1, StoredType DEF Version
<1>3. Server(cur).uid <= Stored(v).uid
  <2>1. inst.uid \in Nat
    BY <1>1, VersionCounters
  <2> QED BY <1>2, <2>1
<1>4. ASSUME NEW i \in 1 .. Len(hist[cur]), Alive(hist[cur][i]), hist[cur][i].fin
      PROVE  FALSE
  <2>1. Server(cur).uid = hist[cur][i].uid
    BY <1>1, <1>4 DEF IInv, HistoryInv
  <2>2. hist[cur][i].deleting
    BY <1>4, <2>1 DEF IInv, PassInv, Alive
  <2> QED BY <1>4, <2>2 DEF Alive
<1>5. Stored(v).exists => Server(cur).exists /\ Stored(v).deleting
  BY <1>1, <1>2 DEF IInv, PassInv, Stored, Gone, Version
<1> HIDE DEF v
<1>6. Write(cur, v)
  BY DEF v
<1> QED BY <1>1, <1>3, <1>4, <1>5, <1>6, WriteKeepsHistory DEF IInv
\* The invariant holds when the operator starts.
LEMMA InitInv == Init => IInv
<1> SUFFICES ASSUME Init PROVE IInv
  OBVIOUS
<1>1. \A c \in CRs : hist[c] = <<Gone(0)>>
  BY DEF Init
<1>2. /\ Len(<<Gone(0)>>) = 1 /\ <<Gone(0)>>[1] = Gone(0)
      /\ ~Gone(0).exists /\ ~Gone(0).deleting /\ Gone(0).uid = 0
  BY DEF Gone
<1>3. HistoryInv
  BY <1>1, <1>2 DEF HistoryInv, Server, Alive
<1>4. pc = "idle" /\ step = 1
  BY DEF Init, IdleWorker
<1>5. present \cap ClusterScoped = {}
  <2>1. Legacy \cap ClusterScoped = {}
    BY PlanAssumption DEF Legacy
  <2> QED BY <2>1 DEF Init
<1> QED BY <1>3, <1>4, <1>5 DEF IInv, PassInv, CleanupInv, PastFinalizerCheck, NoOrphan

\* Every step keeps the invariant.
LEMMA NextInv == TypeOK /\ IInv /\ [Next]_vars => IInv' /\ Kept
<1> SUFFICES ASSUME TypeOK, IInv, [Next]_vars PROVE IInv' /\ Kept
  OBVIOUS
<1>a. pc # "idle" => cur \in CRs
  BY DEF TypeOK, WorkerType
<1>b. HistoryInv /\ PassInv /\ CleanupInv /\ PastFinalizerCheck /\ NoOrphan
  BY DEF IInv
<1>1. ASSUME NEW c \in CRs, CreateCR(c) PROVE IInv' /\ Kept
  <2> DEFINE v == Created(Server(c).uid + 1)
  <2>1. Server(c) \in Version /\ Server(c).uid \in Nat /\ v \in Version
    BY EndsType, VersionCounters, UserVersions
  <2>2. Stored(v) = v /\ v.uid = Server(c).uid + 1
    BY DEF Stored, Created
  <2>3. ~Holds(c) /\ Write(c, v) /\ UNCHANGED <<cluster, worker>>
    BY <1>1 DEF CreateCR, Holds
  <2> HIDE DEF v
  <2>4. Server(c).uid <= Stored(v).uid /\ Stored(v).uid # Server(c).uid
    BY <2>1, <2>2
  <2> QED BY <2>1, <2>3, <2>4, UserStep
<1>2. ASSUME NEW c \in CRs, EditSpec(c) PROVE IInv' /\ Kept
  <2> DEFINE v == [Server(c) EXCEPT !.gen = Server(c).gen + 1]
  <2>1. Server(c) \in Version /\ Server(c).uid \in Nat /\ v \in Version
    BY EndsType, VersionCounters, UserVersions
  <2>2. Server(c).exists /\ Write(c, v) /\ UNCHANGED <<cluster, worker>>
    BY <1>2 DEF EditSpec
  <2>3. /\ v.uid = Server(c).uid /\ v.fin = Server(c).fin /\ v.fg = Server(c).fg
        /\ v.deleting = Server(c).deleting /\ v.exists = Server(c).exists
    BY <2>1 DEF Version
  <2>4. /\ Server(c).uid <= Stored(v).uid
        /\ Holds(c) => Stored(v).exists /\ Stored(v).fin /\ Stored(v).uid = Server(c).uid
        /\ Stored(v).exists => (Server(c).deleting => Stored(v).deleting)
    BY <2>1, <2>3 DEF Stored, Gone, Holds
  <2> HIDE DEF v
  <2> QED BY <2>1, <2>2, <2>4, UserStep
<1>3. ASSUME NEW c \in CRs, NEW f \in BOOLEAN, DeleteCR(c, f) PROVE IInv' /\ Kept
  <2> DEFINE v == [Server(c) EXCEPT !.deleting = TRUE, !.fg = f, !.gen = Server(c).gen + 1]
  <2>1. Server(c) \in Version /\ Server(c).uid \in Nat /\ v \in Version
    BY EndsType, VersionCounters, UserVersions
  <2>2. Server(c).exists /\ Write(c, v) /\ UNCHANGED <<cluster, worker>>
    BY <1>3 DEF DeleteCR
  <2>3. /\ v.uid = Server(c).uid /\ v.fin = Server(c).fin /\ v.fg = f
        /\ v.deleting = TRUE /\ v.exists = Server(c).exists
    BY <2>1 DEF Version
  <2>4. /\ Server(c).uid <= Stored(v).uid
        /\ Holds(c) => Stored(v).exists /\ Stored(v).fin /\ Stored(v).uid = Server(c).uid
        /\ Stored(v).exists => Stored(v).deleting
    BY <2>1, <2>3 DEF Stored, Gone, Holds
  <2> HIDE DEF v
  <2> QED BY <2>1, <2>2, <2>4, UserStep
<1>4. ASSUME NEW c \in CRs, Deliver(c) PROVE IInv' /\ Kept
  <2>1. HistoryInv' /\ \A d \in CRs : Server(d)' = Server(d)
    BY <1>4, <1>b, DeliverKeepsHistory, DeliverHist
  <2>2. \A d \in CRs : Holds(d)' <=> Holds(d)
    BY <2>1 DEF Holds
  <2>3. UNCHANGED <<present, pc, cur, inst, step>>
    BY <1>4 DEF Deliver, cluster, worker
  <2>4. PastFinalizerCheck' /\ CleanupInv' /\ NoOrphan'
    BY <1>a, <1>b, <2>1, <2>2, <2>3 DEF PastFinalizerCheck, CleanupInv, NoOrphan
  <2>5. PassInv'
    <3>1. CASE pc # "cleanup"
      BY <1>b, <2>3, <3>1 DEF PassInv
    <3>2. CASE pc = "cleanup"
      <4>1. Len(hist[cur]) \in Nat /\ cur \in CRs
        BY <1>a, <3>2, EndsType
      <4>2. \A i \in 1 .. Len(hist'[cur]) : \E k \in 1 .. Len(hist[cur]) : hist'[cur][i] = hist[cur][k]
        <5>1. CASE cur = c
          <6>1. /\ Len(hist'[cur]) = Len(hist[cur]) - 1
                /\ \A i \in 1 .. Len(hist'[cur]) : hist'[cur][i] = hist[cur][i + 1]
            BY <1>4, <5>1, DeliverHist
          <6>2. \A i \in 1 .. Len(hist'[cur]) : i + 1 \in 1 .. Len(hist[cur])
            BY <4>1, <6>1
          <6> QED BY <6>1, <6>2
        <5>2. CASE cur # c
          BY <1>4, <4>1, <5>2, DeliverHist
        <5> QED BY <5>1, <5>2
      <4> QED BY <1>b, <2>1, <2>3, <3>2, <4>1, <4>2 DEF PassInv
    <3> QED BY <3>1, <3>2
  <2> QED BY <2>1, <2>2, <2>4, <2>5 DEF IInv, Kept
<1>5. ASSUME NEW c \in CRs, ForegroundDone(c) PROVE IInv' /\ Kept
  <2> DEFINE v == [Server(c) EXCEPT !.fg = FALSE]
  <2>1. Server(c) \in Version /\ Server(c).uid \in Nat /\ v \in Version
    <3>1. Server(c) \in Version
      BY EndsType
    <3> QED BY <3>1 DEF Version
  <2>2. Write(c, v) /\ UNCHANGED <<cluster, worker>>
    BY <1>5 DEF ForegroundDone
  <2>3. /\ v.uid = Server(c).uid /\ v.fin = Server(c).fin
        /\ v.deleting = Server(c).deleting /\ v.exists = Server(c).exists
    BY <2>1 DEF Version
  <2>4. /\ Server(c).uid <= Stored(v).uid
        /\ Holds(c) => Stored(v).exists /\ Stored(v).fin /\ Stored(v).uid = Server(c).uid
        /\ Stored(v).exists => Server(c).exists /\ (Server(c).deleting => Stored(v).deleting)
    BY <2>1, <2>3 DEF Stored, Gone, Holds
  <2> HIDE DEF v
  <2> QED BY <2>1, <2>2, <2>4, UserStep
<1>6. ASSUME NEW o \in Objects,
             StsReady(o) \/ ReadySync(o) \/ Collect(o) \/ DeleteOperand(o) \/ PodFails(o)
      PROVE  IInv' /\ Kept
  <2>1. UNCHANGED <<hist, worker>> /\ present' \subseteq present
    BY <1>6 DEF StsReady, ReadySync, Collect, DeleteOperand, PodFails, Remove
  <2> QED BY <2>1, ClusterStep
<1>7. CASE Restart
  <2>1. Idle /\ UNCHANGED <<hist, present>>
    BY <1>7 DEF Restart, cluster
  <2> QED BY <1>b, <2>1, IdleStep, SameHistory
<1>8. ASSUME NEW c \in CRs, Start(c) PROVE IInv' /\ Kept
  <2>1. UNCHANGED <<hist, present>> /\ pc = "idle" /\ step = 1
    BY <1>8, <1>b DEF Start, CleanupInv, cluster
  <2>2. HistoryInv' /\ \A d \in CRs : Holds(d)' = Holds(d) /\ Server(d)' = Server(d)
    BY <1>b, <2>1, SameHistory
  <2>3. CASE UNCHANGED worker
    BY <2>1, <2>3, ClusterStep
  <2>4. CASE /\ Cached(c).exists
             /\ cur' = c /\ inst' = Cached(c) /\ step' = step
             /\ pc' = IF Cached(c).deleting THEN "cleanup"
                      ELSE IF ~Cached(c).fin THEN "addFinalizer" ELSE "namespace"
    <3>1. 1 \in 1 .. Len(hist[c]) /\ Len(hist[c]) \in Nat
      BY EndsType
    <3>2. /\ Cached(c).uid <= Server(c).uid
          /\ Alive(Cached(c)) /\ Cached(c).fin => Holds(c) /\ Server(c).uid = Cached(c).uid
          /\ \A j \in 1 .. Len(hist[c]) :
               Cached(c).deleting /\ hist[c][j].exists /\ hist[c][j].uid = Cached(c).uid
               => hist[c][j].deleting
      BY <1>b, <3>1 DEF HistoryInv, Cached
    <3>3. PassInv'
      BY <2>1, <2>2, <2>4, <3>2 DEF PassInv, Alive
    <3>4. PastFinalizerCheck'
      BY <2>2, <2>4, <3>2 DEF PastFinalizerCheck, Alive
    <3>5. CleanupInv'
      <4>1. \A j \in DOMAIN Cleanup : ~(j < 1)
        BY CleanupAssumption
      <4> QED BY <1>b, <2>1, <2>4, <4>1 DEF CleanupInv
    <3>6. NoOrphan'
      BY <1>b, <2>1, <2>2 DEF NoOrphan
    <3> QED BY <2>2, <3>3, <3>4, <3>5, <3>6 DEF IInv, Kept
  <2> QED BY <1>8, <2>3, <2>4 DEF Start
<1>9. CASE CleanupStep
  <2>1. UNCHANGED hist /\ present' \subseteq present /\ pc = "cleanup"
    BY <1>9 DEF CleanupStep
  <2>2. HistoryInv' /\ \A d \in CRs : Holds(d)' = Holds(d) /\ Server(d)' = Server(d)
    BY <1>b, <2>1, SameHistory
  <2>3. CASE Requeue
    BY <2>1, <2>2, <2>3, IdleStep DEF Requeue
  <2>4. CASE /\ present' = present \ {Cleanup[step]} /\ step' = step + 1
             /\ UNCHANGED <<pc, cur, inst>>
    <3>1. \A j \in DOMAIN Cleanup : j < step + 1 => j < step \/ j = step
      <4>1. step \in Nat /\ \A j \in DOMAIN Cleanup : j \in Nat
        <5>1. Cleanup \in Seq(Objects)
          BY CleanupAssumption
        <5>2. \A j \in DOMAIN Cleanup : j \in Nat
          BY <5>1
        <5> QED BY <5>2 DEF TypeOK, WorkerType
      <4> QED BY <4>1
    <3>2. CleanupInv'
      BY <1>b, <2>1, <2>4, <3>1 DEF CleanupInv
    <3>3. PassInv' /\ PastFinalizerCheck' /\ NoOrphan'
      BY <1>a, <1>b, <2>1, <2>2, <2>4 DEF PassInv, PastFinalizerCheck, NoOrphan
    <3> QED BY <2>2, <3>2, <3>3 DEF IInv, Kept
  <2> QED BY <1>9, <2>3, <2>4 DEF CleanupStep
<1>10. CASE RemoveFinalizer
  <2>1. pc = "cleanup" /\ step > Len(Cleanup) /\ UNCHANGED present
    BY <1>10 DEF RemoveFinalizer, cluster
  <2>2. Idle
    BY <1>10 DEF RemoveFinalizer, UpdateInstance, Requeue, Done
  <2>3. CASE UNCHANGED hist
    BY <1>b, <2>1, <2>2, <2>3, IdleStep, SameHistory
  <2>4. CASE inst.fin /\ inst = Server(cur) /\ Write(cur, [inst EXCEPT !.fin = FALSE])
    <3>1. HistoryInv'
      BY <2>1, <2>4, RemovalKeepsHistory
    <3>2. present' \cap ClusterScoped = {}
      BY <2>1, CleanupDone
    <3>3. pc' = "idle" /\ step' = 1
      BY <2>2 DEF Idle
    <3> QED BY <2>1, <3>1, <3>2, <3>3 DEF IInv, Kept, PassInv, CleanupInv, PastFinalizerCheck, NoOrphan
  <2> QED BY <1>10, <2>3, <2>4 DEF RemoveFinalizer, UpdateInstance
<1>11. CASE AddFinalizer
  <2> DEFINE v == [inst EXCEPT !.fin = TRUE]
  <2>1. pc = "addFinalizer" /\ UNCHANGED present /\ cur \in CRs /\ Alive(inst)
    BY <1>11, <1>a, <1>b DEF AddFinalizer, cluster, PassInv
  <2>2. Idle
    BY <1>11 DEF AddFinalizer, UpdateInstance, Requeue
  <2>3. CASE UNCHANGED hist
    BY <1>b, <2>1, <2>2, <2>3, IdleStep, SameHistory
  <2>4. CASE inst = Server(cur) /\ Write(cur, v)
    <3>1. inst \in Version /\ v \in Version /\ inst.uid \in Nat
      BY VersionCounters DEF TypeOK, WorkerType, Version
    <3>2. v.uid = inst.uid /\ v.exists /\ ~v.deleting /\ v.fin
      BY <2>1, <3>1 DEF Version, Alive
    <3> HIDE DEF v
    <3>3. Stored(v) = v
      BY <3>2 DEF Stored
    <3>4. Server(cur).uid <= Stored(v).uid
      BY <2>4, <3>1, <3>2, <3>3
    <3>5. HistoryInv' /\ \A d \in CRs : Holds(d) => Holds(d)'
      BY <1>b, <2>1, <2>4, <3>1, <3>2, <3>3, <3>4, WriteKeepsHold DEF Alive
    <3> QED BY <2>1, <2>2, <3>5, IdleStep
  <2> QED BY <1>11, <2>3, <2>4 DEF AddFinalizer, UpdateInstance
<1>12. CASE ReconcileNamespace
  <2>1. /\ UNCHANGED <<hist, cur, inst>> /\ pc = "namespace"
        /\ pc' \in {"operands", "status"}
        /\ present' \cap ClusterScoped \subseteq present \cap ClusterScoped
    BY <1>12, ObjectAssumption DEF ReconcileNamespace
  <2>2. HistoryInv' /\ \A d \in CRs : Holds(d)' = Holds(d) /\ Server(d)' = Server(d)
    BY <1>b, <2>1, SameHistory
  <2> QED BY <1>a, <1>b, <2>1, <2>2
          DEF IInv, Kept, PassInv, CleanupInv, PastFinalizerCheck, NoOrphan
<1>13. CASE Operand
  <2>1. /\ UNCHANGED <<hist, cur, inst>> /\ pc = "operands" /\ step <= Len(Plan)
        /\ pc' \in {"operands", "count"}
        /\ Effect(Plan[step]) \/ UNCHANGED present
    BY <1>13 DEF Operand
  <2>2. present' \subseteq present \cup {Plan[step].obj}
    BY <2>1 DEF Effect, Remove
  <2>3. Plan[step].obj \in ClusterScoped => \E j \in DOMAIN Cleanup : Cleanup[j] = Plan[step].obj
    <3>1. Plan \in Seq([op : Ops, obj : Objects]) /\ step \in Nat \ {0}
      BY PlanAssumption DEF TypeOK, WorkerType
    <3>2. step \in DOMAIN Plan
      BY <2>1, <3>1
    <3> QED BY <3>2, CleanupAssumption
  <2>4. HistoryInv' /\ \A d \in CRs : Holds(d)' = Holds(d) /\ Server(d)' = Server(d)
    BY <1>b, <2>1, SameHistory
  <2>5. Holds(cur) /\ Server(cur).uid = inst.uid /\ cur \in CRs
    BY <1>a, <1>b, <2>1 DEF PastFinalizerCheck
  <2>6. CleanupInv'
    BY <1>b, <2>1, <2>2, <2>3 DEF CleanupInv
  <2> QED BY <1>b, <2>1, <2>4, <2>5, <2>6 DEF IInv, Kept, PassInv, PastFinalizerCheck, NoOrphan
<1>14. CASE OperandsDone \/ Count
  <2>1. /\ UNCHANGED <<hist, present, cur, inst>> /\ pc \in {"operands", "count"}
        /\ pc' \in {"count", "status"}
    BY <1>14 DEF OperandsDone, Count, cluster
  <2>2. HistoryInv' /\ \A d \in CRs : Holds(d)' = Holds(d) /\ Server(d)' = Server(d)
    BY <1>b, <2>1, SameHistory
  <2> QED BY <1>a, <1>b, <2>1, <2>2
          DEF IInv, Kept, PassInv, CleanupInv, PastFinalizerCheck, NoOrphan
<1>15. CASE PatchStatus
  <2> DEFINE v == [Cached(cur) EXCEPT !.phase = verdict, !.observed = Cached(cur).gen]
  <2>1. pc = "status" /\ UNCHANGED present /\ cur \in CRs /\ Idle
    BY <1>15, <1>a DEF PatchStatus, cluster, Requeue
  <2>2. UNCHANGED hist \/ (Cached(cur).exists /\ Len(hist[cur]) = 1 /\ Write(cur, v))
    BY <1>15 DEF PatchStatus
  <2>3. CASE UNCHANGED hist
    BY <1>b, <2>1, <2>3, IdleStep, SameHistory
  <2>4. CASE Cached(cur).exists /\ Len(hist[cur]) = 1 /\ Write(cur, v)
    <3>1. Cached(cur) = Server(cur) /\ Cached(cur) \in Version
      BY <2>1, <2>4, EndsType DEF Cached, Server
    <3>2. v \in Version /\ Cached(cur).uid \in Nat
      BY <3>1, VersionCounters DEF TypeOK, WorkerType, Version
    <3>3. /\ v.uid = Cached(cur).uid /\ v.fin = Cached(cur).fin
          /\ v.deleting = Cached(cur).deleting /\ v.exists = Cached(cur).exists
      BY <3>1 DEF Version
    <3>4. /\ Server(cur).uid <= Stored(v).uid
          /\ Holds(cur) => /\ Stored(v).exists /\ Stored(v).fin
                           /\ Stored(v).uid = Server(cur).uid
          /\ Stored(v).exists => (Server(cur).deleting => Stored(v).deleting)
      BY <3>1, <3>2, <3>3 DEF Stored, Gone, Holds
    <3> HIDE DEF v
    <3>5. HistoryInv' /\ \A d \in CRs : Holds(d) => Holds(d)'
      BY <1>b, <2>1, <2>4, <3>1, <3>2, <3>4, WriteKeepsHold
    <3> QED BY <2>1, <3>5, IdleStep
  <2> QED BY <2>2, <2>3, <2>4
<1>16. CASE UNCHANGED vars
  BY <1>16, ClusterStep DEF vars, cluster
<1> QED
  <2>1. CASE Environment
    BY <1>1, <1>2, <1>3, <1>4, <1>5, <1>6, <1>7, <2>1 DEF Environment, User
  <2>2. CASE Worker
    BY <1>9, <1>10, <1>11, <1>12, <1>13, <1>14, <1>15, <2>2 DEF Worker
  <2> QED BY <1>8, <1>16, <2>1, <2>2 DEF Next

\* Both invariants hold in every behaviour.
LEMMA Invariance == Spec => [](TypeOK /\ IInv)
BY InitType, NextType, InitInv, NextInv, PTL DEF Spec

\* Nothing cluster-scoped exists without a resource that still carries the
\* finalizer, whatever is lost, late, repeated or interrupted.
THEOREM NothingOrphaned == Spec => []NoOrphan
<1>1. IInv => NoOrphan
  BY DEF IInv
<1> QED BY <1>1, Invariance, PTL

\* The worker never works on operands for a resource that may have disappeared.
THEOREM PassIsCovered == Spec => []PastFinalizerCheck
<1>1. IInv => PastFinalizerCheck
  BY DEF IInv
<1> QED BY <1>1, Invariance, PTL

\* The finalizer leaves a resource only once every cluster-scoped operand is gone.
THEOREM FinalizerGoesLast == Spec => FinalizerLast
<1>1. TypeOK /\ IInv /\ [Next]_vars =>
        [\A c \in CRs : Holds(c) /\ ~Holds(c)' => present \cap ClusterScoped = {}]_vars
  BY NextInv DEF Kept
<1> QED BY <1>1, Invariance, PTL DEF Spec, FinalizerLast

\* Only an operand call sets an owner, and the pass it belongs to is covered.
LEMMA OwnerStep ==
  ASSUME TypeOK, IInv, Next, NEW o \in Objects, owner'[o] # owner[o], owner'[o] # None
  PROVE  Server(owner'[o].cr).exists /\ Server(owner'[o].cr).uid = owner'[o].uid
<1>0. owner \in [Objects -> OwnerRef \cup {None}]
  BY DEF TypeOK, ClusterType
<1>1. ASSUME NEW x \in Objects, Remove(x) PROVE FALSE
  BY <1>0, <1>1 DEF Remove
<1>2. CASE Environment \/ \E c \in CRs : Start(c)
  BY <1>1, <1>2 DEF Environment, User, CreateCR, EditSpec, DeleteCR, Deliver, ForegroundDone,
     StsReady, ReadySync, Collect, DeleteOperand, PodFails, Restart, Start, cluster
<1>3. CASE Worker /\ ~Operand
  BY <1>3 DEF Worker, CleanupStep, RemoveFinalizer, AddFinalizer, ReconcileNamespace,
     OperandsDone, Count, PatchStatus, cluster
<1>4. CASE Operand
  <2>1. pc = "operands" /\ Effect(Plan[step])
    BY <1>4 DEF Operand
  <2>2. Plan[step].obj \in Objects
    <3>1. Plan \in Seq([op : Ops, obj : Objects]) /\ step \in Nat \ {0} /\ step <= Len(Plan)
      BY <1>4, PlanAssumption DEF TypeOK, WorkerType, Operand
    <3>2. step \in DOMAIN Plan
      BY <3>1
    <3> QED BY <3>2, PlanType
  <2>3. owner' = [owner EXCEPT ![Plan[step].obj] = NewOwner(Plan[step])]
    BY <1>1, <2>1, <2>2 DEF Effect
  <2>4. owner'[o] = NewOwner(Plan[step])
    BY <1>0, <2>2, <2>3
  <2>5. owner'[o] = [cr |-> cur, uid |-> inst.uid]
    BY <2>4 DEF NewOwner
  <2>6. Holds(cur) /\ Server(cur).uid = inst.uid
    BY <2>1 DEF IInv, PastFinalizerCheck
  <2> QED BY <2>5, <2>6 DEF Holds
<1> QED BY <1>2, <1>3, <1>4 DEF Next

\* No operand is handed to an owner that is already gone.
THEOREM OwnersAreAlive == Spec => NoDeadOwner
<1>1. TypeOK /\ IInv /\ [Next]_vars =>
        [\A o \in Objects : owner'[o] # owner[o] /\ owner'[o] # None =>
           LET v == Server(owner'[o].cr) IN v.exists /\ v.uid = owner'[o].uid]_vars
  BY OwnerStep
<1> QED BY <1>1, Invariance, PTL DEF Spec, NoDeadOwner

-----------------------------------------------------------------------------
(* What one step does to a resource, to the worker and to an object.       *)

\* The counter of a resource's lives and its existence: a write keeps both,
\* but for a creation.
LEMMA HistoryStep ==
  ASSUME TypeOK, [Next]_vars, NEW c \in CRs
  PROVE  \/ hist'[c] = hist[c]
         \/ Deliver(c)
         \/ CreateCR(c)
         \/ \E v \in Version :
              /\ Write(c, v)
              /\ v.uid = Server(c).uid /\ v.exists = Server(c).exists
<1> DEFINE Rewrite(d, v) ==
      /\ v \in Version
      /\ Write(d, v)
      /\ v.uid = Server(d).uid /\ v.exists = Server(d).exists
    Goal == hist'[c] = hist[c] \/ Deliver(c) \/ CreateCR(c) \/ \E v \in Version : Rewrite(c, v)
<1>a. \A d \in CRs : Server(d) \in Version
  BY EndsType
<1>b. inst \in Version /\ verdict \in Phases \cup {""}
  BY DEF TypeOK, WorkerType
<1>c. UNCHANGED hist => Goal
  OBVIOUS
<1>d. ASSUME NEW d \in CRs, NEW v \in Version, Rewrite(d, v) PROVE Goal
  <2>1. CASE d = c
    BY <1>d, <2>1
  <2>2. CASE d # c
    BY <1>d, <2>2, WriteHist
  <2> QED BY <2>1, <2>2
<1>1. ASSUME NEW d \in CRs, CreateCR(d) PROVE Goal
  <2>1. CASE d = c
    BY <1>1, <2>1
  <2>2. CASE d # c
    <3>1. Server(d).uid + 1 \in Nat
      BY <1>a, VersionCounters
    <3>2. Created(Server(d).uid + 1) \in Version
      BY <1>a, <3>1, UserVersions
    <3> QED BY <1>1, <2>2, <3>2, WriteHist DEF CreateCR
  <2> QED BY <2>1, <2>2
<1>2. ASSUME NEW d \in CRs, EditSpec(d) PROVE Goal
  <2> DEFINE v == [Server(d) EXCEPT !.gen = Server(d).gen + 1]
  <2>1. Server(d).gen + 1 \in Nat
    BY <1>a, VersionCounters
  <2>2. v \in Version /\ v.uid = Server(d).uid /\ v.exists = Server(d).exists
    BY <1>a, <2>1 DEF Version
  <2>3. Write(d, v)
    BY <1>2 DEF EditSpec
  <2>4. Rewrite(d, v)
    BY <2>2, <2>3
  <2> QED BY <1>d, <2>2, <2>4
<1>3. ASSUME NEW d \in CRs, NEW f \in BOOLEAN, DeleteCR(d, f) PROVE Goal
  <2> DEFINE v == [Server(d) EXCEPT !.deleting = TRUE, !.fg = f, !.gen = Server(d).gen + 1]
  <2>1. Server(d).gen + 1 \in Nat
    BY <1>a, VersionCounters
  <2>2. v \in Version /\ v.uid = Server(d).uid /\ v.exists = Server(d).exists
    BY <1>a, <2>1 DEF Version
  <2>3. Write(d, v)
    BY <1>3 DEF DeleteCR
  <2>4. Rewrite(d, v)
    BY <2>2, <2>3
  <2> QED BY <1>d, <2>2, <2>4
<1>4. ASSUME NEW d \in CRs, ForegroundDone(d) PROVE Goal
  <2> DEFINE v == [Server(d) EXCEPT !.fg = FALSE]
  <2>1. v \in Version /\ v.uid = Server(d).uid /\ v.exists = Server(d).exists
    BY <1>a DEF Version
  <2>2. Write(d, v)
    BY <1>4 DEF ForegroundDone
  <2>3. Rewrite(d, v)
    BY <2>1, <2>2
  <2> QED BY <1>d, <2>1, <2>3
<1>5. ASSUME NEW d \in CRs, Deliver(d) PROVE Goal
  BY <1>5, DeliverHist
<1>6. CASE RemoveFinalizer \/ AddFinalizer
  <2>1. cur \in CRs
    BY <1>6 DEF RemoveFinalizer, AddFinalizer, TypeOK, WorkerType
  <2>2. ASSUME NEW b \in BOOLEAN, inst = Server(cur), Write(cur, [inst EXCEPT !.fin = b])
        PROVE  Goal
    <3> DEFINE v == [inst EXCEPT !.fin = b]
    <3>1. v \in Version /\ v.uid = inst.uid /\ v.exists = inst.exists
      BY <1>b DEF Version
    <3>2. Rewrite(cur, v)
      BY <2>2, <3>1
    <3> QED BY <1>d, <2>1, <3>1, <3>2
  <2>3. \/ UNCHANGED hist
        \/ inst = Server(cur) /\ \E b \in BOOLEAN : Write(cur, [inst EXCEPT !.fin = b])
    BY <1>6 DEF RemoveFinalizer, AddFinalizer, UpdateInstance
  <2> QED BY <1>c, <2>2, <2>3
<1>7. CASE PatchStatus
  <2> DEFINE v == [Cached(cur) EXCEPT !.phase = verdict, !.observed = Cached(cur).gen]
  <2>1. cur \in CRs /\ pc = "status"
    BY <1>7 DEF PatchStatus, TypeOK, WorkerType
  <2>2. UNCHANGED hist \/ (Len(hist[cur]) = 1 /\ Write(cur, v))
    BY <1>7 DEF PatchStatus
  <2>3. CASE Len(hist[cur]) = 1 /\ Write(cur, v)
    <3>1. Cached(cur) = Server(cur)
      BY <2>3 DEF Cached, Server
    <3>2. Cached(cur) \in Version
      BY <1>a, <2>1, <3>1
    <3>3. v \in Version /\ v.uid = Cached(cur).uid /\ v.exists = Cached(cur).exists
      BY <1>b, <3>2 DEF Version
    <3>4. Rewrite(cur, v)
      BY <2>1, <2>3, <3>1, <3>3
    <3> QED BY <1>d, <2>1, <3>3, <3>4
  <2> QED BY <1>c, <2>2, <2>3
<1>8. CASE \/ \E o \in Objects : StsReady(o) \/ ReadySync(o) \/ Collect(o)
                                 \/ DeleteOperand(o) \/ PodFails(o)
           \/ Restart \/ CleanupStep \/ ReconcileNamespace \/ Operand \/ OperandsDone \/ Count
           \/ (\E d \in CRs : Start(d)) \/ UNCHANGED vars
  <2>1. UNCHANGED hist
    BY <1>8 DEF StsReady, ReadySync, Collect, DeleteOperand, PodFails, Restart, CleanupStep,
       ReconcileNamespace, Operand, OperandsDone, Count, Start, vars
  <2> QED BY <1>c, <2>1
<1>9. Goal
  BY <1>1, <1>2, <1>3, <1>4, <1>5, <1>6, <1>7, <1>8 DEF Next, Environment, User, Worker
<1> QED BY <1>9

\* What that means for the stored version.
LEMMA ServerStep ==
  ASSUME TypeOK, [Next]_vars, NEW c \in CRs
  PROVE  /\ \/ Server(c)'.uid = Server(c).uid /\ (Server(c)'.exists => Server(c).exists)
            \/ Server(c)'.uid = Server(c).uid + 1 /\ ~Server(c).exists
<1>a. Server(c) \in Version
  BY EndsType
<1>1. CASE hist'[c] = hist[c]
  BY <1>1 DEF Server
<1>2. CASE Deliver(c)
  BY <1>2, DeliverHist
<1>3. CASE CreateCR(c)
  <2>1. Server(c).uid + 1 \in Nat
    BY <1>a, VersionCounters
  <2>2. Created(Server(c).uid + 1) \in Version
    BY <1>a, <2>1, UserVersions
  <2>3. Server(c)' = Stored(Created(Server(c).uid + 1))
    BY <1>3, <2>2, WriteHist DEF CreateCR
  <2>4. Stored(Created(Server(c).uid + 1)).uid = Server(c).uid + 1
    BY DEF Stored, Created
  <2>5. Server(c)'.uid = Server(c).uid + 1
    BY <2>3, <2>4
  <2> QED BY <1>3, <2>5 DEF CreateCR
<1>4. ASSUME NEW v \in Version, Write(c, v),
             v.uid = Server(c).uid, v.exists = Server(c).exists
      PROVE  /\ Server(c)'.uid = Server(c).uid
             /\ Server(c)'.exists => Server(c).exists
  <2>1. Server(c)' = Stored(v)
    BY <1>4, WriteHist
  <2>2. /\ Stored(v).uid = v.uid
        /\ Stored(v).exists => v.exists
    BY DEF Stored, Gone
  <2>3. /\ Server(c)'.uid = v.uid
        /\ Server(c)'.exists => v.exists
    BY <2>1, <2>2
  <2> QED BY <1>4, <2>3
<1> QED BY <1>1, <1>2, <1>3, <1>4, HistoryStep

\* A resource that is being deleted is not brought back.
LEMMA DeletingStays ==
  ASSUME TypeOK, IInv, [Next]_vars, NEW c \in CRs,
         Server(c).deleting, Server(c)'.exists, Server(c)'.uid = Server(c).uid
  PROVE  Server(c)'.deleting
<1>0. HistoryInv'
  BY NextInv DEF IInv
<1>1. CASE hist'[c] = hist[c]
  BY <1>1 DEF Server
<1>2. CASE Deliver(c)
  BY <1>2, DeliverHist
<1>3. ASSUME NEW v \in Version, Write(c, v) PROVE Server(c)'.deleting
  <2>1. /\ Len(hist'[c]) = Len(hist[c]) + 1
        /\ hist'[c][Len(hist[c])] = Server(c)
        /\ hist'[c][Len(hist'[c])] = Server(c)'
    <3>1. Len(hist[c]) \in Nat \ {0}
      BY EndsType
    <3>2. Len(hist[c]) \in 1 .. Len(hist[c])
      BY <3>1
    <3> QED BY <1>3, <3>2, WriteHist DEF Server
  <2>2. /\ Len(hist[c]) \in 1 .. Len(hist'[c])
        /\ Len(hist'[c]) \in Len(hist[c]) .. Len(hist'[c])
    BY <2>1, EndsType
  <2> QED BY <1>0, <2>1, <2>2 DEF HistoryInv
<1>4. CASE CreateCR(c)
  <2>1. Server(c).uid + 1 \in Nat /\ Server(c) \in Version
    BY EndsType, VersionCounters
  <2>2. Created(Server(c).uid + 1) \in Version
    BY <2>1, UserVersions
  <2> QED BY <1>3, <1>4, <2>2 DEF CreateCR
<1> QED BY <1>1, <1>2, <1>3, <1>4, HistoryStep

\* The worker lets go of its request, keeps working on it or takes one.
LEMMA WorkerStep ==
  ASSUME TypeOK, [Next]_vars
  PROVE  \/ pc' = "idle"
         \/ pc # "idle" /\ UNCHANGED <<cur, inst>>
         \/ /\ pc = "idle" /\ UNCHANGED <<hist, cluster, step, recErr>>
            /\ cur' \in CRs /\ inst' = Cached(cur')
            /\ pc' \in {"cleanup", "addFinalizer", "namespace"}
<1>1. CASE UNCHANGED vars
  BY <1>1 DEF vars, worker
<1>2. CASE Environment
  BY <1>2 DEF Environment, User, CreateCR, EditSpec, DeleteCR, Deliver, ForegroundDone,
     StsReady, ReadySync, Collect, DeleteOperand, PodFails, Restart, Idle, worker
<1>3. CASE Worker
  BY <1>3 DEF Worker, CleanupStep, RemoveFinalizer, AddFinalizer, UpdateInstance, Requeue,
     Done, Idle, ReconcileNamespace, Operand, OperandsDone, Count, PatchStatus
<1>4. ASSUME NEW c \in CRs, Start(c)
      PROVE  \/ pc' = "idle"
             \/ /\ pc = "idle" /\ UNCHANGED <<hist, cluster, step, recErr>>
                /\ cur' \in CRs /\ inst' = Cached(cur')
                /\ pc' \in {"cleanup", "addFinalizer", "namespace"}
  <2>1. pc = "idle" /\ UNCHANGED <<hist, cluster>>
    BY <1>4 DEF Start
  <2>2. CASE UNCHANGED worker
    BY <2>1, <2>2 DEF worker
  <2>3. CASE /\ cur' = c /\ inst' = Cached(c) /\ UNCHANGED <<step, recErr>>
             /\ pc' \in {"cleanup", "addFinalizer", "namespace"}
    BY <2>1, <2>3 DEF Cached
  <2> QED BY <1>4, <2>2, <2>3 DEF Start
<1> QED BY <1>1, <1>2, <1>3, <1>4 DEF Next

\* The next call of the pass is one on o.
Calling(o) == pc = "operands" /\ step \in DOMAIN Plan /\ Plan[step].obj = o

\* The ways an object comes, goes or changes hands.
LEMMA ObjectStep ==
  ASSUME TypeOK, [Next]_vars, NEW o \in Objects
  PROVE  \/ (o \in present' <=> o \in present) /\ owner'[o] = owner[o]
         \/ o \notin present' /\ owner'[o] = None
            /\ \/ o \in present /\ Orphaned(o)
               \/ o \in Deletable
               \/ Calling(o) /\ Plan[step].op = "deleteIgnoreMissing"
         \/ o \notin present' /\ owner'[o] = owner[o] /\ pc = "cleanup"
         \/ o \in present' /\ owner'[o] = owner[o] /\ pc = "namespace" /\ o = NamespaceObj
         \/ /\ o \in present' /\ owner'[o] = NewOwner(Plan[step])
            /\ Calling(o) /\ Plan[step].op # "deleteIgnoreMissing"
            /\ ~(Plan[step].op = "applyIfMissing" /\ o \in present)
<1> DEFINE Same == (o \in present' <=> o \in present) /\ owner'[o] = owner[o]
           Removed == o \notin present' /\ owner'[o] = None
<1>0. owner \in [Objects -> OwnerRef \cup {None}]
  BY DEF TypeOK, ClusterType
<1>1. ASSUME NEW x \in Objects, Remove(x) PROVE Same \/ (Removed /\ x = o)
  BY <1>0, <1>1 DEF Remove
<1>2. ASSUME NEW x \in Objects, Collect(x) PROVE Same \/ (Removed /\ o \in present /\ Orphaned(o))
  BY <1>1, <1>2 DEF Collect
<1>3. ASSUME NEW x \in Objects, DeleteOperand(x) PROVE Same \/ (Removed /\ o \in Deletable)
  BY <1>1, <1>3 DEF DeleteOperand
<1>4. CASE CleanupStep
  BY <1>4 DEF CleanupStep
<1>5. CASE ReconcileNamespace
  BY <1>5 DEF ReconcileNamespace
<1>6. CASE Operand
  <2>1. pc = "operands" /\ (Effect(Plan[step]) \/ UNCHANGED <<present, owner>>)
    BY <1>6 DEF Operand
  <2>2. step \in DOMAIN Plan /\ Plan[step].obj \in Objects
    <3>1. Plan \in Seq([op : Ops, obj : Objects]) /\ step \in Nat \ {0} /\ step <= Len(Plan)
      BY <1>6, PlanAssumption DEF TypeOK, WorkerType, Operand
    <3>2. step \in DOMAIN Plan
      BY <3>1
    <3> QED BY <3>2, PlanType
  <2>3. CASE Effect(Plan[step])
    <3>1. CASE Plan[step].op = "deleteIgnoreMissing"
      <4>1. Remove(Plan[step].obj)
        BY <2>3, <3>1 DEF Effect
      <4> QED BY <1>1, <2>1, <2>2, <3>1, <4>1 DEF Calling
    <3>2. CASE Plan[step].op = "applyIfMissing" /\ Plan[step].obj \in present
      BY <2>3, <3>2 DEF Effect
    <3>3. CASE /\ Plan[step].op # "deleteIgnoreMissing"
               /\ ~(Plan[step].op = "applyIfMissing" /\ Plan[step].obj \in present)
      <4>1. /\ present' = present \cup {Plan[step].obj}
            /\ owner' = [owner EXCEPT ![Plan[step].obj] = NewOwner(Plan[step])]
        BY <2>3, <3>3 DEF Effect
      <4> QED BY <1>0, <2>1, <2>2, <3>3, <4>1 DEF Calling
    <3> QED BY <3>1, <3>2, <3>3
  <2> QED BY <2>1, <2>3
<1>7. CASE \/ User \/ (\E c \in CRs : Deliver(c) \/ ForegroundDone(c) \/ Start(c))
           \/ (\E x \in Objects : StsReady(x) \/ ReadySync(x) \/ PodFails(x))
           \/ Restart \/ RemoveFinalizer \/ AddFinalizer \/ OperandsDone \/ Count \/ PatchStatus
           \/ UNCHANGED vars
  BY <1>7 DEF User, CreateCR, EditSpec, DeleteCR, Deliver, ForegroundDone, Start, StsReady,
     ReadySync, PodFails, Restart, RemoveFinalizer, AddFinalizer, OperandsDone, Count,
     PatchStatus, vars, cluster
<1> QED BY <1>2, <1>3, <1>4, <1>5, <1>6, <1>7 DEF Next, Environment, Worker

\* Where the worker can have come from.
LEMMA PassStep ==
  ASSUME TypeOK, [Next]_vars
  PROVE  /\ pc' \in {"addFinalizer", "namespace"} => pc \in {pc', "idle"} /\ step' = step
         /\ pc' = "operands" =>
              \/ pc = "namespace" /\ step' = step
              \/ pc = "operands" /\ step' = step
              \/ pc = "operands" /\ step \in DOMAIN Plan /\ Effect(Plan[step]) /\ step' = step + 1
         /\ pc' = "count" =>
              \/ pc = "count" /\ recErr' = recErr /\ step' = step
              \/ pc = "operands" /\ recErr'
              \/ pc = "operands" /\ step > Len(Plan) /\ UNCHANGED <<present, owner, step>>
         /\ pc' = "status" =>
              \/ pc = "status" /\ verdict' = verdict /\ step' = step
              \/ pc = "namespace" /\ verdict' = "Error"
              \/ pc = "count" /\ (verdict' = "Ready" => ~recErr) /\ UNCHANGED <<present, owner, step>>
<1>1. CASE UNCHANGED worker
  BY <1>1 DEF worker
<1>2. CASE Idle
  BY <1>2 DEF Idle
<1>3. CASE Environment \/ UNCHANGED vars
  <2>1. Idle \/ UNCHANGED worker
    BY <1>3 DEF Environment, User, CreateCR, EditSpec, DeleteCR, Deliver, ForegroundDone,
     StsReady, ReadySync, Collect, DeleteOperand, PodFails, Restart, vars
  <2> QED BY <1>1, <1>2, <2>1
<1>4. ASSUME NEW c \in CRs, Start(c), ~UNCHANGED worker
      PROVE  pc = "idle" /\ pc' \in {"cleanup", "addFinalizer", "namespace"} /\ step' = step
  BY <1>4 DEF Start
<1>5. CASE \E c \in CRs : Start(c)
  BY <1>1, <1>4, <1>5
<1>6. CASE CleanupStep \/ RemoveFinalizer \/ AddFinalizer \/ PatchStatus
  <2>1. Idle \/ pc' = "cleanup"
    BY <1>6 DEF CleanupStep, RemoveFinalizer, AddFinalizer, PatchStatus, UpdateInstance,
       Requeue, Done
  <2> QED BY <1>2, <2>1
<1>7. CASE ReconcileNamespace
  BY <1>7 DEF ReconcileNamespace
<1>8. CASE Operand
  <2>1. step \in DOMAIN Plan
    <3>1. Plan \in Seq([op : Ops, obj : Objects]) /\ step \in Nat \ {0} /\ step <= Len(Plan)
      BY <1>8, PlanAssumption DEF TypeOK, WorkerType, Operand
    <3> QED BY <3>1
  <2> QED BY <1>8, <2>1 DEF Operand
<1>9. CASE OperandsDone
  BY <1>9 DEF OperandsDone, cluster
<1>10. CASE Count
  <2>1. PICK readyErr \in BOOLEAN :
          verdict' = Phase(Cardinality(readySeen), Cardinality(StatefulSets), recErr \/ readyErr)
    BY <1>10 DEF Count
  <2>2. verdict' = "Ready" => ~recErr
    BY <2>1 DEF Phase
  <2> QED BY <1>10, <2>2 DEF Count, cluster
<1> QED BY <1>3, <1>5, <1>6, <1>7, <1>8, <1>9, <1>10 DEF Next, Worker

-----------------------------------------------------------------------------
(* Progress.  A call that a pass has behind it is still true of its object,  *)
(* unless somebody else deletes it: its owner is the resource of the pass.   *)

\* Call i of the plan is true of its object.
Written(i) ==
  LET o == Plan[i].obj
  IN  CASE Plan[i].op = "deleteIgnoreMissing" -> o \notin present
        [] Plan[i].op = "applyIfMissing"      -> TRUE
        [] OTHER -> o \in Deletable \/ (o \in present /\ owner[o] = NewOwner(Plan[i]))

\* The calls of which the worker knows that they took effect.
Behind(i) ==
  \/ pc = "operands" /\ i < step
  \/ pc = "count" /\ ~recErr
  \/ pc = "status" /\ verdict = "Ready"

\* Where the worker is once it has begun to write operands.
Writing == {"operands", "count", "status"}

\* A pass starts at the first call, and for a resource that is not being deleted
\* everything it has behind it is written.  Without an error it made all calls.
ProgressInv ==
  /\ pc \in {"addFinalizer", "namespace"} => step = 1
  /\ (pc = "count" /\ ~recErr) \/ (pc = "status" /\ verdict = "Ready") => step > Len(Plan)
  /\ pc \in Writing /\ ~Server(cur).deleting =>
       \A i \in DOMAIN Plan : Behind(i) => Written(i)

\* The calls by their number.
LEMMA CallType ==
  ASSUME NEW i \in DOMAIN Plan
  PROVE  /\ i \in Nat \ {0} /\ i <= Len(Plan)
         /\ Plan[i].obj \in Objects
         /\ Plan[i].op \in Ops
<1>1. Plan \in Seq([op : Ops, obj : Objects])
  BY PlanAssumption
<1>2. i \in Nat \ {0} /\ i <= Len(Plan)
  BY <1>1
<1> QED BY <1>2, PlanType

\* While a pass goes on it is for one copy of a resource that exists, and when
\* that is not being deleted after a step it was not before.
LEMMA PassGoesOn ==
  ASSUME TypeOK, IInv, [Next]_vars,
         pc \in {"namespace"} \cup Writing, pc' \in {"namespace"} \cup Writing
  PROVE  /\ cur \in CRs /\ UNCHANGED <<cur, inst>>
         /\ Server(cur).exists /\ Server(cur).uid = inst.uid
         /\ Server(cur).deleting => Server(cur)'.deleting
<1>1. cur \in CRs /\ UNCHANGED <<cur, inst>>
  BY WorkerStep DEF TypeOK, WorkerType, Writing
<1>2. Server(cur).exists /\ Server(cur).uid = inst.uid
  BY DEF IInv, PastFinalizerCheck, Holds, Writing
<1>3. PastFinalizerCheck'
  BY NextInv DEF IInv
<1>4. Server(cur)'.exists /\ Server(cur)'.uid = inst.uid
  BY <1>1, <1>3 DEF PastFinalizerCheck, Holds, Writing
<1> QED BY <1>1, <1>2, <1>4, DeletingStays

\* What a call wrote stays written while the pass goes on.
LEMMA WrittenStays ==
  ASSUME TypeOK, IInv, [Next]_vars,
         NEW i \in DOMAIN Plan, Written(i),
         pc \in Writing, pc' \in Writing, ~Server(cur).deleting
  PROVE  Written(i)'
<1> DEFINE o == Plan[i].obj
           mine == {None, [cr |-> cur, uid |-> inst.uid]}
<1>1. o \in Objects /\ Plan[i].op \in Ops
  BY CallType
<1>2. /\ cur \in CRs /\ UNCHANGED <<cur, inst>>
      /\ Server(cur).exists /\ Server(cur).uid = inst.uid
  BY PassGoesOn
<1>3. pc # "cleanup" /\ pc # "namespace"
  BY DEF Writing
<1>4. /\ NewOwner(Plan[i]) \in mine /\ NewOwner(Plan[i])' = NewOwner(Plan[i])
      /\ Calling(o) => /\ NewOwner(Plan[step]) = NewOwner(Plan[i])
                       /\ Plan[step].op = Plan[i].op
  BY <1>2, CallAssumption DEF Calling, NewOwner
<1>5. CASE Plan[i].op = "deleteIgnoreMissing"
  <2>1. o \notin present
    BY <1>5 DEF Written
  <2>2. o \notin present'
    BY <1>1, <1>3, <1>4, <1>5, <2>1, ObjectStep
  <2> QED BY <1>5, <2>2 DEF Written
<1>6. CASE Plan[i].op = "applyIfMissing"
  BY <1>6 DEF Written
<1>7. CASE Plan[i].op \in {"apply", "applyUnowned"} /\ o \notin Deletable
  <2>1. o \in present /\ owner[o] = NewOwner(Plan[i])
    BY <1>7 DEF Written
  <2>2. ~Orphaned(o)
    <3>1. CASE owner[o] = None
      BY <3>1 DEF Orphaned
    <3>2. CASE owner[o] = [cr |-> cur, uid |-> inst.uid]
      BY <1>2, <3>2 DEF Orphaned
    <3> QED BY <1>4, <2>1, <3>1, <3>2
  <2>3. o \in present' /\ owner'[o] = NewOwner(Plan[i])
    BY <1>1, <1>3, <1>4, <1>7, <2>1, <2>2, ObjectStep
  <2> QED BY <1>4, <1>7, <2>3 DEF Written
<1>8. CASE Plan[i].op \in {"apply", "applyUnowned"} /\ o \in Deletable
  BY <1>8 DEF Written
<1> QED BY <1>1, <1>5, <1>6, <1>7, <1>8 DEF Ops

\* A call that takes effect has written its object.
LEMMA EffectWrites ==
  ASSUME TypeOK, NEW i \in DOMAIN Plan, Effect(Plan[i]), UNCHANGED <<cur, inst>>
  PROVE  Written(i)'
<1>0. Plan[i].obj \in Objects /\ Plan[i].op \in Ops
  BY CallType
<1>1. owner \in [Objects -> OwnerRef \cup {None}]
  BY DEF TypeOK, ClusterType
<1>2. CASE Plan[i].op = "deleteIgnoreMissing"
  BY <1>2 DEF Effect, Remove, Written
<1>3. CASE Plan[i].op = "applyIfMissing"
  BY <1>3 DEF Written
<1>4. CASE Plan[i].op \in {"apply", "applyUnowned"}
  <2>1. /\ present' = present \cup {Plan[i].obj}
        /\ owner' = [owner EXCEPT ![Plan[i].obj] = NewOwner(Plan[i])]
    BY <1>4 DEF Effect
  <2>2. Plan[i].obj \in present' /\ owner'[Plan[i].obj] = NewOwner(Plan[i])
    BY <1>0, <1>1, <2>1
  <2>3. NewOwner(Plan[i])' = NewOwner(Plan[i])
    BY DEF NewOwner
  <2> QED BY <1>4, <2>2, <2>3 DEF Written
<1> QED BY <1>0, <1>2, <1>3, <1>4 DEF Ops

\* Every step keeps the progress.
LEMMA ProgressStep ==
  ASSUME TypeOK, IInv, ProgressInv, [Next]_vars
  PROVE  ProgressInv'
<1>1. pc' \in {"addFinalizer", "namespace"} => step' = 1
  BY PassStep DEF ProgressInv, IInv, CleanupInv
<1>2. ASSUME pc' \in Writing, ~Server(cur)'.deleting, NEW i \in DOMAIN Plan, Behind(i)'
      PROVE  Written(i)'
  <2>0. i \in Nat \ {0} /\ i <= Len(Plan) /\ step \in Nat
    BY CallType DEF TypeOK, WorkerType
  <2>1. pc \in {"namespace"} \cup Writing
    BY <1>2, PassStep DEF Writing
  <2>2. UNCHANGED <<cur, inst>> /\ ~Server(cur).deleting
    BY <1>2, <2>1, PassGoesOn
  <2>3. CASE pc \in Writing /\ Behind(i)
    <3>1. Written(i)
      BY <2>2, <2>3 DEF ProgressInv
    <3> QED BY <1>2, <2>2, <2>3, <3>1, WrittenStays
  <2>4. CASE i = step /\ Effect(Plan[step])
    BY <2>2, <2>4, EffectWrites
  <2>5. (pc \in Writing /\ Behind(i)) \/ (i = step /\ Effect(Plan[step]))
    <3>1. CASE pc' = "operands"
      <4>1. i < step'
        BY <1>2, <3>1 DEF Behind
      <4>2. CASE pc = "namespace" /\ step' = step
        BY <2>0, <4>1, <4>2 DEF ProgressInv
      <4>3. CASE pc = "operands" /\ step' = step
        BY <4>1, <4>3 DEF Behind, Writing
      <4>4. CASE pc = "operands" /\ Effect(Plan[step]) /\ step' = step + 1
        <5>1. i < step \/ i = step
          BY <2>0, <4>1, <4>4
        <5> QED BY <4>4, <5>1 DEF Behind, Writing
      <4> QED BY <3>1, <4>2, <4>3, <4>4, PassStep
    <3>2. CASE pc' = "count"
      <4>1. ~recErr'
        BY <1>2, <3>2 DEF Behind
      <4>2. CASE pc = "count" /\ recErr' = recErr
        BY <4>1, <4>2 DEF Behind, Writing
      <4>3. CASE pc = "operands" /\ step > Len(Plan)
        <5>1. Len(Plan) \in Nat
          BY PlanAssumption
        <5>2. i < step
          BY <2>0, <4>3, <5>1
        <5> QED BY <4>3, <5>2 DEF Behind, Writing
      <4> QED BY <3>2, <4>1, <4>2, <4>3, PassStep
    <3>3. CASE pc' = "status"
      <4>1. verdict' = "Ready"
        BY <1>2, <3>3 DEF Behind
      <4>2. \/ pc = "status" /\ verdict' = verdict
            \/ pc = "count" /\ ~recErr
        BY <3>3, <4>1, PassStep
      <4> QED BY <4>1, <4>2 DEF Behind, Writing
    <3> QED BY <1>2, <3>1, <3>2, <3>3 DEF Writing
  <2> QED BY <2>3, <2>4, <2>5
<1>3. ASSUME (pc' = "count" /\ ~recErr') \/ (pc' = "status" /\ verdict' = "Ready")
      PROVE  step' > Len(Plan)
  <2>1. \/ (pc = "count" /\ ~recErr) \/ (pc = "status" /\ verdict = "Ready")
        \/ pc = "operands" /\ step > Len(Plan)
    BY <1>3, PassStep
  <2>2. step > Len(Plan)
    BY <2>1 DEF ProgressInv
  <2>3. step' = step
    BY <1>3, <2>2, PassStep
  <2> QED BY <2>2, <2>3
<1> QED BY <1>1, <1>2, <1>3 DEF ProgressInv

\* A pass that publishes Ready has made all its calls, and all that it corrects
\* is there, with the owner it gives, unless somebody else deletes it.
THEOREM ReadyIsTrue == Spec => []ReadyMeansWritten
<1>1. Init => ProgressInv
  BY DEF Init, IdleWorker, ProgressInv, Writing
<1>2. TypeOK /\ IInv /\ ProgressInv /\ [Next]_vars => ProgressInv'
  BY ProgressStep
<1>3. ProgressInv => ReadyMeansWritten
  BY DEF ProgressInv, ReadyMeansWritten, Behind, Writing, Written
<1> QED BY <1>1, <1>2, <1>3, Invariance, PTL DEF Spec
===============================================================================
