---------------------------- MODULE InventoryProofs ----------------------------
(***************************************************************************)
(* Theorems about the operands, for every plan that OrderAssumption and    *)
(* UnownedAssumption describe.  The argument rests on LivesInv: an owner   *)
(* reference never names a life of a resource that is later than the one   *)
(* the worker has seen.                                                    *)
(***************************************************************************)
EXTENDS ReconcilerProofs, MCInventory

-----------------------------------------------------------------------------
\* The life of a resource that owner references may name at most.
Newest(c) == IF pc # "idle" /\ cur = c THEN inst.uid ELSE Cached(c).uid

\* The lives of a name: uids start at one, never go back along a history, and a
\* pass works for the life the cache shows or for an earlier one; an owner
\* reference is no younger than the copy the pass in progress works from, or
\* than the cached version when there is none.
LivesInv ==
  /\ \A c \in CRs : \A i \in 1 .. Len(hist[c]) :
       /\ hist[c][i].exists => hist[c][i].uid >= 1
       /\ hist[c][i].uid <= MaxUid
       /\ \A j \in i .. Len(hist[c]) : hist[c][i].uid <= hist[c][j].uid
  /\ pc # "idle" => inst.uid <= Cached(cur).uid
  /\ \A o \in Objects : \A c \in CRs : owner[o] # None /\ owner[o].cr = c =>
       owner[o].uid >= 1 /\ owner[o].uid <= Newest(c)

\* A write that goes on with the stored life, or starts a later one, keeps the
\* order of a history.
LEMMA LivesWrite ==
  ASSUME TypeOK, LivesInv, NEW c \in CRs, NEW v \in Version, Write(c, v),
         Server(c).uid <= v.uid, v.uid <= MaxUid, v.exists => v.uid >= 1
  PROVE  \A i \in 1 .. Len(hist'[c]) :
           /\ hist'[c][i].exists => hist'[c][i].uid >= 1
           /\ hist'[c][i].uid <= MaxUid
           /\ \A j \in i .. Len(hist'[c]) : hist'[c][i].uid <= hist'[c][j].uid
<1> DEFINE n == Len(hist[c])
           w == Stored(v)
<1>1. /\ n \in Nat \ {0}
      /\ Len(hist'[c]) = n + 1 /\ hist'[c][n + 1] = w
      /\ \A i \in 1 .. n : hist'[c][i] = hist[c][i] /\ hist[c][i] \in Version
  BY WriteHist, EndsType
<1>2. w \in Version /\ w.uid = v.uid /\ (w.exists => v.exists)
  BY StoredType DEF Stored, Gone
<1>3. v.uid \in Nat /\ \A i \in 1 .. n : hist[c][i].uid \in Nat
  BY <1>1, VersionCounters
<1>4. \A i \in 1 .. n : hist[c][i].uid <= hist[c][n].uid
  BY <1>1 DEF LivesInv
<1>5. \A i \in 1 .. n : hist[c][i].uid <= w.uid
  <2> TAKE i \in 1 .. n
  <2>1. hist[c][n] = Server(c) /\ n \in 1 .. n
    BY <1>1 DEF Server
  <2>2. hist[c][i].uid <= hist[c][n].uid /\ hist[c][n].uid <= v.uid /\ hist[c][n].uid \in Nat
    BY <1>3, <1>4, <2>1
  <2> QED BY <1>2, <1>3, <2>2
<1> HIDE DEF n, w
<1> TAKE i \in 1 .. Len(hist'[c])
<1>6. CASE i \in 1 .. n
  <2>1. /\ hist'[c][i] = hist[c][i]
        /\ hist[c][i].exists => hist[c][i].uid >= 1
        /\ hist[c][i].uid <= MaxUid
    BY <1>1, <1>6 DEF LivesInv, n
  <2>2. ASSUME NEW j \in i .. Len(hist'[c]) PROVE hist'[c][i].uid <= hist'[c][j].uid
    <3>1. CASE j = n + 1
      BY <1>1, <1>5, <1>6, <2>1, <3>1
    <3>2. CASE j # n + 1
      <4>1. j \in i .. n /\ j \in 1 .. n
        BY <1>1, <1>6, <3>2
      <4> QED BY <1>1, <1>6, <2>1, <4>1 DEF LivesInv, n
    <3> QED BY <3>1, <3>2
  <2> QED BY <2>1, <2>2
<1>7. CASE i = n + 1
  <2>1. \A j \in i .. Len(hist'[c]) : j = i
    BY <1>1, <1>7
  <2> QED BY <1>1, <1>2, <1>3, <1>7, <2>1
<1> QED BY <1>1, <1>6, <1>7

\* The cached version only moves to later lives.
LEMMA LivesStep ==
  ASSUME TypeOK, IInv, LivesInv, [Next]_vars
  PROVE  /\ \A c \in CRs : Cached(c).uid <= Cached(c)'.uid
         /\ LivesInv'
<1>0. TypeOK' /\ (pc # "idle" => cur \in CRs) /\ owner \in [Objects -> OwnerRef \cup {None}]
  BY NextType DEF TypeOK, WorkerType, ClusterType
<1>a. \A c \in CRs : /\ Len(hist[c]) \in Nat \ {0}
                     /\ Cached(c) \in Version /\ Cached(c).uid \in Nat
                     /\ Server(c) \in Version /\ Server(c).uid \in Nat
  BY EndsType, VersionCounters
<1>b. \A c \in CRs : Cached(c)'.uid \in Nat
  <2>1. \A c \in CRs : Len(hist'[c]) \in Nat \ {0} /\ \A i \in 1 .. Len(hist'[c]) : hist'[c][i] \in Version
    BY <1>0 DEF TypeOK, HistType
  <2>2. \A c \in CRs : Cached(c)' \in Version
    BY <2>1 DEF Cached
  <2> QED BY <2>2 DEF Version
<1>c. inst.uid \in Nat /\ inst'.uid \in Nat
  BY <1>0 DEF TypeOK, WorkerType, Version
<1>1. ASSUME NEW c \in CRs
      PROVE  /\ Cached(c).uid <= Cached(c)'.uid
             /\ \A i \in 1 .. Len(hist'[c]) :
                  /\ hist'[c][i].exists => hist'[c][i].uid >= 1
                  /\ hist'[c][i].uid <= MaxUid
                  /\ \A j \in i .. Len(hist'[c]) : hist'[c][i].uid <= hist'[c][j].uid
  <2>1. CASE hist'[c] = hist[c]
    BY <1>a, <2>1 DEF LivesInv, Cached
  <2>2. CASE Deliver(c)
    <3>1. /\ Len(hist'[c]) = Len(hist[c]) - 1
          /\ \A i \in 1 .. Len(hist'[c]) : hist'[c][i] = hist[c][i + 1]
      BY <2>2, DeliverHist
    <3>2. Len(hist[c]) > 1
      BY <2>2 DEF Deliver
    <3>3. Cached(c).uid <= Cached(c)'.uid
      <4>1. 1 \in 1 .. Len(hist[c]) /\ 2 \in 1 .. Len(hist[c]) /\ 1 \in 1 .. Len(hist'[c])
        BY <1>a, <3>1, <3>2
      <4>2. hist[c][1].uid <= hist[c][2].uid
        BY <4>1 DEF LivesInv
      <4>3. hist'[c][1] = hist[c][2]
        BY <3>1, <4>1
      <4> QED BY <4>2, <4>3 DEF Cached
    <3>4. ASSUME NEW i \in 1 .. Len(hist'[c])
          PROVE  /\ hist'[c][i].exists => hist'[c][i].uid >= 1
                 /\ hist'[c][i].uid <= MaxUid
                 /\ \A j \in i .. Len(hist'[c]) : hist'[c][i].uid <= hist'[c][j].uid
      <4>1. i + 1 \in 1 .. Len(hist[c]) /\ hist'[c][i] = hist[c][i + 1]
        BY <1>a, <3>1
      <4>2. \A j \in i .. Len(hist'[c]) :
              j + 1 \in (i + 1) .. Len(hist[c]) /\ hist'[c][j] = hist[c][j + 1]
        BY <1>a, <3>1
      <4> QED BY <4>1, <4>2 DEF LivesInv
    <3> QED BY <3>3, <3>4
  <2>3. ASSUME NEW v \in Version, Write(c, v) PROVE Cached(c)' = Cached(c)
    <3>1. 1 \in 1 .. Len(hist[c])
      BY <1>a
    <3> QED BY <2>3, <3>1, WriteHist DEF Cached
  <2>4. Server(c).uid <= MaxUid /\ (Server(c).exists => Server(c).uid >= 1)
    <3>1. Len(hist[c]) \in 1 .. Len(hist[c])
      BY <1>a
    <3> QED BY <3>1 DEF LivesInv, Server
  <2>5. CASE CreateCR(c)
    <3> DEFINE v == Created(Server(c).uid + 1)
    <3>1. v \in Version /\ v.uid = Server(c).uid + 1 /\ Write(c, v) /\ Server(c).uid < MaxUid
      <4>1. Server(c).uid + 1 \in Nat
        BY <1>a
      <4>2. v \in Version
        BY <1>a, <4>1, UserVersions
      <4>3. v.uid = Server(c).uid + 1
        BY DEF Created
      <4> QED BY <2>5, <4>2, <4>3 DEF CreateCR
    <3> HIDE DEF v
    <3>2. Server(c).uid <= v.uid /\ v.uid <= MaxUid /\ v.uid >= 1
      BY <1>a, <3>1, BoundAssumption
    <3>3. Cached(c)' = Cached(c)
      BY <2>3, <3>1
    <3>4. Cached(c).uid <= Cached(c)'.uid
      BY <1>a, <3>3
    <3> QED BY <3>1, <3>2, <3>4, LivesWrite
  <2>6. ASSUME NEW v \in Version, Write(c, v), v.uid = Server(c).uid, v.exists = Server(c).exists
        PROVE  /\ Cached(c).uid <= Cached(c)'.uid
               /\ \A i \in 1 .. Len(hist'[c]) :
                    /\ hist'[c][i].exists => hist'[c][i].uid >= 1
                    /\ hist'[c][i].uid <= MaxUid
                    /\ \A j \in i .. Len(hist'[c]) : hist'[c][i].uid <= hist'[c][j].uid
    <3>1. Server(c).uid <= v.uid
      BY <1>a, <2>6
    <3>3. Cached(c)' = Cached(c)
      BY <2>3, <2>6
    <3>4. Cached(c).uid <= Cached(c)'.uid
      BY <1>a, <3>3
    <3> QED BY <2>4, <2>6, <3>1, <3>4, LivesWrite
  <2> QED BY <2>1, <2>2, <2>5, <2>6, HistoryStep
<1>2. pc' # "idle" => inst'.uid <= Cached(cur)'.uid
  <2>1. CASE pc # "idle" /\ UNCHANGED <<cur, inst>>
    <3>1. cur \in CRs /\ inst.uid <= hist[cur][1].uid
      BY <1>0, <2>1 DEF LivesInv, Cached
    <3>2. /\ hist[cur][1].uid <= hist'[cur][1].uid
          /\ hist[cur][1].uid \in Nat /\ hist'[cur][1].uid \in Nat
      BY <1>1, <1>a, <1>b, <3>1 DEF Cached
    <3>3. inst.uid <= hist'[cur][1].uid
      BY <1>c, <3>1, <3>2
    <3> QED BY <2>1, <3>3 DEF Cached
  <2>2. CASE cur' \in CRs /\ inst' = Cached(cur') /\ UNCHANGED hist
    <3>1. Cached(cur)' = Cached(cur')
      BY <2>2 DEF Cached
    <3>2. inst'.uid <= inst'.uid
      BY <1>c
    <3> QED BY <2>2, <3>1, <3>2
  <2> QED BY <2>1, <2>2, WorkerStep
<1>3. \A c \in CRs : Newest(c) \in Nat /\ Newest(c)' \in Nat /\ Newest(c) <= Newest(c)'
  <2> SUFFICES ASSUME NEW c \in CRs
               PROVE  Newest(c) \in Nat /\ Newest(c)' \in Nat /\ Newest(c) <= Newest(c)'
    OBVIOUS
  <2>0. Newest(c) \in Nat /\ Newest(c)' \in Nat
    BY <1>a, <1>b, <1>c DEF Newest
  <2>a. Cached(c).uid <= Cached(c)'.uid
    BY <1>1
  <2>b. Newest(c) <= Cached(c)'.uid
    <3>1. Newest(c) <= Cached(c).uid
      BY <1>a DEF Newest, LivesInv
    <3> QED BY <1>a, <1>b, <2>0, <2>a, <3>1
  <2>1. CASE pc' = "idle" \/ cur' # c
    BY <2>0, <2>1, <2>b DEF Newest
  <2>2. CASE pc # "idle" /\ UNCHANGED <<cur, inst>> /\ pc' # "idle"
    <3>1. Newest(c)' = IF cur = c THEN inst.uid ELSE Cached(c)'.uid
      BY <2>2 DEF Newest
    <3>2. Newest(c) = IF cur = c THEN inst.uid ELSE Cached(c).uid
      BY <2>2 DEF Newest
    <3>3. CASE cur = c
      <4>1. Newest(c) = inst.uid /\ Newest(c)' = inst.uid
        BY <3>1, <3>2, <3>3
      <4> QED BY <1>c, <4>1
    <3>4. CASE cur # c
      <4>1. Newest(c) = Cached(c).uid /\ Newest(c)' = Cached(c)'.uid
        BY <3>1, <3>2, <3>4
      <4> QED BY <1>a, <1>b, <2>0, <2>a, <4>1
    <3> QED BY <3>3, <3>4
  <2>3. CASE pc = "idle" /\ pc' # "idle" /\ cur' = c /\ inst' = Cached(cur')
    <3>1. Newest(c) = Cached(c).uid /\ Newest(c)' = Cached(c).uid
      BY <2>3 DEF Newest
    <3> QED BY <1>a, <3>1
  <2>4. Newest(c) <= Newest(c)'
    BY <2>1, <2>2, <2>3, WorkerStep
  <2> QED BY <2>0, <2>4
<1>4. ASSUME NEW o \in Objects, NEW c \in CRs, owner'[o] # None, owner'[o].cr = c
      PROVE  owner'[o].uid >= 1 /\ owner'[o].uid <= Newest(c)'
  <2>1. CASE owner'[o] = owner[o]
    <3>1. owner[o] \in OwnerRef
      BY <1>0, <1>4, <2>1
    <3>2. owner[o].uid \in Nat
      BY <3>1 DEF OwnerRef
    <3>3. owner[o].uid >= 1 /\ owner[o].uid <= Newest(c)
      BY <1>4, <2>1 DEF LivesInv
    <3>4. owner[o].uid <= Newest(c)'
      BY <1>3, <3>2, <3>3
    <3> QED BY <2>1, <3>3, <3>4
  <2>2. CASE pc = "operands" /\ owner'[o] = NewOwner(Plan[step])
    <3>1. owner'[o] = [cr |-> cur, uid |-> inst.uid] /\ cur = c
      BY <1>4, <2>2 DEF NewOwner
    <3>2. Server(c).exists /\ Server(c).uid = inst.uid
      BY <2>2, <3>1 DEF IInv, PastFinalizerCheck, Holds
    <3>3. inst.uid >= 1
      <4>1. Len(hist[c]) \in 1 .. Len(hist[c])
        BY <1>a
      <4> QED BY <3>2, <4>1 DEF LivesInv, Server
    <3>4. Newest(c) = inst.uid
      BY <2>2, <3>1 DEF Newest
    <3>5. inst.uid <= Newest(c)'
      BY <1>3, <3>4
    <3> QED BY <3>1, <3>3, <3>5
  <2> QED BY <1>4, <2>1, <2>2, ObjectStep DEF Calling
<1> QED BY <1>1, <1>2, <1>4 DEF LivesInv

\* A pass starts at its first call.
StepInv == pc \in {"addFinalizer", "namespace"} => step = 1

\* What a pass has written that only a cleanup deletes is there.
GuardInv ==
  /\ \A o \in ClusterScoped : owner[o] = None
  /\ pc = "operands" => \A i \in DOMAIN Plan :
       i < step /\ Plan[i].obj \in ClusterScoped \ Deletable => Plan[i].obj \in present

\* Every step keeps that.
LEMMA StepKept ==
  ASSUME TypeOK, IInv, StepInv, [Next]_vars
  PROVE  StepInv'
BY PassStep DEF StepInv, IInv, CleanupInv

\* Where a pass that goes on over the operands stands after a step.
LEMMA Advance ==
  ASSUME TypeOK, StepInv, [Next]_vars, pc' = "operands", NEW i \in DOMAIN Plan, i < step'
  PROVE  /\ pc = "operands"
         /\ i < step \/ (i = step /\ Effect(Plan[i]))
<1>0. i \in Nat \ {0} /\ step \in Nat
  BY CallType DEF TypeOK, WorkerType
<1>1. CASE pc = "namespace" /\ step' = step
  BY <1>0, <1>1 DEF StepInv
<1>2. CASE pc = "operands" /\ step' = step
  BY <1>2
<1>3. CASE pc = "operands" /\ Effect(Plan[step]) /\ step' = step + 1
  <2>1. i < step \/ i = step
    BY <1>0, <1>3
  <2> QED BY <1>3, <2>1
<1> QED BY <1>1, <1>2, <1>3, PassStep

\* A call other than a deletion leaves its object there.
LEMMA EffectPresent ==
  ASSUME NEW s, Effect(s), s.op # "deleteIgnoreMissing"
  PROVE  s.obj \in present'
BY DEF Effect

\* Outside a cleanup a cluster-scoped object stays unless somebody may delete it.
LEMMA GuardStays ==
  ASSUME TypeOK, IInv, GuardInv, [Next]_vars,
         NEW o \in ClusterScoped \ Deletable, o \in present, pc # "cleanup"
  PROVE  o \in present'
<1>1. o \in Objects /\ owner[o] = None
  BY ObjectAssumption DEF GuardInv
<1>2. ~Orphaned(o)
  BY <1>1 DEF Orphaned
<1>3. ~(Calling(o) /\ Plan[step].op = "deleteIgnoreMissing")
  BY PlanAssumption DEF Calling
<1> QED BY <1>1, <1>2, <1>3, ObjectStep

\* Every step keeps what is known of the cluster-scoped objects.
LEMMA GuardStep ==
  ASSUME TypeOK, IInv, StepInv, GuardInv, [Next]_vars
  PROVE  GuardInv'
<1>1. ASSUME NEW o \in ClusterScoped PROVE owner'[o] = None
  <2>1. o \in Objects /\ owner[o] = None
    BY ObjectAssumption DEF GuardInv
  <2>2. Calling(o) => NewOwner(Plan[step]) = None
    BY DEF Calling, NewOwner
  <2> QED BY <2>1, <2>2, ObjectStep
<1>2. ASSUME pc' = "operands", NEW i \in DOMAIN Plan, i < step',
             Plan[i].obj \in ClusterScoped \ Deletable
      PROVE  Plan[i].obj \in present'
  <2>1. pc = "operands" /\ (i < step \/ (i = step /\ Effect(Plan[i])))
    BY <1>2, Advance
  <2>2. CASE i < step
    BY <1>2, <2>1, <2>2, GuardStays DEF GuardInv
  <2>3. CASE Effect(Plan[i])
    BY <1>2, <2>3, EffectPresent, PlanAssumption
  <2> QED BY <2>1, <2>2, <2>3
<1> QED BY <1>1, <1>2 DEF GuardInv

\* No owner reference is younger than the stored resource.
LEMMA OwnerNotNewer ==
  ASSUME TypeOK, LivesInv, NEW c \in CRs, NEW o \in Objects,
         owner[o] # None, owner[o].cr = c
  PROVE  /\ owner[o].uid \in Nat /\ Server(c).uid \in Nat
         /\ owner[o].uid <= Server(c).uid
         /\ owner[o].uid >= 1 /\ owner[o].uid <= MaxUid
         /\ pc # "idle" /\ cur = c => owner[o].uid <= inst.uid
<1>1. owner[o].uid \in Nat
  <2>1. owner[o] \in OwnerRef
    BY DEF TypeOK, ClusterType
  <2> QED BY <2>1 DEF OwnerRef
<1>2. /\ Len(hist[c]) \in Nat \ {0}
      /\ Cached(c).uid \in Nat /\ Server(c).uid \in Nat /\ inst.uid \in Nat
  <2>1. Cached(c) \in Version /\ Server(c) \in Version /\ inst \in Version
    BY EndsType DEF TypeOK, WorkerType
  <2> QED BY <2>1, EndsType, VersionCounters
<1>3. 1 \in 1 .. Len(hist[c]) /\ Len(hist[c]) \in 1 .. Len(hist[c])
  BY <1>2
<1>4. Cached(c).uid <= Server(c).uid /\ Server(c).uid <= MaxUid
  BY <1>3 DEF LivesInv, Cached, Server
<1>5. owner[o].uid >= 1 /\ owner[o].uid <= Newest(c)
  BY DEF LivesInv
<1>6. Newest(c) \in Nat /\ Newest(c) <= Cached(c).uid
  BY <1>2 DEF LivesInv, Newest
<1>7. pc # "idle" /\ cur = c => Newest(c) = inst.uid
  BY DEF Newest
<1>8. owner[o].uid <= Server(c).uid
  BY <1>1, <1>2, <1>4, <1>5, <1>6
<1>9. owner[o].uid <= MaxUid
  BY <1>1, <1>2, <1>4, <1>8, BoundAssumption
<1> QED BY <1>1, <1>2, <1>5, <1>7, <1>8, <1>9

\* Nobody but the operator deletes a policy or a binding.
GuardsSafe == \A o \in StatefulSets : Guards[o] \cap Deletable = {}

\* With one resource, the guards of its workloads stay: a cleanup would be for
\* the life they belong to, and that is not being deleted.
LEMMA GuardedStep ==
  ASSUME TypeOK, IInv, LivesInv, StepInv, GuardInv, AlwaysGuarded, [Next]_vars,
         NEW c, CRs = {c}, GuardsSafe
  PROVE  AlwaysGuarded'
<1> SUFFICES ASSUME NEW o \in StatefulSets, o \in present',
                    owner'[o] = [cr |-> c, uid |-> Server(c)'.uid],
                    Server(c)'.exists, ~Server(c)'.deleting,
                    NEW g \in Guards[o]
             PROVE  g \in present'
  BY DEF AlwaysGuarded
<1>0. c \in CRs /\ o \in Objects /\ o # NamespaceObj /\ g \in ClusterScoped \ Deletable
  BY ObjectAssumption, OrderAssumption DEF GuardsSafe
<1>1. owner'[o] # None
  <2>1. Server(c)' \in Version
    <3>1. Len(hist'[c]) \in 1 .. Len(hist'[c]) /\ hist'[c] \in Seq(Version)
      BY <1>0, NextType DEF TypeOK, HistType
    <3> QED BY <3>1 DEF Server
  <2>2. Server(c)'.uid \in Nat
    BY <2>1 DEF Version
  <2> QED BY <1>0, <2>2, ObjectAssumption
<1>2. CASE Calling(o)
  <2>1. PICK j \in 1 .. step - 1 : Plan[j].obj = g
    BY <1>2, OrderAssumption DEF Calling
  <2>2. j \in DOMAIN Plan /\ j < step /\ pc = "operands"
    BY <1>2, <2>1, CallType, PlanAssumption DEF Calling
  <2>3. g \in present
    BY <1>0, <2>1, <2>2 DEF GuardInv
  <2> QED BY <1>0, <2>2, <2>3, GuardStays
<1>3. CASE ~Calling(o)
  <2>1. o \in present /\ owner[o] = owner'[o]
    BY <1>0, <1>1, <1>3, ObjectStep
  <2>2. owner[o] # None /\ owner[o].cr = c /\ owner[o].uid = Server(c)'.uid
    BY <1>1, <2>1
  <2>3. owner[o].uid \in Nat /\ Server(c).uid \in Nat /\ owner[o].uid <= Server(c).uid
    BY <1>0, <2>2, OwnerNotNewer
  <2>4. Server(c).uid = Server(c)'.uid /\ Server(c).exists
    BY <1>0, <2>2, <2>3, ServerStep
  <2>5. ~Server(c).deleting
    BY <1>0, <2>4, DeletingStays
  <2>6. g \in present
    BY <1>0, <2>1, <2>4, <2>5 DEF AlwaysGuarded
  <2>7. ASSUME pc = "cleanup" PROVE FALSE
    <3>1. cur = c
      BY <2>7 DEF TypeOK, WorkerType
    <3>2. owner[o].uid <= inst.uid
      BY <1>0, <2>2, <2>7, <3>1, OwnerNotNewer
    <3>3. inst.uid <= Server(c).uid /\ inst.uid \in Nat
      BY <2>7, <3>1, VersionCounters DEF IInv, PassInv, TypeOK, WorkerType
    <3>4. inst.uid = Server(c).uid
      BY <2>2, <2>3, <2>4, <3>2, <3>3
    <3>5. Len(hist[c]) \in 1 .. Len(hist[c])
      BY <1>0, EndsType
    <3>6. Server(c).deleting
      BY <2>4, <2>7, <3>1, <3>4, <3>5 DEF IInv, PassInv, Server
    <3> QED BY <2>5, <3>6
  <2> QED BY <1>0, <2>6, <2>7, GuardStays
<1> QED BY <1>2, <1>3

\* The policy and the binding of a workload of a live resource are there.
THEOREM GuardsAreThere ==
  ASSUME NEW c, CRs = {c}, GuardsSafe
  PROVE  Spec => []AlwaysGuarded
<1> DEFINE Inv == LivesInv /\ StepInv /\ GuardInv /\ AlwaysGuarded
<1>1. Init => Inv
  <2> SUFFICES ASSUME Init PROVE Inv
    OBVIOUS
  <2>1. /\ \A d \in CRs : hist[d] = <<Gone(0)>>
        /\ \A o \in Objects : owner[o] = None
        /\ pc = "idle" /\ present \subseteq Legacy
    BY DEF Init, IdleWorker
  <2>2. Len(<<Gone(0)>>) = 1 /\ <<Gone(0)>>[1] = Gone(0) /\ ~Gone(0).exists /\ Gone(0).uid = 0
    BY DEF Gone
  <2>3. LivesInv
    BY <2>1, <2>2, BoundAssumption DEF LivesInv
  <2>4. StepInv /\ GuardInv
    BY <2>1, ObjectAssumption DEF StepInv, GuardInv
  <2>5. AlwaysGuarded
    BY <2>1, <2>2 DEF AlwaysGuarded, Server
  <2> QED BY <2>3, <2>4, <2>5
<1>2. TypeOK /\ IInv /\ Inv /\ [Next]_vars => Inv'
  BY LivesStep, StepKept, GuardStep, GuardedStep
<1> QED BY <1>1, <1>2, Invariance, PTL DEF Spec

-----------------------------------------------------------------------------
\* What the pass has written is there, as long as the resource is not deleted.
RefsInv ==
  pc = "operands" /\ ~Server(cur).deleting =>
    \A i \in DOMAIN Plan :
      i < step /\ Plan[i].op # "deleteIgnoreMissing" /\ Plan[i].obj \notin Deletable
      => Plan[i].obj \in present

\* In the first life of a resource nothing a pass has written is an orphan.
LEMMA RefsStep ==
  ASSUME TypeOK, IInv, LivesInv, StepInv, RefsInv, [Next]_vars,
         NEW c, CRs = {c}, MaxUid = 1
  PROVE  RefsInv'
<1> SUFFICES ASSUME pc' = "operands", ~Server(cur)'.deleting,
                    NEW i \in DOMAIN Plan, i < step', Plan[i].op # "deleteIgnoreMissing",
                    Plan[i].obj \notin Deletable
             PROVE  Plan[i].obj \in present'
  BY DEF RefsInv
<1>1. pc = "operands" /\ (i < step \/ (i = step /\ Effect(Plan[i])))
  BY Advance
<1>2. /\ cur = c /\ c \in CRs
      /\ Server(c).exists /\ Server(c).uid = inst.uid /\ ~Server(c).deleting
  BY <1>1, PassGoesOn DEF Writing
<1>3. CASE Effect(Plan[i])
  BY <1>3, EffectPresent
<1>4. CASE i < step
  <2> DEFINE o == Plan[i].obj
  <2>1. o \in present /\ o \in Objects
    BY <1>1, <1>2, <1>4, CallType DEF RefsInv
  <2>2. ~Orphaned(o)
    <3>1. CASE owner[o] = None
      BY <3>1 DEF Orphaned
    <3>2. CASE owner[o] # None
      <4>1. owner[o] \in OwnerRef
        BY <2>1, <3>2 DEF TypeOK, ClusterType
      <4>2. owner[o].cr = c
        BY <4>1 DEF OwnerRef
      <4>3. /\ owner[o].uid \in Nat /\ Server(c).uid \in Nat
            /\ owner[o].uid <= Server(c).uid /\ owner[o].uid >= 1
        BY <1>2, <2>1, <3>2, <4>2, OwnerNotNewer
      <4>4. Server(c).uid <= 1
        <5>1. Len(hist[c]) \in 1 .. Len(hist[c])
          BY <1>2, EndsType
        <5> QED BY <1>2, <5>1 DEF LivesInv, Server
      <4>5. owner[o].uid = Server(c).uid
        BY <4>3, <4>4
      <4> QED BY <1>2, <4>2, <4>5 DEF Orphaned
    <3> QED BY <3>1, <3>2
  <2>3. ~(Calling(o) /\ Plan[step].op = "deleteIgnoreMissing")
    BY CallAssumption DEF Calling
  <2> QED BY <1>1, <2>1, <2>2, <2>3, ObjectStep
<1> QED BY <1>1, <1>3, <1>4

\* Nobody but the operator deletes what the pods refer to.
RefsSafe == \A o \in StatefulSets : PodRefs[o] \cap Deletable = {}

\* In the first life of a resource no workload comes before what its pods need.
THEOREM RefsComeFirst ==
  ASSUME NEW c, CRs = {c}, MaxUid = 1, RefsSafe
  PROVE  Spec => RefsBeforePods
<1> DEFINE Inv == LivesInv /\ StepInv /\ RefsInv
<1>1. Init => Inv
  <2> SUFFICES ASSUME Init PROVE Inv
    OBVIOUS
  <2>1. /\ \A d \in CRs : hist[d] = <<Gone(0)>>
        /\ \A o \in Objects : owner[o] = None
        /\ pc = "idle"
    BY DEF Init, IdleWorker
  <2>2. Len(<<Gone(0)>>) = 1 /\ <<Gone(0)>>[1] = Gone(0) /\ ~Gone(0).exists /\ Gone(0).uid = 0
    BY DEF Gone
  <2>3. LivesInv
    BY <2>1, <2>2, BoundAssumption DEF LivesInv
  <2> QED BY <2>1, <2>3 DEF StepInv, RefsInv
<1>2. TypeOK /\ IInv /\ Inv /\ [Next]_vars => Inv'
  BY LivesStep, StepKept, RefsStep
<1>3. ASSUME TypeOK, RefsInv, [Next]_vars, NEW o \in (present' \ present) \cap StatefulSets
      PROVE  Server(cur).deleting \/ PodRefs[o] \subseteq present
  <2>1. o \in Objects /\ o # NamespaceObj /\ o \notin present /\ o \in present'
    BY ObjectAssumption
  <2>2. Calling(o)
    BY <1>3, <2>1, ObjectStep
  <2>3. ASSUME NEW r \in PodRefs[o], ~Server(cur).deleting PROVE r \in present
    <3>1. PICK j \in 1 .. step - 1 : Plan[j].obj = r /\ Plan[j].op # "deleteIgnoreMissing"
      BY <2>2, OrderAssumption DEF Calling
    <3>2. j \in DOMAIN Plan /\ j < step
      BY <2>2, <3>1, CallType, PlanAssumption DEF Calling
    <3> QED BY <1>3, <2>2, <2>3, <3>1, <3>2 DEF RefsInv, Calling, RefsSafe
  <2> QED BY <2>3
<1>4. TypeOK /\ Inv /\ [Next]_vars =>
        [\A o \in (present' \ present) \cap StatefulSets :
           Server(cur).deleting \/ PodRefs[o] \subseteq present]_vars
  BY <1>3
<1> QED BY <1>1, <1>2, <1>4, Invariance, PTL DEF Spec, RefsBeforePods

-----------------------------------------------------------------------------
\* What is there and has no owner.
UnownedInv ==
  \A o \in present : owner[o] = None =>
    o \in ClusterScoped \cup Legacy \cup {Namespace, Obj("Route", "kubeoptix-dashboard")}

\* What is left when every resource is gone and the collector has caught up.
THEOREM ResidueIsSmall ==
  ASSUME CRs \subseteq Home
  PROVE  Spec => []Residue
<1>1. Init => UnownedInv
  BY DEF Init, UnownedInv
<1>2. TypeOK /\ UnownedInv /\ [Next]_vars => UnownedInv'
  <2> SUFFICES ASSUME TypeOK, UnownedInv, [Next]_vars, NEW o \in present', owner'[o] = None
               PROVE  o \in ClusterScoped \cup Legacy \cup {Namespace, Obj("Route", "kubeoptix-dashboard")}
    BY DEF UnownedInv
  <2>1. o \in Objects
    BY NextType DEF TypeOK, ClusterType
  <2>2. ASSUME Calling(o), NewOwner(Plan[step]) = None
        PROVE  o \in ClusterScoped \/ o = Obj("Route", "kubeoptix-dashboard")
    <3>1. cur \in Home /\ cur \in CRs /\ inst.uid \in Nat
      BY <2>2 DEF Calling, TypeOK, WorkerType, Version
    <3>2. Plan[step].op = "applyUnowned" \/ o \in ClusterScoped
      BY <2>2, <3>1, ObjectAssumption DEF Calling, NewOwner
    <3> QED BY <2>2, <3>2, UnownedAssumption DEF Calling
  <2> QED BY <2>1, <2>2, ObjectStep, UnownedAssumption DEF UnownedInv
<1>3. TypeOK /\ IInv /\ UnownedInv => Residue
  <2> SUFFICES ASSUME TypeOK, IInv, UnownedInv, \A c \in CRs : ~Server(c).exists,
                      NEW o \in present, ~Orphaned(o)
               PROVE  o \in Legacy \cup {Namespace, Obj("Route", "kubeoptix-dashboard")}
    BY DEF Residue
  <2>1. owner[o] = None
    <3>1. owner[o] # None => owner[o].cr \in CRs
      BY DEF TypeOK, ClusterType, OwnerRef
    <3> QED BY <3>1 DEF Orphaned
  <2>2. o \notin ClusterScoped
    BY DEF IInv, NoOrphan, Holds
  <2> QED BY <2>1, <2>2 DEF UnownedInv
<1> QED BY <1>1, <1>2, <1>3, Invariance, PTL DEF Spec
================================================================================
