------------------------------ MODULE DeployProofs ------------------------------
(***************************************************************************)
(* Proofs about Deploy, for any images and any number of calls of the      *)
(* script: its state is well-typed; the API server keeps the kind as long  *)
(* as there is a resource, and only a resource whose finalizer is on ever  *)
(* gets operands; a deploy waits for the image it has set, whatever takes  *)
(* the Deployment away under it.                                           *)
(***************************************************************************)
EXTENDS Deploy, SequenceTheorems, TLAPS

Held ==
  /\ operands \in BOOLEAN
  /\ resource # "absent" => Has("crd")
  /\ operands => resource \in {"held", "deleting"}

LEMMA HeldInit == Init => Held
BY DEF Init, Held

\* What a deletion leaves of the resource is not more than there was, and keeps
\* the finalizer.
LEMMA DeletedKeeps ==
  ASSUME NEW r
  PROVE  /\ Deleted(r) # "absent" => r # "absent"
         /\ r \in {"held", "deleting"} => Deleted(r) = "deleting"
BY DEF Deleted

LEMMA DeletionKeeps ==
  ASSUME Held, resource' = Deleted(resource), objects' = objects, operands' = operands
  PROVE  Held'
BY DeletedKeeps DEF Held, Has

\* No manifest but the CRD is the kind of the resource.
LEMMA ScriptKeeps ==
  ASSUME Held, ScriptStep
  PROVE  Held'
<1>1. CASE Apply
  BY <1>1 DEF Apply, Held, Has
<1>2. CASE Refuse \/ WaitForCrd \/ WaitForOperator \/ WaitGone
  BY <1>2 DEF Refuse, WaitForCrd, WaitForOperator, WaitGone, cluster, Held, Has
<1>3. CASE SetImage \/ Purge
  BY <1>3 DEF SetImage, Purge, Held, Has
<1>4. CASE ApplyInstance
  BY <1>4 DEF ApplyInstance, Alive, Held, Has
<1>5. CASE Delete
  <2>1. Has("crd") => Has("crd")'
    BY <1>5 DEF Delete, DeleteObject, Has
  <2> QED
    BY <1>5, <2>1 DEF Delete, Held
<1> QED
  BY <1>1, <1>2, <1>3, <1>4, <1>5 DEF ScriptStep

LEMMA HeldNext ==
  ASSUME Held, [Next]_vars
  PROVE  Held'
<1>1. CASE CallDeploy \/ CallUndeploy \/ Interrupt \/ UNCHANGED vars
  BY <1>1 DEF CallDeploy, CallUndeploy, Call, Interrupt, vars, cluster, Held, Has
<1>2. CASE ScriptStep
  BY <1>2, ScriptKeeps
<1>3. CASE EmptyNamespace
  <2>1. CASE resource' = Deleted(resource) /\ objects' = objects
    BY <1>3, <2>1, DeletionKeeps DEF EmptyNamespace
  <2>2. CASE \E kind \in Namespaced \cap objects :
               objects' = objects \ {kind} /\ resource' = resource
    BY <1>3, <2>2 DEF EmptyNamespace, Namespaced, Held, Has
  <2> QED
    BY <1>3, <2>1, <2>2 DEF EmptyNamespace
<1>4. CASE EmptyCrd \/ DeleteResource
  BY <1>4, DeletionKeeps DEF EmptyCrd, DeleteResource
<1>5. CASE StartPod \/ StopPod
  BY <1>5 DEF StartPod, StopPod, Held, Has
<1>6. ASSUME NEW kind \in Kinds, Vanish(kind)
      PROVE  Held'
  BY <1>6 DEF Vanish, Held
<1>7. CASE AddFinalizer \/ WriteOperands \/ Finalize
  BY <1>7 DEF AddFinalizer, WriteOperands, Covered, Finalize, Held, Has
<1> QED
  BY <1>1, <1>2, <1>3, <1>4, <1>5, <1>6, <1>7 DEF Next

\* However often deploys and undeploys are called and interrupted, and
\* whatever of the operator is deleted first, the cluster-scoped operands never
\* outlive the kind of the resource, or the resource, that their deletion needs.
THEOREM KindOutlivesOperands == Spec => []NothingOutlivesTheKind
<1>1. Held => NothingOutlivesTheKind
  BY DEF Held, NothingOutlivesTheKind
<1> QED
  BY HeldInit, HeldNext, <1>1, PTL DEF Spec

-----------------------------------------------------------------------------
(* Types.                                                                   *)

Remaining == Rest(Deploying) \cup Rest(Undeploying)

StepNames ==
  {"apply", "refuse", "crd", "image", "rollout", "instance", "delete", "gone", "purge"}

LEMMA Scripts ==
  /\ Deploying \in Seq(StepNames) /\ Len(Deploying) = 6 /\ Head(Deploying) = "apply"
  /\ Undeploying \in Seq(StepNames) /\ Len(Undeploying) = 4 /\ Head(Undeploying) = "delete"
BY DEF Deploying, Undeploying, StepNames

LEMMA RestOf ==
  ASSUME NEW s \in Seq(StepNames), s # <<>>
  PROVE  s \in Rest(s) /\ <<>> \in Rest(s)
<1>1. SubSeq(s, 1, Len(s)) = s /\ 1 \in 1..Len(s) + 1
  BY SubSeqFull
<1>2. SubSeq(s, Len(s) + 1, Len(s)) = <<>> /\ Len(s) + 1 \in 1..Len(s) + 1
  BY SubSeqEmpty
<1> QED
  BY <1>1, <1>2 DEF Rest

\* The steps of a call go on to their end.
LEMMA RestGoesOn ==
  ASSUME NEW s \in Seq(StepNames), NEW steps \in Rest(s), steps # <<>>
  PROVE  \E i \in 1..Len(s) :
           /\ Head(steps) = s[i]
           /\ Tail(steps) = SubSeq(s, i + 1, Len(s))
           /\ Tail(steps) \in Rest(s)
           /\ Tail(steps) # steps
<1>1. PICK i \in 1..Len(s) + 1 : steps = SubSeq(s, i, Len(s))
  BY DEF Rest
<1>2. i \in 1..Len(s)
  <2>1. CASE i > Len(s)
    BY <1>1, <2>1, SubSeqEmpty
  <2> QED
    BY <2>1
<1>3. Head(steps) = s[i] /\ Tail(steps) = SubSeq(s, i + 1, Len(s))
  BY <1>1, <1>2, HeadTailOfSubSeq
<1>4. Tail(steps) \in Rest(s)
  <2>1. i + 1 \in 1..Len(s) + 1
    BY <1>2
  <2> QED
    BY <1>3, <2>1 DEF Rest
<1>5. Tail(steps) # steps
  <2>1. steps \in Seq(StepNames)
    BY <1>1, <1>2, SubSeqProperties
  <2> QED
    BY <2>1, HeadTailProperties
<1> QED
  BY <1>2, <1>3, <1>4, <1>5

\* A call waits for the rollout only after it has set the image, and goes on
\* after it.
LEMMA AfterStep ==
  ASSUME NEW steps \in Remaining, steps # <<>>
  PROVE  /\ Tail(steps) \in Remaining /\ Tail(steps) # steps
         /\ Tail(steps) # <<>> /\ Head(Tail(steps)) = "rollout" => Head(steps) = "image"
         /\ Head(steps) = "rollout" => Tail(steps) # <<>>
<1>1. PICK s \in {Deploying, Undeploying} : steps \in Rest(s)
  BY DEF Remaining
<1>2. s \in Seq(StepNames)
  BY Scripts
<1>3. PICK i \in 1..Len(s) :
        /\ Head(steps) = s[i]
        /\ Tail(steps) = SubSeq(s, i + 1, Len(s))
        /\ Tail(steps) \in Rest(s)
        /\ Tail(steps) # steps
  BY <1>1, <1>2, RestGoesOn
<1>4. ASSUME Tail(steps) # <<>>, Head(Tail(steps)) = "rollout"
      PROVE  Head(steps) = "image"
  <2>1. i + 1 \in 1..Len(s)
    <3>1. CASE i + 1 > Len(s)
      BY <1>2, <1>3, <1>4, <3>1, SubSeqEmpty
    <3> QED
      BY <1>2, <3>1
  <2>2. s[i + 1] = "rollout"
    BY <1>2, <1>3, <1>4, <2>1, HeadTailOfSubSeq
  <2>3. \A j \in 1..4 : Undeploying[j] # "rollout"
    BY DEF Undeploying
  <2>4. \A j \in 1..6 : Deploying[j] = "rollout" => j = 5
    BY DEF Deploying
  <2>5. s = Deploying /\ i = 4
    BY <2>1, <2>2, <2>3, <2>4, Scripts
  <2> QED
    BY <1>3, <2>5 DEF Deploying
<1>5. ASSUME Head(steps) = "rollout"
      PROVE  Tail(steps) # <<>>
  <2>1. \A j \in 1..4 : Undeploying[j] # "rollout"
    BY DEF Undeploying
  <2>2. \A j \in 1..6 : Deploying[j] = "rollout" => j = 5
    BY DEF Deploying
  <2>3. s = Deploying /\ i = 5
    BY <1>3, <1>5, <2>1, <2>2, Scripts
  <2>4. Tail(steps) = SubSeq(Deploying, 6, 6)
    BY <1>3, <2>3, Scripts
  <2>5. Len(SubSeq(Deploying, 6, 6)) = 1
    <3>1. \A j \in 6..6 : Deploying[j] \in StepNames
      BY DEF Deploying, StepNames
    <3>2. Len(SubSeq(Deploying, 6, 6)) = IF 6 <= 6 THEN 6 - 6 + 1 ELSE 0
      BY <3>1, SubSeqProperties
    <3> QED
      BY <3>2
  <2> QED
    BY <2>4, <2>5
<1> QED
  BY <1>1, <1>3, <1>4, <1>5 DEF Remaining

ScriptRecord ==
  [does : {"nothing", "deploy", "undeploy"}, steps : Remaining,
   at : 1..Len(Manifests), refused : BOOLEAN, options : Options]

\* The script gave the Deployment its image before it waits for it.
Chosen == Doing("rollout") /\ Has("deployment") => image = script.options.image

ClusterType ==
  /\ objects \subseteq Kinds
  /\ dying \subseteq objects \cap {"namespace", "crd"}
  /\ image \in Images \cup {NoImage}
  /\ image # NoImage <=> Has("deployment")
  /\ pod \in Images \cup {NoImage}
  /\ resource \in {"absent", "new", "held", "deleting"}
  /\ operands \in BOOLEAN

LEMMA TypeParts == TypeOK <=> ClusterType /\ script \in ScriptRecord /\ calls \in 0..MaxCalls
BY DEF TypeOK, ClusterType, ScriptRecord, Remaining

LEMMA TypePartsNext ==
  ASSUME ClusterType', script' \in ScriptRecord, calls' \in 0..MaxCalls
  PROVE  TypeOK'
BY DEF TypeOK, ClusterType, ScriptRecord, Remaining

LEMMA ManifestKinds ==
  Len(Manifests) = 5 /\ \A i \in 1..5 : Manifests[i] \in Kinds
BY DEF Manifests, Kinds

LEMMA QuietType == Quiet \in ScriptRecord /\ Quiet.steps = <<>>
<1>1. NoOptions \in Options
  BY ImageAssumption DEF NoOptions, Options
<1>2. <<>> \in Remaining
  BY RestOf, Scripts DEF Remaining
<1> QED
  BY <1>1, <1>2, ManifestKinds DEF Quiet, ScriptRecord

LEMMA TypeInit == Init => TypeOK /\ Chosen
<1> SUFFICES ASSUME Init PROVE TypeOK /\ Chosen
  OBVIOUS
<1>1. ClusterType /\ ~Has("deployment")
  BY DEF Init, ClusterType, Has
<1>2. script \in ScriptRecord /\ calls \in 0..MaxCalls
  BY QuietType, CallAssumption DEF Init
<1> QED
  BY <1>1, <1>2, TypeParts DEF Chosen

\* A call begins with its first step, ...
LEMMA CallType ==
  ASSUME TypeOK, NEW does \in {"deploy", "undeploy"}, NEW steps \in {Deploying, Undeploying},
         NEW options \in Options, Call(does, steps, options)
  PROVE  TypeOK' /\ Chosen'
<1>1. steps \in Remaining /\ Head(steps) # "rollout"
  BY RestOf, Scripts DEF Remaining
<1>2. script' \in ScriptRecord /\ script'.steps = steps
  BY <1>1, ManifestKinds DEF Call, ScriptRecord
<1>3. calls' \in 0..MaxCalls
  BY TypeParts, CallAssumption DEF Call
<1>4. ClusterType'
  BY TypeParts DEF Call, cluster, ClusterType, Has
<1> QED
  BY <1>1, <1>2, <1>3, <1>4, TypePartsNext DEF Chosen, Doing

\* ... goes on with the next one, or the next manifest, or ends; only the step
\* that sets the image leads to the rollout.
Moves == Advance \/ Abort \/ \E refused \in BOOLEAN : NextManifest(refused)

Becomes(steps, at, refused) ==
  [does |-> script.does, steps |-> steps, at |-> at, refused |-> refused,
   options |-> script.options]

LEMMA MovesType ==
  ASSUME TypeOK, script.steps # <<>>, Moves
  PROVE  /\ script' \in ScriptRecord
         /\ Doing("rollout")' =>
              \/ Doing("rollout")
              \/ Doing("image")
<1>1. /\ script.does \in {"nothing", "deploy", "undeploy"} /\ script.steps \in Remaining
      /\ script.at \in 1..5 /\ script.refused \in BOOLEAN /\ script.options \in Options
      /\ script = [does |-> script.does, steps |-> script.steps, at |-> script.at,
                   refused |-> script.refused, options |-> script.options]
  BY TypeParts, ManifestKinds DEF ScriptRecord
<1>0. /\ \A steps \in Remaining, at \in 1..5, refused \in BOOLEAN :
           Becomes(steps, at, refused) \in ScriptRecord /\ Becomes(steps, at, refused).steps = steps
      /\ 1 \in 1..5
  BY <1>1, ManifestKinds DEF ScriptRecord, Becomes
<1>2. /\ Tail(script.steps) \in Remaining
      /\ Tail(script.steps) # <<>> /\ Head(Tail(script.steps)) = "rollout" => Doing("image")
  BY <1>1, AfterStep DEF Doing
<1>3. CASE Advance
  <2>1. script' = Becomes(Tail(script.steps), 1, script.refused)
    BY <1>1, <1>3 DEF Advance, Becomes
  <2>2. script' \in ScriptRecord /\ script'.steps = Tail(script.steps)
    BY <1>0, <1>1, <1>2, <2>1, Zenon
  <2> QED
    BY <1>2, <2>2 DEF Doing
<1>4. CASE Abort
  BY <1>4, QuietType DEF Abort, Doing
<1>5. ASSUME NEW refused \in BOOLEAN, NextManifest(refused)
      PROVE  /\ script' \in ScriptRecord
             /\ script'.steps = script.steps \/ script'.steps = Tail(script.steps)
  <2>1. (script.refused \/ refused) \in BOOLEAN
    OBVIOUS
  <2>2. CASE script.at < Len(Manifests)
    <3>1. script' = Becomes(script.steps, script.at + 1, script.refused \/ refused)
      BY <1>1, <1>5, <2>2 DEF NextManifest, Becomes
    <3>2. script.at + 1 \in 1..5
      BY <1>1, <2>2, ManifestKinds
    <3> QED
      BY <1>0, <1>1, <2>1, <3>1, <3>2
  <2>3. CASE ~(script.at < Len(Manifests))
    <3>1. script' = Becomes(Tail(script.steps), 1, script.refused \/ refused)
      BY <1>1, <1>5, <2>3 DEF NextManifest, Becomes
    <3> QED
      BY <1>0, <1>1, <1>2, <2>1, <3>1, Zenon
  <2> QED
    BY <2>2, <2>3
<1>6. CASE \E refused \in BOOLEAN : NextManifest(refused)
  BY <1>2, <1>5, <1>6 DEF Doing
<1> QED
  BY <1>3, <1>4, <1>6 DEF Moves

LEMMA ScriptStepType ==
  ASSUME TypeOK, Chosen, ScriptStep
  PROVE  TypeOK' /\ Chosen'
<1>0. /\ ClusterType /\ script \in ScriptRecord /\ calls \in 0..MaxCalls
      /\ Default \in Images /\ NoImage \notin Images
      /\ Manifests[script.at] \in Kinds
      /\ script.options.image \in Images
  BY TypeParts, ImageAssumption, ManifestKinds DEF ScriptRecord, Options
<1>1. script.steps # <<>> /\ calls' = calls
  BY DEF ScriptStep, Apply, Refuse, WaitForCrd, SetImage, WaitForOperator, ApplyInstance, Delete,
         WaitGone, Purge, Doing
<1>2. Moves
  <2>1. CASE Apply
    BY <2>1 DEF Apply, Moves
  <2>2. CASE Delete
    BY <2>2 DEF Delete, Moves
  <2> QED
    BY <2>1, <2>2
       DEF ScriptStep, Refuse, WaitForCrd, SetImage, WaitForOperator, ApplyInstance, WaitGone,
           Purge, Moves
<1>3. /\ script' \in ScriptRecord
      /\ Doing("rollout")' => Doing("rollout") \/ Doing("image")
  BY <1>1, <1>2, MovesType
<1>4. ASSUME ClusterType', Doing("rollout") \/ Doing("image") => Chosen'
      PROVE  TypeOK' /\ Chosen'
  BY <1>0, <1>1, <1>3, <1>4, TypePartsNext DEF Chosen
<1>5. CASE Apply
  <2> DEFINE kind == Manifests[script.at]
             refused == ~Has(kind) /\ kind \in Namespaced /\ ~Alive("namespace")
  <2>1. /\ Doing("apply") /\ UNCHANGED <<dying, pod, resource, operands>>
        /\ objects' = IF refused THEN objects ELSE objects \cup {kind}
        /\ image' = IF kind = "deployment" /\ ~refused THEN Default ELSE image
    BY <1>5 DEF Apply
  <2>2. refused => objects' = objects /\ image' = image
    BY <2>1
  <2>3. ~refused => /\ objects' = objects \cup {kind}
                    /\ image' = IF kind = "deployment" THEN Default ELSE image
    BY <2>1
  <2> HIDE DEF refused
  <2>4. ClusterType'
    BY <1>0, <2>1, <2>2, <2>3 DEF ClusterType, Has
  <2> QED
    BY <1>4, <2>1, <2>4 DEF Doing
<1>6. CASE Refuse \/ WaitForCrd \/ WaitGone
  <2>1. ClusterType' /\ ~Doing("rollout") /\ ~Doing("image")
    BY <1>0, <1>6 DEF Refuse, WaitForCrd, WaitGone, cluster, Doing, ClusterType, Has
  <2> QED
    BY <1>4, <2>1
<1>7. CASE SetImage
  <2>1. ClusterType'
    BY <1>0, <1>7 DEF SetImage, ClusterType, Has
  <2>2. Chosen'
    <3>1. CASE Has("deployment")
      <4>1. image' = script.options.image /\ Advance
        BY <1>7, <3>1 DEF SetImage
      <4>2. script'.options = script.options
        BY <1>0, <4>1 DEF Advance, ScriptRecord
      <4> QED
        BY <4>1, <4>2 DEF Chosen
    <3>2. CASE ~Has("deployment")
      BY <1>7, <3>2, QuietType DEF SetImage, Abort, Chosen, Doing
    <3> QED
      BY <3>1, <3>2
  <2> QED
    BY <1>4, <2>1, <2>2
<1>8. CASE WaitForOperator
  <2>1. ClusterType' /\ Doing("rollout")
    BY <1>0, <1>8 DEF WaitForOperator, cluster, ClusterType, Has
  <2>2. ~Doing("rollout")'
    <3>1. CASE Advance
      <4>1. script'.steps = Tail(script.steps)
        BY <1>0, <3>1 DEF Advance, ScriptRecord
      <4>2. script.steps \in Remaining
        BY <1>0 DEF ScriptRecord
      <4> QED
        BY <1>1, <2>1, <4>1, <4>2, AfterStep DEF Doing
    <3>2. CASE Abort
      BY <3>2, QuietType DEF Abort, Doing
    <3> QED
      BY <1>8, <3>1, <3>2 DEF WaitForOperator
  <2> QED
    BY <1>4, <2>1, <2>2 DEF Chosen
<1>9. CASE ApplyInstance
  <2>1. ClusterType' /\ ~Doing("rollout") /\ ~Doing("image")
    BY <1>0, <1>9 DEF ApplyInstance, Doing, ClusterType, Has
  <2> QED
    BY <1>4, <2>1
<1>10. CASE Delete
  <2> DEFINE kind == Manifests[script.at]
  <2>1. DeleteObject(kind) /\ UNCHANGED <<pod, resource, operands>>
    BY <1>10 DEF Delete
  <2>2. ASSUME kind \in {"namespace", "crd"}
        PROVE  ClusterType'
    <3>1. dying' = dying \cup ({kind} \cap objects) /\ UNCHANGED <<objects, image>>
      BY <2>1, <2>2 DEF DeleteObject
    <3>2. dying' \subseteq objects \cap {"namespace", "crd"}
      BY <1>0, <2>2, <3>1 DEF ClusterType
    <3> QED
      BY <1>0, <2>1, <3>1, <3>2 DEF ClusterType, Has
  <2>3. ASSUME kind \notin {"namespace", "crd"}
        PROVE  ClusterType'
    <3>1. /\ objects' = objects \ {kind} /\ dying' = dying
          /\ image' = IF kind = "deployment" THEN NoImage ELSE image
      BY <2>1, <2>3 DEF DeleteObject
    <3> QED
      BY <1>0, <2>1, <2>3, <3>1 DEF ClusterType, Has
  <2>4. ~Doing("rollout") /\ ~Doing("image")
    BY <1>10 DEF Delete, Doing
  <2> QED
    BY <1>4, <2>2, <2>3, <2>4
<1>11. CASE Purge
  <2>1. ClusterType' /\ ~Doing("rollout") /\ ~Doing("image")
    BY <1>0, <1>11 DEF Purge, Doing, ClusterType, Has
  <2> QED
    BY <1>4, <2>1
<1> QED
  BY <1>5, <1>6, <1>7, <1>8, <1>9, <1>10, <1>11 DEF ScriptStep

\* The cluster never gives the Deployment an image.
LEMMA TypeNext ==
  ASSUME TypeOK, Chosen, [Next]_vars
  PROVE  TypeOK' /\ Chosen'
<1>0. /\ ClusterType /\ script \in ScriptRecord /\ calls \in 0..MaxCalls
      /\ NoImage \notin Images
  BY TypeParts, ImageAssumption
<1>1. CASE CallDeploy \/ CallUndeploy
  <2>1. \A purge \in BOOLEAN : [NoOptions EXCEPT !.purge = purge] \in Options
    BY ImageAssumption DEF NoOptions, Options
  <2> QED
    BY <1>1, <2>1, CallType DEF CallDeploy, CallUndeploy
<1>2. CASE Interrupt
  BY <1>0, <1>2, QuietType, TypePartsNext
     DEF Interrupt, Abort, cluster, ClusterType, Has, Chosen, Doing
<1>3. CASE ScriptStep
  BY <1>3, ScriptStepType
<1>4. ASSUME ClusterType', UNCHANGED <<script, calls>>, Has("deployment")' => Has("deployment") /\ image' = image
      PROVE  TypeOK' /\ Chosen'
  BY <1>0, <1>4, TypePartsNext DEF Chosen, Doing
<1>5. CASE EmptyNamespace
  <2>1. CASE resource' = Deleted(resource) /\ UNCHANGED <<objects, image>>
    BY <1>0, <1>4, <1>5, <2>1 DEF EmptyNamespace, Deleted, ClusterType, Has
  <2>2. CASE \E kind \in Namespaced \cap objects :
               /\ objects' = objects \ {kind}
               /\ image' = IF kind = "deployment" THEN NoImage ELSE image
               /\ UNCHANGED resource
    <3>1. PICK kind \in {"account", "deployment"} :
            /\ objects' = objects \ {kind}
            /\ image' = IF kind = "deployment" THEN NoImage ELSE image
            /\ UNCHANGED resource
      BY <2>2 DEF Namespaced
    <3>2. ClusterType' /\ (Has("deployment")' => Has("deployment") /\ image' = image)
      BY <1>0, <1>5, <3>1 DEF EmptyNamespace, ClusterType, Has
    <3> QED
      BY <1>4, <1>5, <3>2 DEF EmptyNamespace
  <2> QED
    BY <1>5, <2>1, <2>2 DEF EmptyNamespace
<1>6. CASE EmptyCrd \/ DeleteResource
  BY <1>0, <1>4, <1>6 DEF EmptyCrd, DeleteResource, Deleted, ClusterType, Has
<1>7. CASE StartPod \/ StopPod
  BY <1>0, <1>4, <1>7 DEF StartPod, StopPod, ClusterType, Has
<1>8. ASSUME NEW kind \in Kinds, Vanish(kind)
      PROVE  TypeOK' /\ Chosen'
  <2>1. kind \in {"namespace", "crd"}
    BY <1>0, <1>8 DEF Vanish, ClusterType
  <2> QED
    BY <1>0, <1>4, <1>8, <2>1 DEF Vanish, ClusterType, Has
<1>9. CASE AddFinalizer \/ WriteOperands \/ Finalize
  BY <1>0, <1>4, <1>9 DEF AddFinalizer, WriteOperands, Finalize, ClusterType, Has
<1>10. CASE UNCHANGED vars
  BY <1>0, <1>4, <1>10 DEF vars, cluster, ClusterType, Has
<1> QED
  BY <1>1, <1>2, <1>3, <1>5, <1>6, <1>7, <1>8, <1>9, <1>10 DEF Next

\* Whatever is deployed, undeployed, interrupted and deleted, the cluster and
\* the script stay in states the other proofs speak of: only a namespace and a
\* CRD wait for their contents, and there is an image exactly where there is a
\* Deployment.
THEOREM DeployTypeCorrect == Spec => []TypeOK
BY TypeInit, TypeNext, PTL DEF Spec

\* A deploy that waits and goes on found the manager running the image it was
\* asked for.
THEOREM DeployIsKept == Spec => DeployDelivers
<1>1. ASSUME TypeOK, Chosen, [Next]_vars
      PROVE  [ Doing("rollout") /\ script.options.wait /\ script'.steps = Tail(script.steps)
               => pod' = script.options.image ]_vars
  <2> SUFFICES ASSUME Next, Doing("rollout"), script.options.wait,
                      script'.steps = Tail(script.steps)
               PROVE  pod' = script.options.image
    BY <1>1
  <2>1. script.steps # <<>> /\ script.steps \in Remaining
    BY <1>1, TypeParts DEF Doing, ScriptRecord
  <2>2. script'.steps # script.steps /\ script'.steps # <<>>
    BY <2>1, AfterStep DEF Doing
  <2>3. ScriptStep
    <3>1. ~Interrupt
      BY <2>2, QuietType DEF Interrupt, Abort
    <3> QED
      BY <2>1, <2>2, <3>1
         DEF Next, CallDeploy, CallUndeploy, Call, EmptyNamespace, EmptyCrd, StartPod, StopPod,
             Vanish, AddFinalizer, WriteOperands, Finalize, DeleteResource
  <2>4. WaitForOperator
    BY <2>3 DEF ScriptStep, Apply, Refuse, WaitForCrd, SetImage, ApplyInstance, Delete,
                WaitGone, Purge, Doing
  <2>5. ~Abort
    BY <2>2, QuietType DEF Abort
  <2>6. Has("deployment") /\ pod = image /\ pod' = pod
    BY <2>4, <2>5 DEF WaitForOperator, cluster
  <2> QED
    BY <1>1, <2>6 DEF Chosen
<1> QED
  BY <1>1, TypeInit, TypeNext, PTL DEF Spec, DeployDelivers

================================================================================
