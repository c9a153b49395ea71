-------------------------------- MODULE Deploy --------------------------------
(***************************************************************************)
(* hack/deploy-ocp.sh against a cluster in which the operator it deploys   *)
(* is at work.  The script applies or deletes the manifests of             *)
(* config/default one by one; the API server removes a namespace or a CRD  *)
(* only when nothing is left in it; the operator, while it runs and has    *)
(* its rights, is the only one to take the finalizer off a ShiftWise.      *)
(*                                                                         *)
(* A definition named X_Fault is X with a plausible mistake in it; nothing *)
(* uses them.                                                              *)
(***************************************************************************)
EXTENDS Naturals, Sequences

CONSTANTS
  Images,    \* operator images
  Default,   \* the image in config/manager/manager.yaml
  NoImage,
  MaxCalls   \* bound: calls of the script

ASSUME ImageAssumption == Default \in Images /\ NoImage \notin Images
ASSUME CallAssumption == MaxCalls \in Nat

VARIABLES
  objects,   \* the manifests the API server has
  dying,     \* those of them that wait for their contents to go
  image,     \* the image in the Deployment
  pod,       \* the image the manager runs, NoImage when it does not run
  resource,  \* the ShiftWise in the namespace
  operands,  \* whether any cluster-scoped operand of it exists
  script,    \* the call of the script that is under way
  calls      \* calls so far

cluster == <<objects, dying, image, pod, resource, operands>>
vars == <<cluster, script, calls>>

\* config/default in the order of kustomize; account and binding stand for
\* config/rbac.
Manifests == <<"namespace", "crd", "account", "binding", "deployment">>
Kinds == {"namespace", "crd", "account", "binding", "deployment"}
Namespaced == {"account", "deployment"}

\* What a call of the script does, in order; "refuse" ends a call whose
\* manifests were not all accepted.
Deploying_WaitsFirst == <<"apply", "refuse", "crd", "rollout", "image", "instance">>
Deploying == <<"apply", "refuse", "crd", "image", "rollout", "instance">>
Undeploying == <<"delete", "gone", "purge", "gone">>

Options == [image : Images, wait : BOOLEAN, instance : BOOLEAN, purge : BOOLEAN]
NoOptions == [image |-> Default, wait |-> FALSE, instance |-> FALSE, purge |-> FALSE]

\* steps is what the call has yet to do, at the manifest it has come to.
Quiet == [does |-> "nothing", steps |-> <<>>, at |-> 1, refused |-> FALSE, options |-> NoOptions]

Has(kind) == kind \in objects
Alive(kind) == Has(kind) /\ kind \notin dying
Doing(step) == script.steps # <<>> /\ Head(script.steps) = step

Init ==
  /\ objects = {} /\ dying = {}
  /\ image = NoImage /\ pod = NoImage
  /\ resource = "absent" /\ operands = FALSE
  /\ script = Quiet
  /\ calls = 0

-----------------------------------------------------------------------------
(* The script.                                                              *)

Call(does, steps, options) ==
  /\ script.steps = <<>>
  /\ calls < MaxCalls
  /\ calls' = calls + 1
  /\ script' = [does |-> does, steps |-> steps, at |-> 1, refused |-> FALSE, options |-> options]
  /\ UNCHANGED cluster

CallDeploy ==
  \E o \in Options : ~o.purge /\ Call("deploy", Deploying, o)

CallUndeploy ==
  \E purge \in BOOLEAN : Call("undeploy", Undeploying, [NoOptions EXCEPT !.purge = purge])

Advance == script' = [script EXCEPT !.steps = Tail(@), !.at = 1]
Abort == script' = Quiet  \* set -e

\* oc apply and oc delete go on to the next manifest when one is refused.
NextManifest(refused) ==
  script' = IF script.at < Len(Manifests)
            THEN [script EXCEPT !.at = @ + 1, !.refused = @ \/ refused]
            ELSE [script EXCEPT !.steps = Tail(@), !.at = 1, !.refused = @ \/ refused]

\* oc apply: an object that is there is brought back to its manifest, an
\* object that waits to go stays so, nothing new gets into a namespace that
\* is not alive.
Apply ==
  LET kind == Manifests[script.at]
      refused == ~Has(kind) /\ kind \in Namespaced /\ ~Alive("namespace")
  IN
  /\ Doing("apply")
  /\ objects' = IF refused THEN objects ELSE objects \cup {kind}
  /\ image' = IF kind = "deployment" /\ ~refused THEN Default ELSE image
  /\ NextManifest(refused)
  /\ UNCHANGED <<dying, pod, resource, operands, calls>>

Refuse ==
  /\ Doing("refuse")
  /\ IF script.refused THEN Abort ELSE Advance
  /\ UNCHANGED <<cluster, calls>>

WaitForCrd ==
  /\ Doing("crd")
  /\ IF Has("crd") THEN Advance ELSE Abort
  /\ UNCHANGED <<cluster, calls>>

SetImage ==
  /\ Doing("image")
  /\ IF Has("deployment")
     THEN image' = script.options.image /\ Advance
     ELSE UNCHANGED image /\ Abort
  /\ UNCHANGED <<objects, dying, pod, resource, operands, calls>>

\* The rollout is complete, not asked for, or not complete in time.
WaitForOperator ==
  /\ Doing("rollout")
  /\ LET complete == Has("deployment") /\ pod = image
     IN  \/ (script.options.wait => complete) /\ Advance
         \/ script.options.wait /\ ~complete /\ Abort
  /\ UNCHANGED <<cluster, calls>>

ApplyInstance ==
  /\ Doing("instance")
  /\ IF script.options.instance
     THEN IF resource # "absent" \/ (Alive("namespace") /\ Alive("crd"))
          THEN /\ resource' = IF resource = "absent" THEN "new" ELSE resource
               /\ Advance
          ELSE UNCHANGED resource /\ Abort
     ELSE UNCHANGED resource /\ Advance
  /\ UNCHANGED <<objects, dying, image, pod, operands, calls>>

DeleteObject_Deployment(kind) ==
  /\ objects' = IF kind = "deployment" THEN objects \ {kind} ELSE objects
  /\ image' = IF kind = "deployment" THEN NoImage ELSE image
  /\ UNCHANGED dying
DeleteObject_Missing(kind) ==
  IF kind \in {"namespace", "crd"}
  THEN dying' = dying \cup {kind} /\ UNCHANGED <<objects, image>>
  ELSE objects' = objects \ {kind} /\ UNCHANGED <<dying, image>>
\* A namespace or a CRD that is deleted waits for its contents.
DeleteObject(kind) ==
  IF kind \in {"namespace", "crd"}
  THEN /\ dying' = dying \cup ({kind} \cap objects)
       /\ UNCHANGED <<objects, image>>
  ELSE /\ objects' = objects \ {kind}
       /\ image' = IF kind = "deployment" THEN NoImage ELSE image
       /\ UNCHANGED dying

Delete ==
  /\ Doing("delete")
  /\ DeleteObject(Manifests[script.at])
  /\ NextManifest(FALSE)
  /\ UNCHANGED <<pod, resource, operands, calls>>

\* oc delete returns when what it deleted is gone.
WaitGone ==
  /\ Doing("gone")
  /\ dying = {}
  /\ Advance
  /\ UNCHANGED <<cluster, calls>>

Purge ==
  /\ Doing("purge")
  /\ dying' = IF script.options.purge THEN dying \cup ({"crd", "namespace"} \cap objects) ELSE dying
  /\ Advance
  /\ UNCHANGED <<objects, image, pod, resource, operands, calls>>

\* Somebody stops a script that does not end.
Interrupt ==
  /\ script.steps # <<>>
  /\ calls < MaxCalls
  /\ Abort
  /\ UNCHANGED <<cluster, calls>>

ScriptStep ==
  \/ Apply \/ Refuse \/ WaitForCrd \/ SetImage \/ WaitForOperator \/ ApplyInstance
  \/ Delete \/ WaitGone \/ Purge

-----------------------------------------------------------------------------
(* The cluster.                                                             *)

\* What a deletion of the resource leaves of it.
Deleted(r) == CASE r = "held" -> "deleting" [] r = "new" -> "absent" [] OTHER -> r

EmptyNamespace ==
  /\ "namespace" \in dying
  /\ \/ \E kind \in Namespaced \cap objects :
          /\ objects' = objects \ {kind}
          /\ image' = IF kind = "deployment" THEN NoImage ELSE image
          /\ UNCHANGED resource
     \/ /\ resource' = Deleted(resource) /\ resource' # resource
        /\ UNCHANGED <<objects, image>>
  /\ UNCHANGED <<dying, pod, operands, script, calls>>

EmptyCrd ==
  /\ "crd" \in dying
  /\ resource' = Deleted(resource) /\ resource' # resource
  /\ UNCHANGED <<objects, dying, image, pod, operands, script, calls>>

Vanish(kind) ==
  /\ kind \in dying
  /\ resource = "absent"
  /\ kind = "namespace" => pod = NoImage /\ Namespaced \cap objects = {}
  /\ objects' = objects \ {kind}
  /\ dying' = dying \ {kind}
  /\ UNCHANGED <<image, pod, resource, operands, script, calls>>

\* No pod is created in a namespace that goes, or without its account.
StartPod ==
  /\ Has("deployment") /\ pod # image
  /\ Alive("namespace") /\ Has("account")
  /\ pod' = image
  /\ UNCHANGED <<objects, dying, image, resource, operands, script, calls>>

StopPod ==
  /\ ~Has("deployment") /\ pod # NoImage
  /\ pod' = NoImage
  /\ UNCHANGED <<objects, dying, image, resource, operands, script, calls>>

-----------------------------------------------------------------------------
(* The operator and the users.                                              *)

Works == pod # NoImage /\ {"account", "binding", "crd"} \subseteq objects

AddFinalizer ==
  /\ Works
  /\ resource = "new"
  /\ resource' = "held"
  /\ UNCHANGED <<objects, dying, image, pod, operands, script, calls>>

\* A pass over a copy that was alive when it was read.
Covered_Any == resource # "absent"
Covered == resource \in {"held", "deleting"}

WriteOperands ==
  /\ Works
  /\ Covered
  /\ ~operands
  /\ operands' = TRUE
  /\ UNCHANGED <<objects, dying, image, pod, resource, script, calls>>

Finalize ==
  /\ Works
  /\ resource = "deleting"
  /\ operands' = FALSE
  /\ resource' = "absent"
  /\ UNCHANGED <<objects, dying, image, pod, script, calls>>

DeleteResource ==
  /\ resource' = Deleted(resource) /\ resource' # resource
  /\ UNCHANGED <<objects, dying, image, pod, operands, script, calls>>

Next ==
  \/ CallDeploy \/ CallUndeploy \/ Interrupt
  \/ ScriptStep
  \/ EmptyNamespace \/ EmptyCrd \/ StartPod \/ StopPod
  \/ \E kind \in Kinds : Vanish(kind)
  \/ AddFinalizer \/ WriteOperands \/ Finalize \/ DeleteResource

Spec == Init /\ [][Next]_vars

\* The script, the API server's controllers and a manager that has its rights
\* go on; nobody has to call, interrupt or delete.
Fairness ==
  /\ WF_vars(ScriptStep)
  /\ WF_vars(EmptyNamespace) /\ WF_vars(EmptyCrd)
  /\ \A kind \in Kinds : WF_vars(Vanish(kind))
  /\ WF_vars(StartPod) /\ WF_vars(StopPod)
  /\ WF_vars(AddFinalizer) /\ WF_vars(Finalize)

FairSpec == Spec /\ Fairness
-----------------------------------------------------------------------------
\* What may be left of steps s.
Rest(s) == {SubSeq(s, i, Len(s)) : i \in 1..Len(s) + 1}

TypeOK ==
  /\ objects \subseteq Kinds
  /\ dying \subseteq objects \cap {"namespace", "crd"}
  /\ image \in Images \cup {NoImage}
  /\ image # NoImage <=> Has("deployment")
  /\ pod \in Images \cup {NoImage}
  /\ resource \in {"absent", "new", "held", "deleting"}
  /\ operands \in BOOLEAN
  /\ script \in [does : {"nothing", "deploy", "undeploy"},
                 steps : Rest(Deploying) \cup Rest(Undeploying),
                 at : 1..Len(Manifests), refused : BOOLEAN, options : Options]
  /\ calls \in 0..MaxCalls

\* However scripts are interrupted and called again, and whenever the operator
\* loses its rights, the cluster-scoped operands never outlive the kind of the
\* resource whose finalizer they need (deploy-ocp.sh:162, controller 62-75).
NothingOutlivesTheKind == operands => Has("crd") /\ resource # "absent"

\* A deploy that waits and does not give up has the manager running the image
\* it was asked for, although oc apply puts the default image back on the way
\* and another deploy may have left its own (deploy-ocp.sh:262-289).
DeployDelivers ==
  [][ Doing("rollout") /\ script.options.wait /\ script'.steps = Tail(script.steps)
      => pod' = script.options.image ]_vars

\* An undeploy that is let run ends with the operator removed, and with --purge
\* with everything, or for ever waits for one thing only: a resource whose
\* finalizer is still there when the operator that takes it off is not
\* (deploy-ocp.sh:53-54, 162-174).
UndeployRemoves ==
  (Doing("delete") /\ script.at = 1 /\ [](script.does = "undeploy"))
    ~> \/ /\ script.steps = <<>> /\ pod = NoImage
          /\ objects \subseteq {"namespace", "crd"}
          /\ script.options.purge => objects = {}
       \/ [](resource = "deleting" /\ ~Works)

-----------------------------------------------------------------------------
(* What the script says and does not do: each is violated.                  *)

\* "--undeploy: Remove the operator (keeps CRD and namespace)"
\* (deploy-ocp.sh:53, 172).
UndeployKeeps ==
  [][ script.does = "undeploy" /\ ~script.options.purge /\ ScriptStep => dying' = dying ]_vars

\* "With --undeploy, also delete the CRD and namespace" (deploy-ocp.sh:54).
PurgeDeletes ==
  (script.does = "undeploy" /\ script.options.purge)
    ~> (script.does # "undeploy" \/ {"crd", "namespace"} \cap objects = {})
================================================================================
