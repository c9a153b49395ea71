----------------------------- MODULE MCReconciler -----------------------------
(* Small instances of ShiftWiseReconciler.                                   *)
EXTENDS ShiftWiseReconciler, TLC

Call(op, obj) == [op |-> op, obj |-> obj]

\* Two resources that share their operands: an object created when missing, a
\* cluster-scoped one and an owned one that is watched.  No StatefulSet.
SharedObjects == {"namespace", "claim", "policy", "service"}
SharedPlan == << Call("applyIfMissing", "claim"), Call("apply", "policy"),
                 Call("apply", "service") >>

\* One resource: a route of an earlier release, a claim that outlives the
\* resource it was created for, and a StatefulSet.
RebornObjects == {"namespace", "oldRoute", "claim", "policy", "db"}
RebornPlan == << Call("deleteIgnoreMissing", "oldRoute"), Call("applyIfMissing", "claim"),
                 Call("apply", "policy"), Call("apply", "db") >>

\* The same without the claim, where the specification is edited.
TinyObjects == {"namespace", "oldRoute", "policy", "db"}
TinyPlan == << Call("deleteIgnoreMissing", "oldRoute"), Call("apply", "policy"),
               Call("apply", "db") >>

Policy == {"policy"}
Cleanups == <<"policy">>
Symmetric == Permutations(CRs)
===============================================================================
