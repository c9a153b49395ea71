---------------------------- MODULE ObjectContract ----------------------------
(***************************************************************************)
(* What the calls of internal/operands promise of the one object they are  *)
(* about, whoever makes them and however often: it appears as the operator *)
(* wants it, a call that may correct it puts foreign edits right, and what *)
(* it was created with (the generated credential, the addresses the API    *)
(* server assigned) stays the same until somebody deletes it.              *)
(***************************************************************************)
CONSTANTS
  Values,   \* credentials, addresses: what an object keeps from its creation
  None      \* the value of an object that does not exist

VARIABLES
  op,       \* the call that manages the object
  object    \* the object

Correcting == {"apply", "applyUnstructured"}
CreatingOnly == {"applyIfMissing", "reconcileGeneratedSecret", "reconcileSharedPVC"}
Ops == Correcting \cup CreatingOnly

Absent == [exists |-> FALSE, spec |-> "none", data |-> None]
Present(spec, d) == [exists |-> TRUE, spec |-> spec, data |-> d]

Appear ==
  /\ ~object.exists
  /\ object'.data \in Values
  /\ object' = Present("ours", object'.data)

\* Only the calls that update may touch an object that exists.
Correct ==
  /\ op \in Correcting
  /\ object.exists
  /\ object' = Present("ours", object.data)

OthersEdit ==
  /\ object.exists
  /\ object' = Present("other", object.data)

OthersDelete ==
  /\ object.exists
  /\ object' = Absent

Init ==
  /\ op \in Ops
  /\ \/ object = Absent
     \/ object.data \in Values /\ object = Present("other", object.data)

Next == UNCHANGED op /\ (Appear \/ Correct \/ OthersEdit \/ OthersDelete)

Spec == Init /\ [][Next]_<<op, object>>
===============================================================================
