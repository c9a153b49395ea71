------------------------------- MODULE ApplyCall -------------------------------
(***************************************************************************)
(* One object and the calls of internal/operands that keep it: every read, *)
(* write and retry inside one call of apply, applyUnstructured,            *)
(* applyIfMissing, reconcileGeneratedSecret or reconcileSharedPVC.         *)
(*                                                                         *)
(* hist holds the versions of the object, the resourceVersion of each being*)
(* its index: the last one is what the API server holds, hist[seen[p]] what*)
(* the cache of process p shows.  A process that lost the lease may still  *)
(* be in the middle of a call when the next leader starts its own.         *)
(*                                                                         *)
(* A definition named X_Fault is X with a plausible mistake in it; nothing *)
(* uses them.                                                              *)
(***************************************************************************)
EXTENDS Integers, Sequences

CONSTANTS
  Callers,     \* operator processes
  None,        \* no value yet
  Steps,       \* attempts of retry.DefaultBackoff
  MaxForeign,  \* bound: edits and deletions by others
  MaxFaults    \* bound: failed or unanswered requests and changes of leader

ASSUME CallerAssumption == None \notin Callers \X Nat
ASSUME StepsAssumption == Steps \in Nat \ {0}
ASSUME BoundAssumption == MaxForeign \in Nat /\ MaxFaults \in Nat

VARIABLES
  op,        \* which of the calls manages the object; never changes
  hist,      \* the versions of the object so far
  seen,      \* the version each process's cache shows
  leader,    \* the process that holds the lease
  pc,        \* where each process is in its call
  attempt,   \* the attempt RetryOnConflict is at
  rv,        \* resourceVersion set on obj, 0 when none is
  data,      \* what obj takes from its creation: credential, addresses
  foreign,   \* edits and deletions by others so far
  faults     \* faults so far

call == <<pc, attempt, rv, data>>
vars == <<op, hist, seen, leader, call, foreign, faults>>

Server == hist[Len(hist)]

\* The promise (see Implements below).
Values == Callers \X Nat
Contract == INSTANCE ObjectContract WITH object <- Server

Correcting == Contract!Correcting
CreatingOnly == Contract!CreatingOnly

-----------------------------------------------------------------------------
Running == {"lookup", "read", "create", "update"}
Returned == {"done", "failed"}

Version == {Contract!Absent} \cup
           [exists : {TRUE}, spec : {"ours", "other"}, data : Values]

TypeOK ==
  /\ op \in Contract!Ops
  /\ hist \in Seq(Version)
  /\ Len(hist) >= 1
  /\ seen \in [Callers -> Nat]
  /\ \A p \in Callers : seen[p] \in 1 .. Len(hist)
  /\ leader \in Callers
  /\ pc \in [Callers -> Running \cup Returned]
  /\ attempt \in [Callers -> 1 .. Steps]
  /\ rv \in [Callers -> Nat]
  /\ data \in [Callers -> Values \cup {None}]
  /\ foreign \in 0 .. MaxForeign
  /\ faults \in 0 .. MaxFaults

-----------------------------------------------------------------------------
(* The API server.                                                         *)

\* An update that changes nothing does not make a new version.
Store(v) == hist' = IF v = Server THEN hist ELSE Append(hist, v)

\* A value nobody used before: random, or chosen by the API server.
Fresh(p) == <<p, Len(hist)>>

CreatedBy(p) ==
  Contract!Present("ours", IF data[p] = None THEN Fresh(p) ELSE data[p])

UpdatedBy(p) == Contract!Present("ours", data[p])

\* It refuses to create an object that names a resourceVersion.
Creatable(p) == ~Server.exists /\ rv[p] = 0

Conflict(p) == Server.exists /\ rv[p] # Len(hist)

\* It refuses to move a Service to another address.
Acceptable(p) == Server.exists /\ ~Conflict(p) /\ data[p] = Server.data

-----------------------------------------------------------------------------
(* The operator.  The controller-runtime client reads typed objects from   *)
(* the cache and unstructured ones from the API server.                    *)

ReadAt(p) == IF op = "applyUnstructured" THEN Len(hist) ELSE seen[p]

Goto(p, label) == pc' = [pc EXCEPT ![p] = label]

\* The call returns, and obj with it: the next call builds its own.
Return(p, result) ==
  /\ Goto(p, result)
  /\ attempt' = [attempt EXCEPT ![p] = 1]
  /\ rv' = [rv EXCEPT ![p] = 0]
  /\ data' = [data EXCEPT ![p] = None]

others == <<op, seen, leader, foreign, faults>>

\* Only the leader starts calls.  Two of them look before they build obj.
Call(p) ==
  /\ leader = p
  /\ pc[p] \in Returned
  /\ Goto(p, IF op \in {"reconcileGeneratedSecret", "reconcileSharedPVC"}
               THEN "lookup" ELSE "read")
  /\ UNCHANGED <<others, hist, attempt, rv, data>>

\* The value of a Secret is drawn before the Secret is known to be missing.
Lookup(p) ==
  /\ pc[p] = "lookup"
  /\ \/ /\ hist[seen[p]].exists
        /\ Return(p, "done")
     \/ /\ ~hist[seen[p]].exists
        /\ data' = IF op = "reconcileGeneratedSecret"
                     THEN [data EXCEPT ![p] = Fresh(p)] ELSE data
        /\ Goto(p, "read")
        /\ UNCHANGED <<attempt, rv>>
  /\ UNCHANGED <<others, hist>>

\* obj keeps the resourceVersion and the addresses of one attempt in the next.
Adopt_ForgetsAddress(p) ==
  /\ rv' = [rv EXCEPT ![p] = ReadAt(p)]
  /\ UNCHANGED data

Adopt(p) ==
  /\ rv' = [rv EXCEPT ![p] = ReadAt(p)]
  /\ data' = [data EXCEPT ![p] = hist[ReadAt(p)].data]

\* What tells apply and applyUnstructured from the others, once they have read.
Corrects_Always == TRUE
Corrects_Never == FALSE
Corrects == op \in Correcting

Read(p) ==
  /\ pc[p] = "read"
  /\ \/ /\ ~hist[ReadAt(p)].exists
        /\ Goto(p, "create")
        /\ UNCHANGED <<attempt, rv, data>>
     \/ /\ hist[ReadAt(p)].exists /\ ~Corrects
        /\ Return(p, "done")
     \/ /\ hist[ReadAt(p)].exists /\ Corrects
        /\ Goto(p, "update")
        /\ Adopt(p)
        /\ UNCHANGED attempt
  /\ UNCHANGED <<others, hist>>

\* AlreadyExists: fine for the calls that only create.
Tolerates_AnyCall == Server.exists
Tolerates == Server.exists /\ op \in CreatingOnly

Create(p) ==
  /\ pc[p] = "create"
  /\ \/ /\ Creatable(p)
        /\ Store(CreatedBy(p))
        /\ Return(p, "done")
     \/ /\ ~Creatable(p)
        /\ Return(p, IF Tolerates THEN "done" ELSE "failed")
        /\ UNCHANGED hist
  /\ UNCHANGED others

\* RetryOnConflict: apply alone, and as often as the backoff has steps.
Retries_OnceMore(p) == op = "apply" /\ attempt[p] <= Steps
Retries(p) == op = "apply" /\ attempt[p] < Steps

Update(p) ==
  /\ pc[p] = "update"
  /\ \/ /\ Acceptable(p)
        /\ Store(UpdatedBy(p))
        /\ Return(p, "done")
     \/ /\ Conflict(p) /\ Retries(p)
        /\ attempt' = [attempt EXCEPT ![p] = @ + 1]
        /\ Goto(p, "read")
        /\ UNCHANGED <<hist, rv, data>>
     \/ /\ ~Acceptable(p) /\ ~(Conflict(p) /\ Retries(p))
        /\ Return(p, "failed")
        /\ UNCHANGED hist
  /\ UNCHANGED others

-----------------------------------------------------------------------------
(* Around it.                                                              *)

\* A request fails, or it succeeds and the answer is lost.
Fail(p) ==
  /\ pc[p] \in Running
  /\ faults < MaxFaults
  /\ faults' = faults + 1
  /\ \/ UNCHANGED hist
     \/ pc[p] = "create" /\ Creatable(p) /\ Store(CreatedBy(p))
     \/ pc[p] = "update" /\ Acceptable(p) /\ Store(UpdatedBy(p))
  /\ Return(p, "failed")
  /\ UNCHANGED <<op, seen, leader, foreign>>

\* A process starts and takes the lease, the leader itself after a restart; its
\* cache is filled from a replica of the API server that may lag.
Elect(p) ==
  /\ faults < MaxFaults
  /\ faults' = faults + 1
  /\ leader' = p
  /\ seen' \in {[seen EXCEPT ![p] = n] : n \in DOMAIN hist}
  /\ Return(p, "failed")
  /\ UNCHANGED <<op, hist, foreign>>

Catch(p) ==
  /\ seen[p] < Len(hist)
  /\ seen' = [seen EXCEPT ![p] = @ + 1]
  /\ UNCHANGED <<op, hist, leader, call, foreign, faults>>

Foreign ==
  /\ foreign < MaxForeign
  /\ foreign' = foreign + 1
  /\ Server.exists
  /\ \E v \in {Contract!Present("other", Server.data), Contract!Absent} :
       v # Server /\ hist' = Append(hist, v)
  /\ UNCHANGED <<op, seen, leader, call, faults>>

-----------------------------------------------------------------------------
Init ==
  /\ op \in Contract!Ops
  /\ leader \in Callers
  /\ hist \in {<<v>> : v \in {Contract!Absent} \cup
                             {Contract!Present("other", <<p, 0>>) : p \in Callers}}
  /\ seen = [p \in Callers |-> 1]
  /\ pc = [p \in Callers |-> "failed"]
  /\ attempt = [p \in Callers |-> 1]
  /\ rv = [p \in Callers |-> 0]
  /\ data = [p \in Callers |-> None]
  /\ foreign = 0
  /\ faults = 0

Step(p) == Call(p) \/ Lookup(p) \/ Read(p) \/ Create(p) \/ Update(p)

Next ==
  \/ \E p \in Callers : Step(p) \/ Fail(p) \/ Elect(p) \/ Catch(p)
  \/ Foreign

Spec == Init /\ [][Next]_vars

\* The leader polls its resources and every request is answered; a cache that is
\* behind catches up.  The old leader may stop wherever it is.
Fairness ==
  \A p \in Callers : WF_vars(leader = p /\ Step(p)) /\ WF_vars(Catch(p))

FairSpec == Spec /\ Fairness

-----------------------------------------------------------------------------
(* Properties.                                                             *)

\* Whatever the caches show and however the calls of two leaders interleave, the
\* object goes through the steps of the contract: nothing but a deletion takes a
\* generated credential or an assigned address from it, and the calls that only
\* create never touch what is there (apply.go:60, secrets.go:14, shared.go:39).
Implements == Contract!Spec

\* The address apply sends is the one the object has whenever the resourceVersion
\* it sends is current, also after attempts that read other versions (apply.go:45).
AddressIsCurrent ==
  \A p \in Callers :
    pc[p] = "update" /\ rv[p] = Len(hist) => data[p] = Server.data

\* When apply or applyUnstructured returns nil from a write, the object is as the
\* caller wants it at that moment, stale cache and conflicts notwithstanding.
OkIsTrue ==
  [][\A p \in Callers :
       op \in Correcting /\ pc'[p] = "done" /\ pc[p] # "done" =>
         Server'.exists /\ Server'.spec = "ours"]_vars

\* The passes of the leader bring the object about: AlreadyExists, conflicts, four
\* attempts against a cache that lags and a refused creation are only delays.
Settles ==
  <>[](Server.exists /\ (op \in Correcting => Server.spec = "ours"))
===============================================================================
