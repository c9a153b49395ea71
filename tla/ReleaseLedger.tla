----------------------------- MODULE ReleaseLedger -----------------------------
(***************************************************************************)
(* What publishing promises to whoever pulls a release: versions are only  *)
(* ever added, each for a commit of its own, and an alias only ever moves  *)
(* to a published version of a later commit.  Nothing is promised of a     *)
(* version somebody built by hand while it was reserved.  Tags, builds,    *)
(* queues and jobs that stop half-way do not show.                         *)
(***************************************************************************)
EXTENDS Naturals

CONSTANTS
  Initial,   \* releases there are at the start, of NoSource
  Versions,
  Sources,   \* commits in the order of main
  NoSource,
  Aliases

VARIABLES
  published,  \* [version, source] of every release
  alias,      \* alias[a]: the release an alias names
  contested   \* versions without a promise

ledger == <<published, alias, contested>>

Releases == [version : Versions, source : Sources \cup {NoSource}]
First == [v \in 1..Initial |-> [version |-> v, source |-> NoSource]]
NoRelease == [version |-> 0, source |-> NoSource]

Init ==
  /\ published = {First[v] : v \in 1..Initial}
  /\ alias = [a \in Aliases |-> IF Initial = 0 THEN NoRelease ELSE First[Initial]]
  /\ contested = {}

Publish(r) ==
  /\ r.source # NoSource
  /\ r.version \notin contested
  /\ \A p \in published : p.version # r.version /\ p.source # r.source
  /\ published' = published \cup {r}
  /\ UNCHANGED <<alias, contested>>

Promote(a, r) ==
  /\ r \in published \/ r.version \in contested
  /\ r.source > alias[a].source
  /\ alias' = [alias EXCEPT ![a] = r]
  /\ UNCHANGED <<published, contested>>

\* Whoever pulled version v may get something else from now on.
Contest(v) ==
  /\ contested' = contested \cup {v}
  /\ published' = {p \in published : p.version # v}
  /\ UNCHANGED alias

Next ==
  \/ \E r \in Releases : Publish(r)
  \/ \E a \in Aliases, r \in Releases : Promote(a, r)
  \/ \E v \in Versions : Contest(v)

Ledger == Init /\ [][Next]_ledger
================================================================================
