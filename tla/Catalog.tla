-------------------------------- MODULE Catalog --------------------------------
(***************************************************************************)
(* The file-based catalog that hack/generate-olm.py writes: the entries of *)
(* the stable channel, newest first, each with the version it replaces.    *)
(* A version is a natural number; patch numbers only grow.                 *)
(*                                                                         *)
(* A definition named X_Fault is X with a plausible mistake in it; nothing *)
(* uses them.                                                              *)
(***************************************************************************)
EXTENDS Integers, Sequences, FiniteSets

None == 0  \* no version

\* The highest version of S below v: what v replaces in a channel of S.
Predecessor(S, v) ==
  LET highest == {w \in S : w < v /\ \A x \in S : x < v => x <= w}
  IN  IF highest = {} THEN None ELSE CHOOSE w \in highest : TRUE

Names(entries) == {entries[i].name : i \in DOMAIN entries}

PreviousVersion(entries, v) == Predecessor(Names(entries), v)

\* The members of I, each of them once, from low to high by their key.
Arranged(I, key) ==
  CHOOSE order \in [1..Cardinality(I) -> I] :
    /\ \A k \in I : \E i \in DOMAIN order : order[i] = k
    /\ \A i, j \in DOMAIN order : i < j => key[order[i]] <= key[order[j]]

Newest(entries) ==
  LET order == Arranged(DOMAIN entries, [i \in DOMAIN entries |-> -entries[i].name])
  IN  [i \in DOMAIN entries |-> entries[order[i]]]

\* What s has at the places of I, in the order of s.
Picked(s, I) ==
  LET order == Arranged(I, [i \in I |-> i]) IN [i \in 1..Cardinality(I) |-> s[order[i]]]

\* The replaces of every entry is written anew; what they said before is lost.
Relinked_KeepsOld(entries) ==
  [i \in DOMAIN entries |->
     IF entries[i].replaces # None \/ i = Len(entries)
     THEN entries[i]
     ELSE [entries[i] EXCEPT !.replaces = entries[i + 1].name]]
Relinked(entries) ==
  [i \in DOMAIN entries |->
     [name     |-> entries[i].name,
      replaces |-> IF i < Len(entries) THEN entries[i + 1].name ELSE None]]

\* The entries of a channel once version v was generated into it.
ChannelEntries_Truncates(entries, v) ==
  LET others  == Picked(entries, {i \in DOMAIN entries : entries[i].name < v})
      current == [name |-> v, replaces |-> PreviousVersion(entries, v)]
  IN  Relinked(Newest(Append(others, current)))
ChannelEntries(entries, v) ==
  LET others  == Picked(entries, {i \in DOMAIN entries : entries[i].name # v})
      current == [name |-> v, replaces |-> PreviousVersion(entries, v)]
  IN  Relinked(Newest(Append(others, current)))

BundleDocuments_Twice(documents, v) == Append(documents, v)
BundleDocuments(documents, v) ==
  Append(Picked(documents, {i \in DOMAIN documents : documents[i] # v}), v)

\* The CSV files of other versions, which must not go into the bundle image.
Unlinked(manifests, v) == {m \in manifests : m # v}
================================================================================
