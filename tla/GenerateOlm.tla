------------------------------ MODULE GenerateOlm ------------------------------
(***************************************************************************)
(* hack/generate-olm.py run again and again in one checkout, for versions  *)
(* in any order: a new release, an earlier one resumed, the same one twice,*)
(* over a catalog whose entries somebody may have edited by hand.          *)
(***************************************************************************)
EXTENDS Catalog

CONSTANT Versions

ASSUME VersionsAssumption == Versions \subseteq Nat \ {None}

VARIABLES
  entries,    \* the stable channel in catalog.yaml
  documents,  \* its olm.bundle documents, by version
  manifests,  \* the CSV files in bundle/manifests
  replaces,   \* what the CSV generated last replaces
  last        \* the version generated last, None before the first

vars == <<entries, documents, manifests, replaces, last>>

Orders(S) == {s \in [1..Cardinality(S) -> S] : {s[i] : i \in DOMAIN s} = S}

\* The checked-in catalog: versions in any order, each with a bundle, and
\* whatever replaces a merge or an edit left behind.
Init ==
  /\ \E S \in {R \in SUBSET Versions : IsFiniteSet(R)} :
       \E order \in Orders(S), before \in S \cup {None} :
         /\ entries = [i \in DOMAIN order |-> [name |-> order[i], replaces |-> before]]
         /\ documents = order
         /\ manifests \in SUBSET S
  /\ replaces = None
  /\ last = None

Generate(v) ==
  /\ replaces' = PreviousVersion(entries, v)
  /\ manifests' = (manifests \ Unlinked(manifests, v)) \cup {v}
  /\ entries' = ChannelEntries(entries, v)
  /\ documents' = BundleDocuments(documents, v)
  /\ last' = v

Next == \E v \in Versions : Generate(v)

Spec == Init /\ [][Next]_vars

-----------------------------------------------------------------------------
\* Whatever the catalog said before and in whatever order versions are
\* generated, the channel is one chain: newest first, no version twice, each
\* replacing the next lower one the channel has; and the bundle generated last,
\* whose replaces is computed elsewhere from another list, agrees with it, also
\* when it is generated for the second time (generate-olm.py:104-130, 208-216).
OneChain ==
  last # None =>
    /\ \A i, j \in DOMAIN entries : i < j => entries[i].name > entries[j].name
    /\ \A i \in DOMAIN entries :
         /\ entries[i].replaces = Predecessor(Names(entries), entries[i].name)
         /\ entries[i].name = last => entries[i].replaces = replaces

\* Nothing in the images is refused: each channel entry has one bundle, though
\* the two lists are kept apart by different filters, and the bundle image,
\* which copies bundle/manifests whole, has one CSV (generate-olm.py:192-203,
\* 283-285).
Bundled ==
  /\ Names(entries) = {documents[i] : i \in DOMAIN documents}
  /\ Len(entries) = Len(documents)
  /\ last # None => manifests = {last}

\* Resuming an earlier release never drops the later ones from the channel.
NothingLost == [][Names(entries) \subseteq Names(entries')]_vars
================================================================================
