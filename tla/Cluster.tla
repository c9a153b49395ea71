-------------------------------- MODULE Cluster --------------------------------
(***************************************************************************)
(* A cluster that installs what Release publishes: hack/install-catalog.sh *)
(* or config/olm/catalogsource.yaml create the CatalogSource, OLM pulls the*)
(* catalog image it names, again every ten minutes, and upgrades the       *)
(* operator one version at a time along the channel it finds there.        *)
(***************************************************************************)
EXTENDS Release

VARIABLES
  options,    \* what the administrator asked for: "none" before, "manifest"
              \* for catalogsource.yaml, "default" or "version" for the script
  reference,  \* the catalog tag the CatalogSource names: a version or Stable
  served,     \* the catalog build the cluster serves
  installed   \* the version of the operator the cluster runs

cluster == <<options, reference, served, installed>>
all == <<vars, cluster>>

Stable == Initial + MaxMerges + 1  \* the tag that is no version

\* VERSION="${VERSION:-1.0.1}": the first version of catalog.yaml.
DefaultVersion == 1

Resolved(ref) == IF ref = Stable THEN stable ELSE images["catalog"][ref]
Channel(build) == IF build = Missing THEN {} ELSE builds[build].channel

ClusterInit ==
  /\ Init
  /\ options = "none"
  /\ reference = None
  /\ served = Missing
  /\ installed = None

\* The script gives up when no catalog pod becomes ready; the CatalogSource
\* stays, and OLM goes on pulling.
Create(asked, ref) ==
  /\ options = "none"
  /\ options' = asked
  /\ reference' = ref
  /\ served' = Resolved(ref)
  /\ UNCHANGED <<vars, installed>>

\* Line 103 takes the place of the choice that lines 86-92 made.
InstallCatalog ==
  \/ DefaultVersion \in Versions /\ Create("default", DefaultVersion)
  \/ \E v \in Versions : Create("version", v)

ApplyManifest == Create("manifest", Stable)

Poll ==
  /\ options # "none"
  /\ Resolved(reference) \notin {Missing, served}
  /\ served' = Resolved(reference)
  /\ UNCHANGED <<vars, options, reference, installed>>

\* OLM installs the head of the channel, and what replaces an installed one.
Install ==
  /\ installed = None
  /\ served # Missing
  /\ installed' = Predecessor(Channel(served), Initial + MaxMerges + 1)
  /\ UNCHANGED <<vars, options, reference, served>>

Upgrade ==
  /\ installed # None
  /\ \E v \in Channel(served) :
       Predecessor(Channel(served), v) = installed /\ installed' = v
  /\ UNCHANGED <<vars, options, reference, served>>

ClusterNext ==
  \/ Next /\ UNCHANGED cluster
  \/ InstallCatalog \/ ApplyManifest
  \/ Poll \/ Install \/ Upgrade

ClusterSpec == ClusterInit /\ [][ClusterNext]_all

\* OLM polls and approves by itself; the pipeline goes on as in Release.
ClusterFairness ==
  /\ WF_all(Poll) /\ WF_all(Install) /\ WF_all(Upgrade)

ClusterFairSpec == ClusterSpec /\ ClusterFairness
-----------------------------------------------------------------------------
\* Whatever catalog the cluster took its operator from, and whatever replaced
\* that catalog since, the channel it serves has the installed version: OLM
\* never finds itself with an operator that nothing replaces.  Catalogs built by
\* hand give no such assurance (publish-quay.yml:193-247,
\* generate-olm.py:192-216).
NeverStranded ==
  installed # None /\ contested = {} /\ ~MadeByHand(served) => installed \in Channel(served)

\* A cluster that follows stable gets to the newest release stable offers, from
\* whichever it has, also when that one's job was resumed, as long as no
\* reserved version is built by hand (catalogsource.yaml:8, README.md:21).
FollowsStable ==
  (options = "manifest" /\ stable # Missing)
    ~> \/ installed = Predecessor(StableChannel, Initial + MaxMerges + 1)
       \/ contested # {}

-----------------------------------------------------------------------------
(* What the repository says and the script does not do: violated.           *)

\* "Use ./hack/install-catalog.sh to install the stable catalog" (README.md:21).
DefaultIsStable == options = "default" => reference = Stable
================================================================================
