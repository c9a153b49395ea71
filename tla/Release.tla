-------------------------------- MODULE Release --------------------------------
(***************************************************************************)
(* Publishing a release: .github/workflows/publish-quay.yml and            *)
(* hack/ci-release.py.  Every merge into main starts a workflow run; its   *)
(* publish job waits in one queue, reserves a version tag for the merge    *)
(* commit, pushes three images and moves the aliases latest and stable.    *)
(* A job may stop after any step, with that step's effect in place, and is *)
(* then run again by hand.  Meanwhile a maintainer may push images with    *)
(* hack/install-catalog.sh --build, which asks nobody.                     *)
(*                                                                         *)
(* Merge commits are 1, 2, ... in the order of main, NoSource a commit no  *)
(* merge made.  Version n is the n-th tag.  A build stands for the digests *)
(* of what one job built: its image of each kind.                          *)
(*                                                                         *)
(* A definition named X_Fault is X with a plausible mistake in it; nothing *)
(* uses them.                                                              *)
(***************************************************************************)
EXTENDS Catalog

CONSTANTS
  Initial,        \* releases that were there before this workflow
  Allowed,        \* merge commits of allowed pull requests
  MaxMerges,      \* bound: merges into main
  MaxFaults,      \* bound: jobs that stop or fail their checks
  MaxPullFaults,  \* bound: failed pulls of the stable catalog
  MaxDispatches,  \* bound: runs started by hand
  MaxByHand,      \* bound: calls of install-catalog.sh --build
  MaxSpent        \* bound: all of these four together

Sources == 1..MaxMerges
NoSource == 0

ASSUME InitialAssumption == Initial \in Nat
ASSUME AllowedAssumption == MaxMerges \in Nat /\ Allowed \subseteq Sources
ASSUME BoundAssumption ==
  {MaxFaults, MaxPullFaults, MaxDispatches, MaxByHand, MaxSpent} \subseteq Nat

VARIABLES
  main,      \* merges into main so far: the last one is its head
  tags,      \* tags[v]: the commit version v was reserved for
  builds,    \* what each build holds
  images,    \* images[kind][v]: the build pushed for version v
  shas,      \* shas[kind][s]: the build tagged with commit s
  latest,    \* the build of the operator image latest
  stable,    \* the build of the catalog image stable
  checking,  \* runs of each commit whose tests and scans are under way
  queue,     \* commits whose publish job waits for the concurrency group
  failed,    \* commits with a failed run
  job,       \* the publish job that runs
  spent,     \* faults, pull faults, dispatches and calls of --build so far
  hand,      \* the call of --build that runs: its version, build and next image
  checkout,  \* the channel of catalog.yaml in the maintainer's checkout
  contested  \* history: versions that --build made while they were reserved

registry == <<builds, images, shas, latest, stable>>
runs == <<checking, queue, failed>>
manual == <<hand, checkout, contested>>
vars == <<main, tags, registry, runs, job, spent, manual>>

Kinds == {"operator", "bundle", "catalog"}
Versions == 1..(Initial + MaxMerges)
Missing == 0  \* an image or alias the registry does not have

\* The order of `for kind in operator bundle catalog`, and of the script.
PushOrder_CatalogFirst == <<"catalog", "bundle", "operator">>
PushOrder == <<"operator", "bundle", "catalog">>

Idle ==
  [pc |-> "idle", source |-> NoSource, version |-> None, existing |-> {},
   channel |-> {}, build |-> Missing, kind |-> 1]

\* The stable channel of catalog.yaml in the source tree.
CheckedIn == 1..Initial

NoHand == [version |-> None, build |-> Missing, kind |-> 1]

Pushed(kind, v) == images[kind][v] # Missing
Complete(v) == \A kind \in Kinds : Pushed(kind, v)
StableChannel == IF stable = Missing THEN {} ELSE builds[stable].channel

-----------------------------------------------------------------------------
Init ==
  /\ main = 0
  /\ tags = [v \in 1..Initial |-> NoSource]
  /\ builds = [v \in 1..Initial |->
                 [source |-> NoSource, version |-> v,
                  replaces |-> Predecessor(1..Initial, v), channel |-> 1..v]]
  /\ images = [kind \in Kinds |->
                 [v \in Versions |-> IF v <= Initial THEN v ELSE Missing]]
  /\ shas = [kind \in Kinds |-> [s \in Sources |-> Missing]]
  /\ latest = Initial
  /\ stable = Initial
  /\ checking = [s \in Sources |-> 0]
  /\ queue = <<>>
  /\ failed = {}
  /\ job = Idle
  /\ spent = [faults |-> 0, pulls |-> 0, dispatches |-> 0, byHand |-> 0]
  /\ hand = NoHand
  /\ checkout = CheckedIn
  /\ contested = {}

Spend(what, bound) ==
  /\ spent[what] < bound
  /\ spent.faults + spent.pulls + spent.dispatches + spent.byHand < MaxSpent
  /\ spent' = [spent EXCEPT ![what] = @ + 1]

-----------------------------------------------------------------------------
(* The runs of the workflow, and who starts them.                           *)

Merge ==
  /\ main < MaxMerges
  /\ main' = main + 1
  /\ checking' = [checking EXCEPT ![main + 1] = @ + 1]
  /\ UNCHANGED <<tags, registry, queue, failed, job, spent, manual>>

\* Run workflow, with a source to resume or with the head of main.  The source is
\* any commit somebody types, a merge commit of the merge queue that main does
\* not have yet too: only the publish job asks.
Dispatch(s) ==
  /\ Spend("dispatches", MaxDispatches)
  /\ checking' = [checking EXCEPT ![s] = @ + 1]
  /\ UNCHANGED <<main, tags, registry, queue, failed, job, manual>>

Rerun(s) ==
  /\ s \in failed
  /\ failed' = failed \ {s}
  /\ checking' = [checking EXCEPT ![s] = @ + 1]
  /\ UNCHANGED <<main, tags, registry, queue, job, spent, manual>>

\* queue: max keeps every waiting job; without it GitHub keeps the last one.
Enqueued_LastOnly(s) == <<s>>
Enqueued(s) == Append(queue, s)

ChecksPass(s) ==
  /\ checking[s] > 0
  /\ checking' = [checking EXCEPT ![s] = @ - 1]
  /\ queue' = Enqueued(s)
  /\ UNCHANGED <<main, tags, registry, failed, job, spent, manual>>

ChecksFail(s) ==
  /\ checking[s] > 0
  /\ Spend("faults", MaxFaults)
  /\ checking' = [checking EXCEPT ![s] = @ - 1]
  /\ failed' = failed \cup {s}
  /\ UNCHANGED <<main, tags, registry, queue, job, manual>>

Start ==
  /\ job.pc = "idle"
  /\ queue # <<>>
  /\ job' = [Idle EXCEPT !.pc = "reserve", !.source = Head(queue)]
  /\ queue' = Tail(queue)
  /\ UNCHANGED <<main, tags, registry, checking, failed, spent, manual>>

\* A step fails, the runner is lost or the 90 minutes are over.
Stop ==
  /\ job.pc # "idle"
  /\ Spend("faults", MaxFaults)
  /\ job' = Idle
  /\ failed' = failed \cup {job.source}
  /\ UNCHANGED <<main, tags, registry, checking, queue, manual>>

\* The job ends itself with an error.
Refuse ==
  /\ job' = Idle
  /\ failed' = failed \cup {job.source}
  /\ UNCHANGED <<main, tags, registry, checking, queue, spent, manual>>

-----------------------------------------------------------------------------
(* The steps of the publish job.                                            *)

NextVersion == Len(tags) + 1

\* The tags that carry the marker of commit s.
Reserved_Never(s) == {}
Reserved(s) == {v \in DOMAIN tags : tags[v] = s}

Releasable(s) ==
  /\ s <= main
  /\ s \in Allowed
  /\ \A v, w \in Reserved(s) : v = w

Reserve ==
  /\ job.pc = "reserve"
  /\ Releasable(job.source)
  /\ IF Reserved(job.source) = {}
     THEN /\ tags' = Append(tags, job.source)
          /\ job' = [job EXCEPT !.pc = "load", !.version = NextVersion]
          /\ contested' = contested \cup ({NextVersion} \cap {hand.version})
     ELSE /\ \E v \in Reserved(job.source) : job' = [job EXCEPT !.pc = "load", !.version = v]
          /\ UNCHANGED <<tags, contested>>
  /\ UNCHANGED <<main, registry, runs, spent, hand, checkout>>

RefuseSource ==
  /\ job.pc = "reserve"
  /\ ~Releasable(job.source)
  /\ Refuse

\* The labels of an image name the commit and the version it was built for.
Provenance(kind) ==
  /\ builds[images[kind][job.version]].source = job.source
  /\ builds[images[kind][job.version]].version = job.version

\* What Quay answers: an image, "manifest unknown", or an error (Stop).
Existing_ErrorIsMissing == {}
Existing == {kind \in Kinds : Pushed(kind, job.version)}

LoadExisting ==
  /\ job.pc = "load"
  /\ \A kind \in Existing : Provenance(kind)
  /\ job' = [job EXCEPT !.pc = "history", !.existing = Existing]
  /\ UNCHANGED <<main, tags, registry, runs, spent, manual>>

RefuseImages ==
  /\ job.pc = "load"
  /\ \E kind \in Existing : ~Provenance(kind)
  /\ Refuse

\* The version whose catalog image takes the place of stable when that cannot
\* be pulled.
Fallback == Predecessor(CheckedIn, job.version)

History_CheckedIn == CheckedIn
History == StableChannel

PullStable ==
  /\ job.pc = "history"
  /\ stable # Missing
  /\ job' = [job EXCEPT !.pc = "build", !.channel = History]
  /\ UNCHANGED <<main, tags, registry, runs, spent, manual>>

\* docker pull fails: there is no stable yet, or the registry did not answer.
PullFallback ==
  /\ job.pc = "history"
  /\ \/ stable = Missing /\ UNCHANGED spent
     \/ stable # Missing /\ Spend("pulls", MaxPullFaults)
  /\ job' = [job EXCEPT !.pc = "build",
               !.channel = IF Fallback = None THEN CheckedIn
                           ELSE builds[images["catalog"][Fallback]].channel]
  /\ UNCHANGED <<main, tags, registry, runs, manual>>

\* generate-olm.py, then one image of each kind Quay does not have yet.
Generated_ByNumber ==
  [source |-> job.source, version |-> job.version,
   replaces |-> job.version - 1, channel |-> job.channel \cup {job.version}]
Generated ==
  [source |-> job.source, version |-> job.version,
   replaces |-> Predecessor(job.channel, job.version),
   channel |-> job.channel \cup {job.version}]

Build ==
  /\ job.pc = "build"
  /\ IF job.existing = Kinds
     THEN /\ job' = [job EXCEPT !.pc = "image"]
          /\ UNCHANGED builds
     ELSE /\ job' = [job EXCEPT !.pc = "image", !.build = Len(builds) + 1]
          /\ builds' = Append(builds, Generated)
  /\ UNCHANGED <<main, tags, images, shas, latest, stable, runs, spent, manual>>

PushImage ==
  LET kind == PushOrder[job.kind] IN
  /\ job.pc = "image"
  /\ images' = IF kind \in job.existing THEN images
               ELSE [images EXCEPT ![kind][job.version] = job.build]
  /\ job' = [job EXCEPT !.pc = "sha"]
  /\ UNCHANGED <<main, tags, builds, shas, latest, stable, runs, spent, manual>>

\* The commit tag is put on what the version tag is now, not on the build;
\* the aliases then name the digests read here.
Digest_OfBuild(kind) == job.build
Digest(kind) == images[kind][job.version]

PushSha ==
  LET kind == PushOrder[job.kind] IN
  /\ job.pc = "sha"
  /\ shas' = [shas EXCEPT ![kind][job.source] = Digest(kind)]
  /\ job' = IF job.kind < Len(PushOrder)
            THEN [job EXCEPT !.pc = "image", !.kind = @ + 1]
            ELSE [job EXCEPT !.pc = "aliases"]
  /\ UNCHANGED <<main, tags, builds, images, latest, stable, runs, spent, manual>>

IsCurrent_HighestOnly == job.version = Len(tags)
IsCurrent_NothingNew == /\ main = job.source
                        /\ job.version = Len(tags)
                        /\ job.build # Missing
IsCurrent ==
  /\ main = job.source
  /\ job.version = Len(tags)

CheckAliases ==
  /\ job.pc = "aliases"
  /\ job' = IF IsCurrent THEN [job EXCEPT !.pc = "latest"] ELSE Idle
  /\ UNCHANGED <<main, tags, registry, runs, spent, manual>>

PushLatest ==
  /\ job.pc = "latest"
  /\ latest' = shas["operator"][job.source]
  /\ job' = [job EXCEPT !.pc = "stable"]
  /\ UNCHANGED <<main, tags, builds, images, shas, stable, runs, spent, manual>>

PushStable ==
  /\ job.pc = "stable"
  /\ stable' = shas["catalog"][job.source]
  /\ job' = Idle
  /\ UNCHANGED <<main, tags, builds, images, shas, latest, runs, spent, manual>>

JobStep ==
  \/ Reserve \/ RefuseSource
  \/ LoadExisting \/ RefuseImages
  \/ PullStable \/ PullFallback
  \/ Build \/ PushImage \/ PushSha
  \/ CheckAliases \/ PushLatest \/ PushStable

-----------------------------------------------------------------------------
(* install-catalog.sh --build, one call at a time, each of any version.     *)

\* generate-olm.py adds the version to catalog.yaml of the checkout, which the
\* maintainer may have put back before; the images carry no release labels.
GenerateByHand(v) ==
  /\ hand = NoHand
  /\ Spend("byHand", MaxByHand)
  /\ \E held \in {checkout, CheckedIn} :
       /\ checkout' = held \cup {v}
       /\ builds' = Append(builds,
            [source |-> NoSource, version |-> v,
             replaces |-> Predecessor(held, v), channel |-> held \cup {v}])
  /\ hand' = [version |-> v, build |-> Len(builds) + 1, kind |-> 1]
  /\ contested' = contested \cup ({v} \cap DOMAIN tags)
  /\ UNCHANGED <<main, tags, images, shas, latest, stable, runs, job>>

\* Each image is built and pushed in turn, over whatever the registry has.
PushByHand ==
  /\ hand # NoHand
  /\ images' = [images EXCEPT ![PushOrder[hand.kind]][hand.version] = hand.build]
  /\ hand' = IF hand.kind < Len(PushOrder) THEN [hand EXCEPT !.kind = @ + 1] ELSE NoHand
  /\ UNCHANGED <<main, tags, builds, shas, latest, stable, runs, job, spent,
                 checkout, contested>>

\* A build or a push fails, or the maintainer gives up.
StopByHand ==
  /\ hand # NoHand
  /\ hand' = NoHand
  /\ UNCHANGED <<main, tags, registry, runs, job, spent, checkout, contested>>

ByHand == PushByHand \/ StopByHand \/ \E v \in Versions : GenerateByHand(v)

Next ==
  \/ Merge
  \/ \E s \in Sources :
       Dispatch(s) \/ Rerun(s) \/ ChecksPass(s) \/ ChecksFail(s)
  \/ Start \/ Stop
  \/ JobStep
  \/ ByHand

Spec == Init /\ [][Next]_vars

\* GitHub runs what it was given; whoever reads the README reruns the failed
\* releases of allowed pull requests.
Fairness ==
  /\ WF_vars(Start)
  /\ WF_vars(JobStep)
  /\ \A s \in Sources : WF_vars(ChecksPass(s))
  /\ \A s \in Allowed : WF_vars(Rerun(s))

FairSpec == Spec /\ Fairness
-----------------------------------------------------------------------------
Source(build) == IF build = Missing THEN NoSource ELSE builds[build].source
Version(build) == IF build = Missing THEN None ELSE builds[build].version

\* All three images of version v come from the commit v was reserved for.
Published(v) ==
  \A kind \in Kinds : Pushed(kind, v) /\ Source(images[kind][v]) = tags[v]

Releases ==
  {[version |-> v, source |-> tags[v]] : v \in {w \in DOMAIN tags \ contested : Published(w)}}

\* What an alias names: the version of its build, and the commit of that.
ReleaseOf(build) ==
  [version |-> Version(build),
   source  |-> IF Version(build) \in DOMAIN tags THEN tags[Version(build)] ELSE NoSource]
AliasNames == {"latest", "stable"}
AliasedBuild == [latest |-> latest, stable |-> stable]

\* A build of install-catalog.sh, and a version it made.
MadeByHand(build) == build > Initial /\ builds[build].source = NoSource
VersionByHand(v) == \E build \in DOMAIN builds : MadeByHand(build) /\ builds[build].version = v

Promise == INSTANCE ReleaseLedger WITH
  Aliases   <- AliasNames,
  published <- Releases,
  alias     <- [a \in AliasNames |-> ReleaseOf(AliasedBuild[a])]

-----------------------------------------------------------------------------
BuildIds == DOMAIN builds
MaybeBuilt == BuildIds \cup {Missing}
Steps == {"idle", "reserve", "load", "history", "build", "image", "sha",
          "aliases", "latest", "stable"}

TypeOK ==
  /\ main \in 0..MaxMerges
  /\ tags \in Seq(Sources \cup {NoSource}) /\ DOMAIN tags \subseteq Versions
  /\ builds \in Seq([source : Sources \cup {NoSource}, version : Versions,
                     replaces : Versions \cup {None}, channel : SUBSET Versions])
  /\ images \in [Kinds -> [Versions -> MaybeBuilt]]
  /\ shas \in [Kinds -> [Sources -> MaybeBuilt]]
  /\ latest \in MaybeBuilt
  /\ stable \in MaybeBuilt
  /\ checking \in [Sources -> Nat]
  /\ queue \in Seq(Sources)
  /\ failed \subseteq Sources
  /\ job \in [pc : Steps, source : Sources \cup {NoSource}, version : Versions \cup {None},
              existing : SUBSET Kinds, channel : SUBSET Versions, build : MaybeBuilt,
              kind : DOMAIN PushOrder]
  /\ spent \in [{"faults", "pulls", "dispatches", "byHand"} -> Nat]
  /\ hand \in [version : Versions \cup {None}, build : MaybeBuilt, kind : DOMAIN PushOrder]
  /\ checkout \subseteq Versions
  /\ contested \subseteq DOMAIN tags

\* Reruns, dispatches and jobs that stop after pushing their tag never make
\* one commit two releases (README.md:15, ci-release.py:47-59).
OneVersionPerSource ==
  \A v, w \in DOMAIN tags : tags[v] = tags[w] /\ tags[v] # NoSource => v = w

\* Once a version is reserved, none of its images is ever replaced: not by a
\* rerun whose build differs, nor where somebody pushed the version by hand
\* before.  Only a --build of the version itself that runs while it is reserved
\* breaks that (publish-quay.yml:171-191, 370-372, install-catalog.sh:114-126).
Immutable ==
  [][\A kind \in Kinds, v \in DOMAIN tags \ contested' :
       Pushed(kind, v) => images'[kind][v] = images[kind][v]]_vars

\* The commit tag names an image built from that commit, and the same one as
\* the version tag, even when the job that pushes it built another; again but
\* for a version built by hand while it is reserved (publish-quay.yml:182,
\* 373-377).
ShaAgrees ==
  \A kind \in Kinds, s \in Sources :
    LET tagged == shas[kind][s] IN
      tagged # Missing /\ Version(tagged) \notin contested =>
        Source(tagged) = s /\ images[kind][Version(tagged)] = tagged

\* Whoever pulls any catalog image, a half-published one included, finds the
\* bundle and the operator of every version it offers.  The exception is an
\* earlier --build that stopped: catalog.yaml of its checkout keeps the version
\* and the next catalog made there offers it; a catalog of the workflow only
\* does once a reserved version was built by hand (publish-quay.yml:363,
\* install-catalog.sh:109-126, generate-olm.py:306-310).
OffersOnlyPushed ==
  \A v \in Versions :
    LET catalog == images["catalog"][v] IN
      catalog # Missing =>
        \A w \in builds[catalog].channel :
          \/ Pushed("bundle", w) /\ Pushed("operator", w)
          \/ /\ w # v /\ VersionByHand(w)
             /\ MadeByHand(catalog) \/ contested # {}

\* The whole workflow, with its queue, crashes, reruns and hand-made images,
\* implements the promise: published versions stay and belong to one commit
\* each, and latest and stable only move to a published version of a later
\* commit, though jobs run in another order than main; it promises nothing of
\* a version built by hand while it is reserved (publish-quay.yml:381).
Implements == Promise!Ledger

\* An upgrade path once offered by stable stays: nobody's installed version
\* falls out of the channel (publish-quay.yml:193-247).
ChannelKept == [][contested = {} => StableChannel \subseteq builds'[stable'].channel]_stable

\* OLM reads what a version replaces from its bundle, the catalog says it in
\* its channel.  They are written at different times and, after a job that
\* stopped between the two, by different jobs; stable never shows a
\* disagreement (generate-olm.py:125-130, 208-216).
PathsAgree ==
  contested = {} =>
    \A v \in StableChannel :
      builds[images["bundle"][v]].replaces = Predecessor(StableChannel, v)

\* Version v has an image somebody pushed by hand: every job of its commit that
\* finds it refuses it, for good.
Taken(v) == \E kind \in Kinds : Pushed(kind, v) /\ Source(images[kind][v]) # tags[v]

\* Every merge of an allowed pull request ends up published, whatever stops
\* its jobs, once they are rerun; only a version taken by hand keeps it from
\* that (README.md:11, 15, publish-quay.yml:182).
EveryMergeReleased ==
  \A s \in Allowed :
    main >= s ~> \E v \in DOMAIN tags : tags[v] = s /\ (Published(v) \/ Taken(v))

\* When the head of main holds the highest version and nobody took it by hand,
\* latest and stable end up there, also when a job stopped after its last image
\* or between the two pushes (publish-quay.yml:394-398).
CurrentPromoted ==
  (main # 0 /\ main \in Allowed
     /\ [](tags # <<>> /\ tags[Len(tags)] = main /\ ~Taken(Len(tags))))
    ~> (Source(latest) = main /\ Source(stable) = main)
-----------------------------------------------------------------------------
(* What the repository says and the workflow does not do: each is violated. *)

\* "To recover from a failed release, rerun its workflow" (README.md:15): with
\* every merge allowed and every failed job rerun, latest gets to the head of
\* main.
HeadBecomesLatest == <>[](Source(latest) = main)

\* "--version X.Y.Z to pin a specific catalog version" (README.md:21): the
\* catalog image of a version offers nothing newer than that version.
PinnedOffersNothingNewer ==
  \A v \in DOMAIN tags :
    Pushed("catalog", v) => \A w \in builds[images["catalog"][v]].channel : w <= v
================================================================================
