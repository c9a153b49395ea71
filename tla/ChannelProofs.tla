----------------------------- MODULE ChannelProofs -----------------------------
(***************************************************************************)
(* Proofs about the channel that stable offers, for any number of merges,  *)
(* jobs that stop, reruns and hand-made images, as long as the stable      *)
(* catalog can be pulled and no reserved version was made by hand.  Stable *)
(* does not move while a job runs, until that job moves it; so a catalog   *)
(* is built from what stable offered last.                                 *)
(*   No upgrade path is lost: a catalog that a job left behind takes the   *)
(* place of stable only if no later commit's catalog did so before         *)
(* (Extends).                                                              *)
(*   Bundle and channel say the same: the newest version is the only one   *)
(* that stable may still gain, and all that its jobs left behind was built *)
(* from what stable offers (Tip).                                          *)
(***************************************************************************)
EXTENDS ReleaseProofs

\* The catalog of a release, not one made by hand or before this workflow.
Catalogued(v) == Pushed("catalog", v) /\ Source(images["catalog"][v]) \in Sources

\* What may take the place of stable offers all that stable offers.
Extends ==
  \A v \in Versions :
    Catalogued(v) /\ Source(stable) <= Source(images["catalog"][v]) =>
      StableChannel \subseteq builds[images["catalog"][v]].channel

\* The job works from what stable offers ...
Works ==
  /\ job.pc = "build" => StableChannel \subseteq job.channel
  /\ job.pc \in {"image", "sha"} /\ job.existing # Kinds =>
       StableChannel \subseteq builds[job.build].channel

\* ... and moves the aliases only when no later commit has a catalog.
Last ==
  job.pc \in {"latest", "stable"} =>
    \A v \in Versions : Catalogued(v) => Source(images["catalog"][v]) <= job.source

Kept == Extends /\ Works /\ Last

LEMMA KeptInit == Init => Kept
<1> SUFFICES ASSUME Init
             PROVE  Kept
  OBVIOUS
<1>1. ASSUME NEW v \in Versions, Pushed("catalog", v)
      PROVE  Source(images["catalog"][v]) = NoSource
  <2>1. images["catalog"][v] = v /\ v \in 1..Initial
    BY <1>1, InitialAssumption DEF Init, Kinds, Pushed, Versions
  <2> QED
    BY <2>1 DEF Init, Source
<1>2. \A v \in Versions : ~Catalogued(v)
  BY <1>1, AllowedAssumption DEF Catalogued, Sources, NoSource
<1> QED
  BY <1>2 DEF Kept, Extends, Works, Last, Init, Idle

\* While stable stays, what it offers and where it is from stay.
LEMMA StableStays ==
  ASSUME IInv, [Next]_vars, stable' = stable
  PROVE  StableChannel' = StableChannel /\ Source(stable)' = Source(stable)
BY NextGrows, TypeParts DEF IInv, RegistryType, MaybeBuilt, Grow, StableChannel, Source

LEMMA StableMoves ==
  ASSUME IInv, [Next]_vars, stable' # stable
  PROVE  PushStable
BY HandLeaves
   DEF Next, vars, registry, JobStep, Merge, Dispatch, Rerun, ChecksPass, ChecksFail, Start, Stop,
       Reserve, RefuseSource, LoadExisting, RefuseImages, Refuse, PullStable, PullFallback, Build,
       PushImage, PushSha, CheckAliases, PushLatest

\* While nobody contests a version, nobody did.
LEMMA StillUncontested ==
  ASSUME IInv, [Next]_vars, contested' = {}
  PROVE  contested = {}
BY Contests

\* A catalog of a release was there before, or is the job's own.
LEMMA CatalogNext ==
  ASSUME IInv, [Next]_vars, NEW v \in Versions, Catalogued(v)'
  PROVE  \/ /\ Catalogued(v)
            /\ Source(images["catalog"][v])' = Source(images["catalog"][v])
            /\ builds'[images'["catalog"][v]].channel = builds[images["catalog"][v]].channel
         \/ /\ PushImage
            /\ Source(images["catalog"][v])' = job.source
            /\ images'["catalog"][v] = job.build
            /\ job.existing # Kinds
<1>0. TypeOK /\ Grow /\ RegistryType /\ "catalog" \in Kinds
  BY NextGrows, TypeParts DEF IInv, Kinds
<1>1. CASE images'["catalog"][v] = images["catalog"][v]
  <2>1. PICK b \in BuildIds : b = images["catalog"][v] /\ b = images'["catalog"][v] /\ b # Missing
    BY <1>0, <1>1 DEF Catalogued, Pushed, RegistryType, MaybeBuilt
  <2>2. builds'[b] = builds[b]
    BY <1>0, <2>1 DEF Grow
  <2> QED
    BY <2>1, <2>2 DEF Catalogued, Pushed, Source
<1>2. CASE images'["catalog"][v] # images["catalog"][v]
  BY <1>0, <1>2, NewImage, AllowedAssumption DEF Catalogued, Sources, NoSource
<1> QED
  BY <1>1, <1>2

\* The catalog that takes the place of stable is of the job's commit, and no
\* other catalog is.
LEMMA TakesPlace ==
  ASSUME IInv, contested = {}, job.pc \in {"latest", "stable"}
  PROVE  /\ job.version \in Versions
         /\ shas["catalog"][job.source] = images["catalog"][job.version]
         /\ Catalogued(job.version)
         /\ Source(images["catalog"][job.version]) = job.source
         /\ Source(stable) <= job.source
         /\ \A v \in Versions :
              Catalogued(v) /\ Source(images["catalog"][v]) = job.source => v = job.version
<1>1. /\ shas["catalog"][job.source] = images["catalog"][job.version]
      /\ images["catalog"][job.version] # Missing
      /\ Source(images["catalog"][job.version]) = job.source
      /\ job.version \in DOMAIN tags /\ tags[job.version] = job.source
      /\ job.source \in Sources
  BY JobsRelease DEF Kinds
<1>2. job.version \in Versions
  BY <1>1, TypeParts DEF IInv, MainType
<1>3. ASSUME NEW v \in Versions, Catalogued(v), Source(images["catalog"][v]) = job.source
      PROVE  v = job.version
  <2>1. v \in DOMAIN tags /\ tags[v] = job.source /\ job.source # NoSource
    BY <1>1, <1>3, AllowedAssumption DEF IInv, Labelled, Catalogued, Kinds, Sources, NoSource
  <2> QED
    BY <1>1, <2>1 DEF IInv, Tagged, OneVersionPerSource
<1>4. Source(stable) <= job.source
  <2>1. TypeOK /\ stable \in MaybeBuilt /\ Aliased(stable) /\ Commit(stable) <= job.source
    BY TypeParts DEF IInv, RegistryType, Promoted, Aliased
  <2>2. CASE stable = Missing
    BY <1>1, <2>2, AllowedAssumption DEF Source, Sources, NoSource
  <2>3. CASE stable # Missing
    <3>1. Version(stable) \in DOMAIN tags /\ Source(stable) = tags[Version(stable)]
      BY <2>1, <2>3 DEF Aliased
    <3> QED
      BY <2>1, <3>1, CommitType
  <2> QED
    BY <2>2, <2>3
<1> QED
  BY <1>1, <1>2, <1>3, <1>4 DEF Catalogued, Pushed

LEMMA ExtendsNext ==
  ASSUME IInv, Kept, [Next]_vars, contested = {}
  PROVE  Extends'
<1> SUFFICES ASSUME NEW v \in Versions, Catalogued(v)',
                    Source(stable)' <= Source(images["catalog"][v])'
             PROVE  StableChannel' \subseteq builds'[images'["catalog"][v]].channel
  BY DEF Extends
<1>1. CASE stable' = stable
  <2>1. StableChannel' = StableChannel /\ Source(stable)' = Source(stable)
    BY <1>1, StableStays
  <2>2. CASE Catalogued(v) /\ Source(images["catalog"][v])' = Source(images["catalog"][v])
             /\ builds'[images'["catalog"][v]].channel = builds[images["catalog"][v]].channel
    BY <2>1, <2>2 DEF Kept, Extends
  <2>3. CASE PushImage /\ images'["catalog"][v] = job.build /\ job.existing # Kinds
    BY <2>1, <2>3 DEF Kept, Works, PushImage
  <2> QED
    BY <2>2, <2>3, CatalogNext
<1>2. CASE PushStable
  <2>1. /\ job.pc = "stable" /\ UNCHANGED <<images, builds>>
        /\ stable' = images["catalog"][job.version]
    BY <1>2, TakesPlace DEF PushStable
  <2>2. /\ Catalogued(v)
        /\ Source(images["catalog"][v])' = Source(images["catalog"][v])
        /\ Source(stable)' = Source(images["catalog"][job.version])
    BY <2>1 DEF Catalogued, Pushed, Source
  <2>3. Source(images["catalog"][job.version]) = job.source
    BY <2>1, TakesPlace
  <2>4. Source(images["catalog"][v]) <= job.source
    BY <2>1, <2>2 DEF Kept, Last
  <2>5. job.source \in Nat /\ Source(images["catalog"][v]) \in Nat
    BY <2>1, <2>2, TakesPlace, AllowedAssumption DEF Catalogued, Sources
  <2>6. Source(images["catalog"][v]) = job.source
    BY <2>2, <2>3, <2>4, <2>5
  <2>7. v = job.version
    BY <2>1, <2>2, <2>6, TakesPlace
  <2> QED
    BY <2>1, <2>7 DEF StableChannel
<1> QED
  BY <1>1, <1>2, StableMoves

LEMMA BuiltFrom ==
  ASSUME IInv, Build, job.existing # Kinds
  PROVE  builds'[job'.build] = Generated
<1>0. TypeOK /\ job \in JobRecord(MaybeBuilt)
  BY TypeParts DEF IInv
<1>1. /\ job' = [job EXCEPT !.pc = "image", !.build = Len(builds) + 1]
      /\ builds' = Append(builds, Generated)
  BY DEF Build
<1>2. Generated \in BuildRecord
  BY <1>0, VersionType, GeneratedType DEF Build, AfterReserve, AfterLoad
<1>3. builds'[Len(builds) + 1] = Generated
  BY <1>0, <1>1, <1>2, Appended
<1> QED
  BY <1>0, <1>1, <1>3 DEF JobRecord

\* With no failed pull, the fallback is taken only when there is no stable.
LEMMA WorksNext ==
  ASSUME IInv, Kept, [Next]_vars, MaxPullFaults = 0
  PROVE  Works'
<1>0. /\ TypeOK /\ Grow /\ RegistryType /\ job \in JobRecord(MaybeBuilt)
      /\ spent["pulls"] \in Nat
  BY TypeParts, NextGrows DEF IInv, RunsType
<1>1. CASE stable' # stable
  BY <1>1, StableMoves DEF PushStable, Idle, Works
<1>2. CASE stable' = stable /\ UNCHANGED job
  <2>1. StableChannel' = StableChannel
    BY <1>2, StableStays
  <2>2. job.pc \in {"image", "sha"} /\ job.existing # Kinds =>
          builds'[job.build] = builds[job.build]
    BY <1>0 DEF IInv, Prepared, AfterLoad, Grow, BuildIds
  <2> QED
    BY <1>2, <2>1, <2>2 DEF Kept, Works
<1>3. CASE PullStable
  BY <1>0, <1>3 DEF PullStable, History, JobRecord, registry, Works, StableChannel
<1>4. CASE PullFallback
  <2>1. stable = Missing
    BY <1>0, <1>4 DEF PullFallback, Spend
  <2>2. job'.pc = "build" /\ StableChannel' = {}
    BY <1>0, <1>4, <2>1 DEF PullFallback, JobRecord, registry, StableChannel
  <2> QED
    BY <2>2 DEF Works
<1>5. CASE Build
  <2>1. job'.pc = "image" /\ stable' = stable /\ job'.existing = job.existing
    BY <1>0, <1>5 DEF Build, JobRecord
  <2>2. StableChannel' = StableChannel /\ StableChannel \subseteq job.channel
    BY <1>5, <2>1, StableStays DEF Kept, Works, Build
  <2>3. job.existing # Kinds => builds'[job'.build].channel = job.channel \cup {job.version}
    BY <1>5, BuiltFrom DEF Generated
  <2> QED
    BY <2>1, <2>2, <2>3 DEF Works
<1>6. CASE PushImage \/ PushSha
  <2>1. /\ job.pc \in {"image", "sha"} /\ job'.pc # "build" /\ UNCHANGED <<stable, builds>>
        /\ UNCHANGED <<job.existing, job.build>>
    BY <1>0, <1>6 DEF PushImage, PushSha, JobRecord
  <2> QED
    BY <2>1 DEF Kept, Works, StableChannel
<1>7. CASE job' # job /\ ~PullStable /\ ~PullFallback /\ ~Build /\ ~PushImage /\ ~PushSha
  BY <1>7, JobElsewhere DEF Works
<1> QED
  BY <1>1, <1>2, <1>3, <1>4, <1>5, <1>6, <1>7

\* Every catalog is of a commit of main; when the job begins to move the
\* aliases its commit is the head.
LEMMA LastNext ==
  ASSUME IInv, Kept, [Next]_vars
  PROVE  Last'
<1> SUFFICES ASSUME job'.pc \in {"latest", "stable"}, NEW v \in Versions, Catalogued(v)'
             PROVE  Source(images["catalog"][v])' <= job'.source
  BY DEF Last
<1>0. job \in JobRecord(MaybeBuilt)
  BY JobType DEF IInv
<1>1. ~PushImage
  BY <1>0 DEF PushImage, JobRecord
<1>2. /\ Catalogued(v)
      /\ Source(images["catalog"][v])' = Source(images["catalog"][v])
  BY <1>1, CatalogNext
<1>3. CASE CheckAliases
  <2>1. main = job.source /\ job'.source = job.source
    BY <1>0, <1>3 DEF CheckAliases, IsCurrent, JobRecord, Idle
  <2>2. v \in DOMAIN tags /\ tags[v] = Source(images["catalog"][v]) /\ tags[v] # NoSource
    BY <1>2, AllowedAssumption DEF IInv, Labelled, Catalogued, Kinds, Sources, NoSource
  <2>3. v > Initial
    BY <2>2, TypeParts, InitialAssumption DEF IInv, Tagged, MainType, Versions
  <2>4. tags[v] <= main
    BY <2>2, <2>3 DEF IInv, Tagged
  <2> QED
    BY <1>2, <2>1, <2>2, <2>4
<1>4. CASE ~CheckAliases
  <2>1. job.pc \in {"latest", "stable"} /\ job'.source = job.source
    BY <1>4, AliasesFrom
  <2> QED
    BY <1>2, <2>1 DEF Kept, Last
<1> QED
  BY <1>3, <1>4

\* All this holds until a reserved version is made by hand.
KeptUncontested == contested = {} => Kept

LEMMA KeptNext ==
  ASSUME IInv, KeptUncontested, [Next]_vars, MaxPullFaults = 0
  PROVE  KeptUncontested'
BY StillUncontested, ExtendsNext, WorksNext, LastNext DEF Kept, KeptUncontested

\* What stable offers next, it offers besides what it offered.
LEMMA StableExtends ==
  ASSUME IInv, Kept, [Next]_vars, contested = {}, stable' # stable
  PROVE  /\ StableChannel \subseteq builds'[stable'].channel
         /\ stable' # Missing
<1>1. PushStable
  BY StableMoves
<1>2. /\ job.pc = "stable" /\ builds' = builds /\ stable' = images["catalog"][job.version]
  BY <1>1, TakesPlace DEF PushStable
<1>3. /\ job.version \in Versions /\ Catalogued(job.version)
      /\ Source(stable) <= Source(images["catalog"][job.version])
  BY <1>2, TakesPlace
<1> QED
  BY <1>2, <1>3 DEF Kept, Extends, Catalogued, Pushed

\* As long as the stable catalog can be pulled, an upgrade path that stable
\* once offered stays, whatever else fails, is resumed or made by hand, until
\* somebody makes a reserved version by hand.
THEOREM UpgradePathsStay ==
  ASSUME MaxPullFaults = 0
  PROVE  Spec => ChannelKept
<1>1. IInv /\ KeptUncontested /\ [Next]_vars => KeptUncontested'
  BY KeptNext
<1>2. IInv /\ KeptUncontested /\ [Next]_vars =>
        [contested = {} => StableChannel \subseteq builds'[stable'].channel]_stable
  BY StableExtends DEF KeptUncontested
<1>3. Init => KeptUncontested
  BY KeptInit DEF KeptUncontested
<1> QED
  BY <1>1, <1>2, <1>3, Invariance, PTL DEF Spec, ChannelKept

-----------------------------------------------------------------------------
(* The bundles of stable's versions replace what its channel says.          *)

\* The image of a version that a job made, of the commit of its tag.
Genuine(kind, v) == Pushed(kind, v) /\ Source(images[kind][v]) = tags[v]

\* Stable offers tagged versions, and there is a stable if anything was released.
Within ==
  /\ StableChannel \subseteq DOMAIN tags
  /\ stable = Missing => Initial = 0

\* The newest version is the only one that stable may still gain.  What its
\* jobs left behind was built from what stable offers now.
Tip ==
  \A v \in DOMAIN tags : v = Len(tags) =>
    /\ v \in StableChannel => stable = images["catalog"][v]
    /\ v \notin StableChannel =>
         /\ Genuine("bundle", v) =>
              builds[images["bundle"][v]].replaces = Predecessor(StableChannel, v)
         /\ Genuine("catalog", v) =>
              builds[images["catalog"][v]].channel = StableChannel \cup {v}

\* So is what the job builds, and only the newest version moves the aliases.
Exactly ==
  /\ job.pc = "build" => job.channel = StableChannel
  /\ job.pc \in {"image", "sha"} /\ job.existing # Kinds =>
       /\ builds[job.build].replaces = Predecessor(StableChannel, job.version)
       /\ builds[job.build].channel = StableChannel \cup {job.version}
  /\ job.pc \in {"latest", "stable"} => job.version = Len(tags)

Linked == PathsAgree /\ Within /\ Tip /\ Exactly

\* A new newest version leaves the paths of the others alone.
LEMMA PredecessorBelow ==
  ASSUME NEW S, NEW v \in Nat, NEW w \in Nat, w <= v
  PROVE  Predecessor(S \cup {v}, w) = Predecessor(S, w)
<1> DEFINE A == {x \in S \cup {v} : x < w /\ \A y \in S \cup {v} : y < w => y <= x}
           B == {x \in S : x < w /\ \A y \in S : y < w => y <= x}
<1>1. A = B
  OBVIOUS
<1>2. /\ Predecessor(S \cup {v}, w) = IF A = {} THEN None ELSE CHOOSE x \in A : TRUE
      /\ Predecessor(S, w) = IF B = {} THEN None ELSE CHOOSE x \in B : TRUE
  BY DEF Predecessor
<1> HIDE DEF A, B
<1> QED
  BY <1>1, <1>2

LEMMA LinkedInit == Init => Linked
<1> SUFFICES ASSUME Init
             PROVE  Linked
  OBVIOUS
<1>0. Initial \in Nat /\ MaxMerges \in Nat
  BY InitialAssumption, AllowedAssumption
<1>1. /\ stable = Initial /\ DOMAIN tags = 1..Initial /\ Len(tags) = Initial
      /\ job.pc = "idle"
      /\ \A kind \in Kinds, v \in 1..Initial : images[kind][v] = v
      /\ \A v \in 1..Initial :
           builds[v].replaces = Predecessor(1..Initial, v) /\ builds[v].channel = 1..v
  BY <1>0 DEF Init, Idle, Versions
<1>2. StableChannel = 1..Initial
  BY <1>0, <1>1 DEF StableChannel, Missing
<1> QED
  BY <1>0, <1>1, <1>2 DEF Linked, PathsAgree, Within, Tip, Exactly, Missing, Kinds

\* What PushStable does to the channel.
LEMMA StableGains ==
  ASSUME IInv, Linked, PushStable, contested = {}
  PROVE  LET v == job.version IN
         /\ v \in DOMAIN tags /\ v = Len(tags) /\ UNCHANGED <<tags, images, builds>>
         /\ stable' = images["catalog"][v] /\ stable' # Missing
         /\ \/ v \in StableChannel /\ StableChannel' = StableChannel
            \/ /\ StableChannel' = StableChannel \cup {v}
               /\ builds[images["bundle"][v]].replaces = Predecessor(StableChannel, v)
<1> DEFINE v == job.version
<1>1. /\ job.pc = "stable" /\ UNCHANGED <<tags, images, builds>>
      /\ stable' = images["catalog"][v]
  BY TakesPlace DEF PushStable
<1>2. /\ v \in DOMAIN tags /\ v = Len(tags)
      /\ \A kind \in Kinds : images[kind][v] # Missing /\ Source(images[kind][v]) = tags[v]
  <2>1. ASSUME NEW kind \in Kinds
        PROVE  /\ images[kind][v] # Missing /\ Source(images[kind][v]) = job.source
               /\ v \in DOMAIN tags /\ tags[v] = job.source
    BY <1>1, <2>1, JobsRelease
  <2> QED
    BY <1>1, <2>1 DEF Linked, Exactly, Kinds
<1>3. Genuine("bundle", v) /\ Genuine("catalog", v)
  BY <1>2 DEF Genuine, Pushed, Kinds
<1>4. stable' # Missing /\ StableChannel' = builds[images["catalog"][v]].channel
  BY <1>1, <1>2 DEF StableChannel, Kinds
<1>5. CASE v \in StableChannel
  BY <1>1, <1>2, <1>4, <1>5 DEF Linked, Tip, StableChannel
<1>6. CASE v \notin StableChannel
  BY <1>1, <1>2, <1>3, <1>4, <1>6 DEF Linked, Tip
<1> QED
  BY <1>1, <1>2, <1>4, <1>5, <1>6

LEMMA WithinNext ==
  ASSUME IInv, Linked, [Next]_vars, contested' = {}
  PROVE  Within'
<1>1. CASE stable' = stable
  BY <1>1, StableStays, NextGrows DEF Linked, Within, Grow
<1>2. CASE PushStable
  BY <1>2, StillUncontested, StableGains DEF Linked, Within
<1> QED
  BY <1>1, <1>2, StableMoves

LEMMA PathsNext ==
  ASSUME IInv, Offered, Linked, [Next]_vars, contested' = {}
  PROVE  PathsAgree'
<1>0. /\ TypeOK /\ Grow /\ DOMAIN tags = 1..Len(tags) /\ Len(tags) \in Nat
      /\ StableChannel \subseteq DOMAIN tags /\ DOMAIN tags \subseteq Versions
      /\ contested = {}
  BY NextGrows, TypeParts, StillUncontested DEF IInv, Linked, Within, MainType
<1>1. ASSUME NEW v \in StableChannel
      PROVE  builds'[images'["bundle"][v]].replaces = Predecessor(StableChannel, v)
  <2>1. Pushed("bundle", v) /\ v \in DOMAIN tags \ contested' /\ "bundle" \in Kinds
    BY <1>0 DEF Offered, Offers, Fine, Ready, StableChannel, Kinds
  <2>2. /\ images["bundle"][v] \in BuildIds
        /\ images'["bundle"][v] = images["bundle"][v]
    BY <1>0, <2>1, ImageKept
  <2> QED
    BY <1>0, <2>2 DEF Grow, Linked, PathsAgree
<1>2. CASE stable' = stable
  BY <1>1, <1>2, StableStays DEF PathsAgree
<1>3. CASE PushStable
  <2> DEFINE v == job.version
  <2>1. /\ v \in DOMAIN tags /\ v = Len(tags) /\ UNCHANGED <<images, builds>>
        /\ \/ StableChannel' = StableChannel
           \/ /\ StableChannel' = StableChannel \cup {v}
              /\ builds[images["bundle"][v]].replaces = Predecessor(StableChannel, v)
    BY <1>0, <1>3, StableGains
  <2>2. CASE StableChannel' = StableChannel
    BY <1>1, <2>2 DEF PathsAgree
  <2>3. CASE /\ StableChannel' = StableChannel \cup {v}
             /\ builds[images["bundle"][v]].replaces = Predecessor(StableChannel, v)
    <3>1. ASSUME NEW w \in StableChannel \cup {v}
          PROVE  builds'[images'["bundle"][w]].replaces = Predecessor(StableChannel \cup {v}, w)
      <4>1. v \in Nat /\ w \in Nat /\ w <= v
        BY <1>0, <2>1
      <4>2. Predecessor(StableChannel \cup {v}, w) = Predecessor(StableChannel, w)
        BY <4>1, PredecessorBelow
      <4> QED
        BY <1>1, <2>1, <2>3, <4>2
    <3> QED
      BY <2>3, <3>1 DEF PathsAgree
  <2> QED
    BY <2>1, <2>2, <2>3
<1> QED
  BY <1>2, <1>3, StableMoves

LEMMA TagsMove ==
  ASSUME IInv, [Next]_vars, tags' # tags
  PROVE  Reserve
BY Contests

\* A release's image was there before, or is what the job built.
LEMMA GenuineNext ==
  ASSUME IInv, [Next]_vars, contested' = {}, tags' = tags, NEW kind \in Kinds, NEW v \in DOMAIN tags,
         Genuine(kind, v)'
  PROVE  \/ Genuine(kind, v) /\ builds'[images'[kind][v]] = builds[images[kind][v]]
         \/ /\ PushImage /\ v = job.version /\ images'[kind][v] = job.build
            /\ job.existing # Kinds
<1>0. TypeOK /\ Grow /\ RegistryType /\ v \in Versions /\ contested = {}
  BY NextGrows, TypeParts, StillUncontested DEF IInv, MainType
<1>1. CASE images'[kind][v] = images[kind][v]
  <2>1. PICK b \in BuildIds : b = images[kind][v] /\ b = images'[kind][v] /\ b # Missing
    BY <1>0, <1>1 DEF Genuine, Pushed, RegistryType, MaybeBuilt
  <2>2. builds'[b] = builds[b]
    BY <1>0, <2>1 DEF Grow
  <2> QED
    BY <2>1, <2>2 DEF Genuine, Pushed, Source
<1>2. CASE images'[kind][v] # images[kind][v]
  BY <1>0, <1>2, NewImage
<1> QED
  BY <1>1, <1>2

LEMMA TipNext ==
  ASSUME IInv, Linked, [Next]_vars, contested' = {}
  PROVE  Tip'
<1>0. /\ TypeOK /\ Grow /\ DOMAIN tags = 1..Len(tags) /\ Len(tags) \in Nat
      /\ tags \in Seq(Sources \cup {NoSource})
      /\ StableChannel \subseteq DOMAIN tags /\ DOMAIN tags \subseteq Versions
      /\ contested = {}
  BY NextGrows, TypeParts, StillUncontested DEF IInv, Linked, Within, MainType
<1>1. CASE tags' # tags
  <2>1. /\ Reserve /\ tags' = Append(tags, job.source) /\ job.source \in Sources
        /\ UNCHANGED <<images, builds, stable>>
        /\ \A w \in DOMAIN tags : tags[w] # job.source
    BY <1>1, TagsMove DEF Reserve, Reserved, registry, IInv, Tagged
  <2>2. StableChannel' = StableChannel
    BY <2>1 DEF StableChannel
  <2>3. ASSUME NEW v \in DOMAIN tags', v = Len(tags')
        PROVE  /\ v \notin StableChannel
               /\ \A kind \in Kinds : ~Genuine(kind, v)'
    <3>1. v = Len(tags) + 1 /\ v \notin DOMAIN tags /\ tags'[v] = job.source
      BY <1>0, <2>1, <2>3
    <3>2. v \in Versions
      BY <2>1, <3>1, TagsFit DEF IInv, Reserve
    <3>3. \A kind \in Kinds : Pushed(kind, v) => Source(images[kind][v]) = NoSource
      BY <3>1, <3>2 DEF IInv, Labelled
    <3>4. \A kind \in Kinds : Genuine(kind, v)' => Pushed(kind, v) /\ Source(images[kind][v]) = job.source
      BY <2>1, <3>1 DEF Genuine, Pushed, Source
    <3> QED
      BY <1>0, <2>1, <3>1, <3>3, <3>4, AllowedAssumption DEF Sources, NoSource
  <2> QED
    BY <2>2, <2>3 DEF Tip, Kinds
<1>2. CASE tags' = tags /\ stable' = stable
  <2> SUFFICES ASSUME NEW v \in DOMAIN tags, v = Len(tags)
               PROVE  /\ v \in StableChannel => stable = images'["catalog"][v]
                      /\ v \notin StableChannel =>
                           /\ Genuine("bundle", v)' =>
                                builds'[images'["bundle"][v]].replaces = Predecessor(StableChannel, v)
                           /\ Genuine("catalog", v)' =>
                                builds'[images'["catalog"][v]].channel = StableChannel \cup {v}
    BY <1>2, StableStays DEF Tip
  <2>0. v \in Versions /\ "catalog" \in Kinds /\ "bundle" \in Kinds
    BY <1>0 DEF Kinds
  <2>1. CASE v \in StableChannel
    <3>1. stable = images["catalog"][v] /\ stable # Missing
      BY <2>1 DEF Linked, Tip, StableChannel
    <3> QED
      BY <1>0, <2>0, <2>1, <3>1, ImageKept DEF Pushed
  <2>2. CASE v \notin StableChannel
    <3>1. PushImage /\ v = job.version /\ job.existing # Kinds =>
            /\ builds'[job.build].replaces = Predecessor(StableChannel, v)
            /\ builds'[job.build].channel = StableChannel \cup {v}
      BY DEF PushImage, Linked, Exactly
    <3> QED
      BY <1>2, <2>0, <2>2, <3>1, GenuineNext DEF Linked, Tip
  <2> QED
    BY <2>1, <2>2
<1>3. CASE PushStable
  <2>1. /\ UNCHANGED <<tags, images, builds>> /\ stable' = images["catalog"][Len(tags)]
        /\ Len(tags) \in StableChannel'
    BY <1>0, <1>3, StableGains
  <2> QED
    BY <2>1 DEF Tip
<1> QED
  BY <1>1, <1>2, <1>3, StableMoves

LEMMA ExactlyNext ==
  ASSUME IInv, Linked, [Next]_vars, MaxPullFaults = 0
  PROVE  Exactly'
<1>0. /\ TypeOK /\ Grow /\ RegistryType /\ job \in JobRecord(MaybeBuilt)
      /\ spent["pulls"] \in Nat
  BY TypeParts, NextGrows DEF IInv, RunsType
<1>1. CASE stable' # stable
  BY <1>1, StableMoves DEF PushStable, Idle, Exactly
<1>2. ASSUME stable' = stable
      PROVE  /\ job'.pc = "build" => job'.channel = StableChannel'
             /\ job'.pc \in {"image", "sha"} /\ job'.existing # Kinds =>
                  /\ builds'[job'.build].replaces = Predecessor(StableChannel', job'.version)
                  /\ builds'[job'.build].channel = StableChannel' \cup {job'.version}
  <2>0. StableChannel' = StableChannel
    BY <1>2, StableStays
  <2>1. CASE UNCHANGED job
    <3>1. job.pc \in {"image", "sha"} /\ job.existing # Kinds =>
            builds'[job.build] = builds[job.build]
      BY <1>0 DEF IInv, Prepared, AfterLoad, Grow, BuildIds
    <3> QED
      BY <2>0, <2>1, <3>1 DEF Linked, Exactly
  <2>2. CASE PullStable
    BY <1>0, <2>0, <2>2 DEF PullStable, History, JobRecord
  <2>3. CASE PullFallback
    <3>1. stable = Missing /\ Initial = 0
      BY <1>0, <2>3 DEF PullFallback, Spend, Linked, Within
    <3>2. CheckedIn = {} /\ Fallback = None
      BY <3>1 DEF CheckedIn, Fallback, Predecessor
    <3>3. job'.pc = "build" /\ job'.channel = {} /\ StableChannel = {}
      BY <1>0, <2>3, <3>1, <3>2 DEF PullFallback, JobRecord, StableChannel
    <3> QED
      BY <2>0, <3>3
  <2>4. CASE Build
    <3>1. /\ job.pc = "build" /\ job'.pc = "image"
          /\ job'.existing = job.existing /\ job'.version = job.version
      BY <1>0, <2>4 DEF Build, JobRecord
    <3>2. job.existing # Kinds => builds'[job'.build] = Generated
      BY <2>4, BuiltFrom
    <3>3. job.channel = StableChannel
      BY <3>1 DEF Linked, Exactly
    <3> QED
      BY <2>0, <3>1, <3>2, <3>3 DEF Generated
  <2>5. CASE PushImage \/ PushSha
    <3>1. /\ job.pc \in {"image", "sha"} /\ job'.pc # "build" /\ builds' = builds
          /\ UNCHANGED <<job.existing, job.build, job.version>>
      BY <1>0, <2>5 DEF PushImage, PushSha, JobRecord
    <3> QED
      BY <2>0, <3>1 DEF Linked, Exactly
  <2>6. CASE job' # job /\ ~PullStable /\ ~PullFallback /\ ~Build /\ ~PushImage /\ ~PushSha
    BY <2>6, JobElsewhere
  <2> QED
    BY <2>1, <2>2, <2>3, <2>4, <2>5, <2>6
<1>3. ASSUME job'.pc \in {"latest", "stable"}
      PROVE  job'.version = Len(tags)'
  <2>1. CASE CheckAliases
    BY <1>0, <1>3, <2>1 DEF CheckAliases, IsCurrent, JobRecord, Idle
  <2>2. CASE ~CheckAliases
    <3>1. job.pc \in {"latest", "stable"}
      BY <1>3, <2>2, AliasesFrom
    <3>2. ~Reserve /\ ~Start /\ job' # Idle
      <4>1. ~Reserve /\ ~Start
        BY <3>1 DEF Reserve, Start
      <4> QED
        BY <1>3, <4>1 DEF Idle
    <3>3. job'.version = job.version
      BY <3>2, JobKeeps
    <3>4. tags' = tags
      BY <3>2, TagsMove
    <3> QED
      BY <3>1, <3>3, <3>4 DEF Linked, Exactly
  <2> QED
    BY <2>1, <2>2
<1> QED
  BY <1>1, <1>2, <1>3 DEF Exactly

\* The catalogs of the workflow offer and link what stable does, until a
\* reserved version is made by hand.
LinkedUncontested == contested = {} => Linked

LEMMA LinkedNext ==
  ASSUME IInv, Offered, LinkedUncontested, [Next]_vars, MaxPullFaults = 0
  PROVE  LinkedUncontested'
BY StillUncontested, PathsNext, WithinNext, TipNext, ExactlyNext DEF Linked, LinkedUncontested

\* The bundle of every version stable offers replaces what stable's channel
\* says it does, though jobs that stopped wrote the two at different times; as
\* long as the stable catalog can be pulled and no reserved version is made by
\* hand.
THEOREM BundlesFollowTheChannel ==
  ASSUME MaxPullFaults = 0
  PROVE  Spec => []PathsAgree
<1>1. IInv /\ (Offered /\ Made) /\ [Next]_vars => (Offered /\ Made)'
  BY OfferedNext
<1>2. IInv /\ (Offered /\ Made) /\ LinkedUncontested /\ [Next]_vars => LinkedUncontested'
  BY LinkedNext
<1>3. LinkedUncontested => PathsAgree
  BY DEF Linked, LinkedUncontested, PathsAgree
<1>4. Init => LinkedUncontested
  BY LinkedInit DEF LinkedUncontested
<1> QED
  BY OfferedInit, <1>1, <1>2, <1>3, <1>4, Invariance, PTL DEF Spec
================================================================================
