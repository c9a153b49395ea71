----------------------------- MODULE ReleaseProofs -----------------------------
(***************************************************************************)
(* Proofs about Release, for any number of merges, faults, reruns and      *)
(* calls of --build.  The argument: the job that runs writes tags and      *)
(* images only for the version reserved for its commit (Tagged), a call of *)
(* --build those of its own version, which is contested if it is reserved  *)
(* (Handled); an image carries the version it is pushed for and that       *)
(* version's commit or none (Labelled).  So, unless its version is         *)
(* contested, what LoadExisting found is the job's own, what it did not    *)
(* find is still missing when it is pushed (Prepared), the commit tags name*)
(* the images (Recorded), and an alias moves to a complete release that is *)
(* not older than it was (Promoted).                                       *)
(***************************************************************************)
EXTENDS Release, FiniteSetTheorems, TLAPS

AfterLoad == {"history", "build", "image", "sha", "aliases", "latest", "stable"}
AfterReserve == AfterLoad \cup {"load"}

\* Whose version is it: tags name commits of their own, the job holds its tag.
Tagged ==
  /\ Len(tags) >= Initial
  /\ \A v \in DOMAIN tags : v <= Initial => tags[v] = NoSource
  /\ \A v \in DOMAIN tags : v > Initial => tags[v] \in Sources /\ tags[v] <= main
  /\ OneVersionPerSource
  /\ job.pc # "idle" => job.source \in Sources
  /\ job.pc \in AfterReserve => job.version \in DOMAIN tags /\ tags[job.version] = job.source

\* An image belongs to the version it is found under, and to that version's
\* commit unless it was made by hand.
Labelled ==
  \A kind \in Kinds, v \in Versions :
    Pushed(kind, v) =>
      /\ Version(images[kind][v]) = v
      /\ \/ Source(images[kind][v]) = NoSource
         \/ v \in DOMAIN tags /\ Source(images[kind][v]) = tags[v]

\* A call of --build pushes an image of its own, without a commit; a version
\* that is reserved meanwhile is contested.
Handled ==
  /\ Len(builds) >= Initial
  /\ \A b \in 1..Initial : builds[b].version = b
  /\ hand # NoHand =>
       /\ hand.version \in Versions /\ hand.build \in DOMAIN builds
       /\ MadeByHand(hand.build) /\ builds[hand.build].version = hand.version
       /\ hand.version \in DOMAIN tags => hand.version \in contested

\* The job's image of this kind is in the registry, made from its commit.
Own(kind) ==
  Pushed(kind, job.version) /\ Source(images[kind][job.version]) = job.source

\* The i-th image is pushed, or found to be there.
Done(i) ==
  \/ job.pc = "image" /\ i < job.kind
  \/ job.pc = "sha" /\ i <= job.kind
  \/ job.pc \in {"aliases", "latest", "stable"}

\* What the job found and pushed is there.  Unless its version is contested it
\* is the job's own, and what it did not find is missing until it pushes it.
\* What it pushes is its own build.
Prepared ==
  /\ job.pc \in {"reserve", "load", "history", "build"} => job.kind = 1
  /\ job.pc \in AfterLoad =>
    /\ \A kind \in job.existing : Pushed(kind, job.version)
    /\ \A i \in 1..3 : Done(i) => Pushed(PushOrder[i], job.version)
    /\ job.version \notin contested =>
         /\ \A kind \in job.existing : Own(kind)
         /\ \A i \in 1..3 : Done(i) => Own(PushOrder[i])
         /\ \A i \in 1..3 :
              ~Done(i) /\ PushOrder[i] \notin job.existing => ~Pushed(PushOrder[i], job.version)
    /\ job.pc \in {"image", "sha"} /\ job.existing # Kinds =>
         /\ job.build \in DOMAIN builds
         /\ Source(job.build) = job.source
         /\ Version(job.build) = job.version

\* A commit tag names an image of the version reserved for the commit, the one
\* the version tag names unless the version is contested; and the job has
\* tagged the kinds it is done with.
ShaOk(kind, s) ==
  LET tagged == shas[kind][s] IN
    tagged # Missing =>
      /\ Version(tagged) \in DOMAIN tags /\ tags[Version(tagged)] = s
      /\ Version(tagged) \notin contested =>
           images[kind][Version(tagged)] = tagged /\ Source(tagged) = s

ShaDone(i) ==
  \/ job.pc \in {"image", "sha"} /\ i < job.kind
  \/ job.pc \in {"aliases", "latest", "stable"}

Recorded ==
  /\ \A kind \in Kinds, s \in Sources : ShaOk(kind, s)
  /\ \A i \in 1..3 : ShaDone(i) => shas[PushOrder[i]][job.source] # Missing

\* An alias names a version, complete unless it is contested, of a commit of
\* main; while the job moves the aliases, of no later commit than the job's.
Commit(build) == ReleaseOf(build).source

Aliased(build) ==
  /\ build # Missing =>
       /\ Version(build) \in DOMAIN tags
       /\ Version(build) \notin contested =>
            Source(build) = tags[Version(build)] /\ Published(Version(build))
  /\ Commit(build) <= main
  /\ job.pc \in {"latest", "stable"} => Commit(build) <= job.source

Promoted == Aliased(latest) /\ Aliased(stable)

\* The releases there were at the start stay complete, and what they are.
FirstImages ==
  \A kind \in Kinds, v \in 1..Initial :
    Pushed(kind, v) /\ (v \notin contested => images[kind][v] = v)

IInv ==
  /\ TypeOK /\ Tagged /\ Handled /\ Labelled /\ FirstImages
  /\ Prepared /\ Recorded /\ Promoted

-----------------------------------------------------------------------------
LEMMA Order ==
  /\ PushOrder[1] = "operator" /\ PushOrder[2] = "bundle" /\ PushOrder[3] = "catalog"
  /\ DOMAIN PushOrder = 1..3 /\ Len(PushOrder) = 3
  /\ \A i \in 1..3 : PushOrder[i] \in Kinds
  /\ \A kind \in Kinds : \E i \in 1..3 : kind = PushOrder[i]
  /\ \A i, j \in 1..3 : PushOrder[i] = PushOrder[j] => i = j
BY DEF PushOrder, Kinds

LEMMA PredecessorType ==
  ASSUME NEW S, NEW v
  PROVE  Predecessor(S, v) \in S \cup {None}
BY DEF Predecessor

\* No more tags than the first ones and one for each commit.
LEMMA TagsFit ==
  ASSUME TypeOK, Tagged, NEW s \in Sources, \A v \in DOMAIN tags : tags[v] # s
  PROVE  Len(tags) + 1 \in Versions
<1> DEFINE n == Len(tags)
           New == (Initial + 1) .. (n + 1)
           f == [v \in New |-> IF v = n + 1 THEN s ELSE tags[v]]
<1>1. n \in Nat /\ Initial \in Nat /\ MaxMerges \in Nat /\ DOMAIN tags = 1..n /\ n >= Initial
  BY InitialAssumption, AllowedAssumption DEF TypeOK, Tagged
<1>2. f \in [New -> Sources]
  BY <1>1 DEF Tagged
<1>3. ASSUME NEW v \in New, NEW w \in New, f[v] = f[w]
      PROVE  v = w
  <2>1. \A u \in New : u # n + 1 => u \in DOMAIN tags /\ u > Initial
    BY <1>1
  <2>2. CASE v = n + 1 \/ w = n + 1
    BY <1>1, <1>3, <2>1, <2>2
  <2>3. CASE v # n + 1 /\ w # n + 1
    <3>1. tags[v] = tags[w] /\ tags[v] \in Sources
      BY <1>3, <2>1, <2>3 DEF Tagged
    <3> QED
      BY <2>1, <2>3, <3>1 DEF Tagged, OneVersionPerSource, Sources, NoSource
  <2> QED
    BY <2>2, <2>3
<1>4. f \in Injection(New, Sources)
  BY <1>2, <1>3 DEF Injection, IsInjective
<1>5. IsFiniteSet(Sources) /\ Cardinality(Sources) = MaxMerges
  <2>1. 1 \in Int /\ MaxMerges \in Int
    BY <1>1
  <2>2. /\ IsFiniteSet(1..MaxMerges)
        /\ Cardinality(1..MaxMerges) = IF 1 > MaxMerges THEN 0 ELSE MaxMerges - 1 + 1
    BY <2>1, FS_Interval
  <2> QED
    BY <1>1, <2>2 DEF Sources
<1>6. Cardinality(New) <= Cardinality(Sources)
  BY <1>4, <1>5, FS_Injection
<1>7. Cardinality(New) = n + 1 - Initial
  <2>1. Initial + 1 \in Int /\ n + 1 \in Int
    BY <1>1
  <2>2. Cardinality(New) = IF Initial + 1 > n + 1 THEN 0 ELSE (n + 1) - (Initial + 1) + 1
    BY <2>1, FS_Interval
  <2> QED
    BY <1>1, <2>2
<1> QED
  BY <1>1, <1>5, <1>6, <1>7 DEF Versions
-----------------------------------------------------------------------------
(* Types.                                                                   *)

BuildRecord ==
  [source : Sources \cup {NoSource}, version : Versions,
   replaces : Versions \cup {None}, channel : SUBSET Versions]

JobRecord(b) ==
  [pc : Steps, source : Sources \cup {NoSource}, version : Versions \cup {None},
   existing : SUBSET Kinds, channel : SUBSET Versions, build : b, kind : 1..3]

LEMMA Appended ==
  ASSUME TypeOK, NEW r \in BuildRecord, builds' = Append(builds, r)
  PROVE  /\ builds' \in Seq(BuildRecord)
         /\ BuildIds' = BuildIds \cup {Len(builds) + 1}
         /\ Len(builds) + 1 \notin BuildIds
         /\ MaybeBuilt \subseteq MaybeBuilt' /\ Len(builds) + 1 \in MaybeBuilt'
         /\ \A b \in BuildIds : builds'[b] = builds[b]
         /\ builds'[Len(builds) + 1] = r
<1>1. builds \in Seq(BuildRecord) /\ Len(builds) \in Nat /\ BuildIds = 1..Len(builds)
  BY DEF TypeOK, BuildRecord, BuildIds
<1>2. /\ builds' \in Seq(BuildRecord)
      /\ Len(builds') = Len(builds) + 1
      /\ \A b \in 1..Len(builds) : builds'[b] = builds[b]
      /\ builds'[Len(builds) + 1] = r
  BY <1>1
<1>3. BuildIds' = 1..(Len(builds) + 1)
  BY <1>2 DEF BuildIds
<1>4. BuildIds' = BuildIds \cup {Len(builds) + 1}
  BY <1>1, <1>3
<1> QED
  BY <1>1, <1>2, <1>4 DEF MaybeBuilt

LEMMA IdleType ==
  ASSUME NEW b, Missing \in b
  PROVE  Idle \in JobRecord(b)
BY DEF Idle, JobRecord, Steps

LEMMA JobType ==
  ASSUME TypeOK
  PROVE  job \in JobRecord(MaybeBuilt)
BY Order DEF TypeOK, JobRecord

LEMMA FallbackType ==
  /\ CheckedIn \subseteq Versions
  /\ Fallback \in CheckedIn \cup {None}
<1>1. Initial \in Nat /\ MaxMerges \in Nat
  BY InitialAssumption, AllowedAssumption
<1> QED
  BY <1>1, PredecessorType DEF CheckedIn, Fallback, Versions

\* What the job builds, and what a maintainer builds, has the type of a build.
LEMMA GeneratedType ==
  ASSUME TypeOK, job.source \in Sources, job.version \in Versions
  PROVE  Generated \in BuildRecord
<1>1. job.channel \in SUBSET Versions
  BY JobType DEF JobRecord
<1>2. Predecessor(job.channel, job.version) \in Versions \cup {None}
  BY <1>1, PredecessorType
<1> QED
  BY <1>1, <1>2 DEF Generated, BuildRecord

HandMade(held, v) ==
  [source |-> NoSource, version |-> v,
   replaces |-> Predecessor(held, v), channel |-> held \cup {v}]

LEMMA HandMadeType ==
  ASSUME NEW v \in Versions, NEW held \in SUBSET Versions
  PROVE  HandMade(held, v) \in BuildRecord
<1>1. Predecessor(held, v) \in Versions \cup {None}
  BY PredecessorType
<1> QED
  BY <1>1 DEF HandMade, BuildRecord

\* What a call of --build does to the state, with the checkout it began from.
LEMMA Generates ==
  ASSUME TypeOK, NEW v \in Versions, GenerateByHand(v)
  PROVE  \E held \in SUBSET Versions :
           /\ held \in {checkout, CheckedIn}
           /\ checkout' = held \cup {v}
           /\ builds' = Append(builds, HandMade(held, v))
           /\ HandMade(held, v) \in BuildRecord
<1>1. PICK held \in {checkout, CheckedIn} :
        /\ checkout' = held \cup {v}
        /\ builds' = Append(builds, HandMade(held, v))
  BY DEF GenerateByHand, HandMade
<1>2. held \in SUBSET Versions
  BY FallbackType DEF TypeOK
<1> QED
  BY <1>1, <1>2, HandMadeType

\* The parts of the state that the steps leave alone keep their type.
RunsType ==
  /\ checking \in [Sources -> Nat]
  /\ queue \in Seq(Sources)
  /\ failed \subseteq Sources
  /\ spent \in [{"faults", "pulls", "dispatches", "byHand"} -> Nat]

RegistryType ==
  /\ builds \in Seq(BuildRecord)
  /\ images \in [Kinds -> [Versions -> MaybeBuilt]]
  /\ shas \in [Kinds -> [Sources -> MaybeBuilt]]
  /\ latest \in MaybeBuilt
  /\ stable \in MaybeBuilt

MainType ==
  /\ main \in 0..MaxMerges
  /\ tags \in Seq(Sources \cup {NoSource}) /\ DOMAIN tags \subseteq Versions

HandRecord(b) == [version : Versions \cup {None}, build : b, kind : 1..3]

ManualType ==
  /\ hand \in HandRecord(MaybeBuilt)
  /\ checkout \subseteq Versions
  /\ contested \subseteq DOMAIN tags

LEMMA TypeParts ==
  TypeOK <=> RunsType /\ RegistryType /\ MainType /\ ManualType /\ job \in JobRecord(MaybeBuilt)
BY Order DEF TypeOK, RunsType, RegistryType, MainType, ManualType, HandRecord, JobRecord, BuildRecord

LEMMA TypePartsNext ==
  ASSUME RunsType', RegistryType', MainType', ManualType', job' \in JobRecord(MaybeBuilt')
  PROVE  TypeOK'
BY Order DEF TypeOK, RunsType, RegistryType, MainType, ManualType, HandRecord, JobRecord, BuildRecord

LEMMA SpendType ==
  ASSUME TypeOK, NEW what \in {"faults", "pulls", "dispatches", "byHand"}, NEW bound, Spend(what, bound)
  PROVE  spent' \in [{"faults", "pulls", "dispatches", "byHand"} -> Nat]
BY DEF TypeOK, Spend

LEMMA RegistryKept ==
  ASSUME TypeOK, UNCHANGED registry
  PROVE  RegistryType' /\ MaybeBuilt' = MaybeBuilt
BY TypeParts DEF RegistryType, registry, MaybeBuilt, BuildIds

LEMMA MainKept ==
  ASSUME TypeOK, UNCHANGED <<main, tags>>
  PROVE  MainType'
BY TypeParts DEF MainType

LEMMA ManualKept ==
  ASSUME TypeOK, UNCHANGED <<tags, manual>>, MaybeBuilt \subseteq MaybeBuilt'
  PROVE  ManualType'
<1>1. hand \in HandRecord(MaybeBuilt) /\ checkout \subseteq Versions /\ contested \subseteq DOMAIN tags
  BY TypeParts DEF ManualType
<1>2. hand \in HandRecord(MaybeBuilt')
  BY <1>1 DEF HandRecord
<1> QED
  BY <1>1, <1>2 DEF ManualType, manual

LEMMA NoHandType ==
  ASSUME NEW b, Missing \in b
  PROVE  NoHand \in HandRecord(b)
BY DEF NoHand, HandRecord

LEMMA RefuseType ==
  ASSUME TypeOK, job.source \in Sources, Refuse
  PROVE  TypeOK'
<1>1. RegistryType' /\ MaybeBuilt' = MaybeBuilt /\ MainType' /\ ManualType'
  BY RegistryKept, MainKept, ManualKept DEF Refuse
<1>2. RunsType'
  BY DEF Refuse, RunsType, TypeOK
<1>3. job' \in JobRecord(MaybeBuilt')
  BY IdleType DEF Refuse, MaybeBuilt
<1> QED
  BY <1>1, <1>2, <1>3, TypePartsNext

\* A version the job holds is one.
LEMMA VersionType ==
  ASSUME IInv, job.pc \in AfterReserve
  PROVE  job.version \in Versions /\ job.source \in Sources /\ job.pc # "idle"
<1>1. job.version \in DOMAIN tags /\ tags[job.version] = job.source /\ job.source \in Sources
  BY DEF IInv, Tagged, AfterReserve, AfterLoad
<1>2. job.version # None
  BY <1>1 DEF IInv, TypeOK, None
<1> QED
  BY <1>1, <1>2, JobType DEF IInv, JobRecord, AfterReserve, AfterLoad

LEMMA TypeInit == Init => TypeOK
<1> SUFFICES ASSUME Init PROVE TypeOK
  OBVIOUS
<1>1. Initial \in Nat /\ MaxMerges \in Nat
  BY InitialAssumption, AllowedAssumption
<1>2. \A v \in 1..Initial : v \in Versions /\ Predecessor(1..Initial, v) \in Versions \cup {None}
                            /\ 1..v \subseteq Versions
  BY <1>1, PredecessorType DEF Versions
<1>3. builds \in Seq(BuildRecord) /\ Len(builds) = Initial /\ BuildIds = 1..Initial
  <2>1. builds \in [1..Initial -> BuildRecord]
    BY <1>2 DEF Init, BuildRecord
  <2> QED
    BY <1>1, <2>1 DEF BuildIds
<1>4. Initial \in MaybeBuilt /\ Missing \in MaybeBuilt /\ \A v \in Versions : v <= Initial => v \in MaybeBuilt
  BY <1>1, <1>3 DEF MaybeBuilt, Missing, Versions
<1>5. RegistryType
  <2>1. /\ images = [kind \in Kinds |-> [v \in Versions |-> IF v <= Initial THEN v ELSE Missing]]
        /\ shas = [kind \in Kinds |-> [s \in Sources |-> Missing]]
        /\ latest = Initial /\ stable = Initial
    BY DEF Init
  <2>2. [v \in Versions |-> IF v <= Initial THEN v ELSE Missing] \in [Versions -> MaybeBuilt]
    BY <1>4
  <2>3. [s \in Sources |-> Missing] \in [Sources -> MaybeBuilt]
    BY <1>4
  <2> QED
    BY <1>3, <1>4, <2>1, <2>2, <2>3 DEF RegistryType
<1>6. MainType
  <2>1. tags \in [1..Initial -> Sources \cup {NoSource}]
    BY DEF Init
  <2>2. tags \in Seq(Sources \cup {NoSource}) /\ DOMAIN tags = 1..Initial
    BY <1>1, <2>1
  <2>3. main \in 0..MaxMerges
    BY <1>1 DEF Init
  <2> QED
    BY <1>2, <2>2, <2>3 DEF MainType
<1>7. RunsType /\ job \in JobRecord(MaybeBuilt)
  BY <1>4, IdleType DEF Init, RunsType
<1>8. ManualType
  BY <1>4, NoHandType, FallbackType DEF Init, ManualType
<1> QED
  BY <1>5, <1>6, <1>7, <1>8, TypeParts

\* One case for each action: it changes few of the four parts.
LEMMA TypeNext ==
  ASSUME IInv, [Next]_vars
  PROVE  TypeOK'
<1>0. /\ TypeOK /\ RunsType /\ RegistryType /\ MainType /\ ManualType /\ job \in JobRecord(MaybeBuilt)
      /\ Initial \in Nat /\ MaxMerges \in Nat
  BY TypeParts, InitialAssumption, AllowedAssumption DEF IInv
<1>1. CASE Merge
  <2>1. RegistryType' /\ ManualType' /\ job' \in JobRecord(MaybeBuilt')
    BY <1>0, <1>1, RegistryKept, ManualKept DEF Merge
  <2>2. MainType'
    BY <1>0, <1>1 DEF Merge, MainType
  <2>3. RunsType'
    <3>1. main + 1 \in Sources
      BY <1>0, <1>1 DEF Merge, MainType, Sources
    <3>2. checking' \in [Sources -> Nat]
      BY <1>0, <1>1, <3>1 DEF Merge, RunsType
    <3> QED
      BY <1>0, <1>1, <3>2 DEF Merge, RunsType
  <2> QED
    BY <2>1, <2>2, <2>3, TypePartsNext
<1>2. ASSUME NEW s \in Sources, Dispatch(s) \/ Rerun(s) \/ ChecksPass(s) \/ ChecksFail(s)
      PROVE  TypeOK'
  <2>1. UNCHANGED <<main, tags, registry, job, manual>>
    BY <1>2 DEF Dispatch, Rerun, ChecksPass, ChecksFail
  <2>2. RegistryType' /\ MainType' /\ ManualType' /\ job' \in JobRecord(MaybeBuilt')
    BY <1>0, <2>1, RegistryKept, MainKept, ManualKept
  <2>7. RunsType'
    <3>1. CASE Dispatch(s)
      BY <1>0, <3>1, SpendType DEF Dispatch, RunsType
    <3>2. CASE Rerun(s)
      BY <1>0, <3>2 DEF Rerun, RunsType
    <3>3. CASE ChecksPass(s)
      BY <1>0, <3>3 DEF ChecksPass, Enqueued, RunsType
    <3>4. CASE ChecksFail(s)
      BY <1>0, <3>4, SpendType DEF ChecksFail, RunsType
    <3> QED
      BY <1>2, <3>1, <3>2, <3>3, <3>4
  <2> QED
    BY <2>2, <2>7, TypePartsNext
<1>3. CASE Start
  <2>1. RegistryType' /\ MainType' /\ ManualType' /\ MaybeBuilt' = MaybeBuilt
    BY <1>0, <1>3, RegistryKept, MainKept, ManualKept DEF Start
  <2>2. Head(queue) \in Sources /\ Tail(queue) \in Seq(Sources)
    BY <1>0, <1>3 DEF Start, RunsType
  <2>3. RunsType'
    BY <1>0, <1>3, <2>2 DEF Start, RunsType
  <2>4. job' \in JobRecord(MaybeBuilt')
    <3>1. Idle \in JobRecord(MaybeBuilt')
      BY IdleType DEF MaybeBuilt
    <3>2. job' = [Idle EXCEPT !.pc = "reserve", !.source = Head(queue)]
      BY <1>3 DEF Start
    <3> QED
      BY <2>2, <3>1, <3>2 DEF JobRecord, Steps
  <2> QED
    BY <2>1, <2>3, <2>4, TypePartsNext
<1>4. CASE Stop
  <2>1. RegistryType' /\ MainType' /\ ManualType' /\ MaybeBuilt' = MaybeBuilt
    BY <1>0, <1>4, RegistryKept, MainKept, ManualKept DEF Stop
  <2>2. RunsType'
    BY <1>0, <1>4, SpendType DEF Stop, RunsType, IInv, Tagged
  <2>3. job' \in JobRecord(MaybeBuilt')
    BY <1>4, IdleType DEF Stop, MaybeBuilt
  <2> QED
    BY <2>1, <2>2, <2>3, TypePartsNext
<1>5. CASE RefuseSource \/ RefuseImages
  BY <1>0, <1>5, RefuseType DEF RefuseSource, RefuseImages, IInv, Tagged
<1>6. CASE Reserve
  <2>1. RegistryType' /\ MaybeBuilt' = MaybeBuilt
    BY <1>0, <1>6, RegistryKept DEF Reserve
  <2>2. RunsType'
    BY <1>0, <1>6 DEF Reserve, runs, RunsType
  <2>3. job.source \in Sources
    BY <1>6 DEF Reserve, IInv, Tagged
  <2>4. CASE Reserved(job.source) = {}
    <3>1. NextVersion \in Versions
      BY <1>0, <2>3, <2>4, TagsFit DEF Reserved, NextVersion, IInv
    <3>2. tags' = Append(tags, job.source) /\ main' = main
          /\ job' = [job EXCEPT !.pc = "load", !.version = NextVersion]
      BY <1>6, <2>4 DEF Reserve
    <3>3. MainType'
      <4>1. tags' \in Seq(Sources \cup {NoSource}) /\ DOMAIN tags' = DOMAIN tags \cup {Len(tags) + 1}
        BY <1>0, <2>3, <3>2 DEF MainType
      <4> QED
        BY <1>0, <3>1, <3>2, <4>1 DEF MainType, NextVersion
    <3>4. job' \in JobRecord(MaybeBuilt')
      BY <1>0, <2>1, <3>1, <3>2 DEF JobRecord, Steps
    <3>5. ManualType'
      <4>1. /\ contested' = contested \cup ({NextVersion} \cap {hand.version})
            /\ UNCHANGED <<hand, checkout>>
        BY <1>6, <2>4 DEF Reserve
      <4>2. DOMAIN tags' = DOMAIN tags \cup {NextVersion}
        BY <1>0, <3>2 DEF MainType, NextVersion
      <4>3. contested' \subseteq DOMAIN tags'
        BY <1>0, <4>1, <4>2 DEF ManualType
      <4> QED
        BY <1>0, <2>1, <4>1, <4>3 DEF ManualType
    <3> QED
      BY <2>1, <2>2, <3>3, <3>4, <3>5, TypePartsNext
  <2>5. CASE Reserved(job.source) # {}
    <3>1. UNCHANGED <<main, tags, manual>>
      BY <1>6, <2>5 DEF Reserve, manual
    <3>2. PICK v \in Reserved(job.source) : job' = [job EXCEPT !.pc = "load", !.version = v]
      BY <1>6, <2>5 DEF Reserve
    <3>4. v \in Versions
      BY <1>0, <3>2 DEF Reserved, MainType
    <3>5. job' \in JobRecord(MaybeBuilt')
      BY <1>0, <2>1, <3>2, <3>4 DEF JobRecord, Steps
    <3>6. MainType' /\ ManualType'
      BY <1>0, <2>1, <3>1, MainKept, ManualKept
    <3> QED
      BY <2>1, <2>2, <3>5, <3>6, TypePartsNext
  <2> QED
    BY <2>4, <2>5
<1>7. CASE LoadExisting
  <2>1. RegistryType' /\ MainType' /\ ManualType' /\ MaybeBuilt' = MaybeBuilt
    BY <1>0, <1>7, RegistryKept, MainKept, ManualKept DEF LoadExisting
  <2>2. RunsType'
    BY <1>0, <1>7 DEF LoadExisting, runs, RunsType
  <2>3. job' \in JobRecord(MaybeBuilt')
    BY <1>0, <1>7, <2>1 DEF LoadExisting, Existing, JobRecord, Steps
  <2> QED
    BY <2>1, <2>2, <2>3, TypePartsNext
<1>8. CASE PullStable
  <2>1. RegistryType' /\ MainType' /\ ManualType' /\ MaybeBuilt' = MaybeBuilt
    BY <1>0, <1>8, RegistryKept, MainKept, ManualKept DEF PullStable
  <2>2. RunsType'
    BY <1>0, <1>8 DEF PullStable, runs, RunsType
  <2>3. History \in SUBSET Versions
    <3>1. stable \in BuildIds /\ History = builds[stable].channel
      BY <1>0, <1>8 DEF PullStable, History, StableChannel, RegistryType, MaybeBuilt
    <3>2. builds[stable] \in BuildRecord
      BY <1>0, <3>1 DEF RegistryType, BuildIds
    <3> QED
      BY <3>1, <3>2 DEF BuildRecord
  <2>4. job' \in JobRecord(MaybeBuilt')
    BY <1>0, <1>8, <2>1, <2>3 DEF PullStable, JobRecord, Steps
  <2> QED
    BY <2>1, <2>2, <2>4, TypePartsNext
<1>9. CASE PullFallback
  <2>1. RegistryType' /\ MainType' /\ ManualType' /\ MaybeBuilt' = MaybeBuilt
    BY <1>0, <1>9, RegistryKept, MainKept, ManualKept DEF PullFallback
  <2>2. RunsType'
    BY <1>0, <1>9, SpendType DEF PullFallback, runs, RunsType
  <2> DEFINE channel == IF Fallback = None THEN CheckedIn
                        ELSE builds[images["catalog"][Fallback]].channel
  <2>3. channel \in SUBSET Versions
    <3>1. CASE Fallback = None
      BY <3>1, FallbackType
    <3>2. CASE Fallback # None
      <4>1. Fallback \in CheckedIn /\ Fallback \in Versions
        BY <3>2, FallbackType
      <4>2. Pushed("catalog", Fallback)
        BY <1>0, <4>1 DEF IInv, FirstImages, CheckedIn, Kinds
      <4>3. images["catalog"][Fallback] \in BuildIds
        BY <1>0, <4>1, <4>2 DEF RegistryType, MaybeBuilt, Kinds, Pushed
      <4>4. builds[images["catalog"][Fallback]] \in BuildRecord
        BY <1>0, <4>3 DEF RegistryType, BuildIds
      <4> QED
        BY <3>2, <4>4 DEF BuildRecord
    <3> QED
      BY <3>1, <3>2
  <2>4. job' = [job EXCEPT !.pc = "build", !.channel = channel]
    BY <1>9 DEF PullFallback
  <2>5. job' \in JobRecord(MaybeBuilt')
    BY <1>0, <2>1, <2>3, <2>4 DEF JobRecord, Steps
  <2> QED
    BY <2>1, <2>2, <2>5, TypePartsNext
<1>10. CASE Build
  <2>0. job.version \in Versions /\ job.source \in Sources
    BY <1>10, VersionType DEF Build, AfterReserve, AfterLoad
  <2>1. MainType' /\ RunsType'
    BY <1>0, <1>10, MainKept DEF Build, runs, RunsType
  <2>2. CASE job.existing = Kinds
    <3>1. UNCHANGED <<registry, tags, manual>> /\ job' = [job EXCEPT !.pc = "image"]
      BY <1>10, <2>2 DEF Build, registry
    <3>2. RegistryType' /\ ManualType' /\ MaybeBuilt' = MaybeBuilt
      BY <1>0, <3>1, RegistryKept, ManualKept
    <3>3. job' \in JobRecord(MaybeBuilt')
      BY <1>0, <3>1, <3>2 DEF JobRecord, Steps
    <3> QED
      BY <2>1, <3>2, <3>3, TypePartsNext
  <2>3. CASE job.existing # Kinds
    <3>1. /\ job' = [job EXCEPT !.pc = "image", !.build = Len(builds) + 1]
          /\ builds' = Append(builds, Generated)
          /\ UNCHANGED <<images, shas, latest, stable, tags, manual>>
      BY <1>10, <2>3 DEF Build
    <3>2. /\ builds' \in Seq(BuildRecord)
          /\ MaybeBuilt \subseteq MaybeBuilt' /\ Len(builds) + 1 \in MaybeBuilt'
      BY <1>0, <2>0, <3>1, GeneratedType, Appended
    <3>3. RegistryType' /\ ManualType'
      BY <1>0, <3>1, <3>2, ManualKept DEF RegistryType
    <3>4. job' \in JobRecord(MaybeBuilt')
      BY <1>0, <3>1, <3>2 DEF JobRecord, Steps
    <3> QED
      BY <2>1, <3>3, <3>4, TypePartsNext
  <2> QED
    BY <2>2, <2>3
<1>11. CASE PushImage
  <2> DEFINE kind == PushOrder[job.kind]
  <2>0. job.version \in Versions /\ job.source \in Sources
    BY <1>11, VersionType DEF PushImage, AfterReserve, AfterLoad
  <2>1. MainType' /\ RunsType' /\ ManualType' /\ MaybeBuilt' = MaybeBuilt
    BY <1>0, <1>11, MainKept, ManualKept DEF PushImage, runs, RunsType, MaybeBuilt, BuildIds
  <2>2. images' \in [Kinds -> [Versions -> MaybeBuilt]]
    <3>1. job.build \in MaybeBuilt /\ kind \in Kinds
      BY <1>0, Order DEF JobRecord
    <3> QED
      BY <1>0, <1>11, <2>0, <3>1 DEF PushImage, RegistryType
  <2>3. RegistryType'
    BY <1>0, <1>11, <2>1, <2>2 DEF PushImage, RegistryType
  <2>4. job' \in JobRecord(MaybeBuilt')
    BY <1>0, <1>11, <2>1 DEF PushImage, JobRecord, Steps
  <2> QED
    BY <2>1, <2>3, <2>4, TypePartsNext
<1>12. CASE PushSha
  <2> DEFINE kind == PushOrder[job.kind]
  <2>0. job.version \in Versions /\ job.source \in Sources
    BY <1>12, VersionType DEF PushSha, AfterReserve, AfterLoad
  <2>1. MainType' /\ RunsType' /\ ManualType' /\ MaybeBuilt' = MaybeBuilt
    BY <1>0, <1>12, MainKept, ManualKept DEF PushSha, runs, RunsType, MaybeBuilt, BuildIds
  <2>2. shas' \in [Kinds -> [Sources -> MaybeBuilt]]
    <3>1. kind \in Kinds /\ images[kind][job.version] \in MaybeBuilt
      BY <1>0, <2>0, Order DEF JobRecord, RegistryType
    <3> QED
      BY <1>0, <1>12, <2>0, <3>1 DEF PushSha, Digest, RegistryType
  <2>3. RegistryType'
    BY <1>0, <1>12, <2>1, <2>2 DEF PushSha, RegistryType
  <2>4. job' \in JobRecord(MaybeBuilt')
    <3>1. CASE job.kind < 3
      <4>1. job' = [job EXCEPT !.pc = "image", !.kind = @ + 1] /\ job.kind + 1 \in 1..3
        BY <1>0, <1>12, <3>1, Order DEF PushSha, JobRecord
      <4> QED
        BY <1>0, <2>1, <4>1 DEF JobRecord, Steps
    <3>2. CASE ~(job.kind < 3)
      <4>1. job' = [job EXCEPT !.pc = "aliases"]
        BY <1>12, <3>2, Order DEF PushSha
      <4> QED
        BY <1>0, <2>1, <4>1 DEF JobRecord, Steps
    <3> QED
      BY <3>1, <3>2
  <2> QED
    BY <2>1, <2>3, <2>4, TypePartsNext
<1>13. CASE CheckAliases
  <2>1. RegistryType' /\ MainType' /\ ManualType' /\ MaybeBuilt' = MaybeBuilt
    BY <1>0, <1>13, RegistryKept, MainKept, ManualKept DEF CheckAliases
  <2>2. RunsType'
    BY <1>0, <1>13 DEF CheckAliases, runs, RunsType
  <2>3. Idle \in JobRecord(MaybeBuilt')
    BY IdleType DEF MaybeBuilt
  <2>4. job' \in JobRecord(MaybeBuilt')
    BY <1>0, <1>13, <2>1, <2>3 DEF CheckAliases, JobRecord, Steps
  <2> QED
    BY <2>1, <2>2, <2>4, TypePartsNext
<1>14. CASE PushLatest \/ PushStable
  <2>0. job.source \in Sources
    BY <1>14, VersionType DEF PushLatest, PushStable, AfterReserve, AfterLoad
  <2>1. MainType' /\ RunsType' /\ ManualType' /\ MaybeBuilt' = MaybeBuilt
    BY <1>0, <1>14, MainKept, ManualKept DEF PushLatest, PushStable, runs, RunsType, MaybeBuilt, BuildIds
  <2>2. \A kind \in Kinds : shas[kind][job.source] \in MaybeBuilt
    BY <1>0, <2>0 DEF RegistryType
  <2>3. latest' \in MaybeBuilt /\ stable' \in MaybeBuilt
    BY <1>0, <1>14, <2>2 DEF PushLatest, PushStable, RegistryType, Kinds
  <2>4. RegistryType'
    BY <1>0, <1>14, <2>1, <2>3 DEF PushLatest, PushStable, RegistryType
  <2>5. Idle \in JobRecord(MaybeBuilt')
    BY IdleType DEF MaybeBuilt
  <2>6. job' \in JobRecord(MaybeBuilt')
    BY <1>0, <1>14, <2>1, <2>5 DEF PushLatest, PushStable, JobRecord, Steps
  <2> QED
    BY <2>1, <2>4, <2>6, TypePartsNext
<1>15. ASSUME NEW v \in Versions, GenerateByHand(v)
       PROVE  TypeOK'
  <2>1. PICK held \in SUBSET Versions :
          /\ checkout' = held \cup {v}
          /\ builds' = Append(builds, HandMade(held, v))
          /\ HandMade(held, v) \in BuildRecord
    BY <1>0, <1>15, Generates
  <2>2. /\ hand' = [version |-> v, build |-> Len(builds) + 1, kind |-> 1]
        /\ contested' = contested \cup ({v} \cap DOMAIN tags)
        /\ UNCHANGED <<main, tags, images, shas, latest, stable, runs, job>>
    BY <1>15 DEF GenerateByHand
  <2>3. /\ builds' \in Seq(BuildRecord)
        /\ MaybeBuilt \subseteq MaybeBuilt' /\ Len(builds) + 1 \in MaybeBuilt'
    BY <1>0, <2>1, Appended
  <2>4. RegistryType'
    BY <1>0, <2>2, <2>3 DEF RegistryType
  <2>5. MainType' /\ job' \in JobRecord(MaybeBuilt')
    BY <1>0, <2>2, <2>3, MainKept DEF JobRecord
  <2>6. RunsType'
    BY <1>0, <1>15, <2>2, SpendType DEF GenerateByHand, runs, RunsType
  <2>7. ManualType'
    BY <1>0, <2>1, <2>2, <2>3 DEF ManualType, HandRecord
  <2> QED
    BY <2>4, <2>5, <2>6, <2>7, TypePartsNext
<1>17. CASE PushByHand
  <2>1. MainType' /\ RunsType' /\ MaybeBuilt' = MaybeBuilt
    BY <1>0, <1>17, MainKept DEF PushByHand, runs, RunsType, MaybeBuilt, BuildIds
  <2>2. hand.version \in Versions /\ hand.build \in MaybeBuilt /\ PushOrder[hand.kind] \in Kinds
    BY <1>0, <1>17, Order DEF PushByHand, IInv, Handled, ManualType, HandRecord
  <2>3. images' \in [Kinds -> [Versions -> MaybeBuilt]]
    BY <1>0, <1>17, <2>2 DEF PushByHand, RegistryType
  <2>4. RegistryType'
    BY <1>0, <1>17, <2>1, <2>3 DEF PushByHand, RegistryType
  <2>5. job' \in JobRecord(MaybeBuilt')
    BY <1>0, <1>17, <2>1 DEF PushByHand
  <2>6. hand' \in HandRecord(MaybeBuilt')
    <3>1. NoHand \in HandRecord(MaybeBuilt')
      BY NoHandType DEF MaybeBuilt
    <3>2. hand.kind < 3 => [hand EXCEPT !.kind = @ + 1] \in HandRecord(MaybeBuilt')
      BY <1>0, <2>1 DEF ManualType, HandRecord
    <3> QED
      BY <1>17, <3>1, <3>2, Order DEF PushByHand
  <2>7. ManualType'
    BY <1>0, <1>17, <2>6 DEF PushByHand, ManualType
  <2> QED
    BY <2>1, <2>4, <2>5, <2>7, TypePartsNext
<1>18. CASE StopByHand
  <2>1. RegistryType' /\ MainType' /\ MaybeBuilt' = MaybeBuilt
    BY <1>0, <1>18, RegistryKept, MainKept DEF StopByHand
  <2>2. ManualType'
    <3>1. NoHand \in HandRecord(MaybeBuilt')
      BY NoHandType DEF MaybeBuilt
    <3> QED
      BY <1>0, <1>18, <3>1 DEF StopByHand, ManualType
  <2> QED
    BY <1>0, <1>18, <2>1, <2>2, TypePartsNext DEF StopByHand, runs, RunsType
<1>16. CASE UNCHANGED vars
  <2>1. RegistryType' /\ MainType' /\ ManualType' /\ MaybeBuilt' = MaybeBuilt
    BY <1>0, <1>16, RegistryKept, MainKept, ManualKept DEF vars
  <2> QED
    BY <1>0, <1>16, <2>1, TypePartsNext DEF vars, runs, RunsType
<1> QED
  BY <1>1, <1>2, <1>3, <1>4, <1>5, <1>6, <1>7, <1>8, <1>9, <1>10, <1>11, <1>12, <1>13, <1>14,
     <1>15, <1>16, <1>17, <1>18 DEF Next, JobStep, ByHand
-----------------------------------------------------------------------------
(* What a step leaves in place.                                             *)

\* The pipeline does not see a call of --build; it sees its images only.
LEMMA HandLeaves ==
  ByHand => UNCHANGED <<main, tags, shas, latest, stable, runs, job>>
<1>1. ASSUME NEW v \in Versions, GenerateByHand(v)
      PROVE  UNCHANGED <<main, tags, shas, latest, stable, runs, job>>
  BY <1>1 DEF GenerateByHand
<1>2. PushByHand \/ StopByHand => UNCHANGED <<main, tags, shas, latest, stable, runs, job>>
  BY DEF PushByHand, StopByHand, registry
<1> QED
  BY <1>1, <1>2 DEF ByHand

Grow ==
  /\ main' >= main
  /\ \A v \in DOMAIN tags : v \in DOMAIN tags' /\ tags'[v] = tags[v]
  /\ \A b \in BuildIds : b \in BuildIds' /\ builds'[b] = builds[b]
  /\ contested \subseteq contested'
  /\ \A kind \in Kinds, v \in Versions : Pushed(kind, v) => Pushed(kind, v)'
  /\ \A kind \in Kinds, v \in DOMAIN tags \ contested' :
       Pushed(kind, v) => images'[kind][v] = images[kind][v]

\* What the job pushes is its build, where nothing was unless by hand.
LEMMA PushImageKeeps ==
  ASSUME IInv, PushImage, NEW kind \in Kinds, NEW v \in Versions,
         images'[kind][v] # images[kind][v]
  PROVE  /\ kind = PushOrder[job.kind] /\ v = job.version
         /\ kind \notin job.existing /\ job.existing # Kinds
         /\ images'[kind][v] = job.build /\ job.build \in BuildIds /\ job.build # Missing
         /\ Source(job.build) = job.source /\ Version(job.build) = job.version
         /\ v \in DOMAIN tags /\ tags[v] = job.source
         /\ v \notin contested => ~Pushed(kind, v)
<1> DEFINE k == PushOrder[job.kind]
<1>1. /\ job.version \in Versions /\ job.kind \in 1..3 /\ k \in Kinds
      /\ images \in [Kinds -> [Versions -> MaybeBuilt]]
      /\ builds \in Seq(BuildRecord)
  BY VersionType, TypeParts, JobType, Order
     DEF IInv, PushImage, AfterReserve, AfterLoad, JobRecord, RegistryType
<1>2. k \notin job.existing
  BY DEF PushImage
<1>3. images' = [images EXCEPT ![k][job.version] = job.build]
  BY <1>2 DEF PushImage
<1>4. kind = k /\ v = job.version /\ images'[kind][v] = job.build
  BY <1>1, <1>3
<1>5. job.pc = "image" /\ ~Done(job.kind)
  BY <1>1 DEF PushImage, Done
<1>6. v \notin contested => ~Pushed(kind, v)
  BY <1>1, <1>2, <1>4, <1>5 DEF IInv, Prepared, AfterLoad
<1>7. /\ job.build \in BuildIds
      /\ Source(job.build) = job.source /\ Version(job.build) = job.version
  BY <1>1, <1>2, <1>5 DEF IInv, Prepared, AfterLoad, BuildIds
<1>8. job.build # Missing
  BY <1>1, <1>7 DEF BuildIds, Missing
<1>9. v \in DOMAIN tags /\ tags[v] = job.source
  BY <1>4, <1>5 DEF IInv, Tagged, AfterReserve, AfterLoad
<1> QED
  BY <1>1, <1>2, <1>4, <1>6, <1>7, <1>8, <1>9

\* What --build pushes is its own, and a reserved version is contested then.
LEMMA PushByHandKeeps ==
  ASSUME IInv, PushByHand, NEW kind \in Kinds, NEW v \in Versions,
         images'[kind][v] # images[kind][v]
  PROVE  /\ kind = PushOrder[hand.kind] /\ v = hand.version
         /\ images'[kind][v] = hand.build /\ hand.build \in BuildIds /\ hand.build # Missing
         /\ MadeByHand(hand.build) /\ Version(hand.build) = v
         /\ v \in DOMAIN tags => v \in contested
<1>1. /\ hand.version \in Versions /\ hand.build \in BuildIds /\ MadeByHand(hand.build)
      /\ builds[hand.build].version = hand.version
      /\ hand.version \in DOMAIN tags => hand.version \in contested
  BY DEF PushByHand, IInv, Handled, BuildIds
<1>2. /\ PushOrder[hand.kind] \in Kinds
      /\ images \in [Kinds -> [Versions -> MaybeBuilt]]
      /\ builds \in Seq(BuildRecord)
  BY TypeParts, Order DEF IInv, ManualType, HandRecord, RegistryType
<1>3. kind = PushOrder[hand.kind] /\ v = hand.version /\ images'[kind][v] = hand.build
  BY <1>1, <1>2 DEF PushByHand
<1>4. hand.build # Missing
  BY <1>1, <1>2 DEF BuildIds, Missing
<1> QED
  BY <1>1, <1>3, <1>4 DEF Version

\* An image that changes is the job's own, or made by hand.
LEMMA NewImage ==
  ASSUME IInv, [Next]_vars, NEW kind \in Kinds, NEW v \in Versions,
         images'[kind][v] # images[kind][v]
  PROVE  /\ Pushed(kind, v)'
         /\ Version(images[kind][v])' = v
         /\ \/ /\ PushImage /\ v = job.version /\ kind = PushOrder[job.kind]
               /\ v \in DOMAIN tags /\ tags[v] = job.source
               /\ images'[kind][v] = job.build /\ job.existing # Kinds
               /\ Source(images[kind][v])' = job.source
               /\ v \notin contested => ~Pushed(kind, v)
            \/ /\ PushByHand /\ v = hand.version /\ kind = PushOrder[hand.kind]
               /\ images'[kind][v] = hand.build /\ hand.build \in BuildIds
               /\ Source(images[kind][v])' = NoSource
               /\ v \in DOMAIN tags => v \in contested
<1>1. images' # images
  OBVIOUS
<1>2. CASE PushImage
  <2>1. builds' = builds
    BY <1>2 DEF PushImage
  <2> QED
    BY <1>2, <2>1, PushImageKeeps DEF Source, Version, Pushed
<1>3. CASE PushByHand
  <2>1. builds' = builds
    BY <1>3 DEF PushByHand
  <2> QED
    BY <1>3, <2>1, PushByHandKeeps DEF Source, Version, Pushed, MadeByHand
<1>4. ASSUME StopByHand \/ \E u \in Versions : GenerateByHand(u)
      PROVE  FALSE
  BY <1>1, <1>4 DEF StopByHand, GenerateByHand, registry
<1> QED
  BY <1>1, <1>2, <1>3, <1>4
     DEF Next, vars, registry, ByHand, JobStep, Merge, Dispatch, Rerun, ChecksPass, ChecksFail,
         Start, Stop, Reserve, RefuseSource, LoadExisting, RefuseImages, Refuse, PullStable,
         PullFallback, Build, PushSha, CheckAliases, PushLatest, PushStable

\* Builds are only added.
LEMMA BuildsGrow ==
  ASSUME IInv, [Next]_vars
  PROVE  \A b \in BuildIds : b \in BuildIds' /\ builds'[b] = builds[b]
<1>0. TypeOK
  BY DEF IInv
<1>1. ASSUME UNCHANGED builds
      PROVE  \A b \in BuildIds : b \in BuildIds' /\ builds'[b] = builds[b]
  BY <1>1 DEF BuildIds
<1>2. CASE Build
  <2>1. CASE job.existing = Kinds
    BY <1>1, <1>2, <2>1 DEF Build
  <2>2. CASE job.existing # Kinds
    <3>1. Generated \in BuildRecord
      BY <1>0, <1>2, VersionType, GeneratedType DEF Build, AfterReserve, AfterLoad
    <3>2. builds' = Append(builds, Generated)
      BY <1>2, <2>2 DEF Build
    <3> QED
      BY <1>0, <3>1, <3>2, Appended
  <2> QED
    BY <2>1, <2>2
<1>3. ASSUME NEW v \in Versions, GenerateByHand(v)
      PROVE  \A b \in BuildIds : b \in BuildIds' /\ builds'[b] = builds[b]
  <2>1. PICK held \in SUBSET Versions :
          builds' = Append(builds, HandMade(held, v)) /\ HandMade(held, v) \in BuildRecord
    BY <1>0, <1>3, Generates
  <2> QED
    BY <1>0, <2>1, Appended
<1>4. CASE ~Build /\ ~\E v \in Versions : GenerateByHand(v)
  <2>1. UNCHANGED builds
    BY <1>4 DEF Next, vars, registry, ByHand, PushByHand, StopByHand, JobStep, Merge, Dispatch,
          Rerun, ChecksPass, ChecksFail, Start, Stop, Reserve, RefuseSource, LoadExisting,
          RefuseImages, Refuse, PullStable, PullFallback, PushImage, PushSha, CheckAliases,
          PushLatest, PushStable
  <2> QED
    BY <1>1, <2>1
<1> QED
  BY <1>2, <1>3, <1>4

\* What makes a version contested, and what reserves one.
LEMMA Contests ==
  ASSUME IInv, [Next]_vars
  PROVE  /\ contested \subseteq contested'
         /\ \/ UNCHANGED <<tags, contested>>
            \/ Reserve
            \/ \E v \in Versions : GenerateByHand(v) /\ UNCHANGED tags
<1>1. CASE Reserve
  BY <1>1 DEF Reserve
<1>2. CASE \E v \in Versions : GenerateByHand(v)
  BY <1>2 DEF GenerateByHand
<1>3. CASE ~Reserve /\ ~\E v \in Versions : GenerateByHand(v)
  BY <1>3 DEF Next, vars, manual, ByHand, PushByHand, StopByHand, JobStep, Merge, Dispatch,
        Rerun, ChecksPass, ChecksFail, Start, Stop, RefuseSource, LoadExisting,
        RefuseImages, Refuse, PullStable, PullFallback, Build, PushImage, PushSha, CheckAliases,
        PushLatest, PushStable
<1> QED
  BY <1>1, <1>2, <1>3

LEMMA NextGrows ==
  ASSUME IInv, [Next]_vars
  PROVE  Grow
<1>0. TypeOK /\ MainType /\ RegistryType
  BY TypeParts DEF IInv
<1>1. main' >= main
  <2>1. CASE Merge
    BY <1>0, <2>1 DEF Merge, MainType
  <2>2. CASE ~Merge
    <3>1. main' = main
      BY <2>2, HandLeaves
         DEF Next, vars, JobStep, Dispatch, Rerun, ChecksPass, ChecksFail, Start, Stop, Reserve,
             RefuseSource, LoadExisting, RefuseImages, Refuse, PullStable, PullFallback, Build,
             PushImage, PushSha, CheckAliases, PushLatest, PushStable
    <3> QED
      BY <1>0, <3>1 DEF MainType
  <2> QED
    BY <2>1, <2>2
<1>2. \A v \in DOMAIN tags : v \in DOMAIN tags' /\ tags'[v] = tags[v]
  <2>1. CASE UNCHANGED tags
    BY <2>1
  <2>2. CASE tags' # tags
    <3>1. Reserve
      BY <2>2, Contests
    <3>2. tags' = Append(tags, job.source) /\ job.source \in Sources
      BY <2>2, <3>1 DEF Reserve, IInv, Tagged
    <3> QED
      BY <1>0, <3>2 DEF MainType
  <2> QED
    BY <2>1, <2>2
<1>3. \A kind \in Kinds, v \in Versions : Pushed(kind, v) => Pushed(kind, v)'
  BY NewImage DEF Pushed
<1>4. ASSUME NEW kind \in Kinds, NEW v \in DOMAIN tags \ contested',
             Pushed(kind, v), images'[kind][v] # images[kind][v]
      PROVE  FALSE
  <2>1. v \in Versions /\ v \notin contested
    BY <1>0, Contests DEF MainType
  <2> QED
    BY <1>4, <2>1, NewImage
<1> QED
  BY <1>1, <1>2, <1>3, <1>4, BuildsGrow, Contests DEF Grow

\* A pushed image of a version nobody contests is still there after a step and
\* tells the same of itself.
LEMMA ImageKept ==
  ASSUME TypeOK, Grow, NEW kind \in Kinds, NEW v \in DOMAIN tags \ contested', Pushed(kind, v)
  PROVE  /\ images[kind][v] \in BuildIds
         /\ images'[kind][v] = images[kind][v]
         /\ Pushed(kind, v)'
         /\ Source(images[kind][v])' = Source(images[kind][v])
         /\ Version(images[kind][v])' = Version(images[kind][v])
<1>1. v \in Versions /\ images[kind][v] \in BuildIds /\ images'[kind][v] = images[kind][v]
  BY TypeParts DEF RegistryType, MainType, MaybeBuilt, Pushed, Grow
<1> QED
  BY <1>1 DEF Grow, Pushed, Source, Version

LEMMA PublishedKept ==
  ASSUME TypeOK, Grow, NEW v \in DOMAIN tags \ contested', Published(v)
  PROVE  Published(v)'
<1>1. tags'[v] = tags[v]
  BY DEF Grow
<1>2. ASSUME NEW kind \in Kinds
      PROVE  Pushed(kind, v)' /\ Source(images[kind][v])' = tags'[v]
  BY <1>1, ImageKept DEF Published
<1> QED
  BY <1>2 DEF Published

-----------------------------------------------------------------------------
(* The invariant.                                                           *)

LEMMA LabelledNext ==
  ASSUME IInv, [Next]_vars
  PROVE  Labelled'
<1>0. TypeOK /\ Grow /\ RegistryType
  BY NextGrows, TypeParts DEF IInv
<1> SUFFICES ASSUME NEW kind \in Kinds, NEW v \in Versions, Pushed(kind, v)'
             PROVE  /\ Version(images[kind][v])' = v
                    /\ \/ Source(images[kind][v])' = NoSource
                       \/ v \in DOMAIN tags' /\ Source(images[kind][v])' = tags'[v]
  BY DEF Labelled
<1>1. CASE images'[kind][v] = images[kind][v]
  <2>1. Pushed(kind, v) /\ images[kind][v] \in BuildIds
    BY <1>0, <1>1 DEF Pushed, RegistryType, MaybeBuilt
  <2>2. /\ Source(images[kind][v])' = Source(images[kind][v])
        /\ Version(images[kind][v])' = Version(images[kind][v])
    BY <1>0, <1>1, <2>1 DEF Grow, Source, Version
  <2> QED
    BY <1>0, <2>1, <2>2 DEF IInv, Labelled, Grow
<1>2. CASE images'[kind][v] # images[kind][v]
  BY <1>0, <1>2, NewImage DEF Grow
<1> QED
  BY <1>1, <1>2

LEMMA FirstImagesNext ==
  ASSUME IInv, [Next]_vars
  PROVE  FirstImages'
<1>0. Grow /\ 1..Initial \subseteq Versions /\ 1..Initial \subseteq DOMAIN tags
  BY NextGrows, FallbackType, TypeParts, InitialAssumption DEF CheckedIn, IInv, Tagged, MainType
<1> SUFFICES ASSUME NEW kind \in Kinds, NEW v \in 1..Initial
             PROVE  Pushed(kind, v)' /\ (v \notin contested' => images'[kind][v] = v)
  BY DEF FirstImages
<1>1. Pushed(kind, v) /\ (v \notin contested => images[kind][v] = v)
  BY DEF IInv, FirstImages
<1> QED
  BY <1>0, <1>1 DEF Grow

LEMMA HandledNext ==
  ASSUME IInv, [Next]_vars
  PROVE  Handled'
<1>0. /\ TypeOK /\ Grow /\ Handled /\ Initial \in Nat
      /\ RegistryType /\ MainType
      /\ Len(builds) \in Nat /\ BuildIds = 1..Len(builds)
      /\ Len(builds') \in Nat /\ BuildIds' = 1..Len(builds')
  <2>1. TypeOK /\ TypeOK'
    BY TypeNext DEF IInv
  <2>2. builds \in Seq(BuildRecord) /\ builds' \in Seq(BuildRecord)
    BY <2>1 DEF TypeOK, BuildRecord
  <2> QED
    BY <2>1, <2>2, NextGrows, TypeParts, InitialAssumption DEF IInv, BuildIds
<1>1. Len(builds') >= Initial /\ \A b \in 1..Initial : builds'[b].version = b
  <2>1. ASSUME NEW b \in 1..Initial
        PROVE  b \in BuildIds' /\ builds'[b].version = b
    BY <1>0 DEF Handled, Grow
  <2>2. Initial # 0 => Initial \in BuildIds'
    BY <1>0, <2>1
  <2> QED
    BY <1>0, <2>1, <2>2
<1> SUFFICES ASSUME hand' # NoHand
             PROVE  /\ hand'.version \in Versions /\ hand'.build \in DOMAIN builds'
                    /\ hand'.build > Initial /\ builds'[hand'.build].source = NoSource
                    /\ builds'[hand'.build].version = hand'.version
                    /\ hand'.version \in DOMAIN tags' => hand'.version \in contested'
  BY <1>1 DEF Handled, MadeByHand
<1>2. ASSUME NEW v \in Versions, GenerateByHand(v)
      PROVE  /\ hand'.version \in Versions /\ hand'.build \in DOMAIN builds'
             /\ hand'.build > Initial /\ builds'[hand'.build].source = NoSource
             /\ builds'[hand'.build].version = hand'.version
             /\ hand'.version \in DOMAIN tags' => hand'.version \in contested'
  <2>1. PICK held \in SUBSET Versions :
          builds' = Append(builds, HandMade(held, v)) /\ HandMade(held, v) \in BuildRecord
    BY <1>0, <1>2, Generates
  <2>2. builds'[Len(builds) + 1] = HandMade(held, v) /\ Len(builds) + 1 \in DOMAIN builds'
    BY <1>0, <2>1, Appended DEF BuildIds
  <2>3. hand'.version = v /\ hand'.build = Len(builds) + 1 /\ UNCHANGED tags
        /\ contested' = contested \cup ({v} \cap DOMAIN tags)
    BY <1>2 DEF GenerateByHand
  <2>4. Len(builds) \in Nat
    BY <1>0 DEF RegistryType
  <2> QED
    BY <1>0, <2>2, <2>3, <2>4 DEF HandMade, Handled
<1>3. CASE ~\E v \in Versions : GenerateByHand(v)
  <2>1. /\ hand # NoHand
        /\ hand'.version = hand.version /\ hand'.build = hand.build
    <3>1. CASE PushByHand
      <4>1. hand # NoHand /\ hand' = [hand EXCEPT !.kind = @ + 1]
        BY <3>1 DEF PushByHand
      <4>2. hand \in HandRecord(MaybeBuilt)
        BY <1>0, TypeParts DEF ManualType
      <4> QED
        BY <4>1, <4>2 DEF HandRecord
    <3>2. CASE UNCHANGED hand
      BY <3>2
    <3> QED
      BY <1>3, <3>1, <3>2
         DEF Next, vars, manual, ByHand, StopByHand, JobStep, Merge, Dispatch,
             Rerun, ChecksPass, ChecksFail, Start, Stop, Reserve, RefuseSource, LoadExisting,
             RefuseImages, Refuse, PullStable, PullFallback, Build, PushImage, PushSha,
             CheckAliases, PushLatest, PushStable
  <2>2. /\ hand.version \in Versions /\ hand.build \in DOMAIN builds
        /\ hand.build > Initial /\ builds[hand.build].source = NoSource
        /\ builds[hand.build].version = hand.version
        /\ hand.version \in DOMAIN tags => hand.version \in contested
    BY <1>0, <2>1 DEF Handled, MadeByHand
  <2>3. hand.build \in DOMAIN builds' /\ builds'[hand.build] = builds[hand.build]
    BY <1>0, <2>2 DEF Grow, BuildIds
  <2>4. ASSUME hand.version \in DOMAIN tags'
        PROVE  hand.version \in contested'
    <3>1. CASE hand.version \in DOMAIN tags
      BY <1>0, <2>2, <3>1 DEF Grow
    <3>2. CASE hand.version \notin DOMAIN tags
      <4>1. Reserve /\ tags' # tags
        BY <1>3, <2>4, <3>2, Contests
      <4>2. /\ tags' = Append(tags, job.source)
            /\ contested' = contested \cup ({NextVersion} \cap {hand.version})
        BY <4>1 DEF Reserve
      <4>3. DOMAIN tags' = DOMAIN tags \cup {NextVersion}
        <5>1. job.source \in Sources
          BY <4>1 DEF Reserve, IInv, Tagged
        <5> QED
          BY <1>0, <4>2, <5>1 DEF NextVersion, MainType
      <4> QED
        BY <2>4, <3>2, <4>2, <4>3
    <3> QED
      BY <3>1, <3>2
  <2> QED
    BY <2>1, <2>2, <2>3, <2>4
<1> QED
  BY <1>2, <1>3

\* What the job is about does not change while it runs.
LEMMA JobKeeps ==
  ASSUME IInv, [Next]_vars, ~Reserve, ~Start
  PROVE  \/ job' = Idle
         \/ /\ job'.source = job.source /\ job'.version = job.version
            /\ job.pc = "idle" => job'.pc = "idle"
            /\ job'.pc \in AfterReserve => job.pc \in AfterReserve
<1>0. job \in JobRecord(MaybeBuilt)
  BY JobType DEF IInv
<1>1. CASE UNCHANGED job
  BY <1>1
<1>2. CASE Stop \/ RefuseSource \/ RefuseImages \/ PushStable
  BY <1>2 DEF Stop, RefuseSource, RefuseImages, Refuse, PushStable
<1>3. CASE LoadExisting \/ PullStable \/ PullFallback
  BY <1>0, <1>3 DEF LoadExisting, PullStable, PullFallback, JobRecord, AfterReserve, AfterLoad
<1>4. CASE Build \/ PushImage \/ PushSha
  BY <1>0, <1>4 DEF Build, PushImage, PushSha, JobRecord, AfterReserve, AfterLoad
<1>5. CASE CheckAliases \/ PushLatest
  BY <1>0, <1>5 DEF CheckAliases, PushLatest, JobRecord, AfterReserve, AfterLoad
<1> QED
  BY <1>1, <1>2, <1>3, <1>4, <1>5, HandLeaves
     DEF Next, vars, JobStep, Merge, Dispatch, Rerun, ChecksPass, ChecksFail

LEMMA TaggedNext ==
  ASSUME IInv, [Next]_vars
  PROVE  Tagged'
<1>0. /\ TypeOK /\ MainType /\ Tagged /\ Grow /\ job \in JobRecord(MaybeBuilt)
      /\ Initial \in Nat /\ MaxMerges \in Nat
  BY TypeParts, NextGrows, InitialAssumption, AllowedAssumption DEF IInv
<1>1. CASE Reserve
  <2>1. job.source \in Sources /\ job.source <= main /\ UNCHANGED main
    BY <1>0, <1>1 DEF Reserve, Releasable, Tagged
  <2>2. CASE Reserved(job.source) = {}
    <3>1. tags' = Append(tags, job.source) /\ job' = [job EXCEPT !.pc = "load", !.version = Len(tags) + 1]
      BY <1>1, <2>2 DEF Reserve, NextVersion
    <3>2. /\ Len(tags') = Len(tags) + 1
          /\ DOMAIN tags' = DOMAIN tags \cup {Len(tags) + 1}
          /\ \A v \in DOMAIN tags : tags'[v] = tags[v]
          /\ tags'[Len(tags) + 1] = job.source
      BY <1>0, <3>1 DEF MainType
    <3>3. \A v \in DOMAIN tags : tags[v] # job.source
      BY <2>2 DEF Reserved
    <3>4. OneVersionPerSource'
      BY <1>0, <3>2, <3>3 DEF Tagged, OneVersionPerSource
    <3>5. /\ Len(tags) \in Nat /\ Len(tags) + 1 > Initial /\ Len(tags') >= Initial
      BY <1>0, <3>2 DEF MainType, Tagged
    <3>6. job'.source = job.source /\ job'.version = Len(tags) + 1 /\ job'.pc = "load"
      BY <1>0, <3>1 DEF JobRecord
    <3>7. \A v \in DOMAIN tags' : v <= Initial => tags'[v] = NoSource
      BY <1>0, <3>2, <3>5 DEF Tagged
    <3>8. \A v \in DOMAIN tags' : v > Initial => tags'[v] \in Sources /\ tags'[v] <= main'
      BY <1>0, <2>1, <3>2, <3>5 DEF Tagged
    <3> QED
      BY <2>1, <3>2, <3>4, <3>5, <3>6, <3>7, <3>8 DEF Tagged
  <2>3. CASE Reserved(job.source) # {}
    <3>1. UNCHANGED tags
      BY <1>1, <2>3 DEF Reserve
    <3>2. PICK v \in Reserved(job.source) : job' = [job EXCEPT !.pc = "load", !.version = v]
      BY <1>1, <2>3 DEF Reserve
    <3>3. v \in DOMAIN tags /\ tags[v] = job.source /\ job'.source = job.source /\ job'.version = v
      BY <1>0, <3>2 DEF Reserved, JobRecord
    <3> QED
      BY <1>0, <2>1, <3>1, <3>3 DEF Tagged, OneVersionPerSource
  <2> QED
    BY <2>2, <2>3
<1>2. CASE ~Reserve
  <2>1. UNCHANGED tags
    BY <1>2, Contests
  <2>2. main' >= main /\ main' \in 0..MaxMerges /\ main \in 0..MaxMerges
    BY <1>0, TypeNext DEF Grow, TypeOK
  <2>3. /\ Len(tags') >= Initial
        /\ \A v \in DOMAIN tags' : v <= Initial => tags'[v] = NoSource
        /\ OneVersionPerSource'
    BY <1>0, <2>1 DEF Tagged, OneVersionPerSource
  <2>4. \A v \in DOMAIN tags' : v > Initial => tags'[v] \in Sources /\ tags'[v] <= main'
    BY <1>0, <2>1, <2>2 DEF Tagged, Sources
  <2>5. /\ job'.pc # "idle" => job'.source \in Sources
        /\ job'.pc \in AfterReserve =>
             job'.version \in DOMAIN tags' /\ tags'[job'.version] = job'.source
    <3>1. CASE Start
      <4>1. Head(queue) \in Sources
        BY <1>0, <3>1 DEF Start, TypeOK
      <4> QED
        BY <3>1, <4>1 DEF Start, Idle, AfterReserve, AfterLoad
    <3>2. CASE job' = Idle
      BY <3>2 DEF Idle, AfterReserve, AfterLoad
    <3>3. CASE ~Start /\ job' # Idle
      BY <1>0, <1>2, <2>1, <3>3, JobKeeps DEF Tagged
    <3> QED
      BY <3>1, <3>2, <3>3
  <2> QED
    BY <2>3, <2>4, <2>5 DEF Tagged
<1> QED
  BY <1>1, <1>2

\* A job that goes on finds its own images as they were.
LEMMA OwnKept ==
  ASSUME IInv, [Next]_vars, job.version \in DOMAIN tags \ contested',
         UNCHANGED <<job.version, job.source>>, NEW kind \in Kinds, Own(kind)
  PROVE  Own(kind)'
BY NextGrows, ImageKept DEF IInv, Own

\* Nobody pushes for the version the job holds but the job, unless by hand.
LEMMA StillMissing ==
  ASSUME IInv, [Next]_vars, job.pc \in AfterReserve, UNCHANGED job.version, ~PushImage,
         job.version \notin contested, NEW kind \in Kinds, ~Pushed(kind, job.version)
  PROVE  ~Pushed(kind, job.version)'
<1>1. PICK v \in Versions : v = job.version /\ v \in DOMAIN tags
  BY VersionType DEF IInv, Tagged
<1>2. images'[kind][v] = images[kind][v]
  BY <1>1, NewImage
<1> QED
  BY <1>1, <1>2 DEF Pushed

LEMMA PreparedNext ==
  ASSUME IInv, [Next]_vars
  PROVE  Prepared'
<1>0. /\ TypeOK /\ Prepared /\ Tagged /\ Grow /\ job \in JobRecord(MaybeBuilt)
      /\ \A i \in 1..3 : PushOrder[i] \in Kinds
  BY TypeParts, NextGrows, Order DEF IInv
<1>1. CASE job' = Idle
  BY <1>1 DEF Prepared, Idle, AfterLoad
<1>2. CASE Start
  BY <1>2 DEF Start, Prepared, Idle, AfterLoad
<1>3. CASE Reserve
  <2>1. job'.pc = "load" /\ job'.kind = job.kind
    BY <1>0, <1>3 DEF Reserve, JobRecord
  <2> QED
    BY <1>0, <1>3, <2>1 DEF Prepared, Reserve, AfterLoad
<1>4. CASE LoadExisting
  <2>1. /\ job'.pc = "history" /\ job'.existing = Existing /\ job'.kind = job.kind
        /\ job'.version = job.version /\ job'.source = job.source /\ job.kind = 1
        /\ UNCHANGED <<images, builds>>
    BY <1>0, <1>4 DEF LoadExisting, Prepared, JobRecord, registry
  <2>2. \A kind \in Existing : kind \in Kinds /\ Pushed(kind, job.version)
          /\ builds[images[kind][job.version]].source = job.source
    BY <1>4 DEF LoadExisting, Existing, Provenance
  <2>3. \A kind \in job'.existing : Own(kind)' /\ Pushed(kind, job.version)'
    BY <2>1, <2>2 DEF Own, Pushed, Source
  <2>4. \A i \in 1..3 : ~Done(i)'
    BY <2>1 DEF Done
  <2>5. \A i \in 1..3 : PushOrder[i] \notin job'.existing => ~Pushed(PushOrder[i], job.version)'
    BY <1>0, <2>1 DEF Existing, Pushed
  <2> QED
    BY <2>1, <2>3, <2>4, <2>5 DEF Prepared, Pushed
<1>5. ASSUME job' # Idle, ~Start, ~Reserve, ~LoadExisting, job'.pc \in AfterLoad
      PROVE  Prepared'
  <2>1. /\ job.pc \in AfterLoad /\ job.pc \in AfterReserve
        /\ UNCHANGED <<job.version, job.source, job.existing>>
    BY <1>0, <1>5, HandLeaves
       DEF Next, vars, JobStep, Merge, Dispatch, Rerun, ChecksPass, ChecksFail, Stop,
           RefuseSource, RefuseImages, Refuse, PullStable, PullFallback, Build, PushImage, PushSha,
           CheckAliases, PushLatest, PushStable, JobRecord, AfterLoad, AfterReserve
  <2>2. job.version \in Versions /\ job.version \in DOMAIN tags
    BY <2>1, VersionType DEF IInv, Tagged
  <2> DEFINE Free == job.version \notin contested'
  <2>3. Free => job.version \notin contested
    BY <1>0 DEF Grow
  <2>30. \A kind \in job'.existing : Pushed(kind, job.version)' /\ (Free => Own(kind)')
    BY <1>0, <2>1, <2>2, <2>3, OwnKept DEF Prepared, JobRecord, Grow
  <2>4. \A i \in 1..3 : Done(i) =>
          Pushed(PushOrder[i], job.version)' /\ (Free => Own(PushOrder[i])')
    BY <1>0, <2>1, <2>2, <2>3, OwnKept DEF Prepared, Grow
  <2>5. Free /\ ~PushImage =>
          \A i \in 1..3 : ~Done(i) /\ PushOrder[i] \notin job'.existing =>
                            ~Pushed(PushOrder[i], job.version)'
    BY <1>0, <2>1, <2>3, StillMissing DEF Prepared
  <2>6. job.pc \in {"image", "sha"} /\ job.existing # Kinds =>
          /\ job.build \in DOMAIN builds'
          /\ builds'[job.build].source = job.source /\ builds'[job.build].version = job.version
          /\ job.build # Missing
    <3>1. Missing \notin BuildIds
      BY <1>0, TypeParts DEF RegistryType, BuildIds, Missing
    <3> QED
      BY <1>0, <2>1, <3>1 DEF Prepared, Grow, BuildIds, Source, Version
  <2> DEFINE Rest ==
        /\ job'.pc \in {"reserve", "load", "history", "build"} => job'.kind = 1
        /\ \A i \in 1..3 : Done(i)' =>
             Pushed(PushOrder[i], job.version)' /\ (Free => Own(PushOrder[i])')
        /\ Free =>
             \A i \in 1..3 : ~Done(i)' /\ PushOrder[i] \notin job'.existing =>
                               ~Pushed(PushOrder[i], job.version)'
        /\ job'.pc \in {"image", "sha"} /\ job'.existing # Kinds =>
             /\ job'.build \in DOMAIN builds'
             /\ builds'[job'.build].source = job.source /\ builds'[job'.build].version = job.version
             /\ job'.build # Missing
  <2>7. ASSUME UNCHANGED job PROVE Rest
    <3>1. ~PushImage
      BY <1>0, <2>7 DEF PushImage, JobRecord
    <3>2. \A i \in 1..3 : Done(i)' <=> Done(i)
      BY <2>7 DEF Done
    <3> QED
      BY <1>0, <2>4, <2>5, <2>6, <2>7, <3>1, <3>2 DEF Prepared
  <2>8. ASSUME PullStable \/ PullFallback PROVE Rest
    <3>1. job'.pc = "build" /\ job.pc = "history" /\ job'.kind = job.kind /\ ~PushImage
      BY <1>0, <2>8 DEF PullStable, PullFallback, PushImage, JobRecord
    <3>2. \A i \in 1..3 : ~Done(i)' /\ ~Done(i)
      BY <3>1 DEF Done
    <3> QED
      BY <1>0, <2>5, <3>1, <3>2 DEF Prepared
  <2>9. ASSUME Build PROVE Rest
    <3>1. job'.pc = "image" /\ job.pc = "build" /\ job'.kind = 1 /\ ~PushImage
      BY <1>0, <2>9 DEF Build, PushImage, JobRecord, Prepared
    <3>2. \A i \in 1..3 : ~Done(i)' /\ ~Done(i)
      BY <3>1 DEF Done
    <3>3. ASSUME job'.existing # Kinds
          PROVE  /\ job'.build \in DOMAIN builds'
                 /\ builds'[job'.build].source = job.source
                 /\ builds'[job'.build].version = job.version
                 /\ job'.build # Missing
      <4>1. job' = [job EXCEPT !.pc = "image", !.build = Len(builds) + 1]
            /\ builds' = Append(builds, Generated)
        BY <2>1, <2>9, <3>3 DEF Build
      <4>2. Generated \in BuildRecord
        BY <1>0, <2>1, <2>2, VersionType, GeneratedType
      <4>3. job'.build = Len(builds) + 1 /\ Len(builds) \in Nat
        BY <1>0, <4>1, TypeParts DEF JobRecord, RegistryType
      <4>4. Len(builds) + 1 \in BuildIds' /\ builds'[Len(builds) + 1] = Generated
        BY <1>0, <4>1, <4>2, Appended
      <4> QED
        BY <4>3, <4>4 DEF BuildIds, Generated, Missing
    <3> QED
      BY <2>5, <3>1, <3>2, <3>3
  <2>10. ASSUME PushImage PROVE Rest
    <3>1. job'.pc = "sha" /\ job.pc = "image" /\ job'.kind = job.kind /\ job'.build = job.build
      BY <1>0, <2>10 DEF PushImage, JobRecord
    <3>2. \A i \in 1..3 : Done(i)' <=> Done(i) \/ i = job.kind
      BY <1>0, <3>1 DEF Done, JobRecord
    <3>3. ASSUME NEW kind \in Kinds, kind = PushOrder[job.kind]
          PROVE  Pushed(kind, job.version)' /\ (Free => Own(kind)')
      <4>1. CASE kind \in job.existing
        BY <2>1, <2>30, <4>1
      <4>2. CASE kind \notin job.existing
        <5>1. images'[kind][job.version] = job.build
          BY <1>0, <2>2, <2>10, <3>3, <4>2, TypeParts DEF PushImage, RegistryType
        <5>2. job.existing # Kinds
          BY <4>2
        <5> QED
          BY <2>1, <2>6, <2>10, <5>1, <5>2 DEF PushImage, Own, Pushed, Source, Missing
      <4> QED
        BY <4>1, <4>2
    <3>4. ASSUME Free, NEW i \in 1..3, ~Done(i), i # job.kind, PushOrder[i] \notin job.existing
          PROVE  ~Pushed(PushOrder[i], job.version)'
      <4>1. ~Pushed(PushOrder[i], job.version)
        BY <1>0, <2>1, <2>3, <3>4 DEF Prepared
      <4>2. PushOrder[i] # PushOrder[job.kind]
        BY <1>0, <3>4, Order DEF JobRecord
      <4>3. images'[PushOrder[i]][job.version] = images[PushOrder[i]][job.version]
        BY <1>0, <2>2, <2>10, <4>2, PushImageKeeps
      <4> QED
        BY <2>1, <4>1, <4>3 DEF Pushed
    <3>5. \A i \in 1..3 : Done(i)' =>
            Pushed(PushOrder[i], job.version)' /\ (Free => Own(PushOrder[i])')
      BY <1>0, <2>4, <3>2, <3>3
    <3>6. Free =>
            \A i \in 1..3 : ~Done(i)' /\ PushOrder[i] \notin job'.existing =>
                              ~Pushed(PushOrder[i], job.version)'
      BY <2>1, <3>2, <3>4
    <3> QED
      BY <2>6, <2>1, <3>1, <3>5, <3>6
  <2>11. ASSUME PushSha PROVE Rest
    <3>0. /\ job.pc = "sha" /\ ~PushImage /\ job.kind \in 1..3
          /\ \/ job.kind < 3 /\ job' = [job EXCEPT !.pc = "image", !.kind = @ + 1]
             \/ job.kind = 3 /\ job' = [job EXCEPT !.pc = "aliases"]
      BY <1>0, <2>11, Order DEF PushSha, PushImage, JobRecord
    <3>1. job'.build = job.build /\ job'.pc \in {"image", "aliases"}
      BY <1>0, <3>0 DEF JobRecord
    <3>2. \A i \in 1..3 : Done(i)' <=> Done(i)
      <4>1. ASSUME job.kind < 3
            PROVE  job'.pc = "image" /\ job'.kind = job.kind + 1
        <5>1. job' = [job EXCEPT !.pc = "image", !.kind = @ + 1]
          BY <3>0, <4>1
        <5> QED
          BY <1>0, <5>1 DEF JobRecord
      <4>2. job.kind = 3 => job'.pc = "aliases"
        BY <1>0, <3>0 DEF JobRecord
      <4> QED
        BY <3>0, <4>1, <4>2 DEF Done
    <3> QED
      BY <2>1, <2>4, <2>5, <2>6, <3>0, <3>1, <3>2
  <2>12. ASSUME CheckAliases \/ PushLatest PROVE Rest
    <3>1. ~PushImage /\ job.pc \in {"aliases", "latest"} /\ job'.pc \in {"latest", "stable"}
      BY <1>0, <1>5, <2>12 DEF CheckAliases, PushLatest, PushImage, JobRecord
    <3>2. \A i \in 1..3 : Done(i)' /\ Done(i)
      BY <3>1 DEF Done
    <3> QED
      BY <2>4, <3>1, <3>2
  <2>13. Rest
    BY <1>5, <2>7, <2>8, <2>9, <2>10, <2>11, <2>12, HandLeaves
       DEF Next, vars, JobStep, Merge, Dispatch, Rerun, ChecksPass, ChecksFail, Stop,
           RefuseSource, RefuseImages, Refuse, PushStable
  <2>14. /\ Source(job.build)' = IF job'.build = Missing THEN NoSource ELSE builds'[job'.build].source
         /\ Version(job.build)' = IF job'.build = Missing THEN None ELSE builds'[job'.build].version
    BY DEF Source, Version
  <2> HIDE DEF Rest
  <2>15. \A kind \in Kinds : Pushed(kind, job.version)' <=> images'[kind][job.version] # Missing
    BY <2>1 DEF Pushed
  <2> QED
    BY <1>0, <2>1, <2>13, <2>14, <2>30 DEF Prepared, Rest
<1>6. ASSUME job' # Idle, ~Start, ~Reserve, ~LoadExisting, job'.pc \notin AfterLoad
      PROVE  Prepared'
  <2>1. UNCHANGED job
    BY <1>0, <1>6, HandLeaves
       DEF Next, vars, JobStep, Merge, Dispatch, Rerun, ChecksPass, ChecksFail, Stop,
           RefuseSource, RefuseImages, Refuse, PullStable, PullFallback, Build, PushImage, PushSha,
           CheckAliases, PushLatest, PushStable, JobRecord, AfterLoad
  <2> QED
    BY <1>0, <1>6, <2>1 DEF Prepared
<1> QED
  BY <1>1, <1>2, <1>3, <1>4, <1>5, <1>6

\* A commit tag is written only by the job of the commit, and stays.
LEMMA ShaMoves ==
  ASSUME IInv, [Next]_vars, NEW kind \in Kinds, NEW s \in Sources,
         shas'[kind][s] # shas[kind][s]
  PROVE  /\ PushSha /\ kind = PushOrder[job.kind] /\ s = job.source
         /\ shas'[kind][s] = images[kind][job.version]
         /\ UNCHANGED <<images, builds, tags, contested>>
<1>0. RegistryType /\ job \in JobRecord(MaybeBuilt)
  BY TypeParts DEF IInv
<1>1. PushSha
  BY HandLeaves
     DEF Next, vars, registry, JobStep, Merge, Dispatch, Rerun, ChecksPass, ChecksFail,
         Start, Stop, Reserve, RefuseSource, LoadExisting, RefuseImages, Refuse,
         PullStable, PullFallback, Build, PushImage, CheckAliases, PushLatest, PushStable
<1>2. job.source \in Sources /\ PushOrder[job.kind] \in Kinds
  BY <1>0, <1>1, VersionType, Order DEF PushSha, AfterReserve, AfterLoad, JobRecord
<1> QED
  BY <1>0, <1>1, <1>2 DEF PushSha, Digest, RegistryType, manual

\* The image the job reads to tag it with its commit.
LEMMA DigestRead ==
  ASSUME IInv, PushSha
  PROVE  LET kind == PushOrder[job.kind]
             read == images[kind][job.version] IN
         /\ kind \in Kinds /\ job.version \in DOMAIN tags /\ tags[job.version] = job.source
         /\ read \in BuildIds /\ read # Missing /\ Version(read) = job.version
         /\ job.version \notin contested => Source(read) = job.source
<1> DEFINE kind == PushOrder[job.kind]
<1>1. /\ RegistryType /\ job.pc = "sha" /\ job.kind \in 1..3 /\ kind \in Kinds
      /\ job.version \in Versions
      /\ job.version \in DOMAIN tags /\ tags[job.version] = job.source
  BY TypeParts, Order, VersionType, JobType
     DEF IInv, Tagged, PushSha, AfterReserve, AfterLoad, JobRecord
<1>2. /\ Pushed(kind, job.version)
      /\ job.version \notin contested => Own(kind)
  BY <1>1 DEF IInv, Prepared, Done, AfterLoad
<1>3. Version(images[kind][job.version]) = job.version
  BY <1>1, <1>2 DEF IInv, Labelled
<1> QED
  BY <1>1, <1>2, <1>3 DEF RegistryType, MaybeBuilt, Pushed, Own

LEMMA RecordedNext ==
  ASSUME IInv, [Next]_vars
  PROVE  Recorded'
<1>0. /\ TypeOK /\ Grow /\ RegistryType /\ MainType /\ Recorded
      /\ job \in JobRecord(MaybeBuilt)
  BY NextGrows, TypeParts DEF IInv
<1>1. ASSUME NEW kind \in Kinds, NEW s \in Sources
      PROVE  ShaOk(kind, s)'
  <2>1. CASE shas'[kind][s] = shas[kind][s] /\ shas[kind][s] # Missing
    <3>1. PICK b \in BuildIds : b = shas[kind][s] /\ b # Missing
      BY <1>0, <2>1 DEF RegistryType, MaybeBuilt
    <3>2. PICK v \in DOMAIN tags :
            /\ v = Version(b) /\ tags[v] = s
            /\ v \notin contested => images[kind][v] = b /\ Source(b) = s
      BY <1>0, <3>1 DEF Recorded, ShaOk
    <3>3. v = Version(b)' /\ Source(b)' = Source(b) /\ v \in DOMAIN tags' /\ tags'[v] = s
      BY <1>0, <3>1, <3>2 DEF Grow, Version, Source
    <3>4. ASSUME v \notin contested'
          PROVE  images'[kind][v] = b /\ Source(b)' = s
      <4>1. v \notin contested /\ images[kind][v] = b /\ Source(b) = s
        BY <1>0, <3>2, <3>4 DEF Grow
      <4>2. images'[kind][v] = images[kind][v]
        BY <1>0, <3>1, <3>4, <4>1 DEF Grow, Pushed
      <4> QED
        BY <3>3, <4>1, <4>2
    <3>5. Version(shas[kind][s])' = v /\ Source(shas[kind][s])' = Source(b)' /\ shas'[kind][s] = b
      BY <2>1, <3>1, <3>3 DEF Version, Source
    <3> QED
      BY <3>3, <3>4, <3>5 DEF ShaOk
  <2>2. CASE shas'[kind][s] # shas[kind][s]
    <3>1. /\ PushSha /\ kind = PushOrder[job.kind] /\ s = job.source
          /\ shas'[kind][s] = images[kind][job.version]
          /\ UNCHANGED <<images, builds, tags, contested>>
      BY <2>2, ShaMoves
    <3>2. PICK v \in DOMAIN tags, b \in BuildIds :
            /\ v = job.version /\ b = images[kind][v] /\ tags[v] = s
            /\ b # Missing /\ Version(b) = v
            /\ v \notin contested => Source(b) = s
      BY <3>1, DigestRead
    <3>3. Version(shas[kind][s])' = v /\ Source(shas[kind][s])' = Source(b)
      BY <3>1, <3>2 DEF Version, Source
    <3> QED
      BY <3>1, <3>2, <3>3 DEF ShaOk
  <2>3. CASE shas'[kind][s] = shas[kind][s] /\ shas[kind][s] = Missing
    BY <2>3 DEF ShaOk
  <2> QED
    BY <2>1, <2>2, <2>3
<1>2. ASSUME NEW i \in 1..3, ShaDone(i)'
      PROVE  shas'[PushOrder[i]][job'.source] # Missing
  <2>0. PushOrder[i] \in Kinds
    BY Order
  <2>1. ASSUME NEW s \in Sources, shas[PushOrder[i]][s] # Missing
        PROVE  shas'[PushOrder[i]][s] # Missing
    <3>1. CASE shas'[PushOrder[i]][s] # shas[PushOrder[i]][s]
      <4>1. PushSha /\ PushOrder[i] = PushOrder[job.kind]
            /\ shas'[PushOrder[i]][s] = images[PushOrder[i]][job.version]
        BY <2>0, <3>1, ShaMoves
      <4> QED
        BY <4>1, DigestRead
    <3> QED
      BY <2>1, <3>1
  <2>2. job'.source \in Sources /\ (ShaDone(i) => job.source \in Sources)
    BY <1>2, TaggedNext DEF IInv, Tagged, ShaDone
  <2>3. CASE PushSha
    <3>1. /\ job.pc = "sha" /\ job.kind \in 1..3 /\ job'.source = job.source
          /\ job.kind < 3 => job'.pc = "image" /\ job'.kind = job.kind + 1
      <4>1. /\ job.kind < 3 => job' = [job EXCEPT !.pc = "image", !.kind = @ + 1]
            /\ ~(job.kind < 3) => job' = [job EXCEPT !.pc = "aliases"]
        BY <2>3, Order DEF PushSha
      <4> QED
        BY <1>0, <2>3, <4>1 DEF PushSha, JobRecord
    <3>2. ShaDone(i) \/ i = job.kind
      BY <1>2, <3>1 DEF ShaDone
    <3>3. CASE i = job.kind
      <4>1. shas' = [shas EXCEPT ![PushOrder[i]][job.source] = images[PushOrder[i]][job.version]]
        BY <2>3, <3>3 DEF PushSha, Digest
      <4>2. shas'[PushOrder[i]][job.source] = images[PushOrder[i]][job.version]
        BY <1>0, <2>0, <2>2, <3>1, <4>1 DEF RegistryType
      <4> QED
        BY <2>3, <3>1, <3>3, <4>2, DigestRead
    <3> QED
      BY <1>0, <2>1, <2>2, <3>1, <3>2, <3>3 DEF Recorded
  <2>4. CASE ~PushSha
    <3>1. ShaDone(i) /\ job'.source = job.source
      <4>1. job' # Idle /\ ~Start /\ ~Reserve
        <5>1. job'.pc \notin {"idle", "reserve", "load"}
          BY <1>2 DEF ShaDone
        <5>2. Start => job'.pc = "reserve"
          BY DEF Start, Idle
        <5>3. Reserve => job'.pc = "load"
          BY <1>0 DEF Reserve, JobRecord
        <5> QED
          BY <5>1, <5>2, <5>3 DEF Idle
      <4>2. job'.source = job.source
        BY <4>1, JobKeeps
      <4>3. CASE UNCHANGED job
        BY <1>2, <4>3 DEF ShaDone
      <4>4. CASE LoadExisting \/ PullStable \/ PullFallback
        BY <1>0, <1>2, <4>4 DEF LoadExisting, PullStable, PullFallback, JobRecord, ShaDone
      <4>5. CASE Build
        <5>1. job.kind = 1 /\ job'.kind = 1 /\ job'.pc = "image"
          BY <1>0, <4>5 DEF Build, JobRecord, IInv, Prepared
        <5> QED
          BY <1>2, <5>1 DEF ShaDone
      <4>6. CASE PushImage
        <5>1. job.pc = "image" /\ job'.pc = "sha" /\ job'.kind = job.kind
          BY <1>0, <4>6 DEF PushImage, JobRecord
        <5>2. job'.source = job.source
          BY <4>2
        <5> QED
          BY <1>2, <5>1, <5>2 DEF ShaDone
      <4>7. CASE CheckAliases \/ PushLatest
        BY <4>2, <4>7 DEF CheckAliases, PushLatest, ShaDone
      <4> QED
        BY <2>4, <4>1, <4>2, <4>3, <4>4, <4>5, <4>6, <4>7, HandLeaves
           DEF Next, vars, JobStep, Merge, Dispatch, Rerun, ChecksPass, ChecksFail, Stop,
               RefuseSource, RefuseImages, Refuse, PushStable
    <3> QED
      BY <1>0, <2>1, <2>2, <3>1 DEF Recorded
  <2> QED
    BY <2>3, <2>4
<1> QED
  BY <1>1, <1>2 DEF Recorded

\* What the job gives the aliases: an image of its version, and its own of a
\* complete release unless that version is contested.
LEMMA JobsRelease ==
  ASSUME IInv, job.pc \in {"latest", "stable"}, NEW kind \in Kinds
  PROVE  LET build == shas[kind][job.source] IN
         /\ build # Missing /\ build \in BuildIds
         /\ Version(build) = job.version
         /\ job.version \in DOMAIN tags
         /\ tags[job.version] = job.source
         /\ job.source <= main
         /\ job.source \in Sources
         /\ job.version \notin contested =>
              /\ build = images[kind][job.version]
              /\ Source(build) = job.source
              /\ Published(job.version)
<1> DEFINE build == shas[kind][job.source]
<1>1. /\ job.version \in Versions /\ job.source \in Sources /\ job.version \in DOMAIN tags
      /\ tags[job.version] = job.source
  BY VersionType DEF IInv, Tagged, AfterReserve, AfterLoad
<1>2. job.version \notin contested => \A k \in Kinds : Own(k)
  BY Order DEF IInv, Prepared, Done, AfterLoad
<1>3. job.version \notin contested => Published(job.version)
  BY <1>1, <1>2 DEF Own, Published
<1>4. build # Missing
  BY Order DEF IInv, Recorded, ShaDone
<1>5. build \in BuildIds
  BY <1>1, <1>4, TypeParts DEF IInv, RegistryType, MaybeBuilt
<1>6. job.source # NoSource /\ job.version > Initial
  BY <1>1, AllowedAssumption, InitialAssumption, TypeParts DEF IInv, Tagged, Sources, NoSource, MainType
<1>7. job.source <= main
  BY <1>1, <1>6 DEF IInv, Tagged
<1>8. /\ Version(build) \in DOMAIN tags /\ tags[Version(build)] = job.source
      /\ Version(build) \notin contested =>
           images[kind][Version(build)] = build /\ Source(build) = job.source
  BY <1>1, <1>4 DEF IInv, Recorded, ShaOk
<1>9. Version(build) = job.version
  BY <1>1, <1>6, <1>8 DEF IInv, Tagged, OneVersionPerSource
<1> QED
  BY <1>1, <1>3, <1>4, <1>5, <1>7, <1>8, <1>9

\* A job that moves the aliases did so before, or has just checked that it may.
LEMMA AliasesFrom ==
  ASSUME IInv, [Next]_vars, job'.pc \in {"latest", "stable"}, ~CheckAliases
  PROVE  job.pc \in {"latest", "stable"} /\ job'.source = job.source
<1>0. job \in JobRecord(MaybeBuilt)
  BY JobType DEF IInv
<1>1. job' # Idle
  BY DEF Idle
<1>2. ~Start /\ ~Reserve
  BY <1>0 DEF Start, Reserve, Idle, JobRecord
<1>3. job'.source = job.source
  BY <1>1, <1>2, JobKeeps
<1>4. ~LoadExisting /\ ~PullStable /\ ~PullFallback /\ ~Build
  BY <1>0 DEF LoadExisting, PullStable, PullFallback, Build, JobRecord
<1>5. ~PushImage /\ ~PushSha
  BY <1>0 DEF PushImage, PushSha, JobRecord
<1>6. CASE PushLatest \/ PushStable
  BY <1>3, <1>6 DEF PushLatest, PushStable
<1>7. CASE UNCHANGED job
  BY <1>3, <1>7
<1> QED
  BY <1>1, <1>2, <1>3, <1>4, <1>5, <1>6, <1>7, HandLeaves
     DEF Next, vars, JobStep, Merge, Dispatch, Rerun, ChecksPass, ChecksFail, Stop,
         RefuseSource, RefuseImages, Refuse

\* The commit an alias stands for is one of main, or none.
LEMMA CommitType ==
  ASSUME TypeOK, NEW build \in MaybeBuilt
  PROVE  /\ Commit(build) \in Nat
         /\ build = Missing => Commit(build) = NoSource
         /\ Version(build) \in DOMAIN tags => Commit(build) = tags[Version(build)]
<1>1. \A v \in DOMAIN tags : tags[v] \in Nat
  BY TypeParts, AllowedAssumption DEF MainType, Sources, NoSource
<1>2. None \notin DOMAIN tags
  BY TypeParts, InitialAssumption, AllowedAssumption DEF MainType, Versions, None
<1> QED
  BY <1>1, <1>2 DEF Commit, ReleaseOf, Version, NoSource

\* An alias that stays keeps its meaning, and the job does not get older.
LEMMA AliasKept ==
  ASSUME IInv, [Next]_vars, NEW build \in MaybeBuilt, Aliased(build)
  PROVE  /\ Source(build)' = Source(build)
         /\ Version(build)' = Version(build)
         /\ Commit(build)' = Commit(build)
         /\ Aliased(build)'
<1>0. /\ TypeOK /\ Grow /\ job \in JobRecord(MaybeBuilt) /\ MainType /\ RegistryType
      /\ TypeOK' /\ main \in Nat /\ main' \in Nat
  <2>1. TypeOK /\ TypeOK' /\ Grow
    BY NextGrows, TypeNext DEF IInv
  <2>2. main \in Nat /\ main' \in Nat
    BY <2>1, AllowedAssumption DEF TypeOK
  <2> QED
    BY <2>1, <2>2, TypeParts
<1>1. Source(build)' = Source(build) /\ Version(build)' = Version(build)
  BY <1>0 DEF Source, Version, Grow, MaybeBuilt
<1>2. build # Missing =>
        /\ Version(build) \in DOMAIN tags'
        /\ tags'[Version(build)] = tags[Version(build)]
  BY <1>0 DEF Aliased, Grow
<1>3. ASSUME build # Missing, NEW v \in DOMAIN tags, v = Version(build), v \notin contested'
      PROVE  Published(v)' /\ Source(build) = tags[v]
  BY <1>0, <1>3, PublishedKept DEF Aliased, Grow
<1>4. Commit(build)' = Commit(build) /\ Commit(build) \in Nat
  <2>1. ASSUME build # Missing
        PROVE  Commit(build)' = Commit(build)
    BY <1>1, <1>2, <2>1 DEF Commit, ReleaseOf, Aliased
  <2>2. ASSUME build = Missing
        PROVE  Commit(build)' = Commit(build)
    <3>1. None \notin DOMAIN tags /\ None \notin DOMAIN tags'
      <4>1. None \notin Versions
        BY InitialAssumption, AllowedAssumption DEF Versions, None
      <4>2. DOMAIN tags \subseteq Versions /\ DOMAIN tags' \subseteq Versions
        BY <1>0 DEF TypeOK
      <4> QED
        BY <4>1, <4>2
    <3> QED
      BY <2>2, <3>1 DEF Commit, ReleaseOf, Version
  <2> QED
    BY <1>0, <2>1, <2>2, CommitType
<1>5. Commit(build) <= main'
  BY <1>0, <1>4 DEF Grow, Aliased
<1>6. job'.pc \in {"latest", "stable"} => Commit(build) <= job'.source
  <2>1. CASE CheckAliases /\ job'.pc \in {"latest", "stable"}
    <3>1. IsCurrent /\ job'.source = job.source
      BY <1>0, <2>1 DEF CheckAliases, JobRecord, Idle
    <3> QED
      BY <3>1 DEF IsCurrent, Aliased
  <2>2. CASE ~CheckAliases /\ job'.pc \in {"latest", "stable"}
    BY <2>2, AliasesFrom DEF Aliased
  <2> QED
    BY <2>1, <2>2
<1>7. ASSUME build # Missing, Version(build) \notin contested'
      PROVE  Published(Version(build))' /\ Source(build)' = tags'[Version(build)]
  <2>1. PICK v \in DOMAIN tags : v = Version(build)
    BY <1>7 DEF Aliased
  <2>2. Published(v)' /\ Source(build) = tags[v]
    BY <1>3, <1>7, <2>1
  <2>3. Published(Version(build))'
    BY <1>1, <2>1, <2>2 DEF Published, Pushed, Source
  <2> QED
    BY <1>1, <1>2, <1>7, <2>1, <2>2, <2>3
<1> QED
  BY <1>1, <1>2, <1>4, <1>5, <1>6, <1>7 DEF Aliased

LEMMA PromotedNext ==
  ASSUME IInv, [Next]_vars
  PROVE  Promoted'
<1>0. latest \in MaybeBuilt /\ stable \in MaybeBuilt
  BY TypeParts DEF IInv, RegistryType
<1>1. ASSUME NEW build \in MaybeBuilt, Aliased(build)
      PROVE  Aliased(build)'
  BY <1>1, AliasKept
<1>2. ASSUME NEW kind \in Kinds, NEW build, build = shas[kind][job.source],
             job.pc \in {"latest", "stable"}
      PROVE  build \in MaybeBuilt /\ Aliased(build)
  <2>1. /\ build # Missing /\ build \in BuildIds /\ Version(build) = job.version
        /\ job.version \in DOMAIN tags /\ tags[job.version] = job.source
        /\ job.source <= main /\ job.source \in Sources
        /\ job.version \notin contested => Source(build) = job.source /\ Published(job.version)
    BY <1>2, JobsRelease
  <2>2. job.source <= job.source
    BY <2>1, AllowedAssumption DEF Sources
  <2>3. Commit(build) = job.source
    BY <2>1 DEF Commit, ReleaseOf
  <2> QED
    BY <2>1, <2>2, <2>3 DEF Aliased, MaybeBuilt
<1>3. PICK l \in MaybeBuilt : l = latest' /\ Aliased(l)
  <2>1. CASE PushLatest
    BY <1>2, <2>1 DEF PushLatest, Kinds
  <2>2. CASE ~PushLatest
    <3>1. latest' = latest
      BY <2>2, HandLeaves DEF Next, vars, registry, JobStep, Merge, Dispatch, Rerun, ChecksPass, ChecksFail,
            Start, Stop, Reserve, RefuseSource, LoadExisting, RefuseImages, Refuse,
            PullStable, PullFallback, Build, PushImage, PushSha, CheckAliases, PushStable
    <3> QED
      BY <1>0, <3>1 DEF IInv, Promoted
  <2> QED
    BY <2>1, <2>2
<1>4. PICK c \in MaybeBuilt : c = stable' /\ Aliased(c)
  <2>1. CASE PushStable
    BY <1>2, <2>1 DEF PushStable, Kinds
  <2>2. CASE ~PushStable
    <3>1. stable' = stable
      BY <2>2, HandLeaves DEF Next, vars, registry, JobStep, Merge, Dispatch, Rerun, ChecksPass, ChecksFail,
            Start, Stop, Reserve, RefuseSource, LoadExisting, RefuseImages, Refuse,
            PullStable, PullFallback, Build, PushImage, PushSha, CheckAliases, PushLatest
    <3> QED
      BY <1>0, <3>1 DEF IInv, Promoted
  <2> QED
    BY <2>1, <2>2
<1> QED
  BY <1>1, <1>3, <1>4 DEF Promoted, Aliased, Source, Version

LEMMA InvariantInit == Init => IInv
<1> SUFFICES ASSUME Init PROVE IInv
  OBVIOUS
<1>0. TypeOK /\ Initial \in Nat /\ MaxMerges \in Nat /\ job = Idle
  BY TypeInit, InitialAssumption, AllowedAssumption DEF Init
<1>1. /\ Len(tags) = Initial /\ DOMAIN tags = 1..Initial
      /\ \A v \in 1..Initial : tags[v] = NoSource
  BY <1>0 DEF Init
<1>2. Tagged
  BY <1>0, <1>1 DEF Tagged, OneVersionPerSource, Idle, AfterReserve, AfterLoad
<1>3. /\ \A kind \in Kinds, v \in Versions :
           images[kind][v] = IF v <= Initial THEN v ELSE Missing
      /\ \A v \in 1..Initial : builds[v].source = NoSource /\ builds[v].version = v
  BY DEF Init
<1>4. \A v \in 1..Initial : v # Missing /\ v \in Versions /\ Source(v) = NoSource /\ Version(v) = v
  BY <1>0, <1>3 DEF Missing, Versions, Source, Version
<1>5. Labelled
  <2>1. ASSUME NEW kind \in Kinds, NEW v \in Versions, Pushed(kind, v)
        PROVE  v \in 1..Initial /\ images[kind][v] = v
    BY <1>0, <1>3, <2>1 DEF Pushed, Versions
  <2> QED
    BY <1>4, <2>1 DEF Labelled
<1>6. FirstImages
  BY <1>0, <1>3, <1>4 DEF FirstImages, Pushed
<1>7. Prepared
  BY <1>0 DEF Prepared, Idle, AfterLoad
<1>8. \A v \in 1..Initial : Published(v)
  BY <1>0, <1>1, <1>3, <1>4 DEF Published, Pushed
<1>9. Aliased(Initial)
  <2>1. Source(Initial) = NoSource /\ main = 0
    BY <1>0, <1>4 DEF Init, Source, Missing
  <2>2. Initial # Missing => Version(Initial) = Initial /\ Initial \in DOMAIN tags
                             /\ tags[Initial] = NoSource /\ Published(Initial)
    BY <1>0, <1>1, <1>4, <1>8 DEF Missing
  <2>3. Commit(Initial) = NoSource
    BY <2>2, <1>1 DEF Commit, ReleaseOf, Version
  <2> QED
    BY <1>0, <2>1, <2>2, <2>3 DEF Aliased, Idle, NoSource
<1>10. Promoted
  BY <1>9 DEF Promoted, Init
<1>11. Handled
  BY <1>0 DEF Handled, Init
<1>12. Recorded
  BY <1>0 DEF Init, Recorded, ShaOk, ShaDone, Idle
<1> QED
  BY <1>0, <1>2, <1>5, <1>6, <1>7, <1>10, <1>11, <1>12 DEF IInv

LEMMA InvariantNext == IInv /\ [Next]_vars => IInv'
BY TypeNext, TaggedNext, HandledNext, LabelledNext, FirstImagesNext, PreparedNext, RecordedNext,
   PromotedNext DEF IInv

LEMMA Invariance == Spec => []IInv
BY InvariantInit, InvariantNext, PTL DEF Spec

-----------------------------------------------------------------------------
\* The state of the registry, the queue and the job is well-typed; no more
\* versions are ever reserved than there are merges.
THEOREM ReleaseTypeCorrect == Spec => []TypeOK
<1>1. IInv => TypeOK
  BY DEF IInv
<1> QED
  BY <1>1, Invariance, PTL

\* However often it stops and is run again, one commit gets one version.
THEOREM OneVersion == Spec => []OneVersionPerSource
<1>1. IInv => OneVersionPerSource
  BY DEF IInv, Tagged
<1> QED
  BY <1>1, Invariance, PTL

\* No image of a reserved version is ever replaced, whatever fails, is rerun or
\* is pushed by hand, but for a version that --build makes while it is reserved.
THEOREM ImagesAreImmutable == Spec => Immutable
<1>1. IInv /\ [Next]_vars =>
        [\A kind \in Kinds, v \in DOMAIN tags \ contested' :
           Pushed(kind, v) => images'[kind][v] = images[kind][v]]_vars
  BY NextGrows DEF Grow
<1> QED
  BY <1>1, Invariance, PTL DEF Spec, Immutable

\* A commit tag names an image built from that commit, the one its version
\* tag names, for any number of attempts with builds of their own.
THEOREM CommitTagsAgree == Spec => []ShaAgrees
<1>1. IInv => ShaAgrees
  BY DEF IInv, Recorded, ShaOk, ShaAgrees
<1> QED
  BY <1>1, Invariance, PTL

-----------------------------------------------------------------------------
(* What the catalogs offer.                                                 *)

\* A version can be installed once its bundle and its operator are there.  The
\* workflow's catalogs offer no others, until a reserved version is contested.
Ready(w) == Pushed("bundle", w) /\ Pushed("operator", w)
Fine(w) == Ready(w) \/ (contested # {} /\ VersionByHand(w))
Offers(build) == \A w \in builds[build].channel : Fine(w)

\* What a checkout may hold.
HeldByHand(w) == w \in CheckedIn \/ VersionByHand(w)

\* What the job builds from, what it built, and every catalog pushed offer what
\* can be installed.
Offered ==
  /\ OffersOnlyPushed
  /\ stable # Missing => Offers(stable)
  /\ \A s \in Sources : shas["catalog"][s] # Missing => Offers(shas["catalog"][s])
  /\ job.pc = "build" => \A w \in job.channel : Fine(w)
  /\ job.pc \in {"image", "sha"} /\ job.existing # Kinds =>
       \A w \in builds[job.build].channel : w = job.version \/ Fine(w)

\* What --build holds, and has pushed of its version before the catalog.
Made ==
  /\ \A w \in checkout : HeldByHand(w)
  /\ hand # NoHand =>
       /\ \A w \in builds[hand.build].channel : w = hand.version \/ HeldByHand(w)
       /\ \A i \in 1..3 : i < hand.kind => Pushed(PushOrder[i], hand.version)

LEMMA ReadyKept ==
  ASSUME Grow, NEW w \in Versions, Ready(w)
  PROVE  Ready(w)'
BY DEF Grow, Ready, Kinds

LEMMA ByHandKept ==
  ASSUME TypeOK, Grow, NEW w, VersionByHand(w)
  PROVE  VersionByHand(w)'
<1>1. PICK b \in BuildIds : MadeByHand(b) /\ builds[b].version = w
  BY DEF VersionByHand, BuildIds
<1>2. b \in BuildIds' /\ builds'[b] = builds[b]
  BY <1>1 DEF Grow
<1> QED
  BY <1>1, <1>2 DEF VersionByHand, MadeByHand, BuildIds

LEMMA FineKept ==
  ASSUME TypeOK, Grow, NEW w \in Versions, Fine(w)
  PROVE  Fine(w)'
<1>1. contested # {} => contested' # {}
  BY DEF Grow
<1> QED
  BY <1>1, ReadyKept, ByHandKept DEF Fine

\* The channel of any build is one of versions.
LEMMA ChannelType ==
  ASSUME TypeOK, NEW b \in BuildIds
  PROVE  builds[b].channel \subseteq Versions
<1>1. builds[b] \in BuildRecord
  BY TypeParts DEF RegistryType, BuildIds
<1> QED
  BY <1>1 DEF BuildRecord

LEMMA OffersKept ==
  ASSUME TypeOK, Grow, NEW build \in BuildIds, Offers(build)
  PROVE  Offers(build)'
<1>1. builds[build].channel \subseteq Versions
  BY ChannelType
<1>2. builds'[build].channel = builds[build].channel
  BY DEF Grow
<1>3. \A w \in builds[build].channel : Fine(w)'
  BY <1>1, FineKept DEF Offers
<1> QED
  BY <1>2, <1>3 DEF Offers

LEMMA OfferedInit == Init => Offered /\ Made
<1> SUFFICES ASSUME Init PROVE Offered /\ Made
  OBVIOUS
<1>0. /\ FirstImages /\ job = Idle /\ Initial \in Nat /\ MaxMerges \in Nat
      /\ hand = NoHand /\ checkout = CheckedIn
  BY InvariantInit, InitialAssumption, AllowedAssumption DEF IInv, Init
<1>1. /\ \A v \in Versions : images["catalog"][v] = IF v <= Initial THEN v ELSE Missing
      /\ \A v \in 1..Initial : builds[v].channel = 1..v
      /\ stable = Initial
      /\ \A s \in Sources : shas["catalog"][s] = Missing
  BY DEF Init, Kinds
<1>2. \A w \in 1..Initial : Ready(w)
  BY <1>0 DEF FirstImages, Ready, Kinds
<1>3. OffersOnlyPushed
  <2>1. ASSUME NEW v \in Versions, images["catalog"][v] # Missing,
               NEW w \in builds[images["catalog"][v]].channel
        PROVE  Pushed("bundle", w) /\ Pushed("operator", w)
    <3>1. v \in 1..Initial /\ w \in 1..v
      BY <1>0, <1>1, <2>1 DEF Versions
    <3> QED
      BY <1>0, <1>2, <3>1 DEF Ready
  <2> QED
    BY <2>1 DEF OffersOnlyPushed
<1>4. stable # Missing => Offers(stable)
  BY <1>0, <1>1, <1>2 DEF Offers, Fine, Missing
<1>5. Offered
  BY <1>0, <1>1, <1>3, <1>4 DEF Offered, Idle
<1>6. Made
  BY <1>0 DEF Made, HeldByHand
<1> QED
  BY <1>5, <1>6

\* A catalog of the workflow offers what is fine.
LEMMA WorkflowOffers ==
  ASSUME OffersOnlyPushed, NEW v \in Versions, NEW b, b = images["catalog"][v], b # Missing,
         contested # {} \/ ~MadeByHand(b)
  PROVE  Offers(b)
<1>1. \A w \in builds[b].channel :
        \/ Pushed("bundle", w) /\ Pushed("operator", w)
        \/ VersionByHand(w) /\ (MadeByHand(b) \/ contested # {})
  BY DEF OffersOnlyPushed
<1> QED
  BY <1>1 DEF Offers, Fine, Ready

\* What --build holds goes on to hold.
LEMMA MadeNext ==
  ASSUME IInv, Made, [Next]_vars
  PROVE  Made'
<1>0. /\ TypeOK /\ Grow /\ hand \in HandRecord(MaybeBuilt)
      /\ \A i \in 1..3 : PushOrder[i] \in Kinds
      /\ images \in [Kinds -> [Versions -> MaybeBuilt]]
  BY NextGrows, TypeParts, Order DEF IInv, ManualType, RegistryType
<1>1. ASSUME NEW w, HeldByHand(w)
      PROVE  HeldByHand(w)'
  BY <1>0, <1>1, ByHandKept DEF HeldByHand, CheckedIn
<1>2. ASSUME NEW v \in Versions, GenerateByHand(v)
      PROVE  Made'
  <2>1. PICK held \in SUBSET Versions :
          /\ held \in {checkout, CheckedIn}
          /\ checkout' = held \cup {v}
          /\ builds' = Append(builds, HandMade(held, v))
          /\ HandMade(held, v) \in BuildRecord
    BY <1>0, <1>2, Generates
  <2>2. /\ builds'[Len(builds) + 1] = HandMade(held, v)
        /\ Len(builds) + 1 \in DOMAIN builds'
    BY <1>0, <2>1, Appended DEF BuildIds
  <2>3. hand' = [version |-> v, build |-> Len(builds) + 1, kind |-> 1]
    BY <1>2 DEF GenerateByHand
  <2>4. Len(builds) + 1 > Initial
    BY <1>0, TypeParts, InitialAssumption DEF IInv, Handled, RegistryType
  <2>5. VersionByHand(v)'
    BY <2>2, <2>4 DEF VersionByHand, MadeByHand, HandMade
  <2>6. \A w \in held : HeldByHand(w)'
    <3>1. \A w \in held : HeldByHand(w)
      BY <2>1 DEF Made, HeldByHand
    <3> QED
      BY <1>1, <3>1
  <2>7. \A w \in checkout' : HeldByHand(w)'
    BY <2>1, <2>5, <2>6 DEF HeldByHand
  <2>8. builds'[hand'.build].channel = checkout'
    BY <2>1, <2>2, <2>3 DEF HandMade
  <2> QED
    BY <2>3, <2>7, <2>8 DEF Made
<1>3. CASE ~\E v \in Versions : GenerateByHand(v)
  <2>1. checkout' = checkout
    BY <1>3 DEF Next, vars, manual, ByHand, PushByHand, StopByHand, JobStep, Merge, Dispatch,
          Rerun, ChecksPass, ChecksFail, Start, Stop, Reserve, RefuseSource, LoadExisting,
          RefuseImages, Refuse, PullStable, PullFallback, Build, PushImage, PushSha,
          CheckAliases, PushLatest, PushStable
  <2>2. \/ hand' = hand
        \/ hand' = NoHand
        \/ PushByHand /\ hand' = [hand EXCEPT !.kind = @ + 1]
    BY <1>3 DEF Next, vars, manual, ByHand, PushByHand, StopByHand, JobStep, Merge, Dispatch,
          Rerun, ChecksPass, ChecksFail, Start, Stop, Reserve, RefuseSource, LoadExisting,
          RefuseImages, Refuse, PullStable, PullFallback, Build, PushImage, PushSha,
          CheckAliases, PushLatest, PushStable
  <2>3. \A w \in checkout' : HeldByHand(w)'
    BY <1>1, <2>1 DEF Made
  <2>4. ASSUME hand' # NoHand
        PROVE  /\ \A w \in builds'[hand'.build].channel : w = hand'.version \/ HeldByHand(w)'
               /\ \A i \in 1..3 : i < hand'.kind => images'[PushOrder[i]][hand'.version] # Missing
    <3>1. hand # NoHand /\ hand'.build = hand.build /\ hand'.version = hand.version
      BY <1>0, <2>2, <2>4 DEF PushByHand, HandRecord
    <3>2. hand.build \in BuildIds /\ builds'[hand.build] = builds[hand.build]
          /\ hand.version \in Versions
      BY <1>0, <3>1 DEF IInv, Handled, BuildIds, Grow
    <3>3. \A w \in builds'[hand'.build].channel : w = hand'.version \/ HeldByHand(w)'
      BY <1>1, <3>1, <3>2 DEF Made
    <3>4. ASSUME NEW i \in 1..3, i < hand'.kind
          PROVE  images'[PushOrder[i]][hand.version] # Missing
      <4>1. CASE Pushed(PushOrder[i], hand.version)
        BY <1>0, <3>2, <4>1 DEF Grow, Pushed
      <4>2. CASE i = hand.kind /\ PushByHand
        <5>1. images'[PushOrder[i]][hand.version] = hand.build
          BY <1>0, <3>2, <4>2 DEF PushByHand
        <5>2. hand.build # Missing
          BY <3>2, <1>0, TypeParts DEF BuildIds, Missing, RegistryType
        <5> QED
          BY <5>1, <5>2
      <4>3. i < hand.kind \/ (i = hand.kind /\ PushByHand)
        BY <1>0, <2>2, <2>4, <3>4 DEF HandRecord
      <4> QED
        BY <3>1, <4>1, <4>2, <4>3 DEF Made
    <3> QED
      BY <3>1, <3>3, <3>4
  <2> QED
    BY <2>3, <2>4 DEF Made, Pushed
<1> QED
  BY <1>2, <1>3

\* A catalog that is new offers the version whose bundle and operator the same
\* job, or hand, pushed first, and what could be installed before; by hand also
\* what the checkout held.
LEMMA NewCatalog ==
  ASSUME IInv, Offered, Made, [Next]_vars, NEW v \in Versions,
         images'["catalog"][v] # images["catalog"][v],
         NEW w \in builds'[images'["catalog"][v]].channel, w \in Versions
  PROVE  \/ Ready(w)'
         \/ /\ w # v /\ VersionByHand(w)'
            /\ MadeByHand(images["catalog"][v])' \/ contested' # {}
<1>0. /\ TypeOK /\ Grow /\ job \in JobRecord(MaybeBuilt) /\ hand \in HandRecord(MaybeBuilt)
      /\ "catalog" \in Kinds /\ "bundle" \in Kinds /\ "operator" \in Kinds
      /\ job.kind \in 1..3 /\ hand.kind \in 1..3
  BY TypeParts, NextGrows DEF IInv, Kinds, ManualType, JobRecord, HandRecord
<1>1. CASE PushImage
  <2>1. /\ "catalog" = PushOrder[job.kind] /\ v = job.version /\ job.existing # Kinds
        /\ images'["catalog"][v] = job.build /\ builds' = builds
    BY <1>0, <1>1, PushImageKeeps DEF PushImage
  <2>2. job.kind = 3
    BY <1>0, <2>1, Order
  <2>3. Ready(v)'
    <3>1. job.pc = "image" /\ Done(1) /\ Done(2)
      BY <1>1, <2>2 DEF PushImage, Done
    <3>2. Pushed("operator", v) /\ Pushed("bundle", v)
      BY <2>1, <3>1, Order DEF IInv, Prepared, AfterLoad
    <3> QED
      BY <1>0, <3>2 DEF Ready, Grow
  <2>4. w = v \/ Fine(w)
    <3>1. w \in builds[job.build].channel /\ job.pc = "image"
      BY <1>1, <2>1 DEF PushImage
    <3> QED
      BY <2>1, <3>1 DEF Offered
  <2>5. w = v \/ Fine(w)'
    BY <1>0, <2>4, FineKept
  <2> QED
    BY <2>3, <2>5 DEF Fine
<1>2. CASE PushByHand
  <2>1. /\ "catalog" = PushOrder[hand.kind] /\ v = hand.version /\ MadeByHand(hand.build)
        /\ images'["catalog"][v] = hand.build /\ builds' = builds /\ hand # NoHand
    BY <1>0, <1>2, PushByHandKeeps DEF PushByHand
  <2>2. hand.kind = 3
    BY <1>0, <2>1, Order
  <2>3. Ready(v)'
    <3>1. Pushed(PushOrder[1], v) /\ Pushed(PushOrder[2], v)
      BY <2>1, <2>2 DEF Made
    <3> QED
      BY <1>0, <3>1, Order DEF Ready, Grow
  <2>4. w = v \/ HeldByHand(w)
    BY <2>1 DEF Made
  <2>5. CASE w \in CheckedIn
    <3>1. Ready(w)
      BY <1>0, <2>5 DEF IInv, FirstImages, CheckedIn, Ready
    <3> QED
      BY <1>0, <3>1, ReadyKept
  <2>6. MadeByHand(images["catalog"][v])'
    BY <2>1 DEF MadeByHand
  <2>7. VersionByHand(w) => VersionByHand(w)'
    BY <1>0, ByHandKept
  <2> QED
    BY <2>3, <2>4, <2>5, <2>6, <2>7 DEF HeldByHand
<1> QED
  BY <1>0, <1>1, <1>2, NewImage

LEMMA OffersNext ==
  ASSUME IInv, Offered, Made, [Next]_vars
  PROVE  OffersOnlyPushed'
<1>0. TypeOK /\ Grow /\ RegistryType /\ TypeOK' /\ "catalog" \in Kinds
  BY TypeParts, NextGrows, TypeNext DEF IInv, Kinds
<1> SUFFICES ASSUME NEW v \in Versions, Pushed("catalog", v)',
                    NEW w \in builds'[images'["catalog"][v]].channel
             PROVE  \/ Ready(w)'
                    \/ /\ w # v /\ VersionByHand(w)'
                       /\ MadeByHand(images["catalog"][v])' \/ contested' # {}
  BY DEF OffersOnlyPushed, Ready, Pushed
<1>1. w \in Versions
  <2>1. images'["catalog"][v] \in DOMAIN builds'
    BY <1>0 DEF TypeOK, Pushed, MaybeBuilt, BuildIds
  <2>2. builds' \in Seq(BuildRecord)
    BY <1>0 DEF TypeOK, BuildRecord
  <2>3. builds'[images'["catalog"][v]] \in BuildRecord
    BY <2>1, <2>2
  <2> QED
    BY <2>3 DEF BuildRecord
<1>2. CASE images'["catalog"][v] = images["catalog"][v]
  <2>1. PICK b \in BuildIds : b = images["catalog"][v] /\ b = images'["catalog"][v] /\ b # Missing
    BY <1>0, <1>2 DEF Pushed, RegistryType, MaybeBuilt
  <2>2. builds'[b] = builds[b] /\ w \in builds[b].channel
    BY <1>0, <2>1 DEF Grow
  <2>3. \/ Ready(w)
        \/ w # v /\ VersionByHand(w) /\ (MadeByHand(b) \/ contested # {})
    BY <2>1, <2>2 DEF Offered, OffersOnlyPushed, Ready
  <2>4. Ready(w) => Ready(w)'
    BY <1>0, <1>1, ReadyKept
  <2>5. VersionByHand(w) => VersionByHand(w)'
    BY <1>0, ByHandKept
  <2>6. MadeByHand(b) => MadeByHand(images["catalog"][v])'
    BY <2>1, <2>2 DEF MadeByHand
  <2>7. contested # {} => contested' # {}
    BY <1>0 DEF Grow
  <2> QED
    BY <2>3, <2>4, <2>5, <2>6, <2>7
<1>3. CASE images'["catalog"][v] # images["catalog"][v]
  BY <1>1, <1>3, NewCatalog
<1> QED
  BY <1>2, <1>3

LEMMA ShasOffer ==
  ASSUME IInv, Offered, [Next]_vars
  PROVE  \A s \in Sources : shas'["catalog"][s] # Missing => Offers(shas["catalog"][s])'
<1>0. TypeOK /\ Grow /\ RegistryType /\ MainType /\ "catalog" \in Kinds
  BY TypeParts, NextGrows DEF IInv, Kinds
<1> SUFFICES ASSUME NEW s \in Sources, shas'["catalog"][s] # Missing
             PROVE  Offers(shas["catalog"][s])'
  OBVIOUS
<1>1. CASE shas'["catalog"][s] = shas["catalog"][s]
  <2>1. PICK b \in BuildIds : b = shas["catalog"][s] /\ b = shas'["catalog"][s] /\ b # Missing
    BY <1>0, <1>1 DEF RegistryType, MaybeBuilt
  <2>2. Offers(b)'
    BY <1>0, <2>1, OffersKept DEF Offered
  <2> QED
    BY <2>1, <2>2 DEF Offers
<1>2. CASE shas'["catalog"][s] # shas["catalog"][s]
  <2>1. /\ PushSha /\ "catalog" = PushOrder[job.kind] /\ s = job.source
        /\ shas'["catalog"][s] = images["catalog"][job.version]
        /\ UNCHANGED <<images, builds, tags, contested>>
    BY <1>0, <1>2, ShaMoves
  <2>2. PICK v \in Versions, b \in BuildIds :
          /\ v = job.version /\ b = images["catalog"][v] /\ b # Missing
          /\ v \notin contested => Source(b) = s
    BY <1>0, <2>1, DigestRead DEF MainType
  <2>3. contested # {} \/ ~MadeByHand(b)
    BY <2>2, AllowedAssumption DEF MadeByHand, Source, Sources, NoSource
  <2>4. Offers(b)
    BY <2>2, <2>3, WorkflowOffers DEF Offered
  <2>5. Offers(b)'
    BY <1>0, <2>4, OffersKept
  <2> QED
    BY <2>1, <2>2, <2>5 DEF Offers
<1> QED
  BY <1>1, <1>2

LEMMA StableNext ==
  ASSUME IInv, Offered, [Next]_vars
  PROVE  stable' # Missing => Offers(stable)'
<1>0. TypeOK /\ Grow /\ RegistryType
  BY TypeParts, NextGrows DEF IInv
<1>1. PICK b \in MaybeBuilt : b = stable' /\ (b # Missing => Offers(b))
  <2>1. CASE PushStable
    <3>1. stable' = shas["catalog"][job.source] /\ job.source \in Sources
      BY <2>1, VersionType DEF PushStable, AfterReserve, AfterLoad
    <3> QED
      BY <1>0, <3>1 DEF RegistryType, Offered, Kinds
  <2>2. CASE ~PushStable
    <3>1. stable' = stable
      BY <2>2, HandLeaves
         DEF Next, vars, registry, JobStep, Merge, Dispatch, Rerun, ChecksPass, ChecksFail, Start,
             Stop, Reserve, RefuseSource, LoadExisting, RefuseImages, Refuse, PullStable,
             PullFallback, Build, PushImage, PushSha, CheckAliases, PushLatest
    <3> QED
      BY <1>0, <3>1 DEF RegistryType, Offered
  <2> QED
    BY <2>1, <2>2
<1>2. b # Missing => Offers(b)'
  BY <1>0, <1>1, OffersKept DEF MaybeBuilt
<1> QED
  BY <1>1, <1>2 DEF Offers

\* Only the steps before the aliases lead to a build or a push.
LEMMA JobElsewhere ==
  ASSUME IInv, [Next]_vars, job' # job, ~PullStable, ~PullFallback, ~Build, ~PushImage, ~PushSha
  PROVE  job'.pc \notin {"build", "image", "sha"}
<1>0. job \in JobRecord(MaybeBuilt)
  BY JobType DEF IInv
<1>1. \/ Start \/ Stop \/ Reserve \/ RefuseSource \/ LoadExisting \/ RefuseImages
      \/ CheckAliases \/ PushLatest \/ PushStable
  BY HandLeaves DEF Next, vars, JobStep, Merge, Dispatch, Rerun, ChecksPass, ChecksFail
<1>2. CASE Stop \/ RefuseSource \/ RefuseImages \/ PushStable
  BY <1>2 DEF Stop, RefuseSource, RefuseImages, Refuse, PushStable, Idle
<1>3. CASE Start
  BY <1>3 DEF Start, Idle
<1>4. CASE Reserve
  <2>1. \E v : job' = [job EXCEPT !.pc = "load", !.version = v]
    BY <1>4 DEF Reserve
  <2> QED
    BY <1>0, <2>1 DEF JobRecord
<1>5. CASE LoadExisting
  BY <1>0, <1>5 DEF LoadExisting, JobRecord
<1>6. CASE CheckAliases
  BY <1>0, <1>6 DEF CheckAliases, JobRecord, Idle
<1>7. CASE PushLatest
  BY <1>0, <1>7 DEF PushLatest, JobRecord
<1> QED
  BY <1>1, <1>2, <1>3, <1>4, <1>5, <1>6, <1>7

LEMMA ChannelNext ==
  ASSUME IInv, Offered, [Next]_vars
  PROVE  /\ job'.pc = "build" => \A w \in job'.channel : Fine(w)'
         /\ job'.pc \in {"image", "sha"} /\ job'.existing # Kinds =>
              \A w \in builds'[job'.build].channel : w = job'.version \/ Fine(w)'
<1>0. TypeOK /\ Grow /\ RegistryType /\ job \in JobRecord(MaybeBuilt)
  BY TypeParts, NextGrows DEF IInv
<1>1. \A w \in Versions : Fine(w) => Fine(w)'
  BY <1>0, FineKept
<1>2. job.channel \subseteq Versions
  BY <1>0 DEF JobRecord
<1>3. job.build # Missing =>
        /\ builds'[job.build] = builds[job.build]
        /\ builds[job.build].channel \subseteq Versions
  <2>1. ASSUME job.build # Missing
        PROVE  job.build \in BuildIds
    BY <1>0, <2>1 DEF JobRecord, MaybeBuilt
  <2>2. ASSUME job.build \in BuildIds
        PROVE  builds[job.build] \in BuildRecord
    BY <1>0, <2>2 DEF RegistryType, BuildIds
  <2> QED
    BY <1>0, <2>1, <2>2 DEF Grow, BuildRecord
<1>4. job.pc \in {"image", "sha"} /\ job.existing # Kinds => job.build # Missing
  BY <1>0 DEF IInv, Prepared, AfterLoad, RegistryType, Missing
<1>5. CASE UNCHANGED job
  BY <1>1, <1>2, <1>3, <1>4, <1>5 DEF Offered
<1>6. CASE PullStable
  <2>1. job'.pc = "build" /\ job'.channel = builds[stable].channel /\ stable # Missing
    BY <1>0, <1>6 DEF PullStable, History, StableChannel, JobRecord
  <2>2. stable \in BuildIds
    BY <1>0, <2>1 DEF RegistryType, MaybeBuilt
  <2>3. builds[stable].channel \subseteq Versions
    BY <1>0, <2>2, ChannelType
  <2> QED
    BY <1>1, <2>1, <2>3 DEF Offered, Offers
<1>7. CASE PullFallback
  <2>1. /\ job'.pc = "build"
        /\ job'.channel = IF Fallback = None THEN CheckedIn
                          ELSE builds[images["catalog"][Fallback]].channel
    BY <1>0, <1>7 DEF PullFallback, JobRecord
  <2>2. \A w \in CheckedIn : Fine(w)' /\ w \in Versions
    <3>1. \A w \in CheckedIn : Fine(w)
      BY DEF IInv, FirstImages, CheckedIn, Ready, Fine, Kinds
    <3> QED
      BY <1>1, <3>1, FallbackType
  <2>3. ASSUME Fallback # None
        PROVE  \A w \in builds[images["catalog"][Fallback]].channel : Fine(w)'
    <3>1. PICK v \in Versions : v = Fallback /\ v \in 1..Initial
      BY <2>3, FallbackType DEF CheckedIn
    <3>2. PICK b \in BuildIds : b = images["catalog"][v] /\ b # Missing
      BY <1>0, <3>1 DEF IInv, FirstImages, Kinds, Pushed, RegistryType, MaybeBuilt
    <3>3. contested # {} \/ ~MadeByHand(b)
      <4>1. contested = {} => b = v
        BY <3>1, <3>2 DEF IInv, FirstImages, Kinds
      <4> QED
        BY <3>1, <4>1, InitialAssumption DEF MadeByHand
    <3>4. Offers(b)
      BY <3>2, <3>3, WorkflowOffers DEF Offered
    <3> QED
      BY <1>0, <1>1, <3>1, <3>2, <3>4, ChannelType DEF Offers
  <2> QED
    BY <2>1, <2>2, <2>3
<1>8. CASE Build
  <2>1. job'.pc = "image" /\ UNCHANGED images /\ job'.existing = job.existing
        /\ job'.version = job.version
    BY <1>0, <1>8 DEF Build, JobRecord
  <2>2. ASSUME job.existing # Kinds
        PROVE  builds'[job'.build].channel = job.channel \cup {job.version}
    <3>1. /\ job' = [job EXCEPT !.pc = "image", !.build = Len(builds) + 1]
          /\ builds' = Append(builds, Generated)
      BY <1>8, <2>2 DEF Build
    <3>2. Generated \in BuildRecord
      BY <1>0, <1>8, VersionType, GeneratedType DEF Build, AfterReserve, AfterLoad
    <3>3. builds'[Len(builds) + 1] = Generated
      BY <1>0, <3>1, <3>2, Appended
    <3> QED
      BY <1>0, <3>1, <3>3 DEF Generated, JobRecord
  <2> QED
    BY <1>1, <1>2, <1>8, <2>1, <2>2 DEF Offered, Build
<1>9. CASE PushImage \/ PushSha
  <2>1. /\ job.pc \in {"image", "sha"} /\ job'.pc # "build"
        /\ UNCHANGED <<job.existing, job.build, job.version>>
    BY <1>0, <1>9 DEF PushImage, PushSha, JobRecord
  <2> QED
    BY <1>1, <1>3, <1>4, <2>1 DEF Offered
<1>10. CASE job' # job /\ ~PullStable /\ ~PullFallback /\ ~Build /\ ~PushImage /\ ~PushSha
  BY <1>10, JobElsewhere
<1> QED
  BY <1>5, <1>6, <1>7, <1>8, <1>9, <1>10

\* What the job and --build offer goes on to be offered by what they make.
LEMMA OfferedNext ==
  ASSUME IInv, Offered, Made, [Next]_vars
  PROVE  Offered' /\ Made'
BY OffersNext, StableNext, ShasOffer, ChannelNext, MadeNext DEF Offered

\* Every version any catalog image offers has its bundle and operator in the
\* registry, with every fault and half-published release; or it was made by
\* hand, and so was the catalog or a reserved version.
THEOREM CatalogsAreComplete == Spec => []OffersOnlyPushed
<1>1. IInv /\ (Offered /\ Made) /\ [Next]_vars => (Offered /\ Made)'
  BY OfferedNext
<1>2. Offered => OffersOnlyPushed
  BY DEF Offered
<1> QED
  BY OfferedInit, <1>1, <1>2, Invariance, PTL DEF Spec

-----------------------------------------------------------------------------
(* The promise.                                                             *)

LEMMA PublishedNext ==
  ASSUME IInv, [Next]_vars, NEW v \in DOMAIN tags' \ contested', Published(v)',
         ~(v \in DOMAIN tags /\ Published(v))
  PROVE  PushImage /\ v = job.version /\ v \in DOMAIN tags
<1>0. /\ TypeOK /\ TypeOK' /\ Grow /\ Labelled /\ Tagged /\ Tagged' /\ v \in Versions
      /\ v \notin contested
  BY NextGrows, TypeNext, TaggedNext DEF IInv, TypeOK, Grow
<1>1. CASE v \in DOMAIN tags
  <2>1. PICK kind \in Kinds : ~(Pushed(kind, v) /\ Source(images[kind][v]) = tags[v])
    BY <1>1 DEF Published
  <2>2. Pushed(kind, v)' /\ Source(images[kind][v])' = tags'[v] /\ tags'[v] = tags[v]
    BY <1>0, <1>1 DEF Published, Grow
  <2>3. ~Pushed(kind, v)
    BY <1>0, <1>1, <2>1, <2>2, ImageKept
  <2>4. images'[kind][v] # images[kind][v]
    BY <2>2, <2>3 DEF Pushed
  <2> QED
    BY <1>0, <1>1, <2>4, NewImage
<1>2. CASE v \notin DOMAIN tags
  <2>1. Reserve
    BY <1>2, Contests
  <2>2. UNCHANGED <<images, builds>>
    BY <2>1 DEF Reserve, registry
  <2>3. "operator" \in Kinds /\ Pushed("operator", v) /\ Source(images["operator"][v]) = tags'[v]
    BY <2>2 DEF Published, Pushed, Source, Kinds
  <2>4. tags'[v] = NoSource
    BY <1>0, <1>2, <2>3 DEF Labelled
  <2>5. v > Initial
    BY <1>0, <1>2, InitialAssumption, TypeParts DEF Tagged, MainType, Versions
  <2>6. tags'[v] \in Sources
    BY <1>0, <2>5 DEF Tagged
  <2> QED
    BY <2>4, <2>6, AllowedAssumption DEF Sources, NoSource
<1> QED
  BY <1>1, <1>2

Alias == [a \in AliasNames |-> ReleaseOf(AliasedBuild[a])]
ReleaseAt(v) == [version |-> v, source |-> tags[v]]

LEMMA LedgerInit == Init => Promise!Init
<1> SUFFICES ASSUME Init
             PROVE  Promise!Init
  OBVIOUS
<1> DEFINE F == [v \in 1..Initial |-> [version |-> v, source |-> NoSource]]
<1>1. Initial \in Nat /\ 1..Initial \subseteq Versions /\ DOMAIN tags = 1..Initial
  BY InitialAssumption, AllowedAssumption DEF Init, Versions
<1>2. ASSUME NEW v \in 1..Initial
      PROVE  /\ Published(v) /\ ReleaseAt(v) = F[v]
             /\ ReleaseOf(v) = F[v]
  <2>1. \A kind \in Kinds : images[kind][v] = v
    BY <1>1 DEF Init
  <2>2. v # Missing /\ builds[v].source = NoSource /\ builds[v].version = v /\ tags[v] = NoSource
    BY <1>1 DEF Init, Missing
  <2> QED
    BY <2>1, <2>2 DEF Published, Pushed, Source, Version, ReleaseAt, ReleaseOf
<1>3. Releases = {F[v] : v \in 1..Initial}
  <2>1. contested = {}
    BY DEF Init
  <2> QED
    BY <1>1, <1>2, <2>1 DEF Releases, ReleaseAt
<1>4. ReleaseOf(Initial) =
        IF Initial = 0 THEN [version |-> 0, source |-> NoSource] ELSE F[Initial]
  BY <1>1, <1>2 DEF ReleaseOf, Source, Version, Missing, None
<1>5. \A a \in AliasNames : AliasedBuild[a] = Initial
  BY DEF Init, AliasNames, AliasedBuild
<1>6. contested = {}
  BY DEF Init
<1> QED
  BY <1>3, <1>4, <1>5, <1>6 DEF Promise!Init, Promise!First, Promise!NoRelease

\* The releases, as images of the versions that have one.
Held == {w \in DOMAIN tags \ contested : Published(w)}

LEMMA ReleasesAre == Releases = {ReleaseAt(v) : v \in Held}
BY DEF Releases, ReleaseAt, Held

LEMMA ReleasesAreNext == Releases' = {ReleaseAt(v)' : v \in Held'}
BY DEF Releases, ReleaseAt, Held

\* Nothing published goes while no version gets contested, and at most the
\* job's own release comes.
LEMMA ReleasesNext ==
  ASSUME IInv, [Next]_vars, Releases' # Releases, contested' = contested
  PROVE  /\ PushImage
         /\ job.version \in DOMAIN tags \ contested /\ ~Published(job.version)
         /\ Releases' = Releases \cup {ReleaseAt(job.version)}
<1>0. TypeOK /\ TypeOK' /\ Grow
  BY NextGrows, TypeNext DEF IInv
<1>1. \A v \in DOMAIN tags : v \in DOMAIN tags' /\ ReleaseAt(v)' = ReleaseAt(v)
  BY <1>0 DEF Grow, ReleaseAt
<1>2. Held \subseteq Held'
  BY <1>0, <1>1, PublishedKept DEF Held
<1>3. \A w \in Held' : w \notin Held => PushImage /\ w = job.version /\ w \in DOMAIN tags
  BY PublishedNext DEF Held
<1>4. Held \subseteq DOMAIN tags
  BY DEF Held
<1>5. Held' # Held
  BY <1>1, <1>2, <1>4, ReleasesAre, ReleasesAreNext
<1>6. PICK v \in Held' : v \notin Held
  BY <1>2, <1>5
<1>7. PushImage /\ v = job.version /\ v \in DOMAIN tags
  BY <1>3, <1>6
<1>8. Held' = Held \cup {v}
  BY <1>2, <1>3, <1>6, <1>7
<1>9. v \notin contested /\ ~Published(v)
  BY <1>6, <1>7 DEF Held
<1>10. Releases' = Releases \cup {ReleaseAt(v)}
  BY <1>1, <1>4, <1>7, <1>8, ReleasesAre, ReleasesAreNext
<1> QED
  BY <1>7, <1>9, <1>10

LEMMA AliasStays ==
  ASSUME IInv, [Next]_vars
  PROVE  /\ latest' = latest => Alias'["latest"] = Alias["latest"]
         /\ stable' = stable => Alias'["stable"] = Alias["stable"]
<1>1. latest \in MaybeBuilt /\ stable \in MaybeBuilt /\ Aliased(latest) /\ Aliased(stable)
  BY TypeParts DEF IInv, RegistryType, Promoted
<1>2. PICK l \in MaybeBuilt, c \in MaybeBuilt : l = latest /\ c = stable
  BY <1>1
<1>3. /\ Commit(l)' = Commit(l) /\ Version(l)' = Version(l)
      /\ Commit(c)' = Commit(c) /\ Version(c)' = Version(c)
  BY <1>1, <1>2, AliasKept
<1>4. ReleaseOf(l)' = ReleaseOf(l) /\ ReleaseOf(c)' = ReleaseOf(c)
  BY <1>3 DEF ReleaseOf, Commit
<1>5. latest' = latest => ReleaseOf(latest)' = ReleaseOf(l)'
  BY <1>2 DEF ReleaseOf, Source, Version
<1>6. stable' = stable => ReleaseOf(stable)' = ReleaseOf(c)'
  BY <1>2 DEF ReleaseOf, Source, Version
<1> QED
  BY <1>2, <1>4, <1>5, <1>6 DEF Alias, AliasNames, AliasedBuild

\* The alias the job moves gets a published release, or one of a contested
\* version, of a later commit unless it is the one it names.
LEMMA AliasMoves ==
  ASSUME IInv, NEW kind \in Kinds, job.pc \in {"latest", "stable"},
         NEW a \in AliasNames
  PROVE  LET r == ReleaseOf(shas[kind][job.source]) IN
         /\ r \in Releases \/ r.version \in contested
         /\ r \in Promise!Releases
         /\ r = Alias[a] \/ r.source > Alias[a].source
<1> DEFINE r == ReleaseOf(shas[kind][job.source])
           old == AliasedBuild[a]
<1>1. /\ r = [version |-> job.version, source |-> job.source]
      /\ job.version \in DOMAIN tags /\ tags[job.version] = job.source
      /\ job.version \notin contested => Published(job.version)
      /\ job.source \in Sources
  BY JobsRelease DEF ReleaseOf
<1>2. job.version \in Versions /\ job.source \in Nat /\ job.source # NoSource
  BY <1>1, TypeParts, AllowedAssumption DEF IInv, MainType, Sources, NoSource
<1>3. /\ old \in MaybeBuilt /\ Aliased(old) /\ Alias[a] = ReleaseOf(old)
      /\ TypeOK
  BY TypeParts DEF IInv, RegistryType, Promoted, Alias, AliasNames, AliasedBuild
<1>4. /\ Commit(old) \in Nat /\ Commit(old) <= job.source
      /\ Alias[a].source = Commit(old)
  BY <1>3, CommitType DEF Aliased, Commit
<1>5. r \in Releases \/ r.version \in contested
  BY <1>1, <1>2 DEF Releases
<1>6. r \in Promise!Releases
  BY <1>1, <1>2 DEF Promise!Releases
<1>7. CASE Commit(old) = job.source
  <2>1. old # Missing
    BY <1>2, <1>3, <1>7, CommitType
  <2>2. Version(old) \in DOMAIN tags /\ tags[Version(old)] = job.source
    BY <1>3, <1>7, <2>1, CommitType DEF Aliased
  <2>3. Version(old) = job.version
    BY <1>1, <1>2, <2>2 DEF IInv, Tagged, OneVersionPerSource
  <2>4. ReleaseOf(old) = [version |-> job.version, source |-> job.source]
    BY <2>2, <2>3 DEF ReleaseOf
  <2> QED
    BY <1>1, <1>3, <1>5, <1>6, <2>4
<1>8. CASE Commit(old) # job.source
  <2>1. r.source = job.source
    BY <1>1
  <2>2. r.source > Alias[a].source
    BY <1>2, <1>4, <1>8, <2>1
  <2> QED
    BY <1>5, <1>6, <2>2
<1> QED
  BY <1>7, <1>8

\* A version that gets contested is the only one whose release may go.
LEMMA ContestNext ==
  ASSUME IInv, [Next]_vars, contested' # contested
  PROVE  \E v \in Versions : Promise!Contest(v)
<1>0. /\ TypeOK /\ Grow /\ RegistryType /\ MainType
      /\ tags \in Seq(Sources \cup {NoSource}) /\ DOMAIN tags = 1..Len(tags) /\ Len(tags) \in Nat
  BY TypeParts, NextGrows DEF IInv, MainType
<1>1. PICK v \in Versions :
        /\ contested' = contested \cup {v}
        /\ DOMAIN tags' \subseteq DOMAIN tags \cup {v}
        /\ UNCHANGED <<images, latest, stable>>
  <2>1. CASE Reserve
    <3>1. /\ Reserved(job.source) = {} /\ tags' = Append(tags, job.source)
          /\ contested' = contested \cup ({NextVersion} \cap {hand.version})
          /\ UNCHANGED registry /\ job.source \in Sources
      BY <2>1 DEF Reserve, IInv, Tagged
    <3>2. contested' = contested \cup {NextVersion}
      BY <3>1
    <3>3. NextVersion \in Versions
      BY <1>0, <3>1, TagsFit DEF Reserved, NextVersion, IInv
    <3>4. DOMAIN tags' = DOMAIN tags \cup {NextVersion}
      BY <1>0, <3>1 DEF NextVersion
    <3> QED
      BY <3>1, <3>2, <3>3, <3>4 DEF registry
  <2>2. ASSUME NEW u \in Versions, GenerateByHand(u)
        PROVE  /\ contested' = contested \cup {u}
               /\ UNCHANGED <<tags, images, latest, stable>>
    BY <2>2 DEF GenerateByHand
  <2>3. CASE \E u \in Versions : GenerateByHand(u)
    BY <2>2, <2>3
  <2> QED
    BY <2>1, <2>3, Contests
<1>2. ASSUME NEW w \in DOMAIN tags
      PROVE  Published(w)' <=> Published(w)
  <2>1. w \in Versions /\ tags'[w] = tags[w]
    BY <1>0 DEF MainType, Grow
  <2>2. ASSUME NEW kind \in Kinds
        PROVE  /\ Pushed(kind, w)' <=> Pushed(kind, w)
               /\ Source(images[kind][w])' = Source(images[kind][w])
    <3>1. images'[kind][w] = images[kind][w] /\ images[kind][w] \in MaybeBuilt
      BY <1>0, <1>1, <2>1 DEF RegistryType
    <3> QED
      BY <1>0, <3>1 DEF Pushed, Source, Grow, MaybeBuilt
  <2> QED
    BY <2>1, <2>2 DEF Published
<1>3. Held' = {w \in Held : w # v}
  <2>1. ASSUME NEW w
        PROVE  w \in Held' <=> w \in Held /\ w # v
    BY <1>0, <1>1, <1>2 DEF Held, Grow
  <2> QED
    BY <2>1
<1>4. \A w \in Held : ReleaseAt(w)' = ReleaseAt(w) /\ ReleaseAt(w).version = w
  BY <1>0 DEF Held, ReleaseAt, Grow
<1>5. Releases' = {p \in Releases : p.version # v}
  <2>1. Releases' = {ReleaseAt(w) : w \in {u \in Held : u # v}}
    BY <1>3, <1>4, ReleasesAreNext
  <2> QED
    BY <1>4, <2>1, ReleasesAre
<1>6. Alias' = Alias
  BY <1>1, AliasStays DEF Alias, AliasNames
<1> QED
  BY <1>1, <1>5, <1>6 DEF Promise!Contest, Alias

\* Every step of the workflow publishes one release, moves one alias, or shows
\* nothing.
LEMMA LedgerNext ==
  ASSUME IInv, [Next]_vars
  PROVE  [Promise!Next]_<<Releases, Alias, contested>>
<1>0. CASE contested' # contested
  BY <1>0, ContestNext DEF Promise!Next
<1>1. CASE Releases' # Releases /\ contested' = contested
  <2>1. /\ PushImage
        /\ job.version \in DOMAIN tags \ contested /\ ~Published(job.version)
        /\ Releases' = Releases \cup {ReleaseAt(job.version)}
    BY <1>1, ReleasesNext
  <2>2. Alias' = Alias
    BY <2>1, AliasStays DEF PushImage, Alias, AliasNames
  <2>3. /\ tags[job.version] = job.source /\ job.source \in Sources /\ job.source # NoSource
        /\ job.version \in Versions
    BY <2>1, TypeParts, AllowedAssumption
       DEF IInv, Tagged, PushImage, AfterReserve, AfterLoad, MainType, Sources, NoSource
  <2>4. ASSUME NEW p \in Releases
        PROVE  p.version # job.version /\ p.source # job.source
    <3>1. PICK v \in DOMAIN tags : Published(v) /\ p = [version |-> v, source |-> tags[v]]
      BY DEF Releases
    <3> QED
      BY <2>1, <2>3, <3>1 DEF IInv, Tagged, OneVersionPerSource
  <2>5. ReleaseAt(job.version) = [version |-> job.version, source |-> job.source]
    BY <2>3 DEF ReleaseAt
  <2>6. Promise!Publish(ReleaseAt(job.version))
    BY <1>1, <2>1, <2>2, <2>3, <2>4, <2>5 DEF Promise!Publish, Alias
  <2> QED
    BY <2>3, <2>5, <2>6 DEF Promise!Next, Promise!Releases
<1>2. CASE Releases' = Releases /\ contested' = contested /\ PushLatest
  <2> DEFINE r == ReleaseOf(shas["operator"][job.source])
  <2>1. /\ r \in Releases \/ r.version \in contested
        /\ r \in Promise!Releases
        /\ r = Alias["latest"] \/ r.source > Alias["latest"].source
    BY <1>2, AliasMoves DEF PushLatest, Kinds, AliasNames
  <2>2. Alias' = [Alias EXCEPT !["latest"] = r]
    <3>1. latest' = shas["operator"][job.source] /\ stable' = stable /\ UNCHANGED <<builds, tags>>
      BY <1>2 DEF PushLatest
    <3>2. ReleaseOf(latest)' = r
      BY <3>1 DEF ReleaseOf, Source, Version
    <3>3. Alias'["latest"] = r
      BY <3>2 DEF Alias, AliasNames, AliasedBuild
    <3>4. Alias'["stable"] = Alias["stable"]
      BY <3>1, AliasStays
    <3> QED
      BY <3>3, <3>4 DEF Alias, AliasNames
  <2>3. CASE r = Alias["latest"]
    BY <1>2, <2>2, <2>3 DEF Alias, AliasNames
  <2>4. CASE r.source > Alias["latest"].source
    BY <1>2, <2>1, <2>2, <2>4 DEF Promise!Next, Promise!Promote, Alias, AliasNames
  <2> QED
    BY <2>1, <2>3, <2>4
<1>3. CASE Releases' = Releases /\ contested' = contested /\ PushStable
  <2> DEFINE r == ReleaseOf(shas["catalog"][job.source])
  <2>1. /\ r \in Releases \/ r.version \in contested
        /\ r \in Promise!Releases
        /\ r = Alias["stable"] \/ r.source > Alias["stable"].source
    BY <1>3, AliasMoves DEF PushStable, Kinds, AliasNames
  <2>2. Alias' = [Alias EXCEPT !["stable"] = r]
    <3>1. stable' = shas["catalog"][job.source] /\ latest' = latest /\ UNCHANGED <<builds, tags>>
      BY <1>3 DEF PushStable
    <3>2. ReleaseOf(stable)' = r
      BY <3>1 DEF ReleaseOf, Source, Version
    <3>3. Alias'["stable"] = r
      BY <3>2 DEF Alias, AliasNames, AliasedBuild
    <3>4. Alias'["latest"] = Alias["latest"]
      BY <3>1, AliasStays
    <3> QED
      BY <3>3, <3>4 DEF Alias, AliasNames
  <2>3. CASE r = Alias["stable"]
    BY <1>3, <2>2, <2>3 DEF Alias, AliasNames
  <2>4. CASE r.source > Alias["stable"].source
    BY <1>3, <2>1, <2>2, <2>4 DEF Promise!Next, Promise!Promote, Alias, AliasNames
  <2> QED
    BY <2>1, <2>3, <2>4
<1>4. CASE Releases' = Releases /\ contested' = contested /\ ~PushLatest /\ ~PushStable
  <2>1. latest' = latest /\ stable' = stable
    BY <1>4, HandLeaves DEF Next, vars, registry, JobStep, Merge, Dispatch, Rerun, ChecksPass, ChecksFail,
          Start, Stop, Reserve, RefuseSource, LoadExisting, RefuseImages, Refuse,
          PullStable, PullFallback, Build, PushImage, PushSha, CheckAliases
  <2>2. Alias' = Alias
    BY <2>1, AliasStays DEF Alias, AliasNames
  <2> QED
    BY <1>4, <2>2
<1> QED
  BY <1>0, <1>1, <1>2, <1>3, <1>4

\* The whole workflow keeps the promise: published versions stay and belong to
\* one commit each, and an alias only moves to a published release of a later
\* commit; nothing is promised of a version made by hand while it is reserved.
THEOREM PromiseKept == Spec => Implements
<1>1. IInv /\ [Next]_vars => [Promise!Next]_<<Releases, Alias, contested>>
  BY LedgerNext
<1>2. <<Releases, Alias, contested>> = Promise!ledger
  BY DEF Promise!ledger, Alias
<1>3. IInv /\ [Next]_vars => [Promise!Next]_(Promise!ledger)
  BY <1>1, <1>2 DEF Promise!ledger, Alias
<1> QED
  BY LedgerInit, <1>3, Invariance, PTL DEF Spec, Implements, Promise!Ledger
================================================================================
