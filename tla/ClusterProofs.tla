----------------------------- MODULE ClusterProofs -----------------------------
(***************************************************************************)
(* Proof that no cluster is stranded, for any number of merges, faults and *)
(* hand-made images, as long as the stable catalog can be pulled and no    *)
(* reserved version is made by hand: a pinned cluster because the image of *)
(* a release is not replaced, one that follows stable because stable loses *)
(* no upgrade path.  A catalog made by hand before its version is reserved *)
(* may be replaced, but only by another one made by hand (Serves).         *)
(***************************************************************************)
EXTENDS Cluster, ChannelProofs

\* What the cluster serves is the image it named, or was stable before.
Serves ==
  /\ reference \in Versions \cup {None, Stable}
  /\ options = "none" <=> reference = None
  /\ reference = None => served = Missing
  /\ served \in MaybeBuilt
  /\ installed # None => served # Missing
  /\ reference = Stable /\ contested = {} =>
       /\ Channel(served) \subseteq StableChannel
       /\ installed # None => installed \in Channel(served)
  /\ reference \in Versions /\ contested = {} /\ served # Missing =>
       \/ served = images["catalog"][reference]
       \/ MadeByHand(served) /\ MadeByHand(images["catalog"][reference])
  /\ NeverStranded

ClusterInv == IInv /\ KeptUncontested /\ Serves

LEMMA Tags == Stable \notin Versions /\ None \notin Versions /\ Stable # None
BY InitialAssumption, AllowedAssumption DEF Stable, Versions, None

LEMMA ClusterInvInit == ClusterInit => ClusterInv
<1> SUFFICES ASSUME ClusterInit
             PROVE  ClusterInv
  OBVIOUS
<1>1. IInv /\ KeptUncontested
  BY InvariantInit, KeptInit DEF ClusterInit, KeptUncontested
<1>2. Serves
  BY Tags DEF ClusterInit, Serves, NeverStranded, MaybeBuilt
<1> QED
  BY <1>1, <1>2 DEF ClusterInv

\* What a build offers, and who made it, never changes.
LEMMA ServedStays ==
  ASSUME IInv, [Next]_vars, NEW build \in MaybeBuilt
  PROVE  /\ build \in MaybeBuilt' /\ Channel(build)' = Channel(build)
         /\ build # Missing => MadeByHand(build)' = MadeByHand(build)
BY NextGrows DEF Grow, Channel, IInv, MaybeBuilt, MadeByHand

\* Whatever image an unreserved version has was made by hand.
LEMMA UnreservedByHand ==
  ASSUME IInv, NEW v \in Versions, v \notin DOMAIN tags, Pushed("catalog", v)
  PROVE  MadeByHand(images["catalog"][v])
<1>1. /\ TypeOK /\ images["catalog"][v] \in BuildIds /\ images["catalog"][v] # Missing
      /\ BuildIds \subseteq Nat /\ Initial \in Nat
  BY TypeParts, InitialAssumption DEF IInv, RegistryType, MaybeBuilt, Pushed, Kinds, BuildIds
<1>2. /\ builds[images["catalog"][v]].version = v
      /\ builds[images["catalog"][v]].source = NoSource
  BY <1>1 DEF IInv, Labelled, Version, Source, Kinds
<1>3. 1..Initial \subseteq DOMAIN tags
  BY <1>1, TypeParts DEF IInv, Tagged, MainType
<1>4. ~(images["catalog"][v] \in 1..Initial)
  BY <1>2, <1>3 DEF IInv, Handled
<1>5. images["catalog"][v] > Initial
  <2> DEFINE b == images["catalog"][v]
  <2>1. b \in Nat /\ b # 0 /\ Initial \in Nat /\ ~(b \in 1..Initial)
    BY <1>1, <1>4 DEF Missing
  <2> HIDE DEF b
  <2>2. b > Initial
    BY <2>1
  <2> QED
    BY <2>2 DEF b
<1> QED
  BY <1>2, <1>5 DEF MadeByHand

\* With nothing contested, the catalog of a version is replaced only while the
\* version is not reserved.
LEMMA ReplacedByHand ==
  ASSUME IInv, [Next]_vars, contested' = {}, NEW v \in Versions, Pushed("catalog", v),
         images'["catalog"][v] # images["catalog"][v]
  PROVE  MadeByHand(images["catalog"][v]) /\ MadeByHand(images["catalog"][v])'
<1>1. /\ images'["catalog"][v] = hand.build /\ hand.build \in BuildIds
      /\ PushByHand /\ v \notin DOMAIN tags
  BY StillUncontested, NewImage DEF Kinds
<1>2. MadeByHand(hand.build) /\ hand.build # Missing
  BY <1>1 DEF PushByHand, IInv, Handled, BuildIds, Missing
<1>3. MadeByHand(images["catalog"][v])
  BY <1>1, UnreservedByHand
<1>4. builds' = builds
  BY <1>1 DEF PushByHand
<1> QED
  BY <1>1, <1>2, <1>3, <1>4 DEF MadeByHand

LEMMA PipelineStep ==
  ASSUME ClusterInv, [Next]_vars, UNCHANGED cluster, MaxPullFaults = 0
  PROVE  ClusterInv'
<1>0. IInv /\ Serves /\ IInv' /\ KeptUncontested' /\ reference' = reference
  BY InvariantNext, KeptNext DEF ClusterInv, cluster
<1>1. contested' = {} => contested = {}
  BY <1>0, StillUncontested
<1>2. ASSUME contested' = {}
      PROVE  StableChannel \subseteq StableChannel'
  <2>1. CASE stable' = stable
    BY <1>0, <2>1, StableStays
  <2>2. CASE stable' # stable
    BY <1>0, <1>1, <1>2, <2>2, StableExtends DEF ClusterInv, KeptUncontested, StableChannel
  <2> QED
    BY <2>1, <2>2
<1>3. /\ served \in MaybeBuilt' /\ Channel(served)' = Channel(served)
      /\ served # Missing => MadeByHand(served)' = MadeByHand(served)
  BY <1>0, ServedStays DEF Serves, cluster, Channel, MadeByHand
<1>4. ASSUME contested' = {}, reference \in Versions, served # Missing
      PROVE  \/ served = images'["catalog"][reference]
             \/ MadeByHand(served)' /\ MadeByHand(images["catalog"][reference])'
  <2>1. \/ served = images["catalog"][reference]
        \/ MadeByHand(served) /\ MadeByHand(images["catalog"][reference])
    BY <1>0, <1>1, <1>4 DEF Serves
  <2>2. /\ images["catalog"][reference] \in MaybeBuilt /\ "catalog" \in Kinds
    BY <1>0, <1>4, TypeParts DEF IInv, RegistryType, Kinds
  <2>3. Pushed("catalog", reference)
    <3>1. MadeByHand(images["catalog"][reference]) => images["catalog"][reference] # Missing
      BY InitialAssumption DEF MadeByHand, Missing
    <3> QED
      BY <1>4, <2>1, <3>1 DEF Pushed
  <2>4. CASE images'["catalog"][reference] = images["catalog"][reference]
    <3>1. MadeByHand(images["catalog"][reference])' = MadeByHand(images["catalog"][reference])
      <4>1. PICK b \in MaybeBuilt : b = images["catalog"][reference] /\ b # Missing
        BY <2>2, <2>3 DEF Pushed
      <4>2. MadeByHand(b)' = MadeByHand(b)
        BY <1>0, <4>1, ServedStays
      <4> QED
        BY <1>0, <2>4, <4>1, <4>2 DEF MadeByHand
    <3> QED
      BY <1>3, <1>4, <2>1, <2>4, <3>1
  <2>5. CASE images'["catalog"][reference] # images["catalog"][reference]
    <3>1. MadeByHand(images["catalog"][reference]) /\ MadeByHand(images["catalog"][reference])'
      <4>1. PICK v \in Versions : v = reference
        BY <1>4
      <4>2. MadeByHand(images["catalog"][v]) /\ MadeByHand(images["catalog"][v])'
        BY <1>0, <1>4, <2>3, <2>5, <4>1, ReplacedByHand
      <4> QED
        BY <1>0, <4>1, <4>2 DEF MadeByHand
    <3> QED
      BY <1>3, <1>4, <2>1, <3>1
  <2> QED
    BY <2>4, <2>5
<1>6. Serves'
  BY <1>0, <1>1, <1>2, <1>3, <1>4 DEF Serves, NeverStranded, cluster, Versions, Stable
<1> QED
  BY <1>0, <1>6 DEF ClusterInv

LEMMA ClusterStep ==
  ASSUME ClusterInv, InstallCatalog \/ ApplyManifest \/ Poll \/ Install \/ Upgrade
  PROVE  ClusterInv'
<1>0. /\ IInv /\ KeptUncontested /\ Serves /\ "catalog" \in Kinds
      /\ stable \in MaybeBuilt /\ images \in [Kinds -> [Versions -> MaybeBuilt]]
  BY TypeParts DEF ClusterInv, IInv, RegistryType, Kinds
<1>1. UNCHANGED vars
  BY DEF InstallCatalog, ApplyManifest, Create, Poll, Install, Upgrade
<1>2. IInv' /\ KeptUncontested'
  <2>1. [Next]_vars
    BY <1>1
  <2>2. IInv'
    BY <1>0, <2>1, InvariantNext
  <2>3. KeptUncontested'
    BY <1>0, <1>1 DEF vars, registry, manual, KeptUncontested, Kept, Extends, Works, Last,
                      Catalogued, Pushed, Source, StableChannel
  <2> QED
    BY <2>2, <2>3
<1>3. ASSUME NEW ref \in Versions \cup {Stable}
      PROVE  /\ Resolved(ref) \in MaybeBuilt
             /\ ref = Stable => Channel(Resolved(ref)) = StableChannel
             /\ ref \in Versions => Resolved(ref) = images["catalog"][ref]
  BY <1>0, <1>3, Tags DEF Resolved, Channel, StableChannel
<1>4. /\ UNCHANGED <<stable, images, builds, contested>>
      /\ StableChannel' = StableChannel /\ MaybeBuilt' = MaybeBuilt
  BY <1>1 DEF vars, registry, manual, StableChannel, BuildIds, MaybeBuilt
<1>5. ASSUME NEW asked, asked # "none", NEW ref \in Versions \cup {Stable}, Create(asked, ref)
      PROVE  Serves'
  <2>1. /\ reference' = ref /\ served' = Resolved(ref) /\ options' = asked
        /\ installed' = None
    BY <1>0, <1>5 DEF Create, Serves
  <2>2. Channel(served)' = Channel(Resolved(ref))
    BY <1>4, <2>1 DEF Channel
  <2> QED
    BY <1>3, <1>4, <1>5, <2>1, <2>2, Tags DEF Serves, NeverStranded
<1>6. ASSUME Poll
      PROVE  Serves'
  <2>1. /\ reference' = reference /\ installed' = installed
        /\ served' = Resolved(reference) /\ Resolved(reference) # Missing
        /\ Resolved(reference) # served /\ options' = options
    BY <1>6 DEF Poll
  <2>2. reference \in Versions \cup {Stable}
    BY <1>0, <1>6, Tags DEF Serves, Poll
  <2>3. Channel(served)' = Channel(Resolved(reference))
    BY <1>4, <2>1 DEF Channel
  <2>4. CASE reference = Stable
    BY <1>0, <1>3, <1>4, <2>1, <2>2, <2>3, <2>4, Tags DEF Serves, NeverStranded
  <2>5. CASE reference \in Versions
    <3>1. served' = images["catalog"][reference]
      BY <1>3, <2>1, <2>5
    <3>2. contested = {} /\ installed # None => MadeByHand(served)'
      BY <1>0, <1>4, <2>1, <2>5, <3>1 DEF Serves, MadeByHand
    <3> QED
      BY <1>0, <1>3, <1>4, <2>1, <2>2, <2>5, <3>1, <3>2, Tags DEF Serves, NeverStranded
  <2> QED
    BY <2>2, <2>4, <2>5
<1>7. ASSUME Install \/ Upgrade
      PROVE  Serves'
  <2>1. /\ UNCHANGED <<options, reference, served>>
        /\ installed' # None => served # Missing /\ installed' \in Channel(served)
    <3>1. CASE Install
      BY <3>1, PredecessorType DEF Install
    <3>2. CASE Upgrade
      BY <1>0, <3>2 DEF Upgrade, Serves
    <3> QED
      BY <1>7, <3>1, <3>2
  <2>2. Channel(served)' = Channel(served) /\ MadeByHand(served)' = MadeByHand(served)
    BY <1>4, <2>1 DEF Channel, MadeByHand
  <2> QED
    BY <1>0, <1>4, <2>1, <2>2 DEF Serves, NeverStranded, MadeByHand
<1>8. ASSUME InstallCatalog \/ ApplyManifest
      PROVE  Serves'
  BY <1>5, <1>8 DEF InstallCatalog, ApplyManifest
<1>9. Serves'
  BY <1>6, <1>7, <1>8
<1> QED
  BY <1>2, <1>9 DEF ClusterInv

\* As long as the stable catalog can be pulled and no reserved version is made
\* by hand, the operator a cluster runs is in the channel it is served,
\* whichever way the catalog was named, unless a catalog made by hand serves it.
THEOREM NobodyStranded ==
  ASSUME MaxPullFaults = 0
  PROVE  ClusterSpec => []NeverStranded
<1>1. ClusterInv /\ [ClusterNext]_all => ClusterInv'
  <2>1. ASSUME ClusterInv, [ClusterNext]_all
        PROVE  ClusterInv'
    <3>1. CASE InstallCatalog \/ ApplyManifest \/ Poll \/ Install \/ Upgrade
      BY <2>1, <3>1, ClusterStep
    <3>2. CASE (Next /\ UNCHANGED cluster) \/ UNCHANGED all
      BY <2>1, <3>2, PipelineStep DEF all
    <3> QED
      BY <2>1, <3>1, <3>2 DEF ClusterNext
  <2> QED
    BY <2>1
<1>2. ClusterInv => NeverStranded
  BY DEF ClusterInv, Serves
<1> QED
  BY ClusterInvInit, <1>1, <1>2, PTL DEF ClusterSpec
================================================================================
