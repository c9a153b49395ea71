------------------------------ MODULE ApplyProofs ------------------------------
(***************************************************************************)
(* Proofs about ApplyCall, for any number of processes and attempts and    *)
(* without the bounds of the runs.  What the cache shows is an old version *)
(* of the object; obj takes its resourceVersion and its address from the   *)
(* same one (FromOneVersion), so an update the API server accepts carries  *)
(* the address of the current version.                                     *)
(***************************************************************************)
EXTENDS ApplyCall, TLAPS

\* A process about to update runs a call that may, and what it sends comes from
\* one version it read.
FromOneVersion ==
  \A p \in Callers : pc[p] = "update" =>
    /\ op \in Correcting
    /\ rv[p] \in 1 .. Len(hist)
    /\ data[p] = hist[rv[p]].data

IInv == TypeOK /\ FromOneVersion

USE DEF Correcting, CreatingOnly, Contract!Correcting, Contract!CreatingOnly

-----------------------------------------------------------------------------
\* A version the operator writes or others write is a version.
LEMMA PresentIsVersion ==
  ASSUME NEW spec \in {"ours", "other"}, NEW d \in Values
  PROVE  Contract!Present(spec, d) \in Version
BY DEF Version, Contract!Present

\* The versions that exist carry a value.
LEMMA VersionData ==
  ASSUME NEW v \in Version
  PROVE  /\ v.exists \in BOOLEAN
         /\ v.exists => v.data \in Values /\ v.spec \in {"ours", "other"}
         /\ ~v.exists => v = Contract!Absent
<1>1. CASE v = Contract!Absent
  BY <1>1 DEF Contract!Absent
<1>2. CASE v \in [exists : {TRUE}, spec : {"ours", "other"}, data : Values]
  BY <1>2
<1> QED
  BY <1>1, <1>2 DEF Version

LEMMA ServerIsVersion ==
  ASSUME TypeOK
  PROVE  Server \in Version
BY DEF TypeOK, Server

\* What appending a version does to the history, and to what was read from it.
LEMMA AppendFacts ==
  ASSUME TypeOK, NEW v \in Version, hist' = Append(hist, v)
  PROVE  /\ hist' \in Seq(Version)
         /\ Len(hist') = Len(hist) + 1
         /\ Server' = v
         /\ \A i \in 1 .. Len(hist) : hist'[i] = hist[i]
BY DEF TypeOK, Server

LEMMA StoreFacts ==
  ASSUME TypeOK, NEW v \in Version, Store(v)
  PROVE  /\ hist' \in Seq(Version)
         /\ Len(hist') >= Len(hist)
         /\ Server' = v
         /\ \A i \in 1 .. Len(hist) : hist'[i] = hist[i]
<1>1. CASE v = Server
  BY <1>1 DEF Store, TypeOK, Server
<1>2. CASE v # Server
  <2>1. hist' = Append(hist, v)
    BY <1>2 DEF Store
  <2> QED
    BY <2>1, AppendFacts DEF TypeOK
<1> QED
  BY <1>1, <1>2

\* A version created is new, or carries the credential drawn before.
LEMMA CreatedIsVersion ==
  ASSUME TypeOK, NEW p \in Callers
  PROVE  CreatedBy(p) \in Version
<1>1. Fresh(p) \in Values
  BY DEF Fresh, Values, TypeOK
<1>2. data[p] \in Values \cup {None}
  BY DEF TypeOK
<1> QED
  BY <1>1, <1>2, PresentIsVersion DEF CreatedBy

\* An update that is accepted keeps the value of what it replaces.
LEMMA UpdatedIsVersion ==
  ASSUME TypeOK, NEW p \in Callers, Acceptable(p)
  PROVE  /\ UpdatedBy(p) \in Version
         /\ UpdatedBy(p) = Contract!Present("ours", Server.data)
<1>1. Server.exists /\ data[p] = Server.data
  BY DEF Acceptable
<1>2. Server.data \in Values
  BY <1>1, ServerIsVersion, VersionData
<1> QED
  BY <1>1, <1>2, PresentIsVersion DEF UpdatedBy

-----------------------------------------------------------------------------
\* What every step of the operator leaves in place: histories only grow.
Grows ==
  /\ hist' \in Seq(Version)
  /\ Len(hist') >= Len(hist)
  /\ \A i \in 1 .. Len(hist) : hist'[i] = hist[i]

LEMMA Stuttering ==
  ASSUME TypeOK, UNCHANGED hist
  PROVE  Grows
BY DEF Grows, TypeOK

\* A call that returns keeps the invariant, whatever else the step does.
LEMMA ReturnKeeps ==
  ASSUME IInv, NEW p \in Callers, NEW result \in Returned, Return(p, result),
         Grows, UNCHANGED op
  PROVE  /\ pc' \in [Callers -> Running \cup Returned]
         /\ attempt' \in [Callers -> 1 .. Steps]
         /\ rv' \in [Callers -> Nat]
         /\ data' \in [Callers -> Values \cup {None}]
         /\ FromOneVersion'
<1>1. /\ pc' \in [Callers -> Running \cup Returned]
      /\ attempt' \in [Callers -> 1 .. Steps]
      /\ rv' \in [Callers -> Nat]
      /\ data' \in [Callers -> Values \cup {None}]
  BY StepsAssumption DEF IInv, TypeOK, Return, Goto
<1>2. ASSUME NEW q \in Callers, pc'[q] = "update"
      PROVE  op' \in Correcting /\ rv'[q] \in 1 .. Len(hist') /\ data'[q] = hist'[rv'[q]].data
  <2>1. q # p
    BY <1>2 DEF Return, Goto, Returned, IInv, TypeOK
  <2>2. pc[q] = "update" /\ rv'[q] = rv[q] /\ data'[q] = data[q]
    BY <1>2, <2>1 DEF Return, Goto, IInv, TypeOK
  <2>3. op \in Correcting /\ rv[q] \in 1 .. Len(hist) /\ data[q] = hist[rv[q]].data
    BY <2>2 DEF IInv, FromOneVersion
  <2>4. rv[q] \in 1 .. Len(hist') /\ hist'[rv[q]] = hist[rv[q]]
    BY <2>3 DEF Grows, IInv, TypeOK
  <2> QED
    BY <2>2, <2>3, <2>4
<1> QED
  BY <1>1, <1>2 DEF FromOneVersion

\* Histories that grow do not disturb a process that does not move.
LEMMA OthersKeep ==
  ASSUME IInv, Grows, UNCHANGED <<op, call>>
  PROVE  FromOneVersion'
<1>1. ASSUME NEW q \in Callers, pc'[q] = "update"
      PROVE  op' \in Correcting /\ rv'[q] \in 1 .. Len(hist') /\ data'[q] = hist'[rv'[q]].data
  <2>1. op \in Correcting /\ rv[q] \in 1 .. Len(hist) /\ data[q] = hist[rv[q]].data
    BY <1>1 DEF IInv, FromOneVersion, call
  <2>2. rv[q] \in 1 .. Len(hist') /\ hist'[rv[q]] = hist[rv[q]]
    BY <2>1 DEF Grows, IInv, TypeOK
  <2> QED
    BY <2>1, <2>2 DEF call
<1> QED
  BY <1>1 DEF FromOneVersion

-----------------------------------------------------------------------------
LEMMA InitInv == Init => IInv
<1> SUFFICES ASSUME Init PROVE IInv
  OBVIOUS
<1>1. Server \in Version /\ hist \in Seq(Version) /\ Len(hist) = 1
  <2>1. PICK v \in {Contract!Absent} \cup
                   {Contract!Present("other", <<p, 0>>) : p \in Callers} : hist = <<v>>
    BY DEF Init
  <2>2. v \in Version
    <3>1. CASE v = Contract!Absent
      BY <3>1 DEF Version
    <3>2. ASSUME NEW p \in Callers, v = Contract!Present("other", <<p, 0>>)
          PROVE  v \in Version
      <4>1. <<p, 0>> \in Values
        BY DEF Values
      <4> QED
        BY <4>1, <3>2, PresentIsVersion
    <3> QED
      BY <2>1, <3>1, <3>2
  <2> QED
    BY <2>1, <2>2 DEF Server
<1>2. TypeOK
  BY <1>1, StepsAssumption, BoundAssumption DEF Init, TypeOK, Returned
<1>3. FromOneVersion
  BY DEF Init, FromOneVersion
<1> QED
  BY <1>2, <1>3 DEF IInv

\* Whatever a process does to the object in one step of its call.
LEMMA OwnWrites ==
  ASSUME IInv, NEW p \in Callers,
         \/ UNCHANGED hist
         \/ Creatable(p) /\ Store(CreatedBy(p))
         \/ Acceptable(p) /\ Store(UpdatedBy(p))
  PROVE  Grows
<1>1. CASE UNCHANGED hist
  BY <1>1, Stuttering DEF IInv
<1>2. CASE Store(CreatedBy(p))
  BY <1>2, CreatedIsVersion, StoreFacts DEF IInv, Grows
<1>3. CASE Acceptable(p) /\ Store(UpdatedBy(p))
  BY <1>3, UpdatedIsVersion, StoreFacts DEF IInv, Grows
<1> QED
  BY <1>1, <1>2, <1>3

\* A step in which process p returns, by one of its own writes or without one.
LEMMA ReturnStep ==
  ASSUME IInv, NEW p \in Callers, NEW result \in Returned, Return(p, result),
         Grows, UNCHANGED others
  PROVE  IInv'
<1>1. UNCHANGED op
  BY DEF others
<1>2. FromOneVersion'
  BY <1>1, ReturnKeeps
<1>3. TypeOK'
  <2>1. \A q \in Callers : seen'[q] \in 1 .. Len(hist')
    BY DEF others, Grows, IInv, TypeOK
  <2> QED
    BY <1>1, <2>1, ReturnKeeps DEF IInv, TypeOK, others, Grows
<1> QED
  BY <1>2, <1>3 DEF IInv

LEMMA CallInv == ASSUME IInv, NEW p \in Callers, Call(p) PROVE IInv'
<1>1. TypeOK'
  BY DEF IInv, TypeOK, Call, Goto, others, Running
<1>2. FromOneVersion'
  BY DEF IInv, TypeOK, FromOneVersion, Call, Goto, others
<1> QED
  BY <1>1, <1>2 DEF IInv

LEMMA LookupInv == ASSUME IInv, NEW p \in Callers, Lookup(p) PROVE IInv'
<1>1. UNCHANGED <<others, hist>>
  BY DEF Lookup
<1>2. CASE Return(p, "done")
  BY <1>1, <1>2, Stuttering, ReturnStep DEF IInv, Returned
<1>3. CASE /\ data' = IF op = "reconcileGeneratedSecret"
                        THEN [data EXCEPT ![p] = Fresh(p)] ELSE data
           /\ Goto(p, "read")
           /\ UNCHANGED <<attempt, rv>>
  <2>1. Fresh(p) \in Values
    BY DEF Fresh, Values, IInv, TypeOK
  <2>2. data' \in [Callers -> Values \cup {None}]
    BY <1>3, <2>1 DEF IInv, TypeOK
  <2>3. TypeOK'
    BY <1>1, <1>3, <2>2 DEF IInv, TypeOK, Goto, others, Running
  <2>4. \A q \in Callers : pc'[q] = "update" => pc[q] = "update" /\ data'[q] = data[q]
    BY <1>3 DEF IInv, TypeOK, Goto
  <2>5. FromOneVersion'
    BY <1>1, <1>3, <2>4 DEF IInv, FromOneVersion, others
  <2> QED
    BY <2>3, <2>5 DEF IInv
<1> QED
  BY <1>2, <1>3 DEF Lookup

LEMMA ReadInv == ASSUME IInv, NEW p \in Callers, Read(p) PROVE IInv'
<1>1. UNCHANGED <<others, hist>>
  BY DEF Read
<1>2. CASE Goto(p, "create") /\ UNCHANGED <<attempt, rv, data>>
  <2>1. TypeOK'
    BY <1>1, <1>2 DEF IInv, TypeOK, Goto, others, Running
  <2>2. FromOneVersion'
    BY <1>1, <1>2 DEF IInv, TypeOK, FromOneVersion, Goto, others
  <2> QED
    BY <2>1, <2>2 DEF IInv
<1>3. CASE Return(p, "done")
  BY <1>1, <1>3, Stuttering, ReturnStep DEF IInv, Returned
<1>4. CASE /\ hist[ReadAt(p)].exists /\ Corrects
           /\ Goto(p, "update")
           /\ Adopt(p)
           /\ UNCHANGED attempt
  <2>1. ReadAt(p) \in 1 .. Len(hist)
    BY DEF ReadAt, IInv, TypeOK
  <2>2. hist[ReadAt(p)] \in Version
    BY <2>1 DEF IInv, TypeOK
  <2>3. hist[ReadAt(p)].data \in Values
    BY <1>4, <2>2, VersionData
  <2>4. data' \in [Callers -> Values \cup {None}] /\ rv' \in [Callers -> Nat]
    BY <1>4, <2>1, <2>3 DEF Adopt, IInv, TypeOK
  <2>5. TypeOK'
    BY <1>1, <1>4, <2>4 DEF IInv, TypeOK, Goto, others, Running
  <2>6. ASSUME NEW q \in Callers, pc'[q] = "update"
        PROVE  op' \in Correcting /\ rv'[q] \in 1 .. Len(hist') /\ data'[q] = hist'[rv'[q]].data
    <3>1. CASE q = p
      BY <3>1, <1>1, <1>4, <2>1 DEF Adopt, Corrects, IInv, TypeOK, others
    <3>2. CASE q # p
      <4>1. pc[q] = "update" /\ rv'[q] = rv[q] /\ data'[q] = data[q]
        BY <3>2, <2>6, <1>4 DEF Adopt, Goto, IInv, TypeOK
      <4> QED
        BY <4>1, <1>1 DEF IInv, FromOneVersion, others
    <3> QED
      BY <3>1, <3>2
  <2>7. FromOneVersion'
    BY <2>6 DEF FromOneVersion
  <2> QED
    BY <2>5, <2>7 DEF IInv
<1> QED
  BY <1>2, <1>3, <1>4 DEF Read

LEMMA CreateInv == ASSUME IInv, NEW p \in Callers, Create(p) PROVE IInv'
<1>1. UNCHANGED others
  BY DEF Create
<1>2. Grows
  BY OwnWrites DEF Create
<1>3. PICK result \in Returned : Return(p, result)
  <2>1. CASE Return(p, "done")
    BY <2>1 DEF Returned
  <2>2. CASE Return(p, "failed")
    BY <2>2 DEF Returned
  <2> QED
    BY <2>1, <2>2 DEF Create
<1> QED
  BY <1>1, <1>2, <1>3, ReturnStep

LEMMA UpdateInv == ASSUME IInv, NEW p \in Callers, Update(p) PROVE IInv'
<1>1. UNCHANGED others
  BY DEF Update
<1>2. CASE Acceptable(p) /\ Store(UpdatedBy(p)) /\ Return(p, "done")
  BY <1>1, <1>2, OwnWrites, ReturnStep DEF Returned
<1>3. CASE /\ Conflict(p) /\ Retries(p)
           /\ attempt' = [attempt EXCEPT ![p] = @ + 1]
           /\ Goto(p, "read")
           /\ UNCHANGED <<hist, rv, data>>
  <2>1. attempt' \in [Callers -> 1 .. Steps]
    BY <1>3, StepsAssumption DEF Retries, IInv, TypeOK
  <2>2. TypeOK'
    BY <1>1, <1>3, <2>1 DEF IInv, TypeOK, Goto, others, Running
  <2>3. FromOneVersion'
    BY <1>1, <1>3 DEF IInv, TypeOK, FromOneVersion, Goto, others
  <2> QED
    BY <2>2, <2>3 DEF IInv
<1>4. CASE UNCHANGED hist /\ Return(p, "failed")
  BY <1>1, <1>4, OwnWrites, ReturnStep DEF Returned
<1> QED
  BY <1>2, <1>3, <1>4 DEF Update

LEMMA FailInv == ASSUME IInv, NEW p \in Callers, Fail(p) PROVE IInv'
<1>1. Grows
  BY OwnWrites DEF Fail
<1>2. Return(p, "failed") /\ "failed" \in Returned /\ UNCHANGED op
  BY DEF Fail, Returned
<1>3. FromOneVersion'
  BY <1>1, <1>2, ReturnKeeps
<1>4. faults' \in 0 .. MaxFaults
  BY BoundAssumption DEF Fail, IInv, TypeOK
<1>5. \A q \in Callers : seen'[q] \in 1 .. Len(hist')
  BY <1>1 DEF Fail, Grows, IInv, TypeOK
<1>6. TypeOK'
  <2>1. /\ pc' \in [Callers -> Running \cup Returned]
        /\ attempt' \in [Callers -> 1 .. Steps]
        /\ rv' \in [Callers -> Nat]
        /\ data' \in [Callers -> Values \cup {None}]
    BY <1>1, <1>2, ReturnKeeps
  <2>2. hist' \in Seq(Version) /\ Len(hist') >= 1
    BY <1>1 DEF Grows, IInv, TypeOK
  <2>3. UNCHANGED <<op, seen, leader, foreign>>
    BY DEF Fail
  <2> QED
    BY <2>1, <2>2, <2>3, <1>4, <1>5 DEF IInv, TypeOK
<1> QED
  BY <1>3, <1>6 DEF IInv

LEMMA ElectInv == ASSUME IInv, NEW p \in Callers, Elect(p) PROVE IInv'
<1>1. Grows
  BY Stuttering DEF Elect, IInv
<1>2. Return(p, "failed") /\ "failed" \in Returned /\ UNCHANGED <<op, hist>>
  BY DEF Elect, Returned
<1>3. FromOneVersion'
  BY <1>1, <1>2, ReturnKeeps
<1>4. faults' \in 0 .. MaxFaults
  BY BoundAssumption DEF Elect, IInv, TypeOK
<1>5. PICK n \in DOMAIN hist : seen' = [seen EXCEPT ![p] = n]
  BY DEF Elect
<1>6. seen' \in [Callers -> Nat] /\ \A q \in Callers : seen'[q] \in 1 .. Len(hist')
  BY <1>2, <1>5 DEF IInv, TypeOK
<1>7. TypeOK'
  BY <1>1, <1>2, <1>4, <1>6, ReturnKeeps DEF Elect, Grows, IInv, TypeOK
<1> QED
  BY <1>3, <1>7 DEF IInv

LEMMA CatchInv == ASSUME IInv, NEW p \in Callers, Catch(p) PROVE IInv'
<1>1. UNCHANGED <<op, hist, call>>
  BY DEF Catch
<1>2. seen' \in [Callers -> Nat] /\ \A q \in Callers : seen'[q] \in 1 .. Len(hist')
  BY DEF Catch, IInv, TypeOK
<1>3. TypeOK'
  BY <1>1, <1>2 DEF Catch, IInv, TypeOK, call
<1>4. FromOneVersion'
  BY <1>1, Stuttering, OthersKeep DEF IInv
<1> QED
  BY <1>3, <1>4 DEF IInv

\* What others write is a version too.
LEMMA ForeignWrites ==
  ASSUME IInv, Foreign
  PROVE  /\ Server.exists /\ Server.data \in Values
         /\ Server' \in {Contract!Present("other", Server.data), Contract!Absent}
         /\ Grows
<1>1. Server.exists /\ Server.data \in Values
  BY ServerIsVersion, VersionData DEF Foreign, IInv
<1>2. PICK v \in {Contract!Present("other", Server.data), Contract!Absent} :
          hist' = Append(hist, v)
  BY DEF Foreign
<1>3. v \in Version
  <2>1. Contract!Present("other", Server.data) \in Version
    BY <1>1, PresentIsVersion
  <2>2. Contract!Absent \in Version
    BY DEF Version
  <2> QED
    BY <1>2, <2>1, <2>2
<1>4. Server' = v /\ Grows
  BY <1>2, <1>3, AppendFacts DEF IInv, TypeOK, Grows
<1> QED
  BY <1>1, <1>2, <1>4

LEMMA ForeignInv == ASSUME IInv, Foreign PROVE IInv'
<1>1. Grows
  BY ForeignWrites
<1>2. FromOneVersion'
  BY <1>1, OthersKeep DEF Foreign
<1>3. foreign' \in 0 .. MaxForeign
  BY BoundAssumption DEF Foreign, IInv, TypeOK
<1>4. \A q \in Callers : seen'[q] \in 1 .. Len(hist')
  BY <1>1 DEF Foreign, Grows, IInv, TypeOK
<1>5. TypeOK'
  BY <1>1, <1>3, <1>4 DEF Foreign, Grows, IInv, TypeOK, call
<1> QED
  BY <1>2, <1>5 DEF IInv

LEMMA NextInv == IInv /\ [Next]_vars => IInv'
<1> SUFFICES ASSUME IInv, [Next]_vars PROVE IInv'
  OBVIOUS
<1>1. ASSUME NEW p \in Callers, Step(p) PROVE IInv'
  BY <1>1, CallInv, LookupInv, ReadInv, CreateInv, UpdateInv DEF Step
<1>2. ASSUME NEW p \in Callers, Fail(p) \/ Elect(p) \/ Catch(p) PROVE IInv'
  BY <1>2, FailInv, ElectInv, CatchInv
<1>3. CASE UNCHANGED vars
  <2>1. TypeOK'
    BY <1>3 DEF vars, call, IInv, TypeOK
  <2>2. FromOneVersion'
    BY <1>3, Stuttering, OthersKeep DEF vars, IInv
  <2> QED
    BY <2>1, <2>2 DEF IInv
<1> QED
  BY <1>1, <1>2, <1>3, ForeignInv DEF Next

LEMMA Invariant == Spec => []IInv
BY InitInv, NextInv, PTL DEF Spec

\* Every state reached is well-typed; the attempts of apply stay within the backoff.
THEOREM CallTypeCorrect == Spec => []TypeOK
<1>1. IInv => TypeOK
  BY DEF IInv
<1> QED
  BY <1>1, Invariant, PTL

\* An update whose resourceVersion is current sends the current address, after
\* however many attempts against however old a cache.
THEOREM AddressIsKept == Spec => []AddressIsCurrent
<1>1. IInv => AddressIsCurrent
  BY DEF IInv, FromOneVersion, AddressIsCurrent, Server
<1> QED
  BY <1>1, Invariant, PTL

-----------------------------------------------------------------------------
(* The contract.  Each write of a call is one step of it.                  *)

LEMMA InitContract == Init => Contract!Init
<1> SUFFICES ASSUME Init PROVE Contract!Init
  OBVIOUS
<1>1. PICK v \in {Contract!Absent} \cup
                 {Contract!Present("other", <<p, 0>>) : p \in Callers} : hist = <<v>>
  BY DEF Init
<1>2. Server = v
  BY <1>1 DEF Server
<1>3. CASE v = Contract!Absent
  BY <1>2, <1>3 DEF Init, Contract!Init
<1>4. ASSUME NEW p \in Callers, v = Contract!Present("other", <<p, 0>>)
      PROVE  Contract!Init
  <2>1. v.data = <<p, 0>> /\ <<p, 0>> \in Values
    BY <1>4 DEF Contract!Present, Values
  <2> QED
    BY <1>2, <1>4, <2>1 DEF Init, Contract!Init
<1> QED
  BY <1>1, <1>3, <1>4

Promised == [Contract!Next]_<<op, Server>>

LEMMA CreationPromised ==
  ASSUME IInv, NEW p \in Callers, Creatable(p), Store(CreatedBy(p)), UNCHANGED op
  PROVE  Promised
<1>1. Server' = CreatedBy(p) /\ ~Server.exists
  BY CreatedIsVersion, StoreFacts DEF IInv, Creatable
<1>2. PICK d : CreatedBy(p) = Contract!Present("ours", d)
  BY DEF CreatedBy
<1>3. CreatedBy(p).exists /\ CreatedBy(p).data = d
  BY <1>2 DEF Contract!Present
<1>4. d \in Values
  BY <1>3, CreatedIsVersion, VersionData DEF IInv
<1>5. Contract!Appear
  BY <1>1, <1>2, <1>3, <1>4 DEF Contract!Appear
<1> QED
  BY <1>5 DEF Promised, Contract!Next

LEMMA CorrectionPromised ==
  ASSUME IInv, NEW p \in Callers, pc[p] = "update", Acceptable(p), Store(UpdatedBy(p)),
         UNCHANGED op
  PROVE  Promised
<1>1. Server' = Contract!Present("ours", Server.data)
  BY UpdatedIsVersion, StoreFacts DEF IInv
<1>2. op \in Contract!Correcting
  BY DEF IInv, FromOneVersion
<1>3. Contract!Correct
  BY <1>1, <1>2 DEF Contract!Correct, Acceptable
<1> QED
  BY <1>3 DEF Promised, Contract!Next

LEMMA NothingPromised == ASSUME UNCHANGED <<op, hist>> PROVE Promised
BY DEF Promised, Server

LEMMA ForeignPromised == ASSUME IInv, Foreign PROVE Promised
<1>1. Server.exists /\ Server' \in {Contract!Present("other", Server.data), Contract!Absent}
  BY ForeignWrites
<1>2. UNCHANGED op
  BY DEF Foreign
<1>3. Contract!OthersEdit \/ Contract!OthersDelete
  BY <1>1 DEF Contract!OthersEdit, Contract!OthersDelete
<1> QED
  BY <1>2, <1>3 DEF Promised, Contract!Next

LEMMA NextPromised == IInv /\ [Next]_vars => Promised
<1> SUFFICES ASSUME IInv, [Next]_vars PROVE Promised
  OBVIOUS
<1>1. ASSUME NEW p \in Callers, Step(p) PROVE Promised
  <2>1. CASE Call(p)
    BY <2>1, NothingPromised DEF Call, others
  <2>2. CASE Lookup(p)
    BY <2>2, NothingPromised DEF Lookup, others
  <2>3. CASE Read(p)
    BY <2>3, NothingPromised DEF Read, others
  <2>4. CASE Create(p)
    BY <2>4, NothingPromised, CreationPromised DEF Create, others
  <2>5. CASE Update(p)
    BY <2>5, NothingPromised, CorrectionPromised DEF Update, others
  <2> QED
    BY <1>1, <2>1, <2>2, <2>3, <2>4, <2>5 DEF Step
<1>2. ASSUME NEW p \in Callers, Fail(p) PROVE Promised
  BY <1>2, NothingPromised, CreationPromised, CorrectionPromised DEF Fail
<1>3. ASSUME NEW p \in Callers, Elect(p) \/ Catch(p) PROVE Promised
  BY <1>3, NothingPromised DEF Elect, Catch
<1>4. CASE UNCHANGED vars
  BY <1>4, NothingPromised DEF vars
<1> QED
  BY <1>1, <1>2, <1>3, <1>4, ForeignPromised DEF Next

\* Whatever the caches show and however the calls of two leaders interleave, every
\* step of the object is one the contract allows.
THEOREM CallsKeepContract == Spec => Implements
<1>1. Spec => Contract!Init /\ [][Promised]_<<op, Server>>
  BY Invariant, InitContract, NextPromised, PTL DEF Spec, Promised
<1> QED
  BY <1>1, PTL DEF Implements, Contract!Spec, Promised

-----------------------------------------------------------------------------
\* Only the calls that never correct look before they build obj.
LookersOnlyCreate ==
  \A p \in Callers : pc[p] = "lookup" => op \in CreatingOnly

LEMMA LookersInvariant == Spec => []LookersOnlyCreate
<1>1. Init => LookersOnlyCreate
  BY DEF Init, LookersOnlyCreate
<1>2. IInv /\ LookersOnlyCreate /\ [Next]_vars => LookersOnlyCreate'
  <2> SUFFICES ASSUME IInv, LookersOnlyCreate, [Next]_vars, NEW q \in Callers,
                      pc'[q] = "lookup"
               PROVE  op' \in CreatingOnly
    BY DEF LookersOnlyCreate
  <2>1. UNCHANGED op
    BY DEF Next, Step, Call, Lookup, Read, Create, Update, others, Fail, Elect, Catch,
           Foreign, vars
  <2>2. ASSUME NEW p \in Callers, Call(p) PROVE op \in CreatingOnly \/ pc[q] = "lookup"
    BY <2>2 DEF Call, Goto, IInv, TypeOK
  <2>3. ASSUME NEW p \in Callers, Lookup(p) \/ Read(p) \/ Create(p) \/ Update(p)
        PROVE  pc[q] = "lookup"
    BY <2>3 DEF Lookup, Read, Create, Update, Return, Goto, IInv, TypeOK
  <2>4. ASSUME NEW p \in Callers, Fail(p) \/ Elect(p) \/ Catch(p) PROVE pc[q] = "lookup"
    BY <2>4 DEF Fail, Elect, Catch, call, Return, Goto, IInv, TypeOK
  <2>5. CASE Foreign \/ UNCHANGED vars
    BY <2>5 DEF Foreign, vars, call, LookersOnlyCreate
  <2> QED
    BY <2>1, <2>2, <2>3, <2>4, <2>5 DEF Next, Step, LookersOnlyCreate
<1> QED
  BY <1>1, <1>2, Invariant, PTL DEF Spec

\* A correcting call that returns nil leaves the object as the caller wants it.
THEOREM SuccessIsTrue == Spec => OkIsTrue
<1>1. ASSUME IInv, LookersOnlyCreate, [Next]_vars, NEW q \in Callers,
             op \in Correcting, pc'[q] = "done", pc[q] # "done"
      PROVE  Server'.exists /\ Server'.spec = "ours"
  <2>1. PICK p \in Callers : Step(p)
    <3>1. ASSUME NEW p \in Callers, Fail(p) \/ Elect(p) PROVE FALSE
      BY <1>1, <3>1 DEF Fail, Elect, Return, Goto, IInv, TypeOK
    <3>2. ~UNCHANGED pc
      BY <1>1
    <3> QED
      BY <1>1, <3>1, <3>2 DEF Next, Catch, Foreign, vars, call
  <2>2. q = p
    BY <1>1, <2>1 DEF Step, Call, Lookup, Read, Create, Update, Return, Goto, IInv, TypeOK
  <2>3. op \notin CreatingOnly
    BY <1>1
  <2>4. CASE Call(p)
    BY <1>1, <2>2, <2>4 DEF Call, Goto, IInv, TypeOK
  <2>5. CASE Lookup(p)
    BY <1>1, <2>3, <2>5 DEF Lookup, LookersOnlyCreate, Return, Goto, IInv, TypeOK
  <2>6. CASE Read(p)
    BY <1>1, <2>2, <2>6 DEF Read, Corrects, Goto, IInv, TypeOK
  <2>7. CASE Create(p)
    <3>1. Creatable(p) /\ Store(CreatedBy(p))
      BY <1>1, <2>2, <2>3, <2>7 DEF Create, Tolerates, Return, Goto, IInv, TypeOK
    <3>2. Server' = CreatedBy(p)
      BY <1>1, <3>1, CreatedIsVersion, StoreFacts DEF IInv
    <3> QED
      BY <3>2 DEF CreatedBy, Contract!Present
  <2>8. CASE Update(p)
    <3>1. Acceptable(p) /\ Store(UpdatedBy(p))
      BY <1>1, <2>2, <2>8 DEF Update, Return, Goto, IInv, TypeOK
    <3>2. Server' = UpdatedBy(p)
      BY <1>1, <3>1, UpdatedIsVersion, StoreFacts DEF IInv
    <3> QED
      BY <3>2 DEF UpdatedBy, Contract!Present
  <2> QED
    BY <2>1, <2>4, <2>5, <2>6, <2>7, <2>8 DEF Step
<1>2. IInv /\ LookersOnlyCreate /\ [Next]_vars =>
        [\A p \in Callers :
           op \in Correcting /\ pc'[p] = "done" /\ pc[p] # "done" =>
             Server'.exists /\ Server'.spec = "ours"]_vars
  BY <1>1
<1> QED
  BY <1>2, Invariant, LookersInvariant, PTL DEF Spec, OkIsTrue
===============================================================================
