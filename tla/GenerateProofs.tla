----------------------------- MODULE GenerateProofs -----------------------------
(***************************************************************************)
(* Proofs about GenerateOlm, for any versions, generated in any order over *)
(* any catalog.  They rest on what sorting does (Sorted): there is an      *)
(* arrangement of every finite set with distinct keys, because the number  *)
(* of members with no higher key is a place for each of them.              *)
(***************************************************************************)
EXTENDS GenerateOlm, FiniteSetTheorems, FunctionTheorems, TLAPS

-----------------------------------------------------------------------------
(* Sorting and filtering.                                                   *)

\* The place of k among the members of I.
Rank(I, key, k) == Cardinality({x \in I : key[x] <= key[k]})

LEMMA RankGrows ==
  ASSUME NEW I, IsFiniteSet(I), NEW key \in [I -> Int],
         NEW k \in I, NEW l \in I
  PROVE  /\ Rank(I, key, k) \in 1..Cardinality(I)
         /\ key[k] < key[l] => Rank(I, key, k) < Rank(I, key, l)
<1> DEFINE Upto(x) == {y \in I : key[y] <= key[x]}
<1>1. \A x \in I : IsFiniteSet(Upto(x)) /\ Cardinality(Upto(x)) \in Nat
  BY FS_Subset, FS_CardinalityType
<1>2. Cardinality(I) \in Nat /\ Cardinality(Upto(k)) <= Cardinality(I)
  BY FS_Subset, FS_CardinalityType
<1>3. Cardinality(Upto(k)) # 0
  <2>1. k \in Upto(k)
    OBVIOUS
  <2> QED
    BY <1>1, <2>1, FS_EmptySet
<1>4. ASSUME key[k] < key[l]
      PROVE  Cardinality(Upto(k)) < Cardinality(Upto(l))
  <2>1. Upto(k) \subseteq Upto(l) /\ l \in Upto(l) /\ l \notin Upto(k)
    BY <1>4
  <2>2. /\ Cardinality(Upto(k)) <= Cardinality(Upto(l))
        /\ Cardinality(Upto(k)) # Cardinality(Upto(l))
    BY <1>1, <2>1, FS_Subset
  <2> QED
    BY <1>1, <2>2
<1> QED
  BY <1>1, <1>2, <1>3, <1>4 DEF Rank

LEMMA ArrangedType ==
  ASSUME NEW I, IsFiniteSet(I), NEW key \in [I -> Int],
         \A k, l \in I : key[k] = key[l] => k = l
  PROVE  LET order == Arranged(I, key) IN
         /\ Cardinality(I) \in Nat
         /\ order \in [1..Cardinality(I) -> I]
         /\ \A k \in I : \E i \in 1..Cardinality(I) : order[i] = k
         /\ \A i, j \in 1..Cardinality(I) : i < j => key[order[i]] < key[order[j]]
<1> DEFINE n == Cardinality(I)
           rank == [k \in I |-> Rank(I, key, k)]
<1>0. n \in Nat
  BY FS_CardinalityType
<1>1. rank \in [I -> 1..n] /\ \A k, l \in I : key[k] < key[l] => rank[k] < rank[l]
  BY RankGrows
<1>2. ASSUME NEW k \in I, NEW l \in I, rank[k] = rank[l]
      PROVE  k = l
  <2>1. rank[k] \in Int /\ ~(key[k] < key[l]) /\ ~(key[l] < key[k])
    BY <1>0, <1>1, <1>2
  <2>2. key[k] \in Int /\ key[l] \in Int
    OBVIOUS
  <2> QED
    BY <2>1, <2>2
<1> HIDE DEF rank
<1>3. rank \in Injection(I, 1..n)
  BY <1>1, <1>2, Fun_IsInj
<1>4. IsFiniteSet(1..n) /\ Cardinality(1..n) = n
  <2>1. 1 \in Int /\ n \in Int
    BY <1>0
  <2>2. IsFiniteSet(1..n) /\ Cardinality(1..n) = IF 1 > n THEN 0 ELSE n - 1 + 1
    BY <2>1, FS_Interval
  <2> QED
    BY <1>0, <2>2
<1>5. rank \in Surjection(I, 1..n)
  BY <1>3, <1>4, FS_Injection
<1>6. \A i \in 1..n : \E k \in I : rank[k] = i
  BY <1>5, Fun_SurjectionProperties
<1> DEFINE order == [i \in 1..n |-> CHOOSE k \in I : rank[k] = i]
<1>7. \A i \in 1..n : order[i] \in I /\ rank[order[i]] = i
  BY <1>6
<1>8. order \in [1..n -> I]
  BY <1>7
<1> HIDE DEF order
<1>9. \A k \in I : \E i \in DOMAIN order : order[i] = k
  BY <1>1, <1>2, <1>7, <1>8
<1>10. \A i, j \in DOMAIN order : i < j => key[order[i]] <= key[order[j]]
  <2> SUFFICES ASSUME NEW i \in 1..n, NEW j \in 1..n, i < j
               PROVE  key[order[i]] <= key[order[j]]
    BY <1>8
  <2>1. ~(key[order[j]] < key[order[i]])
    BY <1>0, <1>1, <1>7
  <2>2. key[order[i]] \in Int /\ key[order[j]] \in Int
    BY <1>7
  <2> QED
    BY <2>1, <2>2
<1> DEFINE A == Arranged(I, key)
<1>11. /\ A \in [1..n -> I]
       /\ \A k \in I : \E i \in DOMAIN A : A[i] = k
       /\ \A i, j \in DOMAIN A : i < j => key[A[i]] <= key[A[j]]
  BY <1>8, <1>9, <1>10 DEF Arranged
<1> HIDE DEF A
\* An arrangement of n members in n places has no member twice.
<1>12. \A i, j \in 1..n : A[i] = A[j] => i = j
  <2>1. A \in Surjection(1..n, I)
    BY <1>11, Fun_IsSurj
  <2>2. A \in Injection(1..n, I)
    BY <1>4, <2>1, FS_SurjSameCardinalityImpliesInj
  <2> QED
    BY <2>2 DEF Injection, IsInjective
<1>13. ASSUME NEW i \in 1..n, NEW j \in 1..n, i < j
       PROVE  key[A[i]] < key[A[j]]
  <2>1. A[i] \in I /\ A[j] \in I /\ key[A[i]] <= key[A[j]] /\ A[i] # A[j]
    BY <1>0, <1>11, <1>12, <1>13
  <2>2. key[A[i]] \in Int /\ key[A[j]] \in Int /\ key[A[i]] # key[A[j]]
    BY <2>1
  <2> QED
    BY <2>1, <2>2
<1> QED
  BY <1>0, <1>11, <1>13 DEF A

LEMMA Places ==
  ASSUME NEW n \in Nat
  PROVE  IsFiniteSet(1..n) /\ Cardinality(1..n) = n
<1>1. 1 \in Int /\ n \in Int
  OBVIOUS
<1>2. IsFiniteSet(1..n) /\ Cardinality(1..n) = IF 1 > n THEN 0 ELSE n - 1 + 1
  BY <1>1, FS_Interval
<1> QED
  BY <1>2

\* What is picked is what there was, in its order.
Order(I) == Arranged(I, [i \in I |-> i])

LEMMA OrderType ==
  ASSUME NEW n \in Nat, NEW I \in SUBSET (1..n)
  PROVE  /\ Cardinality(I) \in Nat
         /\ Order(I) \in [1..Cardinality(I) -> I]
         /\ \A k \in I : \E i \in 1..Cardinality(I) : Order(I)[i] = k
         /\ \A i, j \in 1..Cardinality(I) : i < j => Order(I)[i] < Order(I)[j]
<1> DEFINE key == [i \in I |-> i]
<1>1. IsFiniteSet(I)
  BY Places, FS_Subset
<1>2. key \in [I -> Int] /\ \A k, l \in I : key[k] = key[l] => k = l
  OBVIOUS
<1>3. \A k \in I : key[k] = k
  OBVIOUS
<1>4. Order(I) = Arranged(I, key)
  BY DEF Order
<1> HIDE DEF key
<1>5. /\ Cardinality(I) \in Nat
      /\ Order(I) \in [1..Cardinality(I) -> I]
      /\ \A k \in I : \E i \in 1..Cardinality(I) : Order(I)[i] = k
      /\ \A i, j \in 1..Cardinality(I) : i < j => key[Order(I)[i]] < key[Order(I)[j]]
  <2> DEFINE A == Arranged(I, key)
  <2>1. /\ Cardinality(I) \in Nat
        /\ A \in [1..Cardinality(I) -> I]
        /\ \A k \in I : \E i \in 1..Cardinality(I) : A[i] = k
        /\ \A i, j \in 1..Cardinality(I) : i < j => key[A[i]] < key[A[j]]
    BY <1>1, <1>2, ArrangedType
  <2> QED
    BY <1>4, <2>1
<1>6. \A i \in 1..Cardinality(I) : key[Order(I)[i]] = Order(I)[i]
  BY <1>3, <1>5
<1> QED
  BY <1>5, <1>6

LEMMA FunctionIsSeq ==
  ASSUME NEW S, NEW n \in Nat, NEW f \in [1..n -> S]
  PROVE  f \in Seq(S) /\ Len(f) = n /\ DOMAIN f = 1..n
OBVIOUS

LEMMA PickedType ==
  ASSUME NEW S, NEW s \in Seq(S), NEW I \in SUBSET (1..Len(s))
  PROVE  /\ Picked(s, I) \in Seq(S)
         /\ Len(Picked(s, I)) = Cardinality(I)
         /\ \A i \in 1..Cardinality(I) : Picked(s, I)[i] = s[Order(I)[i]]
<1>1. Len(s) \in Nat /\ \A k \in I : s[k] \in S
  OBVIOUS
<1>2. Cardinality(I) \in Nat /\ Order(I) \in [1..Cardinality(I) -> I]
  BY <1>1, OrderType
<1>3. Picked(s, I) = [i \in 1..Cardinality(I) |-> s[Order(I)[i]]]
  BY DEF Picked, Order
<1>4. \A i \in 1..Cardinality(I) : s[Order(I)[i]] \in S
  BY <1>1, <1>2
<1>5. Picked(s, I) \in [1..Cardinality(I) -> S]
  BY <1>3, <1>4
<1> QED
  BY <1>2, <1>3, <1>5, FunctionIsSeq

-----------------------------------------------------------------------------
(* The channel.                                                             *)

Entry == [name : Nat \ {None}, replaces : Nat]

Distinct(s) == \A i, j \in DOMAIN s : s[i].name = s[j].name => i = j

LEMMA NamesOf ==
  ASSUME NEW s, NEW x
  PROVE  x \in Names(s) <=> \E i \in DOMAIN s : s[i].name = x
BY DEF Names

LEMMA EntryAt ==
  ASSUME NEW s \in Seq(Entry)
  PROVE  /\ DOMAIN s = 1..Len(s) /\ Len(s) \in Nat
         /\ \A i \in 1..Len(s) : s[i] \in Entry
         /\ \A i \in 1..Len(s) : s[i].name \in Nat /\ s[i].name # None
<1>1. /\ DOMAIN s = 1..Len(s) /\ Len(s) \in Nat
      /\ \A i \in 1..Len(s) : s[i] \in Entry
  OBVIOUS
<1>2. \A e \in Entry : e.name \in Nat /\ e.name # None
  BY DEF Entry
<1> QED
  BY <1>1, <1>2

Descending(s) == \A i, j \in DOMAIN s : i < j => s[i].name > s[j].name

LEMMA NewestType ==
  ASSUME NEW s \in Seq(Entry), Distinct(s)
  PROVE  /\ Newest(s) \in Seq(Entry) /\ Len(Newest(s)) = Len(s)
         /\ Names(Newest(s)) = Names(s)
         /\ Descending(Newest(s))
<1> DEFINE n == Len(s)
           key == [i \in DOMAIN s |-> -s[i].name]
           order == Arranged(DOMAIN s, key)
<1>1. n \in Nat /\ DOMAIN s = 1..n /\ \A i \in 1..n : s[i] \in Entry /\ s[i].name \in Nat
  BY EntryAt
<1>2. IsFiniteSet(DOMAIN s) /\ Cardinality(DOMAIN s) = n
  BY <1>1, Places
<1>3. key \in [DOMAIN s -> Int] /\ \A k, l \in DOMAIN s : key[k] = key[l] => k = l
  BY <1>1 DEF Distinct
<1>4. \A k \in DOMAIN s : key[k] = -s[k].name
  OBVIOUS
<1> HIDE DEF key
<1>5. /\ order \in [1..n -> 1..n]
      /\ \A k \in 1..n : \E i \in 1..n : order[i] = k
      /\ \A i, j \in 1..n : i < j => key[order[i]] < key[order[j]]
  <2>1. /\ order \in [1..Cardinality(DOMAIN s) -> DOMAIN s]
        /\ \A k \in DOMAIN s : \E i \in 1..Cardinality(DOMAIN s) : order[i] = k
        /\ \A i, j \in 1..Cardinality(DOMAIN s) : i < j => key[order[i]] < key[order[j]]
    BY <1>2, <1>3, ArrangedType
  <2> HIDE DEF order
  <2> QED
    BY <1>1, <1>2, <2>1
<1>6. Newest(s) = [i \in 1..n |-> s[order[i]]]
  BY <1>1 DEF Newest, key
<1> HIDE DEF order
<1>7. Newest(s) \in Seq(Entry) /\ Len(Newest(s)) = n /\ DOMAIN Newest(s) = 1..n
  <2>1. \A i \in 1..n : s[order[i]] \in Entry
    BY <1>1, <1>5
  <2>2. Newest(s) \in [1..n -> Entry]
    BY <1>6, <2>1
  <2> QED
    BY <1>1, <2>2, FunctionIsSeq
<1>8. \A i \in 1..n : Newest(s)[i] = s[order[i]]
  BY <1>6
<1>9. Names(Newest(s)) = Names(s)
  <2>1. ASSUME NEW i \in 1..n
        PROVE  Newest(s)[i].name \in Names(s)
    <3>1. order[i] \in DOMAIN s /\ Newest(s)[i].name = s[order[i]].name
      BY <1>1, <1>5, <1>8
    <3> QED
      BY <3>1, NamesOf
  <2>2. ASSUME NEW k \in 1..n
        PROVE  s[k].name \in Names(Newest(s))
    <3>1. PICK i \in 1..n : order[i] = k
      BY <1>5
    <3>2. Newest(s)[i].name = s[k].name
      BY <1>8, <3>1
    <3> QED
      BY <1>7, <3>2, NamesOf
  <2>3. \A x : x \in Names(Newest(s)) <=> x \in Names(s)
    BY <1>1, <1>7, <2>1, <2>2, NamesOf
  <2> QED
    BY <2>3
<1>10. ASSUME NEW i \in 1..n, NEW j \in 1..n, i < j
       PROVE  Newest(s)[i].name > Newest(s)[j].name
  <2>1. order[i] \in 1..n /\ order[j] \in 1..n /\ key[order[i]] < key[order[j]]
    BY <1>5, <1>10
  <2>2. -s[order[i]].name < -s[order[j]].name
    BY <1>1, <1>4, <2>1
  <2>3. s[order[i]].name \in Nat /\ s[order[j]].name \in Nat
    BY <1>1, <2>1
  <2>4. s[order[i]].name > s[order[j]].name
    BY <2>2, <2>3
  <2> QED
    BY <1>8, <2>4
<1> QED
  BY <1>7, <1>9, <1>10 DEF Descending

LEMMA PredecessorIsNat ==
  ASSUME NEW S \in SUBSET Nat, NEW v
  PROVE  Predecessor(S, v) \in Nat
BY DEF Predecessor, None

-----------------------------------------------------------------------------
(* The lists.                                                               *)

\* What a list is about, if key says of a member what that one is about.
Keys(s, key) == {key[s[i]] : i \in DOMAIN s}
Once(s, key) == \A i, j \in DOMAIN s : key[s[i]] = key[s[j]] => i = j

\* A list from which all about e was filtered, and e at its end, has all that
\* there was and e, still each of it once.
LEMMA WithType ==
  ASSUME NEW S, NEW s \in Seq(S), NEW key \in [S -> Nat], Once(s, key), NEW e \in S,
         NEW I, I = {i \in DOMAIN s : key[s[i]] # key[e]}
  PROVE  /\ Append(Picked(s, I), e) \in Seq(S)
         /\ Once(Append(Picked(s, I), e), key)
         /\ Keys(Append(Picked(s, I), e), key) = Keys(s, key) \cup {key[e]}
<1> DEFINE n == Cardinality(I)
           order == Order(I)
           others == Picked(s, I)
           all == Append(others, e)
<1>1. /\ DOMAIN s = 1..Len(s) /\ Len(s) \in Nat
      /\ \A i \in DOMAIN s : s[i] \in S
  OBVIOUS
<1>2. I \in SUBSET (1..Len(s)) /\ \A k \in DOMAIN s : k \in I <=> key[s[k]] # key[e]
  BY <1>1
<1>3. /\ n \in Nat
      /\ order \in [1..n -> I]
      /\ \A k \in I : \E i \in 1..n : order[i] = k
      /\ \A i, j \in 1..n : i < j => order[i] < order[j]
  BY <1>1, <1>2, OrderType
<1>4. /\ others \in Seq(S) /\ Len(others) = n
      /\ \A i \in 1..n : others[i] = s[order[i]]
  BY <1>2, PickedType
<1> HIDE DEF n, order, others
<1>5. \A i \in 1..n : order[i] \in DOMAIN s /\ key[s[order[i]]] # key[e]
  BY <1>1, <1>2, <1>3
<1>6. /\ all \in Seq(S) /\ Len(all) = n + 1
      /\ \A i \in 1..n : all[i] = s[order[i]]
      /\ all[n + 1] = e
  BY <1>3, <1>4
<1> HIDE DEF all
<1>7. DOMAIN all = 1..n + 1 /\ n + 1 \in 1..n + 1 /\ 1..n \subseteq 1..n + 1
  BY <1>3, <1>6
<1>8. \A i \in 1..n + 1 : i \in 1..n \/ i = n + 1
  BY <1>3
<1>9. ASSUME NEW i \in 1..n + 1, NEW j \in 1..n + 1, i < j
      PROVE  key[all[i]] # key[all[j]]
  <2>1. i \in 1..n
    BY <1>3, <1>9
  <2>2. CASE j = n + 1
    BY <1>5, <1>6, <2>1, <2>2
  <2>3. CASE j \in 1..n
    <3>1. order[i] \in DOMAIN s /\ order[j] \in DOMAIN s /\ order[i] < order[j]
      BY <1>3, <1>5, <1>9, <2>1, <2>3
    <3>2. order[i] # order[j]
      BY <1>1, <3>1
    <3> QED
      BY <1>6, <2>1, <2>3, <3>1, <3>2 DEF Once
  <2> QED
    BY <1>8, <2>2, <2>3
<1>10. Once(all, key)
  <2> SUFFICES ASSUME NEW i \in 1..n + 1, NEW j \in 1..n + 1, key[all[i]] = key[all[j]]
               PROVE  i = j
    BY <1>7 DEF Once
  <2> QED
    BY <1>3, <1>9
<1>11. \A i \in 1..n + 1 : key[all[i]] = key[e] \/ \E k \in DOMAIN s : key[all[i]] = key[s[k]]
  BY <1>5, <1>6, <1>8
<1>12. ASSUME NEW k \in DOMAIN s
       PROVE  \E i \in 1..n + 1 : key[all[i]] = key[s[k]]
  <2>1. CASE key[s[k]] = key[e]
    BY <1>6, <1>7, <2>1
  <2>2. CASE key[s[k]] # key[e]
    BY <1>2, <1>3, <1>6, <1>7, <2>2
  <2> QED
    BY <2>1, <2>2
<1>13. Keys(all, key) = Keys(s, key) \cup {key[e]}
  <2>1. \A x \in Keys(all, key) : x = key[e] \/ x \in Keys(s, key)
    BY <1>7, <1>11 DEF Keys
  <2>2. \A x \in Keys(s, key) : x \in Keys(all, key)
    BY <1>7, <1>12 DEF Keys
  <2>3. key[e] \in Keys(all, key)
    BY <1>6, <1>7 DEF Keys
  <2> QED
    BY <2>1, <2>2, <2>3
<1> QED
  BY <1>6, <1>10, <1>13 DEF all, others

\* A list with each of its keys once has as many members as keys.
LEMMA OnceCounts ==
  ASSUME NEW S, NEW s \in Seq(S), NEW key \in [S -> Nat], Once(s, key)
  PROVE  Len(s) = Cardinality(Keys(s, key))
<1> DEFINE n == Len(s)
           f == [i \in 1..n |-> key[s[i]]]
           T == Keys(s, key)
<1>1. n \in Nat /\ DOMAIN s = 1..n /\ \A i \in 1..n : f[i] \in T
  BY DEF Keys
<1>2. \A t \in T : \E i \in 1..n : f[i] = t
  BY <1>1 DEF Keys
<1>3. f \in Surjection(1..n, T)
  BY <1>1, <1>2, Fun_IsSurj
<1>4. f \in Injection(1..n, T)
  BY <1>1, Fun_IsInj DEF Once
<1>5. Cardinality(T) = Cardinality(1..n)
  BY <1>1, <1>3, <1>4, Places, FS_Surjection
<1> QED
  BY <1>1, <1>5, Places

NameOf == [e \in Entry |-> e.name]
Itself == [v \in Versions |-> v]

LEMMA NamesAreKeys ==
  ASSUME NEW s \in Seq(Entry)
  PROVE  /\ NameOf \in [Entry -> Nat]
         /\ \A i \in DOMAIN s : NameOf[s[i]] = s[i].name
         /\ Keys(s, NameOf) = Names(s)
         /\ Once(s, NameOf) <=> Distinct(s)
<1>1. /\ NameOf \in [Entry -> Nat]
      /\ \A i \in DOMAIN s : NameOf[s[i]] = s[i].name
  <2>1. \A e \in Entry : e.name \in Nat
    BY DEF Entry
  <2>2. \A i \in DOMAIN s : s[i] \in Entry
    OBVIOUS
  <2> QED
    BY <2>1, <2>2 DEF NameOf
<1>2. Keys(s, NameOf) = Names(s)
  BY <1>1 DEF Keys, Names
<1>3. Once(s, NameOf) <=> Distinct(s)
  BY <1>1 DEF Once, Distinct
<1> QED
  BY <1>1, <1>2, <1>3

LEMMA VersionsAreKeys ==
  ASSUME NEW s \in Seq(Versions)
  PROVE  /\ Itself \in [Versions -> Nat]
         /\ \A i \in DOMAIN s : s[i] \in Versions /\ Itself[s[i]] = s[i]
         /\ Keys(s, Itself) = {s[i] : i \in DOMAIN s}
<1>1. /\ Itself \in [Versions -> Nat]
      /\ \A i \in DOMAIN s : s[i] \in Versions /\ Itself[s[i]] = s[i]
  BY VersionsAssumption DEF Itself
<1>2. Keys(s, Itself) = {s[i] : i \in DOMAIN s}
  BY <1>1 DEF Keys
<1> QED
  BY <1>1, <1>2

\* Generating v over a channel adds v and loses nothing; the channel is in
\* order and each entry replaces the next.
LEMMA ChannelType ==
  ASSUME NEW s \in Seq(Entry), Distinct(s), NEW v \in Nat \ {None}
  PROVE  LET new == ChannelEntries(s, v) IN
         /\ new \in Seq(Entry)
         /\ Names(new) = Names(s) \cup {v}
         /\ Descending(new)
         /\ \A i \in DOMAIN new :
              new[i].replaces = IF i < Len(new) THEN new[i + 1].name ELSE None
<1> DEFINE current == [name |-> v, replaces |-> PreviousVersion(s, v)]
           all == Append(Picked(s, {i \in DOMAIN s : s[i].name # v}), current)
           sorted == Newest(all)
<1>1. current \in Entry /\ current.name = v
  <2>1. Names(s) \subseteq Nat
    BY EntryAt DEF Names
  <2>2. PreviousVersion(s, v) \in Nat
    BY <2>1, PredecessorIsNat DEF PreviousVersion
  <2> QED
    BY <2>2 DEF Entry
<1> HIDE DEF current
<1>9. all \in Seq(Entry) /\ Distinct(all) /\ Names(all) = Names(s) \cup {v}
  <2> DEFINE I == {i \in DOMAIN s : s[i].name # v}
  <2>1. NameOf[current] = v /\ NameOf \in [Entry -> Nat] /\ Once(s, NameOf)
    BY <1>1, NamesAreKeys DEF NameOf
  <2>2. I = {i \in DOMAIN s : NameOf[s[i]] # NameOf[current]}
    BY <2>1, NamesAreKeys
  <2> HIDE DEF I
  <2>3. /\ Append(Picked(s, I), current) \in Seq(Entry)
        /\ Once(Append(Picked(s, I), current), NameOf)
        /\ Keys(Append(Picked(s, I), current), NameOf) = Keys(s, NameOf) \cup {v}
    BY <1>1, <2>1, <2>2, WithType
  <2>4. /\ Distinct(Append(Picked(s, I), current))
        /\ Names(Append(Picked(s, I), current)) = Names(s) \cup {v}
    BY <2>3, NamesAreKeys
  <2> QED
    BY <2>3, <2>4 DEF I
<1> HIDE DEF all
<1>10. /\ sorted \in Seq(Entry) /\ Names(sorted) = Names(s) \cup {v} /\ Descending(sorted)
  BY <1>9, NewestType
<1> DEFINE new == Relinked(sorted)
<1>11. ChannelEntries(s, v) = new
  BY DEF ChannelEntries, current, all
<1> HIDE DEF sorted
<1>12. /\ DOMAIN sorted = 1..Len(sorted) /\ Len(sorted) \in Nat
       /\ \A i \in DOMAIN sorted : sorted[i].name \in Nat \ {None}
  BY <1>10, EntryAt
<1>13. /\ DOMAIN new = DOMAIN sorted
       /\ \A i \in DOMAIN sorted :
            /\ new[i].name = sorted[i].name
            /\ new[i].replaces = IF i < Len(sorted) THEN sorted[i + 1].name ELSE None
            /\ new[i] \in Entry
  BY <1>12 DEF Relinked, Entry, None
<1> HIDE DEF new
<1>14. new \in Seq(Entry) /\ Len(new) = Len(sorted)
  BY <1>12, <1>13, <1>11 DEF Relinked, new
<1>15. Names(new) = Names(sorted) /\ Descending(new)
  BY <1>10, <1>13 DEF Names, Descending
<1>16. \A i \in DOMAIN new : new[i].replaces = IF i < Len(new) THEN new[i + 1].name ELSE None
  BY <1>12, <1>13, <1>14
<1> QED
  BY <1>10, <1>11, <1>14, <1>15, <1>16

\* In a channel that is in order, what is next is what is next lower.
LEMMA NextIsPredecessor ==
  ASSUME NEW s \in Seq(Entry), Descending(s), NEW i \in DOMAIN s
  PROVE  Predecessor(Names(s), s[i].name) = IF i < Len(s) THEN s[i + 1].name ELSE None
<1> DEFINE N == Names(s)
           v == s[i].name
           highest == {w \in N : w < v /\ \A x \in N : x < v => x <= w}
<1>1. DOMAIN s = 1..Len(s) /\ Len(s) \in Nat /\ \A j \in DOMAIN s : s[j].name \in Nat
  BY EntryAt
<1>2. Predecessor(N, v) = IF highest = {} THEN None ELSE CHOOSE w \in highest : TRUE
  BY DEF Predecessor
<1>3. ASSUME NEW j \in DOMAIN s, s[j].name < v
      PROVE  j > i
  <2>1. j # i
    BY <1>1, <1>3
  <2>2. ~(j < i)
    BY <1>1, <1>3 DEF Descending
  <2> QED
    BY <1>1, <2>1, <2>2
<1>4. CASE i < Len(s)
  <2>1. i + 1 \in DOMAIN s /\ s[i + 1].name \in N /\ s[i + 1].name < v
    BY <1>1, <1>4 DEF Descending, Names
  <2>2. ASSUME NEW j \in DOMAIN s, s[j].name < v
        PROVE  s[j].name <= s[i + 1].name
    <3>1. j > i
      BY <1>3, <2>2
    <3>2. CASE j = i + 1
      BY <1>1, <2>1, <3>2
    <3>3. CASE j > i + 1
      BY <1>1, <2>1, <3>3 DEF Descending
    <3> QED
      BY <1>1, <3>1, <3>2, <3>3
  <2>3. \A x \in N : x < v => x <= s[i + 1].name
    BY <2>2 DEF Names
  <2>4. highest = {s[i + 1].name}
    <3>1. N \subseteq Nat
      BY <1>1 DEF Names
    <3> QED
      BY <2>1, <2>3, <3>1
  <2> QED
    BY <1>2, <1>4, <2>4
<1>5. CASE ~(i < Len(s))
  <2>1. \A j \in DOMAIN s : ~(s[j].name < v)
    BY <1>1, <1>3, <1>5
  <2>2. highest = {}
    BY <2>1 DEF Names
  <2> QED
    BY <1>2, <1>5, <2>2
<1> QED
  BY <1>4, <1>5

-----------------------------------------------------------------------------
(* The script.                                                              *)

\* The channel and its bundle documents have each version once, whatever order
\* they are in; once the script has run, they are in order.
Kept ==
  /\ entries \in Seq(Entry) /\ Distinct(entries)
  /\ documents \in Seq(Versions) /\ Once(documents, Itself)
  /\ Names(entries) = {documents[i] : i \in DOMAIN documents}
  /\ last # None =>
       /\ Descending(entries)
       /\ \A i \in DOMAIN entries :
            entries[i].replaces = IF i < Len(entries) THEN entries[i + 1].name ELSE None
       /\ replaces = Predecessor(Names(entries), last)
       /\ manifests = {last}

LEMMA KeptInit == Init => Kept
<1> SUFFICES ASSUME Init
             PROVE  Kept
  OBVIOUS
<1>1. PICK S \in {R \in SUBSET Versions : IsFiniteSet(R)} :
        \E order \in Orders(S), before \in S \cup {None} :
          /\ entries = [i \in DOMAIN order |-> [name |-> order[i], replaces |-> before]]
          /\ documents = order
  BY DEF Init
<1>2. PICK order \in Orders(S), before \in S \cup {None} :
        /\ entries = [i \in DOMAIN order |-> [name |-> order[i], replaces |-> before]]
        /\ documents = order
  BY <1>1
<1> DEFINE n == Cardinality(S)
<1>3. /\ n \in Nat /\ S \subseteq Nat \ {None} /\ IsFiniteSet(S)
      /\ order \in [1..n -> S] /\ {order[i] : i \in 1..n} = S
  BY <1>1, <1>2, FS_CardinalityType, VersionsAssumption DEF Orders
<1> HIDE DEF n
<1>4. \A i, j \in 1..n : order[i] = order[j] => i = j
  <2>1. IsFiniteSet(1..n) /\ Cardinality(1..n) = Cardinality(S)
    BY <1>3, Places DEF n
  <2>2. order \in Surjection(1..n, S)
    BY <1>3, Fun_IsSurj
  <2>3. order \in Injection(1..n, S)
    BY <2>1, <2>2, FS_SurjSameCardinalityImpliesInj
  <2> QED
    BY <2>3 DEF Injection, IsInjective
<1>5. documents \in Seq(Versions) /\ DOMAIN documents = 1..n
  <2>1. order \in [1..n -> Versions] /\ DOMAIN order = 1..n
    BY <1>1, <1>3
  <2>2. order \in Seq(Versions)
    BY <1>3, <2>1, FunctionIsSeq
  <2> QED
    BY <1>2, <2>1, <2>2
<1>6. Once(documents, Itself)
  <2>1. \A i \in DOMAIN documents : Itself[documents[i]] = documents[i]
    BY <1>5, VersionsAreKeys
  <2>2. \A i, j \in DOMAIN documents : documents[i] = documents[j] => i = j
    BY <1>2, <1>4, <1>5
  <2> SUFFICES ASSUME NEW i \in DOMAIN documents, NEW j \in DOMAIN documents,
                      Itself[documents[i]] = Itself[documents[j]]
               PROVE  i = j
    BY DEF Once
  <2> QED
    BY <2>1, <2>2
<1>7. \A i \in 1..n : entries[i] \in Entry /\ entries[i].name = order[i]
  <2> SUFFICES ASSUME NEW i \in 1..n
               PROVE  entries[i] \in Entry /\ entries[i].name = order[i]
    OBVIOUS
  <2>1. entries[i] = [name |-> order[i], replaces |-> before]
    BY <1>2, <1>3
  <2>2. order[i] \in Nat \ {None} /\ before \in Nat
    BY <1>3 DEF None
  <2> QED
    BY <2>1, <2>2 DEF Entry
<1>8. entries \in Seq(Entry) /\ DOMAIN entries = 1..n
  <2>1. entries \in [1..n -> Entry]
    BY <1>2, <1>3, <1>7
  <2> QED
    BY <1>3, <2>1, FunctionIsSeq
<1>9. Distinct(entries)
  BY <1>4, <1>7, <1>8 DEF Distinct
<1>10. Names(entries) = {documents[i] : i \in DOMAIN documents}
  BY <1>2, <1>5, <1>7, <1>8 DEF Names
<1> QED
  BY <1>5, <1>6, <1>8, <1>9, <1>10 DEF Kept, Init

\* What v replaces is below v: v itself is not in the way.
LEMMA PredecessorOwn ==
  ASSUME NEW S \in SUBSET Nat, NEW v \in Nat
  PROVE  Predecessor(S \cup {v}, v) = Predecessor(S, v)
<1> DEFINE A == {w \in S \cup {v} : w < v /\ \A x \in S \cup {v} : x < v => x <= w}
           B == {w \in S : w < v /\ \A x \in S : x < v => x <= w}
<1>1. A = B
  OBVIOUS
<1>2. /\ Predecessor(S \cup {v}, v) = IF A = {} THEN None ELSE CHOOSE w \in A : TRUE
      /\ Predecessor(S, v) = IF B = {} THEN None ELSE CHOOSE w \in B : TRUE
  BY DEF Predecessor
<1> HIDE DEF A, B
<1> QED
  BY <1>1, <1>2

LEMMA DocumentsType ==
  ASSUME NEW s \in Seq(Versions), Once(s, Itself), NEW v \in Versions
  PROVE  /\ BundleDocuments(s, v) \in Seq(Versions) /\ Once(BundleDocuments(s, v), Itself)
         /\ Keys(BundleDocuments(s, v), Itself) = Keys(s, Itself) \cup {v}
<1> DEFINE I == {i \in DOMAIN s : s[i] # v}
<1>1. Itself \in [Versions -> Nat] /\ Itself[v] = v
  BY VersionsAssumption DEF Itself
<1>2. I = {i \in DOMAIN s : Itself[s[i]] # Itself[v]}
  BY <1>1, VersionsAreKeys
<1>3. BundleDocuments(s, v) = Append(Picked(s, I), v)
  BY DEF BundleDocuments
<1> HIDE DEF I
<1>4. /\ Append(Picked(s, I), v) \in Seq(Versions)
      /\ Once(Append(Picked(s, I), v), Itself)
      /\ Keys(Append(Picked(s, I), v), Itself) = Keys(s, Itself) \cup {Itself[v]}
  BY <1>1, <1>2, WithType
<1> QED
  BY <1>1, <1>3, <1>4

LEMMA KeptNext ==
  ASSUME Kept, [Next]_vars
  PROVE  Kept' /\ Names(entries) \subseteq Names(entries')
<1>1. CASE UNCHANGED vars
  BY <1>1 DEF vars, Kept
<1>2. ASSUME NEW v \in Versions, Generate(v)
      PROVE  Kept' /\ Names(entries) \subseteq Names(entries')
  <2>0. v \in Nat \ {None} /\ entries \in Seq(Entry) /\ documents \in Seq(Versions)
    BY VersionsAssumption DEF Kept
  <2>1. entries' = ChannelEntries(entries, v)
    BY <1>2 DEF Generate
  <2>2. /\ entries' \in Seq(Entry)
        /\ Names(entries') = Names(entries) \cup {v}
        /\ Descending(entries')
        /\ \A i \in DOMAIN entries' :
             entries'[i].replaces = IF i < Len(entries') THEN entries'[i + 1].name ELSE None
    BY <2>0, <2>1, ChannelType DEF Kept
  <2>3. Distinct(entries')
    BY <2>2, EntryAt DEF Descending, Distinct
  <2>4. /\ documents' \in Seq(Versions) /\ Once(documents', Itself)
        /\ Keys(documents', Itself) = Keys(documents, Itself) \cup {v}
    BY <1>2, <2>0, DocumentsType DEF Generate, Kept
  <2>5. Names(entries') = {documents'[i] : i \in DOMAIN documents'}
    BY <2>0, <2>2, <2>4, VersionsAreKeys DEF Kept
  <2>6. replaces' = Predecessor(Names(entries'), v)
    <3>1. Names(entries) \subseteq Nat
      BY <2>0, EntryAt DEF Names
    <3> QED
      BY <1>2, <2>0, <2>2, <3>1, PredecessorOwn DEF Generate, PreviousVersion
  <2>7. last' = v /\ manifests' = {v}
    BY <1>2 DEF Generate, Unlinked
  <2> QED
    BY <2>2, <2>3, <2>4, <2>5, <2>6, <2>7 DEF Kept
<1> QED
  BY <1>1, <1>2 DEF Next

\* Whatever the catalog said and in whatever order versions are generated, the
\* channel is one chain, and the bundle generated last agrees with it.
THEOREM ChannelIsOneChain == Spec => []OneChain
<1>1. ASSUME Kept
      PROVE  OneChain
  <2>1. entries \in Seq(Entry)
    BY <1>1 DEF Kept
  <2>2. last # None => \A i \in DOMAIN entries :
                         entries[i].replaces = Predecessor(Names(entries), entries[i].name)
    BY <1>1, <2>1, NextIsPredecessor DEF Kept
  <2> QED
    BY <1>1, <2>2 DEF Kept, OneChain, Descending
<1> QED
  BY <1>1, KeptInit, KeptNext, PTL DEF Spec

\* Each entry has its one bundle document, and the bundle image its one CSV.
THEOREM EachHasItsBundle == Spec => []Bundled
<1>1. ASSUME Kept
      PROVE  Bundled
  <2>1. Len(entries) = Cardinality(Names(entries))
    BY <1>1, OnceCounts, NamesAreKeys DEF Kept
  <2>2. Len(documents) = Cardinality({documents[i] : i \in DOMAIN documents})
    BY <1>1, OnceCounts, VersionsAreKeys DEF Kept
  <2> QED
    BY <1>1, <2>1, <2>2 DEF Kept, Bundled
<1> QED
  BY <1>1, KeptInit, KeptNext, PTL DEF Spec

\* No version once in the channel is dropped from it, in whatever order
\* releases are made and resumed.
THEOREM NoVersionIsLost == Spec => NothingLost
<1>1. Kept /\ [Next]_vars => [Names(entries) \subseteq Names(entries')]_vars
  BY KeptNext
<1> QED
  BY <1>1, KeptInit, KeptNext, PTL DEF Spec, NothingLost
================================================================================
