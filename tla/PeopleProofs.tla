----------------------------- MODULE PeopleProofs -----------------------------
(***************************************************************************)
(* No command and no other repair than a relink leaves data of a Domain    *)
(* that the next read refuses, or a role filled by somebody who is gone,   *)
(* for any people, any number of commands and any inputs of their types.   *)
(*                                                                         *)
(* Two things a relink does not look up.  The data stay readable as long   *)
(* as it names a new id in the format of a notable's; roles are filled by  *)
(* people as long as it names one who is there (careful).                  *)
(*                                                                         *)
(* Nor does a command that forces nothing promise a trade or a source      *)
(* further beyond its means.  Capacities and what is asked of them are     *)
(* sums; a step changes the commitments they run over, and how is said by  *)
(* an injection of positions (Fewer, OneMore).  A notable lends its unit   *)
(* only while a commitment asks one of it, so that what ends may take a    *)
(* unit along: the amounts asked for are positive, and pay for it.         *)
(***************************************************************************)
EXTENDS People, FiniteSetTheorems, FunctionTheorems, SequenceTheorems,
        WellFoundedInduction, TLAPS

\* The members of S below i.
Below(S, i) == {j \in S : j < i}

(***************************************************************************)
(* The first numbers are as many as they are.                              *)
(***************************************************************************)
LEMMA Initial ==
  ASSUME NEW n \in Nat
  PROVE  /\ IsFiniteSet(1 .. n) /\ Cardinality(1 .. n) = n
         /\ IsFiniteSet(0 .. n - 1) /\ Cardinality(0 .. n - 1) = n
<1>1. 0 \in Int /\ 1 \in Int /\ n \in Int /\ n - 1 \in Int
  OBVIOUS
<1>2. /\ IsFiniteSet(1 .. n)
      /\ Cardinality(1 .. n) = IF 1 > n THEN 0 ELSE n - 1 + 1
  BY <1>1, FS_Interval
<1>3. /\ IsFiniteSet(0 .. n - 1)
      /\ Cardinality(0 .. n - 1) = IF 0 > n - 1 THEN 0 ELSE n - 1 - 0 + 1
  BY <1>1, FS_Interval
<1>. QED
  BY <1>2, <1>3

(***************************************************************************)
(* Counting the lesser members of a finite set of numbers enumerates the   *)
(* set in its order.                                                       *)
(***************************************************************************)
LEMMA BelowCounts ==
  ASSUME NEW S \in SUBSET Nat, IsFiniteSet(S)
  PROVE  /\ \A i \in S : Cardinality(Below(S, i)) \in 0 .. Cardinality(S) - 1
         /\ \A i, j \in S : i < j =>
              Cardinality(Below(S, i)) < Cardinality(Below(S, j))
         /\ \A r \in 0 .. Cardinality(S) - 1 :
              \E i \in S : Cardinality(Below(S, i)) = r
<1>. DEFINE f == [i \in S |-> Cardinality(Below(S, i))]
<1>1. Cardinality(S) \in Nat
  BY FS_CardinalityType
<1>2. ASSUME NEW i \in S
      PROVE  /\ IsFiniteSet(Below(S, i))
             /\ Cardinality(Below(S, i)) \in 0 .. Cardinality(S) - 1
  <2>1. Below(S, i) \in SUBSET S /\ i \notin Below(S, i)
    BY DEF Below
  <2>2. /\ IsFiniteSet(Below(S, i))
        /\ Cardinality(Below(S, i)) <= Cardinality(S)
        /\ Cardinality(S) = Cardinality(Below(S, i)) => S = Below(S, i)
    BY <2>1, FS_Subset
  <2>3. Cardinality(Below(S, i)) \in Nat
    BY <2>2, FS_CardinalityType
  <2>4. Cardinality(S) # Cardinality(Below(S, i))
    BY <2>1, <2>2
  <2>. QED
    BY <1>1, <2>2, <2>3, <2>4
<1>3. ASSUME NEW i \in S, NEW j \in S, i < j
      PROVE  Cardinality(Below(S, i)) < Cardinality(Below(S, j))
  <2>1. Below(S, i) \in SUBSET Below(S, j) /\ Below(S, i) # Below(S, j)
    <3>1. i \in Below(S, j) /\ i \notin Below(S, i)
      BY <1>3 DEF Below
    <3>2. ASSUME NEW k \in Below(S, i) PROVE k \in Below(S, j)
      <4>1. k \in S /\ k \in Nat /\ i \in Nat /\ j \in Nat /\ k < i
        BY DEF Below
      <4>2. k < j
        BY <1>3, <4>1
      <4>. QED
        BY <4>1, <4>2 DEF Below
    <3>. QED
      BY <3>1, <3>2
  <2>2. /\ Cardinality(Below(S, i)) <= Cardinality(Below(S, j))
        /\ Cardinality(Below(S, i)) # Cardinality(Below(S, j))
    BY <1>2, <2>1, FS_Subset
  <2>3. Cardinality(Below(S, i)) \in Nat /\ Cardinality(Below(S, j)) \in Nat
    BY <1>2
  <2>. QED
    BY <2>2, <2>3
<1>4. f \in Surjection(S, 0 .. Cardinality(S) - 1)
  <2>1. f \in [S -> 0 .. Cardinality(S) - 1]
    BY <1>2
  <2>2. ASSUME NEW i \in S, NEW j \in S, f[i] = f[j] PROVE i = j
    <3>1. Cardinality(Below(S, i)) = Cardinality(Below(S, j))
      BY <2>2
    <3>2. Cardinality(Below(S, i)) \in Nat /\ Cardinality(Below(S, j)) \in Nat
      BY <1>2
    <3>3. ~(i < j) /\ ~(j < i)
      BY <1>3, <3>1, <3>2
    <3>. QED
      BY <3>3
  <2>3. f \in Injection(S, 0 .. Cardinality(S) - 1)
    BY <2>1, <2>2 DEF Injection, IsInjective
  <2>4. /\ IsFiniteSet(0 .. Cardinality(S) - 1)
        /\ Cardinality(0 .. Cardinality(S) - 1) = Cardinality(S)
    BY <1>1, Initial
  <2>. HIDE DEF f
  <2>. QED
    BY <2>3, <2>4, FS_Injection
<1>5. ASSUME NEW r \in 0 .. Cardinality(S) - 1
      PROVE  \E i \in S : Cardinality(Below(S, i)) = r
  <2>1. \E i \in S : f[i] = r
    <3>. HIDE DEF f
    <3>. QED
      BY <1>4 DEF Surjection
  <2>. QED
    BY <2>1
<1>. QED
  BY <1>2, <1>3, <1>5

(***************************************************************************)
(* Picked enumerates the positions in their order.                         *)
(***************************************************************************)
LEMMA PickedAt ==
  ASSUME NEW T, NEW s \in Seq(T), NEW I \in SUBSET (1 .. Len(s))
  PROVE  /\ Cardinality(I) \in 0 .. Len(s)
         /\ Picked(s, I) \in Seq(T) /\ Len(Picked(s, I)) = Cardinality(I)
         /\ \E at \in [1 .. Cardinality(I) -> I] :
              /\ \A k \in 1 .. Cardinality(I) : Picked(s, I)[k] = s[at[k]]
              /\ \A k, l \in 1 .. Cardinality(I) : at[k] = at[l] => k = l
<1>. DEFINE n == Cardinality(I)
            at == [k \in 1 .. n |->
                     CHOOSE i \in I : Cardinality({j \in I : j < i}) = k - 1]
<1>1. Len(s) \in Nat /\ \A i \in 1 .. Len(s) : s[i] \in T
  BY LenProperties, ElementOfSeq
<1>2. IsFiniteSet(1 .. Len(s)) /\ Cardinality(1 .. Len(s)) = Len(s)
  BY <1>1, Initial
<1>3. I \in SUBSET Nat
  BY <1>1
<1>4. IsFiniteSet(I) /\ n \in 0 .. Len(s)
  <2>1. IsFiniteSet(I) /\ Cardinality(I) <= Len(s)
    BY <1>2, FS_Subset
  <2>2. Cardinality(I) \in Nat
    BY <2>1, FS_CardinalityType
  <2>. QED
    BY <1>1, <2>1, <2>2
<1>5. Picked(s, I) = [k \in 1 .. n |-> s[at[k]]]
  BY DEF Picked
<1>6. ASSUME NEW k \in 1 .. n
      PROVE  at[k] \in I /\ Cardinality(Below(I, at[k])) = k - 1
  <2>1. k - 1 \in 0 .. Cardinality(I) - 1
    BY <1>4
  <2>2. \E i \in I : Cardinality({j \in I : j < i}) = k - 1
    BY <1>3, <1>4, <2>1, BelowCounts DEF Below
  <2>3. at[k] = CHOOSE i \in I : Cardinality({j \in I : j < i}) = k - 1
    OBVIOUS
  <2>. QED
    BY <2>2, <2>3 DEF Below
<1>7. at \in [1 .. n -> I]
  BY <1>6
<1>. HIDE DEF at
<1>8. ASSUME NEW k \in 1 .. n, NEW l \in 1 .. n, at[k] = at[l]
      PROVE  k = l
  <2>1. k - 1 = l - 1 /\ k \in Nat /\ l \in Nat
    BY <1>4, <1>6, <1>8
  <2>. QED
    BY <2>1
<1>9. Picked(s, I) \in Seq(T) /\ Len(Picked(s, I)) = n
  <2>1. \A k \in 1 .. n : s[at[k]] \in T
    BY <1>1, <1>7
  <2>. QED
    BY <1>4, <1>5, <2>1
<1>10. \A k \in 1 .. n : Picked(s, I)[k] = s[at[k]]
  BY <1>5
<1>. QED
  BY <1>4, <1>7, <1>8, <1>9, <1>10

(***************************************************************************)
(* What is picked from a sequence is not longer, has the elements at the   *)
(* positions picked, and none twice if they are all different.             *)
(***************************************************************************)
LEMMA PickedHas ==
  ASSUME NEW T, NEW s \in Seq(T), NEW I \in SUBSET (1 .. Len(s))
  PROVE  /\ Picked(s, I) \in Seq(T) /\ Len(Picked(s, I)) <= Len(s)
         /\ \A x \in Range(Picked(s, I)) : \E i \in I : x = s[i]
         /\ (\A i, j \in I : s[i] = s[j] => i = j) => IsInjective(Picked(s, I))
<1>. DEFINE r == Picked(s, I)
            n == Cardinality(I)
<1>1. n \in 0 .. Len(s) /\ r \in Seq(T) /\ Len(r) = n
  BY PickedAt
<1>2. PICK at \in [1 .. n -> I] :
        /\ \A k \in 1 .. n : r[k] = s[at[k]]
        /\ \A k, l \in 1 .. n : at[k] = at[l] => k = l
  BY PickedAt, SMTT(30)
<1>. HIDE DEF r
<1>3. Len(s) \in Nat /\ DOMAIN r = 1 .. n
  BY <1>1, LenProperties
<1>4. Len(r) <= Len(s)
  BY <1>1, <1>3
<1>5. ASSUME NEW x \in Range(r) PROVE \E i \in I : x = s[i]
  <2>1. PICK k \in 1 .. n : x = r[k]
    BY <1>3 DEF Range
  <2>2. x = s[at[k]] /\ at[k] \in I
    BY <1>2, <2>1
  <2>. QED
    BY <2>2
<1>6. ASSUME \A i, j \in I : s[i] = s[j] => i = j,
             NEW k \in DOMAIN r, NEW l \in DOMAIN r, r[k] = r[l]
      PROVE  k = l
  <2>1. at[k] \in I /\ at[l] \in I /\ s[at[k]] = s[at[l]]
    BY <1>2, <1>3, <1>6
  <2>2. at[k] = at[l]
    BY <1>6, <2>1
  <2>. QED
    BY <1>2, <1>3, <2>2, SMTT(20)
<1>. QED
  BY <1>1, <1>4, <1>5, <1>6 DEF IsInjective, r

(***************************************************************************)
(* The elements of a sequence are at its positions.                        *)
(***************************************************************************)
LEMMA Positions ==
  ASSUME NEW T, NEW s \in Seq(T)
  PROVE  /\ Len(s) \in Nat /\ DOMAIN s = 1 .. Len(s)
         /\ \A i \in DOMAIN s : s[i] \in T /\ s[i] \in Range(s)
         /\ Range(s) \subseteq T
<1>1. Len(s) \in Nat /\ DOMAIN s = 1 .. Len(s)
  BY LenProperties
<1>2. \A i \in 1 .. Len(s) : s[i] \in T
  BY ElementOfSeq
<1>. QED
  BY <1>1, <1>2 DEF Range

(***************************************************************************)
(* A sequence without what is repeated.                                    *)
(***************************************************************************)
LEMMA DistinctHas ==
  ASSUME NEW s \in Seq(Id)
  PROVE  /\ Distinct(s) \in Seq(Id) /\ Len(Distinct(s)) <= Len(s)
         /\ Range(Distinct(s)) \subseteq Range(s)
         /\ IsInjective(Distinct(s))
<1>. DEFINE I == {i \in DOMAIN s : \A j \in DOMAIN s : j < i => s[j] # s[i]}
<1>1. Len(s) \in Nat /\ DOMAIN s = 1 .. Len(s) /\ \A i \in DOMAIN s : s[i] \in Range(s)
  BY Positions
<1>2. I \in SUBSET (1 .. Len(s))
  BY <1>1
<1>3. \A i, j \in I : s[i] = s[j] => i = j
  <2>. SUFFICES ASSUME NEW i \in I, NEW j \in I, s[i] = s[j] PROVE i = j
    OBVIOUS
  <2>1. i \in Nat /\ j \in Nat /\ ~(i < j) /\ ~(j < i)
    BY <1>1
  <2>. QED
    BY <2>1
<1>4. Distinct(s) = Picked(s, I)
  BY DEF Distinct
<1>. HIDE DEF I
<1>5. /\ Picked(s, I) \in Seq(Id) /\ Len(Picked(s, I)) <= Len(s)
      /\ \A x \in Range(Picked(s, I)) : \E i \in I : x = s[i]
      /\ IsInjective(Picked(s, I))
  BY <1>2, <1>3, PickedHas
<1>. QED
  BY <1>1, <1>2, <1>4, <1>5

(***************************************************************************)
(* Who is known of a sequence.                                             *)
(***************************************************************************)
LEMMA KnownHas ==
  ASSUME NEW s \in Seq(Id)
  PROVE  /\ Known(s) \in Seq(Id) /\ Len(Known(s)) <= Len(s)
         /\ Range(Known(s)) \subseteq DOMAIN people.notables
         /\ IsInjective(s) => IsInjective(Known(s))
<1>. DEFINE I == {i \in DOMAIN s : s[i] \in DOMAIN people.notables}
<1>1. DOMAIN s = 1 .. Len(s)
  BY Positions
<1>2. I \in SUBSET (1 .. Len(s)) /\ \A i \in I : s[i] \in DOMAIN people.notables
  BY <1>1
<1>3. IsInjective(s) => \A i, j \in I : s[i] = s[j] => i = j
  BY DEF IsInjective
<1>4. Known(s) = Picked(s, I)
  BY DEF Known
<1>. HIDE DEF I
<1>5. /\ Picked(s, I) \in Seq(Id) /\ Len(Picked(s, I)) <= Len(s)
      /\ \A x \in Range(Picked(s, I)) : \E i \in I : x = s[i]
      /\ IsInjective(s) => IsInjective(Picked(s, I))
  BY <1>2, <1>3, PickedHas
<1>. QED
  BY <1>2, <1>4, <1>5

(***************************************************************************)
(* A sequence in which old is replaced: nobody twice, old only if it is    *)
(* what it is replaced by.                                                 *)
(***************************************************************************)
LEMMA RelinkedHas ==
  ASSUME NEW s \in Seq(Id), NEW old \in Id, NEW new \in Id, IsInjective(s)
  PROVE  /\ Relinked(s, old, new) \in Seq(Id)
         /\ Len(Relinked(s, old, new)) <= Len(s)
         /\ Range(Relinked(s, old, new)) \subseteq Range(s) \cup {new}
         /\ IsInjective(Relinked(s, old, new))
<1>1. Len(s) \in Nat /\ DOMAIN s = 1 .. Len(s)
      /\ \A i \in DOMAIN s : s[i] \in Id /\ s[i] \in Range(s)
  BY Positions
<1>2. CASE old \notin Range(s)
  BY <1>1, <1>2 DEF Relinked
<1>3. CASE old \in Range(s)
  <2>. DEFINE r == [i \in DOMAIN s |-> IF s[i] = old THEN new ELSE s[i]]
  <2>1. r \in Seq(Id) /\ Len(r) = Len(s)
    BY <1>1
  <2>2. Range(r) \subseteq Range(s) \cup {new}
    BY <1>1 DEF Range
  <2>3. Relinked(s, old, new) = Distinct(r)
    BY <1>3 DEF Relinked
  <2>. HIDE DEF r
  <2>4. /\ Distinct(r) \in Seq(Id) /\ Len(Distinct(r)) <= Len(r)
        /\ Range(Distinct(r)) \subseteq Range(r) /\ IsInjective(Distinct(r))
    BY <2>1, DistinctHas
  <2>. QED
    BY <2>1, <2>2, <2>3, <2>4
<1>. QED
  BY <1>2, <1>3

-----------------------------------------------------------------------------
\* No two notables are the same actor.
OneEach(d) ==
  \A m, n \in DOMAIN d.notables :
    d.notables[m] = d.notables[n] /\ d.notables[m] \in Actor => m = n

\* Data of their type that a read accepts, but for the format of the ids.
Good(d) ==
  /\ IsData(d) /\ OneEach(d)
  /\ \A r \in DOMAIN d.roles : Fits(r, d.roles[r].occupants)
  /\ \A g \in DOMAIN d.groups : WellFormed(d.groups[g])

(***************************************************************************)
(* Counting who is linked to an actor is comparing them.                   *)
(***************************************************************************)
LEMMA GoodIsReadable ==
  ASSUME NEW d, Good(d), OpaqueIds(d)
  PROVE  Readable(d)
<1>1. ASSUME NEW a \in Actor PROVE Cardinality(LinkedTo(d, a)) <= 1
  <2>1. CASE LinkedTo(d, a) = {}
    BY <2>1, FS_EmptySet
  <2>2. CASE LinkedTo(d, a) # {}
    <3>1. PICK n : n \in LinkedTo(d, a)
      BY <2>2
    <3>2. \A m \in LinkedTo(d, a) : m = n
      BY <3>1 DEF Good, OneEach, LinkedTo
    <3>3. LinkedTo(d, a) = {n}
      BY <3>1, <3>2
    <3>. QED
      BY <3>3, FS_Singleton
  <2>. QED
    BY <2>1, <2>2
<1>. QED
  BY <1>1 DEF Good, Readable

LEMMA ReadableIsGood ==
  ASSUME NEW d, IsData(d), IsFiniteSet(DOMAIN d.notables), Readable(d)
  PROVE  Good(d) /\ OpaqueIds(d)
<1>1. ASSUME NEW m \in DOMAIN d.notables, NEW n \in DOMAIN d.notables,
             d.notables[m] = d.notables[n], d.notables[m] \in Actor
      PROVE  m = n
  <2>. DEFINE S == LinkedTo(d, d.notables[m])
  <2>1. m \in S /\ n \in S /\ S \in SUBSET DOMAIN d.notables
    BY <1>1 DEF LinkedTo
  <2>2. IsFiniteSet(S) /\ Cardinality(S) <= 1
    BY <1>1, <2>1, FS_Subset DEF Readable
  <2>. HIDE DEF S
  <2>3. SUFFICES ASSUME m # n PROVE FALSE
    OBVIOUS
  <2>4. IsFiniteSet({m}) /\ Cardinality({m}) = 1
    BY FS_Singleton
  <2>5. Cardinality({m} \cup {n}) = 1 + 1
    BY <2>3, <2>4, FS_AddElement
  <2>6. {m} \cup {n} \in SUBSET S
    BY <2>1
  <2>7. Cardinality({m} \cup {n}) <= Cardinality(S)
    BY <2>2, <2>6, FS_Subset
  <2>8. Cardinality(S) \in Nat
    BY <2>2, FS_CardinalityType
  <2>. QED
    BY <2>2, <2>5, <2>7, <2>8
<1>. QED
  BY <1>1 DEF Good, OneEach, Readable

-----------------------------------------------------------------------------
(***************************************************************************)
(* What is kept by key, with one more, with one less, with one changed.    *)
(***************************************************************************)
LEMMA WithHas ==
  ASSUME NEW K, NEW S, NEW f, IsMap(f, K, S), NEW x \in K, NEW v \in S
  PROVE  /\ IsMap(With(f, x, v), K, S)
         /\ DOMAIN With(f, x, v) = DOMAIN f \cup {x}
         /\ With(f, x, v)[x] = v
         /\ \A y \in DOMAIN f : y # x => With(f, x, v)[y] = f[y]
BY DEF IsMap, With

LEMMA WithoutHas ==
  ASSUME NEW K, NEW S, NEW f, IsMap(f, K, S), NEW x
  PROVE  /\ IsMap(Without(f, x), K, S)
         /\ DOMAIN Without(f, x) = DOMAIN f \ {x}
         /\ \A y \in DOMAIN f : y # x => Without(f, x)[y] = f[y]
BY DEF IsMap, Without, Restrict

LEMMA ChangedHas ==
  ASSUME NEW K, NEW S, NEW f, IsMap(f, K, S), NEW x \in DOMAIN f, NEW v \in S
  PROVE  /\ IsMap([f EXCEPT ![x] = v], K, S)
         /\ DOMAIN [f EXCEPT ![x] = v] = DOMAIN f
         /\ [f EXCEPT ![x] = v][x] = v
         /\ \A y \in DOMAIN f : y # x => [f EXCEPT ![x] = v][y] = f[y]
BY DEF IsMap

(***************************************************************************)
(* Data stay good when one of their parts is replaced by a good one.       *)
(***************************************************************************)
LEMMA GroupsReplaced ==
  ASSUME NEW d, Good(d), NEW h, IsMap(h, Id, OperationalGroup),
         \A g \in DOMAIN h : WellFormed(h[g]),
         NEW e, e = [d EXCEPT !.groups = h]
  PROVE  Good(e) /\ (Filled(d) => Filled(e))
<1>1. /\ e.groups = h /\ e.roles = d.roles /\ e.notables = d.notables
      /\ IsData(e)
  BY DEF Good, IsData
<1>. QED
  BY <1>1 DEF Good, OneEach, Filled

LEMMA RolesReplaced ==
  ASSUME NEW d, Good(d), NEW h, IsMap(h, Role, DomainRole),
         \A r \in DOMAIN h : Fits(r, h[r].occupants),
         NEW e, e = [d EXCEPT !.roles = h]
  PROVE  /\ Good(e)
         /\ (\A r \in DOMAIN h : Range(h[r].occupants) \subseteq DOMAIN d.notables)
              => Filled(e)
<1>1. /\ e.groups = d.groups /\ e.roles = h /\ e.notables = d.notables
      /\ IsData(e)
  BY DEF Good, IsData
<1>. QED
  BY <1>1 DEF Good, OneEach, Filled

LEMMA NotablesReplaced ==
  ASSUME NEW d, Good(d), NEW h, IsMap(h, Id, Actor \cup {Inline}),
         \A m, n \in DOMAIN h : h[m] = h[n] /\ h[m] \in Actor => m = n,
         NEW e, e = [d EXCEPT !.notables = h]
  PROVE  /\ Good(e)
         /\ (\A r \in DOMAIN d.roles : Range(d.roles[r].occupants) \subseteq DOMAIN h)
              => Filled(e)
<1>1. /\ e.groups = d.groups /\ e.roles = d.roles /\ e.notables = h
      /\ IsData(e)
  BY DEF Good, IsData
<1>. QED
  BY <1>1 DEF Good, OneEach, Filled

LEMMA OthersReplaced ==
  ASSUME NEW d, Good(d), NEW e, IsData(e), e.groups = d.groups,
         e.roles = d.roles, e.notables = d.notables
  PROVE  Good(e) /\ (Filled(d) => Filled(e))
BY DEF Good, OneEach, Filled

-----------------------------------------------------------------------------
\* The data stay good, and, if notables are relinked to people, roles stay
\* filled by people.
Stays == Good(people)' /\ (scene.careful /\ Filled(people) => Filled(people)')

(***************************************************************************)
(* The inputs of a scene are typed.                                        *)
(***************************************************************************)
LEMMA Inputs ==
  ASSUME TypeOK
  PROVE  /\ scene \in Scenes /\ scene.max \in Nat
         /\ scene.populationIds \subseteq Id /\ scene.groupIds \subseteq Id
         /\ scene.notableIds \subseteq Id
         /\ scene.contributions \subseteq [Trade -> Nat]
         /\ scene.groups \subseteq OperationalGroup
         /\ \A p \in scene.patches : Patch(p)
         /\ scene.occupants \subseteq Seq(Id)
         /\ scene.assignments \subseteq Commitment
         /\ scene.reservations \subseteq Commitment
BY SceneAssumption DEF TypeOK

(***************************************************************************)
(* people:set-population and the population groups.                        *)
(***************************************************************************)
LEMMA PopulationStays ==
  ASSUME TypeOK, Good(people), PopulationCommand
  PROVE  Stays
<1>. DEFINE Changed(h) == people' = [people EXCEPT !.populations = h]
<1>1. IsData(people) /\ IsMap(people.populations, Id, [Trade -> Nat])
  BY DEF Good, IsData
<1>2. ASSUME NEW h, IsMap(h, Id, [Trade -> Nat]), Changed(h)
      PROVE  Stays
  <2>1. /\ IsData(people') /\ people'.groups = people.groups
        /\ people'.roles = people.roles /\ people'.notables = people.notables
    BY <1>1, <1>2 DEF IsData
  <2>. QED
    BY <2>1, OthersReplaced DEF Stays
<1>3. ASSUME NEW mode \in {"manual", "hybrid"}, SetPopulation(mode)
      PROVE  Stays
  <2>1. /\ IsData(people') /\ people'.groups = people.groups
        /\ people'.roles = people.roles /\ people'.notables = people.notables
    BY <1>1, <1>3 DEF IsData, SetPopulation, Write
  <2>. QED
    BY <2>1, OthersReplaced DEF Stays
<1>4. ASSUME NEW p \in Id, NEW c \in [Trade -> Nat], CreatePopulationGroup(p, c)
      PROVE  Stays
  <2>1. IsMap(With(people.populations, p, c), Id, [Trade -> Nat])
    BY <1>1, WithHas
  <2>2. Changed(With(people.populations, p, c))
    BY <1>4 DEF CreatePopulationGroup, New
  <2>. QED
    BY <1>2, <2>1, <2>2
<1>5. ASSUME NEW p \in Id, NEW c \in [Trade -> Nat], UpdatePopulationGroup(p, c)
      PROVE  Stays
  <2>. DEFINE h == [people.populations EXCEPT ![p] = c]
  <2>1. p \in DOMAIN people.populations
    BY <1>5 DEF UpdatePopulationGroup
  <2>2. IsMap(h, Id, [Trade -> Nat])
    BY <1>1, <2>1, ChangedHas
  <2>3. Changed(h)
    BY <1>5 DEF UpdatePopulationGroup, Write
  <2>. HIDE DEF h
  <2>. QED
    BY <1>2, <2>2, <2>3
<1>6. ASSUME NEW p \in Id, DeletePopulationGroup(p)
      PROVE  Stays
  <2>1. IsMap(Without(people.populations, p), Id, [Trade -> Nat])
    BY <1>1, WithoutHas
  <2>2. Changed(Without(people.populations, p))
    BY <1>6 DEF DeletePopulationGroup, Write
  <2>. QED
    BY <1>2, <2>1, <2>2
<1>7. /\ scene.populationIds \subseteq Id
      /\ scene.contributions \subseteq [Trade -> Nat]
  BY Inputs
<1>. QED
  BY <1>3, <1>4, <1>5, <1>6, <1>7 DEF PopulationCommand

(***************************************************************************)
(* A patched group is a group.                                             *)
(***************************************************************************)
LEMMA MergedIsGroup ==
  ASSUME NEW g \in OperationalGroup, NEW p, Patch(p)
  PROVE  Merged(g, p) \in OperationalGroup
<1>. DEFINE Fields == {"trade", "mode", "size", "members", "lifecycle", "population"}
            m == [f \in DOMAIN g |-> IF f \in DOMAIN p THEN p[f] ELSE g[f]]
<1>1. DOMAIN g = Fields
  BY DEF OperationalGroup
<1>2. /\ m["trade"] \in Trade /\ m["mode"] \in Modes /\ m["size"] \in Nat
      /\ m["members"] \in Seq(Id) /\ m["lifecycle"] \in Lifecycles
      /\ m["population"] \in Id \cup {None}
  BY <1>1 DEF OperationalGroup, Patch
<1>3. m = [trade |-> m["trade"], mode |-> m["mode"], size |-> m["size"],
           members |-> m["members"], lifecycle |-> m["lifecycle"],
           population |-> m["population"]]
  BY <1>1
<1>. HIDE DEF m
<1>4. m \in OperationalGroup
  <2>1. [trade |-> m["trade"], mode |-> m["mode"], size |-> m["size"],
         members |-> m["members"], lifecycle |-> m["lifecycle"],
         population |-> m["population"]] \in OperationalGroup
    BY <1>2 DEF OperationalGroup
  <2>. QED
    BY <1>3, <2>1
<1>5. Len(m.members) \in Nat
  BY <1>4, LenProperties DEF OperationalGroup
<1>6. [m EXCEPT !.size = IF "size" \in DOMAIN p \/ m.mode # "explicit"
                         THEN m.size ELSE Len(m.members)] \in OperationalGroup
  BY <1>4, <1>5 DEF OperationalGroup
<1>. QED
  BY <1>6 DEF Merged, m

(***************************************************************************)
(* The operational groups.                                                 *)
(***************************************************************************)
LEMMA GroupStays ==
  ASSUME TypeOK, Good(people), GroupCommand
  PROVE  Stays
<1>. DEFINE Changed(h) == people' = [people EXCEPT !.groups = h]
<1>1. /\ IsData(people) /\ IsMap(people.groups, Id, OperationalGroup)
      /\ \A g \in DOMAIN people.groups : WellFormed(people.groups[g])
  BY DEF Good, IsData
<1>2. ASSUME NEW h, IsMap(h, Id, OperationalGroup),
             \A g \in DOMAIN h : WellFormed(h[g]), Changed(h)
      PROVE  Stays
  BY <1>2, GroupsReplaced DEF Stays
<1>3. ASSUME NEW id \in Id, NEW g \in OperationalGroup,
             CreateOperationalGroup(id, g)
      PROVE  Stays
  <2>. DEFINE h == With(people.groups, id, g)
  <2>1. /\ IsMap(h, Id, OperationalGroup) /\ DOMAIN h = DOMAIN people.groups \cup {id}
        /\ h[id] = g
        /\ \A x \in DOMAIN people.groups : x # id => h[x] = people.groups[x]
    BY <1>1, WithHas
  <2>2. Changed(h) /\ WellFormed(g)
    BY <1>3 DEF CreateOperationalGroup, New
  <2>. HIDE DEF h
  <2>3. \A x \in DOMAIN h : WellFormed(h[x])
    BY <1>1, <2>1, <2>2
  <2>. QED
    BY <1>2, <2>1, <2>2, <2>3
<1>4. ASSUME NEW id \in Id, NEW p, Patch(p), UpdateOperationalGroup(id, p)
      PROVE  Stays
  <2>. DEFINE g == Merged(people.groups[id], p)
              h == [people.groups EXCEPT ![id] = g]
  <2>1. id \in DOMAIN people.groups /\ WellFormed(g)
    BY <1>4 DEF UpdateOperationalGroup
  <2>2. g \in OperationalGroup
    BY <1>1, <1>4, <2>1, MergedIsGroup DEF IsMap
  <2>3. Changed(h)
    BY <1>4 DEF UpdateOperationalGroup, Write
  <2>. HIDE DEF g
  <2>4. /\ IsMap(h, Id, OperationalGroup) /\ DOMAIN h = DOMAIN people.groups
        /\ h[id] = g
        /\ \A x \in DOMAIN people.groups : x # id => h[x] = people.groups[x]
    BY <1>1, <2>1, <2>2, ChangedHas
  <2>. HIDE DEF h
  <2>5. \A x \in DOMAIN h : WellFormed(h[x])
    BY <1>1, <2>1, <2>4
  <2>. QED
    BY <1>2, <2>3, <2>4, <2>5
<1>5. ASSUME NEW id \in Id, DeleteOperationalGroup(id)
      PROVE  Stays
  <2>. DEFINE h == Without(people.groups, id)
  <2>1. /\ IsMap(h, Id, OperationalGroup) /\ DOMAIN h = DOMAIN people.groups \ {id}
        /\ \A x \in DOMAIN people.groups : x # id => h[x] = people.groups[x]
    BY <1>1 DEF IsMap, Without, Restrict
  <2>2. Changed(h)
    BY <1>5 DEF DeleteOperationalGroup, Write
  <2>. HIDE DEF h
  <2>3. \A x \in DOMAIN h : WellFormed(h[x])
    BY <1>1, <2>1
  <2>. QED
    BY <1>2, <2>1, <2>2, <2>3
<1>6. /\ scene.groupIds \subseteq Id /\ scene.groups \subseteq OperationalGroup
      /\ \A p \in scene.patches : Patch(p)
  BY Inputs
<1>. QED
  BY <1>3, <1>4, <1>5, <1>6 DEF GroupCommand

(***************************************************************************)
(* The notables: an actor is linked to nobody else before it is given, and *)
(* nobody is deleted who fills a role.                                     *)
(***************************************************************************)
LEMMA NotableStays ==
  ASSUME TypeOK, Good(people), NotableCommand
  PROVE  Stays
<1>. DEFINE Linkable == Actor \cup {Inline}
            Changed(h) == people' = [people EXCEPT !.notables = h]
            Apart(h) == \A m, n \in DOMAIN h : h[m] = h[n] /\ h[m] \in Actor => m = n
            Covers(h) == \A r \in DOMAIN people.roles :
                           Range(people.roles[r].occupants) \subseteq DOMAIN h
<1>1. /\ IsData(people) /\ IsMap(people.notables, Id, Linkable)
      /\ Apart(people.notables) /\ Inline \notin Actor
  BY PeopleAssumption DEF Good, IsData, OneEach
<1>2. ASSUME NEW h, IsMap(h, Id, Linkable), Apart(h), Changed(h),
             Filled(people) => Covers(h)
      PROVE  Stays
  BY <1>2, NotablesReplaced DEF Stays
<1>3. ASSUME NEW h, NEW n, NEW a \in Linkable, Unlinked(n, a), h[n] = a,
             DOMAIN h \subseteq DOMAIN people.notables \cup {n},
             \A x \in DOMAIN people.notables : x # n => h[x] = people.notables[x]
      PROVE  Apart(h)
  <2>. SUFFICES ASSUME NEW x \in DOMAIN h, NEW y \in DOMAIN h,
                       h[x] = h[y], h[x] \in Actor
                PROVE  x = y
    OBVIOUS
  <2>1. \A z \in DOMAIN people.notables : people.notables[z] = a /\ a \in Actor => z = n
    BY <1>1, <1>3 DEF Unlinked, LinkedTo
  <2>2. CASE x = n \/ y = n
    BY <1>3, <2>1, <2>2
  <2>3. CASE x # n /\ y # n
    BY <1>1, <1>3, <2>3
  <2>. QED
    BY <2>2, <2>3
<1>4. ASSUME NEW n \in Id, NEW a \in Linkable, CreateNotable(n, a)
      PROVE  Stays
  <2>. DEFINE h == With(people.notables, n, a)
  <2>1. /\ IsMap(h, Id, Linkable) /\ DOMAIN h = DOMAIN people.notables \cup {n}
        /\ h[n] = a
        /\ \A x \in DOMAIN people.notables : x # n => h[x] = people.notables[x]
    BY <1>1 DEF IsMap, With
  <2>2. Changed(h) /\ Unlinked(n, a)
    BY <1>4 DEF CreateNotable, New
  <2>. HIDE DEF h
  <2>3. Apart(h)
    BY <1>3, <2>1, <2>2
  <2>4. Filled(people) => Covers(h)
    BY <2>1 DEF Filled
  <2>. QED
    BY <1>2, <2>1, <2>2, <2>3, <2>4
<1>5. ASSUME NEW n \in Id, NEW a \in Linkable, UpdateNotable(n, a)
      PROVE  Stays
  <2>. DEFINE h == [people.notables EXCEPT ![n] = a]
  <2>1. n \in DOMAIN people.notables /\ Unlinked(n, a)
    BY <1>5 DEF UpdateNotable
  <2>2. Changed(h)
    BY <1>5 DEF UpdateNotable, Write
  <2>3. /\ IsMap(h, Id, Linkable) /\ DOMAIN h = DOMAIN people.notables
        /\ h[n] = a
        /\ \A x \in DOMAIN people.notables : x # n => h[x] = people.notables[x]
    BY <1>1, <2>1, ChangedHas
  <2>. HIDE DEF h
  <2>4. Apart(h)
    BY <1>3, <2>1, <2>3
  <2>5. Filled(people) => Covers(h)
    BY <2>3 DEF Filled
  <2>. QED
    BY <1>2, <2>2, <2>3, <2>4, <2>5
<1>6. ASSUME NEW n \in Id, DeleteNotable(n)
      PROVE  Stays
  <2>. DEFINE h == Without(people.notables, n)
  <2>1. /\ IsMap(h, Id, Linkable) /\ DOMAIN h = DOMAIN people.notables \ {n}
        /\ \A x \in DOMAIN people.notables : x # n => h[x] = people.notables[x]
    BY <1>1 DEF IsMap, Without, Restrict
  <2>2. Changed(h) /\ Unoccupied(n)
    BY <1>6 DEF DeleteNotable, Write
  <2>. HIDE DEF h
  <2>3. Apart(h)
    BY <1>1, <2>1
  <2>4. Filled(people) => Covers(h)
    BY <2>1, <2>2 DEF Filled, Unoccupied
  <2>. QED
    BY <1>2, <2>1, <2>2, <2>3, <2>4
<1>7. scene.notableIds \subseteq Id
  BY Inputs
<1>. QED
  BY <1>4, <1>5, <1>6, <1>7 DEF NotableCommand

(***************************************************************************)
(* One more in a sequence that did not have it.                            *)
(***************************************************************************)
LEMMA AppendedHas ==
  ASSUME NEW s \in Seq(Id), NEW n \in Id, n \notin Range(s), IsInjective(s)
  PROVE  /\ Append(s, n) \in Seq(Id) /\ Len(Append(s, n)) = Len(s) + 1
         /\ Range(Append(s, n)) \subseteq Range(s) \cup {n}
         /\ IsInjective(Append(s, n))
<1>. DEFINE r == Append(s, n)
<1>1. /\ Len(s) \in Nat /\ DOMAIN s = 1 .. Len(s)
      /\ \A i \in DOMAIN s : s[i] \in Range(s)
  BY Positions
<1>2. /\ r \in Seq(Id) /\ Len(r) = Len(s) + 1 /\ DOMAIN r = 1 .. Len(s) + 1
      /\ r[Len(s) + 1] = n /\ \A i \in 1 .. Len(s) : r[i] = s[i]
  BY <1>1, AppendProperties
<1>. HIDE DEF r
<1>3. Range(r) \subseteq Range(s) \cup {n}
  <2>. SUFFICES ASSUME NEW i \in DOMAIN r PROVE r[i] \in Range(s) \cup {n}
    BY DEF Range
  <2>1. i \in 1 .. Len(s) \/ i = Len(s) + 1
    BY <1>1, <1>2
  <2>. QED
    BY <1>1, <1>2, <2>1
<1>4. ASSUME NEW i \in DOMAIN r, NEW j \in DOMAIN r, r[i] = r[j]
      PROVE  i = j
  <2>1. /\ i \in 1 .. Len(s) \/ i = Len(s) + 1
        /\ j \in 1 .. Len(s) \/ j = Len(s) + 1
    BY <1>1, <1>2
  <2>2. CASE i \in 1 .. Len(s) /\ j \in 1 .. Len(s)
    BY <1>1, <1>2, <1>4, <2>2 DEF IsInjective
  <2>3. CASE i = Len(s) + 1 \/ j = Len(s) + 1
    BY <1>1, <1>2, <1>4, <2>1, <2>3
  <2>. QED
    BY <2>1, <2>2, <2>3
<1>. QED
  BY <1>2, <1>3, <1>4 DEF IsInjective, r

(***************************************************************************)
(* The roles: who is assigned is there.                                    *)
(***************************************************************************)
LEMMA RoleStays ==
  ASSUME TypeOK, Good(people), RoleCommand
  PROVE  Stays
<1>. DEFINE Changed(h) == people' = [people EXCEPT !.roles = h]
            There(t) == Range(t) \subseteq DOMAIN people.notables
            Before(x) == people.roles[x].occupants
<1>1. /\ IsData(people) /\ IsMap(people.roles, Role, DomainRole)
      /\ \A x \in DOMAIN people.roles :
           /\ x \in Role /\ people.roles[x] \in DomainRole
           /\ Fits(x, Before(x)) /\ Before(x) \in Seq(Id)
           /\ Filled(people) => There(Before(x))
  BY DEF Good, IsData, IsMap, DomainRole, Filled
<1>2. ASSUME NEW h, IsMap(h, Role, DomainRole), Changed(h),
             \A x \in DOMAIN h :
               /\ Fits(x, h[x].occupants)
               /\ Filled(people) => There(h[x].occupants)
      PROVE  Stays
  BY <1>2, RolesReplaced DEF Stays
<1>3. ASSUME NEW r \in DOMAIN people.roles, NEW t \in Seq(Id), Fits(r, t),
             Filled(people) => There(t),
             people' = [people EXCEPT !.roles[r].occupants = t]
      PROVE  Stays
  <2>. DEFINE role == [people.roles[r] EXCEPT !.occupants = t]
              h == [people.roles EXCEPT ![r] = role]
  <2>1. role \in DomainRole /\ role.occupants = t
    BY <1>1 DEF DomainRole
  <2>2. Changed(h)
    BY <1>3
  <2>. HIDE DEF role
  <2>3. /\ IsMap(h, Role, DomainRole) /\ DOMAIN h = DOMAIN people.roles
        /\ h[r] = role
        /\ \A x \in DOMAIN people.roles : x # r => h[x] = people.roles[x]
    BY <1>1, <2>1 DEF IsMap
  <2>. HIDE DEF h
  <2>4. /\ \A x \in DOMAIN h : Fits(x, h[x].occupants)
        /\ Filled(people) => \A x \in DOMAIN h : There(h[x].occupants)
    <3>. SUFFICES ASSUME NEW x \in DOMAIN people.roles
                  PROVE  /\ Fits(x, h[x].occupants)
                         /\ Filled(people) => There(h[x].occupants)
      BY <2>3
    <3>1. CASE x = r
      BY <1>3, <2>1, <2>3, <3>1
    <3>2. CASE x # r
      BY <1>1, <2>3, <3>2
    <3>. QED
      BY <3>1, <3>2
  <2>. QED
    BY <1>2, <2>2, <2>3, <2>4
<1>4. ASSUME NEW r \in Role, NEW g \in Id \cup {None}, NEW t \in Seq(Id),
             CreateRole(r, g, t)
      PROVE  Stays
  <2>. DEFINE role == [group |-> g, occupants |-> t]
              h == With(people.roles, r, role)
  <2>1. role \in DomainRole /\ role.occupants = t
    BY DEF DomainRole
  <2>2. Changed(h) /\ Fits(r, t) /\ There(t)
    BY <1>4 DEF CreateRole, New
  <2>. HIDE DEF role
  <2>3. /\ IsMap(h, Role, DomainRole) /\ DOMAIN h = DOMAIN people.roles \cup {r}
        /\ h[r] = role
        /\ \A x \in DOMAIN people.roles : x # r => h[x] = people.roles[x]
    BY <1>1, <2>1 DEF IsMap, With
  <2>. HIDE DEF h
  <2>. QED
    BY <1>1, <1>2, <2>1, <2>2, <2>3
<1>5. ASSUME NEW r \in Role, NEW n \in Id, AssignRole(r, n)
      PROVE  Stays
  <2>. DEFINE t == Append(Before(r), n)
  <2>1. /\ r \in DOMAIN people.roles /\ n \in DOMAIN people.notables
        /\ n \notin Range(Before(r)) /\ Len(Before(r)) < RoleMax[r]
        /\ people' = [people EXCEPT !.roles[r].occupants = t]
    BY <1>5 DEF AssignRole, Write
  <2>2. Before(r) \in Seq(Id) /\ IsInjective(Before(r))
    BY <1>1, <2>1 DEF Fits
  <2>3. /\ t \in Seq(Id) /\ Len(t) = Len(Before(r)) + 1
        /\ Range(t) \subseteq Range(Before(r)) \cup {n} /\ IsInjective(t)
    BY <2>1, <2>2, AppendedHas
  <2>4. RoleMax[r] \in Nat /\ Len(Before(r)) \in Nat
    BY <2>2, PeopleAssumption, LenProperties
  <2>. HIDE DEF t
  <2>5. Fits(r, t)
    BY <2>1, <2>3, <2>4 DEF Fits
  <2>6. Filled(people) => There(t)
    BY <1>1, <2>1, <2>3
  <2>. QED
    BY <1>3, <2>1, <2>3, <2>5, <2>6
<1>6. ASSUME NEW r \in Role, NEW n \in Id, UnassignRole(r, n)
      PROVE  Stays
  <2>. DEFINE I == {i \in DOMAIN Before(r) : Before(r)[i] # n}
              t == Picked(Before(r), I)
  <2>1. /\ r \in DOMAIN people.roles
        /\ people' = [people EXCEPT !.roles[r].occupants = t]
    BY <1>6 DEF UnassignRole, Write
  <2>2. /\ Before(r) \in Seq(Id) /\ IsInjective(Before(r))
        /\ Len(Before(r)) <= RoleMax[r]
    BY <1>1, <2>1 DEF Fits
  <2>3. /\ Len(Before(r)) \in Nat /\ DOMAIN Before(r) = 1 .. Len(Before(r))
        /\ \A i \in DOMAIN Before(r) : Before(r)[i] \in Range(Before(r))
    BY <2>2, Positions
  <2>4. /\ I \in SUBSET (1 .. Len(Before(r)))
        /\ \A i, j \in I : Before(r)[i] = Before(r)[j] => i = j
    BY <2>2, <2>3 DEF IsInjective
  <2>. HIDE DEF I
  <2>5. /\ t \in Seq(Id) /\ Len(t) <= Len(Before(r)) /\ IsInjective(t)
        /\ \A x \in Range(t) : \E i \in I : x = Before(r)[i]
    BY <2>2, <2>4, PickedHas
  <2>6. RoleMax[r] \in Nat /\ Len(t) \in Nat
    BY <2>5, PeopleAssumption, LenProperties
  <2>. HIDE DEF t
  <2>7. Fits(r, t)
    BY <2>2, <2>3, <2>5, <2>6 DEF Fits
  <2>8. Range(t) \subseteq Range(Before(r))
    BY <2>3, <2>4, <2>5
  <2>9. Filled(people) => There(t)
    BY <1>1, <2>1, <2>8
  <2>. QED
    BY <1>3, <2>1, <2>5, <2>7, <2>9
<1>7. ASSUME NEW r \in Role, DeleteRole(r)
      PROVE  Stays
  <2>. DEFINE h == Without(people.roles, r)
  <2>1. /\ IsMap(h, Role, DomainRole) /\ DOMAIN h = DOMAIN people.roles \ {r}
        /\ \A x \in DOMAIN people.roles : x # r => h[x] = people.roles[x]
    BY <1>1 DEF IsMap, Without, Restrict
  <2>2. Changed(h)
    BY <1>7 DEF DeleteRole, Write
  <2>. HIDE DEF h
  <2>. QED
    BY <1>1, <1>2, <2>1, <2>2
<1>8. /\ scene.groupIds \subseteq Id /\ scene.notableIds \subseteq Id
      /\ scene.occupants \subseteq Seq(Id)
  BY Inputs
<1>. QED
  BY <1>4, <1>5, <1>6, <1>7, <1>8 DEF RoleCommand

(***************************************************************************)
(* Assignments and reservations touch no role and no group.                *)
(***************************************************************************)
LEMMA WorkStays ==
  ASSUME TypeOK, Good(people), WorkCommand
  PROVE  Stays
<1>1. /\ IsData(people) /\ people.assignments \in Seq(Commitment)
      /\ people.reservations \in Seq(Commitment)
  BY DEF Good, IsData
<1>2. ASSUME NEW t \in Seq(Commitment),
             \/ people' = [people EXCEPT !.assignments = t]
             \/ people' = [people EXCEPT !.reservations = t]
      PROVE  Stays
  <2>1. /\ IsData(people') /\ people'.groups = people.groups
        /\ people'.roles = people.roles /\ people'.notables = people.notables
    BY <1>1, <1>2 DEF IsData
  <2>. QED
    BY <2>1, OthersReplaced DEF Stays
<1>3. \A t \in Seq(Commitment), c \in Commitment : Append(t, c) \in Seq(Commitment)
  BY AppendProperties
<1>4. ASSUME NEW t \in Seq(Commitment), NEW i \in DOMAIN t
      PROVE  RemoveAt(t, i) \in Seq(Commitment)
  <2>1. Len(t) \in Nat /\ i \in 1 .. Len(t)
    BY LenProperties
  <2>2. SubSeq(t, 1, i - 1) \in Seq(Commitment)
    BY <2>1
  <2>3. SubSeq(t, i + 1, Len(t)) \in Seq(Commitment)
    BY <2>1
  <2>. QED
    BY <2>2, <2>3 DEF RemoveAt
<1>5. ASSUME NEW c \in Commitment, NEW forced \in BOOLEAN,
             CreateAssignment(c, forced) \/ CreateReservation(c, forced)
      PROVE  Stays
  <2>1. \/ people' = [people EXCEPT !.assignments = Append(people.assignments, c)]
        \/ people' = [people EXCEPT !.reservations = Append(people.reservations, c)]
    BY <1>5 DEF CreateAssignment, CreateReservation, Write
  <2>. QED
    BY <1>1, <1>2, <1>3, <2>1
<1>6. ASSUME NEW i, CancelAssignment(i)
      PROVE  Stays
  <2>1. /\ i \in DOMAIN people.assignments
        /\ people' = [people EXCEPT !.assignments = RemoveAt(people.assignments, i)]
    BY <1>6 DEF CancelAssignment, Write
  <2>. QED
    BY <1>1, <1>2, <1>4, <2>1
<1>7. ASSUME NEW i, ReleaseReservation(i)
      PROVE  Stays
  <2>1. /\ i \in DOMAIN people.reservations
        /\ people' = [people EXCEPT !.reservations = RemoveAt(people.reservations, i)]
    BY <1>7 DEF ReleaseReservation, Write
  <2>. QED
    BY <1>1, <1>2, <1>4, <2>1
<1>8. scene.assignments \subseteq Commitment /\ scene.reservations \subseteq Commitment
  BY Inputs
<1>. QED
  BY <1>5, <1>6, <1>7, <1>8 DEF WorkCommand

-----------------------------------------------------------------------------
(***************************************************************************)
(* A repair that rewrites roles and groups, each by itself.                *)
(***************************************************************************)
LEMMA RewrittenStays ==
  ASSUME Good(people),
         NEW R, NEW G, people' = [people EXCEPT !.roles = R, !.groups = G],
         IsMap(R, Role, DomainRole), IsMap(G, Id, OperationalGroup),
         \A r \in DOMAIN R : Fits(r, R[r].occupants),
         \A g \in DOMAIN G : WellFormed(G[g]),
         scene.careful /\ Filled(people) =>
           \A r \in DOMAIN R : Range(R[r].occupants) \subseteq DOMAIN people.notables
  PROVE  Stays
<1>. DEFINE e == [people EXCEPT !.roles = R]
<1>1. Good(e) /\ (scene.careful /\ Filled(people) => Filled(e))
  BY RolesReplaced
<1>2. people' = [e EXCEPT !.groups = G]
  BY DEF Good, IsData
<1>. HIDE DEF e
<1>3. Good(people') /\ (Filled(e) => Filled(people'))
  BY <1>1, <1>2, GroupsReplaced
<1>. QED
  BY <1>1, <1>3 DEF Stays

(***************************************************************************)
(* What a group is, of which the members are fewer or replaced.            *)
(***************************************************************************)
LEMMA RemadeGroup ==
  ASSUME NEW g \in OperationalGroup, WellFormed(g),
         NEW t \in Seq(Id), NEW n \in Nat, IsInjective(t),
         Len(t) <= Len(g.members), n = g.size \/ g.mode = "explicit"
  PROVE  /\ [g EXCEPT !.members = t, !.size = n] \in OperationalGroup
         /\ WellFormed([g EXCEPT !.members = t, !.size = n])
<1>. DEFINE h == [g EXCEPT !.members = t, !.size = n]
<1>1. /\ h \in OperationalGroup
      /\ h.members = t /\ h.size = n /\ h.mode = g.mode
  BY DEF OperationalGroup
<1>2. /\ g.members \in Seq(Id) /\ Len(g.members) \in Nat /\ Len(t) \in Nat
      /\ g.size \in Nat
  BY LenProperties DEF OperationalGroup
<1>3. g.mode = "abstract" => t = <<>>
  <2>. SUFFICES ASSUME g.mode = "abstract" PROVE t = <<>>
    OBVIOUS
  <2>1. Len(g.members) = 0
    BY DEF WellFormed
  <2>2. Len(t) = 0
    BY <1>2, <2>1
  <2>. QED
    BY <2>2, EmptySeq
<1>. HIDE DEF h
<1>4. WellFormed(h)
  BY <1>1, <1>2, <1>3 DEF WellFormed
<1>. QED
  BY <1>1, <1>4 DEF h

(***************************************************************************)
(* people:repair.  Only a relink can leave a role to somebody who is not   *)
(* there, and only one that is not careful.                                *)
(***************************************************************************)
LEMMA RelinkStays ==
  ASSUME TypeOK, Good(people), NEW old \in Id, NEW new \in Id,
         RelinkNotable(old, new),
         scene.careful => new \in DOMAIN people.notables
  PROVE  Stays
<1>. DEFINE Seat(r) == Relinked(people.roles[r].occupants, old, new)
            Team(g) == Relinked(people.groups[g].members, old, new)
            R == [r \in DOMAIN people.roles |->
                    [people.roles[r] EXCEPT !.occupants = Seat(r)]]
            G == [g \in DOMAIN people.groups |->
                    [people.groups[g] EXCEPT !.members = Team(g)]]
<1>1. /\ IsMap(people.roles, Role, DomainRole)
      /\ IsMap(people.groups, Id, OperationalGroup)
  BY DEF Good, IsData
<1>2. people' = [people EXCEPT !.roles = R, !.groups = G]
  BY DEF RelinkNotable, Repair, Write
<1>3. ASSUME NEW r \in DOMAIN people.roles
      PROVE  /\ R[r] \in DomainRole /\ Fits(r, R[r].occupants)
             /\ Range(R[r].occupants) \subseteq
                  Range(people.roles[r].occupants) \cup {new}
  <2>. DEFINE s == people.roles[r].occupants
  <2>1. /\ r \in Role /\ people.roles[r] \in DomainRole /\ s \in Seq(Id)
        /\ IsInjective(s) /\ Len(s) <= RoleMax[r]
    BY <1>1 DEF IsMap, DomainRole, Good, Fits
  <2>. HIDE DEF s
  <2>2. /\ Relinked(s, old, new) \in Seq(Id)
        /\ Len(Relinked(s, old, new)) <= Len(s)
        /\ Range(Relinked(s, old, new)) \subseteq Range(s) \cup {new}
        /\ IsInjective(Relinked(s, old, new))
    BY <2>1, RelinkedHas
  <2>3. Seat(r) = Relinked(s, old, new)
    BY DEF s
  <2>. HIDE DEF Seat
  <2>4. R[r] \in DomainRole /\ R[r].occupants = Seat(r)
    BY <2>1, <2>2, <2>3 DEF DomainRole
  <2>5. /\ Len(s) \in Nat /\ RoleMax[r] \in Nat
        /\ Len(Relinked(s, old, new)) \in Nat
    BY <2>1, <2>2, LenProperties, PeopleAssumption
  <2>6. Fits(r, Relinked(s, old, new))
    BY <2>1, <2>2, <2>5 DEF Fits
  <2>. QED
    BY <2>2, <2>3, <2>4, <2>6 DEF s
<1>4. ASSUME NEW g \in DOMAIN people.groups
      PROVE  G[g] \in OperationalGroup /\ WellFormed(G[g])
  <2>. DEFINE o == people.groups[g]
              s == o.members
  <2>1. /\ o \in OperationalGroup /\ WellFormed(o) /\ s \in Seq(Id)
        /\ IsInjective(s) /\ o.size \in Nat
    BY <1>1 DEF IsMap, OperationalGroup, Good, WellFormed
  <2>2. G[g] = [o EXCEPT !.members = Relinked(s, old, new), !.size = o.size]
    <3>1. G[g] = [o EXCEPT !.members = Relinked(s, old, new)]
      OBVIOUS
    <3>. HIDE DEF o, G
    <3>. QED
      BY <2>1, <3>1 DEF OperationalGroup
  <2>. HIDE DEF o, G
  <2>3. /\ Relinked(s, old, new) \in Seq(Id)
        /\ Len(Relinked(s, old, new)) <= Len(s)
        /\ IsInjective(Relinked(s, old, new))
    BY <2>1, RelinkedHas
  <2>. DEFINE t == Relinked(s, old, new)
              n == o.size
  <2>4. /\ t \in Seq(Id) /\ Len(t) <= Len(o.members) /\ IsInjective(t)
        /\ n \in Nat /\ n = o.size /\ G[g] = [o EXCEPT !.members = t, !.size = n]
    BY <2>1, <2>2, <2>3
  <2>. HIDE DEF t, n
  <2>5. /\ [o EXCEPT !.members = t, !.size = n] \in OperationalGroup
        /\ WellFormed([o EXCEPT !.members = t, !.size = n])
    BY <2>1, <2>4, RemadeGroup
  <2>. QED
    BY <2>4, <2>5
<1>5. IsMap(R, Role, DomainRole) /\ IsMap(G, Id, OperationalGroup)
  BY <1>1, <1>3, <1>4 DEF IsMap
<1>6. /\ \A r \in DOMAIN R : Fits(r, R[r].occupants)
      /\ \A g \in DOMAIN G : WellFormed(G[g])
  BY <1>3, <1>4
<1>7. scene.careful /\ Filled(people) =>
        \A r \in DOMAIN R : Range(R[r].occupants) \subseteq DOMAIN people.notables
  <2>1. DOMAIN R = DOMAIN people.roles
    OBVIOUS
  <2>. HIDE DEF R
  <2>. QED
    BY <1>3, <2>1 DEF Filled
<1>. HIDE DEF R, G
<1>. QED
  BY <1>2, <1>5, <1>6, <1>7, RewrittenStays

LEMMA PurgeStays ==
  ASSUME TypeOK, Good(people), PurgeDanglingOccupants
  PROVE  Stays
<1>. DEFINE R == [r \in DOMAIN people.roles |->
                    [people.roles[r] EXCEPT
                       !.occupants = Known(people.roles[r].occupants)]]
            G == [g \in DOMAIN people.groups |-> PurgedGroup(people.groups[g])]
<1>1. /\ IsMap(people.roles, Role, DomainRole)
      /\ IsMap(people.groups, Id, OperationalGroup)
  BY DEF Good, IsData
<1>2. people' = [people EXCEPT !.roles = R, !.groups = G]
  BY DEF PurgeDanglingOccupants, Repair, Write
<1>3. ASSUME NEW r \in DOMAIN people.roles
      PROVE  /\ R[r] \in DomainRole /\ Fits(r, R[r].occupants)
             /\ Range(R[r].occupants) \subseteq DOMAIN people.notables
  <2>. DEFINE s == people.roles[r].occupants
  <2>1. /\ r \in Role /\ people.roles[r] \in DomainRole /\ s \in Seq(Id)
        /\ IsInjective(s) /\ Len(s) <= RoleMax[r]
    BY <1>1 DEF IsMap, DomainRole, Good, Fits
  <2>2. R[r] = [people.roles[r] EXCEPT !.occupants = Known(s)]
    OBVIOUS
  <2>. HIDE DEF s, R
  <2>3. /\ Known(s) \in Seq(Id) /\ Len(Known(s)) <= Len(s)
        /\ Range(Known(s)) \subseteq DOMAIN people.notables
        /\ IsInjective(Known(s))
    BY <2>1, KnownHas
  <2>4. R[r] \in DomainRole /\ R[r].occupants = Known(s)
    BY <2>1, <2>2, <2>3 DEF DomainRole
  <2>5. Len(s) \in Nat /\ RoleMax[r] \in Nat /\ Len(Known(s)) \in Nat
    BY <2>1, <2>3, LenProperties, PeopleAssumption
  <2>6. Fits(r, Known(s))
    BY <2>1, <2>3, <2>5 DEF Fits
  <2>. QED
    BY <2>3, <2>4, <2>6
<1>4. ASSUME NEW g \in DOMAIN people.groups
      PROVE  G[g] \in OperationalGroup /\ WellFormed(G[g])
  <2>. DEFINE o == people.groups[g]
              t == Known(o.members)
              n == IF o.mode = "explicit" THEN Len(t) ELSE o.size
  <2>1. /\ o \in OperationalGroup /\ WellFormed(o) /\ o.members \in Seq(Id)
        /\ IsInjective(o.members) /\ o.size \in Nat
    BY <1>1 DEF IsMap, OperationalGroup, Good, WellFormed
  <2>2. G[g] = PurgedGroup(o)
    OBVIOUS
  <2>. HIDE DEF o, G
  <2>3. t \in Seq(Id) /\ Len(t) <= Len(o.members) /\ IsInjective(t)
    BY <2>1, KnownHas
  <2>4. n \in Nat /\ (n = o.size \/ o.mode = "explicit")
    BY <2>1, <2>3, LenProperties
  <2>5. G[g] = o \/ G[g] = [o EXCEPT !.members = t, !.size = n]
    BY <2>2 DEF PurgedGroup
  <2>. HIDE DEF t, n
  <2>6. /\ [o EXCEPT !.members = t, !.size = n] \in OperationalGroup
        /\ WellFormed([o EXCEPT !.members = t, !.size = n])
    BY <2>1, <2>3, <2>4, RemadeGroup
  <2>. QED
    BY <2>1, <2>5, <2>6
<1>5. IsMap(R, Role, DomainRole) /\ IsMap(G, Id, OperationalGroup)
  BY <1>1, <1>3, <1>4 DEF IsMap
<1>6. /\ \A r \in DOMAIN R : /\ Fits(r, R[r].occupants)
                              /\ Range(R[r].occupants) \subseteq DOMAIN people.notables
      /\ \A g \in DOMAIN G : WellFormed(G[g])
  BY <1>3, <1>4
<1>. HIDE DEF R, G
<1>. QED
  BY <1>2, <1>5, <1>6, RewrittenStays

LEMMA ResizeStays ==
  ASSUME TypeOK, Good(people), RepairExplicitGroupSizes
  PROVE  Stays
<1>. DEFINE G == [g \in DOMAIN people.groups |-> ResizedGroup(people.groups[g])]
<1>1. IsMap(people.groups, Id, OperationalGroup)
  BY DEF Good, IsData
<1>2. people' = [people EXCEPT !.groups = G]
  BY DEF RepairExplicitGroupSizes, Repair, Write
<1>3. ASSUME NEW g \in DOMAIN people.groups
      PROVE  G[g] \in OperationalGroup /\ WellFormed(G[g])
  <2>. DEFINE o == people.groups[g]
  <2>1. /\ o \in OperationalGroup /\ WellFormed(o)
        /\ o.members \in Seq(Id) /\ Len(o.members) \in Nat
    BY <1>1, LenProperties DEF IsMap, OperationalGroup, Good
  <2>2. G[g] = ResizedGroup(o)
    OBVIOUS
  <2>. HIDE DEF o, G
  <2>3. CASE o.mode # "explicit"
    BY <2>1, <2>2, <2>3 DEF ResizedGroup
  <2>4. CASE o.mode = "explicit"
    <3>1. /\ G[g] \in OperationalGroup /\ G[g].mode = o.mode
          /\ G[g].members = o.members
      BY <2>1, <2>2, <2>4 DEF ResizedGroup, OperationalGroup
    <3>. QED
      BY <2>1, <2>4, <3>1 DEF WellFormed
  <2>. QED
    BY <2>3, <2>4
<1>4. IsMap(G, Id, OperationalGroup) /\ \A g \in DOMAIN G : WellFormed(G[g])
  BY <1>1, <1>3 DEF IsMap
<1>. HIDE DEF G
<1>. QED
  BY <1>2, <1>4, GroupsReplaced DEF Stays

LEMMA PruneStays ==
  ASSUME TypeOK, Good(people), NEW real, NEW at,
         PruneExpiredReservations(real, at) \/ PruneEndedAssignments(at)
  PROVE  Stays
<1>. DEFINE I == {i \in DOMAIN people.reservations :
                    LET c == people.reservations[i]
                    IN c.active => ~Past(c, real) /\ c.ends > at}
            P == Picked(people.reservations, I)
            Ended(c) == [c EXCEPT !.active = @ /\ c.ends > at]
            A == [i \in DOMAIN people.assignments |-> Ended(people.assignments[i])]
<1>1. /\ IsData(people) /\ people.assignments \in Seq(Commitment)
      /\ people.reservations \in Seq(Commitment)
  BY DEF Good, IsData
<1>2. P \in Seq(Commitment)
  <2>1. DOMAIN people.reservations = 1 .. Len(people.reservations)
    BY <1>1, LenProperties
  <2>2. I \in SUBSET (1 .. Len(people.reservations))
    BY <2>1
  <2>. HIDE DEF I
  <2>. QED
    BY <1>1, <2>2, PickedHas
<1>3. A \in Seq(Commitment)
  <2>1. /\ Len(people.assignments) \in Nat
        /\ DOMAIN people.assignments = 1 .. Len(people.assignments)
        /\ \A i \in DOMAIN people.assignments : people.assignments[i] \in Commitment
    BY <1>1, LenProperties, ElementOfSeq
  <2>2. \A c \in Commitment : Ended(c) \in Commitment
    BY DEF Commitment
  <2>. HIDE DEF Ended
  <2>. QED
    BY <2>1, <2>2
<1>4. \/ people' = [people EXCEPT !.reservations = P]
      \/ people' = [people EXCEPT !.assignments = A]
  BY DEF PruneExpiredReservations, PruneEndedAssignments, Repair, Write
<1>. HIDE DEF P, A
<1>5. /\ IsData(people') /\ people'.groups = people.groups
      /\ people'.roles = people.roles /\ people'.notables = people.notables
  BY <1>1, <1>2, <1>3, <1>4 DEF IsData
<1>. QED
  BY <1>5, OthersReplaced DEF Stays

LEMMA RepairStays ==
  ASSUME TypeOK, Good(people), RepairCommand
  PROVE  Stays
<1>1. scene.notableIds \subseteq Id
  BY Inputs
<1>. QED
  BY <1>1, RelinkStays, PurgeStays, ResizeStays, PruneStays DEF RepairCommand

-----------------------------------------------------------------------------
\* Ids, clock and scene.
Rest == <<used, now, scene, commands>>

(***************************************************************************)
(* Ids, clock, scene and the number of commands stay of their types.       *)
(***************************************************************************)
LEMMA TypesStay ==
  ASSUME TypeOK, [Next]_vars, IsData(people)'
  PROVE  TypeOK'
<1>. DEFINE Kept == /\ used' \subseteq Id \cup Role
                    /\ now' \in 0 .. MaxNow
                    /\ scene' \in Scenes /\ commands' \in 0 .. scene'.max
<1>. SUFFICES Kept
  BY DEF TypeOK
<1>1. MaxNow \in Nat /\ scene.max \in Nat
  BY PeopleAssumption, Inputs
<1>2. ASSUME NEW name, Given(name)
      PROVE  /\ now' \in 0 .. MaxNow
             /\ scene' \in Scenes /\ commands' \in 0 .. scene'.max
  BY <1>1, <1>2 DEF Given, TypeOK
<1>3. ASSUME NEW name, Given(name), UNCHANGED used
      PROVE  Kept
  BY <1>2, <1>3 DEF TypeOK
<1>4. ASSUME NEW name, Given(name), NEW id \in Id \cup Role, used' = used \cup {id}
      PROVE  Kept
  BY <1>2, <1>4 DEF TypeOK
<1>5. /\ scene.populationIds \subseteq Id /\ scene.groupIds \subseteq Id
      /\ scene.notableIds \subseteq Id
  BY Inputs
<1>6. CASE PopulationCommand
  BY <1>3, <1>4, <1>5, <1>6 DEF PopulationCommand, SetPopulation,
     CreatePopulationGroup, UpdatePopulationGroup, DeletePopulationGroup, New, Write
<1>7. CASE GroupCommand
  BY <1>3, <1>4, <1>5, <1>7 DEF GroupCommand, CreateOperationalGroup,
     UpdateOperationalGroup, DeleteOperationalGroup, New, Write
<1>8. CASE NotableCommand
  BY <1>3, <1>4, <1>5, <1>8 DEF NotableCommand, CreateNotable, UpdateNotable,
     DeleteNotable, New, Write
<1>9. CASE RoleCommand
  BY <1>3, <1>4, <1>9 DEF RoleCommand, CreateRole, AssignRole, UnassignRole,
     DeleteRole, New, Write
<1>10. CASE WorkCommand
  BY <1>3, <1>10 DEF WorkCommand, CreateAssignment, CreateReservation,
     CancelAssignment, ReleaseReservation, Write
<1>11. CASE RepairCommand
  BY <1>3, <1>11, Zenon DEF RepairCommand, RelinkNotable, PurgeDanglingOccupants,
     RepairExplicitGroupSizes, PruneExpiredReservations, PruneEndedAssignments,
     Repair, Write
<1>12. CASE Tick
  BY <1>1, <1>12 DEF Tick, TypeOK
<1>13. CASE UNCHANGED vars
  BY <1>13 DEF vars, TypeOK
<1>. QED
  BY <1>6, <1>7, <1>8, <1>9, <1>10, <1>11, <1>12, <1>13 DEF Next

LEMMA NextStays ==
  ASSUME TypeOK, Good(people), [Next]_vars
  PROVE  TypeOK' /\ Stays
<1>1. Stays
  <2>1. CASE Tick \/ UNCHANGED vars
    <3>1. people' = people
      BY <2>1 DEF Tick, vars
    <3>. QED
      BY <3>1 DEF Stays
  <2>. QED
    BY <2>1, PopulationStays, GroupStays, NotableStays, RoleStays, WorkStays,
       RepairStays DEF Next
<1>2. IsData(people)'
  BY <1>1 DEF Stays, Good
<1>. QED
  BY <1>1, <1>2, TypesStay

-----------------------------------------------------------------------------
(***************************************************************************)
(* The format of the ids.  Whom a command names as a member or an occupant *)
(* is a notable that is there, and so has the id of one; a relink alone    *)
(* takes an id as it is given.                                             *)
(***************************************************************************)
StrayRelink ==
  /\ ~scene.careful
  /\ \E old \in scene.notableIds, new \in scene.notableIds \ NotableId :
       RelinkNotable(old, new)

Named(s) == Range(s) \subseteq NotableId

LEMMA PartsNamed ==
  ASSUME Good(people), OpaqueIds(people), NEW v, NEW w,
         \/ people' = [people EXCEPT !.mode = v]
         \/ people' = [people EXCEPT !.populations = v]
         \/ people' = [people EXCEPT !.assignments = v]
         \/ people' = [people EXCEPT !.reservations = v]
         \/ /\ people' = [people EXCEPT !.groups = v]
            /\ \A g \in DOMAIN v : Named(v[g].members)
         \/ people' = [people EXCEPT !.notables = v] /\ DOMAIN v \subseteq NotableId
         \/ /\ people' = [people EXCEPT !.roles = v]
            /\ \A r \in DOMAIN v : Named(v[r].occupants)
         \/ /\ people' = [people EXCEPT !.roles = v, !.groups = w]
            /\ \A r \in DOMAIN v : Named(v[r].occupants)
            /\ \A g \in DOMAIN w : Named(w[g].members)
  PROVE  OpaqueIds(people')
<1>1. DOMAIN people = {"mode", "populations", "groups", "notables", "roles",
                       "assignments", "reservations"}
  BY DEF Good, IsData
<1>. QED
  BY <1>1 DEF OpaqueIds, Named

LEMMA GroupsNamed ==
  ASSUME TypeOK, Good(people), OpaqueIds(people), GroupCommand
  PROVE  OpaqueIds(people')
<1>1. /\ \A g \in DOMAIN people.groups : Named(people.groups[g].members)
      /\ DOMAIN people.notables \subseteq NotableId
  BY DEF OpaqueIds, Named
<1>2. ASSUME NEW id, NEW g, CreateOperationalGroup(id, g)
      PROVE  OpaqueIds(people')
  <2>1. people' = [people EXCEPT !.groups = With(people.groups, id, g)]
    BY <1>2 DEF CreateOperationalGroup, New
  <2>2. Named(g.members)
    BY <1>1, <1>2 DEF CreateOperationalGroup, MembersKnown, Named
  <2>3. \A x \in DOMAIN With(people.groups, id, g) :
          Named(With(people.groups, id, g)[x].members)
    BY <1>1, <2>2 DEF With
  <2>. QED
    BY <2>1, <2>3, PartsNamed
<1>3. ASSUME NEW id, NEW p, UpdateOperationalGroup(id, p)
      PROVE  OpaqueIds(people')
  <2>. DEFINE g == Merged(people.groups[id], p)
              h == [people.groups EXCEPT ![id] = g]
  <2>1. people' = [people EXCEPT !.groups = h] /\ MembersKnown(g)
    BY <1>3 DEF UpdateOperationalGroup, Write
  <2>. HIDE DEF g
  <2>2. Named(g.members)
    BY <1>1, <2>1 DEF MembersKnown, Named
  <2>3. \A x \in DOMAIN h : Named(h[x].members)
    BY <1>1, <2>2
  <2>. HIDE DEF h
  <2>. QED
    BY <2>1, <2>3, PartsNamed
<1>4. ASSUME NEW id, DeleteOperationalGroup(id)
      PROVE  OpaqueIds(people')
  <2>1. people' = [people EXCEPT !.groups = Without(people.groups, id)]
    BY <1>4 DEF DeleteOperationalGroup, Write
  <2>2. \A x \in DOMAIN Without(people.groups, id) :
          Named(Without(people.groups, id)[x].members)
    BY <1>1 DEF Without, Restrict
  <2>. QED
    BY <2>1, <2>2, PartsNamed
<1>. QED
  BY <1>2, <1>3, <1>4 DEF GroupCommand

LEMMA NotablesNamed ==
  ASSUME TypeOK, Good(people), OpaqueIds(people), NotableCommand
  PROVE  OpaqueIds(people')
<1>1. DOMAIN people.notables \subseteq NotableId
  BY DEF OpaqueIds
<1>2. ASSUME NEW n, NEW a, CreateNotable(n, a)
      PROVE  OpaqueIds(people')
  <2>1. /\ people' = [people EXCEPT !.notables = With(people.notables, n, a)]
        /\ n \in NotableId
    BY <1>2 DEF CreateNotable, New
  <2>2. DOMAIN With(people.notables, n, a) \subseteq NotableId
    BY <1>1, <2>1 DEF With
  <2>. QED
    BY <2>1, <2>2, PartsNamed
<1>3. ASSUME NEW n, NEW a, UpdateNotable(n, a)
      PROVE  OpaqueIds(people')
  <2>. DEFINE h == [people.notables EXCEPT ![n] = a]
  <2>1. people' = [people EXCEPT !.notables = h] /\ DOMAIN h \subseteq NotableId
    BY <1>1, <1>3 DEF UpdateNotable, Write
  <2>. HIDE DEF h
  <2>. QED
    BY <2>1, PartsNamed
<1>4. ASSUME NEW n, DeleteNotable(n)
      PROVE  OpaqueIds(people')
  <2>1. people' = [people EXCEPT !.notables = Without(people.notables, n)]
    BY <1>4 DEF DeleteNotable, Write
  <2>2. DOMAIN Without(people.notables, n) \subseteq NotableId
    BY <1>1 DEF Without, Restrict
  <2>. QED
    BY <2>1, <2>2, PartsNamed
<1>. QED
  BY <1>2, <1>3, <1>4 DEF NotableCommand

LEMMA RolesNamed ==
  ASSUME TypeOK, Good(people), OpaqueIds(people), RoleCommand
  PROVE  OpaqueIds(people')
<1>. DEFINE Before(x) == people.roles[x].occupants
<1>1. /\ \A x \in DOMAIN people.roles :
           /\ Named(Before(x)) /\ Before(x) \in Seq(Id) /\ IsInjective(Before(x))
           /\ people.roles[x] \in DomainRole
      /\ DOMAIN people.notables \subseteq NotableId
  BY DEF OpaqueIds, Named, Good, IsData, IsMap, DomainRole, Fits
<1>2. ASSUME NEW r \in DOMAIN people.roles, NEW t, Named(t),
             people' = [people EXCEPT !.roles[r].occupants = t]
      PROVE  OpaqueIds(people')
  <2>. DEFINE role == [people.roles[r] EXCEPT !.occupants = t]
              h == [people.roles EXCEPT ![r] = role]
  <2>1. people' = [people EXCEPT !.roles = h]
    BY <1>2
  <2>2. role.occupants = t
    BY <1>1 DEF DomainRole
  <2>. HIDE DEF role
  <2>3. \A x \in DOMAIN h : Named(h[x].occupants)
    BY <1>1, <1>2, <2>2
  <2>. HIDE DEF h
  <2>. QED
    BY <2>1, <2>3, PartsNamed
<1>3. ASSUME NEW r, NEW g, NEW t, CreateRole(r, g, t)
      PROVE  OpaqueIds(people')
  <2>. DEFINE h == With(people.roles, r, [group |-> g, occupants |-> t])
  <2>1. people' = [people EXCEPT !.roles = h] /\ Named(t)
    BY <1>1, <1>3 DEF CreateRole, New, Named
  <2>2. \A x \in DOMAIN h : Named(h[x].occupants)
    BY <1>1, <2>1 DEF With
  <2>. HIDE DEF h
  <2>. QED
    BY <2>1, <2>2, PartsNamed
<1>4. ASSUME NEW r, NEW n \in Id, AssignRole(r, n)
      PROVE  OpaqueIds(people')
  <2>. DEFINE t == Append(Before(r), n)
  <2>1. /\ r \in DOMAIN people.roles /\ n \in DOMAIN people.notables
        /\ n \notin Range(Before(r))
        /\ people' = [people EXCEPT !.roles[r].occupants = t]
    BY <1>4 DEF AssignRole, Write
  <2>2. Range(t) \subseteq Range(Before(r)) \cup {n}
    BY <1>1, <2>1, AppendedHas
  <2>. HIDE DEF t
  <2>3. Named(t)
    BY <1>1, <2>1, <2>2 DEF Named
  <2>. QED
    BY <1>2, <2>1, <2>3
<1>5. ASSUME NEW r, NEW n, UnassignRole(r, n)
      PROVE  OpaqueIds(people')
  <2>. DEFINE s == Before(r)
              I == {i \in DOMAIN s : s[i] # n}
              t == Picked(s, I)
  <2>1. /\ r \in DOMAIN people.roles
        /\ people' = [people EXCEPT !.roles[r].occupants = t]
    BY <1>5 DEF UnassignRole, Write
  <2>2. s \in Seq(Id) /\ Named(s)
    BY <1>1, <2>1
  <2>. HIDE DEF s
  <2>3. Named(t)
    <3>1. DOMAIN s = 1 .. Len(s) /\ \A i \in DOMAIN s : s[i] \in Range(s)
      BY <2>2, Positions
    <3>2. I \in SUBSET (1 .. Len(s))
      BY <3>1
    <3>. HIDE DEF I
    <3>3. \A x \in Range(Picked(s, I)) : \E i \in I : x = s[i]
      BY <2>2, <3>2, PickedHas
    <3>. QED
      BY <2>2, <3>1, <3>2, <3>3 DEF Named
  <2>. HIDE DEF t
  <2>. QED
    BY <1>2, <2>1, <2>3
<1>6. ASSUME NEW r, DeleteRole(r)
      PROVE  OpaqueIds(people')
  <2>1. people' = [people EXCEPT !.roles = Without(people.roles, r)]
    BY <1>6 DEF DeleteRole, Write
  <2>2. \A x \in DOMAIN Without(people.roles, r) :
          Named(Without(people.roles, r)[x].occupants)
    BY <1>1 DEF Without, Restrict
  <2>. QED
    BY <2>1, <2>2, PartsNamed
<1>7. scene.notableIds \subseteq Id
  BY Inputs
<1>. QED
  BY <1>3, <1>4, <1>5, <1>6, <1>7 DEF RoleCommand

LEMMA RepairsNamed ==
  ASSUME TypeOK, Good(people), OpaqueIds(people), RepairCommand
  PROVE  OpaqueIds(people') \/ StrayRelink
<1>1. /\ DOMAIN people.notables \subseteq NotableId
      /\ \A r \in DOMAIN people.roles :
           LET s == people.roles[r].occupants
           IN /\ Named(s) /\ s \in Seq(Id) /\ IsInjective(s)
              /\ people.roles[r] \in DomainRole
      /\ \A g \in DOMAIN people.groups :
           LET s == people.groups[g].members
           IN /\ Named(s) /\ s \in Seq(Id) /\ IsInjective(s)
              /\ people.groups[g] \in OperationalGroup
  BY DEF OpaqueIds, Named, Good, IsData, IsMap, DomainRole, OperationalGroup, Fits,
         WellFormed
<1>2. ASSUME NEW R, NEW G, people' = [people EXCEPT !.roles = R, !.groups = G],
             DOMAIN R = DOMAIN people.roles, DOMAIN G = DOMAIN people.groups,
             \A r \in DOMAIN people.roles : Named(R[r].occupants),
             \A g \in DOMAIN people.groups : Named(G[g].members)
      PROVE  OpaqueIds(people')
  BY <1>2, PartsNamed
<1>3. ASSUME NEW old \in Id, NEW new \in NotableId, RelinkNotable(old, new)
      PROVE  OpaqueIds(people')
  <2>. DEFINE R == [r \in DOMAIN people.roles |->
                      [people.roles[r] EXCEPT
                         !.occupants = Relinked(people.roles[r].occupants, old, new)]]
              G == [g \in DOMAIN people.groups |->
                      [people.groups[g] EXCEPT
                         !.members = Relinked(people.groups[g].members, old, new)]]
  <2>1. people' = [people EXCEPT !.roles = R, !.groups = G]
    BY <1>3 DEF RelinkNotable, Repair, Write
  <2>2. \A s \in Seq(Id) : Named(s) /\ IsInjective(s) => Named(Relinked(s, old, new))
    BY RelinkedHas, PeopleAssumption DEF Named
  <2>3. \A r \in DOMAIN people.roles : Named(R[r].occupants)
    BY <1>1, <2>2 DEF DomainRole
  <2>4. \A g \in DOMAIN people.groups : Named(G[g].members)
    BY <1>1, <2>2 DEF OperationalGroup
  <2>5. DOMAIN R = DOMAIN people.roles /\ DOMAIN G = DOMAIN people.groups
    OBVIOUS
  <2>. HIDE DEF R, G
  <2>. QED
    BY <1>2, <2>1, <2>3, <2>4, <2>5
<1>4. CASE PurgeDanglingOccupants
  <2>. DEFINE R == [r \in DOMAIN people.roles |->
                      [people.roles[r] EXCEPT
                         !.occupants = Known(people.roles[r].occupants)]]
              G == [g \in DOMAIN people.groups |-> PurgedGroup(people.groups[g])]
  <2>1. people' = [people EXCEPT !.roles = R, !.groups = G]
    BY <1>4 DEF PurgeDanglingOccupants, Repair, Write
  <2>2. \A s \in Seq(Id) : Named(Known(s))
    BY <1>1, KnownHas DEF Named
  <2>3. \A r \in DOMAIN people.roles : Named(R[r].occupants)
    BY <1>1, <2>2 DEF DomainRole
  <2>4. \A g \in DOMAIN people.groups : Named(G[g].members)
    BY <1>1, <2>2 DEF OperationalGroup, PurgedGroup
  <2>5. DOMAIN R = DOMAIN people.roles /\ DOMAIN G = DOMAIN people.groups
    OBVIOUS
  <2>. HIDE DEF R, G
  <2>. QED
    BY <1>2, <2>1, <2>3, <2>4, <2>5
<1>5. CASE RepairExplicitGroupSizes
  <2>. DEFINE G == [g \in DOMAIN people.groups |-> ResizedGroup(people.groups[g])]
  <2>1. people' = [people EXCEPT !.groups = G]
    BY <1>5 DEF RepairExplicitGroupSizes, Repair, Write
  <2>2. \A g \in DOMAIN G : Named(G[g].members)
    BY <1>1 DEF ResizedGroup, OperationalGroup
  <2>. HIDE DEF G
  <2>. QED
    BY <2>1, <2>2, PartsNamed
<1>6. ASSUME NEW real, NEW at,
             PruneExpiredReservations(real, at) \/ PruneEndedAssignments(at)
      PROVE  OpaqueIds(people')
  <2>1. \/ \E v : people' = [people EXCEPT !.reservations = v]
        \/ \E v : people' = [people EXCEPT !.assignments = v]
    BY <1>6, Zenon DEF PruneExpiredReservations, PruneEndedAssignments, Repair, Write
  <2>. QED
    BY <2>1, PartsNamed
<1>7. scene.notableIds \subseteq Id
  BY Inputs
<1>8. ASSUME NEW old \in scene.notableIds, NEW new \in scene.notableIds,
             scene.careful => new \in DOMAIN people.notables,
             RelinkNotable(old, new)
      PROVE  OpaqueIds(people') \/ StrayRelink
  BY <1>1, <1>3, <1>7, <1>8 DEF StrayRelink
<1>. QED
  BY <1>4, <1>5, <1>6, <1>8 DEF RepairCommand

LEMMA NextNamed ==
  ASSUME TypeOK, Good(people), OpaqueIds(people), [Next]_vars
  PROVE  OpaqueIds(people') \/ StrayRelink
<1>1. CASE PopulationCommand
  <2>1. \/ \E v : people' = [people EXCEPT !.mode = v]
        \/ \E v : people' = [people EXCEPT !.populations = v]
    BY <1>1, Zenon DEF PopulationCommand, SetPopulation, CreatePopulationGroup,
       UpdatePopulationGroup, DeletePopulationGroup, Write, New
  <2>. QED
    BY <2>1, PartsNamed
<1>2. CASE WorkCommand
  <2>1. \/ \E v : people' = [people EXCEPT !.assignments = v]
        \/ \E v : people' = [people EXCEPT !.reservations = v]
    BY <1>2, Zenon DEF WorkCommand, CreateAssignment, CreateReservation,
       CancelAssignment, ReleaseReservation, Write
  <2>. QED
    BY <2>1, PartsNamed
<1>3. CASE Tick \/ UNCHANGED vars
  BY <1>3 DEF Tick, vars
<1>. QED
  BY <1>1, <1>2, <1>3, GroupsNamed, NotablesNamed, RolesNamed, RepairsNamed DEF Next

-----------------------------------------------------------------------------
LEMMA OpeningIsGood ==
  ASSUME Init
  PROVE  TypeOK /\ Good(people) /\ OpaqueIds(people) /\ Filled(people)
<1>1. /\ scene \in Scenes /\ people = scene.opening /\ now = 0 /\ commands = 0
      /\ scene.max \in Nat /\ MaxNow \in Nat
      /\ IsData(people) /\ IsFiniteSet(DOMAIN people.notables)
      /\ Readable(people) /\ Filled(people)
  BY SceneAssumption, PeopleAssumption DEF Init
<1>2. used \subseteq Id \cup Role
  BY <1>1 DEF Init, Sources, IsData, IsMap
<1>3. Good(people) /\ OpaqueIds(people)
  BY <1>1, ReadableIsGood
<1>. QED
  BY <1>1, <1>2, <1>3 DEF TypeOK

(***************************************************************************)
(* Good data with ids of notables stay so, but for a relink to an id that  *)
(* is none; a careful one names somebody, who has one.                     *)
(***************************************************************************)
LEMMA NextReadable ==
  ASSUME TypeOK, Good(people), [Next]_vars
  PROVE  /\ TypeOK' /\ Good(people')
         /\ OpaqueIds(people) => OpaqueIds(people') \/ StrayRelink
         /\ RelinksNameIds' <=> RelinksNameIds
         /\ RelinksNameIds /\ OpaqueIds(people) => OpaqueIds(people')
<1>1. TypeOK' /\ Good(people')
  BY NextStays DEF Stays
<1>2. OpaqueIds(people) => OpaqueIds(people') \/ StrayRelink
  BY NextNamed
<1>3. RelinksNameIds /\ OpaqueIds(people) => ~StrayRelink
  BY DEF RelinksNameIds, StrayRelink
<1>4. scene' = scene
  BY Zenon DEF Next, vars, Tick, Given, PopulationCommand, SetPopulation,
     CreatePopulationGroup, UpdatePopulationGroup, DeletePopulationGroup, GroupCommand,
     CreateOperationalGroup, UpdateOperationalGroup, DeleteOperationalGroup,
     NotableCommand, CreateNotable, UpdateNotable, DeleteNotable, RoleCommand,
     CreateRole, AssignRole, UnassignRole, DeleteRole, WorkCommand, CreateAssignment,
     CreateReservation, CancelAssignment, ReleaseReservation, RepairCommand, Repair,
     RelinkNotable, PurgeDanglingOccupants, RepairExplicitGroupSizes,
     PruneExpiredReservations, PruneEndedAssignments
<1>5. RelinksNameIds' <=> RelinksNameIds
  BY <1>4 DEF RelinksNameIds
<1>. QED
  BY <1>1, <1>2, <1>3, <1>5

(***************************************************************************)
(* What a command or a repair leaves passes the validation of the next     *)
(* read (getDomainPeopleData), as long as relinks name somebody who is     *)
(* there or at least an id in the format of a notable's                    *)
(* (src/people/commands/repair-commands.ts:102 looks up neither).          *)
(***************************************************************************)
THEOREM DataStayReadable == Spec => [](TypeOK /\ (RelinksNameIds => ReadBack))
<1>. DEFINE IInv == /\ TypeOK /\ Good(people)
                    /\ RelinksNameIds => OpaqueIds(people)
<1>1. Init => IInv
  BY OpeningIsGood
<1>2. IInv /\ [Next]_vars => IInv'
  BY NextReadable
<1>3. IInv => TypeOK /\ (RelinksNameIds => ReadBack)
  BY GoodIsReadable DEF ReadBack
<1>. QED
  BY <1>1, <1>2, <1>3, PTL DEF Spec

(***************************************************************************)
(* Whatever the inputs, the one step from data that a read accepts to data *)
(* on which it throws is a relink to an id no notable can have.            *)
(***************************************************************************)
THEOREM OnlyStrayRelinksGarble ==
  Spec => [][ReadBack /\ ~ReadBack' => StrayRelink]_vars
<1>. DEFINE IInv == TypeOK /\ Good(people)
            Garbles == ReadBack /\ ~ReadBack' => StrayRelink
<1>1. Init => IInv
  BY OpeningIsGood
<1>2. IInv /\ [Next]_vars => IInv'
  BY NextReadable
<1>3. IInv /\ [Next]_vars => [Garbles]_vars
  BY NextReadable, GoodIsReadable DEF ReadBack, Readable
<1>. HIDE DEF Garbles
<1>4. Spec => [][Garbles]_vars
  BY <1>1, <1>2, <1>3, PTL DEF Spec
<1>. QED
  BY <1>4 DEF Garbles

\* A notable is relinked to one who is there.
AlwaysCareful == \A s \in Scenes : s.careful

(***************************************************************************)
(* As long as notables are relinked to people who are there, no command    *)
(* leaves a role filled by somebody who is gone, or data its successors    *)
(* cannot read (src/people/commands).                                      *)
(***************************************************************************)
THEOREM PeopleConsistent ==
  ASSUME AlwaysCareful
  PROVE  Spec => []Consistent
<1>. DEFINE IInv == TypeOK /\ Good(people) /\ OpaqueIds(people) /\ Filled(people)
<1>1. Init => IInv
  BY OpeningIsGood
<1>2. IInv /\ [Next]_vars => IInv'
  <2>. SUFFICES ASSUME IInv, [Next]_vars PROVE IInv'
    OBVIOUS
  <2>1. scene.careful
    BY DEF AlwaysCareful, TypeOK
  <2>2. RelinksNameIds
    BY <2>1 DEF RelinksNameIds
  <2>. QED
    BY <2>1, <2>2, NextReadable, NextStays DEF Stays
<1>3. IInv => Consistent
  BY GoodIsReadable DEF Consistent, ReadBack, RolesFilledByPeople
<1>. QED
  BY <1>1, <1>2, <1>3, PTL DEF Spec

-----------------------------------------------------------------------------

\* Induction over the subsets of a finite set, without an operator parameter:
\* C holds what is shown, and has every set whose proper subsets it has.
LEMMA SubsetInduction ==
  ASSUME NEW D, IsFiniteSet(D), NEW C \in SUBSET (SUBSET D),
         \A T \in SUBSET D : (\A U \in SUBSET T : U # T => U \in C) => T \in C
  PROVE  C = SUBSET D
<1>. DEFINE B == (SUBSET D) \ C
<1>1. SUFFICES ASSUME B # {} PROVE FALSE
  OBVIOUS
<1>2. IsWellFoundedOn(StrictSubsetOrdering(D), SUBSET D)
  BY FS_StrictSubsetOrderingWellFounded, FS_FiniteSubsetsOfFinite
<1>3. B \subseteq SUBSET D
  OBVIOUS
<1>. HIDE DEF B
<1>4. PICK T \in B : \A U \in B : ~ (<<U, T>> \in StrictSubsetOrdering(D))
  BY <1>1, <1>2, <1>3, WFMin
<1>5. \A U \in SUBSET T : U # T => U \in C
  BY <1>4 DEF StrictSubsetOrdering, B
<1>. QED
  BY <1>4, <1>5 DEF B

\* The element a fold takes first.
Pick(s) == CHOOSE x \in s : TRUE

\* The sum of f over s, given it over the rest of s.
SumStep(g, f, s) == IF s = {} THEN 0 ELSE f[Pick(s)] + g[s \ {Pick(s)}]

\* What SumFunctionOnSet chooses: it adds up f on every subset of T.
AddsUp(g, f, T) == g = [s \in SUBSET T |-> SumStep(g, f, s)]

\* The sum of f over T.
Total(f, T) == (CHOOSE g : AddsUp(g, f, T))[T]

\* The sum of the library, with its choice of a function made visible.
LEMMA SumIsTotal ==
  ASSUME NEW f, NEW T
  PROVE  SumFunctionOnSet(f, T) = Total(f, T)
  BY DEF SumFunctionOnSet, FoldFunctionOnSet, MapThenFoldSet, AddsUp, SumStep, Pick, Total

\* Any two functions that add up f agree: the choice does not matter.
LEMMA AddsUpOnce ==
  ASSUME NEW f, NEW T, NEW U, NEW g, NEW h, AddsUp(g, f, T), AddsUp(h, f, U),
         NEW S, IsFiniteSet(S), S \subseteq T, S \subseteq U
  PROVE  g[S] = h[S]
<1>. DEFINE C == {s \in SUBSET S : g[s] = h[s]}
<1>1. ASSUME NEW s \in SUBSET S, \A u \in SUBSET s : u # s => u \in C
      PROVE  s \in C
  <2>1. g[s] = SumStep(g, f, s) /\ h[s] = SumStep(h, f, s)
    BY DEF AddsUp
  <2>2. CASE s = {}
    BY <2>1, <2>2 DEF SumStep
  <2>3. CASE s # {}
    <3>1. Pick(s) \in s
      BY <2>3 DEF Pick
    <3>2. s \ {Pick(s)} \in C
      BY <1>1, <3>1
    <3>. QED
      BY <2>1, <2>3, <3>2 DEF SumStep
  <2>. QED
    BY <2>2, <2>3
<1>2. C \in SUBSET SUBSET S
  OBVIOUS
<1>. HIDE DEF C
<1>3. C = SUBSET S
  BY <1>1, <1>2, SubsetInduction
<1>. QED
  BY <1>3 DEF C

\* There is one.
LEMMA TotalAddsUp ==
  ASSUME NEW f, NEW T, IsFiniteSet(T)
  PROVE  \E g : AddsUp(g, f, T)
<1>. DEFINE C == {s \in SUBSET T : \E g : AddsUp(g, f, s)}
<1>1. ASSUME NEW s \in SUBSET T, \A u \in SUBSET s : u # s => u \in C
      PROVE  s \in C
  <2>. DEFINE A == [u \in SUBSET s |-> Total(f, u)]
              g == [u \in SUBSET s |-> SumStep(A, f, u)]
  <2>1. ASSUME NEW u \in SUBSET s, u # s
        PROVE  A[u] = g[u]
    <3>. DEFINE gu == CHOOSE h : AddsUp(h, f, u)
    <3>1. AddsUp(gu, f, u)
      BY <1>1, <2>1
    <3>2. A[u] = gu[u]
      BY DEF Total
    <3>3. gu[u] = SumStep(gu, f, u)
      BY <3>1 DEF AddsUp
    <3>4. CASE u = {}
      BY <3>2, <3>3, <3>4 DEF SumStep
    <3>5. CASE u # {}
      <4>. DEFINE v == u \ {Pick(u)}
                  gv == CHOOSE h : AddsUp(h, f, v)
      <4>1. Pick(u) \in u
        BY <3>5 DEF Pick
      <4>2. v \in SUBSET s /\ v # s /\ v \subseteq u
        BY <4>1, <2>1
      <4>3. AddsUp(gv, f, v)
        BY <1>1, <4>2
      <4>4. IsFiniteSet(v)
        BY <4>2, FS_Subset
      <4>5. gu[v] = gv[v]
        <5>. HIDE DEF gu, gv, v
        <5>. QED
          BY <3>1, <4>2, <4>3, <4>4, AddsUpOnce
      <4>6. A[v] = gv[v]
        BY <4>2 DEF Total
      <4>. QED
        BY <3>2, <3>3, <3>5, <4>5, <4>6 DEF SumStep
    <3>. QED
      BY <3>4, <3>5
  <2>2. \A u \in SUBSET s : SumStep(A, f, u) = SumStep(g, f, u)
    <3>. SUFFICES ASSUME NEW u \in SUBSET s PROVE SumStep(A, f, u) = SumStep(g, f, u)
      OBVIOUS
    <3>1. CASE u = {}
      BY <3>1 DEF SumStep
    <3>2. CASE u # {}
      <4>1. u \ {Pick(u)} \in SUBSET s /\ u \ {Pick(u)} # s
        BY <3>2 DEF Pick
      <4>2. A[u \ {Pick(u)}] = g[u \ {Pick(u)}]
        BY <4>1, <2>1
      <4>. HIDE DEF A, g
      <4>. QED
        BY <4>2 DEF SumStep
    <3>. QED
      BY <3>1, <3>2
  <2>3. AddsUp(g, f, s)
    BY <2>2 DEF AddsUp
  <2>. QED
    BY <2>3
<1>2. C \in SUBSET SUBSET T
  OBVIOUS
<1>. HIDE DEF C
<1>3. C = SUBSET T
  BY <1>1, <1>2, SubsetInduction
<1>. QED
  BY <1>3 DEF C

\* A sum is its picked element and the sum of the others.
LEMMA TotalStep ==
  ASSUME NEW f, NEW T, IsFiniteSet(T)
  PROVE  Total(f, T) = IF T = {} THEN 0 ELSE f[Pick(T)] + Total(f, T \ {Pick(T)})
<1>. DEFINE g == CHOOSE h : AddsUp(h, f, T)
            v == T \ {Pick(T)}
            gv == CHOOSE h : AddsUp(h, f, v)
<1>1. AddsUp(g, f, T) /\ AddsUp(gv, f, v)
  BY TotalAddsUp, FS_Subset
<1>2. g[T] = SumStep(g, f, T)
  BY <1>1 DEF AddsUp
<1>3. g[v] = gv[v]
  <2>1. IsFiniteSet(v)
    BY FS_Subset
  <2>. HIDE DEF g, gv
  <2>. QED
    BY <1>1, <2>1, AddsUpOnce
<1>. QED
  BY <1>2, <1>3 DEF Total, SumStep

\* Sums of integers are integers.
LEMMA TotalType ==
  ASSUME NEW f, NEW T, IsFiniteSet(T), \A x \in T : f[x] \in Int
  PROVE  Total(f, T) \in Int
<1>. DEFINE C == {s \in SUBSET T : Total(f, s) \in Int}
<1>1. ASSUME NEW s \in SUBSET T, \A u \in SUBSET s : u # s => u \in C
      PROVE  s \in C
  <2>1. IsFiniteSet(s)
    BY FS_Subset
  <2>2. Total(f, s) = IF s = {} THEN 0 ELSE f[Pick(s)] + Total(f, s \ {Pick(s)})
    BY <2>1, TotalStep
  <2>3. CASE s # {}
    <3>1. Pick(s) \in s
      BY <2>3 DEF Pick
    <3>2. s \ {Pick(s)} \in C
      BY <1>1, <3>1
    <3>. QED
      BY <2>2, <2>3, <3>1, <3>2
  <2>. QED
    BY <2>2, <2>3
<1>2. C \in SUBSET SUBSET T
  OBVIOUS
<1>. HIDE DEF C
<1>3. C = SUBSET T
  BY <1>1, <1>2, SubsetInduction
<1>. QED
  BY <1>3 DEF C

\* Any element may be taken first.
LEMMA TotalWith ==
  ASSUME NEW f, NEW T, IsFiniteSet(T), \A x \in T : f[x] \in Int, NEW x \in T
  PROVE  Total(f, T) = f[x] + Total(f, T \ {x})
<1>. DEFINE C == {s \in SUBSET T : \A y \in s : Total(f, s) = f[y] + Total(f, s \ {y})}
<1>1. ASSUME NEW s \in SUBSET T, \A u \in SUBSET s : u # s => u \in C
      PROVE  s \in C
  <2>. SUFFICES ASSUME NEW y \in s
                PROVE  Total(f, s) = f[y] + Total(f, s \ {y})
    OBVIOUS
  <2>. DEFINE p == Pick(s)
  <2>1. p \in s
    BY DEF Pick
  <2>. HIDE DEF p
  <2>2. IsFiniteSet(s) /\ IsFiniteSet(s \ {p}) /\ IsFiniteSet(s \ {y}) /\ IsFiniteSet(s \ {p, y})
    BY FS_Subset
  <2>3. Total(f, s) = f[p] + Total(f, s \ {p})
    BY <2>2, TotalStep DEF p
  <2>4. CASE p # y
    <3>1. s \ {p} \in C /\ s \ {y} \in C
      BY <1>1, <2>1
    <3>2. Total(f, s \ {p}) = f[y] + Total(f, (s \ {p}) \ {y})
      BY <3>1, <2>4
    <3>3. Total(f, s \ {y}) = f[p] + Total(f, (s \ {y}) \ {p})
      BY <3>1, <2>1, <2>4
    <3>4. (s \ {p}) \ {y} = s \ {p, y} /\ (s \ {y}) \ {p} = s \ {p, y}
      OBVIOUS
    <3>5. Total(f, s \ {p, y}) \in Int /\ f[p] \in Int /\ f[y] \in Int
      BY <2>1, <2>2, TotalType
    <3>. QED
      BY <2>3, <3>2, <3>3, <3>4, <3>5, SMTT(20)
  <2>. QED
    BY <2>3, <2>4
<1>2. C \in SUBSET SUBSET T
  OBVIOUS
<1>. HIDE DEF C
<1>3. C = SUBSET T
  BY <1>1, <1>2, SubsetInduction
<1>4. T \in C
  BY <1>3
<1>. QED
  BY <1>4 DEF C

\* A sum depends on the values that it adds only.
LEMMA TotalSame ==
  ASSUME NEW f, NEW g, NEW T, IsFiniteSet(T), \A x \in T : f[x] = g[x]
  PROVE  Total(f, T) = Total(g, T)
<1>. DEFINE C == {s \in SUBSET T : Total(f, s) = Total(g, s)}
<1>1. ASSUME NEW s \in SUBSET T, \A u \in SUBSET s : u # s => u \in C
      PROVE  s \in C
  <2>1. IsFiniteSet(s)
    BY FS_Subset
  <2>2. /\ Total(f, s) = IF s = {} THEN 0 ELSE f[Pick(s)] + Total(f, s \ {Pick(s)})
        /\ Total(g, s) = IF s = {} THEN 0 ELSE g[Pick(s)] + Total(g, s \ {Pick(s)})
    BY <2>1, TotalStep
  <2>3. CASE s # {}
    <3>1. Pick(s) \in s
      BY <2>3 DEF Pick
    <3>2. s \ {Pick(s)} \in C
      BY <1>1, <3>1
    <3>. QED
      BY <2>2, <2>3, <3>1, <3>2
  <2>. QED
    BY <2>2, <2>3
<1>2. C \in SUBSET SUBSET T
  OBVIOUS
<1>. HIDE DEF C
<1>3. C = SUBSET T
  BY <1>1, <1>2, SubsetInduction
<1>4. T \in C
  BY <1>3
<1>. QED
  BY <1>4 DEF C

\* SumFunction in terms of Total.
LEMMA SumIs ==
  ASSUME NEW S, NEW f \in [S -> Int], IsFiniteSet(S)
  PROVE  SumFunction(f) = Total(f, S) /\ SumFunction(f) \in Int
<1>1. SumFunction(f) = Total(f, S)
  BY SumIsTotal DEF SumFunction
<1>. QED
  BY <1>1, TotalType

\* What a function makes of a finite set is finite, and has not more members.
LEMMA ImageFinite ==
  ASSUME NEW S, IsFiniteSet(S), NEW g
  PROVE  /\ IsFiniteSet({g[x] : x \in S})
         /\ Cardinality({g[x] : x \in S}) <= Cardinality(S)
<1>. DEFINE h == [x \in S |-> g[x]]
            T == {g[x] : x \in S}
<1>1. h \in Surjection(S, T)
  BY DEF Surjection
<1>. HIDE DEF h, T
<1>. QED
  BY <1>1, FS_Surjection DEF T

\* A sum over a set is that over any set it is mapped onto one to one.
LEMMA TotalImage ==
  ASSUME NEW S, IsFiniteSet(S), NEW f, \A x \in S : f[x] \in Int,
         NEW g, NEW h, \A x, y \in S : g[x] = g[y] => x = y,
         \A x \in S : h[g[x]] = f[x]
  PROVE  Total(f, S) = Total(h, {g[x] : x \in S})
<1>. DEFINE Of(s) == {g[x] : x \in s}
            C == {s \in SUBSET S : Total(f, s) = Total(h, Of(s))}
<1>1. ASSUME NEW s \in SUBSET S, \A u \in SUBSET s : u # s => u \in C
      PROVE  s \in C
  <2>1. IsFiniteSet(s) /\ IsFiniteSet(Of(s))
    <3>1. IsFiniteSet(s)
      BY FS_Subset
    <3>. QED
      BY <3>1, ImageFinite
  <2>2. CASE s = {}
    <3>1. Total(f, s) = 0 /\ Of(s) = {}
      BY <2>1, <2>2, TotalStep
    <3>2. Total(h, {}) = 0
      BY TotalStep, FS_EmptySet
    <3>. QED
      BY <3>1, <3>2
  <2>3. CASE s # {}
    <3>. DEFINE p == Pick(s)
    <3>1. p \in s
      BY <2>3 DEF Pick
    <3>2. Total(f, s) = f[p] + Total(f, s \ {p})
      BY <2>1, <2>3, TotalStep
    <3>. HIDE DEF p
    <3>3. s \ {p} \in C
      BY <1>1, <3>1
    <3>4. Of(s) \ {g[p]} = Of(s \ {p}) /\ g[p] \in Of(s)
      BY <3>1
    <3>5. \A y \in Of(s) : h[y] \in Int
      OBVIOUS
    <3>. HIDE DEF Of
    <3>6. Total(h, Of(s)) = h[g[p]] + Total(h, Of(s) \ {g[p]})
      BY <2>1, <3>4, <3>5, TotalWith
    <3>. QED
      BY <3>1, <3>2, <3>3, <3>4, <3>6
  <2>. QED
    BY <2>2, <2>3
<1>2. C \in SUBSET SUBSET S
  OBVIOUS
<1>. HIDE DEF C
<1>3. C = SUBSET S
  BY <1>1, <1>2, SubsetInduction
<1>. QED
  BY <1>3 DEF C

\* What is added up is at least as much as there are of it.
LEMMA TotalCounts ==
  ASSUME NEW T, IsFiniteSet(T), NEW f, \A x \in T : f[x] \in Nat \ {0}
  PROVE  Total(f, T) \in Nat /\ Cardinality(T) <= Total(f, T)
<1>. DEFINE C == {s \in SUBSET T : Total(f, s) \in Nat /\ Cardinality(s) <= Total(f, s)}
<1>1. ASSUME NEW s \in SUBSET T, \A u \in SUBSET s : u # s => u \in C
      PROVE  s \in C
  <2>1. IsFiniteSet(s)
    BY FS_Subset
  <2>2. CASE s = {}
    BY <2>1, <2>2, TotalStep, FS_EmptySet
  <2>3. CASE s # {}
    <3>. DEFINE p == Pick(s)
    <3>1. p \in s
      BY <2>3 DEF Pick
    <3>2. Total(f, s) = f[p] + Total(f, s \ {p})
      BY <2>1, <2>3, TotalStep
    <3>. HIDE DEF p
    <3>3. s \ {p} \in C
      BY <1>1, <3>1
    <3>4. Cardinality(s \ {p}) = Cardinality(s) - 1 /\ Cardinality(s) \in Nat
      BY <2>1, <3>1, FS_RemoveElement, FS_CardinalityType
    <3>5. f[p] \in Nat /\ f[p] # 0
      BY <3>1
    <3>6. Total(f, s \ {p}) \in Nat /\ Cardinality(s \ {p}) <= Total(f, s \ {p})
      BY <3>3
    <3>. QED
      BY <3>2, <3>4, <3>5, <3>6
  <2>. QED
    BY <2>2, <2>3
<1>2. C \in SUBSET SUBSET T
  OBVIOUS
<1>. HIDE DEF C
<1>3. C = SUBSET T
  BY <1>1, <1>2, SubsetInduction
<1>. QED
  BY <1>3 DEF C

\* A sum is that over a part and that over the rest.
LEMMA TotalParts ==
  ASSUME NEW T, IsFiniteSet(T), NEW f, \A x \in T : f[x] \in Int, NEW U \in SUBSET T
  PROVE  Total(f, T) = Total(f, U) + Total(f, T \ U)
<1>. DEFINE V == T \ U
            C == {s \in SUBSET V : Total(f, U \cup s) = Total(f, U) + Total(f, s)}
<1>0. IsFiniteSet(U) /\ Total(f, U) \in Int /\ IsFiniteSet(V)
  BY FS_Subset, TotalType
<1>1. ASSUME NEW s \in SUBSET V, \A u \in SUBSET s : u # s => u \in C
      PROVE  s \in C
  <2>1. IsFiniteSet(s) /\ IsFiniteSet(U \cup s) /\ U \cup s \subseteq T
    BY FS_Subset
  <2>2. CASE s = {}
    <3>1. Total(f, s) = 0 /\ U \cup s = U
      BY <2>1, <2>2, TotalStep
    <3>. QED
      BY <1>0, <3>1
  <2>3. CASE s # {}
    <3>. DEFINE p == Pick(s)
    <3>1. p \in s
      BY <2>3 DEF Pick
    <3>2. Total(f, s) = f[p] + Total(f, s \ {p})
      BY <2>1, <2>3, TotalStep
    <3>. HIDE DEF p
    <3>3. s \ {p} \in C
      BY <1>1, <3>1
    <3>4. (U \cup s) \ {p} = U \cup (s \ {p}) /\ p \in U \cup s
      BY <3>1
    <3>5. Total(f, U \cup s) = f[p] + Total(f, (U \cup s) \ {p})
      <4>1. \A x \in U \cup s : f[x] \in Int
        BY <2>1
      <4>. QED
        BY <2>1, <3>4, <4>1, TotalWith
    <3>6. Total(f, U \cup (s \ {p})) = Total(f, U) + Total(f, s \ {p})
      BY <3>3
    <3>7. Total(f, s \ {p}) \in Int /\ f[p] \in Int
      <4>1. IsFiniteSet(s \ {p}) /\ \A x \in s \ {p} : f[x] \in Int
        BY <2>1, FS_Subset
      <4>. QED
        BY <3>1, <4>1, TotalType
    <3>8. Total(f, U \cup s) = f[p] + (Total(f, U) + Total(f, s \ {p}))
      BY <3>4, <3>5, <3>6
    <3>. QED
      BY <1>0, <3>2, <3>7, <3>8, SMT
  <2>. QED
    BY <2>2, <2>3
<1>2. C \in SUBSET SUBSET V
  OBVIOUS
<1>. HIDE DEF C
<1>3. C = SUBSET V
  BY <1>0, <1>1, <1>2, SubsetInduction
<1>4. U \cup V = T
  OBVIOUS
<1>. HIDE DEF V
<1>5. V \in C
  BY <1>3
<1>. QED
  BY <1>4, <1>5 DEF C, V

-----------------------------------------------------------------------------

\* A commitment counts at n.
CountsAt(c, n) == c.active /\ c.expires >= n

\* The positions of the commitments that count, for a trade; and of a source
\* for a trade, at an instant.
OfTrade(cs, t, n) == {i \in DOMAIN cs : CountsAt(cs[i], n) /\ cs[i].trade = t}

OfSource(cs, s, t, at, n) ==
  {i \in OfTrade(cs, t, n) :
     cs[i].source = s /\ cs[i].starts <= at /\ at < cs[i].ends}

\* Of the notables N, whom a trade can count on.
Lenders(N, cs, t, n) ==
  {x \in N : LET of == {i \in DOMAIN cs : CountsAt(cs[i], n) /\ cs[i].source = x}
             IN of # {} /\ cs[Min(of)].trade = t}

\* A notable works in one trade.
OneTrade(N, cs, n) ==
  \A i, j \in DOMAIN cs :
    (/\ CountsAt(cs[i], n) /\ CountsAt(cs[j], n)
     /\ cs[i].source \in N /\ cs[i].source = cs[j].source)
       => cs[i].trade = cs[j].trade

\* The same commitment, but that it may have ended.
Same(e, c) ==
  /\ e.source = c.source /\ e.trade = c.trade /\ e.amount = c.amount
  /\ e.starts = c.starts /\ e.ends = c.ends /\ e.expires = c.expires
  /\ e.active => c.active

\* Of the commitments cs some are left, in whatever order.
Fewer(cs, ds) ==
  \E g \in [DOMAIN ds -> DOMAIN cs] :
    /\ \A i, j \in DOMAIN ds : g[i] = g[j] => i = j
    /\ \A j \in DOMAIN ds : Same(ds[j], cs[g[j]])

\* There is one more than cs, at the position k.
OneMore(cs, ds, k) ==
  \E g \in [DOMAIN cs -> DOMAIN ds \ {k}] :
    /\ \A i, j \in DOMAIN cs : g[i] = g[j] => i = j
    /\ \A j \in DOMAIN ds \ {k} : \E i \in DOMAIN cs : g[i] = j
    /\ \A i \in DOMAIN cs : ds[g[i]] = cs[i]

\* What commitments ask for is a sum of positive numbers.
LEMMA AmountIs ==
  ASSUME NEW cs \in Seq(Commitment), NEW I \in SUBSET DOMAIN cs
  PROVE  /\ IsFiniteSet(I)
         /\ \A i \in I : [j \in I |-> cs[j].amount][i] \in Nat \ {0}
         /\ AmountOf(cs, I) = Total([i \in I |-> cs[i].amount], I)
         /\ AmountOf(cs, I) \in Nat
<1>1. IsFiniteSet(DOMAIN cs)
  BY LenProperties, Initial
<1>2. IsFiniteSet(I)
  BY <1>1, FS_Subset
<1>3. \A i \in I : cs[i] \in Commitment
  BY ElementOfSeq, LenProperties
<1>. DEFINE f == [i \in I |-> cs[i].amount]
<1>4. f \in [I -> Nat \ {0}]
  BY <1>3 DEF Commitment
<1>5. AmountOf(cs, I) = SumFunction(f)
  BY DEF AmountOf
<1>6. \A i \in I : f[i] \in Nat \ {0}
  BY <1>4
<1>7. f \in [I -> Int]
  BY <1>4
<1>. HIDE DEF f
<1>8. SumFunction(f) = Total(f, I) /\ Total(f, I) \in Nat
  BY <1>2, <1>6, <1>7, SumIs, TotalCounts
<1>. QED
  BY <1>2, <1>5, <1>6, <1>8 DEF f

\* The commitments of ds at J are, by g, those of cs at positions in I.
Embeds(ds, J, cs, I, g) ==
  /\ cs \in Seq(Commitment) /\ I \in SUBSET DOMAIN cs
  /\ ds \in Seq(Commitment) /\ J \in SUBSET DOMAIN ds
  /\ \A i, j \in J : g[i] = g[j] => i = j
  /\ \A j \in J : g[j] \in I /\ ds[j].amount = cs[g[j]].amount

\* Of the positions in I, those that are not g of one in J.
Others(I, g, J) == I \ {g[j] : j \in J}

\* What is asked for less leaves at least as much as there were commitments.
LEMMA AmountFewer ==
  ASSUME NEW cs, NEW I, NEW ds, NEW J, NEW g, Embeds(ds, J, cs, I, g)
  PROVE  /\ IsFiniteSet(Others(I, g, J)) /\ Cardinality(Others(I, g, J)) \in Nat
         /\ AmountOf(cs, I) \in Nat /\ AmountOf(ds, J) \in Nat
         /\ AmountOf(ds, J) + Cardinality(Others(I, g, J)) <= AmountOf(cs, I)
         /\ Others(I, g, J) = {} => AmountOf(ds, J) = AmountOf(cs, I)
<1>. DEFINE G == {g[j] : j \in J}
            K == Others(I, g, J)
            a == [i \in I |-> cs[i].amount]
            b == [j \in J |-> ds[j].amount]
<1>1. /\ IsFiniteSet(I) /\ \A i \in I : a[i] \in Nat \ {0}
      /\ AmountOf(cs, I) = Total(a, I) /\ AmountOf(cs, I) \in Nat
  BY AmountIs DEF Embeds
<1>2. /\ IsFiniteSet(J) /\ \A j \in J : b[j] \in Nat \ {0}
      /\ AmountOf(ds, J) = Total(b, J) /\ AmountOf(ds, J) \in Nat
  BY AmountIs DEF Embeds
<1>3. /\ \A j \in J : a[g[j]] = b[j]
      /\ \A i, j \in J : g[i] = g[j] => i = j
  BY DEF Embeds
<1>4. G \in SUBSET I /\ K = I \ G
  BY DEF Embeds, Others
<1>. HIDE DEF a, b
<1>5. Total(b, J) = Total(a, G)
  BY <1>2, <1>3, TotalImage
<1>. HIDE DEF G, K
<1>6. Total(a, I) = Total(a, G) + Total(a, K)
  BY <1>1, <1>4, TotalParts
<1>7. IsFiniteSet(K) /\ \A i \in K : a[i] \in Nat \ {0}
  BY <1>1, <1>4, FS_Subset
<1>8. Total(a, K) \in Nat /\ Cardinality(K) <= Total(a, K) /\ Cardinality(K) \in Nat
  BY <1>7, TotalCounts, FS_CardinalityType
<1>9. K = {} => Total(a, K) = 0
  BY <1>7, TotalStep
<1>10. AmountOf(ds, J) + Cardinality(K) <= AmountOf(cs, I)
  BY <1>1, <1>2, <1>5, <1>6, <1>8
<1>11. K = {} => AmountOf(ds, J) = AmountOf(cs, I)
  BY <1>1, <1>2, <1>5, <1>6, <1>9
<1>. QED
  BY <1>1, <1>2, <1>7, <1>8, <1>10, <1>11 DEF K

\* A finite set of numbers has a least one.
LEMMA LeastOf ==
  ASSUME NEW T \in SUBSET Int, IsFiniteSet(T), T # {}
  PROVE  \E m \in T : \A i \in T : m <= i
<1>. DEFINE C == {s \in SUBSET T : s # {} => \E m \in s : \A i \in s : m <= i}
<1>1. ASSUME NEW s \in SUBSET T, \A u \in SUBSET s : u # s => u \in C
      PROVE  s \in C
  <2>. SUFFICES ASSUME s # {} PROVE \E m \in s : \A i \in s : m <= i
    OBVIOUS
  <2>1. PICK p : p \in s
    OBVIOUS
  <2>2. s \ {p} \in C
    BY <1>1, <2>1
  <2>3. CASE s \ {p} = {}
    BY <2>1, <2>3
  <2>4. CASE s \ {p} # {}
    <3>1. PICK m \in s \ {p} : \A i \in s \ {p} : m <= i
      BY <2>2, <2>4
    <3>2. CASE m <= p
      BY <3>1, <3>2
    <3>3. CASE p <= m
      <4>1. \A i \in s : p <= i
        BY <2>1, <3>1, <3>3
      <4>. QED
        BY <2>1, <4>1
    <3>. QED
      BY <2>1, <3>1, <3>2, <3>3
  <2>. QED
    BY <2>3, <2>4
<1>2. C \in SUBSET SUBSET T
  OBVIOUS
<1>. HIDE DEF C
<1>3. C = SUBSET T
  BY <1>1, <1>2, SubsetInduction
<1>4. T \in C
  BY <1>3
<1>. QED
  BY <1>4 DEF C

\* A trade counts on the notables that work in it.
LEMMA LendersAre ==
  ASSUME NEW cs \in Seq(Commitment), NEW N, NEW n, OneTrade(N, cs, n), NEW t
  PROVE  Lenders(N, cs, t, n) = {x \in N : \E i \in OfTrade(cs, t, n) : cs[i].source = x}
<1>. SUFFICES ASSUME NEW x \in N
              PROVE  x \in Lenders(N, cs, t, n)
                       <=> \E i \in OfTrade(cs, t, n) : cs[i].source = x
  BY DEF Lenders
<1>. DEFINE of == {i \in DOMAIN cs : CountsAt(cs[i], n) /\ cs[i].source = x}
<1>1. of # {} => Min(of) \in of
  <2>1. IsFiniteSet(DOMAIN cs) /\ of \subseteq DOMAIN cs /\ of \subseteq Int
    BY LenProperties, Initial
  <2>. HIDE DEF of
  <2>. QED
    BY <2>1, LeastOf, FS_Subset DEF Min
<1>2. x \in Lenders(N, cs, t, n) <=> of # {} /\ cs[Min(of)].trade = t
  BY DEF Lenders
<1>3. CASE of = {}
  BY <1>2, <1>3 DEF OfTrade
<1>4. CASE of # {}
  <2>1. PICK m \in DOMAIN cs : m = Min(of) /\ CountsAt(cs[m], n) /\ cs[m].source = x
    BY <1>1, <1>4
  <2>2. \A i \in OfTrade(cs, t, n) :
          cs[i].source = x => cs[m].trade = t
    BY <2>1 DEF OneTrade, OfTrade
  <2>3. cs[m].trade = t => m \in OfTrade(cs, t, n)
    BY <2>1 DEF OfTrade
  <2>. HIDE DEF of
  <2>. QED
    BY <1>2, <1>4, <2>1, <2>2, <2>3
<1>. QED
  BY <1>3, <1>4

\* What is over of the commitments of a trade when some end, no fewer notables
\* lend to it than that.
LEMMA TradeFewer ==
  ASSUME NEW cs \in Seq(Commitment), NEW ds \in Seq(Commitment), Fewer(cs, ds),
         NEW n \in Int, NEW m \in Int, n <= m, NEW t,
         NEW N, IsFiniteSet(N), OneTrade(N, cs, n)
  PROVE  LET I == OfTrade(cs, t, n)
             J == OfTrade(ds, t, m)
             L == Lenders(N, cs, t, n)
             M == Lenders(N, ds, t, m)
         IN /\ AmountOf(cs, I) \in Nat /\ AmountOf(ds, J) \in Nat
            /\ Cardinality(L) \in Nat /\ Cardinality(M) \in Nat
            /\ AmountOf(ds, J) + Cardinality(L) <= AmountOf(cs, I) + Cardinality(M)
<1>. DEFINE I == OfTrade(cs, t, n)
            J == OfTrade(ds, t, m)
            L == Lenders(N, cs, t, n)
            M == Lenders(N, ds, t, m)
<1>1. PICK g \in [DOMAIN ds -> DOMAIN cs] :
        /\ \A i, j \in DOMAIN ds : g[i] = g[j] => i = j
        /\ \A j \in DOMAIN ds : Same(ds[j], cs[g[j]])
  BY DEF Fewer
<1>2. /\ \A i \in DOMAIN cs : cs[i] \in Commitment
      /\ \A j \in DOMAIN ds : ds[j] \in Commitment
  BY LenProperties, ElementOfSeq
<1>3. ASSUME NEW j \in DOMAIN ds, CountsAt(ds[j], m)
      PROVE  CountsAt(cs[g[j]], n)
  <2>1. ds[j].active /\ ds[j].expires >= m
    BY <1>3 DEF CountsAt
  <2>2. cs[g[j]].active /\ cs[g[j]].expires >= m /\ cs[g[j]].expires \in Int
    BY <1>1, <1>2, <2>1 DEF Same, Commitment
  <2>. QED
    BY <2>2 DEF CountsAt
<1>4. /\ I \in SUBSET DOMAIN cs /\ J \in SUBSET DOMAIN ds
      /\ \A j \in J : g[j] \in I /\ ds[j].amount = cs[g[j]].amount
      /\ \A j \in DOMAIN ds : /\ ds[j].source = cs[g[j]].source
                              /\ ds[j].trade = cs[g[j]].trade
  BY <1>1, <1>3 DEF OfTrade, Same
<1>5. OneTrade(N, ds, m)
  BY <1>1, <1>3, <1>4 DEF OneTrade
<1>6. /\ L = {x \in N : \E i \in I : cs[i].source = x}
      /\ M = {x \in N : \E j \in J : ds[j].source = x}
  BY <1>5, LendersAre
<1>. DEFINE K == Others(I, g, J)
            src == [i \in DOMAIN cs |-> cs[i].source]
<1>7. /\ IsFiniteSet(K) /\ Cardinality(K) \in Nat
      /\ AmountOf(cs, I) \in Nat /\ AmountOf(ds, J) \in Nat
      /\ AmountOf(ds, J) + Cardinality(K) <= AmountOf(cs, I)
  <2>1. Embeds(ds, J, cs, I, g)
    BY <1>1, <1>4 DEF Embeds
  <2>. HIDE DEF I, J
  <2>. QED
    BY <2>1, AmountFewer
<1>8. ASSUME NEW x \in L \ M
      PROVE  x \in {src[i] : i \in K}
  <2>1. PICK i \in I : cs[i].source = x
    BY <1>6
  <2>2. x \in N /\ \A j \in J : ds[j].source # x
    BY <1>6
  <2>3. i \notin {g[j] : j \in J}
    BY <1>4, <2>1, <2>2
  <2>. QED
    BY <1>4, <2>1, <2>3 DEF Others
<1>. HIDE DEF I, J, L, M, K
<1>9. IsFiniteSet(L) /\ IsFiniteSet(M) /\ IsFiniteSet(L \ M)
  <2>1. L \subseteq N /\ M \subseteq N /\ L \ M \subseteq N
    BY <1>6
  <2>. QED
    BY <2>1, FS_Subset
<1>10. Cardinality(L \ M) <= Cardinality(K)
  <2>1. /\ IsFiniteSet({src[i] : i \in K})
        /\ Cardinality({src[i] : i \in K}) <= Cardinality(K)
    <3>. HIDE DEF src
    <3>. QED
      BY <1>7, ImageFinite
  <2>2. L \ M \subseteq {src[i] : i \in K}
    BY <1>8
  <2>. HIDE DEF src
  <2>3. Cardinality(L \ M) <= Cardinality({src[i] : i \in K})
    BY <2>1, <2>2, FS_Subset
  <2>4. /\ Cardinality(L \ M) \in Nat /\ Cardinality(K) \in Nat
        /\ Cardinality({src[i] : i \in K}) \in Nat
    BY <1>7, <1>9, <2>1, FS_CardinalityType
  <2>. QED
    BY <2>1, <2>3, <2>4
<1>11. Cardinality(L) <= Cardinality(M) + Cardinality(L \ M)
  <2>1. /\ Cardinality(L \ M) = Cardinality(L) - Cardinality(L \cap M)
        /\ IsFiniteSet(L \cap M)
    BY <1>9, FS_Difference, FS_Intersection
  <2>2. Cardinality(L \cap M) <= Cardinality(M)
    BY <1>9, FS_Subset
  <2>3. /\ Cardinality(L) \in Nat /\ Cardinality(M) \in Nat
        /\ Cardinality(L \cap M) \in Nat
    BY <1>9, <2>1, FS_CardinalityType
  <2>. QED
    BY <2>1, <2>2, <2>3
<1>12. /\ Cardinality(L) \in Nat /\ Cardinality(M) \in Nat
       /\ Cardinality(L \ M) \in Nat /\ Cardinality(K) \in Nat
  BY <1>7, <1>9, FS_CardinalityType
<1>13. AmountOf(cs, I) \in Nat /\ AmountOf(ds, J) \in Nat
  BY <1>4, AmountIs
<1>14. AmountOf(ds, J) + Cardinality(L) <= AmountOf(cs, I) + Cardinality(M)
  BY <1>7, <1>10, <1>11, <1>12, <1>13
<1>. QED
  BY <1>12, <1>13, <1>14 DEF I, J, L, M

\* When some of the commitments of a source end, no more is asked of it.
LEMMA SourceFewer ==
  ASSUME NEW cs \in Seq(Commitment), NEW ds \in Seq(Commitment), Fewer(cs, ds),
         NEW n \in Int, NEW m \in Int, n <= m, NEW t, NEW s, NEW at
  PROVE  LET I == OfSource(cs, s, t, at, n)
             J == OfSource(ds, s, t, at, m)
         IN /\ AmountOf(cs, I) \in Nat /\ AmountOf(ds, J) \in Nat
            /\ AmountOf(ds, J) <= AmountOf(cs, I)
<1>. DEFINE I == OfSource(cs, s, t, at, n)
            J == OfSource(ds, s, t, at, m)
<1>1. PICK g \in [DOMAIN ds -> DOMAIN cs] :
        /\ \A i, j \in DOMAIN ds : g[i] = g[j] => i = j
        /\ \A j \in DOMAIN ds : Same(ds[j], cs[g[j]])
  BY DEF Fewer
<1>2. /\ \A i \in DOMAIN cs : cs[i] \in Commitment
      /\ \A j \in DOMAIN ds : ds[j] \in Commitment
  BY LenProperties, ElementOfSeq
<1>3. ASSUME NEW j \in DOMAIN ds, CountsAt(ds[j], m)
      PROVE  CountsAt(cs[g[j]], n)
  <2>1. ds[j].active /\ ds[j].expires >= m
    BY <1>3 DEF CountsAt
  <2>2. cs[g[j]].active /\ cs[g[j]].expires >= m /\ cs[g[j]].expires \in Int
    BY <1>1, <1>2, <2>1 DEF Same, Commitment
  <2>. QED
    BY <2>2 DEF CountsAt
<1>4. /\ I \in SUBSET DOMAIN cs /\ J \in SUBSET DOMAIN ds
      /\ \A j \in J : g[j] \in I /\ ds[j].amount = cs[g[j]].amount
  BY <1>1, <1>3 DEF OfSource, OfTrade, Same
<1>5. Embeds(ds, J, cs, I, g)
  BY <1>1, <1>4 DEF Embeds
<1>. HIDE DEF I, J
<1>. DEFINE K == Others(I, g, J)
<1>6. /\ Cardinality(K) \in Nat
      /\ AmountOf(cs, I) \in Nat /\ AmountOf(ds, J) \in Nat
      /\ AmountOf(ds, J) + Cardinality(K) <= AmountOf(cs, I)
  BY <1>5, AmountFewer
<1>. HIDE DEF K
<1>7. AmountOf(ds, J) <= AmountOf(cs, I)
  BY <1>6
<1>. QED
  BY <1>6, <1>7 DEF I, J

\* One more commitment, that does not count for a trade, takes nothing from it.
LEMMA TradeMore ==
  ASSUME NEW cs \in Seq(Commitment), NEW ds \in Seq(Commitment), NEW k,
         OneMore(cs, ds, k), NEW n, NEW t, k \notin OfTrade(ds, t, n),
         NEW N, IsFiniteSet(N), OneTrade(N, cs, n), OneTrade(N, ds, n)
  PROVE  LET I == OfTrade(cs, t, n)
             J == OfTrade(ds, t, n)
             L == Lenders(N, cs, t, n)
             M == Lenders(N, ds, t, n)
         IN /\ AmountOf(cs, I) \in Nat /\ AmountOf(ds, J) \in Nat
            /\ Cardinality(L) \in Nat /\ Cardinality(M) \in Nat
            /\ AmountOf(ds, J) + Cardinality(L) <= AmountOf(cs, I) + Cardinality(M)
<1>. DEFINE I == OfTrade(cs, t, n)
            J == OfTrade(ds, t, n)
            L == Lenders(N, cs, t, n)
            M == Lenders(N, ds, t, n)
<1>1. PICK g \in [DOMAIN cs -> DOMAIN ds \ {k}] :
        /\ \A i, j \in DOMAIN cs : g[i] = g[j] => i = j
        /\ \A j \in DOMAIN ds \ {k} : \E i \in DOMAIN cs : g[i] = j
        /\ \A i \in DOMAIN cs : ds[g[i]] = cs[i]
  BY DEF OneMore
<1>2. /\ I \in SUBSET DOMAIN cs /\ J \in SUBSET DOMAIN ds
      /\ \A i \in I : g[i] \in J /\ cs[i].amount = ds[g[i]].amount
  BY <1>1 DEF OfTrade
<1>3. ASSUME NEW j \in J PROVE j \in {g[i] : i \in I}
  <2>1. PICK i \in DOMAIN cs : g[i] = j
    BY <1>1 DEF OfTrade
  <2>2. i \in I
    BY <1>1, <2>1 DEF OfTrade
  <2>. QED
    BY <2>1, <2>2
<1>4. /\ L = {x \in N : \E i \in I : cs[i].source = x}
      /\ M = {x \in N : \E j \in J : ds[j].source = x}
  BY LendersAre
<1>5. L \subseteq M /\ M \subseteq N
  BY <1>1, <1>2, <1>4
<1>6. J \ {g[i] : i \in I} = {}
  BY <1>3
<1>. HIDE DEF I, J, L, M
<1>7. AmountOf(cs, I) = AmountOf(ds, J)
  <2>1. Embeds(cs, I, ds, J, g)
    BY <1>1, <1>2 DEF Embeds
  <2>2. Others(J, g, I) = {}
    BY <1>6 DEF Others
  <2>. QED
    BY <2>1, <2>2, AmountFewer
<1>8. AmountOf(cs, I) \in Nat /\ AmountOf(ds, J) \in Nat
  BY <1>2, AmountIs
<1>9. IsFiniteSet(M) /\ IsFiniteSet(L) /\ Cardinality(L) <= Cardinality(M)
  BY <1>5, FS_Subset
<1>10. Cardinality(L) \in Nat /\ Cardinality(M) \in Nat
  BY <1>9, FS_CardinalityType
<1>11. AmountOf(ds, J) + Cardinality(L) <= AmountOf(cs, I) + Cardinality(M)
  BY <1>7, <1>8, <1>9, <1>10
<1>. QED
  BY <1>8, <1>10, <1>11 DEF I, J, L, M

\* There is one more than cs, and X has all of them a source has at an instant.
Adds(cs, ds, k, X, s, t, at, n) ==
  /\ cs \in Seq(Commitment) /\ ds \in Seq(Commitment)
  /\ k \in DOMAIN ds /\ OneMore(cs, ds, k)
  /\ X \in SUBSET DOMAIN cs /\ OfSource(cs, s, t, at, n) \subseteq X

\* One more commitment asks of its source for no more than itself.
LEMMA SourceMore ==
  ASSUME NEW cs, NEW ds, NEW k, NEW X, NEW s, NEW t, NEW at, NEW n,
         Adds(cs, ds, k, X, s, t, at, n)
  PROVE  LET I == OfSource(cs, s, t, at, n)
             J == OfSource(ds, s, t, at, n)
         IN /\ AmountOf(cs, I) \in Nat /\ AmountOf(ds, J) \in Nat
            /\ AmountOf(cs, X) \in Nat
            /\ k \notin J => AmountOf(ds, J) = AmountOf(cs, I)
            /\ AmountOf(ds, J) <= AmountOf(cs, X) + ds[k].amount
<1>. DEFINE I == OfSource(cs, s, t, at, n)
            J == OfSource(ds, s, t, at, n)
            H == J \ {k}
<1>0. /\ cs \in Seq(Commitment) /\ ds \in Seq(Commitment)
      /\ k \in DOMAIN ds /\ OneMore(cs, ds, k)
      /\ X \in SUBSET DOMAIN cs /\ I \subseteq X
  BY DEF Adds
<1>1. PICK g \in [DOMAIN cs -> DOMAIN ds \ {k}] :
        /\ \A i, j \in DOMAIN cs : g[i] = g[j] => i = j
        /\ \A j \in DOMAIN ds \ {k} : \E i \in DOMAIN cs : g[i] = j
        /\ \A i \in DOMAIN cs : ds[g[i]] = cs[i]
  BY <1>0 DEF OneMore
<1>2. /\ I \in SUBSET DOMAIN cs /\ J \in SUBSET DOMAIN ds /\ H \in SUBSET DOMAIN ds
      /\ \A i \in I : g[i] \in H /\ cs[i].amount = ds[g[i]].amount
  BY <1>1 DEF OfSource, OfTrade
<1>3. ASSUME NEW j \in H PROVE j \in {g[i] : i \in I}
  <2>1. PICK i \in DOMAIN cs : g[i] = j
    BY <1>1 DEF OfSource, OfTrade
  <2>2. i \in I
    BY <1>1, <2>1 DEF OfSource, OfTrade
  <2>. QED
    BY <2>1, <2>2
<1>4. H \ {g[i] : i \in I} = {}
  BY <1>3
<1>5. ds[k].amount \in Nat
  <2>1. ds[k] \in Commitment
    BY <1>0, LenProperties, ElementOfSeq
  <2>. QED
    BY <2>1 DEF Commitment
<1>6. k \notin J => H = J
  OBVIOUS
<1>. HIDE DEF I, H
<1>7. AmountOf(cs, I) = AmountOf(ds, H)
  <2>1. Embeds(cs, I, ds, H, g)
    BY <1>0, <1>1, <1>2 DEF Embeds
  <2>2. Others(H, g, I) = {}
    BY <1>4 DEF Others
  <2>. QED
    BY <2>1, <2>2, AmountFewer
<1>8. /\ AmountOf(cs, I) \in Nat /\ AmountOf(ds, J) \in Nat
      /\ AmountOf(cs, X) \in Nat /\ AmountOf(ds, H) \in Nat
  BY <1>0, <1>2, AmountIs
<1>9. AmountOf(cs, I) <= AmountOf(cs, X)
  <2>. DEFINE id == [i \in I |-> i]
  <2>1. Embeds(cs, I, cs, X, id)
    BY <1>0, <1>2 DEF Embeds
  <2>. HIDE DEF id
  <2>. DEFINE K == Others(X, id, I)
  <2>2. /\ Cardinality(K) \in Nat
        /\ AmountOf(cs, I) + Cardinality(K) <= AmountOf(cs, X)
    BY <2>1, AmountFewer
  <2>. HIDE DEF K
  <2>. QED
    BY <1>8, <2>2
<1>10. CASE k \in J
  <2>. DEFINE b == [j \in J |-> ds[j].amount]
              c == [j \in H |-> ds[j].amount]
  <2>1. /\ IsFiniteSet(J) /\ \A j \in J : b[j] \in Nat \ {0}
        /\ AmountOf(ds, J) = Total(b, J)
    BY <1>0, <1>2, AmountIs
  <2>2. IsFiniteSet(H) /\ AmountOf(ds, H) = Total(c, H)
    BY <1>0, <1>2, AmountIs
  <2>3. b[k] = ds[k].amount /\ \A j \in H : b[j] = c[j]
    BY <1>10 DEF H
  <2>. HIDE DEF b, c, J
  <2>4. Total(b, J) = b[k] + Total(b, J \ {k})
    BY <1>10, <2>1, TotalWith
  <2>5. Total(b, H) = Total(c, H)
    BY <2>2, <2>3, TotalSame
  <2>6. AmountOf(ds, J) = ds[k].amount + AmountOf(ds, H)
    BY <2>1, <2>2, <2>3, <2>4, <2>5 DEF H
  <2>7. AmountOf(ds, J) <= AmountOf(cs, X) + ds[k].amount
    BY <1>5, <1>7, <1>8, <1>9, <2>6
  <2>. QED
    BY <1>8, <1>10, <2>7 DEF I, J
<1>11. CASE k \notin J
  <2>1. AmountOf(ds, J) = AmountOf(cs, I)
    BY <1>6, <1>7, <1>11
  <2>. HIDE DEF J
  <2>2. AmountOf(ds, J) <= AmountOf(cs, X) + ds[k].amount
    BY <1>5, <1>8, <1>9, <2>1
  <2>. QED
    BY <1>8, <2>1, <2>2 DEF I, J
<1>. QED
  BY <1>10, <1>11

-----------------------------------------------------------------------------

\* All are left.
LEMMA FewerSelf ==
  ASSUME NEW cs
  PROVE  Fewer(cs, cs)
<1>. DEFINE g == [i \in DOMAIN cs |-> i]
<1>1. /\ g \in [DOMAIN cs -> DOMAIN cs]
      /\ \A i, j \in DOMAIN cs : g[i] = g[j] => i = j
      /\ \A j \in DOMAIN cs : Same(cs[j], cs[g[j]])
  BY DEF Same
<1>. QED
  BY <1>1 DEF Fewer

\* What is where in two sequences, one after the other.
LEMMA Joined ==
  ASSUME NEW a \in Seq(Commitment), NEW b \in Seq(Commitment)
  PROVE  /\ a \o b \in Seq(Commitment) /\ DOMAIN (a \o b) = 1 .. Len(a) + Len(b)
         /\ \A j \in 1 .. Len(a) : (a \o b)[j] = a[j]
         /\ \A j \in Len(a) + 1 .. Len(a) + Len(b) : (a \o b)[j] = b[j - Len(a)]
  BY ConcatProperties, LenProperties

\* Some are picked.
LEMMA FewerPicked ==
  ASSUME NEW cs \in Seq(Commitment), NEW I \in SUBSET (1 .. Len(cs))
  PROVE  Picked(cs, I) \in Seq(Commitment) /\ Fewer(cs, Picked(cs, I))
<1>. DEFINE ds == Picked(cs, I)
            n == Cardinality(I)
<1>1. DOMAIN cs = 1 .. Len(cs) /\ Len(cs) \in Nat
  BY LenProperties
<1>2. n \in 0 .. Len(cs) /\ ds \in Seq(Commitment) /\ Len(ds) = n
  BY PickedAt
<1>3. PICK at \in [1 .. n -> I] :
        /\ \A k \in 1 .. n : ds[k] = cs[at[k]]
        /\ \A k, l \in 1 .. n : at[k] = at[l] => k = l
  BY PickedAt, SMTT(30)
<1>. HIDE DEF ds
<1>4. DOMAIN ds = 1 .. n /\ n \in Nat
  BY <1>1, <1>2, LenProperties
<1>5. /\ at \in [DOMAIN ds -> DOMAIN cs]
      /\ \A i, j \in DOMAIN ds : at[i] = at[j] => i = j
  BY <1>1, <1>3, <1>4
<1>6. \A j \in DOMAIN ds : Same(ds[j], cs[at[j]])
  BY <1>3, <1>4 DEF Same
<1>7. Fewer(cs, ds)
  BY <1>5, <1>6 DEF Fewer
<1>. QED
  BY <1>2, <1>7 DEF ds

\* One is taken back.
LEMMA FewerRemoved ==
  ASSUME NEW cs \in Seq(Commitment), NEW i \in DOMAIN cs
  PROVE  RemoveAt(cs, i) \in Seq(Commitment) /\ Fewer(cs, RemoveAt(cs, i))
<1>. DEFINE a == SubSeq(cs, 1, i - 1)
            b == SubSeq(cs, i + 1, Len(cs))
            ds == a \o b
            g == [j \in DOMAIN ds |-> IF j < i THEN j ELSE j + 1]
<1>1. Len(cs) \in Nat /\ i \in 1 .. Len(cs) /\ DOMAIN cs = 1 .. Len(cs)
  BY LenProperties
<1>2. /\ a \in Seq(Commitment) /\ Len(a) = i - 1
      /\ \A j \in 1 .. i - 1 : a[j] = cs[j]
  BY <1>1
<1>3. /\ b \in Seq(Commitment) /\ Len(b) = Len(cs) - i
      /\ \A j \in 1 .. Len(cs) - i : b[j] = cs[i + j]
  BY <1>1, SMTT(30)
<1>4. RemoveAt(cs, i) = ds
  BY DEF RemoveAt
<1>. HIDE DEF a, b
<1>5. /\ ds \in Seq(Commitment) /\ DOMAIN ds = 1 .. Len(a) + Len(b)
      /\ \A j \in 1 .. Len(a) : ds[j] = a[j]
      /\ \A j \in Len(a) + 1 .. Len(a) + Len(b) : ds[j] = b[j - Len(a)]
  BY <1>2, <1>3, Joined
<1>. HIDE DEF ds
<1>6. DOMAIN ds = 1 .. Len(cs) - 1
  BY <1>1, <1>2, <1>3, <1>5
<1>7. ASSUME NEW j \in DOMAIN ds
      PROVE  g[j] \in DOMAIN cs /\ ds[j] = cs[g[j]]
  <2>1. CASE j < i
    <3>1. j \in 1 .. i - 1 /\ j \in 1 .. Len(a) /\ g[j] = j /\ j \in DOMAIN cs
      BY <1>1, <1>2, <1>6, <2>1
    <3>. QED
      BY <1>2, <1>5, <3>1
  <2>2. CASE j >= i
    <3>1. /\ j \in Len(a) + 1 .. Len(a) + Len(b) /\ g[j] = j + 1
          /\ j + 1 \in DOMAIN cs
      BY <1>1, <1>2, <1>3, <1>6, <2>2
    <3>2. j - Len(a) \in 1 .. Len(cs) - i /\ i + (j - Len(a)) = j + 1
      BY <1>1, <1>2, <1>6, <2>2
    <3>. QED
      BY <1>3, <1>5, <3>1, <3>2
  <2>. QED
    BY <1>1, <1>6, <2>1, <2>2
<1>8. \A j, k \in DOMAIN ds : g[j] = g[k] => j = k
  BY <1>1, <1>6
<1>9. g \in [DOMAIN ds -> DOMAIN cs]
  BY <1>7
<1>. HIDE DEF g
<1>10. Fewer(cs, ds)
  BY <1>7, <1>8, <1>9 DEF Fewer, Same
<1>. QED
  BY <1>4, <1>5, <1>10

\* Some may have ended.
LEMMA FewerEnded ==
  ASSUME NEW cs \in Seq(Commitment), NEW ds, DOMAIN ds = DOMAIN cs,
         \A i \in DOMAIN cs : Same(ds[i], cs[i])
  PROVE  Fewer(cs, ds)
<1>. DEFINE g == [i \in DOMAIN cs |-> i]
<1>1. /\ g \in [DOMAIN ds -> DOMAIN cs]
      /\ \A i, j \in DOMAIN ds : g[i] = g[j] => i = j
      /\ \A j \in DOMAIN ds : Same(ds[j], cs[g[j]])
  OBVIOUS
<1>. QED
  BY <1>1 DEF Fewer

\* Of the assignments and of the reservations some are left.
LEMMA FewerBoth ==
  ASSUME NEW a \in Seq(Commitment), NEW b \in Seq(Commitment),
         NEW c \in Seq(Commitment), NEW d \in Seq(Commitment),
         Fewer(a, c), Fewer(b, d)
  PROVE  Fewer(a \o b, c \o d)
<1>. DEFINE p == a \o b
            q == c \o d
<1>1. PICK g \in [DOMAIN c -> DOMAIN a] :
        /\ \A i, j \in DOMAIN c : g[i] = g[j] => i = j
        /\ \A j \in DOMAIN c : Same(c[j], a[g[j]])
  BY DEF Fewer
<1>2. PICK h \in [DOMAIN d -> DOMAIN b] :
        /\ \A i, j \in DOMAIN d : h[i] = h[j] => i = j
        /\ \A j \in DOMAIN d : Same(d[j], b[h[j]])
  BY DEF Fewer
<1>3. /\ DOMAIN a = 1 .. Len(a) /\ Len(a) \in Nat
      /\ DOMAIN b = 1 .. Len(b) /\ Len(b) \in Nat
      /\ DOMAIN c = 1 .. Len(c) /\ Len(c) \in Nat
      /\ DOMAIN d = 1 .. Len(d) /\ Len(d) \in Nat
  BY LenProperties
<1>4. /\ DOMAIN p = 1 .. Len(a) + Len(b)
      /\ \A j \in 1 .. Len(a) : p[j] = a[j]
      /\ \A j \in Len(a) + 1 .. Len(a) + Len(b) : p[j] = b[j - Len(a)]
  BY Joined
<1>5. /\ DOMAIN q = 1 .. Len(c) + Len(d)
      /\ \A j \in 1 .. Len(c) : q[j] = c[j]
      /\ \A j \in Len(c) + 1 .. Len(c) + Len(d) : q[j] = d[j - Len(c)]
  BY Joined
<1>. HIDE DEF p, q
<1>. DEFINE f == [j \in DOMAIN q |-> IF j <= Len(c) THEN g[j]
                                      ELSE Len(a) + h[j - Len(c)]]
<1>6. ASSUME NEW j \in DOMAIN q
      PROVE  \/ j \in DOMAIN c /\ f[j] = g[j] /\ g[j] \in 1 .. Len(a)
             \/ /\ j - Len(c) \in DOMAIN d /\ f[j] = Len(a) + h[j - Len(c)]
                /\ h[j - Len(c)] \in 1 .. Len(b) /\ j > Len(c)
  <2>1. CASE j <= Len(c)
    BY <1>3, <1>5, <2>1
  <2>2. CASE j > Len(c)
    <3>1. j - Len(c) \in DOMAIN d
      BY <1>3, <1>5, <2>2
    <3>2. f[j] = Len(a) + h[j - Len(c)]
      BY <1>3, <1>5, <2>2
    <3>. QED
      BY <1>3, <2>2, <3>1, <3>2
  <2>. QED
    BY <1>3, <1>5, <2>1, <2>2
<1>. HIDE DEF f
<1>7. ASSUME NEW j \in DOMAIN q
      PROVE  f[j] \in DOMAIN p /\ Same(q[j], p[f[j]])
  <2>1. CASE j \in DOMAIN c /\ f[j] = g[j] /\ g[j] \in 1 .. Len(a)
    BY <1>1, <1>3, <1>4, <1>5, <2>1
  <2>2. CASE /\ j - Len(c) \in DOMAIN d /\ f[j] = Len(a) + h[j - Len(c)]
             /\ h[j - Len(c)] \in 1 .. Len(b) /\ j > Len(c)
    <3>. DEFINE x == j - Len(c)
                y == h[x]
    <3>1. /\ j \in Len(c) + 1 .. Len(c) + Len(d)
          /\ Len(a) + y \in Len(a) + 1 .. Len(a) + Len(b)
          /\ (Len(a) + y) - Len(a) = y
      BY <1>3, <1>5, <2>2
    <3>2. q[j] = d[x] /\ p[Len(a) + y] = b[y]
      BY <1>4, <1>5, <3>1, SMTT(30)
    <3>3. Same(d[x], b[y]) /\ f[j] = Len(a) + y
      BY <1>2, <2>2
    <3>4. Len(a) + y \in DOMAIN p
      BY <1>3, <1>4, <3>1, SMTT(30)
    <3>. HIDE DEF x, y
    <3>. QED
      BY <3>2, <3>3, <3>4
  <2>. QED
    BY <1>6, <2>1, <2>2
<1>8. ASSUME NEW i \in DOMAIN q, NEW j \in DOMAIN q, f[i] = f[j]
      PROVE  i = j
  <2>1. CASE i \in DOMAIN c /\ j \in DOMAIN c /\ f[i] = g[i] /\ f[j] = g[j]
    BY <1>1, <1>8, <2>1
  <2>2. CASE /\ i - Len(c) \in DOMAIN d /\ f[i] = Len(a) + h[i - Len(c)]
             /\ h[i - Len(c)] \in 1 .. Len(b)
             /\ j - Len(c) \in DOMAIN d /\ f[j] = Len(a) + h[j - Len(c)]
             /\ h[j - Len(c)] \in 1 .. Len(b)
    <3>. DEFINE x == h[i - Len(c)]
                y == h[j - Len(c)]
    <3>0. /\ Len(a) + x = Len(a) + y /\ Len(a) \in Nat
          /\ x \in 1 .. Len(b) /\ y \in 1 .. Len(b)
      BY <1>3, <1>8, <2>2
    <3>. HIDE DEF x, y
    <3>3. x = y
      BY <1>3, <3>0
    <3>1. h[i - Len(c)] = h[j - Len(c)]
      BY <3>3 DEF x, y
    <3>2. i - Len(c) = j - Len(c)
      BY <1>2, <2>2, <3>1
    <3>. QED
      BY <1>3, <1>5, <3>2
  <2>3. CASE \/ /\ f[i] = g[i] /\ g[i] \in 1 .. Len(a)
                /\ f[j] = Len(a) + h[j - Len(c)] /\ h[j - Len(c)] \in 1 .. Len(b)
             \/ /\ f[j] = g[j] /\ g[j] \in 1 .. Len(a)
                /\ f[i] = Len(a) + h[i - Len(c)] /\ h[i - Len(c)] \in 1 .. Len(b)
    BY <1>3, <1>8, <2>3
  <2>. QED
    BY <1>6, <2>1, <2>2, <2>3
<1>9. f \in [DOMAIN q -> DOMAIN p]
  <2>1. \A j \in DOMAIN q : f[j] \in DOMAIN p
    BY <1>7
  <2>. QED
    BY <2>1 DEF f
<1>10. Fewer(p, q)
  BY <1>7, <1>8, <1>9 DEF Fewer
<1>. QED
  BY <1>10 DEF p, q

\* An assignment more.
LEMMA OneMoreAssigned ==
  ASSUME NEW a \in Seq(Commitment), NEW b \in Seq(Commitment), NEW c \in Commitment
  PROVE  LET ds == Append(a, c) \o b
             k == Len(a) + 1
         IN k \in DOMAIN ds /\ ds[k] = c /\ OneMore(a \o b, ds, k)
<1>. DEFINE p == a \o b
            e == Append(a, c)
            ds == e \o b
            k == Len(a) + 1
            g == [i \in DOMAIN p |-> IF i <= Len(a) THEN i ELSE i + 1]
<1>1. Len(a) \in Nat /\ Len(b) \in Nat
  BY LenProperties
<1>2. /\ e \in Seq(Commitment) /\ Len(e) = Len(a) + 1 /\ e[Len(a) + 1] = c
      /\ \A i \in 1 .. Len(a) : e[i] = a[i]
  BY AppendProperties
<1>3. /\ DOMAIN p = 1 .. Len(a) + Len(b)
      /\ \A j \in 1 .. Len(a) : p[j] = a[j]
      /\ \A j \in Len(a) + 1 .. Len(a) + Len(b) : p[j] = b[j - Len(a)]
  BY Joined
<1>. HIDE DEF p, e
<1>4. /\ DOMAIN ds = 1 .. Len(a) + 1 + Len(b)
      /\ \A j \in 1 .. Len(a) + 1 : ds[j] = e[j]
      /\ \A j \in Len(a) + 2 .. Len(a) + 1 + Len(b) : ds[j] = b[j - (Len(a) + 1)]
  <2>1. /\ DOMAIN ds = 1 .. Len(e) + Len(b)
        /\ \A j \in 1 .. Len(e) : ds[j] = e[j]
        /\ \A j \in Len(e) + 1 .. Len(e) + Len(b) : ds[j] = b[j - Len(e)]
    BY <1>2, Joined
  <2>2. (Len(a) + 1) + 1 = Len(a) + 2
    BY <1>1
  <2>. HIDE DEF ds
  <2>. QED
    BY <1>2, <2>1, <2>2, Zenon
<1>. HIDE DEF ds
<1>5. k \in DOMAIN ds /\ ds[k] = c
  BY <1>1, <1>2, <1>4
<1>6. ASSUME NEW i \in DOMAIN p
      PROVE  g[i] \in DOMAIN ds \ {k} /\ ds[g[i]] = p[i]
  <2>1. CASE i <= Len(a)
    <3>1. i \in 1 .. Len(a) /\ i \in 1 .. Len(a) + 1 /\ g[i] = i
      BY <1>1, <1>3, <2>1
    <3>2. i \in DOMAIN ds \ {k}
      BY <1>1, <1>4, <3>1
    <3>. QED
      BY <1>2, <1>3, <1>4, <3>1, <3>2
  <2>2. CASE i > Len(a)
    <3>1. /\ i \in Len(a) + 1 .. Len(a) + Len(b)
          /\ i + 1 \in Len(a) + 2 .. Len(a) + 1 + Len(b) /\ g[i] = i + 1
          /\ (i + 1) - (Len(a) + 1) = i - Len(a)
      BY <1>1, <1>3, <2>2
    <3>2. i + 1 \in DOMAIN ds \ {k}
      BY <1>1, <1>4, <3>1
    <3>. QED
      BY <1>3, <1>4, <3>1, <3>2
  <2>. QED
    BY <1>1, <1>3, <2>1, <2>2
<1>7. ASSUME NEW j \in DOMAIN ds \ {k} PROVE \E i \in DOMAIN p : g[i] = j
  <2>1. CASE j <= Len(a)
    <3>1. j \in DOMAIN p /\ g[j] = j
      BY <1>1, <1>3, <1>4, <2>1
    <3>. QED
      BY <3>1
  <2>2. CASE j > Len(a) + 1
    <3>1. j - 1 \in DOMAIN p /\ g[j - 1] = j
      BY <1>1, <1>3, <1>4, <2>2
    <3>. QED
      BY <3>1
  <2>. QED
    BY <1>1, <1>4, <2>1, <2>2
<1>8. \A i, j \in DOMAIN p : g[i] = g[j] => i = j
  BY <1>1, <1>3
<1>9. g \in [DOMAIN p -> DOMAIN ds \ {k}]
  BY <1>6
<1>. HIDE DEF g, k
<1>10. OneMore(p, ds, k)
  BY <1>6, <1>7, <1>8, <1>9 DEF OneMore
<1>. QED
  BY <1>5, <1>10 DEF p, ds, e, k

\* A reservation more.
LEMMA OneMoreReserved ==
  ASSUME NEW a \in Seq(Commitment), NEW b \in Seq(Commitment), NEW c \in Commitment
  PROVE  LET ds == a \o Append(b, c)
             k == Len(a) + Len(b) + 1
         IN k \in DOMAIN ds /\ ds[k] = c /\ OneMore(a \o b, ds, k)
<1>. DEFINE p == a \o b
            ds == Append(p, c)
            k == Len(a) + Len(b) + 1
            g == [i \in DOMAIN p |-> i]
<1>1. /\ p \in Seq(Commitment) /\ Len(p) = Len(a) + Len(b)
      /\ Len(a) \in Nat /\ Len(b) \in Nat
  BY ConcatProperties, LenProperties
<1>2. ds = a \o Append(b, c)
  <2>1. <<c>> \in Seq(Commitment)
    OBVIOUS
  <2>2. Append(b, c) = b \o <<c>>
    BY AppendIsConcat
  <2>3. ds = p \o <<c>>
    BY <1>1, AppendIsConcat
  <2>4. (a \o b) \o <<c>> = a \o (b \o <<c>>)
    BY <2>1, ConcatAssociative
  <2>. QED
    BY <2>2, <2>3, <2>4, Zenon
<1>. HIDE DEF p
<1>3. /\ DOMAIN p = 1 .. Len(a) + Len(b)
      /\ ds \in Seq(Commitment) /\ Len(ds) = Len(p) + 1 /\ ds[Len(p) + 1] = c
      /\ \A i \in 1 .. Len(p) : ds[i] = p[i]
  BY <1>1, AppendProperties, LenProperties
<1>. HIDE DEF ds
<1>4. DOMAIN ds = 1 .. Len(a) + Len(b) + 1
  BY <1>1, <1>3, LenProperties
<1>5. k \in DOMAIN ds /\ ds[k] = c
  BY <1>1, <1>3, <1>4
<1>6. /\ g \in [DOMAIN p -> DOMAIN ds \ {k}]
      /\ \A i, j \in DOMAIN p : g[i] = g[j] => i = j
      /\ \A j \in DOMAIN ds \ {k} : j \in DOMAIN p /\ g[j] = j
      /\ \A i \in DOMAIN p : ds[g[i]] = p[i]
  BY <1>1, <1>3, <1>4
<1>. HIDE DEF g, k
<1>7. OneMore(p, ds, k)
  BY <1>6 DEF OneMore
<1>. QED
  BY <1>2, <1>5, <1>7 DEF p, ds, k

-----------------------------------------------------------------------------

\* What a trade has from groups and populations.
Sourced(d, t) ==
  SizeOf(d, {g \in Working(d) : d.groups[g].trade = t})
  + SumFunction([p \in DOMAIN d.populations |-> NetContribution(d, p, t)])

\* The sources of workforce are finitely many.
FiniteSources(d) ==
  /\ IsFiniteSet(DOMAIN d.populations) /\ IsFiniteSet(DOMAIN d.groups)
  /\ IsFiniteSet(DOMAIN d.notables)

\* What is left of a trade, by what it is reckoned from.
LEMMA TradeLeftIs ==
  ASSUME NEW d, NEW t
  PROVE  TradeLeft(d, t)
           = (Sourced(d, t)
              + Cardinality(Lenders(DOMAIN d.notables, Commitments(d), t, now)))
             - AmountOf(Commitments(d), OfTrade(Commitments(d), t, now))
<1>1. /\ \A n : Lends(d, n, t) <=>
                LET cs == Commitments(d)
                    of == {i \in DOMAIN cs : CountsAt(cs[i], now) /\ cs[i].source = n}
                IN of # {} /\ cs[Min(of)].trade = t
      /\ OfTrade(Commitments(d), t, now)
           = {i \in DOMAIN Commitments(d) :
                Counts(Commitments(d)[i]) /\ Commitments(d)[i].trade = t}
  BY DEF Lends, Counts, CountsAt, OfTrade
<1>2. {n \in DOMAIN d.notables : Lends(d, n, t)}
        = Lenders(DOMAIN d.notables, Commitments(d), t, now)
  BY <1>1 DEF Lenders
<1>3. TradeLeft(d, t)
        = TradeCapacity(d, t) - AmountOf(Commitments(d), OfTrade(Commitments(d), t, now))
  BY <1>1, Zenon DEF TradeLeft
<1>4. TradeCapacity(d, t)
        = Sourced(d, t) + Cardinality(Lenders(DOMAIN d.notables, Commitments(d), t, now))
  BY <1>2, Zenon DEF TradeCapacity, Sourced
<1>. QED
  BY <1>3, <1>4, Zenon

\* By how much a source is over-promised, likewise.
LEMMA SourceShortIs ==
  ASSUME NEW s, NEW t, NEW at
  PROVE  SourceShort(s, t, at)
           = AtLeastZero(AmountOf(Commitments(people),
                                  OfSource(Commitments(people), s, t, at, now))
                         - SourceCapacity(people, s, t))
<1>1. OfSource(Commitments(people), s, t, at, now)
        = {i \in DOMAIN Commitments(people) :
             /\ Counts(Commitments(people)[i]) /\ Commitments(people)[i].source = s
             /\ Commitments(people)[i].trade = t
             /\ Commitments(people)[i].starts <= at /\ at < Commitments(people)[i].ends}
  BY DEF OfSource, OfTrade, Counts, CountsAt
<1>. QED
  BY <1>1 DEF SourceShort

\* What a trade has from groups depends on groups and populations only.
LEMMA SourcedSame ==
  ASSUME NEW d, NEW e, d.groups = e.groups, d.populations = e.populations, NEW t
  PROVE  Sourced(d, t) = Sourced(e, t)
<1>1. \A G : SizeOf(d, G) = SizeOf(e, G)
  BY DEF SizeOf
<1>2. Working(d) = Working(e)
  BY DEF Working
<1>3. \A p : NetContribution(d, p, t) = NetContribution(e, p, t)
  BY <1>1, <1>2 DEF NetContribution
<1>4. [p \in DOMAIN d.populations |-> NetContribution(d, p, t)]
        = [p \in DOMAIN e.populations |-> NetContribution(e, p, t)]
  BY <1>3
<1>5. {g \in Working(d) : d.groups[g].trade = t}
        = {g \in Working(e) : e.groups[g].trade = t}
  BY <1>2
<1>. QED
  BY <1>1, <1>4, <1>5, Zenon DEF Sourced

\* What a source has does, too.
LEMMA CapacitySame ==
  ASSUME NEW d, NEW e, d.groups = e.groups, d.populations = e.populations,
         NEW s, NEW t
  PROVE  SourceCapacity(d, s, t) = SourceCapacity(e, s, t)
<1>1. \A G : SizeOf(d, G) = SizeOf(e, G)
  BY DEF SizeOf
<1>2. Working(d) = Working(e)
  BY DEF Working
<1>3. {g \in Working(d) : d.groups[g].population = s /\ d.groups[g].trade = t}
        = {g \in Working(e) : e.groups[g].population = s /\ e.groups[g].trade = t}
  BY <1>2
<1>. QED
  BY <1>1, <1>2, <1>3 DEF SourceCapacity

\* The sizes of groups add up to a number.
LEMMA SizesAreNumbers ==
  ASSUME NEW d, IsData(d), FiniteSources(d), NEW G \in SUBSET DOMAIN d.groups
  PROVE  SizeOf(d, G) \in Int
<1>1. IsFiniteSet(G)
  BY FS_Subset DEF FiniteSources
<1>2. [g \in G |-> d.groups[g].size] \in [G -> Int]
  BY DEF IsData, IsMap, OperationalGroup
<1>. QED
  BY <1>1, <1>2, SumIs DEF SizeOf

\* So do the figures of a trade and of a source.
LEMMA SourcedIsNumber ==
  ASSUME NEW d, IsData(d), FiniteSources(d), NEW t \in Trade
  PROVE  /\ Sourced(d, t) \in Int
         /\ \A s : SourceCapacity(d, s, t) \in Int
<1>1. Working(d) \in SUBSET DOMAIN d.groups
  BY DEF Working
<1>2. /\ \A p \in DOMAIN d.populations : d.populations[p][t] \in Int
      /\ \A g \in DOMAIN d.groups : d.groups[g].size \in Int
  BY DEF IsData, IsMap, OperationalGroup
<1>3. \A n \in Int : AtLeastZero(n) \in Int
  BY DEF AtLeastZero
<1>4. ASSUME NEW p \in DOMAIN d.populations
      PROVE  NetContribution(d, p, t) \in Int
  <2>. DEFINE G == {g \in Working(d) : d.groups[g].population = p}
  <2>1. SizeOf(d, G) \in Int
    BY <1>1, SizesAreNumbers
  <2>2. NetContribution(d, p, t) = AtLeastZero(d.populations[p][t] - SizeOf(d, G))
    BY DEF NetContribution
  <2>. HIDE DEF G
  <2>. QED
    BY <1>2, <1>3, <2>1, <2>2
<1>5. SumFunction([p \in DOMAIN d.populations |-> NetContribution(d, p, t)]) \in Int
  <2>1. [p \in DOMAIN d.populations |-> NetContribution(d, p, t)]
          \in [DOMAIN d.populations -> Int]
    BY <1>4
  <2>. QED
    BY <2>1, SumIs DEF FiniteSources
<1>6. SizeOf(d, {g \in Working(d) : d.groups[g].trade = t}) \in Int
  BY <1>1, SizesAreNumbers
<1>7. ASSUME NEW s PROVE SourceCapacity(d, s, t) \in Int
  <2>. DEFINE G == {g \in Working(d) : d.groups[g].population = s /\ d.groups[g].trade = t}
  <2>1. SizeOf(d, G) \in Int
    BY <1>1, SizesAreNumbers
  <2>2. SourceCapacity(d, s, t)
          = IF s \in DOMAIN d.groups
            THEN IF s \in Working(d) /\ d.groups[s].trade = t THEN d.groups[s].size ELSE 0
            ELSE IF s \in DOMAIN d.populations
                 THEN AtLeastZero(d.populations[s][t] - SizeOf(d, G))
                 ELSE 1
    BY DEF SourceCapacity
  <2>. HIDE DEF G
  <2>. QED
    BY <1>2, <1>3, <2>1, <2>2
<1>. QED
  BY <1>5, <1>6, <1>7 DEF Sourced

\* Less over, no more short.
LEMMA LessShort ==
  ASSUME NEW x \in Int, NEW y \in Int, y <= x \/ y <= 0
  PROVE  AtLeastZero(y) <= AtLeastZero(x)
BY DEF AtLeastZero

\* What the data d leave of a trade, and of a source for a trade, at n.
TradeLeftAt(d, n, t) ==
  (Sourced(d, t) + Cardinality(Lenders(DOMAIN d.notables, Commitments(d), t, n)))
  - AmountOf(Commitments(d), OfTrade(Commitments(d), t, n))

\* Of a source for a trade, those that end after an instant.
OfSourceFrom(cs, s, t, at, n) ==
  {i \in DOMAIN cs : /\ CountsAt(cs[i], n) /\ cs[i].source = s
                     /\ cs[i].trade = t /\ cs[i].ends > at}

SourceLeftAt(d, n, s, t, at) ==
  SourceCapacity(d, s, t)
  - AmountOf(Commitments(d), OfSourceFrom(Commitments(d), s, t, at, n))

\* By how much the data d promise too much, at n.
TradeShortAt(d, n, t) == AtLeastZero(-TradeLeftAt(d, n, t))

SourceShortAt(d, n, s, t, at) ==
  AtLeastZero(AmountOf(Commitments(d), OfSource(Commitments(d), s, t, at, n))
              - SourceCapacity(d, s, t))

\* What the model reckons of the data is what is left of them now.
LEMMA LeftIs ==
  /\ \A d, t : TradeLeft(d, t) = TradeLeftAt(d, now, t)
  /\ \A d, s, t, at : SourceLeft(d, s, t, at) = SourceLeftAt(d, now, s, t, at)
<1>1. ASSUME NEW d, NEW s, NEW t, NEW at
      PROVE  SourceLeft(d, s, t, at) = SourceLeftAt(d, now, s, t, at)
  <2>1. OfSourceFrom(Commitments(d), s, t, at, now)
          = {i \in DOMAIN Commitments(d) :
               /\ Counts(Commitments(d)[i]) /\ Commitments(d)[i].source = s
               /\ Commitments(d)[i].trade = t /\ Commitments(d)[i].ends > at}
    BY DEF OfSourceFrom, Counts, CountsAt
  <2>. QED
    BY <2>1, Zenon DEF SourceLeft, SourceLeftAt
<1>. QED
  BY <1>1, TradeLeftIs, Zenon DEF TradeLeftAt

\* By how much they are over-promised, likewise,
LEMMA ShortIs ==
  /\ \A t : TradeShort(t) = TradeShortAt(people, now, t)
  /\ \A s, t, at : SourceShort(s, t, at) = SourceShortAt(people, now, s, t, at)
BY LeftIs, SourceShortIs, Zenon DEF TradeShort, TradeShortAt, SourceShortAt

\* and after a step.
LEMMA ShortIsNext ==
  /\ \A t : TradeShort(t)' = TradeShortAt(people', now', t)
  /\ \A s, t, at : SourceShort(s, t, at)' = SourceShortAt(people', now', s, t, at)
<1>1. (/\ \A t : TradeShort(t) = TradeShortAt(people, now, t)
       /\ \A s, t, at : SourceShort(s, t, at) = SourceShortAt(people, now, s, t, at))'
  BY ShortIs, PTL
<1>. QED
  BY <1>1, Zenon

\* Two data with the same groups, population groups and notables.
SameSources(d, e) ==
  /\ d.groups = e.groups /\ d.populations = e.populations
  /\ DOMAIN d.notables = DOMAIN e.notables

\* The data e promise no more beyond their means at m than d at n.
WithinMeans(d, n, e, m) ==
  \A t \in Trade :
    /\ TradeShortAt(e, m, t) <= TradeShortAt(d, n, t)
    /\ \A s : \A at \in Int :
         SourceShortAt(e, m, s, t, at) <= SourceShortAt(d, n, s, t, at)

\* Commitments are well typed.
LEMMA CommitmentsAre ==
  ASSUME NEW d, IsData(d)
  PROVE  /\ Commitments(d) \in Seq(Commitment)
         /\ d.assignments \in Seq(Commitment) /\ d.reservations \in Seq(Commitment)
BY Joined DEF IsData, Commitments

\* While the sources stay and commitments only go, promises stay within means:
\* a notable lends a unit as long as a commitment asks one of it.
LEMMA FewerWithin ==
  ASSUME NEW d, NEW e, IsData(d), IsData(e), FiniteSources(d), SameSources(d, e),
         NEW n \in Int, NEW m \in Int, n <= m,
         OneTrade(DOMAIN d.notables, Commitments(d), n),
         Fewer(Commitments(d), Commitments(e))
  PROVE  WithinMeans(d, n, e, m)
<1>. DEFINE cs == Commitments(d)
            ds == Commitments(e)
            N == DOMAIN d.notables
<1>1. cs \in Seq(Commitment) /\ ds \in Seq(Commitment)
  BY CommitmentsAre
<1>2. IsFiniteSet(N) /\ N = DOMAIN e.notables
  BY DEF FiniteSources, SameSources
<1>3. ASSUME NEW t \in Trade PROVE TradeShortAt(e, m, t) <= TradeShortAt(d, n, t)
  <2>. DEFINE I == OfTrade(cs, t, n)
              J == OfTrade(ds, t, m)
              L == Lenders(N, cs, t, n)
              M == Lenders(N, ds, t, m)
              S == Sourced(d, t)
  <2>1. /\ AmountOf(cs, I) \in Nat /\ AmountOf(ds, J) \in Nat
        /\ Cardinality(L) \in Nat /\ Cardinality(M) \in Nat
        /\ AmountOf(ds, J) + Cardinality(L) <= AmountOf(cs, I) + Cardinality(M)
    BY <1>1, <1>2, TradeFewer
  <2>2. S \in Int
    BY SourcedIsNumber
  <2>3. TradeLeftAt(d, n, t) = (S + Cardinality(L)) - AmountOf(cs, I)
    BY Zenon DEF TradeLeftAt
  <2>4. Sourced(e, t) = S
    BY SourcedSame DEF SameSources
  <2>5. TradeLeftAt(e, m, t) = (S + Cardinality(M)) - AmountOf(ds, J)
    BY <1>2, <2>4, Zenon DEF TradeLeftAt
  <2>. HIDE DEF I, J, L, M, S
  <2>6. /\ TradeLeftAt(d, n, t) \in Int /\ TradeLeftAt(e, m, t) \in Int
        /\ TradeLeftAt(d, n, t) <= TradeLeftAt(e, m, t)
    BY <2>1, <2>2, <2>3, <2>5
  <2>. QED
    BY <2>6 DEF TradeShortAt, AtLeastZero
<1>4. ASSUME NEW t \in Trade, NEW s, NEW at \in Int
      PROVE  SourceShortAt(e, m, s, t, at) <= SourceShortAt(d, n, s, t, at)
  <2>. DEFINE I == OfSource(cs, s, t, at, n)
              J == OfSource(ds, s, t, at, m)
              C == SourceCapacity(d, s, t)
  <2>1. /\ AmountOf(cs, I) \in Nat /\ AmountOf(ds, J) \in Nat
        /\ AmountOf(ds, J) <= AmountOf(cs, I)
    BY <1>1, SourceFewer
  <2>2. C \in Int
    BY SourcedIsNumber
  <2>3. SourceShortAt(d, n, s, t, at) = AtLeastZero(AmountOf(cs, I) - C)
    BY Zenon DEF SourceShortAt
  <2>4. SourceCapacity(e, s, t) = C
    BY CapacitySame DEF SameSources
  <2>5. SourceShortAt(e, m, s, t, at) = AtLeastZero(AmountOf(ds, J) - C)
    BY <2>4, Zenon DEF SourceShortAt
  <2>. HIDE DEF I, J, C
  <2>. QED
    BY <2>1, <2>2, <2>3, <2>5 DEF AtLeastZero
<1>. QED
  BY <1>3, <1>4 DEF WithinMeans

\* The commitment c, at the position k of the data e, was not in d; d covered
\* it and e have the trade for it.
Promised(d, e, n, k) ==
  LET c == Commitments(e)[k]
  IN /\ k \in DOMAIN Commitments(e)
     /\ OneMore(Commitments(d), Commitments(e), k)
     /\ SourceLeftAt(d, n, c.source, c.trade, c.starts) >= c.amount
     /\ TradeLeftAt(e, n, c.trade) >= 0

\* So they do when what is added was covered by its source and its trade.
LEMMA PromisedWithin ==
  ASSUME NEW d, NEW e, IsData(d), IsData(e), FiniteSources(d), SameSources(d, e),
         NEW n \in Int, NEW k, Promised(d, e, n, k),
         OneTrade(DOMAIN d.notables, Commitments(d), n),
         OneTrade(DOMAIN e.notables, Commitments(e), n)
  PROVE  WithinMeans(d, n, e, n)
<1>. DEFINE cs == Commitments(d)
            ds == Commitments(e)
            N == DOMAIN d.notables
            c == ds[k]
<1>1. cs \in Seq(Commitment) /\ ds \in Seq(Commitment)
  BY CommitmentsAre
<1>2. IsFiniteSet(N) /\ N = DOMAIN e.notables
  BY DEF FiniteSources, SameSources
<1>3. /\ k \in DOMAIN ds /\ OneMore(cs, ds, k)
      /\ SourceLeftAt(d, n, c.source, c.trade, c.starts) >= c.amount
      /\ TradeLeftAt(e, n, c.trade) >= 0
  BY DEF Promised
<1>4. c \in Commitment
  BY <1>1, <1>3, LenProperties, ElementOfSeq
<1>5. ASSUME NEW t \in Trade PROVE TradeShortAt(e, n, t) <= TradeShortAt(d, n, t)
  <2>. DEFINE I == OfTrade(cs, t, n)
              J == OfTrade(ds, t, n)
              L == Lenders(N, cs, t, n)
              M == Lenders(N, ds, t, n)
              S == Sourced(d, t)
  <2>0. /\ AmountOf(cs, I) \in Nat /\ AmountOf(ds, J) \in Nat
        /\ Cardinality(L) \in Nat /\ Cardinality(M) \in Nat
    <3>1. I \in SUBSET DOMAIN cs /\ J \in SUBSET DOMAIN ds
      BY DEF OfTrade
    <3>2. L \subseteq N /\ M \subseteq N
      BY DEF Lenders
    <3>. HIDE DEF I, J, L, M, cs, ds, N
    <3>3. AmountOf(cs, I) \in Nat /\ AmountOf(ds, J) \in Nat
      BY <1>1, <3>1, AmountIs
    <3>. QED
      BY <1>2, <3>2, <3>3, FS_Subset, FS_CardinalityType
  <2>2. S \in Int
    BY SourcedIsNumber
  <2>3. TradeLeftAt(d, n, t) = (S + Cardinality(L)) - AmountOf(cs, I)
    BY Zenon DEF TradeLeftAt
  <2>4. Sourced(e, t) = S
    BY SourcedSame DEF SameSources
  <2>5. TradeLeftAt(e, n, t) = (S + Cardinality(M)) - AmountOf(ds, J)
    BY <1>2, <2>4, Zenon DEF TradeLeftAt
  <2>6. t # c.trade =>
          AmountOf(ds, J) + Cardinality(L) <= AmountOf(cs, I) + Cardinality(M)
    <3>. SUFFICES ASSUME t # c.trade
                  PROVE  AmountOf(ds, J) + Cardinality(L)
                           <= AmountOf(cs, I) + Cardinality(M)
      OBVIOUS
    <3>1. k \notin OfTrade(ds, t, n)
      BY DEF OfTrade
    <3>2. OneTrade(N, cs, n) /\ OneTrade(N, ds, n)
      BY <1>2
    <3>. HIDE DEF cs, ds, N
    <3>. QED
      BY <1>1, <1>2, <1>3, <3>1, <3>2, TradeMore
  <2>. HIDE DEF I, J, L, M, S
  <2>7. TradeLeftAt(d, n, t) \in Int /\ TradeLeftAt(e, n, t) \in Int
    BY <2>0, <2>2, <2>3, <2>5
  <2>8. \/ TradeLeftAt(e, n, t) >= 0
        \/ TradeLeftAt(d, n, t) <= TradeLeftAt(e, n, t)
    <3>1. CASE t = c.trade
      BY <1>3, <3>1
    <3>2. CASE t # c.trade
      <4>. HIDE DEF cs, ds, c
      <4>. QED
        BY <2>0, <2>2, <2>3, <2>5, <2>6, <3>2
    <3>. QED
      BY <3>1, <3>2
  <2>. QED
    BY <2>7, <2>8 DEF TradeShortAt, AtLeastZero
<1>. HIDE DEF cs, ds, c
<1>6. ASSUME NEW s, NEW t, NEW at, NEW X \in SUBSET DOMAIN cs,
             OfSource(cs, s, t, at, n) \subseteq X
      PROVE  /\ AmountOf(cs, OfSource(cs, s, t, at, n)) \in Nat
             /\ AmountOf(ds, OfSource(ds, s, t, at, n)) \in Nat
             /\ AmountOf(cs, X) \in Nat
             /\ k \notin OfSource(ds, s, t, at, n) =>
                  AmountOf(ds, OfSource(ds, s, t, at, n))
                    = AmountOf(cs, OfSource(cs, s, t, at, n))
             /\ AmountOf(ds, OfSource(ds, s, t, at, n))
                  <= AmountOf(cs, X) + ds[k].amount
  <2>1. Adds(cs, ds, k, X, s, t, at, n)
    BY <1>1, <1>3, <1>6 DEF Adds
  <2>. QED
    BY <2>1, SourceMore
<1>7. ASSUME NEW t \in Trade, NEW s, NEW at \in Int
      PROVE  SourceShortAt(e, n, s, t, at) <= SourceShortAt(d, n, s, t, at)
  <2>. DEFINE I == OfSource(cs, s, t, at, n)
              J == OfSource(ds, s, t, at, n)
              X == OfSourceFrom(cs, s, t, c.starts, n)
              C == SourceCapacity(d, s, t)
  <2>1. C \in Int
    BY SourcedIsNumber
  <2>2. SourceShortAt(d, n, s, t, at) = AtLeastZero(AmountOf(cs, I) - C)
    BY Zenon DEF SourceShortAt, cs
  <2>3. SourceCapacity(e, s, t) = C
    BY CapacitySame DEF SameSources
  <2>4. SourceShortAt(e, n, s, t, at) = AtLeastZero(AmountOf(ds, J) - C)
    BY <2>3, Zenon DEF SourceShortAt, ds
  <2>5. SourceLeftAt(d, n, s, t, c.starts) = C - AmountOf(cs, X)
    BY Zenon DEF SourceLeftAt, cs
  <2>6. CASE k \notin J
    <3>1. /\ AmountOf(cs, I) \in Nat /\ AmountOf(ds, J) = AmountOf(cs, I)
      <4>1. I \in SUBSET DOMAIN cs
        BY DEF OfSource, OfTrade
      <4>. QED
        BY <1>6, <2>6, <4>1
    <3>. HIDE DEF I, J, C
    <3>. QED
      BY <2>1, <2>2, <2>4, <3>1 DEF AtLeastZero
  <2>7. CASE k \in J
    <3>1. /\ s = c.source /\ t = c.trade /\ c.starts <= at
          /\ c.starts \in Int /\ c.amount \in Nat
      BY <1>4, <2>7 DEF OfSource, OfTrade, Commitment, c
    <3>2. X \in SUBSET DOMAIN cs
      BY DEF OfSourceFrom
    <3>3. I \subseteq X
      <4>. SUFFICES ASSUME NEW i \in I PROVE i \in X
        OBVIOUS
      <4>1. /\ i \in DOMAIN cs /\ CountsAt(cs[i], n) /\ cs[i].trade = t
            /\ cs[i].source = s /\ at < cs[i].ends
        BY DEF OfSource, OfTrade
      <4>2. cs[i].ends \in Int
        <5>1. cs[i] \in Commitment
          BY <1>1, <4>1, LenProperties, ElementOfSeq
        <5>. QED
          BY <5>1 DEF Commitment
      <4>3. cs[i].ends > c.starts
        BY <3>1, <4>1, <4>2
      <4>. QED
        BY <4>1, <4>3 DEF OfSourceFrom
    <3>4. /\ AmountOf(cs, X) \in Nat /\ AmountOf(cs, I) \in Nat
          /\ AmountOf(ds, J) \in Nat
          /\ AmountOf(ds, J) <= AmountOf(cs, X) + c.amount
      <4>. HIDE DEF X
      <4>. QED
        BY <1>6, <3>2, <3>3 DEF c
    <3>5. C - AmountOf(cs, X) >= c.amount
      BY <1>3, <2>5, <3>1
    <3>. HIDE DEF I, J, X, C
    <3>6. AmountOf(ds, J) - C <= 0
      BY <2>1, <3>1, <3>4, <3>5
    <3>. QED
      BY <2>1, <2>2, <2>4, <3>4, <3>6 DEF AtLeastZero
  <2>. QED
    BY <2>6, <2>7
<1>. QED
  BY <1>5, <1>7 DEF WithinMeans

-----------------------------------------------------------------------------

\* What a step adds to the sources: no more than one.
GrowsBy(id) ==
  /\ DOMAIN people'.populations \subseteq DOMAIN people.populations \cup {id}
  /\ DOMAIN people'.groups \subseteq DOMAIN people.groups \cup {id}
  /\ DOMAIN people'.notables \subseteq DOMAIN people.notables \cup {id}

\* No command adds more than one source.
LEMMA GrowsByOne ==
  ASSUME Good(people), [Next]_vars
  PROVE  \E id : GrowsBy(id)
<1>1. DOMAIN people = {"mode", "populations", "groups", "notables", "roles",
                       "assignments", "reservations"}
  BY DEF Good, IsData
<1>2. ASSUME \/ people' = people
             \/ \E v : people' = [people EXCEPT !.mode = v]
             \/ \E v : people' = [people EXCEPT !.roles = v]
             \/ \E v : people' = [people EXCEPT !.assignments = v]
             \/ \E v : people' = [people EXCEPT !.reservations = v]
      PROVE  \E id : GrowsBy(id)
  <2>1. /\ people'.populations = people.populations
        /\ people'.groups = people.groups /\ people'.notables = people.notables
    BY <1>1, <1>2
  <2>. QED
    BY <2>1 DEF GrowsBy
<1>3a. ASSUME NEW v, NEW id, people' = [people EXCEPT !.populations = v],
              DOMAIN v \subseteq DOMAIN people.populations \cup {id}
       PROVE  \E i : GrowsBy(i)
  <2>1. GrowsBy(id)
    BY <1>1, <1>3a DEF GrowsBy
  <2>. QED
    BY <2>1
<1>3b. ASSUME NEW v, NEW id, people' = [people EXCEPT !.groups = v],
              DOMAIN v \subseteq DOMAIN people.groups \cup {id}
       PROVE  \E i : GrowsBy(i)
  <2>1. GrowsBy(id)
    BY <1>1, <1>3b DEF GrowsBy
  <2>. QED
    BY <2>1
<1>3c. ASSUME NEW v, NEW id, people' = [people EXCEPT !.notables = v],
              DOMAIN v \subseteq DOMAIN people.notables \cup {id}
       PROVE  \E i : GrowsBy(i)
  <2>1. GrowsBy(id)
    BY <1>1, <1>3c DEF GrowsBy
  <2>. QED
    BY <2>1
<1>4. \A f, x, v : /\ DOMAIN With(f, x, v) \subseteq DOMAIN f \cup {x}
                   /\ DOMAIN Without(f, x) \subseteq DOMAIN f \cup {x}
                   /\ DOMAIN [f EXCEPT ![x] = v] \subseteq DOMAIN f \cup {x}
  BY DEF With, Without, Restrict
<1>5. CASE PopulationCommand
  <2>1. ASSUME NEW mode, SetPopulation(mode) PROVE \E id : GrowsBy(id)
    BY <1>2, <2>1 DEF SetPopulation, Write
  <2>2. ASSUME NEW p, NEW c,
               \/ CreatePopulationGroup(p, c) \/ UpdatePopulationGroup(p, c)
               \/ DeletePopulationGroup(p)
        PROVE  \E id : GrowsBy(id)
    <3>1. \/ people' = [people EXCEPT !.populations = With(people.populations, p, c)]
          \/ people' = [people EXCEPT !.populations = [people.populations EXCEPT ![p] = c]]
          \/ people' = [people EXCEPT !.populations = Without(people.populations, p)]
      BY <1>1, <2>2 DEF CreatePopulationGroup, UpdatePopulationGroup,
         DeletePopulationGroup, Write, New
    <3>2. CASE people' = [people EXCEPT !.populations = With(people.populations, p, c)]
      <4>. DEFINE v == With(people.populations, p, c)
      <4>1. DOMAIN v \subseteq DOMAIN people.populations \cup {p}
        BY <1>4
      <4>2. people' = [people EXCEPT !.populations = v]
        BY <3>2
      <4>. HIDE DEF v
      <4>. QED
        BY <1>3a, <4>1, <4>2
    <3>3. CASE people' = [people EXCEPT !.populations = [people.populations EXCEPT ![p] = c]]
      <4>. DEFINE v == [people.populations EXCEPT ![p] = c]
      <4>1. DOMAIN v \subseteq DOMAIN people.populations \cup {p}
        BY <1>4
      <4>2. people' = [people EXCEPT !.populations = v]
        BY <3>3
      <4>. HIDE DEF v
      <4>. QED
        BY <1>3a, <4>1, <4>2
    <3>4. CASE people' = [people EXCEPT !.populations = Without(people.populations, p)]
      <4>. DEFINE v == Without(people.populations, p)
      <4>1. DOMAIN v \subseteq DOMAIN people.populations \cup {p}
        BY <1>4
      <4>2. people' = [people EXCEPT !.populations = v]
        BY <3>4
      <4>. HIDE DEF v
      <4>. QED
        BY <1>3a, <4>1, <4>2
    <3>. QED
      BY <3>1, <3>2, <3>3, <3>4
  <2>. QED
    BY <1>5, <2>1, <2>2 DEF PopulationCommand
<1>6. CASE GroupCommand
  <2>1. ASSUME NEW id, NEW g, NEW patch,
               \/ CreateOperationalGroup(id, g) \/ UpdateOperationalGroup(id, patch)
               \/ DeleteOperationalGroup(id)
        PROVE  \E i : GrowsBy(i)
    <3>. DEFINE h == Merged(people.groups[id], patch)
    <3>1. \/ people' = [people EXCEPT !.groups = With(people.groups, id, g)]
          \/ people' = [people EXCEPT !.groups = [people.groups EXCEPT ![id] = h]]
          \/ people' = [people EXCEPT !.groups = Without(people.groups, id)]
      BY <1>1, <2>1 DEF CreateOperationalGroup, UpdateOperationalGroup,
         DeleteOperationalGroup, Write, New
    <3>. HIDE DEF h
    <3>2. CASE people' = [people EXCEPT !.groups = With(people.groups, id, g)]
      <4>. DEFINE v == With(people.groups, id, g)
      <4>1. DOMAIN v \subseteq DOMAIN people.groups \cup {id}
        BY <1>4
      <4>2. people' = [people EXCEPT !.groups = v]
        BY <3>2
      <4>. HIDE DEF v
      <4>. QED
        BY <1>3b, <4>1, <4>2
    <3>3. CASE people' = [people EXCEPT !.groups = [people.groups EXCEPT ![id] = h]]
      <4>. DEFINE v == [people.groups EXCEPT ![id] = h]
      <4>1. DOMAIN v \subseteq DOMAIN people.groups \cup {id}
        BY <1>4
      <4>2. people' = [people EXCEPT !.groups = v]
        BY <3>3
      <4>. HIDE DEF v
      <4>. QED
        BY <1>3b, <4>1, <4>2
    <3>4. CASE people' = [people EXCEPT !.groups = Without(people.groups, id)]
      <4>. DEFINE v == Without(people.groups, id)
      <4>1. DOMAIN v \subseteq DOMAIN people.groups \cup {id}
        BY <1>4
      <4>2. people' = [people EXCEPT !.groups = v]
        BY <3>4
      <4>. HIDE DEF v
      <4>. QED
        BY <1>3b, <4>1, <4>2
    <3>. QED
      BY <3>1, <3>2, <3>3, <3>4
  <2>. QED
    BY <1>6, <2>1 DEF GroupCommand
<1>7. CASE NotableCommand
  <2>1. ASSUME NEW n, NEW a,
               CreateNotable(n, a) \/ UpdateNotable(n, a) \/ DeleteNotable(n)
        PROVE  \E i : GrowsBy(i)
    <3>1. \/ people' = [people EXCEPT !.notables = With(people.notables, n, a)]
          \/ people' = [people EXCEPT !.notables = [people.notables EXCEPT ![n] = a]]
          \/ people' = [people EXCEPT !.notables = Without(people.notables, n)]
      BY <1>1, <2>1 DEF CreateNotable, UpdateNotable, DeleteNotable, Write, New
    <3>2. CASE people' = [people EXCEPT !.notables = With(people.notables, n, a)]
      <4>. DEFINE v == With(people.notables, n, a)
      <4>1. DOMAIN v \subseteq DOMAIN people.notables \cup {n}
        BY <1>4
      <4>2. people' = [people EXCEPT !.notables = v]
        BY <3>2
      <4>. HIDE DEF v
      <4>. QED
        BY <1>3c, <4>1, <4>2
    <3>3. CASE people' = [people EXCEPT !.notables = [people.notables EXCEPT ![n] = a]]
      <4>. DEFINE v == [people.notables EXCEPT ![n] = a]
      <4>1. DOMAIN v \subseteq DOMAIN people.notables \cup {n}
        BY <1>4
      <4>2. people' = [people EXCEPT !.notables = v]
        BY <3>3
      <4>. HIDE DEF v
      <4>. QED
        BY <1>3c, <4>1, <4>2
    <3>4. CASE people' = [people EXCEPT !.notables = Without(people.notables, n)]
      <4>. DEFINE v == Without(people.notables, n)
      <4>1. DOMAIN v \subseteq DOMAIN people.notables \cup {n}
        BY <1>4
      <4>2. people' = [people EXCEPT !.notables = v]
        BY <3>4
      <4>. HIDE DEF v
      <4>. QED
        BY <1>3c, <4>1, <4>2
    <3>. QED
      BY <3>1, <3>2, <3>3, <3>4
  <2>. QED
    BY <1>7, <2>1 DEF NotableCommand
<1>8. CASE RoleCommand
  <2>1. ASSUME NEW r, NEW g, NEW s, NEW n,
               \/ CreateRole(r, g, s) \/ AssignRole(r, n) \/ UnassignRole(r, n)
               \/ DeleteRole(r)
        PROVE  \E v : people' = [people EXCEPT !.roles = v]
    BY <2>1, Zenon DEF CreateRole, AssignRole, UnassignRole, DeleteRole, Write, New
  <2>. QED
    BY <1>2, <1>8, <2>1 DEF RoleCommand
<1>9. CASE WorkCommand
  BY <1>2, <1>9 DEF WorkCommand, CreateAssignment, CreateReservation,
     CancelAssignment, ReleaseReservation, Write
<1>10. CASE RepairCommand
  <2>1. ASSUME NEW R, NEW G, DOMAIN G = DOMAIN people.groups,
               \/ people' = [people EXCEPT !.roles = R, !.groups = G]
               \/ people' = [people EXCEPT !.groups = G]
        PROVE  GrowsBy(None)
    BY <1>1, <2>1 DEF GrowsBy
  <2>2. ASSUME NEW old, NEW new, RelinkNotable(old, new) PROVE GrowsBy(None)
    <3>. DEFINE R == [r \in DOMAIN people.roles |->
                        [people.roles[r] EXCEPT
                           !.occupants = Relinked(people.roles[r].occupants, old, new)]]
                G == [g \in DOMAIN people.groups |->
                        [people.groups[g] EXCEPT
                           !.members = Relinked(people.groups[g].members, old, new)]]
    <3>1. people' = [people EXCEPT !.roles = R, !.groups = G]
      BY <2>2 DEF RelinkNotable, Repair, Write
    <3>2. DOMAIN G = DOMAIN people.groups
      OBVIOUS
    <3>. HIDE DEF R, G
    <3>. QED
      BY <2>1, <3>1, <3>2
  <2>3. CASE PurgeDanglingOccupants
    <3>. DEFINE R == [r \in DOMAIN people.roles |->
                        [people.roles[r] EXCEPT
                           !.occupants = Known(people.roles[r].occupants)]]
                G == [g \in DOMAIN people.groups |-> PurgedGroup(people.groups[g])]
    <3>1. people' = [people EXCEPT !.roles = R, !.groups = G]
      BY <2>3 DEF PurgeDanglingOccupants, Repair, Write
    <3>2. DOMAIN G = DOMAIN people.groups
      OBVIOUS
    <3>. HIDE DEF R, G
    <3>. QED
      BY <2>1, <3>1, <3>2
  <2>4. CASE RepairExplicitGroupSizes
    BY <2>1, <2>4 DEF RepairExplicitGroupSizes, Repair, Write
  <2>5. ASSUME NEW real, NEW at,
               PruneExpiredReservations(real, at) \/ PruneEndedAssignments(at)
        PROVE  \E id : GrowsBy(id)
    <3>1. \/ \E v : people' = [people EXCEPT !.reservations = v]
          \/ \E v : people' = [people EXCEPT !.assignments = v]
      BY <2>5, Zenon DEF PruneExpiredReservations, PruneEndedAssignments, Repair, Write
    <3>. QED
      BY <1>2, <3>1
  <2>. QED
    BY <1>10, <2>2, <2>3, <2>4, <2>5 DEF RepairCommand
<1>11. CASE Tick \/ UNCHANGED vars
  BY <1>2, <1>11 DEF Tick, vars
<1>. QED
  BY <1>5, <1>6, <1>7, <1>8, <1>9, <1>10, <1>11 DEF Next

\* The sources stay finitely many.
LEMMA FiniteStays ==
  ASSUME Good(people), FiniteSources(people), [Next]_vars
  PROVE  FiniteSources(people')
<1>1. PICK id : GrowsBy(id)
  BY GrowsByOne
<1>2. \A S : IsFiniteSet(S) => IsFiniteSet(S \cup {id})
  BY FS_AddElement
<1>. QED
  BY <1>1, <1>2, FS_Subset DEF FiniteSources, GrowsBy

\* The opening has finitely many sources.
LEMMA OpeningIsFinite ==
  ASSUME Init
  PROVE  FiniteSources(people)
BY SceneAssumption DEF Init, FiniteSources

\* A step that leaves no more commitments than there were.
Lessens == Fewer(Commitments(people), Commitments(people')) /\ now <= now'

\* A step that adds one that is covered.
Adding == now' = now /\ \E k : Promised(people, people', now, k)

\* A command that forces nothing adds what is covered.
LEMMA CommitAdds ==
  ASSUME TypeOK, Good(people), Commits(FALSE)
  PROVE  Adding
<1>. DEFINE a == people.assignments
            b == people.reservations
<1>1. /\ a \in Seq(Commitment) /\ b \in Seq(Commitment)
      /\ Commitments(people) = a \o b
      /\ DOMAIN people = {"mode", "populations", "groups", "notables", "roles",
                          "assignments", "reservations"}
  BY DEF Good, IsData, Commitments
<1>2. scene.assignments \subseteq Commitment /\ scene.reservations \subseteq Commitment
  BY Inputs
<1>3. ASSUME NEW c, NEW k \in DOMAIN Commitments(people'),
             Commitments(people')[k] = c,
             OneMore(Commitments(people), Commitments(people'), k),
             c.source \in Sources(people), now' = now,
             MayCommit(c, people', FALSE)
      PROVE  Adding
  <2>1. SourceLeft(people, c.source, c.trade, c.starts) >= c.amount
    BY <1>3 DEF MayCommit, SourceCovers
  <2>2. TradeLeft(people', c.trade) >= 0
    BY <1>3 DEF MayCommit
  <2>3. /\ SourceLeftAt(people, now, c.source, c.trade, c.starts) >= c.amount
        /\ TradeLeftAt(people', now, c.trade) >= 0
    BY <2>1, <2>2, LeftIs, Zenon
  <2>4. Promised(people, people', now, k)
    BY <1>3, <2>3, Zenon DEF Promised
  <2>. QED
    BY <1>3, <2>4 DEF Adding
<1>4. ASSUME NEW c \in scene.assignments, CreateAssignment(c, FALSE)
      PROVE  Adding
  <2>. DEFINE k == Len(a) + 1
  <2>1. /\ people' = [people EXCEPT !.assignments = Append(a, c)]
        /\ MayCommit(c, people', FALSE) /\ now' = now
    BY <1>4, Zenon DEF CreateAssignment, Write, Given
  <2>2. Commitments(people') = Append(a, c) \o b
    BY <1>1, <2>1 DEF Commitments
  <2>3. c \in Commitment
    BY <1>2
  <2>. HIDE DEF a, b
  <2>4. /\ k \in DOMAIN (Append(a, c) \o b) /\ (Append(a, c) \o b)[k] = c
        /\ OneMore(a \o b, Append(a, c) \o b, k)
    BY <1>1, <2>3, OneMoreAssigned
  <2>5. c.source \in Sources(people)
    BY <2>1 DEF MayCommit
  <2>. HIDE DEF k
  <2>. QED
    BY <1>1, <1>3, <2>1, <2>2, <2>4, <2>5, Zenon
<1>5. ASSUME NEW c \in scene.reservations, CreateReservation(c, FALSE)
      PROVE  Adding
  <2>. DEFINE k == Len(a) + Len(b) + 1
  <2>1. /\ people' = [people EXCEPT !.reservations = Append(b, c)]
        /\ MayCommit(c, people', FALSE) /\ now' = now
    BY <1>5, Zenon DEF CreateReservation, Write, Given
  <2>2. Commitments(people') = a \o Append(b, c)
    BY <1>1, <2>1 DEF Commitments
  <2>3. c \in Commitment
    BY <1>2
  <2>. HIDE DEF a, b
  <2>4. /\ k \in DOMAIN (a \o Append(b, c)) /\ (a \o Append(b, c))[k] = c
        /\ OneMore(a \o b, a \o Append(b, c), k)
    BY <1>1, <2>3, OneMoreReserved
  <2>5. c.source \in Sources(people)
    BY <2>1 DEF MayCommit
  <2>. HIDE DEF k
  <2>. QED
    BY <1>1, <1>3, <2>1, <2>2, <2>4, <2>5, Zenon
<1>. QED
  BY <1>4, <1>5 DEF Commits

\* Every step is forced, leaves no more commitments, or adds one covered.
LEMMA StepIs ==
  ASSUME TypeOK, Good(people), [Next]_vars
  PROVE  Forced \/ Lessens \/ Adding
<1>. DEFINE a == people.assignments
            b == people.reservations
<1>1. /\ a \in Seq(Commitment) /\ b \in Seq(Commitment)
      /\ Commitments(people) = a \o b
      /\ DOMAIN people = {"mode", "populations", "groups", "notables", "roles",
                          "assignments", "reservations"}
      /\ now \in Int
  BY DEF Good, IsData, Commitments, TypeOK
<1>2. ASSUME NEW c \in Seq(Commitment), NEW d \in Seq(Commitment),
             Fewer(a, c), Fewer(b, d), now' = now,
             people'.assignments = c, people'.reservations = d
      PROVE  Lessens
  <2>1. Commitments(people') = c \o d
    BY <1>2 DEF Commitments
  <2>2. Fewer(a \o b, c \o d)
    BY <1>1, <1>2, FewerBoth
  <2>. QED
    BY <1>1, <1>2, <2>1, <2>2 DEF Lessens
<1>3. Fewer(a, a) /\ Fewer(b, b)
  BY FewerSelf
<1>4. ASSUME people'.assignments = a, people'.reservations = b, now' >= now
      PROVE  Lessens
  <2>1. Commitments(people') = Commitments(people)
    BY <1>4 DEF Commitments
  <2>. QED
    BY <1>4, <2>1, FewerSelf DEF Lessens
<1>5. ASSUME now' = now,
             \/ \E v : people' = [people EXCEPT !.mode = v]
             \/ \E v : people' = [people EXCEPT !.populations = v]
             \/ \E v : people' = [people EXCEPT !.groups = v]
             \/ \E v : people' = [people EXCEPT !.notables = v]
             \/ \E v : people' = [people EXCEPT !.roles = v]
             \/ \E v, w : people' = [people EXCEPT !.roles = v, !.groups = w]
      PROVE  Lessens
  <2>1. people'.assignments = a /\ people'.reservations = b
    BY <1>1, <1>5
  <2>2. now' = now
    BY <1>5, Zenon
  <2>3. now' >= now
    BY <1>1, <2>2
  <2>. QED
    BY <1>4, <2>1, <2>3, Zenon
<1>6. ASSUME PopulationCommand \/ GroupCommand \/ NotableCommand \/ RoleCommand
      PROVE  Lessens
  <2>1. CASE PopulationCommand
    BY <1>5, <2>1, Zenon DEF PopulationCommand, SetPopulation, CreatePopulationGroup,
       UpdatePopulationGroup, DeletePopulationGroup, Write, New, Given
  <2>2. CASE GroupCommand
    BY <1>5, <2>2, Zenon DEF GroupCommand, CreateOperationalGroup,
       UpdateOperationalGroup, DeleteOperationalGroup, Write, New, Given
  <2>3. CASE NotableCommand
    BY <1>5, <2>3, Zenon DEF NotableCommand, CreateNotable, UpdateNotable,
       DeleteNotable, Write, New, Given
  <2>4. CASE RoleCommand
    BY <1>5, <2>4, Zenon DEF RoleCommand, CreateRole, AssignRole, UnassignRole,
       DeleteRole, Write, New, Given
  <2>. QED
    BY <1>6, <2>1, <2>2, <2>3, <2>4
<1>7. CASE WorkCommand
  <2>1. ASSUME NEW i, CancelAssignment(i) PROVE Lessens
    <3>. DEFINE c == RemoveAt(a, i)
    <3>1. /\ i \in DOMAIN a /\ now' = now
          /\ people' = [people EXCEPT !.assignments = c]
      BY <2>1 DEF CancelAssignment, Write, Given
    <3>2. c \in Seq(Commitment) /\ Fewer(a, c)
      BY <1>1, <3>1, FewerRemoved
    <3>. HIDE DEF c
    <3>3. people'.assignments = c /\ people'.reservations = b
      BY <1>1, <3>1
    <3>. QED
      BY <1>1, <1>2, <1>3, <3>1, <3>2, <3>3
  <2>2. ASSUME NEW i, ReleaseReservation(i) PROVE Lessens
    <3>. DEFINE d == RemoveAt(b, i)
    <3>1. /\ i \in DOMAIN b /\ now' = now
          /\ people' = [people EXCEPT !.reservations = d]
      BY <2>2 DEF ReleaseReservation, Write, Given
    <3>2. d \in Seq(Commitment) /\ Fewer(b, d)
      BY <1>1, <3>1, FewerRemoved
    <3>. HIDE DEF d
    <3>3. people'.assignments = a /\ people'.reservations = d
      BY <1>1, <3>1
    <3>. QED
      BY <1>1, <1>2, <1>3, <3>1, <3>2, <3>3
  <2>3. CASE Commits(TRUE) \/ Commits(FALSE)
    BY <2>3, CommitAdds DEF Forced
  <2>. QED
    BY <1>7, <2>1, <2>2, <2>3 DEF WorkCommand, Commits
<1>8. CASE RepairCommand
  <2>1. ASSUME \/ \E old, new : RelinkNotable(old, new)
               \/ PurgeDanglingOccupants \/ RepairExplicitGroupSizes
        PROVE  Lessens
    BY <1>5, <2>1, Zenon DEF RelinkNotable, PurgeDanglingOccupants,
       RepairExplicitGroupSizes, Repair, Write, Given
  <2>2. ASSUME NEW real, NEW at, PruneExpiredReservations(real, at)
        PROVE  Lessens
    <3>. DEFINE I == {i \in DOMAIN b :
                        LET c == b[i] IN c.active => ~Past(c, real) /\ c.ends > at}
                d == Picked(b, I)
    <3>1. now' = now /\ people' = [people EXCEPT !.reservations = d]
      BY <2>2 DEF PruneExpiredReservations, Repair, Write, Given
    <3>2. d \in Seq(Commitment) /\ Fewer(b, d)
      <4>1. DOMAIN b = 1 .. Len(b)
        BY <1>1, LenProperties
      <4>2. I \in SUBSET (1 .. Len(b))
        BY <4>1
      <4>. HIDE DEF I
      <4>. QED
        BY <1>1, <4>2, FewerPicked
    <3>. HIDE DEF d
    <3>3. people'.assignments = a /\ people'.reservations = d
      BY <1>1, <3>1
    <3>. QED
      BY <1>1, <1>2, <1>3, <3>1, <3>2, <3>3
  <2>3. ASSUME NEW at, PruneEndedAssignments(at) PROVE Lessens
    <3>. DEFINE Ended(c) == [c EXCEPT !.active = @ /\ c.ends > at]
                e == [i \in DOMAIN a |-> Ended(a[i])]
    <3>1. now' = now /\ people' = [people EXCEPT !.assignments = e]
      BY <2>3 DEF PruneEndedAssignments, Repair, Write, Given
    <3>2. \A c \in Commitment : Ended(c) \in Commitment /\ Same(Ended(c), c)
      BY DEF Commitment, Same
    <3>3. Len(a) \in Nat /\ DOMAIN a = 1 .. Len(a) /\ \A i \in DOMAIN a : a[i] \in Commitment
      BY <1>1, LenProperties, ElementOfSeq
    <3>. HIDE DEF Ended
    <3>4. e \in Seq(Commitment) /\ Fewer(a, e)
      <4>1. e \in Seq(Commitment)
        BY <3>2, <3>3
      <4>2. DOMAIN e = DOMAIN a /\ \A i \in DOMAIN a : Same(e[i], a[i])
        BY <3>2, <3>3
      <4>. HIDE DEF e
      <4>. QED
        BY <1>1, <4>1, <4>2, FewerEnded
    <3>. HIDE DEF e
    <3>5. people'.assignments = e /\ people'.reservations = b
      BY <1>1, <3>1
    <3>. QED
      BY <1>1, <1>2, <1>3, <3>1, <3>4, <3>5
  <2>. QED
    BY <1>8, <2>1, <2>2, <2>3 DEF RepairCommand
<1>9. CASE Tick
  <2>1. people' = people /\ now' >= now
    BY <1>1, <1>9 DEF Tick
  <2>. QED
    BY <1>4, <2>1
<1>10. CASE UNCHANGED vars
  <2>1. people' = people /\ now' >= now
    BY <1>1, <1>10 DEF vars
  <2>. QED
    BY <1>4, <2>1
<1>. QED
  BY <1>6, <1>7, <1>8, <1>9, <1>10 DEF Next

\* No notable works in two trades at a time.
WithinOneTrade == OneTrade(DOMAIN people.notables, Commitments(people), now)

\* A step that keeps the sources and is not forced keeps promises within means.
LEMMA StepWithinMeans ==
  ASSUME TypeOK, Good(people), FiniteSources(people), [Next]_vars,
         TypeOK', Good(people'), sources' = sources,
         WithinOneTrade, WithinOneTrade', ~Forced
  PROVE  WithinMeans(people, now, people', now')
<1>1. SameSources(people, people')
  BY DEF sources, SameSources
<1>2. IsData(people) /\ IsData(people')
  BY DEF Good
<1>3. now \in Int /\ now' \in Int
  BY DEF TypeOK
<1>4. /\ OneTrade(DOMAIN people.notables, Commitments(people), now)
      /\ OneTrade(DOMAIN people'.notables, Commitments(people'), now')
  BY DEF WithinOneTrade
<1>5. CASE Lessens
  BY <1>1, <1>2, <1>3, <1>4, <1>5, FewerWithin DEF Lessens
<1>6. CASE Adding
  <2>1. PICK k : Promised(people, people', now, k)
    BY <1>6 DEF Adding
  <2>2. now' = now
    BY <1>6 DEF Adding
  <2>3. OneTrade(DOMAIN people'.notables, Commitments(people'), now)
    BY <1>4, <2>2, Zenon
  <2>4. WithinMeans(people, now, people', now)
    BY <1>1, <1>2, <1>3, <1>4, <2>1, <2>3, PromisedWithin
  <2>. QED
    BY <2>2, <2>4, Zenon
<1>. QED
  BY <1>5, <1>6, StepIs

(***************************************************************************)
(* As long as no notable works in two trades at a time, no trade and no    *)
(* source is promised further beyond its means by a step that keeps the    *)
(* sources of workforce, unless a command forces it, whatever ends,        *)
(* expires, is taken back or pruned and however many commitments there are *)
(* (src/people/workforce/workforce-calculator.ts and                       *)
(* src/people/commands/assignment-commands.ts).                            *)
(***************************************************************************)
THEOREM PromisesKept == Spec /\ []WithinOneTrade => PromisedWithinMeans
<1>. DEFINE IInv == TypeOK /\ Good(people) /\ FiniteSources(people)
            Kept == \/ Forced
                    \/ sources' # sources
                    \/ \A t \in Trade :
                         /\ TradeShort(t)' <= TradeShort(t)
                         /\ \A s \in Sources(people), at \in scene.instants \ {Anytime} :
                              SourceShort(s, t, at)' <= SourceShort(s, t, at)
<1>1. Init => IInv
  BY OpeningIsGood, OpeningIsFinite
<1>2. IInv /\ [Next]_vars => IInv'
  BY NextStays, FiniteStays DEF Stays
<1>3. IInv /\ WithinOneTrade /\ WithinOneTrade' /\ [Next]_vars => [Kept]_vars
  <2>. SUFFICES ASSUME IInv, WithinOneTrade, WithinOneTrade', [Next]_vars,
                       ~Forced, sources' = sources, NEW t \in Trade
                PROVE  /\ TradeShort(t)' <= TradeShort(t)
                       /\ \A s \in Sources(people), at \in scene.instants \ {Anytime} :
                            SourceShort(s, t, at)' <= SourceShort(s, t, at)
    OBVIOUS
  <2>1. WithinMeans(people, now, people', now')
    BY <1>2, StepWithinMeans
  <2>2. \A at \in scene.instants : at \in Int
    BY SceneAssumption DEF TypeOK
  <2>. QED
    BY <2>1, <2>2, ShortIs, ShortIsNext DEF WithinMeans
<1>. QED
  BY <1>1, <1>2, <1>3, PTL DEF Spec, PromisedWithinMeans
=============================================================================
