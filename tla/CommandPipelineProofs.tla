------------------------ MODULE CommandPipelineProofs -----------------------
(***************************************************************************)
(* Permits are accounted for and served in turn, a command has one         *)
(* execution at a time, receipts are true and a cancelled command of the   *)
(* coordinator has no effect, for any deliveries, priorities, number of    *)
(* permits and capacity of the store.                                      *)
(*                                                                         *)
(* The queue (QueueInv) needs nothing of the store: the waiters stand in   *)
(* the order in which processQueue serves them, each once, and only while  *)
(* no permit is free.  The rest (Books) hangs on the claims: whoever is    *)
(* past its claim is the delivery the store remembers as in flight, with   *)
(* the content it carries, so that a duplicate finds it there and awaits   *)
(* what it will be told.  The time to live spares what is in flight, the   *)
(* capacity does not; these theorems assume that no claim pushes out an    *)
(* entry in flight (SparesPending), which a store with room for all        *)
(* commands guarantees (RoomSuffices).                                     *)
(***************************************************************************)
EXTENDS CommandPipeline, FiniteSetTheorems, FunctionTheorems, SequenceTheorems, TLAPS

\* Nothing occurs twice in the sequence s.
Distinct(s) == \A i, j \in 1 .. Len(s) : s[i] = s[j] => i = j

\* The members of S below i.
Below(S, i) == {j \in S : j < i}

(***************************************************************************)
(* The first numbers are as many as they are.                              *)
(***************************************************************************)
LEMMA Initial ==
  ASSUME NEW n \in Nat
  PROVE  /\ IsFiniteSet(1 .. n) /\ Cardinality(1 .. n) = n
         /\ IsFiniteSet(0 .. n - 1) /\ Cardinality(0 .. n - 1) = n
<1>1. 0 \in Int /\ 1 \in Int /\ n \in Int /\ n - 1 \in Int
  OBVIOUS
<1>2. /\ IsFiniteSet(1 .. n)
      /\ Cardinality(1 .. n) = IF 1 > n THEN 0 ELSE n - 1 + 1
  BY <1>1, FS_Interval
<1>3. /\ IsFiniteSet(0 .. n - 1)
      /\ Cardinality(0 .. n - 1) = IF 0 > n - 1 THEN 0 ELSE n - 1 - 0 + 1
  BY <1>1, FS_Interval
<1>. QED
  BY <1>2, <1>3

(***************************************************************************)
(* Counting the lesser members of a finite set of numbers enumerates the   *)
(* set in its order.                                                       *)
(***************************************************************************)
LEMMA BelowCounts ==
  ASSUME NEW S \in SUBSET Nat, IsFiniteSet(S)
  PROVE  /\ \A i \in S : Cardinality(Below(S, i)) \in 0 .. Cardinality(S) - 1
         /\ \A i, j \in S : i < j =>
              Cardinality(Below(S, i)) < Cardinality(Below(S, j))
         /\ \A r \in 0 .. Cardinality(S) - 1 :
              \E i \in S : Cardinality(Below(S, i)) = r
<1>. DEFINE f == [i \in S |-> Cardinality(Below(S, i))]
<1>1. Cardinality(S) \in Nat
  BY FS_CardinalityType
<1>2. ASSUME NEW i \in S
      PROVE  /\ IsFiniteSet(Below(S, i))
             /\ Cardinality(Below(S, i)) \in 0 .. Cardinality(S) - 1
  <2>1. Below(S, i) \in SUBSET S /\ i \notin Below(S, i)
    BY DEF Below
  <2>2. /\ IsFiniteSet(Below(S, i))
        /\ Cardinality(Below(S, i)) <= Cardinality(S)
        /\ Cardinality(S) = Cardinality(Below(S, i)) => S = Below(S, i)
    BY <2>1, FS_Subset
  <2>3. Cardinality(Below(S, i)) \in Nat
    BY <2>2, FS_CardinalityType
  <2>4. Cardinality(S) # Cardinality(Below(S, i))
    BY <2>1, <2>2
  <2>. QED
    BY <1>1, <2>2, <2>3, <2>4
<1>3. ASSUME NEW i \in S, NEW j \in S, i < j
      PROVE  Cardinality(Below(S, i)) < Cardinality(Below(S, j))
  <2>1. Below(S, i) \in SUBSET Below(S, j) /\ Below(S, i) # Below(S, j)
    <3>1. i \in Below(S, j) /\ i \notin Below(S, i)
      BY <1>3 DEF Below
    <3>2. ASSUME NEW k \in Below(S, i) PROVE k \in Below(S, j)
      <4>1. k \in S /\ k \in Nat /\ i \in Nat /\ j \in Nat /\ k < i
        BY DEF Below
      <4>2. k < j
        BY <1>3, <4>1
      <4>. QED
        BY <4>1, <4>2 DEF Below
    <3>. QED
      BY <3>1, <3>2
  <2>2. /\ Cardinality(Below(S, i)) <= Cardinality(Below(S, j))
        /\ Cardinality(Below(S, i)) # Cardinality(Below(S, j))
    BY <1>2, <2>1, FS_Subset
  <2>3. Cardinality(Below(S, i)) \in Nat /\ Cardinality(Below(S, j)) \in Nat
    BY <1>2
  <2>. QED
    BY <2>2, <2>3
<1>4. f \in Surjection(S, 0 .. Cardinality(S) - 1)
  <2>1. f \in [S -> 0 .. Cardinality(S) - 1]
    BY <1>2
  <2>2. ASSUME NEW i \in S, NEW j \in S, f[i] = f[j] PROVE i = j
    <3>1. Cardinality(Below(S, i)) = Cardinality(Below(S, j))
      BY <2>2
    <3>2. Cardinality(Below(S, i)) \in Nat /\ Cardinality(Below(S, j)) \in Nat
      BY <1>2
    <3>3. ~(i < j) /\ ~(j < i)
      BY <1>3, <3>1, <3>2
    <3>. QED
      BY <3>3
  <2>3. f \in Injection(S, 0 .. Cardinality(S) - 1)
    BY <2>1, <2>2 DEF Injection, IsInjective
  <2>4. /\ IsFiniteSet(0 .. Cardinality(S) - 1)
        /\ Cardinality(0 .. Cardinality(S) - 1) = Cardinality(S)
    BY <1>1, Initial
  <2>. HIDE DEF f
  <2>. QED
    BY <2>3, <2>4, FS_Injection
<1>5. ASSUME NEW r \in 0 .. Cardinality(S) - 1
      PROVE  \E i \in S : Cardinality(Below(S, i)) = r
  <2>1. \E i \in S : f[i] = r
    <3>. HIDE DEF f
    <3>. QED
      BY <1>4 DEF Surjection
  <2>. QED
    BY <2>1
<1>. QED
  BY <1>2, <1>3, <1>5

(***************************************************************************)
(* A finite set of numbers that is not empty has a least member.           *)
(***************************************************************************)
LEMMA LeastExists ==
  ASSUME NEW S \in SUBSET Nat, IsFiniteSet(S), S # {}
  PROVE  \E i \in S : \A j \in S : i <= j
<1>1. Cardinality(S) \in Nat /\ Cardinality(S) # 0
  BY FS_CardinalityType, FS_EmptySet
<1>2. PICK i \in S : Cardinality(Below(S, i)) = 0
  BY <1>1, BelowCounts
<1>3. Below(S, i) \in SUBSET S
  BY DEF Below
<1>4. IsFiniteSet(Below(S, i))
  BY <1>3, FS_Subset
<1>5. Below(S, i) = {}
  BY <1>2, <1>4, FS_EmptySet
<1>6. \A j \in S : ~(j < i)
  BY <1>5 DEF Below
<1>. QED
  BY <1>6

\* at enumerates the positions of the members of s that r keeps.
Enumerates(at, n, r, s, K) ==
  /\ Len(r) = n
  /\ \A k \in 1 .. n : r[k] = s[at[k]] /\ s[at[k]] \in K
  /\ \A k, l \in 1 .. n : k < l => at[k] < at[l]
  /\ \A i \in 1 .. Len(s) : s[i] \in K => \E k \in 1 .. n : at[k] = i

(***************************************************************************)
(* Filtered picks the positions of the members kept, in their order.       *)
(***************************************************************************)
LEMMA FilteredPicks ==
  ASSUME NEW T, NEW s \in Seq(T), NEW K
  PROVE  /\ Filtered(s, K) \in Seq(T)
         /\ \E n \in 0 .. Len(s) : \E at \in [1 .. n -> 1 .. Len(s)] :
              Enumerates(at, n, Filtered(s, K), s, K)
<1>. DEFINE S == {i \in 1 .. Len(s) : s[i] \in K}
            n == Cardinality(S)
            at == [k \in 1 .. n |->
                     CHOOSE i \in S : Cardinality({j \in S : j < i}) = k - 1]
<1>1. Len(s) \in Nat /\ \A i \in 1 .. Len(s) : s[i] \in T
  BY LenProperties, ElementOfSeq
<1>2. IsFiniteSet(1 .. Len(s)) /\ Cardinality(1 .. Len(s)) = Len(s)
  BY <1>1, Initial
<1>3. S \in SUBSET (1 .. Len(s)) /\ S \in SUBSET Nat
  BY <1>1
<1>4. IsFiniteSet(S) /\ n \in 0 .. Len(s)
  <2>1. IsFiniteSet(S) /\ Cardinality(S) <= Len(s)
    BY <1>2, <1>3, FS_Subset
  <2>2. Cardinality(S) \in Nat
    BY <2>1, FS_CardinalityType
  <2>. QED
    BY <1>1, <2>1, <2>2
<1>5. Filtered(s, K) = [k \in 1 .. n |-> s[at[k]]]
  BY DEF Filtered
<1>6. \A i \in 1 .. Len(s) : s[i] \in K <=> i \in S
  OBVIOUS
<1>. HIDE DEF S
<1>7. ASSUME NEW k \in 1 .. n
      PROVE  at[k] \in S /\ Cardinality(Below(S, at[k])) = k - 1
  <2>1. k - 1 \in 0 .. Cardinality(S) - 1
    BY <1>4
  <2>2. \E i \in S : Cardinality({j \in S : j < i}) = k - 1
    BY <1>3, <1>4, <2>1, BelowCounts DEF Below
  <2>3. at[k] = CHOOSE i \in S : Cardinality({j \in S : j < i}) = k - 1
    OBVIOUS
  <2>. QED
    BY <2>2, <2>3 DEF Below
<1>8. at \in [1 .. n -> 1 .. Len(s)]
  BY <1>3, <1>7
<1>. HIDE DEF at
<1>9. ASSUME NEW k \in 1 .. n, NEW l \in 1 .. n, k < l
      PROVE  at[k] < at[l]
  <2>1. /\ Cardinality(Below(S, at[k])) = k - 1
        /\ Cardinality(Below(S, at[l])) = l - 1
        /\ at[k] \in S /\ at[l] \in S /\ at[k] \in Nat /\ at[l] \in Nat
    BY <1>3, <1>7
  <2>2. ~(k - 1 < k - 1) /\ ~(l - 1 < k - 1)
    BY <1>4, <1>9
  <2>3. ~(at[l] < at[k]) /\ at[l] # at[k]
    <3>1. at[l] < at[k] => l - 1 < k - 1
      BY <1>3, <1>4, <2>1, BelowCounts
    <3>2. at[l] = at[k] => l - 1 = k - 1
      BY <2>1
    <3>. QED
      BY <1>4, <1>9, <2>2, <3>1, <3>2
  <2>. QED
    BY <2>1, <2>3
<1>10. ASSUME NEW i \in 1 .. Len(s), s[i] \in K
       PROVE  \E k \in 1 .. n : at[k] = i
  <2>. DEFINE k == Cardinality(Below(S, i)) + 1
  <2>1. i \in S
    BY <1>6, <1>10
  <2>2. Cardinality(Below(S, i)) \in 0 .. n - 1
    BY <1>3, <1>4, <2>1, BelowCounts
  <2>3. k \in 1 .. n /\ k - 1 = Cardinality(Below(S, i))
    BY <1>4, <2>2
  <2>. HIDE DEF k
  <2>4. /\ at[k] \in S /\ Cardinality(Below(S, at[k])) = Cardinality(Below(S, i))
        /\ at[k] \in Nat /\ i \in Nat
    BY <1>3, <1>7, <2>1, <2>3
  <2>5. ~(Cardinality(Below(S, i)) < Cardinality(Below(S, i)))
    BY <2>2
  <2>6. ~(at[k] < i) /\ ~(i < at[k])
    BY <1>3, <1>4, <2>1, <2>4, <2>5, BelowCounts
  <2>. QED
    BY <2>3, <2>4, <2>6
<1>11. Filtered(s, K) \in Seq(T) /\ Len(Filtered(s, K)) = n
  <2>1. \A k \in 1 .. n : s[at[k]] \in T
    BY <1>1, <1>8
  <2>. QED
    BY <1>4, <1>5, <2>1
<1>12. \A k \in 1 .. n : Filtered(s, K)[k] = s[at[k]] /\ s[at[k]] \in K
  BY <1>5, <1>3, <1>6, <1>7
<1>13. Enumerates(at, n, Filtered(s, K), s, K)
  BY <1>9, <1>10, <1>11, <1>12 DEF Enumerates
<1>. QED
  BY <1>4, <1>8, <1>11, <1>13

(***************************************************************************)
(* What remains of a sequence that is filtered.                            *)
(***************************************************************************)
LEMMA FilteredHas ==
  ASSUME NEW T, NEW s \in Seq(T), NEW K
  PROVE  /\ Filtered(s, K) \in Seq(T)
         /\ Len(Filtered(s, K)) <= Len(s)
         /\ Range(Filtered(s, K)) = Range(s) \cap K
         /\ Distinct(s) => Distinct(Filtered(s, K))
<1>. DEFINE r == Filtered(s, K)
<1>0. /\ r \in Seq(T)
      /\ \E n \in 0 .. Len(s) : \E at \in [1 .. n -> 1 .. Len(s)] :
           Enumerates(at, n, r, s, K)
  BY FilteredPicks
<1>. HIDE DEF r
<1>i. PICK n \in 0 .. Len(s) : \E at \in [1 .. n -> 1 .. Len(s)] :
        Enumerates(at, n, r, s, K)
  BY <1>0
<1>j. PICK at \in [1 .. n -> 1 .. Len(s)] : Enumerates(at, n, r, s, K)
  BY <1>i
<1>1. /\ r \in Seq(T) /\ Len(r) = n
      /\ \A k \in 1 .. n : r[k] = s[at[k]] /\ s[at[k]] \in K
      /\ \A k, l \in 1 .. n : k < l => at[k] < at[l]
      /\ \A i \in 1 .. Len(s) : s[i] \in K => \E k \in 1 .. n : at[k] = i
  BY <1>0, <1>j DEF Enumerates
<1>2. Len(s) \in Nat
  BY LenProperties
<1>3. Len(r) <= Len(s)
  BY <1>1, <1>2
<1>4. Range(r) = Range(s) \cap K
  <2>1. Range(r) = {r[k] : k \in 1 .. Len(r)} /\ Range(s) = {s[i] : i \in 1 .. Len(s)}
    BY <1>1, LenProperties DEF Range
  <2>2. ASSUME NEW x \in Range(r) PROVE x \in Range(s) /\ x \in K
    <3>1. PICK k \in 1 .. n : x = r[k]
      BY <1>1, <2>1
    <3>2. x = s[at[k]] /\ x \in K /\ at[k] \in 1 .. Len(s)
      BY <1>1, <3>1
    <3>. QED
      BY <2>1, <3>2
  <2>3. ASSUME NEW x \in Range(s), x \in K PROVE x \in Range(r)
    <3>1. PICK i \in 1 .. Len(s) : x = s[i]
      BY <2>1
    <3>2. PICK k \in 1 .. n : at[k] = i
      BY <1>1, <2>3, <3>1
    <3>3. x = r[k]
      BY <1>1, <3>1, <3>2
    <3>. QED
      BY <1>1, <2>1, <3>3
  <2>. QED
    BY <2>2, <2>3
<1>5. ASSUME Distinct(s), NEW k \in 1 .. Len(r), NEW l \in 1 .. Len(r), r[k] = r[l]
      PROVE  k = l
  <2>1. at[k] \in 1 .. Len(s) /\ at[l] \in 1 .. Len(s) /\ s[at[k]] = s[at[l]]
    BY <1>1, <1>5
  <2>2. at[k] = at[l]
    BY <1>5, <2>1 DEF Distinct
  <2>3. ~(at[k] < at[l]) /\ ~(at[l] < at[k])
    BY <1>2, <2>1, <2>2
  <2>4. ~(k < l) /\ ~(l < k)
    BY <1>1, <2>3
  <2>. QED
    BY <1>1, <2>4
<1>. QED
  BY <1>1, <1>3, <1>4, <1>5 DEF Distinct, r

(***************************************************************************)
(* The members of a sequence after one was inserted.                       *)
(***************************************************************************)
LEMMA Inserted ==
  ASSUME NEW T, NEW s \in Seq(T), NEW i \in 1 .. Len(s) + 1, NEW e \in T
  PROVE  /\ InsertAt(s, i, e) \in Seq(T)
         /\ Len(InsertAt(s, i, e)) = Len(s) + 1
         /\ \A k \in 1 .. Len(s) + 1 :
              InsertAt(s, i, e)[k] = IF k < i THEN s[k]
                                     ELSE IF k = i THEN e ELSE s[k - 1]
<1>. DEFINE a == SubSeq(s, 1, i - 1)
            b == SubSeq(s, i, Len(s))
<1>1. Len(s) \in Nat /\ i \in Nat
  BY LenProperties
<1>2. a \in Seq(T) /\ Len(a) = i - 1 /\ \A k \in 1 .. i - 1 : a[k] = s[k]
  BY <1>1
<1>3. /\ b \in Seq(T) /\ Len(b) = Len(s) - i + 1
      /\ \A k \in 1 .. Len(s) - i + 1 : b[k] = s[i + k - 1]
  BY <1>1
<1>4. <<e>> \in Seq(T) /\ Len(<<e>>) = 1 /\ <<e>>[1] = e
  OBVIOUS
<1>. HIDE DEF a, b
<1>. DEFINE c == a \o <<e>>
<1>5. /\ c \in Seq(T) /\ Len(c) = i
      /\ \A k \in 1 .. i : c[k] = IF k < i THEN s[k] ELSE e
  <2>1. /\ c \in Seq(T) /\ Len(c) = Len(a) + Len(<<e>>)
        /\ \A k \in 1 .. Len(a) + Len(<<e>>) :
             c[k] = IF k <= Len(a) THEN a[k] ELSE <<e>>[k - Len(a)]
    BY <1>2, <1>4, ConcatProperties
  <2>. HIDE DEF c
  <2>. QED
    BY <1>1, <1>2, <1>4, <2>1
<1>. HIDE DEF c
<1>6. /\ c \o b \in Seq(T) /\ Len(c \o b) = Len(c) + Len(b)
      /\ \A k \in 1 .. Len(c) + Len(b) :
           (c \o b)[k] = IF k <= Len(c) THEN c[k] ELSE b[k - Len(c)]
  BY <1>3, <1>5, ConcatProperties
<1>7. InsertAt(s, i, e) = c \o b
  BY DEF InsertAt, a, b, c
<1>8. Len(c) + Len(b) = Len(s) + 1
  BY <1>1, <1>3, <1>5
<1>9. ASSUME NEW k \in 1 .. Len(s) + 1
      PROVE  (c \o b)[k] = IF k < i THEN s[k] ELSE IF k = i THEN e ELSE s[k - 1]
  <2>1. CASE k <= i
    BY <1>1, <1>5, <1>6, <1>8, <2>1
  <2>2. CASE k > i
    <3>1. (c \o b)[k] = b[k - i] /\ k - i \in 1 .. Len(s) - i + 1
      <4>1. k \in 1 .. Len(c) + Len(b) /\ ~(k <= Len(c)) /\ Len(c) = i
        BY <1>1, <1>5, <1>8, <2>2
      <4>2. (c \o b)[k] = b[k - Len(c)]
        BY <1>6, <4>1
      <4>3. k - i \in 1 .. Len(s) - i + 1
        BY <1>1, <2>2
      <4>. QED
        BY <4>1, <4>2, <4>3
    <3>2. b[k - i] = s[k - 1]
      <4>1. i + (k - i) - 1 = k - 1
        BY <1>1
      <4>. QED
        BY <1>3, <3>1, <4>1
    <3>. QED
      BY <1>1, <2>2, <3>1, <3>2
  <2>3. k <= i \/ k > i
    BY <1>1
  <2>. QED
    BY ONLY <2>1, <2>2, <2>3
<1>. QED
  BY <1>6, <1>7, <1>8, <1>9

(***************************************************************************)
(* The members of a sequence after one was removed.                        *)
(***************************************************************************)
LEMMA Removed ==
  ASSUME NEW T, NEW s \in Seq(T), NEW i \in 1 .. Len(s)
  PROVE  /\ RemoveAt(s, i) \in Seq(T)
         /\ Len(RemoveAt(s, i)) = Len(s) - 1
         /\ \A k \in 1 .. Len(s) - 1 :
              RemoveAt(s, i)[k] = IF k < i THEN s[k] ELSE s[k + 1]
<1>. DEFINE a == SubSeq(s, 1, i - 1)
            b == SubSeq(s, i + 1, Len(s))
<1>1. Len(s) \in Nat /\ i \in Nat
  BY LenProperties
<1>2. a \in Seq(T) /\ Len(a) = i - 1 /\ \A k \in 1 .. i - 1 : a[k] = s[k]
  BY <1>1
<1>3. /\ b \in Seq(T) /\ Len(b) = Len(s) - i
      /\ \A k \in 1 .. Len(s) - i : b[k] = s[i + k]
  BY <1>1
<1>. HIDE DEF a, b
<1>4. /\ a \o b \in Seq(T) /\ Len(a \o b) = Len(a) + Len(b)
      /\ \A k \in 1 .. Len(a) + Len(b) :
           (a \o b)[k] = IF k <= Len(a) THEN a[k] ELSE b[k - Len(a)]
  BY <1>2, <1>3, ConcatProperties
<1>5. RemoveAt(s, i) = a \o b
  BY DEF RemoveAt, a, b
<1>6. Len(a) + Len(b) = Len(s) - 1
  BY <1>1, <1>2, <1>3
<1>7. ASSUME NEW k \in 1 .. Len(s) - 1
      PROVE  (a \o b)[k] = IF k < i THEN s[k] ELSE s[k + 1]
  <2>1. CASE k < i
    BY <1>1, <1>2, <1>4, <1>6, <2>1
  <2>2. CASE k >= i
    <3>1. (a \o b)[k] = b[k - (i - 1)] /\ k - (i - 1) \in 1 .. Len(s) - i
      <4>1. k \in 1 .. Len(a) + Len(b) /\ ~(k <= Len(a)) /\ Len(a) = i - 1
        BY <1>1, <1>2, <1>6, <2>2
      <4>2. (a \o b)[k] = b[k - Len(a)]
        BY <1>4, <4>1
      <4>3. k - (i - 1) \in 1 .. Len(s) - i
        BY <1>1, <2>2
      <4>. QED
        BY <4>1, <4>2, <4>3
    <3>2. i + (k - (i - 1)) = k + 1
      BY <1>1
    <3>. QED
      BY <1>1, <1>3, <2>2, <3>1, <3>2
  <2>3. k < i \/ k >= i
    BY <1>1
  <2>. QED
    BY ONLY <2>1, <2>2, <2>3
<1>. QED
  BY <1>4, <1>5, <1>6, <1>7

(***************************************************************************)
(* The members of a sequence whose first m were taken.                     *)
(***************************************************************************)
LEMMA Taken ==
  ASSUME NEW T, NEW s \in Seq(T), NEW m \in 0 .. Len(s)
  PROVE  /\ SubSeq(s, m + 1, Len(s)) \in Seq(T)
         /\ Len(SubSeq(s, m + 1, Len(s))) = Len(s) - m
         /\ \A k \in 1 .. Len(s) - m : SubSeq(s, m + 1, Len(s))[k] = s[m + k]
<1>1. Len(s) \in Nat /\ m \in Nat
  BY LenProperties
<1>. QED
  BY <1>1

(***************************************************************************)
(* A sequence without repetition is as long as the set of its members.     *)
(***************************************************************************)
LEMMA DistinctLength ==
  ASSUME NEW T, NEW s \in Seq(T), Distinct(s)
  PROVE  IsFiniteSet(Range(s)) /\ Cardinality(Range(s)) = Len(s)
<1>1. Len(s) \in Nat /\ s \in [1 .. Len(s) -> T]
  BY LenProperties
<1>2. Range(s) = {s[i] : i \in 1 .. Len(s)}
  BY RangeEquality
<1>3. s \in [1 .. Len(s) -> Range(s)]
  BY <1>1, <1>2
<1>4. s \in Injection(1 .. Len(s), Range(s)) /\ s \in Surjection(1 .. Len(s), Range(s))
  BY <1>2, <1>3 DEF Distinct, Injection, IsInjective, Surjection
<1>5. IsFiniteSet(1 .. Len(s)) /\ Cardinality(1 .. Len(s)) = Len(s)
  BY <1>1, Initial
<1>6. ExistsBijection(1 .. Len(s), Range(s))
  BY <1>4 DEF ExistsBijection, Bijection
<1>. QED
  BY <1>5, <1>6, FS_Bijection

\* The waiter at position i is not cancelled.
LiveAt(w, st, i) == st[CommandOf[w[i]]] # "cancelled"

(***************************************************************************)
(* processQueue takes the waiters from the front: as many who are not      *)
(* cancelled as there are permits, or everybody.                           *)
(***************************************************************************)
LEMMA ServeSplits ==
  ASSUME NEW w \in Seq(Delivery), Distinct(w), NEW free \in Nat, NEW st
  PROVE  \E m \in 0 .. Len(w) :
           /\ Serve(w, free, st).left = SubSeq(w, m + 1, Len(w))
           /\ Serve(w, free, st).granted =
                {w[i] : i \in {j \in 1 .. m : LiveAt(w, st, j)}}
           /\ Serve(w, free, st).refused =
                {w[i] : i \in {j \in 1 .. m : ~LiveAt(w, st, j)}}
           /\ IsFiniteSet(Serve(w, free, st).granted)
           /\ Cardinality(Serve(w, free, st).granted) \in 0 .. free
           /\ m < Len(w) => Cardinality(Serve(w, free, st).granted) = free
<1>. DEFINE L(i) == {j \in 1 .. i : LiveAt(w, st, j)}
            taken == {i \in 1 .. Len(w) : Cardinality(L(i - 1)) < free}
            m == Cardinality(taken)
            granted == {w[i] : i \in {j \in taken : LiveAt(w, st, j)}}
            refused == {w[i] : i \in {j \in taken : ~LiveAt(w, st, j)}}
<1>1. Len(w) \in Nat /\ \A i \in 1 .. Len(w) : w[i] \in Delivery
  BY LenProperties, ElementOfSeq
<1>2. /\ Serve(w, free, st).left = SubSeq(w, m + 1, Len(w))
      /\ Serve(w, free, st).granted = granted
      /\ Serve(w, free, st).refused = refused
  BY DEF Serve, LiveAt
<1>3. ASSUME NEW i \in Nat
      PROVE  IsFiniteSet(L(i)) /\ Cardinality(L(i)) \in Nat
  <2>1. IsFiniteSet(1 .. i)
    BY Initial
  <2>2. L(i) \in SUBSET (1 .. i)
    OBVIOUS
  <2>. QED
    BY <2>1, <2>2, FS_Subset, FS_CardinalityType
<1>4. ASSUME NEW i \in Nat, NEW k \in Nat, i <= k
      PROVE  Cardinality(L(i)) <= Cardinality(L(k))
  <2>1. L(i) \in SUBSET L(k)
    <3>. SUFFICES ASSUME NEW j \in L(i) PROVE j \in L(k)
      OBVIOUS
    <3>1. j \in 1 .. i /\ LiveAt(w, st, j)
      OBVIOUS
    <3>2. j \in 1 .. k
      BY <1>4, <3>1
    <3>. QED
      BY <3>1, <3>2
  <2>2. IsFiniteSet(L(k))
    BY <1>3
  <2>. HIDE DEF L
  <2>. QED
    BY <2>1, <2>2, FS_Subset
<1>5. \A i \in 1 .. Len(w) : i \in taken <=> Cardinality(L(i - 1)) < free
  OBVIOUS
<1>. HIDE DEF L
<1>6. taken = 1 .. m /\ m \in 0 .. Len(w)
  <2>1. taken \in SUBSET (1 .. Len(w))
    OBVIOUS
  <2>2. IsFiniteSet(1 .. Len(w)) /\ Cardinality(1 .. Len(w)) = Len(w)
    BY <1>1, Initial
  <2>3. IsFiniteSet(taken) /\ m \in Nat /\ m <= Len(w)
    BY <2>1, <2>2, FS_Subset, FS_CardinalityType
  <2>. HIDE DEF taken
  <2>4. ASSUME NEW i \in taken PROVE i \in 1 .. m
    <3>1. i \in 1 .. Len(w) /\ i \in Nat
      BY <2>1
    <3>2. ASSUME NEW k \in 1 .. i PROVE k \in taken
      <4>1. k \in 1 .. Len(w) /\ k - 1 \in Nat /\ i - 1 \in Nat /\ k - 1 <= i - 1
        BY <1>1, <3>1
      <4>2. /\ Cardinality(L(k - 1)) <= Cardinality(L(i - 1))
            /\ Cardinality(L(k - 1)) \in Nat /\ Cardinality(L(i - 1)) \in Nat
        BY <1>3, <1>4, <4>1
      <4>3. Cardinality(L(i - 1)) < free
        BY <1>5, <3>1
      <4>4. Cardinality(L(k - 1)) < free
        BY <4>2, <4>3
      <4>. QED
        BY <1>5, <4>1, <4>4
    <3>3. (1 .. i) \in SUBSET taken
      BY <3>2
    <3>4. Cardinality(1 .. i) = i /\ Cardinality(1 .. i) <= Cardinality(taken)
      BY <2>3, <3>1, <3>3, FS_Subset, Initial
    <3>. QED
      BY <2>3, <3>1, <3>4
  <2>5. taken \in SUBSET (1 .. m)
    BY <2>4
  <2>6. IsFiniteSet(1 .. m) /\ Cardinality(1 .. m) = m
    BY <2>3, Initial
  <2>7. taken = 1 .. m
    BY <2>5, <2>6, FS_Subset
  <2>. QED
    BY <1>1, <2>3, <2>7
<1>. HIDE DEF m, taken
<1>7. granted = {w[i] : i \in L(m)}
  BY <1>6 DEF L
<1>8. IsFiniteSet(granted) /\ Cardinality(granted) = Cardinality(L(m))
  <2>. DEFINE f == [i \in L(m) |-> w[i]]
  <2>1. \A i \in L(m) : i \in 1 .. Len(w)
    BY <1>1, <1>6 DEF L
  <2>2. f \in Bijection(L(m), granted)
    BY <1>7, <2>1 DEF Distinct, Bijection, Injection, Surjection, IsInjective
  <2>3. IsFiniteSet(L(m))
    BY <1>3, <1>6
  <2>4. ExistsBijection(L(m), granted)
    BY <2>2 DEF ExistsBijection
  <2>. QED
    BY <2>3, <2>4, FS_Bijection
<1>9. m \in Nat /\ Cardinality(L(m)) \in Nat
  BY <1>3, <1>6
<1>10. Cardinality(L(m)) <= free
  <2>1. CASE m = 0
    <3>1. L(m) = {}
      BY <2>1 DEF L
    <3>. QED
      BY <3>1, FS_EmptySet
  <2>2. CASE m # 0
    <3>1. m \in taken /\ m \in 1 .. Len(w) /\ m - 1 \in Nat
      BY <1>1, <1>6, <2>2
    <3>2. /\ Cardinality(L(m - 1)) < free /\ Cardinality(L(m - 1)) \in Nat
          /\ IsFiniteSet(L(m - 1))
      BY <1>3, <1>5, <3>1
    <3>3. L(m) \in SUBSET (L(m - 1) \cup {m})
      BY <3>1 DEF L
    <3>4. /\ IsFiniteSet(L(m - 1) \cup {m})
          /\ Cardinality(L(m - 1) \cup {m}) <= Cardinality(L(m - 1)) + 1
      <4>1. /\ IsFiniteSet(L(m - 1) \cup {m})
            /\ Cardinality(L(m - 1) \cup {m}) =
                 IF m \in L(m - 1) THEN Cardinality(L(m - 1))
                 ELSE Cardinality(L(m - 1)) + 1
        BY <3>2, FS_AddElement
      <4>. QED
        BY <3>2, <4>1
    <3>5. Cardinality(L(m)) <= Cardinality(L(m - 1) \cup {m})
      BY <3>3, <3>4, FS_Subset
    <3>6. Cardinality(L(m - 1) \cup {m}) \in Nat
      BY <3>4, FS_CardinalityType
    <3>. QED
      BY <1>9, <3>2, <3>4, <3>5, <3>6
  <2>. QED
    BY <2>1, <2>2
<1>11. m < Len(w) => Cardinality(L(m)) = free
  <2>. SUFFICES ASSUME m < Len(w) PROVE Cardinality(L(m)) = free
    OBVIOUS
  <2>1. m + 1 \in 1 .. Len(w) /\ m + 1 \notin taken /\ (m + 1) - 1 = m
    BY <1>1, <1>6, <1>9
  <2>2. ~(Cardinality(L(m)) < free)
    BY <1>5, <2>1
  <2>. QED
    BY <1>9, <1>10, <2>2
<1>12. refused = {w[i] : i \in {j \in 1 .. m : ~LiveAt(w, st, j)}}
  BY <1>6
<1>13. granted = {w[i] : i \in {j \in 1 .. m : LiveAt(w, st, j)}}
  BY <1>6
<1>. QED
  <2>1. Cardinality(granted) \in 0 .. free
    BY <1>8, <1>9, <1>10
  <2>2. m < Len(w) => Cardinality(granted) = free
    BY <1>8, <1>11
  <2>. HIDE DEF granted, refused
  <2>3. m \in 0 .. Len(w)
    BY <1>6
  <2>. QED
    BY <1>2, <1>8, <1>12, <1>13, <2>1, <2>2, <2>3

(***************************************************************************)
(* A new member at the end of a sequence without repetition.               *)
(***************************************************************************)
LEMMA AppendHas ==
  ASSUME NEW T, NEW s \in Seq(T), NEW e \in T
  PROVE  /\ Append(s, e) \in Seq(T) /\ Len(Append(s, e)) = Len(s) + 1
         /\ Range(Append(s, e)) = Range(s) \cup {e}
         /\ Distinct(s) /\ e \notin Range(s) => Distinct(Append(s, e))
<1>. DEFINE r == Append(s, e)
<1>1. /\ Len(s) \in Nat /\ r \in Seq(T) /\ Len(r) = Len(s) + 1
      /\ \A i \in 1 .. Len(s) : r[i] = s[i]
      /\ r[Len(s) + 1] = e
  BY AppendProperties, LenProperties
<1>. HIDE DEF r
<1>2. Range(s) = {s[i] : i \in 1 .. Len(s)} /\ Range(r) = {r[i] : i \in 1 .. Len(r)}
  BY <1>1, RangeEquality
<1>3. \A i \in 1 .. Len(r) : i \in 1 .. Len(s) \/ i = Len(s) + 1
  BY <1>1
<1>4. Range(r) = Range(s) \cup {e}
  <2>1. ASSUME NEW x \in Range(r) PROVE x \in Range(s) \cup {e}
    <3>1. PICK i \in 1 .. Len(r) : x = r[i]
      BY <1>2
    <3>. QED
      BY <1>1, <1>2, <1>3, <3>1
  <2>2. ASSUME NEW x \in Range(s) PROVE x \in Range(r)
    <3>1. PICK i \in 1 .. Len(s) : x = s[i]
      BY <1>2
    <3>2. i \in 1 .. Len(r) /\ r[i] = x
      BY <1>1, <3>1
    <3>. QED
      BY <1>2, <3>2
  <2>3. e \in Range(r)
    <3>1. Len(s) + 1 \in 1 .. Len(r)
      BY <1>1
    <3>. QED
      BY <1>1, <1>2, <3>1
  <2>. QED
    BY <2>1, <2>2, <2>3
<1>5. ASSUME Distinct(s), e \notin Range(s),
             NEW i \in 1 .. Len(r), NEW j \in 1 .. Len(r), r[i] = r[j]
      PROVE  i = j
  BY <1>1, <1>2, <1>3, <1>5 DEF Distinct
<1>. QED
  BY <1>1, <1>4, <1>5 DEF Distinct, r

(***************************************************************************)
(* The oldest member of a sequence leaves it.                              *)
(***************************************************************************)
LEMMA TailHas ==
  ASSUME NEW T, NEW s \in Seq(T), s # <<>>
  PROVE  /\ Tail(s) \in Seq(T) /\ Len(Tail(s)) = Len(s) - 1
         /\ Range(Tail(s)) \subseteq Range(s)
         /\ Range(s) \subseteq Range(Tail(s)) \cup {Head(s)}
         /\ Distinct(s) => Distinct(Tail(s))
<1>. DEFINE r == Tail(s)
<1>1. /\ Len(s) \in Nat /\ r \in Seq(T) /\ Len(r) = Len(s) - 1
      /\ \A i \in 1 .. Len(r) : r[i] = s[i + 1]
  BY HeadTailProperties, LenProperties
<1>0. Head(s) = s[1]
  OBVIOUS
<1>. HIDE DEF r
<1>2. Range(s) = {s[i] : i \in 1 .. Len(s)} /\ Range(r) = {r[i] : i \in 1 .. Len(r)}
  BY <1>1, RangeEquality
<1>3. \A i \in 1 .. Len(r) : i + 1 \in 1 .. Len(s)
  BY <1>1
<1>4. Range(r) \subseteq Range(s)
  BY <1>1, <1>2, <1>3
<1>5. ASSUME Distinct(s), NEW i \in 1 .. Len(r), NEW j \in 1 .. Len(r), r[i] = r[j]
      PROVE  i = j
  <2>1. i + 1 = j + 1
    BY <1>1, <1>3, <1>5 DEF Distinct
  <2>. QED
    BY <2>1
<1>6. ASSUME NEW x \in Range(s), x # Head(s) PROVE x \in Range(r)
  <2>1. PICK i \in 1 .. Len(s) : x = s[i]
    BY <1>2
  <2>2. i # 1
    BY <1>0, <1>6, <2>1
  <2>3. i - 1 \in 1 .. Len(r) /\ (i - 1) + 1 = i
    BY <1>1, <2>2
  <2>4. r[i - 1] = x
    BY <1>1, <2>1, <2>3
  <2>. QED
    BY <1>2, <2>3, <2>4
<1>. QED
  BY <1>1, <1>4, <1>5, <1>6 DEF Distinct, r

-----------------------------------------------------------------------------
(***************************************************************************)
(* The dedupe store.                                                       *)
(***************************************************************************)

\* A command that the time to live does not collect.
Keeps(c) == c \notin expired \/ entry[c].state = "pending"

(***************************************************************************)
(* evictExpired keeps the order and the pending claims.                    *)
(***************************************************************************)
LEMMA KeptHas ==
  ASSUME remembered \in Seq(Command), Distinct(remembered)
  PROVE  /\ Kept \in Seq(Command) /\ Distinct(Kept)
         /\ Len(Kept) <= Len(remembered)
         /\ \A c : c \in Range(Kept) <=> c \in Range(remembered) /\ Keeps(c)
         /\ Range(Kept) \subseteq Command
<1>. DEFINE K == {c \in Command : Keeps(c)}
<1>1. Kept = Filtered(remembered, K)
  BY DEF Kept, Keeps
<1>2. \A c : c \in K <=> c \in Command /\ Keeps(c)
  OBVIOUS
<1>. HIDE DEF K
<1>3. /\ Kept \in Seq(Command) /\ Distinct(Kept)
      /\ Len(Kept) <= Len(remembered)
      /\ Range(Kept) = Range(remembered) \cap K
  BY <1>1, FilteredHas
<1>4. Range(remembered) \in SUBSET Command
  BY RangeOfSeq
<1>. QED
  BY <1>2, <1>3, <1>4

(***************************************************************************)
(* A replayed or joined command becomes the youngest.                      *)
(***************************************************************************)
LEMMA RefreshedHas ==
  ASSUME remembered \in Seq(Command), Distinct(remembered),
         NEW c \in Command, c \in Range(Kept)
  PROVE  /\ Refreshed(c) \in Seq(Command) /\ Distinct(Refreshed(c))
         /\ Len(Refreshed(c)) <= Len(remembered)
         /\ Range(Refreshed(c)) = Range(Kept)
<1>. DEFINE s == Filtered(Kept, Command \ {c})
<1>1. /\ Kept \in Seq(Command) /\ Distinct(Kept) /\ Range(Kept) \subseteq Command
      /\ Len(Kept) <= Len(remembered)
  BY KeptHas
<1>2. /\ s \in Seq(Command) /\ Distinct(s)
      /\ Range(s) = Range(Kept) \cap (Command \ {c})
  BY <1>1, FilteredHas
<1>3. Refreshed(c) = Append(s, c)
  BY DEF Refreshed
<1>. HIDE DEF s
<1>4. c \notin Range(s)
  BY <1>2
<1>5. /\ Refreshed(c) \in Seq(Command) /\ Distinct(Refreshed(c))
      /\ Range(Refreshed(c)) = Range(s) \cup {c}
  BY <1>2, <1>3, <1>4, AppendHas
<1>6. Range(Refreshed(c)) = Range(Kept)
  BY <1>1, <1>2, <1>5
<1>7. Len(Refreshed(c)) = Len(Kept)
  BY <1>1, <1>5, <1>6, DistinctLength
<1>. QED
  BY <1>1, <1>5, <1>6, <1>7

\* The store in which a new command is claimed.
Room == IF Len(Kept) >= MaxEntries THEN Tail(Kept) ELSE Kept

(***************************************************************************)
(* A new claim fits the store; it pushes out at most the oldest entry, and *)
(* that only when the store is full.                                       *)
(***************************************************************************)
LEMMA ClaimedHas ==
  ASSUME remembered \in Seq(Command), Distinct(remembered),
         Len(remembered) <= MaxEntries, NEW c \in Command, c \notin Range(Kept)
  PROVE  /\ Append(Room, c) \in Seq(Command) /\ Distinct(Append(Room, c))
         /\ Len(Append(Room, c)) <= MaxEntries
         /\ Range(Append(Room, c)) \subseteq Range(Kept) \cup {c}
         /\ c \in Range(Append(Room, c))
         /\ \A o \in Range(Kept) :
              (Len(Kept) >= MaxEntries => o # Head(Kept)) => o \in Range(Append(Room, c))
<1>1. /\ Kept \in Seq(Command) /\ Distinct(Kept) /\ Len(Kept) <= Len(remembered)
      /\ Len(Kept) \in Nat /\ Len(remembered) \in Nat
  BY KeptHas, LenProperties
<1>2. MaxEntries \in Nat /\ MaxEntries > 0
  BY PipelineAssumption
<1>3. /\ Room \in Seq(Command) /\ Distinct(Room) /\ Len(Room) < MaxEntries
      /\ Range(Room) \subseteq Range(Kept)
      /\ \A o \in Range(Kept) :
           (Len(Kept) >= MaxEntries => o # Head(Kept)) => o \in Range(Room)
  <2>1. CASE Len(Kept) >= MaxEntries
    <3>1. Room = Tail(Kept)
      BY <1>1, <1>2, <2>1 DEF Room
    <3>2. Kept # <<>>
      BY <1>1, <1>2, <2>1, EmptySeq
    <3>3. /\ Tail(Kept) \in Seq(Command) /\ Distinct(Tail(Kept))
          /\ Len(Tail(Kept)) = Len(Kept) - 1
          /\ Range(Tail(Kept)) \subseteq Range(Kept)
          /\ Range(Kept) \subseteq Range(Tail(Kept)) \cup {Head(Kept)}
      BY <1>1, <3>2, TailHas
    <3>. QED
      BY <1>1, <1>2, <2>1, <3>1, <3>3
  <2>2. CASE ~(Len(Kept) >= MaxEntries)
    BY <1>1, <1>2, <2>2 DEF Room
  <2>. QED
    BY <2>1, <2>2
<1>4. Len(Room) \in Nat
  BY <1>3, LenProperties
<1>5. c \notin Range(Room)
  BY <1>3
<1>6. /\ Append(Room, c) \in Seq(Command) /\ Distinct(Append(Room, c))
      /\ Len(Append(Room, c)) = Len(Room) + 1
      /\ Range(Append(Room, c)) = Range(Room) \cup {c}
  BY <1>3, <1>5, AppendHas
<1>. QED
  BY <1>2, <1>3, <1>4, <1>6

-----------------------------------------------------------------------------
(***************************************************************************)
(* The queue.                                                              *)
(***************************************************************************)

Running == {d \in Delivery : pc[d] \in Active}

\* The commands that are delivered at all.
Sent == {CommandOf[d] : d \in Delivery}

Queue ==
  /\ Distinct(waiting)
  /\ \A d \in Delivery : pc[d] = "waiting" <=> d \in Range(waiting)
  /\ runningCount = Cardinality(Running)
  /\ waiting # <<>> => runningCount = MaxConcurrency

\* d may be served before e, when their commands were enqueued `at`.
Ahead(at, d, e) ==
  \/ Priority(CommandOf[d]) > Priority(CommandOf[e])
  \/ /\ Priority(CommandOf[d]) = Priority(CommandOf[e])
     /\ at[CommandOf[d]] <= at[CommandOf[e]]

\* The waiters stand in the order in which they are served, and the queue has
\* the entries of their commands.
InTurn ==
  /\ \A i, j \in 1 .. Len(waiting) : i < j => Ahead(enqueuedAt, waiting[i], waiting[j])
  /\ \A i \in 1 .. Len(waiting) : status[CommandOf[waiting[i]]] # "none"

\* Bus, store and queue know of delivered commands only.
Delivered ==
  /\ Range(remembered) \subseteq Sent
  /\ \A c \in Command : status[c] # "none" => c \in Sent

QueueInv == TypeOK /\ Distinct(remembered) /\ Queue /\ InTurn /\ Delivered

PcType == {"idle", "admitted", "joined", "replied"} \cup Past

ReplyType == {"none", "refused"} \cup Receipt

StatusType == {"none", "queued", "running", "committing",
               "completed", "failed", "cancelled"}

(***************************************************************************)
(* Commands of deliveries are commands, and finitely many.                 *)
(***************************************************************************)
LEMMA SentFinite ==
  /\ \A d \in Delivery : CommandOf[d] \in Command /\ CommandOf[d] \in Sent
  /\ Sent \in SUBSET Command /\ IsFiniteSet(Sent)
<1>1. CommandOf \in [Delivery -> Command] /\ IsFiniteSet(Delivery)
  BY PipelineAssumption
<1>2. CommandOf \in Surjection(Delivery, Sent)
  BY <1>1 DEF Sent, Surjection
<1>3. IsFiniteSet(Sent)
  BY <1>1, <1>2, FS_Surjection
<1>. QED
  BY <1>1, <1>3 DEF Sent

(***************************************************************************)
(* Those who hold a permit are finitely many.                              *)
(***************************************************************************)
LEMMA RunningFinite ==
  IsFiniteSet(Running) /\ Cardinality(Running) \in Nat
<1>1. Running \in SUBSET Delivery /\ IsFiniteSet(Delivery)
  BY PipelineAssumption DEF Running
<1>. QED
  BY <1>1, FS_Subset, FS_CardinalityType

(***************************************************************************)
(* The order of service is transitive.                                     *)
(***************************************************************************)
LEMMA AheadOrders ==
  ASSUME NEW at \in [Command -> Nat],
         NEW d \in Delivery, NEW e \in Delivery, NEW f \in Delivery
  PROVE  Ahead(at, d, e) /\ Ahead(at, e, f) => Ahead(at, d, f)
<1>1. /\ at[CommandOf[d]] \in Nat /\ at[CommandOf[e]] \in Nat
      /\ at[CommandOf[f]] \in Nat
  BY SentFinite
<1>2. /\ Priority(CommandOf[d]) \in Nat /\ Priority(CommandOf[e]) \in Nat
      /\ Priority(CommandOf[f]) \in Nat
  BY DEF Priority
<1>. QED
  BY <1>1, <1>2 DEF Ahead

(***************************************************************************)
(* An answer is one of the answers.                                        *)
(***************************************************************************)
LEMMA AnswerTypes ==
  ASSUME TypeOK, NEW D, NEW r \in ReplyType, Answer(D, r)
  PROVE  /\ pc' \in [Delivery -> PcType] /\ reply' \in [Delivery -> ReplyType]
         /\ \A d \in Delivery :
              /\ pc'[d] = IF d \in D THEN "replied" ELSE pc[d]
              /\ reply'[d] = IF d \in D THEN r ELSE reply[d]
BY DEF TypeOK, Answer, PcType, ReplyType

(***************************************************************************)
(* A step in which nobody begins or ceases to wait or to hold a permit.    *)
(***************************************************************************)
LEMMA QueueStays ==
  ASSUME Queue, UNCHANGED <<waiting, runningCount>>,
         \A d \in Delivery : /\ pc'[d] = "waiting" <=> pc[d] = "waiting"
                             /\ pc'[d] \in Active <=> pc[d] \in Active
  PROVE  Queue'
<1>1. Running' = Running
  BY DEF Running
<1>. QED
  BY <1>1 DEF Queue

(***************************************************************************)
(* The turns stay while nobody comes or goes.                              *)
(***************************************************************************)
LEMMA InTurnStays ==
  ASSUME InTurn, UNCHANGED <<waiting, enqueuedAt>>, waiting \in Seq(Delivery),
         \A c \in Command : status'[c] = "none" => status[c] = "none"
  PROVE  InTurn'
<1>1. \A i \in 1 .. Len(waiting) : CommandOf[waiting[i]] \in Command
  BY SentFinite, ElementOfSeq
<1>. QED
  BY <1>1 DEF InTurn, Ahead

(***************************************************************************)
(* Admission, refusal and a disabled bus leave store and queue alone.      *)
(***************************************************************************)
LEMMA AdmissionKeepsQueue ==
  ASSUME QueueInv,
         \/ \E d \in Delivery : Admit(d) \/ Refuse(d)
         \/ \E b \in BOOLEAN : SetMutationsEnabled(b)
         \/ UNCHANGED vars
  PROVE  QueueInv'
<1>1. UNCHANGED <<dedupeVars, queueVars, performed>>
  BY DEF Admit, Refuse, SetMutationsEnabled, vars
<1>2. /\ pc' \in [Delivery -> PcType] /\ reply' \in [Delivery -> ReplyType]
      /\ fingerprint' \in [Delivery -> Fingerprint \cup {"none"}]
      /\ mutationsEnabled' \in BOOLEAN
      /\ \A e \in Delivery : /\ pc'[e] = "waiting" <=> pc[e] = "waiting"
                             /\ pc'[e] \in Active <=> pc[e] \in Active
  <2>1. ASSUME NEW d \in Delivery, Admit(d)
        PROVE  <1>2!:
    <3>1. PICK f \in ContentOf[d] : fingerprint' = [fingerprint EXCEPT ![d] = f]
      BY <2>1 DEF Admit
    <3>2. f \in Fingerprint
      BY <3>1 DEF Fingerprint
    <3>3. fingerprint' \in [Delivery -> Fingerprint \cup {"none"}]
      BY <3>1, <3>2 DEF QueueInv, TypeOK
    <3>. QED
      BY <2>1, <3>3 DEF Admit, QueueInv, TypeOK, PcType, ReplyType, Past, Active
  <2>2. ASSUME NEW d \in Delivery, Refuse(d)
        PROVE  <1>2!:
    <3>1. pc[d] \in {"idle", "admitted"} /\ Answer({d}, "refused")
          /\ UNCHANGED <<fingerprint, mutationsEnabled>>
      BY <2>2 DEF Refuse
    <3>2. "refused" \in ReplyType
      BY DEF ReplyType
    <3>. QED
      BY <3>1, <3>2, AnswerTypes DEF QueueInv, TypeOK, Active
  <2>3. ASSUME NEW b \in BOOLEAN, SetMutationsEnabled(b)
        PROVE  <1>2!:
    BY <2>3 DEF SetMutationsEnabled, QueueInv, TypeOK, PcType, ReplyType
  <2>4. ASSUME UNCHANGED vars
        PROVE  <1>2!:
    BY <2>4 DEF vars, QueueInv, TypeOK, PcType, ReplyType
  <2>. QED
    BY <2>1, <2>2, <2>3, <2>4
<1>3. TypeOK'
  BY <1>1, <1>2 DEF QueueInv, TypeOK, PcType, ReplyType, dedupeVars, queueVars
<1>4. Queue'
  BY <1>1, <1>2, QueueStays DEF QueueInv, queueVars
<1>5. InTurn' /\ Delivered' /\ Distinct(remembered)'
  BY <1>1 DEF QueueInv, InTurn, Ahead, Delivered, Distinct, dedupeVars, queueVars
<1>. QED
  BY <1>3, <1>4, <1>5 DEF QueueInv

(***************************************************************************)
(* A duplicate that is refused, replayed or joined, and the time to live,  *)
(* touch the store only.                                                   *)
(***************************************************************************)
LEMMA StoreKeepsQueue ==
  ASSUME QueueInv,
         \/ \E d \in Delivery : ClaimMismatch(d) \/ ClaimReplay(d) \/ ClaimJoin(d)
         \/ \E c \in Command : Expire(c)
  PROVE  QueueInv'
<1>1. UNCHANGED <<entry, queueVars, performed, fingerprint, mutationsEnabled>>
  BY DEF ClaimMismatch, ClaimReplay, ClaimJoin, Expire
<1>2. /\ remembered \in Seq(Command) /\ Distinct(remembered)
      /\ Len(remembered) <= MaxEntries /\ Len(remembered) \in Nat
      /\ MaxEntries \in Nat
  BY PipelineAssumption, LenProperties DEF QueueInv, TypeOK
<1>3. /\ Kept \in Seq(Command) /\ Distinct(Kept) /\ Len(Kept) <= Len(remembered)
      /\ Len(Kept) \in Nat /\ Range(Kept) \subseteq Range(remembered)
  BY <1>2, KeptHas, LenProperties
<1>. DEFINE Stored ==
       /\ remembered' \in Seq(Command) /\ Distinct(remembered')
       /\ Len(remembered') <= MaxEntries /\ expired' \subseteq Range(remembered')
       /\ Range(remembered') \subseteq Range(remembered)
            Answered ==
       /\ pc' \in [Delivery -> PcType] /\ reply' \in [Delivery -> ReplyType]
       /\ awaits' \in [Delivery -> Delivery \cup {NoDelivery}]
       /\ \A e \in Delivery : /\ pc'[e] = "waiting" <=> pc[e] = "waiting"
                              /\ pc'[e] \in Active <=> pc[e] \in Active
<1>4. ASSUME NEW d \in Delivery, Remembers(d)
      PROVE  /\ Refreshed(CommandOf[d]) \in Seq(Command)
             /\ Distinct(Refreshed(CommandOf[d]))
             /\ Len(Refreshed(CommandOf[d])) <= MaxEntries
             /\ Range(Refreshed(CommandOf[d])) \subseteq Range(remembered)
  <2>1. CommandOf[d] \in Command /\ CommandOf[d] \in Range(Kept)
    BY <1>4, SentFinite DEF Remembers
  <2>2. /\ Refreshed(CommandOf[d]) \in Seq(Command)
        /\ Distinct(Refreshed(CommandOf[d]))
        /\ Len(Refreshed(CommandOf[d])) <= Len(remembered)
        /\ Range(Refreshed(CommandOf[d])) = Range(Kept)
    BY <1>2, <2>1, RefreshedHas
  <2>3. Len(Refreshed(CommandOf[d])) \in Nat
    BY <2>2, LenProperties
  <2>. QED
    BY <1>2, <1>3, <2>2, <2>3
<1>5. ASSUME NEW s \in Seq(Command), Distinct(s), Len(s) <= MaxEntries,
             Range(s) \subseteq Range(remembered), Remember(s)
      PROVE  Stored
  BY <1>5 DEF Remember
<1>6. ASSUME NEW d \in Delivery, ClaimMismatch(d)
      PROVE  Stored /\ Answered
  <2>1. /\ pc[d] = "admitted" /\ Remember(Kept) /\ Answer({d}, "refused")
        /\ UNCHANGED awaits
    BY <1>6 DEF ClaimMismatch
  <2>2. Stored
    BY <1>2, <1>3, <1>5, <2>1
  <2>3. "refused" \in ReplyType
    BY DEF ReplyType
  <2>4. Answered
    BY <2>1, <2>3, AnswerTypes DEF QueueInv, TypeOK, Active
  <2>. QED
    BY <2>2, <2>4
<1>7. ASSUME NEW d \in Delivery, ClaimReplay(d)
      PROVE  Stored /\ Answered
  <2>. DEFINE r == entry[CommandOf[d]].receipt
  <2>1. /\ pc[d] = "admitted" /\ Remembers(d) /\ Remember(Refreshed(CommandOf[d]))
        /\ Answer({d}, r)
        /\ UNCHANGED awaits
    BY <1>7 DEF ClaimReplay
  <2>2. Stored
    BY <1>4, <1>5, <2>1
  <2>3. r \in ReplyType
    BY SentFinite DEF QueueInv, TypeOK, ReplyType
  <2>. HIDE DEF r
  <2>4. Answered
    BY <2>1, <2>3, AnswerTypes DEF QueueInv, TypeOK, Active
  <2>. QED
    BY <2>2, <2>4
<1>8. ASSUME NEW d \in Delivery, ClaimJoin(d)
      PROVE  Stored /\ Answered
  <2>1. /\ pc[d] = "admitted" /\ Remembers(d) /\ Remember(Refreshed(CommandOf[d]))
        /\ awaits' = [awaits EXCEPT ![d] = entry[CommandOf[d]].promise]
        /\ pc' = [pc EXCEPT ![d] = "joined"]
        /\ UNCHANGED reply
    BY <1>8 DEF ClaimJoin
  <2>2. Stored
    BY <1>4, <1>5, <2>1
  <2>3. entry[CommandOf[d]].promise \in Delivery \cup {NoDelivery}
    BY SentFinite DEF QueueInv, TypeOK
  <2>4. awaits' \in [Delivery -> Delivery \cup {NoDelivery}]
    BY <2>1, <2>3 DEF QueueInv, TypeOK
  <2>5. /\ pc' \in [Delivery -> PcType] /\ reply' \in [Delivery -> ReplyType]
        /\ \A e \in Delivery : /\ pc'[e] = "waiting" <=> pc[e] = "waiting"
                               /\ pc'[e] \in Active <=> pc[e] \in Active
    BY <2>1 DEF QueueInv, TypeOK, PcType, ReplyType, Active
  <2>. QED
    BY <2>2, <2>4, <2>5
<1>9. ASSUME NEW c \in Command, Expire(c)
      PROVE  Stored /\ Answered
  <2>1. /\ c \in Range(remembered) /\ expired' = expired \cup {c}
        /\ UNCHANGED <<pc, reply, remembered, awaits>>
    BY <1>9 DEF Expire
  <2>. QED
    BY <1>2, <2>1 DEF QueueInv, TypeOK, PcType, ReplyType
<1>10. Stored /\ Answered
  BY <1>6, <1>7, <1>8, <1>9
<1>11. TypeOK'
  BY <1>1, <1>10 DEF QueueInv, TypeOK, PcType, ReplyType, queueVars
<1>12. Queue'
  BY <1>1, <1>10, QueueStays DEF QueueInv, queueVars
<1>13. InTurn'
  BY <1>1 DEF QueueInv, InTurn, Ahead, queueVars
<1>14. Delivered'
  BY <1>1, <1>10 DEF QueueInv, Delivered, queueVars
<1>. QED
  BY <1>10, <1>11, <1>12, <1>13, <1>14 DEF QueueInv

(***************************************************************************)
(* The start of an execution and its effect keep the permit.               *)
(***************************************************************************)
LEMMA ExecutionKeepsQueue ==
  ASSUME QueueInv, NEW d \in Delivery, Start(d) \/ Perform(d)
  PROVE  QueueInv'
<1>1. /\ pc[d] \in Active /\ pc' = [pc EXCEPT ![d] = pc'[d]]
      /\ pc'[d] \in Active
      /\ performed' \subseteq Delivery
      /\ UNCHANGED <<reply, dedupeVars, enqueuedAt, waiting, runningCount, fingerprint,
                     mutationsEnabled>>
  <2>1. CASE Start(d)
    BY <2>1 DEF Start, Active, QueueInv, TypeOK
  <2>2. CASE Perform(d)
    BY <2>2 DEF Perform, Active, QueueInv, TypeOK, queueVars
  <2>. QED
    BY <2>1, <2>2
<1>2. /\ pc' \in [Delivery -> PcType]
      /\ \A e \in Delivery : /\ pc'[e] = "waiting" <=> pc[e] = "waiting"
                             /\ pc'[e] \in Active <=> pc[e] \in Active
  BY <1>1 DEF QueueInv, TypeOK, PcType, Past, Active
<1>3. /\ status' \in [Command -> StatusType]
      /\ \A c \in Command : status'[c] = "none" => status[c] = "none"
      /\ \A c \in Command : status'[c] # "none" => status[c] # "none" \/ c \in Sent
  <2>1. CASE UNCHANGED status
    BY <2>1 DEF QueueInv, TypeOK, StatusType
  <2>2. CASE status' = [status EXCEPT ![CommandOf[d]] = "committing"]
    BY <2>2, SentFinite DEF QueueInv, TypeOK, StatusType
  <2>. QED
    BY <2>1, <2>2 DEF Start, Perform, queueVars
<1>4. TypeOK'
  BY <1>1, <1>2, <1>3 DEF QueueInv, TypeOK, PcType, StatusType, dedupeVars
<1>5. Queue'
  BY <1>1, <1>2, QueueStays DEF QueueInv
<1>6. InTurn'
  BY <1>1, <1>3, InTurnStays DEF QueueInv, TypeOK
<1>7. Delivered' /\ Distinct(remembered)'
  BY <1>1, <1>3 DEF QueueInv, Delivered, Distinct, dedupeVars
<1>. QED
  BY <1>4, <1>5, <1>6, <1>7 DEF QueueInv

(***************************************************************************)
(* insertWaiter puts a new waiter behind everybody who is served before    *)
(* it.                                                                     *)
(***************************************************************************)
LEMMA InsertsInTurn ==
  ASSUME waiting \in Seq(Delivery), Distinct(waiting), enqueuedAt' \in [Command -> Nat],
         NEW d \in Delivery, d \notin Range(waiting), InsertWaiter(d),
         \A i, j \in 1 .. Len(waiting) :
           i < j => Ahead(enqueuedAt', waiting[i], waiting[j])
  PROVE  /\ waiting' \in Seq(Delivery) /\ Distinct(waiting') /\ waiting' # <<>>
         /\ Range(waiting') = Range(waiting) \cup {d}
         /\ \A i, j \in 1 .. Len(waiting') :
              i < j => Ahead(enqueuedAt', waiting'[i], waiting'[j])
<1>. DEFINE later == {i \in 1 .. Len(waiting) : Precedes(d, waiting[i])}
            idx == IF later = {} THEN Len(waiting) + 1
                   ELSE CHOOSE i \in later : \A j \in later : i <= j
<1>1. Len(waiting) \in Nat /\ \A i \in 1 .. Len(waiting) : waiting[i] \in Delivery
  BY LenProperties, ElementOfSeq
<1>2. /\ idx \in 1 .. Len(waiting) + 1
      /\ \A i \in 1 .. Len(waiting) : i < idx => ~Precedes(d, waiting[i])
      /\ idx # Len(waiting) + 1 => Precedes(d, waiting[idx])
  <2>1. CASE later = {}
    <3>1. idx = Len(waiting) + 1
      BY <2>1
    <3>. QED
      BY <1>1, <2>1, <3>1
  <2>2. CASE later # {}
    <3>1. later \in SUBSET Nat /\ later \in SUBSET (1 .. Len(waiting))
      BY <1>1
    <3>2. IsFiniteSet(later)
      BY <1>1, <3>1, Initial, FS_Subset
    <3>3. \E i \in later : \A j \in later : i <= j
      BY <2>2, <3>1, <3>2, LeastExists
    <3>4. idx \in later /\ \A j \in later : idx <= j
      BY <2>2, <3>3
    <3>. HIDE DEF idx
    <3>5. idx \in 1 .. Len(waiting) /\ Precedes(d, waiting[idx])
      BY <3>4
    <3>6. ASSUME NEW i \in 1 .. Len(waiting), i < idx PROVE ~Precedes(d, waiting[i])
      <4>1. i \notin later
        <5>. HIDE DEF later
        <5>1. idx \in Nat /\ i \in Nat
          BY <1>1, <3>5
        <5>. QED
          BY <3>4, <3>6, <5>1
      <4>. QED
        BY <4>1
    <3>. HIDE DEF later
    <3>. QED
      BY <1>1, <3>5, <3>6
  <2>. QED
    BY <2>1, <2>2
<1>3. waiting' = InsertAt(waiting, idx, d)
  BY DEF InsertWaiter
<1>. HIDE DEF idx, later
<1>4. /\ waiting' \in Seq(Delivery) /\ Len(waiting') = Len(waiting) + 1
      /\ \A k \in 1 .. Len(waiting) + 1 :
           waiting'[k] = IF k < idx THEN waiting[k]
                         ELSE IF k = idx THEN d ELSE waiting[k - 1]
  <2>1. idx \in 1 .. Len(waiting) + 1
    BY <1>2
  <2>2. /\ InsertAt(waiting, idx, d) \in Seq(Delivery)
        /\ Len(InsertAt(waiting, idx, d)) = Len(waiting) + 1
        /\ \A k \in 1 .. Len(waiting) + 1 :
             InsertAt(waiting, idx, d)[k] = IF k < idx THEN waiting[k]
                                            ELSE IF k = idx THEN d ELSE waiting[k - 1]
    BY <2>1, Inserted
  <2>. QED
    BY ONLY <1>3, <2>2
<1>5. ASSUME NEW k \in 1 .. Len(waiting')
      PROVE  \/ k < idx /\ k \in 1 .. Len(waiting) /\ waiting'[k] = waiting[k]
             \/ k = idx /\ waiting'[k] = d
             \/ k > idx /\ k - 1 \in 1 .. Len(waiting) /\ waiting'[k] = waiting[k - 1]
  <2>1. k \in 1 .. Len(waiting) + 1
    BY <1>4
  <2>2. k < idx => k \in 1 .. Len(waiting)
    BY <1>1, <1>2, <2>1
  <2>3. k > idx => k - 1 \in 1 .. Len(waiting)
    BY <1>1, <1>2, <2>1
  <2>4. k < idx \/ k = idx \/ k > idx
    BY <1>1, <1>2, <2>1
  <2>5. k > idx => ~(k < idx) /\ k # idx
    BY <1>1, <1>2, <2>1
  <2>6. k = idx => ~(k < idx)
    BY <1>1, <1>2, <2>1
  <2>. QED
    BY <1>4, <2>1, <2>2, <2>3, <2>4, <2>5, <2>6
<1>6. Range(waiting) = {waiting[i] : i \in 1 .. Len(waiting)}
      /\ Range(waiting') = {waiting'[i] : i \in 1 .. Len(waiting')}
  BY <1>4, RangeEquality
<1>7. Range(waiting') = Range(waiting) \cup {d}
  <2>1. ASSUME NEW x \in Range(waiting') PROVE x \in Range(waiting) \cup {d}
    <3>1. PICK k \in 1 .. Len(waiting') : x = waiting'[k]
      BY <1>6
    <3>. QED
      BY <1>5, <1>6, <3>1
  <2>2. ASSUME NEW x \in Range(waiting) PROVE x \in Range(waiting')
    <3>1. PICK k \in 1 .. Len(waiting) : x = waiting[k]
      BY <1>6
    <3>2. CASE k < idx
      <4>1. k \in 1 .. Len(waiting') /\ waiting'[k] = x
        BY <1>1, <1>4, <3>1, <3>2
      <4>. QED
        BY <1>6, <4>1
    <3>3. CASE k >= idx
      <4>1. k + 1 \in 1 .. Len(waiting') /\ ~(k + 1 < idx) /\ k + 1 # idx
        BY <1>1, <1>2, <1>4, <3>3
      <4>2. waiting'[k + 1] = waiting[(k + 1) - 1] /\ (k + 1) - 1 = k
        BY <1>1, <1>4, <4>1
      <4>. QED
        BY <1>6, <3>1, <4>1, <4>2
    <3>4. k < idx \/ k >= idx
      BY <1>1, <1>2
    <3>. QED
      BY ONLY <3>2, <3>3, <3>4
  <2>3. d \in Range(waiting')
    <3>1. idx \in 1 .. Len(waiting') /\ ~(idx < idx)
      BY <1>1, <1>2, <1>4
    <3>2. waiting'[idx] = d
      BY <1>2, <1>4, <3>1
    <3>. QED
      BY <1>6, <3>1, <3>2
  <2>. QED
    BY <2>1, <2>2, <2>3
<1>8. ASSUME NEW k \in 1 .. Len(waiting'), NEW l \in 1 .. Len(waiting'), k < l
      PROVE  waiting'[k] # waiting'[l] /\ Ahead(enqueuedAt', waiting'[k], waiting'[l])
  <2>1. \A i \in 1 .. Len(waiting) : waiting[i] # d
    BY <1>6
  <2>2. \A i \in 1 .. Len(waiting) : /\ i < idx => Ahead(enqueuedAt', waiting[i], d)
                                     /\ i >= idx => Ahead(enqueuedAt', d, waiting[i])
    <3>. SUFFICES ASSUME NEW i \in 1 .. Len(waiting)
                  PROVE  /\ i < idx => Ahead(enqueuedAt', waiting[i], d)
                         /\ i >= idx => Ahead(enqueuedAt', d, waiting[i])
      OBVIOUS
    <3>0. waiting[i] \in Delivery
      BY <1>1
    <3>1. /\ enqueuedAt'[CommandOf[d]] \in Nat
          /\ enqueuedAt'[CommandOf[waiting[i]]] \in Nat
          /\ Priority(CommandOf[d]) \in Nat /\ Priority(CommandOf[waiting[i]]) \in Nat
      BY <3>0, SentFinite DEF Priority
    <3>2. i < idx => Ahead(enqueuedAt', waiting[i], d)
      BY <1>2, <3>1 DEF Precedes, Ahead
    <3>3. ASSUME i >= idx PROVE Ahead(enqueuedAt', d, waiting[i])
      <4>1. idx \in 1 .. Len(waiting) /\ Precedes(d, waiting[idx])
        BY <1>1, <1>2, <3>3
      <4>2. waiting[idx] \in Delivery
        BY <1>1, <4>1
      <4>3. /\ enqueuedAt'[CommandOf[waiting[idx]]] \in Nat
            /\ Priority(CommandOf[waiting[idx]]) \in Nat
        BY <4>2, SentFinite DEF Priority
      <4>4. Ahead(enqueuedAt', d, waiting[idx])
        BY <3>1, <4>1, <4>3 DEF Precedes, Ahead
      <4>5. CASE i = idx
        BY <4>4, <4>5
      <4>6. CASE i # idx
        <5>1. idx < i
          BY <1>1, <3>3, <4>1, <4>6
        <5>2. Ahead(enqueuedAt', waiting[idx], waiting[i])
          BY <4>1, <5>1
        <5>. QED
          BY <3>0, <4>2, <4>4, <5>2, AheadOrders
      <4>. QED
        BY <4>5, <4>6
    <3>. QED
      BY <3>2, <3>3
  <2>3. CASE k < idx /\ l < idx
    <3>1. /\ k \in 1 .. Len(waiting) /\ l \in 1 .. Len(waiting) /\ k # l
          /\ waiting'[k] = waiting[k] /\ waiting'[l] = waiting[l]
      BY <1>1, <1>2, <1>5, <1>8, <2>3
    <3>. QED
      BY <1>8, <3>1 DEF Distinct
  <2>4. CASE k < idx /\ l = idx
    <3>1. k \in 1 .. Len(waiting) /\ waiting'[k] = waiting[k] /\ waiting'[l] = d
      BY <1>1, <1>2, <1>5, <2>4
    <3>. QED
      BY <2>1, <2>2, <2>4, <3>1
  <2>5. CASE k < idx /\ l > idx
    <3>1. /\ k \in 1 .. Len(waiting) /\ l - 1 \in 1 .. Len(waiting)
          /\ k < l - 1 /\ k # l - 1
          /\ waiting'[k] = waiting[k] /\ waiting'[l] = waiting[l - 1]
      BY <1>1, <1>2, <1>5, <2>5
    <3>. QED
      BY <3>1 DEF Distinct
  <2>6. CASE k = idx /\ l > idx
    <3>0. l - 1 \in 1 .. Len(waiting) /\ l - 1 >= idx
      BY <1>1, <1>2, <1>4, <2>6
    <3>1. /\ l - 1 \in 1 .. Len(waiting) /\ l - 1 >= idx
          /\ waiting'[k] = d /\ waiting'[l] = waiting[l - 1]
      BY <1>1, <1>2, <1>5, <2>6, <3>0
    <3>. QED
      BY <2>1, <2>2, <3>1
  <2>7. CASE k > idx /\ l > idx
    <3>1. /\ k - 1 \in 1 .. Len(waiting) /\ l - 1 \in 1 .. Len(waiting)
          /\ k - 1 < l - 1 /\ k - 1 # l - 1
          /\ waiting'[k] = waiting[k - 1] /\ waiting'[l] = waiting[l - 1]
      BY <1>1, <1>2, <1>5, <1>8, <2>7
    <3>. QED
      BY <3>1 DEF Distinct
  <2>8. \/ (k < idx /\ l < idx)
        \/ (k < idx /\ l = idx)
        \/ (k < idx /\ l > idx)
        \/ (k = idx /\ l > idx)
        \/ (k > idx /\ l > idx)
    BY <1>1, <1>2, <1>4, <1>8
  <2>. QED
    BY ONLY <2>3, <2>4, <2>5, <2>6, <2>7, <2>8
<1>9. Distinct(waiting')
  <2>. SUFFICES ASSUME NEW k \in 1 .. Len(waiting'), NEW l \in 1 .. Len(waiting'),
                       waiting'[k] = waiting'[l]
                PROVE  k = l
    BY DEF Distinct
  <2>1. ~(k < l) /\ ~(l < k)
    BY <1>8
  <2>. QED
    BY <1>1, <1>4, <2>1
<1>10. waiting' # <<>>
  BY <1>1, <1>4, EmptySeq
<1>. QED
  BY <1>4, <1>7, <1>8, <1>9, <1>10

(***************************************************************************)
(* A claim: the command is enqueued, and its delivery is answered, gets a  *)
(* permit or waits in its turn.                                            *)
(***************************************************************************)
LEMMA ClaimKeepsQueue ==
  ASSUME QueueInv, NEW d \in Delivery, Claim(d)
  PROVE  QueueInv'
<1>. DEFINE c == CommandOf[d]
            Typed ==
              /\ pc' \in [Delivery -> PcType] /\ reply' \in [Delivery -> ReplyType]
              /\ status' \in [Command -> StatusType]
              /\ waiting' \in Seq(Delivery) /\ runningCount' \in 0 .. MaxConcurrency
              /\ \A o \in Command : status'[o] # "none" => status[o] # "none" \/ o = c
<1>1. /\ pc[d] = "admitted" /\ c \notin Range(Kept) /\ remembered' = Append(Room, c)
      /\ expired' = expired \cap Range(Kept) \cap Range(Append(Room, c))
      /\ entry' = [entry EXCEPT ![c] =
           [state |-> "pending", fingerprint |-> fingerprint[d],
            promise |-> d, receipt |-> "none"]]
      /\ enqueuedAt' = IF status[c] # "none" THEN enqueuedAt
                       ELSE [enqueuedAt EXCEPT ![c] =
                         1 + Cardinality({o \in Command : status[o] # "none"})]
      /\ UNCHANGED <<awaits, performed, fingerprint, mutationsEnabled>>
  BY DEF Claim, Remember, Remembers, Room
<1>2. c \in Command /\ c \in Sent
  BY SentFinite
<1>3. /\ remembered \in Seq(Command) /\ Distinct(remembered)
      /\ Len(remembered) <= MaxEntries
  BY DEF QueueInv, TypeOK
<1>4. /\ remembered' \in Seq(Command) /\ Distinct(remembered')
      /\ Len(remembered') <= MaxEntries /\ Range(remembered') \subseteq Range(Kept) \cup {c}
  BY <1>1, <1>2, <1>3, ClaimedHas
<1>5. Range(remembered') \subseteq Sent /\ expired' \subseteq Range(remembered')
  BY <1>1, <1>2, <1>3, <1>4, KeptHas DEF QueueInv, Delivered
<1>6. entry' \in [Command ->
       [state : {"none", "pending", "completed", "rejected"},
        fingerprint : Fingerprint \cup {"none"},
        promise : Delivery \cup {NoDelivery},
        receipt : Receipt \cup {"none"}]]
  <2>1. fingerprint[d] \in Fingerprint \cup {"none"}
    BY DEF QueueInv, TypeOK
  <2>. QED
    BY <1>1, <1>2, <2>1 DEF QueueInv, TypeOK
<1>7. /\ enqueuedAt' \in [Command -> Nat]
      /\ \A o \in Command : status[o] # "none" => enqueuedAt'[o] = enqueuedAt[o]
  <2>. DEFINE E == {o \in Command : status[o] # "none"}
  <2>1. E \in SUBSET Sent
    BY DEF QueueInv, Delivered
  <2>2. Cardinality(E) \in Nat
    BY <2>1, SentFinite, FS_Subset, FS_CardinalityType
  <2>. HIDE DEF E
  <2>3. enqueuedAt \in [Command -> Nat]
    BY DEF QueueInv, TypeOK
  <2>4. enqueuedAt' = IF status[c] # "none" THEN enqueuedAt
                      ELSE [enqueuedAt EXCEPT ![c] = 1 + Cardinality(E)]
    BY <1>1 DEF E
  <2>. QED
    BY <1>2, <2>2, <2>3, <2>4
<1>8. /\ runningCount \in 0 .. MaxConcurrency /\ MaxConcurrency \in Nat
      /\ waiting \in Seq(Delivery) /\ Len(waiting) \in Nat
      /\ status \in [Command -> StatusType]
      /\ pc \in [Delivery -> PcType] /\ reply \in [Delivery -> ReplyType]
  BY PipelineAssumption, LenProperties
     DEF QueueInv, TypeOK, StatusType, PcType, ReplyType
<1>9. \A i \in 1 .. Len(waiting) :
        /\ waiting[i] \in Delivery /\ CommandOf[waiting[i]] \in Command
        /\ status[CommandOf[waiting[i]]] # "none"
        /\ enqueuedAt'[CommandOf[waiting[i]]] = enqueuedAt[CommandOf[waiting[i]]]
  BY <1>7, <1>8, SentFinite, ElementOfSeq DEF QueueInv, InTurn
<1>10. \A i, j \in 1 .. Len(waiting) :
         i < j => Ahead(enqueuedAt', waiting[i], waiting[j])
  BY <1>9 DEF QueueInv, InTurn, Ahead
<1>11. ASSUME status[c] = "cancelled", Answer({d}, "cancelled"),
              UNCHANGED <<status, waiting, runningCount>>
       PROVE  Typed /\ Queue' /\ InTurn'
  <2>1. "cancelled" \in ReplyType
    BY DEF ReplyType, Receipt
  <2>2. /\ pc' \in [Delivery -> PcType] /\ reply' \in [Delivery -> ReplyType]
        /\ \A e \in Delivery : pc'[e] = IF e = d THEN "replied" ELSE pc[e]
    BY <1>11, <2>1, AnswerTypes DEF QueueInv
  <2>3. \A e \in Delivery : /\ pc'[e] = "waiting" <=> pc[e] = "waiting"
                            /\ pc'[e] \in Active <=> pc[e] \in Active
    BY <1>1, <2>2 DEF Active
  <2>4. Queue'
    BY <1>11, <2>3, QueueStays DEF QueueInv
  <2>5. InTurn'
    BY <1>9, <1>10, <1>11 DEF InTurn
  <2>. QED
    BY <1>8, <1>11, <2>2, <2>4, <2>5
<1>12. ASSUME PermitFree, pc' = [pc EXCEPT ![d] = "granted"],
              status' = [status EXCEPT ![c] = "running"],
              runningCount' = runningCount + 1, UNCHANGED <<reply, waiting>>
       PROVE  Typed /\ Queue' /\ InTurn'
  <2>1. runningCount < MaxConcurrency /\ waiting = <<>>
    BY <1>8, <1>12 DEF PermitFree, QueueInv, Queue
  <2>2. runningCount' \in 0 .. MaxConcurrency
    BY <1>8, <1>12, <2>1
  <2>3. /\ pc' \in [Delivery -> PcType] /\ status' \in [Command -> StatusType]
        /\ \A o \in Command : status'[o] # "none" => status[o] # "none" \/ o = c
    BY <1>2, <1>8, <1>12 DEF PcType, Past, Active, StatusType
  <2>4. Running' = Running \cup {d} /\ d \notin Running
    BY <1>1, <1>8, <1>12 DEF Running, Active
  <2>5. runningCount = Cardinality(Running)
    BY DEF QueueInv, Queue
  <2>6. Cardinality(Running') = Cardinality(Running) + 1
    BY <2>4, RunningFinite, FS_AddElement
  <2>7. \A e \in Delivery : pc'[e] = "waiting" <=> pc[e] = "waiting"
    BY <1>1, <1>8, <1>12
  <2>8. Queue'
    BY <1>12, <2>1, <2>5, <2>6, <2>7 DEF QueueInv, Queue
  <2>9. InTurn'
    <3>1. Len(waiting') = 0
      BY <1>12, <2>1
    <3>2. 1 .. Len(waiting') = {}
      BY <3>1
    <3>. QED
      BY ONLY <3>2 DEF InTurn
  <2>. QED
    BY <1>8, <1>12, <2>2, <2>3, <2>8, <2>9
<1>13. ASSUME ~PermitFree, pc' = [pc EXCEPT ![d] = "waiting"],
              status' = IF status[c] = "none"
                        THEN [status EXCEPT ![c] = "queued"] ELSE status,
              InsertWaiter(d), UNCHANGED <<reply, runningCount>>
       PROVE  Typed /\ Queue' /\ InTurn'
  <2>1. runningCount = MaxConcurrency
    BY <1>8, <1>13 DEF PermitFree
  <2>2. d \notin Range(waiting) /\ Distinct(waiting)
    BY <1>1 DEF QueueInv, Queue
  <2>3. /\ waiting' \in Seq(Delivery) /\ Distinct(waiting') /\ waiting' # <<>>
        /\ Range(waiting') = Range(waiting) \cup {d}
        /\ \A i, j \in 1 .. Len(waiting') :
             i < j => Ahead(enqueuedAt', waiting'[i], waiting'[j])
    BY <1>7, <1>8, <1>10, <1>13, <2>2, InsertsInTurn
  <2>4. /\ pc' \in [Delivery -> PcType] /\ status' \in [Command -> StatusType]
        /\ \A o \in Command : status'[o] # "none" => status[o] # "none" \/ o = c
        /\ \A o \in Command : status[o] # "none" => status'[o] # "none"
        /\ status'[c] # "none"
    BY <1>2, <1>8, <1>13 DEF PcType, Past, StatusType
  <2>5. Running' = Running
    BY <1>1, <1>8, <1>13 DEF Running, Active
  <2>6. \A e \in Delivery : pc'[e] = "waiting" <=> e \in Range(waiting')
    BY <1>1, <1>8, <1>13, <2>3 DEF QueueInv, Queue
  <2>7. Queue'
    BY <1>13, <2>1, <2>3, <2>5, <2>6 DEF QueueInv, Queue
  <2>8. ASSUME NEW i \in 1 .. Len(waiting') PROVE status'[CommandOf[waiting'[i]]] # "none"
    <3>1. waiting'[i] \in Range(waiting) \cup {d}
      BY <2>3, RangeEquality
    <3>2. CASE waiting'[i] = d
      BY <2>4, <3>2
    <3>3. CASE waiting'[i] \in Range(waiting)
      <4>1. PICK k \in 1 .. Len(waiting) : waiting'[i] = waiting[k]
        BY <1>8, <3>3, RangeEquality
      <4>. QED
        BY <1>9, <2>4, <4>1
    <3>. QED
      BY <3>1, <3>2, <3>3
  <2>9. InTurn'
    BY <2>3, <2>8 DEF InTurn
  <2>. QED
    BY <1>8, <1>13, <2>3, <2>4, <2>7, <2>9
<1>14. Typed /\ Queue' /\ InTurn'
  BY <1>11, <1>12, <1>13 DEF Claim
<1>15. TypeOK'
  BY <1>1, <1>4, <1>5, <1>6, <1>7, <1>14
     DEF QueueInv, TypeOK, PcType, ReplyType, StatusType
<1>16. Delivered'
  BY <1>2, <1>5, <1>14 DEF QueueInv, Delivered
<1>. QED
  BY <1>4, <1>14, <1>15, <1>16 DEF QueueInv

\* The first m waiters.
First(m) == {waiting[i] : i \in 1 .. m}

\* What a delivery that ends with outcome r is answered.
Outcome(d, r) == IF status[CommandOf[d]] = "cancelled" THEN "cancelled" ELSE r

(***************************************************************************)
(* What Finish(d, r) does when processQueue takes the first m waiters and  *)
(* the members of G among them get a permit.                               *)
(***************************************************************************)
Served(d, r, m, G) ==
  /\ pc[d] \in Active /\ (pc[d] = "performed" \/ r = "failed")
  /\ IsFiniteSet(G) /\ Cardinality(G) \in 0 .. MaxConcurrency - (runningCount - 1)
  /\ m < Len(waiting) => Cardinality(G) = MaxConcurrency - (runningCount - 1)
  /\ waiting' = SubSeq(waiting, m + 1, Len(waiting))
  /\ runningCount' = runningCount - 1 + Cardinality(G)
  /\ pc' \in [Delivery -> PcType] /\ reply' \in [Delivery -> ReplyType]
  /\ status' \in [Command -> StatusType]
  /\ \A e \in G : status[CommandOf[e]] # "cancelled"
  /\ \A e \in Delivery :
       /\ pc'[e] = IF e = d \/ e \in Joiners(CommandOf[d]) \/ e \in First(m) \ G
                   THEN "replied" ELSE IF e \in G THEN "granted" ELSE pc[e]
       /\ reply'[e] = IF e = d \/ e \in Joiners(CommandOf[d]) THEN Outcome(d, r)
                      ELSE IF e \in First(m) \ G THEN "cancelled" ELSE reply[e]
  /\ \A o \in Command :
       status'[o] = IF \E e \in G : CommandOf[e] = o THEN "running"
                    ELSE IF o = CommandOf[d] /\ status[o] \in {"running", "committing"}
                    THEN (IF r = "executed" THEN "completed" ELSE "failed")
                    ELSE status[o]

(***************************************************************************)
(* Finish serves the waiters from the front.                               *)
(***************************************************************************)
LEMMA FinishServes ==
  ASSUME QueueInv, NEW d \in Delivery, NEW r \in {"executed", "failed"}, Finish(d, r)
  PROVE  \E m \in 0 .. Len(waiting) : \E G \in SUBSET First(m) : Served(d, r, m, G)
<1>. DEFINE c == CommandOf[d]
            st == IF status[c] \in {"running", "committing"}
                  THEN [status EXCEPT ![c] = IF r = "executed" THEN "completed"
                                                                ELSE "failed"]
                  ELSE status
            free == MaxConcurrency - (runningCount - 1)
            next == Serve(waiting, free, st)
            answered == {d} \cup Joiners(c)
<1>1. /\ pc[d] \in Active /\ (pc[d] = "performed" \/ r = "failed")
      /\ status' = [o \in Command |->
           IF \E e \in next.granted : CommandOf[e] = o THEN "running" ELSE st[o]]
      /\ waiting' = next.left
      /\ runningCount' = runningCount - 1 + Cardinality(next.granted)
      /\ pc' = [e \in Delivery |->
           IF e \in answered \cup next.refused THEN "replied"
           ELSE IF e \in next.granted THEN "granted" ELSE pc[e]]
      /\ reply' = [e \in Delivery |->
           IF e \in answered THEN Outcome(d, r)
           ELSE IF e \in next.refused THEN "cancelled" ELSE reply[e]]
  BY DEF Finish, Active, Outcome
<1>2. /\ runningCount \in 0 .. MaxConcurrency /\ MaxConcurrency \in Nat
      /\ waiting \in Seq(Delivery) /\ Distinct(waiting) /\ Len(waiting) \in Nat
      /\ \A i \in 1 .. Len(waiting) : waiting[i] \in Delivery
      /\ status \in [Command -> StatusType]
      /\ pc \in [Delivery -> PcType] /\ reply \in [Delivery -> ReplyType]
  BY PipelineAssumption, LenProperties, ElementOfSeq
     DEF QueueInv, Queue, TypeOK, StatusType, PcType, ReplyType
<1>3. free \in Nat
  <2>1. d \in Running /\ runningCount = Cardinality(Running)
    BY <1>1 DEF Running, QueueInv, Queue
  <2>2. runningCount # 0
    BY <2>1, RunningFinite, FS_EmptySet
  <2>. QED
    BY <1>2, <2>2
<1>4. c \in Command
  BY SentFinite
<1>5. \A o \in Command :
        st[o] = IF o = c /\ status[o] \in {"running", "committing"}
                THEN (IF r = "executed" THEN "completed" ELSE "failed")
                ELSE status[o]
  BY <1>2, <1>4
<1>6. \A o \in Command : st[o] \in StatusType /\ (st[o] = "cancelled" => status[o] = "cancelled")
                         /\ (status[o] = "cancelled" => st[o] = "cancelled")
  BY <1>2, <1>5 DEF StatusType
<1>. HIDE DEF st, free, next
<1>7. PICK m \in 0 .. Len(waiting) :
           /\ next.left = SubSeq(waiting, m + 1, Len(waiting))
           /\ next.granted =
                {waiting[i] : i \in {j \in 1 .. m : LiveAt(waiting, st, j)}}
           /\ next.refused =
                {waiting[i] : i \in {j \in 1 .. m : ~LiveAt(waiting, st, j)}}
           /\ IsFiniteSet(next.granted)
           /\ Cardinality(next.granted) \in 0 .. free
           /\ m < Len(waiting) => Cardinality(next.granted) = free
  BY <1>2, <1>3, ServeSplits DEF next
<1>8. next.granted \in SUBSET First(m)
  BY <1>7 DEF First
<1>9. \A i \in 1 .. m : i \in 1 .. Len(waiting)
  BY <1>2
<1>10. next.refused = First(m) \ next.granted
  <2>1. ASSUME NEW x \in next.refused PROVE x \in First(m) \ next.granted
    <3>1. PICK i \in 1 .. m : x = waiting[i] /\ ~LiveAt(waiting, st, i)
      BY <1>7
    <3>2. ASSUME NEW j \in 1 .. m, x = waiting[j] PROVE ~LiveAt(waiting, st, j)
      BY <1>2, <1>9, <3>1, <3>2 DEF Distinct
    <3>. QED
      BY <1>7, <3>1, <3>2 DEF First
  <2>2. ASSUME NEW x \in First(m) \ next.granted PROVE x \in next.refused
    <3>1. PICK i \in 1 .. m : x = waiting[i]
      BY DEF First
    <3>2. ~LiveAt(waiting, st, i)
      BY <1>7, <3>1
    <3>. QED
      BY <1>7, <3>1, <3>2
  <2>. QED
    BY <2>1, <2>2
<1>11. \A e \in next.granted : CommandOf[e] \in Command /\ status[CommandOf[e]] # "cancelled"
  <2>. SUFFICES ASSUME NEW e \in next.granted
                PROVE  CommandOf[e] \in Command /\ status[CommandOf[e]] # "cancelled"
    OBVIOUS
  <2>1. PICK i \in 1 .. m : e = waiting[i] /\ LiveAt(waiting, st, i)
    BY <1>7
  <2>2. CommandOf[e] \in Command
    BY <1>2, <1>9, <2>1, SentFinite
  <2>. QED
    BY <1>6, <2>1, <2>2 DEF LiveAt
<1>12. Outcome(d, r) \in ReplyType
  BY DEF Outcome, ReplyType, Receipt
<1>13. /\ pc' \in [Delivery -> PcType] /\ reply' \in [Delivery -> ReplyType]
       /\ status' \in [Command -> StatusType]
  <2>1. pc' \in [Delivery -> PcType]
    BY <1>1, <1>2 DEF PcType, Past, Active
  <2>2. reply' \in [Delivery -> ReplyType]
    BY <1>1, <1>2, <1>12 DEF ReplyType, Receipt
  <2>3. "running" \in StatusType
    BY DEF StatusType
  <2>4. status' \in [Command -> StatusType]
    BY <1>1, <1>6, <2>3
  <2>. QED
    BY <2>1, <2>2, <2>4
<1>14. Served(d, r, m, next.granted)
  <2>1. \A e \in Delivery :
          /\ pc'[e] = IF e = d \/ e \in Joiners(c) \/ e \in First(m) \ next.granted
                      THEN "replied" ELSE IF e \in next.granted THEN "granted" ELSE pc[e]
          /\ reply'[e] = IF e = d \/ e \in Joiners(c) THEN Outcome(d, r)
                         ELSE IF e \in First(m) \ next.granted THEN "cancelled"
                         ELSE reply[e]
    BY <1>1, <1>10
  <2>2. \A o \in Command :
          status'[o] = IF \E e \in next.granted : CommandOf[e] = o THEN "running"
                       ELSE IF o = c /\ status[o] \in {"running", "committing"}
                       THEN (IF r = "executed" THEN "completed" ELSE "failed")
                       ELSE status[o]
    BY <1>1, <1>5
  <2>. QED
    BY <1>1, <1>7, <1>11, <1>13, <2>1, <2>2 DEF Served, free
<1>. QED
  BY <1>8, <1>14

(***************************************************************************)
(* The first m waiters wait, in different places; the others are left.     *)
(***************************************************************************)
LEMMA FirstWaits ==
  ASSUME QueueInv, NEW m \in 0 .. Len(waiting)
  PROVE  /\ First(m) \in SUBSET Delivery
         /\ \A e \in First(m) : pc[e] = "waiting" /\ e \in Range(waiting)
         /\ SubSeq(waiting, m + 1, Len(waiting)) \in Seq(Delivery)
         /\ Len(SubSeq(waiting, m + 1, Len(waiting))) = Len(waiting) - m
         /\ \A k \in 1 .. Len(waiting) - m :
              /\ m + k \in 1 .. Len(waiting)
              /\ SubSeq(waiting, m + 1, Len(waiting))[k] = waiting[m + k]
         /\ Range(SubSeq(waiting, m + 1, Len(waiting))) = Range(waiting) \ First(m)
         /\ Distinct(SubSeq(waiting, m + 1, Len(waiting)))
<1>. DEFINE s == SubSeq(waiting, m + 1, Len(waiting))
<1>1. /\ waiting \in Seq(Delivery) /\ Distinct(waiting) /\ Len(waiting) \in Nat
      /\ \A i \in 1 .. Len(waiting) : waiting[i] \in Delivery
      /\ Range(waiting) = {waiting[i] : i \in 1 .. Len(waiting)}
      /\ m \in Nat /\ m <= Len(waiting)
  BY LenProperties, ElementOfSeq, RangeEquality DEF QueueInv, Queue, TypeOK
<1>2. /\ s \in Seq(Delivery) /\ Len(s) = Len(waiting) - m
      /\ \A k \in 1 .. Len(waiting) - m : s[k] = waiting[m + k]
  BY <1>1, Taken
<1>. HIDE DEF s
<1>3. Range(s) = {s[k] : k \in 1 .. Len(waiting) - m}
  BY <1>2, RangeEquality
<1>4. \A k \in 1 .. Len(waiting) - m : m + k \in 1 .. Len(waiting)
  BY <1>1
<1>5. ASSUME NEW e \in First(m)
      PROVE  e \in Delivery /\ pc[e] = "waiting" /\ e \in Range(waiting) /\ e \notin Range(s)
  <2>1. PICK i \in 1 .. m : e = waiting[i]
    BY DEF First
  <2>2. i \in 1 .. Len(waiting)
    BY <1>1
  <2>3. e \in Delivery /\ e \in Range(waiting)
    BY <1>1, <2>1, <2>2
  <2>4. pc[e] = "waiting"
    BY <2>3 DEF QueueInv, Queue
  <2>5. ASSUME NEW k \in 1 .. Len(waiting) - m PROVE s[k] # e
    <3>1. m + k \in 1 .. Len(waiting) /\ m + k # i
      BY <1>1
    <3>2. waiting[m + k] # waiting[i]
      BY <1>1, <2>2, <3>1 DEF Distinct
    <3>. QED
      BY <1>2, <2>1, <3>2
  <2>. QED
    BY <1>3, <2>3, <2>4, <2>5
<1>6. ASSUME NEW e \in Range(s) PROVE e \in Range(waiting)
  <2>1. PICK k \in 1 .. Len(waiting) - m : e = s[k]
    BY <1>3
  <2>. QED
    BY <1>1, <1>2, <1>4, <2>1
<1>7. ASSUME NEW e \in Range(waiting), e \notin First(m) PROVE e \in Range(s)
  <2>1. PICK i \in 1 .. Len(waiting) : e = waiting[i]
    BY <1>1
  <2>2. i \notin 1 .. m
    BY <1>7, <2>1 DEF First
  <2>3. i - m \in 1 .. Len(waiting) - m /\ m + (i - m) = i
    BY <1>1, <2>2
  <2>4. s[i - m] = e
    BY <1>2, <2>1, <2>3
  <2>. QED
    BY <1>3, <2>3, <2>4
<1>8. Distinct(s)
  <2>. SUFFICES ASSUME NEW k \in 1 .. Len(s), NEW l \in 1 .. Len(s), s[k] = s[l]
                PROVE  k = l
    BY DEF Distinct
  <2>1. k \in 1 .. Len(waiting) - m /\ l \in 1 .. Len(waiting) - m
    BY <1>2
  <2>2. /\ m + k \in 1 .. Len(waiting) /\ m + l \in 1 .. Len(waiting)
        /\ waiting[m + k] = waiting[m + l]
    BY <1>2, <1>4, <2>1
  <2>3. m + k = m + l
    BY <1>1, <2>2 DEF Distinct
  <2>. QED
    BY <1>1, <2>1, <2>3
<1>9. Range(s) = Range(waiting) \ First(m)
  BY <1>5, <1>6, <1>7
<1>. QED
  BY <1>2, <1>4, <1>5, <1>8, <1>9 DEF s

(***************************************************************************)
(* The end of an execution: the permit passes to the first waiters who are *)
(* not cancelled, or is given back.                                        *)
(***************************************************************************)
LEMMA FinishKeepsQueue ==
  ASSUME QueueInv, NEW d \in Delivery, NEW r \in {"executed", "failed"}, Finish(d, r)
  PROVE  QueueInv'
<1>. DEFINE c == CommandOf[d]
<1>1. PICK m \in 0 .. Len(waiting) : \E G \in SUBSET First(m) : Served(d, r, m, G)
  BY FinishServes
<1>2. PICK G \in SUBSET First(m) : Served(d, r, m, G)
  BY <1>1
<1>3. /\ entry' = Recorded(c, Outcome(d, r))
      /\ UNCHANGED <<remembered, expired, awaits, enqueuedAt, performed, fingerprint,
                     mutationsEnabled>>
  BY DEF Finish, Outcome
<1>4. /\ runningCount \in 0 .. MaxConcurrency /\ MaxConcurrency \in Nat
      /\ waiting \in Seq(Delivery) /\ Len(waiting) \in Nat
      /\ m \in Nat /\ m <= Len(waiting)
  BY PipelineAssumption, LenProperties DEF QueueInv, TypeOK
<1>5. /\ First(m) \in SUBSET Delivery /\ \A e \in First(m) : pc[e] = "waiting"
      /\ waiting' \in Seq(Delivery) /\ Len(waiting') = Len(waiting) - m
      /\ \A k \in 1 .. Len(waiting) - m : /\ m + k \in 1 .. Len(waiting)
                                          /\ waiting'[k] = waiting[m + k]
      /\ Range(waiting') = Range(waiting) \ First(m) /\ Distinct(waiting')
  <2>1. waiting' = SubSeq(waiting, m + 1, Len(waiting))
    BY <1>2 DEF Served
  <2>. QED
    BY ONLY <2>1, FirstWaits, QueueInv, m \in 0 .. Len(waiting)
<1>6. c \in Command
  BY SentFinite
<1>7. entry' \in [Command ->
       [state : {"none", "pending", "completed", "rejected"},
        fingerprint : Fingerprint \cup {"none"},
        promise : Delivery \cup {NoDelivery},
        receipt : Receipt \cup {"none"}]]
  <2>1. Outcome(d, r) \in Receipt
    BY DEF Outcome, Receipt
  <2>2. entry \in [Command ->
       [state : {"none", "pending", "completed", "rejected"},
        fingerprint : Fingerprint \cup {"none"},
        promise : Delivery \cup {NoDelivery},
        receipt : Receipt \cup {"none"}]]
    BY DEF QueueInv, TypeOK
  <2>. QED
    BY SMTT(20), <1>3, <1>6, <2>1, <2>2 DEF Recorded
<1>8. \A e \in Delivery : pc'[e] = "waiting" <=> pc[e] = "waiting" /\ e \notin First(m)
  BY <1>2, <1>5 DEF Served, Joiners, Active
<1>9. Running' = (Running \ {d}) \cup G /\ d \in Running /\ Running \cap G = {}
  BY <1>2, <1>5 DEF Served, Running, Joiners, Active
<1>10. runningCount' = Cardinality(Running')
  <2>1. runningCount = Cardinality(Running) /\ IsFiniteSet(Running)
    BY RunningFinite DEF QueueInv, Queue
  <2>2. IsFiniteSet(Running \ {d}) /\ Cardinality(Running \ {d}) = Cardinality(Running) - 1
    BY <1>9, <2>1, FS_RemoveElement
  <2>3. IsFiniteSet(G) /\ Cardinality(G) \in Nat
    BY <1>2, FS_CardinalityType DEF Served
  <2>4. (Running \ {d}) \cap G = {}
    BY <1>9
  <2>5. Cardinality((Running \ {d}) \cup G) =
          Cardinality(Running \ {d}) + Cardinality(G) - Cardinality((Running \ {d}) \cap G)
    BY <2>2, <2>3, FS_Union
  <2>6. Cardinality((Running \ {d}) \cap G) = 0
    BY <2>4, FS_EmptySet
  <2>7. runningCount' = runningCount - 1 + Cardinality(G)
    BY <1>2 DEF Served
  <2>. QED
    BY <1>4, <1>9, <2>1, <2>2, <2>3, <2>5, <2>6, <2>7
<1>11. runningCount' \in 0 .. MaxConcurrency
       /\ (m < Len(waiting) => runningCount' = MaxConcurrency)
  <2>1. /\ runningCount' = runningCount - 1 + Cardinality(G)
        /\ Cardinality(G) \in 0 .. MaxConcurrency - (runningCount - 1)
        /\ m < Len(waiting) => Cardinality(G) = MaxConcurrency - (runningCount - 1)
    BY <1>2 DEF Served
  <2>2. runningCount # 0
    BY <1>9, RunningFinite, FS_EmptySet DEF QueueInv, Queue
  <2>. QED
    BY <1>4, <2>1, <2>2
<1>12. Queue'
  <2>1. waiting' # <<>> => m < Len(waiting)
    <3>1. m = Len(waiting) => Len(waiting') = 0
      BY <1>4, <1>5
    <3>2. Len(waiting') = 0 => waiting' = <<>>
      BY <1>5, EmptySeq
    <3>. QED
      BY <1>4, <3>1, <3>2
  <2>2. \A e \in Delivery : pc'[e] = "waiting" <=> e \in Range(waiting')
    BY <1>5, <1>8 DEF QueueInv, Queue
  <2>. QED
    BY <1>5, <1>10, <1>11, <2>1, <2>2 DEF Queue
<1>13. \A o \in Command : status'[o] = "none" => status[o] = "none"
  BY <1>2 DEF Served
<1>14. InTurn'
  <2>1. ASSUME NEW k \in 1 .. Len(waiting'), NEW l \in 1 .. Len(waiting'), k < l
        PROVE  Ahead(enqueuedAt', waiting'[k], waiting'[l])
    <3>1. k \in 1 .. Len(waiting) - m /\ l \in 1 .. Len(waiting) - m
      BY <1>5
    <3>2. m + k < m + l
      BY <1>4, <2>1
    <3>3. Ahead(enqueuedAt, waiting[m + k], waiting[m + l])
      BY <1>5, <3>1, <3>2 DEF QueueInv, InTurn
    <3>. QED
      BY <1>3, <1>5, <3>1, <3>3
  <2>2. ASSUME NEW k \in 1 .. Len(waiting') PROVE status'[CommandOf[waiting'[k]]] # "none"
    <3>1. k \in 1 .. Len(waiting) - m
      BY <1>5
    <3>2. status[CommandOf[waiting[m + k]]] # "none"
      BY <1>5, <3>1 DEF QueueInv, InTurn
    <3>3. waiting[m + k] \in Delivery
      BY <1>4, <1>5, <3>1, ElementOfSeq
    <3>. QED
      BY <1>5, <1>13, <3>1, <3>2, <3>3, SentFinite
  <2>. QED
    BY <2>1, <2>2 DEF InTurn
<1>15. Delivered'
  <2>1. ASSUME NEW o \in Command, status'[o] # "none" PROVE o \in Sent
    <3>1. CASE \E e \in G : CommandOf[e] = o
      BY <1>5, <3>1 DEF Sent
    <3>2. CASE ~ \E e \in G : CommandOf[e] = o
      <4>1. status[o] # "none"
        BY <1>2, <2>1, <3>2 DEF Served
      <4>. QED
        BY <4>1 DEF QueueInv, Delivered
    <3>. QED
      BY <3>1, <3>2
  <2>. QED
    BY <1>3, <2>1 DEF QueueInv, Delivered
<1>16. TypeOK'
  <2>1. /\ pc' \in [Delivery -> PcType] /\ reply' \in [Delivery -> ReplyType]
        /\ status' \in [Command -> StatusType]
    BY <1>2 DEF Served
  <2>. QED
    BY <1>3, <1>5, <1>7, <1>11, <2>1 DEF QueueInv, TypeOK, PcType, ReplyType, StatusType
<1>. QED
  BY <1>3, <1>12, <1>14, <1>15, <1>16 DEF QueueInv, Distinct

\* A cancellation of a command that does not wait, and of the waiter at i.
CancelsNobody == UNCHANGED <<pc, reply, waiting>>

CancelsWaiter(c, i) ==
  /\ i \in 1 .. Len(waiting) /\ CommandOf[waiting[i]] = c
  /\ waiting' = RemoveAt(waiting, i)
  /\ Answer({waiting[i]}, "cancelled")

(***************************************************************************)
(* What Cancel(c) does: at most one delivery of c, that waits, leaves the  *)
(* queue; the store keeps what it knows.                                   *)
(***************************************************************************)
LEMMA CancelTakes ==
  ASSUME QueueInv, NEW c \in Command, Cancel(c)
  PROVE  /\ status' = [status EXCEPT ![c] = "cancelled"]
         /\ status[c] \in {"queued", "running"}
         /\ UNCHANGED <<dedupeVars, enqueuedAt, runningCount, performed,
                        fingerprint, mutationsEnabled>>
         /\ CancelsNobody \/ \E i \in 1 .. Len(waiting) : CancelsWaiter(c, i)
<1>. DEFINE mine == {i \in 1 .. Len(waiting) : CommandOf[waiting[i]] = c}
            j == CHOOSE i \in mine : \A k \in mine : i <= k
<1>1. /\ status' = [status EXCEPT ![c] = "cancelled"]
      /\ status[c] \in {"queued", "running"}
      /\ UNCHANGED <<dedupeVars, enqueuedAt, runningCount, performed,
                     fingerprint, mutationsEnabled>>
      /\ IF mine = {} THEN UNCHANGED <<pc, reply, waiting>>
         ELSE /\ waiting' = RemoveAt(waiting, j)
              /\ Answer({waiting[j]}, "cancelled")
  BY DEF Cancel, CancelAllowed
<1>2. ASSUME mine # {} PROVE j \in mine
  <2>1. Len(waiting) \in Nat
    BY LenProperties DEF QueueInv, TypeOK
  <2>2. mine \in SUBSET (1 .. Len(waiting)) /\ mine \in SUBSET Nat
    BY <2>1
  <2>3. IsFiniteSet(mine)
    BY <2>1, <2>2, Initial, FS_Subset
  <2>4. \E i \in mine : \A k \in mine : i <= k
    BY <1>2, <2>2, <2>3, LeastExists
  <2>. QED
    BY <2>4
<1>. HIDE DEF j
<1>3. ASSUME mine # {} PROVE CancelsWaiter(c, j)
  BY <1>1, <1>2, <1>3 DEF CancelsWaiter
<1>. QED
  BY <1>1, <1>2, <1>3 DEF CancelsNobody

(***************************************************************************)
(* A cancellation: a waiter leaves the queue, the others stay in turn.     *)
(***************************************************************************)
LEMMA CancelKeepsQueue ==
  ASSUME QueueInv, NEW c \in Command, Cancel(c)
  PROVE  QueueInv'
<1>1. /\ status' = [status EXCEPT ![c] = "cancelled"]
      /\ status[c] \in {"queued", "running"}
      /\ UNCHANGED <<dedupeVars, enqueuedAt, runningCount, performed,
                     fingerprint, mutationsEnabled>>
      /\ CancelsNobody \/ \E i \in 1 .. Len(waiting) : CancelsWaiter(c, i)
  BY CancelTakes
<1>2. /\ waiting \in Seq(Delivery) /\ Distinct(waiting) /\ Len(waiting) \in Nat
      /\ \A i \in 1 .. Len(waiting) : waiting[i] \in Delivery
      /\ Range(waiting) = {waiting[i] : i \in 1 .. Len(waiting)}
      /\ status \in [Command -> StatusType]
      /\ pc \in [Delivery -> PcType] /\ reply \in [Delivery -> ReplyType]
  BY LenProperties, ElementOfSeq, RangeEquality
     DEF QueueInv, Queue, TypeOK, StatusType, PcType, ReplyType
<1>3. /\ status' \in [Command -> StatusType]
      /\ \A o \in Command : status'[o] = "none" <=> status[o] = "none"
  BY <1>1, <1>2 DEF StatusType
<1>4. \A i \in 1 .. Len(waiting) : CommandOf[waiting[i]] \in Command
  BY <1>2, SentFinite
<1>5. Delivered'
  BY <1>1, <1>3 DEF QueueInv, Delivered, dedupeVars
<1>6. Distinct(remembered)' /\ Distinct(remembered)
  BY <1>1 DEF QueueInv, Distinct, dedupeVars
<1>7. ASSUME CancelsNobody
      PROVE  QueueInv'
  <2>1. UNCHANGED <<pc, reply, waiting>>
    BY <1>7 DEF CancelsNobody
  <2>2. TypeOK'
    BY <1>1, <1>3, <2>1 DEF QueueInv, TypeOK, StatusType, dedupeVars
  <2>3. Queue'
    BY <1>1, <2>1, QueueStays DEF QueueInv
  <2>4. InTurn'
    BY <1>1, <1>2, <1>3, <2>1, InTurnStays DEF QueueInv
  <2>. QED
    BY <1>5, <1>6, <2>2, <2>3, <2>4 DEF QueueInv
<1>8. ASSUME NEW i \in 1 .. Len(waiting), CancelsWaiter(c, i)
      PROVE  QueueInv'
  <2>. DEFINE d == waiting[i]
              s == RemoveAt(waiting, i)
  <2>1. waiting' = s /\ Answer({d}, "cancelled")
    BY <1>8 DEF CancelsWaiter
  <2>2. d \in Delivery /\ d \in Range(waiting) /\ pc[d] = "waiting"
    BY <1>2 DEF QueueInv, Queue
  <2>3. /\ s \in Seq(Delivery) /\ Len(s) = Len(waiting) - 1
        /\ \A k \in 1 .. Len(waiting) - 1 :
             s[k] = IF k < i THEN waiting[k] ELSE waiting[k + 1]
    BY <1>2, Removed
  <2>. HIDE DEF s
  <2>4. \E at \in [1 .. Len(s) -> 1 .. Len(waiting)] :
          /\ \A k \in 1 .. Len(s) : s[k] = waiting[at[k]] /\ at[k] # i
          /\ \A k, l \in 1 .. Len(s) : k < l => at[k] < at[l]
          /\ \A l \in 1 .. Len(waiting) : l # i => \E k \in 1 .. Len(s) : at[k] = l
    <3>. DEFINE at == [k \in 1 .. Len(s) |-> IF k < i THEN k ELSE k + 1]
    <3>1. at \in [1 .. Len(s) -> 1 .. Len(waiting)]
      BY <1>2, <2>3
    <3>2. \A k \in 1 .. Len(s) : at[k] = IF k < i THEN k ELSE k + 1
      OBVIOUS
    <3>. HIDE DEF at
    <3>3. \A k \in 1 .. Len(s) : s[k] = waiting[at[k]] /\ at[k] # i
      BY <1>2, <2>3, <3>2
    <3>4. \A k, l \in 1 .. Len(s) : k < l => at[k] < at[l]
      BY <1>2, <2>3, <3>2
    <3>5. ASSUME NEW l \in 1 .. Len(waiting), l # i
          PROVE  \E k \in 1 .. Len(s) : at[k] = l
      <4>1. CASE l < i
        <5>1. l \in 1 .. Len(s)
          BY <1>2, <2>3, <4>1
        <5>2. at[l] = l
          BY <3>2, <4>1, <5>1
        <5>. QED
          BY <5>1, <5>2
      <4>2. CASE l > i
        <5>1. l - 1 \in 1 .. Len(s) /\ ~(l - 1 < i) /\ (l - 1) + 1 = l
          BY <1>2, <2>3, <4>2
        <5>2. at[l - 1] = l
          BY <3>2, <5>1
        <5>. QED
          BY <5>1, <5>2
      <4>3. l < i \/ l > i
        BY <1>2, <3>5
      <4>. QED
        BY ONLY <4>1, <4>2, <4>3
    <3>. QED
      BY <3>1, <3>3, <3>4, <3>5
  <2>5. PICK at \in [1 .. Len(s) -> 1 .. Len(waiting)] :
          /\ \A k \in 1 .. Len(s) : s[k] = waiting[at[k]] /\ at[k] # i
          /\ \A k, l \in 1 .. Len(s) : k < l => at[k] < at[l]
          /\ \A l \in 1 .. Len(waiting) : l # i => \E k \in 1 .. Len(s) : at[k] = l
    BY <2>4
  <2>6. Range(s) = {s[k] : k \in 1 .. Len(s)}
    BY <2>3, RangeEquality
  <2>7. Range(s) = Range(waiting) \ {d}
    <3>1. ASSUME NEW x \in Range(s) PROVE x \in Range(waiting) /\ x # d
      <4>1. PICK k \in 1 .. Len(s) : x = s[k]
        BY <2>6
      <4>2. at[k] \in 1 .. Len(waiting) /\ x = waiting[at[k]] /\ at[k] # i
        BY <2>5, <4>1
      <4>. QED
        BY <1>2, <4>2 DEF Distinct
    <3>2. ASSUME NEW x \in Range(waiting), x # d PROVE x \in Range(s)
      <4>1. PICK l \in 1 .. Len(waiting) : x = waiting[l]
        BY <1>2
      <4>2. l # i
        BY <3>2, <4>1
      <4>. QED
        BY <2>5, <2>6, <4>1, <4>2
    <3>. QED
      BY <3>1, <3>2
  <2>8. Distinct(s)
    <3>. SUFFICES ASSUME NEW k \in 1 .. Len(s), NEW l \in 1 .. Len(s), s[k] = s[l]
                  PROVE  k = l
      BY DEF Distinct
    <3>1. at[k] \in 1 .. Len(waiting) /\ at[l] \in 1 .. Len(waiting)
      BY <2>5
    <3>2. at[k] = at[l]
      BY <1>2, <2>5, <3>1 DEF Distinct
    <3>3. ~(at[k] < at[l]) /\ ~(at[l] < at[k])
      BY <1>2, <3>1, <3>2
    <3>4. (k < l => at[k] < at[l]) /\ (l < k => at[l] < at[k])
      BY <2>5
    <3>5. ~(k < l) /\ ~(l < k)
      BY ONLY <3>3, <3>4
    <3>. QED
      BY <1>2, <2>3, <3>5
  <2>9. "cancelled" \in ReplyType
    BY DEF ReplyType, Receipt
  <2>10. /\ pc' \in [Delivery -> PcType] /\ reply' \in [Delivery -> ReplyType]
         /\ \A e \in Delivery : pc'[e] = IF e = d THEN "replied" ELSE pc[e]
    BY <2>1, <2>9, AnswerTypes DEF QueueInv
  <2>11. TypeOK'
    BY <1>1, <1>3, <2>1, <2>3, <2>10
       DEF QueueInv, TypeOK, StatusType, PcType, ReplyType, dedupeVars
  <2>12. Running' = Running
    BY <2>2, <2>10 DEF Running, Active
  <2>13. waiting # <<>>
    <3>1. Len(waiting) # 0
      BY <1>2
    <3>. QED
      BY <3>1, EmptySeq
  <2>14. Queue'
    BY <1>1, <2>1, <2>2, <2>7, <2>8, <2>10, <2>12, <2>13 DEF QueueInv, Queue
  <2>15. InTurn'
    <3>1. ASSUME NEW k \in 1 .. Len(s), NEW l \in 1 .. Len(s), k < l
          PROVE  Ahead(enqueuedAt, s[k], s[l])
      <4>1. at[k] \in 1 .. Len(waiting) /\ at[l] \in 1 .. Len(waiting) /\ at[k] < at[l]
        BY <2>5, <3>1
      <4>2. Ahead(enqueuedAt, waiting[at[k]], waiting[at[l]])
        BY <4>1 DEF QueueInv, InTurn
      <4>. QED
        BY <2>5, <4>2
    <3>2. ASSUME NEW k \in 1 .. Len(s) PROVE status'[CommandOf[s[k]]] # "none"
      <4>1. at[k] \in 1 .. Len(waiting) /\ s[k] = waiting[at[k]]
        BY <2>5
      <4>2. status[CommandOf[waiting[at[k]]]] # "none"
        BY <4>1 DEF QueueInv, InTurn
      <4>. QED
        BY <1>3, <1>4, <4>1, <4>2
    <3>. QED
      BY <1>1, <2>1, <3>1, <3>2 DEF InTurn
  <2>. QED
    BY <1>5, <1>6, <2>11, <2>14, <2>15 DEF QueueInv
<1>. QED
  BY <1>1, <1>7, <1>8

(***************************************************************************)
(* A bus that has received nothing.                                        *)
(***************************************************************************)
LEMMA QueueInit == Init => QueueInv
<1>. SUFFICES ASSUME Init PROVE QueueInv
  OBVIOUS
<1>1. /\ Len(<<>>) = 0 /\ Range(<<>>) = {}
      /\ \A T : <<>> \in Seq(T)
  <2>1. \A T : <<>> \in Seq(T)
    OBVIOUS
  <2>2. Len(<<>>) = 0
    OBVIOUS
  <2>3. Range(<<>>) = {}
    <3>1. DOMAIN <<>> = {}
      OBVIOUS
    <3>. QED
      BY <3>1 DEF Range
  <2>. QED
    BY ONLY <2>1, <2>2, <2>3
<1>2. /\ remembered = <<>> /\ waiting = <<>> /\ runningCount = 0 /\ expired = {}
      /\ pc = [d \in Delivery |-> "idle"]
  BY DEF Init
<1>3. MaxConcurrency \in Nat /\ MaxEntries \in Nat
  BY PipelineAssumption
<1>4. remembered \in Seq(Command) /\ waiting \in Seq(Delivery)
  BY <1>1, <1>2
<1>5. Len(remembered) <= MaxEntries /\ runningCount \in 0 .. MaxConcurrency
  BY <1>1, <1>2, <1>3
<1>6. TypeOK
  BY <1>2, <1>4, <1>5 DEF Init, TypeOK
<1>7. 1 .. Len(remembered) = {} /\ 1 .. Len(waiting) = {}
  BY <1>1, <1>2
<1>8. Distinct(remembered) /\ Distinct(waiting) /\ InTurn
  BY ONLY <1>7 DEF Distinct, InTurn
<1>9. Running = {}
  BY <1>2 DEF Running, Active
<1>10. Queue
  BY <1>1, <1>2, <1>8, <1>9, FS_EmptySet DEF Queue
<1>11. Delivered
  BY <1>1, <1>2 DEF Init, Delivered
<1>. QED
  BY <1>6, <1>8, <1>10, <1>11 DEF QueueInv

(***************************************************************************)
(* Every step keeps the queue.                                             *)
(***************************************************************************)
LEMMA NextKeepsQueue ==
  QueueInv /\ [Next]_vars => QueueInv'
<1>. SUFFICES ASSUME QueueInv, [Next]_vars PROVE QueueInv'
  OBVIOUS
<1>1. ASSUME NEW d \in Delivery, Admit(d) \/ Refuse(d) PROVE QueueInv'
  BY <1>1, AdmissionKeepsQueue
<1>2. ASSUME NEW d \in Delivery, ClaimMismatch(d) \/ ClaimReplay(d) \/ ClaimJoin(d)
      PROVE  QueueInv'
  BY <1>2, StoreKeepsQueue
<1>3. ASSUME NEW d \in Delivery, Claim(d) PROVE QueueInv'
  BY <1>3, ClaimKeepsQueue
<1>4. ASSUME NEW d \in Delivery, Start(d) \/ Perform(d) PROVE QueueInv'
  BY <1>4, ExecutionKeepsQueue
<1>5. ASSUME NEW d \in Delivery, NEW r \in {"executed", "failed"}, Finish(d, r)
      PROVE  QueueInv'
  BY <1>5, FinishKeepsQueue
<1>6. ASSUME NEW c \in Command, Expire(c) PROVE QueueInv'
  BY <1>6, StoreKeepsQueue
<1>7. ASSUME NEW c \in Command, Cancel(c) PROVE QueueInv'
  BY <1>7, CancelKeepsQueue
<1>8. ASSUME NEW b \in BOOLEAN, SetMutationsEnabled(b) PROVE QueueInv'
  BY <1>8, AdmissionKeepsQueue
<1>9. CASE UNCHANGED vars
  BY <1>9, AdmissionKeepsQueue
<1>. QED
  BY <1>1, <1>2, <1>3, <1>4, <1>5, <1>6, <1>7, <1>8, <1>9 DEF Next

(***************************************************************************)
(* Permits are accounted for in every state of the invariant.              *)
(***************************************************************************)
LEMMA QueueAccounts == QueueInv => PermitsAccounted
<1>. SUFFICES ASSUME QueueInv PROVE PermitsAccounted
  OBVIOUS
<1>1. waiting \in Seq(Delivery) /\ Distinct(waiting)
  BY DEF QueueInv, Queue, TypeOK
<1>2. Len(waiting) = Cardinality(Range(waiting))
  BY <1>1, DistinctLength
<1>3. Range(waiting) \in SUBSET Delivery
  <2>1. Range(waiting) = {waiting[i] : i \in 1 .. Len(waiting)}
    BY <1>1, RangeEquality
  <2>2. \A i \in 1 .. Len(waiting) : waiting[i] \in Delivery
    BY <1>1, ElementOfSeq
  <2>. QED
    BY <2>1, <2>2
<1>4. Range(waiting) = {d \in Delivery : pc[d] = "waiting"}
  BY <1>3 DEF QueueInv, Queue
<1>. QED
  BY <1>2, <1>4 DEF QueueInv, Queue, PermitsAccounted, Running

(***************************************************************************)
(* Only processQueue gives a waiter a permit, and it takes the waiters     *)
(* from the front.                                                         *)
(***************************************************************************)
LEMMA NextServesInTurn ==
  ASSUME QueueInv, [Next]_vars, NEW d \in Delivery, NEW e \in Delivery,
         pc[d] = "waiting", pc'[d] = "granted", pc[e] = "waiting", pc'[e] = "waiting"
  PROVE  Ahead(enqueuedAt, d, e)
<1>1. ASSUME NEW x \in Delivery, NEW r \in {"executed", "failed"}, Finish(x, r)
      PROVE  Ahead(enqueuedAt, d, e)
  <2>1. PICK m \in 0 .. Len(waiting) : \E G \in SUBSET First(m) : Served(x, r, m, G)
    BY <1>1, FinishServes
  <2>2. PICK G \in SUBSET First(m) : Served(x, r, m, G)
    BY <2>1
  <2>3. d \in First(m)
    BY <2>2 DEF Served
  <2>4. e \notin First(m)
    BY <2>2 DEF Served
  <2>5. /\ waiting \in Seq(Delivery) /\ Len(waiting) \in Nat /\ m \in Nat
        /\ m <= Len(waiting)
        /\ Range(waiting) = {waiting[i] : i \in 1 .. Len(waiting)}
    BY LenProperties, RangeEquality DEF QueueInv, TypeOK
  <2>6. PICK i \in 1 .. m : d = waiting[i]
    BY <2>3 DEF First
  <2>7. e \in Range(waiting)
    BY DEF QueueInv, Queue
  <2>8. PICK k \in 1 .. Len(waiting) : e = waiting[k]
    BY <2>5, <2>7
  <2>9. k \notin 1 .. m
    BY <2>4, <2>8 DEF First
  <2>10. i \in 1 .. Len(waiting) /\ i < k
    BY <2>5, <2>9
  <2>. QED
    BY <2>6, <2>8, <2>10 DEF QueueInv, InTurn
<1>2. ASSUME NEW x \in Delivery, Admit(x) PROVE FALSE
  BY <1>2 DEF Admit, QueueInv, TypeOK
<1>3. ASSUME NEW x \in Delivery, Refuse(x) PROVE FALSE
  BY <1>3 DEF Refuse, Answer, QueueInv, TypeOK
<1>4. ASSUME NEW x \in Delivery, ClaimMismatch(x) PROVE FALSE
  BY <1>4 DEF ClaimMismatch, Answer, QueueInv, TypeOK
<1>5. ASSUME NEW x \in Delivery, ClaimReplay(x) PROVE FALSE
  BY <1>5 DEF ClaimReplay, Answer, QueueInv, TypeOK
<1>6. ASSUME NEW x \in Delivery, ClaimJoin(x) PROVE FALSE
  BY <1>6 DEF ClaimJoin, QueueInv, TypeOK
<1>7. ASSUME NEW x \in Delivery, Claim(x) PROVE FALSE
  <2>1. \/ pc' = [pc EXCEPT ![x] = "granted"]
        \/ pc' = [pc EXCEPT ![x] = "waiting"]
        \/ Answer({x}, "cancelled")
    BY <1>7 DEF Claim
  <2>2. pc[x] = "admitted"
    BY <1>7 DEF Claim
  <2>. QED
    BY <2>1, <2>2 DEF Answer, QueueInv, TypeOK
<1>8. ASSUME NEW x \in Delivery, Start(x) PROVE FALSE
  BY <1>8 DEF Start, QueueInv, TypeOK
<1>9. ASSUME NEW x \in Delivery, Perform(x) PROVE FALSE
  BY <1>9 DEF Perform, QueueInv, TypeOK
<1>10. ASSUME NEW c \in Command, Expire(c) PROVE FALSE
  BY <1>10 DEF Expire
<1>11. ASSUME NEW c \in Command, Cancel(c) PROVE FALSE
  <2>1. CancelsNobody \/ \E i \in 1 .. Len(waiting) : CancelsWaiter(c, i)
    BY <1>11, CancelTakes
  <2>. QED
    BY <2>1 DEF CancelsNobody, CancelsWaiter, Answer
<1>12. ASSUME NEW b \in BOOLEAN, SetMutationsEnabled(b) PROVE FALSE
  BY <1>12 DEF SetMutationsEnabled
<1>13. CASE UNCHANGED vars
  BY <1>13 DEF vars
<1>. QED
  BY <1>1, <1>2, <1>3, <1>4, <1>5, <1>6, <1>7, <1>8, <1>9, <1>10, <1>11, <1>12, <1>13
     DEF Next

(***************************************************************************)
(* The queue is sound in every state of every behaviour.                   *)
(***************************************************************************)
LEMMA QueueInvariance == Spec => []QueueInv
<1>1. Init => QueueInv
  BY QueueInit
<1>2. QueueInv /\ [Next]_vars => QueueInv'
  BY NextKeepsQueue
<1>. QED
  BY <1>1, <1>2, PTL DEF Spec

(***************************************************************************)
(* A permit goes to the waiter of the highest priority, and among those to *)
(* the one enqueued first, for every number of permits and deliveries.     *)
(***************************************************************************)
THEOREM NobodyOvertaken == Spec => NoOvertaking
<1>1. QueueInv /\ [Next]_vars =>
        [\A d, e \in Delivery :
           (/\ pc[d] = "waiting" /\ pc'[d] = "granted"
            /\ pc[e] = "waiting" /\ pc'[e] = "waiting")
           => LET c == CommandOf[d]
                  o == CommandOf[e]
              IN \/ Priority(c) > Priority(o)
                 \/ Priority(c) = Priority(o) /\ enqueuedAt[c] <= enqueuedAt[o]]_vars
  <2>. SUFFICES ASSUME QueueInv, [Next]_vars, NEW d \in Delivery, NEW e \in Delivery,
                       pc[d] = "waiting", pc'[d] = "granted",
                       pc[e] = "waiting", pc'[e] = "waiting"
                PROVE  \/ Priority(CommandOf[d]) > Priority(CommandOf[e])
                       \/ /\ Priority(CommandOf[d]) = Priority(CommandOf[e])
                          /\ enqueuedAt[CommandOf[d]] <= enqueuedAt[CommandOf[e]]
    OBVIOUS
  <2>1. Ahead(enqueuedAt, d, e)
    BY NextServesInTurn
  <2>. QED
    BY <2>1 DEF Ahead
<1>. QED
  BY <1>1, QueueInvariance, PTL DEF Spec, NoOvertaking

-----------------------------------------------------------------------------
(***************************************************************************)
(* The store and the executions, as long as the store is not so full of    *)
(* commands in flight that it must forget one of them.                     *)
(***************************************************************************)

\* What a claim pushes out of a full store is not in flight.
SparesPending ==
  \A d \in Delivery :
    Claim(d) /\ Len(Kept) >= MaxEntries => entry[Head(Kept)].state # "pending"

\* Whoever is past the claim is the one the store remembers as in flight.
Claims ==
  \A d \in Delivery :
    pc[d] \in Past =>
      /\ CommandOf[d] \in Range(remembered)
      /\ entry[CommandOf[d]].state = "pending"
      /\ entry[CommandOf[d]].promise = d

\* d was delivered with the content f of command c.
Carried(d, c, f) ==
  d \in Delivery /\ CommandOf[d] = c /\ fingerprint[d] = f /\ pc[d] # "idle"

\* An execution of command c with content f had its effect.
Executed(c, f) ==
  \E e \in performed : CommandOf[e] = c /\ fingerprint[e] = f

\* What the store knows of a command is true.
Entries ==
  \A c \in Command :
    /\ entry[c].state = "pending" =>
         Carried(entry[c].promise, c, entry[c].fingerprint)
    /\ entry[c].receipt = "executed" => Executed(c, entry[c].fingerprint)

\* A duplicate awaits a delivery of the same command and content.
Joins ==
  \A e \in Delivery :
    pc[e] = "joined" => Carried(awaits[e], CommandOf[e], fingerprint[e])

\* Only who is replied has a reply, and an effect comes from an execution;
\* that of a coordinated command is past the commit boundary.
Deliveries ==
  \A d \in Delivery :
    /\ reply[d] # "none" => pc[d] = "replied"
    /\ d \in performed => pc[d] \in {"performed", "replied"}
    /\ pc[d] = "performed" => d \in performed
    /\ CommandOf[d] \in Coordinated =>
         /\ pc[d] \in {"executing", "performed"} => status[CommandOf[d]] = "committing"
         /\ reply[d] = "cancelled" => d \notin performed

Books == Claims /\ Entries /\ Joins /\ Deliveries /\ TrueReceipts

(***************************************************************************)
(* The effects stay what they are while no content changes.                *)
(***************************************************************************)
LEMMA ExecutedStays ==
  ASSUME NEW c, NEW f, Executed(c, f), performed \subseteq Delivery,
         performed \subseteq performed',
         \A d \in performed : fingerprint'[d] = fingerprint[d]
  PROVE  \E e \in performed' : CommandOf[e] = c /\ fingerprint'[e] = f
BY DEF Executed

(***************************************************************************)
(* Books that only answer some deliveries.                                 *)
(***************************************************************************)
LEMMA AnswersKeepBooks ==
  ASSUME QueueInv, Books, UNCHANGED <<entry, awaits, performed, fingerprint>>,
         NEW D, NEW r,
         \A e \in Delivery : /\ pc'[e] = IF e \in D THEN "replied" ELSE pc[e]
                             /\ reply'[e] = IF e \in D THEN r ELSE reply[e],
         \A e \in Delivery : e \in D => pc[e] \in {"idle", "admitted", "waiting"},
         \A e \in Delivery : e \in D /\ r = "executed" =>
                               Executed(CommandOf[e], fingerprint[e]),
         \A e \in Delivery : pc[e] \in Past => CommandOf[e] \in Range(remembered'),
         \A c \in Coordinated : status[c] = "committing" => status'[c] = "committing"
  PROVE  Books'
<1>1. "replied" \notin Past /\ "idle" \notin Past
  BY DEF Past, Active
<1>2. Claims'
  BY <1>1 DEF Books, Claims
<1>3. Entries'
  <2>. SUFFICES ASSUME NEW c \in Command
                PROVE  /\ entry'[c].state = "pending" =>
                            Carried(entry[c].promise, c, entry[c].fingerprint)'
                       /\ entry'[c].receipt = "executed" =>
                            Executed(c, entry[c].fingerprint)'
    BY DEF Entries
  <2>1. entry[c].state = "pending" => Carried(entry[c].promise, c, entry[c].fingerprint)
    BY DEF Books, Entries
  <2>2. entry[c].receipt = "executed" => Executed(c, entry[c].fingerprint)
    BY DEF Books, Entries
  <2>. QED
    BY <2>1, <2>2 DEF Carried, Executed
<1>4. Joins'
  <2>. SUFFICES ASSUME NEW e \in Delivery, pc'[e] = "joined"
                PROVE  Carried(awaits[e], CommandOf[e], fingerprint[e])'
    BY DEF Joins
  <2>1. pc[e] = "joined"
    OBVIOUS
  <2>2. Carried(awaits[e], CommandOf[e], fingerprint[e])
    BY <2>1 DEF Books, Joins
  <2>. QED
    BY <2>2 DEF Carried
<1>5. Deliveries'
  BY DEF Books, Deliveries
<1>6. TrueReceipts'
  BY DEF Books, TrueReceipts, Executed
<1>. QED
  BY <1>2, <1>3, <1>4, <1>5, <1>6 DEF Books

(***************************************************************************)
(* The time to live and the capacity spare whoever is in flight.           *)
(***************************************************************************)
LEMMA InFlightIsKept ==
  ASSUME QueueInv, Books
  PROVE  \A e \in Delivery :
           pc[e] \in Past => /\ CommandOf[e] \in Range(Kept)
                             /\ CommandOf[e] \in Range(remembered)
<1>1. remembered \in Seq(Command) /\ Distinct(remembered)
  BY DEF QueueInv, TypeOK
<1>2. \A e \in Delivery : pc[e] \in Past =>
        CommandOf[e] \in Range(remembered) /\ Keeps(CommandOf[e])
  BY DEF Books, Claims, Keeps
<1>. QED
  BY <1>1, <1>2, KeptHas

(***************************************************************************)
(* Refusals, replays, cancellations and the time to live only answer.      *)
(***************************************************************************)
LEMMA AnswerKeepsBooks ==
  ASSUME QueueInv, Books,
         \/ \E d \in Delivery : Refuse(d) \/ ClaimMismatch(d) \/ ClaimReplay(d)
         \/ \E c \in Command : Expire(c) \/ Cancel(c)
         \/ \E b \in BOOLEAN : SetMutationsEnabled(b)
         \/ UNCHANGED vars
  PROVE  Books'
<1>1. UNCHANGED <<entry, awaits, performed, fingerprint>>
  BY DEF Refuse, ClaimMismatch, ClaimReplay, Expire, Cancel, SetMutationsEnabled,
         vars, dedupeVars
<1>2. /\ \A e \in Delivery : pc[e] \in Past => CommandOf[e] \in Range(Kept)
                                               /\ CommandOf[e] \in Range(remembered)
      /\ remembered \in Seq(Command) /\ Distinct(remembered)
      /\ pc \in [Delivery -> PcType] /\ reply \in [Delivery -> ReplyType]
      /\ status \in [Command -> StatusType]
  BY InFlightIsKept DEF QueueInv, TypeOK, PcType, ReplyType, StatusType
<1>3. ASSUME NEW D, NEW r, Answer(D, r),
             \A e \in Delivery : e \in D => pc[e] \in {"idle", "admitted", "waiting"},
             \A e \in Delivery : e \in D /\ r = "executed" =>
                                   Executed(CommandOf[e], fingerprint[e]),
             \A e \in Delivery : pc[e] \in Past => CommandOf[e] \in Range(remembered'),
             \A c \in Coordinated : status[c] = "committing" => status'[c] = "committing"
      PROVE  Books'
  <2>1. \A e \in Delivery : /\ pc'[e] = IF e \in D THEN "replied" ELSE pc[e]
                            /\ reply'[e] = IF e \in D THEN r ELSE reply[e]
    BY <1>3 DEF Answer
  <2>. QED
    BY <1>1, <1>3, <2>1, AnswersKeepBooks
<1>4. ASSUME UNCHANGED <<pc, reply>>,
             \A e \in Delivery : pc[e] \in Past => CommandOf[e] \in Range(remembered'),
             \A c \in Coordinated : status[c] = "committing" => status'[c] = "committing"
      PROVE  Books'
  <2>. DEFINE D == {e \in Delivery : FALSE}
              r == "none"
  <2>1. /\ \A e \in Delivery : /\ pc'[e] = IF e \in D THEN "replied" ELSE pc[e]
                               /\ reply'[e] = IF e \in D THEN r ELSE reply[e]
        /\ \A e \in Delivery : e \in D => pc[e] \in {"idle", "admitted", "waiting"}
        /\ \A e \in Delivery : e \in D /\ r = "executed" =>
                                 Executed(CommandOf[e], fingerprint[e])
    BY <1>4
  <2>. HIDE DEF D, r
  <2>. QED
    BY <1>1, <1>4, <2>1, AnswersKeepBooks
<1>5. ASSUME NEW d \in Delivery, Refuse(d)
      PROVE  Books'
  <2>1. /\ Answer({d}, "refused") /\ pc[d] \in {"idle", "admitted"}
        /\ UNCHANGED <<remembered, status>>
    BY <1>5 DEF Refuse, dedupeVars, queueVars
  <2>. QED
    BY <1>2, <1>3, <2>1
<1>6. ASSUME NEW d \in Delivery, ClaimMismatch(d)
      PROVE  Books'
  <2>1. /\ Answer({d}, "refused") /\ pc[d] = "admitted"
        /\ remembered' = Kept /\ UNCHANGED status
    BY <1>6 DEF ClaimMismatch, Remember, queueVars
  <2>. QED
    BY <1>2, <1>3, <2>1
<1>7. ASSUME NEW d \in Delivery, ClaimReplay(d)
      PROVE  Books'
  <2>. DEFINE c == CommandOf[d]
  <2>1. /\ Answer({d}, entry[c].receipt) /\ pc[d] = "admitted"
        /\ fingerprint[d] = entry[c].fingerprint /\ c \in Range(Kept)
        /\ remembered' = Refreshed(c) /\ UNCHANGED status
    BY <1>7 DEF ClaimReplay, Remember, Remembers, SameFingerprint, queueVars
  <2>2. c \in Command
    BY SentFinite
  <2>3. Range(remembered') = Range(Kept)
    BY <1>2, <2>1, <2>2, RefreshedHas
  <2>4. entry[c].receipt = "executed" => Executed(c, fingerprint[d])
    BY <2>1, <2>2 DEF Books, Entries
  <2>. QED
    BY <1>2, <1>3, <2>1, <2>3, <2>4
<1>8. ASSUME NEW c \in Command, Expire(c)
      PROVE  Books'
  <2>1. UNCHANGED <<pc, reply, remembered, status>>
    BY <1>8 DEF Expire, queueVars
  <2>. QED
    BY <1>2, <1>4, <2>1
<1>9. ASSUME NEW c \in Command, Cancel(c)
      PROVE  Books'
  <2>1. /\ status' = [status EXCEPT ![c] = "cancelled"]
        /\ status[c] \in {"queued", "running"} /\ UNCHANGED remembered
        /\ CancelsNobody \/ \E i \in 1 .. Len(waiting) : CancelsWaiter(c, i)
    BY <1>9, CancelTakes DEF dedupeVars
  <2>2. \A o \in Coordinated : status[o] = "committing" => status'[o] = "committing"
    BY <1>2, <2>1, PipelineAssumption
  <2>3. CASE CancelsNobody
    BY <1>2, <1>4, <2>1, <2>2, <2>3 DEF CancelsNobody
  <2>4. ASSUME NEW i \in 1 .. Len(waiting), CancelsWaiter(c, i) PROVE Books'
    <3>0. waiting \in Seq(Delivery)
      BY DEF QueueInv, TypeOK
    <3>1. waiting[i] \in Delivery /\ waiting[i] \in Range(waiting)
      BY <3>0, ElementOfSeq, RangeEquality
    <3>2. pc[waiting[i]] = "waiting" /\ Answer({waiting[i]}, "cancelled")
      BY <2>4, <3>1 DEF QueueInv, Queue, CancelsWaiter
    <3>. QED
      BY <1>2, <1>3, <2>1, <2>2, <3>2
  <2>. QED
    BY <2>1, <2>3, <2>4
<1>10. ASSUME NEW b \in BOOLEAN, SetMutationsEnabled(b)
       PROVE  Books'
  <2>1. UNCHANGED <<pc, reply, remembered, status>>
    BY <1>10 DEF SetMutationsEnabled, queueVars, dedupeVars
  <2>. QED
    BY <1>2, <1>4, <2>1
<1>11. ASSUME UNCHANGED vars
       PROVE  Books'
  <2>1. UNCHANGED <<pc, reply, remembered, status>>
    BY <1>11 DEF vars, queueVars, dedupeVars
  <2>. QED
    BY <1>2, <1>4, <2>1
<1>. QED
  BY <1>5, <1>6, <1>7, <1>8, <1>9, <1>10, <1>11

\* The same of the next state.
CarriedThen(d, c, f) ==
  d \in Delivery /\ CommandOf[d] = c /\ fingerprint'[d] = f /\ pc'[d] # "idle"

ExecutedThen(c, f) ==
  \E e \in performed' : CommandOf[e] = c /\ fingerprint'[e] = f

(***************************************************************************)
(* Nobody becomes idle again, and the content of a delivery is settled at  *)
(* its admission: what was true of contents stays true.                    *)
(***************************************************************************)
LEMMA ContentStays ==
  ASSUME QueueInv, Books, performed \subseteq performed',
         \A e \in Delivery : pc[e] # "idle" =>
                               fingerprint'[e] = fingerprint[e] /\ pc'[e] # "idle"
  PROVE  /\ \A d, c, f : Carried(d, c, f) => CarriedThen(d, c, f)
         /\ \A c, f : Executed(c, f) => ExecutedThen(c, f)
<1>1. \A d, c, f : Carried(d, c, f) => CarriedThen(d, c, f)
  BY DEF Carried, CarriedThen
<1>2. \A e \in performed : e \in Delivery /\ pc[e] # "idle"
  BY DEF QueueInv, TypeOK, Books, Deliveries
<1>3. \A c, f : Executed(c, f) => ExecutedThen(c, f)
  BY <1>2 DEF Executed, ExecutedThen
<1>. QED
  BY <1>1, <1>3

(***************************************************************************)
(* A delivery is admitted with a content; nobody knows of it yet.          *)
(***************************************************************************)
LEMMA AdmitKeepsBooks ==
  ASSUME QueueInv, Books, NEW d \in Delivery, Admit(d)
  PROVE  Books'
<1>1. /\ pc[d] = "idle" /\ pc' = [pc EXCEPT ![d] = "admitted"]
      /\ UNCHANGED <<reply, remembered, entry, awaits, status, performed>>
  BY DEF Admit, dedupeVars, queueVars
<1>2. /\ pc \in [Delivery -> PcType]
      /\ \A e \in Delivery : pc'[e] = IF e = d THEN "admitted" ELSE pc[e]
  BY <1>1 DEF QueueInv, TypeOK, PcType
<1>3. \A e \in Delivery : e # d => fingerprint'[e] = fingerprint[e]
  BY DEF Admit, QueueInv, TypeOK
<1>4. \A e \in Delivery : pc[e] # "idle" =>
        fingerprint'[e] = fingerprint[e] /\ pc'[e] # "idle"
  BY <1>1, <1>2, <1>3
<1>5. /\ \A e, c, f : Carried(e, c, f) => CarriedThen(e, c, f)
      /\ \A c, f : Executed(c, f) => ExecutedThen(c, f)
  BY <1>1, <1>4, ContentStays
<1>6. Claims'
  BY <1>1, <1>2 DEF Books, Claims, Past, Active
<1>7. Entries'
  <2>1. ASSUME NEW c \in Command
        PROVE  /\ entry[c].state = "pending" =>
                    CarriedThen(entry[c].promise, c, entry[c].fingerprint)
               /\ entry[c].receipt = "executed" => ExecutedThen(c, entry[c].fingerprint)
    BY <1>5 DEF Books, Entries
  <2>. QED
    BY <1>1, <2>1 DEF Entries, Carried, CarriedThen, Executed, ExecutedThen
<1>8. Joins'
  <2>1. ASSUME NEW e \in Delivery, pc'[e] = "joined"
        PROVE  CarriedThen(awaits'[e], CommandOf[e], fingerprint'[e])
    <3>1. pc[e] = "joined" /\ awaits'[e] = awaits[e] /\ fingerprint'[e] = fingerprint[e]
      BY <1>1, <1>2, <1>3, <2>1
    <3>. QED
      BY <1>5, <3>1 DEF Books, Joins
  <2>. QED
    BY <2>1 DEF Joins, Carried, CarriedThen
<1>9. Deliveries'
  BY <1>1, <1>2 DEF Books, Deliveries
<1>10. TrueReceipts'
  <2>1. ASSUME NEW e \in Delivery, reply'[e] = "executed"
        PROVE  ExecutedThen(CommandOf[e], fingerprint'[e])
    <3>1. reply[e] = "executed" /\ pc[e] # "idle"
      BY <1>1, <2>1 DEF Books, Deliveries
    <3>2. Executed(CommandOf[e], fingerprint[e])
      BY <3>1 DEF Books, TrueReceipts, Executed
    <3>. QED
      BY <1>4, <1>5, <3>1, <3>2
  <2>. QED
    BY <2>1 DEF TrueReceipts, ExecutedThen
<1>. QED
  BY <1>6, <1>7, <1>8, <1>9, <1>10 DEF Books

(***************************************************************************)
(* A duplicate joins the delivery in flight, which carries the same.       *)
(***************************************************************************)
LEMMA JoinKeepsBooks ==
  ASSUME QueueInv, Books, NEW d \in Delivery, ClaimJoin(d)
  PROVE  Books'
<1>. DEFINE c == CommandOf[d]
<1>1. /\ pc[d] = "admitted" /\ pc' = [pc EXCEPT ![d] = "joined"]
      /\ c \in Range(Kept) /\ fingerprint[d] = entry[c].fingerprint
      /\ entry[c].state = "pending" /\ remembered' = Refreshed(c)
      /\ awaits' = [awaits EXCEPT ![d] = entry[c].promise]
      /\ UNCHANGED <<reply, entry, status, performed, fingerprint>>
  BY DEF ClaimJoin, Remember, Remembers, SameFingerprint, queueVars
<1>2. /\ pc \in [Delivery -> PcType]
      /\ \A e \in Delivery : pc'[e] = IF e = d THEN "joined" ELSE pc[e]
      /\ \A e \in Delivery : awaits'[e] = IF e = d THEN entry[c].promise ELSE awaits[e]
      /\ remembered \in Seq(Command) /\ Distinct(remembered) /\ c \in Command
  BY <1>1, SentFinite DEF QueueInv, TypeOK, PcType
<1>3. Range(remembered') = Range(Kept)
  BY <1>1, <1>2, RefreshedHas
<1>4. \A e \in Delivery : pc[e] # "idle" =>
        fingerprint'[e] = fingerprint[e] /\ pc'[e] # "idle"
  BY <1>1, <1>2
<1>5. /\ \A e, o, f : Carried(e, o, f) => CarriedThen(e, o, f)
      /\ \A o, f : Executed(o, f) => ExecutedThen(o, f)
  BY <1>1, <1>4, ContentStays
<1>6. Claims'
  <2>1. \A e \in Delivery : pc'[e] \in Past => pc[e] \in Past
    BY <1>2 DEF Past, Active
  <2>. QED
    BY <1>1, <1>3, <2>1, InFlightIsKept DEF Books, Claims
<1>7. Entries'
  <2>1. ASSUME NEW o \in Command
        PROVE  /\ entry[o].state = "pending" =>
                    CarriedThen(entry[o].promise, o, entry[o].fingerprint)
               /\ entry[o].receipt = "executed" => ExecutedThen(o, entry[o].fingerprint)
    BY <1>5 DEF Books, Entries
  <2>. QED
    BY <1>1, <2>1 DEF Entries, Carried, CarriedThen, Executed, ExecutedThen
<1>8. Joins'
  <2>1. ASSUME NEW e \in Delivery, pc'[e] = "joined"
        PROVE  CarriedThen(awaits'[e], CommandOf[e], fingerprint'[e])
    <3>1. CASE e = d
      <4>1. Carried(entry[c].promise, c, entry[c].fingerprint)
        BY <1>1, <1>2 DEF Books, Entries
      <4>. QED
        BY <1>1, <1>2, <1>5, <3>1, <4>1
    <3>2. CASE e # d
      <4>1. pc[e] = "joined" /\ awaits'[e] = awaits[e] /\ fingerprint'[e] = fingerprint[e]
        BY <1>1, <1>2, <2>1, <3>2
      <4>. QED
        BY <1>5, <4>1 DEF Books, Joins
    <3>. QED
      BY <3>1, <3>2
  <2>. QED
    BY <2>1 DEF Joins, Carried, CarriedThen
<1>9. Deliveries'
  BY <1>1, <1>2 DEF Books, Deliveries
<1>10. TrueReceipts'
  BY <1>1 DEF Books, TrueReceipts
<1>. QED
  BY <1>6, <1>7, <1>8, <1>9, <1>10 DEF Books

(***************************************************************************)
(* The start of an execution is the commit boundary of a coordinated       *)
(* command; its effect comes after it.                                     *)
(***************************************************************************)
LEMMA ExecutionKeepsBooks ==
  ASSUME QueueInv, Books, NEW d \in Delivery, Start(d) \/ Perform(d)
  PROVE  Books'
<1>1. /\ \/ /\ pc[d] = "granted" /\ pc' = [pc EXCEPT ![d] = "executing"]
            /\ performed' = performed
         \/ /\ pc[d] = "executing" /\ pc' = [pc EXCEPT ![d] = "performed"]
            /\ performed' = performed \cup {d}
      /\ UNCHANGED <<reply, remembered, entry, awaits, fingerprint>>
  BY DEF Start, Perform, dedupeVars
<1>2. /\ pc \in [Delivery -> PcType]
      /\ pc[d] \in Past /\ pc'[d] \in Past /\ pc'[d] \in {"executing", "performed"}
      /\ \A e \in Delivery : e # d => pc'[e] = pc[e]
  BY <1>1 DEF QueueInv, TypeOK, PcType, Past, Active
<1>3. \A e \in Delivery : pc[e] # "idle" =>
        fingerprint'[e] = fingerprint[e] /\ pc'[e] # "idle"
  BY <1>1, <1>2
<1>4. performed \subseteq performed' /\ \A e \in Delivery : e # d =>
        (e \in performed' <=> e \in performed)
  BY <1>1
<1>5. /\ \A e, c, f : Carried(e, c, f) => CarriedThen(e, c, f)
      /\ \A c, f : Executed(c, f) => ExecutedThen(c, f)
  BY <1>3, <1>4, ContentStays
<1>6. Claims'
  <2>1. \A e \in Delivery : pc'[e] \in Past => pc[e] \in Past
    BY <1>2
  <2>. QED
    BY <1>1, <2>1 DEF Books, Claims
<1>7. Entries'
  <2>1. ASSUME NEW c \in Command
        PROVE  /\ entry[c].state = "pending" =>
                    CarriedThen(entry[c].promise, c, entry[c].fingerprint)
               /\ entry[c].receipt = "executed" => ExecutedThen(c, entry[c].fingerprint)
    BY <1>5 DEF Books, Entries
  <2>. QED
    BY <1>1, <2>1 DEF Entries, Carried, CarriedThen, Executed, ExecutedThen
<1>8. Joins'
  <2>1. ASSUME NEW e \in Delivery, pc'[e] = "joined"
        PROVE  CarriedThen(awaits'[e], CommandOf[e], fingerprint'[e])
    <3>1. pc[e] = "joined" /\ awaits'[e] = awaits[e] /\ fingerprint'[e] = fingerprint[e]
      BY <1>1, <1>2, <2>1
    <3>. QED
      BY <1>5, <3>1 DEF Books, Joins
  <2>. QED
    BY <2>1 DEF Joins, Carried, CarriedThen
<1>9. CommandOf[d] \in Coordinated => status'[CommandOf[d]] = "committing"
  <2>1. CASE Start(d)
    BY <2>1, SentFinite DEF Start, QueueInv, TypeOK
  <2>2. CASE Perform(d)
    BY <2>2 DEF Perform, queueVars, Books, Deliveries
  <2>. QED
    BY <2>1, <2>2
<1>10. \A c \in Command : c # CommandOf[d] => status'[c] = status[c]
  BY SentFinite DEF Start, Perform, queueVars, QueueInv, TypeOK
<1>11. \A e \in Delivery : CommandOf[e] = CommandOf[d] /\ pc[e] \in Past => e = d
  BY <1>2 DEF Books, Claims
<1>12. Deliveries'
  <2>. SUFFICES ASSUME NEW e \in Delivery
                PROVE  /\ reply'[e] # "none" => pc'[e] = "replied"
                       /\ e \in performed' => pc'[e] \in {"performed", "replied"}
                       /\ pc'[e] = "performed" => e \in performed'
                       /\ CommandOf[e] \in Coordinated =>
                            /\ pc'[e] \in {"executing", "performed"} =>
                                 status'[CommandOf[e]] = "committing"
                            /\ reply'[e] = "cancelled" => e \notin performed'
    BY DEF Deliveries
  <2>1. /\ reply[e] # "none" => pc[e] = "replied"
        /\ e \in performed => pc[e] \in {"performed", "replied"}
        /\ pc[e] = "performed" => e \in performed
        /\ CommandOf[e] \in Coordinated =>
             /\ pc[e] \in {"executing", "performed"} =>
                  status[CommandOf[e]] = "committing"
             /\ reply[e] = "cancelled" => e \notin performed
    BY DEF Books, Deliveries
  <2>2. CASE e = d
    BY <1>1, <1>2, <1>9, <2>1, <2>2 DEF QueueInv, TypeOK
  <2>3. CASE e # d
    <3>1. pc'[e] = pc[e] /\ (e \in performed' <=> e \in performed) /\ reply'[e] = reply[e]
      BY <1>1, <1>2, <1>4, <2>3
    <3>2. pc[e] \in {"executing", "performed"} => status'[CommandOf[e]] = status[CommandOf[e]]
      BY <1>10, <1>11, <2>3, SentFinite DEF Past, Active
    <3>. QED
      BY <2>1, <3>1, <3>2
  <2>. QED
    BY <2>2, <2>3
<1>13. TrueReceipts'
  <2>1. ASSUME NEW e \in Delivery, reply'[e] = "executed"
        PROVE  ExecutedThen(CommandOf[e], fingerprint'[e])
    <3>1. Executed(CommandOf[e], fingerprint[e])
      BY <1>1, <2>1 DEF Books, TrueReceipts, Executed
    <3>. QED
      BY <1>1, <1>5, <3>1
  <2>. QED
    BY <2>1 DEF TrueReceipts, ExecutedThen
<1>. QED
  BY <1>6, <1>7, <1>8, <1>12, <1>13 DEF Books

(***************************************************************************)
(* A claim is made of a command that is not in flight.                     *)
(***************************************************************************)
LEMMA ClaimKeepsBooks ==
  ASSUME SparesPending, QueueInv, Books, NEW d \in Delivery, Claim(d)
  PROVE  Books'
<1>. DEFINE c == CommandOf[d]
<1>1. /\ pc[d] = "admitted" /\ c \notin Range(Kept) /\ remembered' = Append(Room, c)
      /\ entry' = [entry EXCEPT ![c] =
           [state |-> "pending", fingerprint |-> fingerprint[d],
            promise |-> d, receipt |-> "none"]]
      /\ UNCHANGED <<awaits, performed, fingerprint>>
  BY DEF Claim, Remember, Remembers, Room
<1>2. /\ c \in Command /\ c \in Sent
      /\ pc \in [Delivery -> PcType] /\ reply \in [Delivery -> ReplyType]
      /\ status \in [Command -> StatusType]
  BY SentFinite DEF QueueInv, TypeOK, PcType, ReplyType, StatusType
<1>3. /\ entry'[c] = [state |-> "pending", fingerprint |-> fingerprint[d],
                      promise |-> d, receipt |-> "none"]
      /\ \A o \in Command : o # c => entry'[o] = entry[o]
  BY <1>1, <1>2 DEF QueueInv, TypeOK
<1>4. /\ c \in Range(remembered')
      /\ \A e \in Delivery : pc[e] \in Past => CommandOf[e] \in Range(remembered')
  <2>1. /\ remembered \in Seq(Command) /\ Distinct(remembered)
        /\ Len(remembered) <= MaxEntries
    BY DEF QueueInv, TypeOK
  <2>2. /\ c \in Range(Append(Room, c))
        /\ \A o \in Range(Kept) :
             (Len(Kept) >= MaxEntries => o # Head(Kept)) => o \in Range(Append(Room, c))
    BY <1>1, <1>2, <2>1, ClaimedHas
  <2>3. ASSUME NEW e \in Delivery, pc[e] \in Past
        PROVE  CommandOf[e] \in Range(Append(Room, c))
    <3>1. CommandOf[e] \in Range(Kept) /\ entry[CommandOf[e]].state = "pending"
      BY <2>3, InFlightIsKept DEF Books, Claims
    <3>2. Len(Kept) >= MaxEntries => CommandOf[e] # Head(Kept)
      BY <3>1 DEF SparesPending
    <3>. QED
      BY <2>2, <3>1, <3>2
  <2>. QED
    BY <1>1, <2>2, <2>3
<1>5. \/ pc'[d] \in {"granted", "waiting"} /\ reply'[d] = "none"
      \/ pc'[d] = "replied" /\ reply'[d] = "cancelled"
  <2>1. reply[d] = "none"
    BY <1>1 DEF Books, Deliveries
  <2>2. \/ Answer({d}, "cancelled")
        \/ pc' = [pc EXCEPT ![d] = "granted"] /\ UNCHANGED reply
        \/ pc' = [pc EXCEPT ![d] = "waiting"] /\ UNCHANGED reply
    BY DEF Claim
  <2>. QED
    BY <1>2, <2>1, <2>2 DEF Answer
<1>6. \A e \in Delivery : e # d => pc'[e] = pc[e] /\ reply'[e] = reply[e]
  <2>1. \/ Answer({d}, "cancelled")
        \/ pc' = [pc EXCEPT ![d] = "granted"] /\ UNCHANGED reply
        \/ pc' = [pc EXCEPT ![d] = "waiting"] /\ UNCHANGED reply
    BY DEF Claim
  <2>. QED
    BY <1>2, <2>1 DEF Answer
<1>7. \A o \in Command : o # c => status'[o] = status[o]
  BY <1>2 DEF Claim
<1>8. \A e \in Delivery : pc[e] \in Past => CommandOf[e] \in Range(Kept) /\ CommandOf[e] # c
                                            /\ e # d /\ CommandOf[e] \in Command
  BY <1>1, InFlightIsKept, SentFinite DEF Past, Active
<1>9. \A e \in Delivery : pc[e] # "idle" =>
        fingerprint'[e] = fingerprint[e] /\ pc'[e] # "idle"
  BY <1>1, <1>5, <1>6
<1>10. /\ \A e, o, f : Carried(e, o, f) => CarriedThen(e, o, f)
       /\ \A o, f : Executed(o, f) => ExecutedThen(o, f)
  BY <1>1, <1>9, ContentStays
<1>11. Claims'
  <2>. SUFFICES ASSUME NEW e \in Delivery, pc'[e] \in Past
                PROVE  /\ CommandOf[e] \in Range(remembered')
                       /\ entry'[CommandOf[e]].state = "pending"
                       /\ entry'[CommandOf[e]].promise = e
    BY DEF Claims
  <2>1. CASE e = d
    BY <1>3, <1>4, <2>1
  <2>2. CASE e # d
    <3>1. pc[e] \in Past
      BY <1>6, <2>2
    <3>2. entry'[CommandOf[e]] = entry[CommandOf[e]] /\ CommandOf[e] \in Range(Kept)
      BY <1>3, <1>8, <3>1
    <3>. QED
      BY <1>4, <3>1, <3>2 DEF Books, Claims
  <2>. QED
    BY <2>1, <2>2
<1>12. Entries'
  <2>1. ASSUME NEW o \in Command
        PROVE  /\ entry'[o].state = "pending" =>
                    CarriedThen(entry'[o].promise, o, entry'[o].fingerprint)
               /\ entry'[o].receipt = "executed" => ExecutedThen(o, entry'[o].fingerprint)
    <3>1. CASE o = c
      <4>1. Carried(d, c, fingerprint[d])
        BY <1>1 DEF Carried
      <4>2. CarriedThen(d, c, fingerprint[d])
        BY <1>10, <4>1
      <4>. QED
        BY <1>3, <3>1, <4>2
    <3>2. CASE o # c
      <4>1. entry'[o] = entry[o]
        BY <1>3, <3>2
      <4>. QED
        BY <1>10, <4>1 DEF Books, Entries
    <3>. QED
      BY <3>1, <3>2
  <2>. QED
    BY <2>1 DEF Entries, Carried, CarriedThen, Executed, ExecutedThen
<1>13. Joins'
  <2>1. ASSUME NEW e \in Delivery, pc'[e] = "joined"
        PROVE  CarriedThen(awaits'[e], CommandOf[e], fingerprint'[e])
    <3>1. pc[e] = "joined" /\ awaits'[e] = awaits[e] /\ fingerprint'[e] = fingerprint[e]
      BY <1>1, <1>5, <1>6, <2>1
    <3>. QED
      BY <1>10, <3>1 DEF Books, Joins
  <2>. QED
    BY <2>1 DEF Joins, Carried, CarriedThen
<1>14. Deliveries'
  <2>. SUFFICES ASSUME NEW e \in Delivery
                PROVE  /\ reply'[e] # "none" => pc'[e] = "replied"
                       /\ e \in performed' => pc'[e] \in {"performed", "replied"}
                       /\ pc'[e] = "performed" => e \in performed'
                       /\ CommandOf[e] \in Coordinated =>
                            /\ pc'[e] \in {"executing", "performed"} =>
                                 status'[CommandOf[e]] = "committing"
                            /\ reply'[e] = "cancelled" => e \notin performed'
    BY DEF Deliveries
  <2>1. /\ reply[e] # "none" => pc[e] = "replied"
        /\ e \in performed => pc[e] \in {"performed", "replied"}
        /\ pc[e] = "performed" => e \in performed
        /\ CommandOf[e] \in Coordinated =>
             /\ pc[e] \in {"executing", "performed"} =>
                  status[CommandOf[e]] = "committing"
             /\ reply[e] = "cancelled" => e \notin performed
    BY DEF Books, Deliveries
  <2>2. CASE e = d
    BY <1>1, <1>5, <2>1, <2>2
  <2>3. CASE e # d
    <3>1. pc'[e] = pc[e] /\ performed' = performed /\ reply'[e] = reply[e]
      BY <1>1, <1>6, <2>3
    <3>2. pc[e] \in {"executing", "performed"} => status'[CommandOf[e]] = status[CommandOf[e]]
      BY <1>7, <1>8 DEF Past, Active
    <3>. QED
      BY <2>1, <3>1, <3>2
  <2>. QED
    BY <2>2, <2>3
<1>15. TrueReceipts'
  <2>1. ASSUME NEW e \in Delivery, reply'[e] = "executed"
        PROVE  ExecutedThen(CommandOf[e], fingerprint'[e])
    <3>1. reply[e] = "executed"
      BY <1>5, <1>6, <2>1
    <3>2. Executed(CommandOf[e], fingerprint[e])
      BY <3>1 DEF Books, TrueReceipts, Executed
    <3>. QED
      BY <1>1, <1>10, <3>2
  <2>. QED
    BY <2>1 DEF TrueReceipts, ExecutedThen
<1>. QED
  BY <1>11, <1>12, <1>13, <1>14, <1>15 DEF Books

(***************************************************************************)
(* The end of an execution: its receipt is recorded under the content it   *)
(* was claimed with, and whoever awaits it carries that content.           *)
(***************************************************************************)
LEMMA FinishKeepsBooks ==
  ASSUME QueueInv, Books, NEW d \in Delivery, NEW r \in {"executed", "failed"},
         Finish(d, r)
  PROVE  Books'
<1>. DEFINE c == CommandOf[d]
<1>1. PICK m \in 0 .. Len(waiting) : \E G \in SUBSET First(m) : Served(d, r, m, G)
  BY FinishServes
<1>2. PICK G \in SUBSET First(m) : Served(d, r, m, G)
  BY <1>1
<1>3. /\ entry' = Recorded(c, Outcome(d, r))
      /\ UNCHANGED <<remembered, awaits, performed, fingerprint>>
  BY DEF Finish, Outcome
<1>4. /\ pc[d] \in Active /\ (pc[d] = "performed" \/ r = "failed")
      /\ \A e \in Delivery :
           /\ pc'[e] = IF e = d \/ e \in Joiners(c) \/ e \in First(m) \ G
                       THEN "replied" ELSE IF e \in G THEN "granted" ELSE pc[e]
           /\ reply'[e] = IF e = d \/ e \in Joiners(c) THEN Outcome(d, r)
                          ELSE IF e \in First(m) \ G THEN "cancelled" ELSE reply[e]
      /\ \A o \in Command :
           status'[o] = IF \E e \in G : CommandOf[e] = o THEN "running"
                        ELSE IF o = c /\ status[o] \in {"running", "committing"}
                        THEN (IF r = "executed" THEN "completed" ELSE "failed")
                        ELSE status[o]
  BY <1>2 DEF Served
<1>5. /\ c \in Command /\ \A e \in Delivery : CommandOf[e] \in Command
      /\ NoDelivery \notin Delivery
  BY SentFinite, PipelineAssumption
<1>6. \A e \in First(m) : e \in Delivery /\ pc[e] = "waiting"
  BY FirstWaits
<1>7. pc[d] \in Past
  BY <1>4 DEF Past
<1>8. /\ c \in Range(remembered) /\ entry[c].state = "pending" /\ entry[c].promise = d
      /\ entry[c].fingerprint = fingerprint[d]
  BY <1>5, <1>7 DEF Books, Claims, Entries, Carried
<1>9. /\ entry'[c].state \in {"completed", "rejected"}
      /\ entry'[c].receipt = Outcome(d, r)
      /\ entry'[c].fingerprint = fingerprint[d]
      /\ \A o \in Command : o # c => entry'[o] = entry[o]
  BY <1>3, <1>5, <1>8 DEF Recorded, QueueInv, TypeOK
<1>10. \A e \in Joiners(c) :
         /\ e \in Delivery /\ pc[e] = "joined"
         /\ CommandOf[e] = c /\ fingerprint[e] = fingerprint[d]
  BY <1>8 DEF Joiners, Books, Joins, Carried
<1>11. \A e \in Delivery : pc[e] \in Past /\ CommandOf[e] = c => e = d
  BY <1>8 DEF Books, Claims
<1>12. \A e \in Delivery : pc[e] # "idle" =>
         fingerprint'[e] = fingerprint[e] /\ pc'[e] # "idle"
  BY <1>3, <1>4
<1>13. /\ \A e, o, f : Carried(e, o, f) => CarriedThen(e, o, f)
       /\ \A o, f : Executed(o, f) => ExecutedThen(o, f)
  BY <1>3, <1>12, ContentStays
<1>14. Outcome(d, r) = "executed" => d \in performed
  BY <1>4 DEF Outcome, Books, Deliveries
<1>15. c \in Coordinated /\ Outcome(d, r) = "cancelled" => d \notin performed
  <2>1. Outcome(d, r) = "cancelled" => status[c] = "cancelled"
    BY DEF Outcome
  <2>2. c \in Coordinated /\ pc[d] \in {"executing", "performed"} => status[c] = "committing"
    BY DEF Books, Deliveries
  <2>3. d \in performed => pc[d] \in {"performed", "replied"}
    BY DEF Books, Deliveries
  <2>. QED
    BY <1>4, <2>1, <2>2, <2>3 DEF Active
<1>16. \A e \in Delivery : pc'[e] \in Past => e # d /\ pc[e] \in Past
  BY <1>4, <1>6 DEF Past, Active
<1>17. Claims'
  <2>. SUFFICES ASSUME NEW e \in Delivery, pc'[e] \in Past
                PROVE  /\ CommandOf[e] \in Range(remembered')
                       /\ entry'[CommandOf[e]].state = "pending"
                       /\ entry'[CommandOf[e]].promise = e
    BY DEF Claims
  <2>1. pc[e] \in Past /\ CommandOf[e] # c
    BY <1>11, <1>16
  <2>2. entry'[CommandOf[e]] = entry[CommandOf[e]]
    BY <1>5, <1>9, <2>1
  <2>. QED
    BY <1>3, <2>1, <2>2 DEF Books, Claims
<1>18. Entries'
  <2>1. ASSUME NEW o \in Command
        PROVE  /\ entry'[o].state = "pending" =>
                    CarriedThen(entry'[o].promise, o, entry'[o].fingerprint)
               /\ entry'[o].receipt = "executed" => ExecutedThen(o, entry'[o].fingerprint)
    <3>1. CASE o = c
      <4>1. Outcome(d, r) = "executed" => Executed(c, fingerprint[d])
        BY <1>14 DEF Executed
      <4>. QED
        BY <1>9, <1>13, <3>1, <4>1
    <3>2. CASE o # c
      <4>1. entry'[o] = entry[o]
        BY <1>9, <3>2
      <4>. QED
        BY <1>13, <4>1 DEF Books, Entries
    <3>. QED
      BY <3>1, <3>2
  <2>. QED
    BY <2>1 DEF Entries, Carried, CarriedThen, Executed, ExecutedThen
<1>19. Joins'
  <2>1. ASSUME NEW e \in Delivery, pc'[e] = "joined"
        PROVE  CarriedThen(awaits'[e], CommandOf[e], fingerprint'[e])
    <3>1. pc[e] = "joined" /\ awaits'[e] = awaits[e] /\ fingerprint'[e] = fingerprint[e]
      BY <1>3, <1>4, <2>1
    <3>. QED
      BY <1>13, <3>1 DEF Books, Joins
  <2>. QED
    BY <2>1 DEF Joins, Carried, CarriedThen
<1>20. Deliveries'
  <2>. SUFFICES ASSUME NEW e \in Delivery
                PROVE  /\ reply'[e] # "none" => pc'[e] = "replied"
                       /\ e \in performed' => pc'[e] \in {"performed", "replied"}
                       /\ pc'[e] = "performed" => e \in performed'
                       /\ CommandOf[e] \in Coordinated =>
                            /\ pc'[e] \in {"executing", "performed"} =>
                                 status'[CommandOf[e]] = "committing"
                            /\ reply'[e] = "cancelled" => e \notin performed'
    BY DEF Deliveries
  <2>1. /\ reply[e] # "none" => pc[e] = "replied"
        /\ e \in performed => pc[e] \in {"performed", "replied"}
        /\ pc[e] = "performed" => e \in performed
        /\ CommandOf[e] \in Coordinated =>
             /\ pc[e] \in {"executing", "performed"} =>
                  status[CommandOf[e]] = "committing"
             /\ reply[e] = "cancelled" => e \notin performed
    BY DEF Books, Deliveries
  <2>2. CASE e = d
    BY <1>3, <1>4, <1>15, <2>1, <2>2
  <2>3. CASE e # d /\ e \in Joiners(c)
    BY <1>3, <1>4, <1>10, <2>1, <2>3
  <2>4. CASE e # d /\ e \notin Joiners(c) /\ e \in First(m)
    BY <1>3, <1>4, <1>6, <2>1, <2>4
  <2>5. CASE e # d /\ e \notin Joiners(c) /\ e \notin First(m)
    <3>1. pc'[e] = pc[e] /\ performed' = performed /\ reply'[e] = reply[e]
      BY <1>3, <1>4, <2>5
    <3>2. ASSUME pc[e] \in {"executing", "performed"}
          PROVE  status'[CommandOf[e]] = status[CommandOf[e]]
      <4>1. pc[e] \in Past /\ pc[e] # "waiting"
        BY <3>2 DEF Past, Active
      <4>2. CommandOf[e] # c
        BY <1>11, <2>5, <4>1
      <4>3. ASSUME NEW g \in G, CommandOf[g] = CommandOf[e] PROVE FALSE
        <5>1. g \in Delivery /\ pc[g] = "waiting" /\ pc[g] \in Past
          BY <1>6 DEF Past
        <5>2. g = e
          BY <4>1, <4>3, <5>1 DEF Books, Claims
        <5>. QED
          BY <4>1, <5>1, <5>2
      <4>. QED
        BY <1>4, <1>5, <4>2, <4>3
    <3>. QED
      BY <2>1, <3>1, <3>2
  <2>. QED
    BY <2>2, <2>3, <2>4, <2>5
<1>21. TrueReceipts'
  <2>1. ASSUME NEW e \in Delivery, reply'[e] = "executed"
        PROVE  ExecutedThen(CommandOf[e], fingerprint'[e])
    <3>1. CASE e = d \/ e \in Joiners(c)
      <4>1. Outcome(d, r) = "executed"
        BY <1>4, <2>1, <3>1
      <4>2. CommandOf[e] = c /\ fingerprint[e] = fingerprint[d]
        BY <1>10, <3>1
      <4>3. Executed(c, fingerprint[d])
        BY <1>14, <4>1 DEF Executed
      <4>. QED
        BY <1>3, <1>13, <4>2, <4>3
    <3>2. CASE ~(e = d \/ e \in Joiners(c))
      <4>1. reply[e] = "executed"
        BY <1>4, <2>1, <3>2
      <4>2. Executed(CommandOf[e], fingerprint[e])
        BY <4>1 DEF Books, TrueReceipts, Executed
      <4>. QED
        BY <1>3, <1>13, <4>2
    <3>. QED
      BY <3>1, <3>2
  <2>. QED
    BY <2>1 DEF TrueReceipts, ExecutedThen
<1>. QED
  BY <1>17, <1>18, <1>19, <1>20, <1>21 DEF Books

(***************************************************************************)
(* Every step that spares what is in flight keeps the books.               *)
(***************************************************************************)
LEMMA NextKeepsBooks ==
  QueueInv /\ Books /\ [Next]_vars /\ [SparesPending]_vars => Books'
<1>. SUFFICES ASSUME QueueInv, Books, [Next]_vars, [SparesPending]_vars PROVE Books'
  OBVIOUS
<1>1. ASSUME NEW d \in Delivery, Admit(d) PROVE Books'
  BY <1>1, AdmitKeepsBooks
<1>2. ASSUME NEW d \in Delivery, Refuse(d) \/ ClaimMismatch(d) \/ ClaimReplay(d)
      PROVE  Books'
  BY <1>2, AnswerKeepsBooks
<1>3. ASSUME NEW d \in Delivery, ClaimJoin(d) PROVE Books'
  BY <1>3, JoinKeepsBooks
<1>4. ASSUME NEW d \in Delivery, Claim(d) PROVE Books'
  <2>1. CASE SparesPending
    BY <1>4, <2>1, ClaimKeepsBooks
  <2>2. CASE UNCHANGED vars
    BY <2>2, AnswerKeepsBooks
  <2>. QED
    BY <2>1, <2>2
<1>5. ASSUME NEW d \in Delivery, Start(d) \/ Perform(d) PROVE Books'
  BY <1>5, ExecutionKeepsBooks
<1>6. ASSUME NEW d \in Delivery, NEW r \in {"executed", "failed"}, Finish(d, r)
      PROVE  Books'
  BY <1>6, FinishKeepsBooks
<1>7. ASSUME NEW c \in Command, Expire(c) \/ Cancel(c) PROVE Books'
  BY <1>7, AnswerKeepsBooks
<1>8. ASSUME NEW b \in BOOLEAN, SetMutationsEnabled(b) PROVE Books'
  BY <1>8, AnswerKeepsBooks
<1>9. CASE UNCHANGED vars
  BY <1>9, AnswerKeepsBooks
<1>. QED
  BY <1>1, <1>2, <1>3, <1>4, <1>5, <1>6, <1>7, <1>8, <1>9 DEF Next

(***************************************************************************)
(* A bus that has received nothing has nothing on its books.               *)
(***************************************************************************)
LEMMA BooksInit == Init => Books
<1>. SUFFICES ASSUME Init PROVE Books
  OBVIOUS
<1>1. /\ \A d \in Delivery : pc[d] = "idle" /\ reply[d] = "none"
      /\ \A c \in Command : entry[c].state = "none" /\ entry[c].receipt = "none"
      /\ performed = {}
  BY DEF Init
<1>. QED
  BY <1>1 DEF Books, Claims, Entries, Joins, Deliveries, TrueReceipts, Past, Active

(***************************************************************************)
(* The books are sound as long as no claim pushes out what is in flight.   *)
(***************************************************************************)
LEMMA BooksInvariance ==
  Spec /\ [][SparesPending]_vars => [](QueueInv /\ Books)
<1>1. Init => QueueInv /\ Books
  BY QueueInit, BooksInit
<1>2. QueueInv /\ Books /\ [Next]_vars /\ [SparesPending]_vars => (QueueInv /\ Books)'
  BY NextKeepsQueue, NextKeepsBooks
<1>. QED
  BY <1>1, <1>2, PTL DEF Spec

(***************************************************************************)
(* Bus, store and queue are of their types, permits are accounted for, and *)
(* a cancelled coordinated command has no effect, for every number of      *)
(* deliveries and permits, as long as no claim pushes out a command in     *)
(* flight.                                                                 *)
(***************************************************************************)
THEOREM PipelineConsistent ==
  Spec /\ [][SparesPending]_vars => []Consistent
<1>1. QueueInv /\ Books => Consistent
  <2>. SUFFICES ASSUME QueueInv, Books PROVE Consistent
    OBVIOUS
  <2>1. CancelledBeforeCommit
    <3>. SUFFICES ASSUME NEW c \in Coordinated, NEW d \in Delivery, CommandOf[d] = c
                  PROVE  /\ status[c] = "cancelled" => pc[d] \notin {"executing", "performed"}
                         /\ reply[d] = "cancelled" => d \notin performed
      BY DEF CancelledBeforeCommit, Untouched
    <3>. QED
      BY DEF Books, Deliveries
  <2>. QED
    BY <2>1, QueueAccounts DEF QueueInv, Consistent
<1>. QED
  BY <1>1, BooksInvariance, PTL

(***************************************************************************)
(* command-dedupe-store.ts:103: concurrent requests for the same command   *)
(* share the same in-flight execution, for every number of deliveries, as  *)
(* long as no claim pushes out a command in flight.                        *)
(***************************************************************************)
THEOREM ExecutionShared ==
  Spec /\ [][SparesPending]_vars => []SharedExecution
<1>1. QueueInv /\ Books => SharedExecution
  <2>. SUFFICES ASSUME Books, NEW d \in Delivery, NEW e \in Delivery,
                       pc[d] \in Past, pc[e] \in Past, CommandOf[d] = CommandOf[e]
                PROVE  d = e
    BY DEF SharedExecution
  <2>. QED
    BY DEF Books, Claims
<1>. QED
  BY <1>1, BooksInvariance, PTL

(***************************************************************************)
(* Nobody is told that a command was executed which was not, with the very *)
(* content this delivery carries.                                          *)
(***************************************************************************)
THEOREM ReceiptsTrue ==
  Spec /\ [][SparesPending]_vars => []TrueReceipts
<1>1. QueueInv /\ Books => TrueReceipts
  BY DEF Books
<1>. QED
  BY <1>1, BooksInvariance, PTL

-----------------------------------------------------------------------------
(***************************************************************************)
(* Bus, store and queue are of their types and permits are accounted for   *)
(* whatever the store forgets (acquirePermit, releasePermit, processQueue).*)
(***************************************************************************)
THEOREM PermitsNeverLeak == Spec => [](TypeOK /\ PermitsAccounted)
<1>1. QueueInv => TypeOK /\ PermitsAccounted
  BY QueueAccounts DEF QueueInv
<1>. QED
  BY <1>1, QueueInvariance, PTL

\* The store has room for every command that is delivered.
RoomForAll == Cardinality(Sent) <= MaxEntries

(***************************************************************************)
(* A store with room for every command pushes nothing out: there the       *)
(* hypothesis of the theorems above is met.                                *)
(***************************************************************************)
THEOREM RoomSuffices ==
  ASSUME RoomForAll
  PROVE  Spec => [][SparesPending]_vars
<1>1. QueueInv => SparesPending
  <2>. SUFFICES ASSUME QueueInv, NEW d \in Delivery, Claim(d), Len(Kept) >= MaxEntries
                PROVE  FALSE
    BY DEF SparesPending
  <2>. DEFINE c == CommandOf[d]
  <2>1. c \in Sent /\ c \in Command /\ c \notin Range(Kept)
    BY SentFinite DEF Claim, Remembers
  <2>2. /\ remembered \in Seq(Command) /\ Distinct(remembered)
        /\ Range(remembered) \subseteq Sent
    BY DEF QueueInv, TypeOK, Delivered
  <2>3. Kept \in Seq(Command) /\ Distinct(Kept) /\ Range(Kept) \subseteq Range(remembered)
    BY <2>2, KeptHas
  <2>4. IsFiniteSet(Range(Kept)) /\ Cardinality(Range(Kept)) = Len(Kept)
    BY <2>3, DistinctLength
  <2>5. Cardinality(Range(Kept) \cup {c}) = Len(Kept) + 1
    BY <2>1, <2>4, FS_AddElement
  <2>6. Range(Kept) \cup {c} \in SUBSET Sent
    BY <2>1, <2>2, <2>3
  <2>7. Cardinality(Range(Kept) \cup {c}) <= Cardinality(Sent)
    BY <2>6, SentFinite, FS_Subset
  <2>8. Cardinality(Sent) \in Nat /\ MaxEntries \in Nat /\ Len(Kept) \in Nat
    BY <2>3, SentFinite, FS_CardinalityType, LenProperties, PipelineAssumption
  <2>. QED
    BY <2>5, <2>7, <2>8 DEF RoomForAll
<1>. QED
  BY <1>1, QueueInvariance, PTL
=============================================================================
