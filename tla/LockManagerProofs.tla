-------------------------- MODULE LockManagerProofs --------------------------
(***************************************************************************)
(* Proofs about LockManager, for every set of keys, owners and requests:   *)
(* type correctness, the accounting of holds and mutual exclusion; and     *)
(* that LockQueues, with the queues and the loop as written, implements it.*)
(*                                                                         *)
(* The inductive invariant is LockInv: the holds are accounted (a key's    *)
(* owner and depth are those of the handles held on it), waiting requests  *)
(* have distinct sequence numbers (so that of two waiters for one key one  *)
(* is ahead, and the loop cannot grant both to different owners), and the  *)
(* owner of a moved handle holds and awaits nothing (so that releasing the *)
(* moved handle finds no key of its own).                                  *)
(***************************************************************************)
EXTENDS LockQueues, FiniteSetTheorems, SequenceTheorems, TLAPS

HeldOn(h, k) == {r \in Request : h[r] = "held" /\ k \in KeysOf[r]}

Accounts(h, own, dep) ==
  \A k \in Key :
    /\ dep[k] = Cardinality(HeldOn(h, k))
    /\ \A r \in HeldOn(h, k) : own[k] = OwnerOf[r]
    /\ own[k] # NoOwner => HeldOn(h, k) # {}

Ordered(h, s, n) ==
  /\ \A r \in Request : s[r] < n /\ (h[r] = "waiting" => s[r] # 0)
  /\ \A r, q \in Request :
       (h[r] = "waiting" /\ h[q] = "waiting" /\ r # q) => s[r] # s[q]

MovedAreAlone(h) ==
  \A r, q \in Request :
    (h[r] = "moved" /\ h[q] \in {"held", "waiting"}) => OwnerOf[q] # OwnerOf[r]

LockInv ==
  /\ TypeOK
  /\ Accounts(handle, owner, depth)
  /\ Ordered(handle, seq, nextHandleSeq)
  /\ MovedAreAlone(handle)

-----------------------------------------------------------------------------
(***************************************************************************)
(* What the loop of processQueues leaves, given what the method before it  *)
(* left (h, own, dep): the facts that all the methods share.               *)
(***************************************************************************)

(***************************************************************************)
(* The handles on a key are finitely many, so their number is a number.    *)
(***************************************************************************)
LEMMA HeldOnFinite ==
  ASSUME NEW h, NEW k
  PROVE  IsFiniteSet(HeldOn(h, k)) /\ Cardinality(HeldOn(h, k)) \in Nat
<1>1. HeldOn(h, k) \in SUBSET Request
  BY DEF HeldOn
<1>2. IsFiniteSet(HeldOn(h, k))
  BY <1>1, FS_Subset, ConstantsAssumption DEF ConstantsAssumption
<1>. QED
  BY <1>2, FS_CardinalityType

(***************************************************************************)
(* Of two requests that the loop grants on one key, one was ahead of the   *)
(* other, so both are of one owner (processQueues, canAcquireRequest).     *)
(***************************************************************************)
LEMMA GrantsShareOwner ==
  ASSUME NEW h \in [Request -> HandleState], NEW s \in [Request -> Nat],
         NEW n \in Nat, NEW own, NEW G,
         Ordered(h, s, n),
         Drains({r \in Request : h[r] = "waiting"}, own, s, G),
         NEW r \in G, NEW q \in G, NEW k \in Key,
         k \in KeysOf[r], k \in KeysOf[q]
  PROVE  OwnerOf[r] = OwnerOf[q]
<1>. DEFINE W == {x \in Request : h[x] = "waiting"}
<1>1. r \in W /\ q \in W
  BY DEF Drains
<1>2. KeysOf[q] \cap KeysOf[r] # {}
  OBVIOUS
<1>3. CASE r = q
  BY <1>3
<1>4. CASE r # q
  <2>1. s[r] < s[q] \/ s[q] < s[r]
    BY <1>1, <1>4 DEF Ordered
  <2>2. CASE s[r] < s[q]
    BY <1>1, <1>2, <2>2 DEF Drains
  <2>3. CASE s[q] < s[r]
    BY <1>1, <1>2, <2>3 DEF Drains
  <2>. QED
    BY <2>1, <2>2, <2>3
<1>. QED
  BY <1>3, <1>4

(***************************************************************************)
(* The loop only turns waiting requests into held ones and keeps the       *)
(* accounts (grantKeys).                                                   *)
(***************************************************************************)
LEMMA SettleAccounts ==
  ASSUME NEW h \in [Request -> HandleState], NEW s \in [Request -> Nat],
         NEW n \in Nat,
         NEW own \in [Key -> Owner \cup {NoOwner}], NEW dep \in [Key -> Nat],
         Accounts(h, own, dep), Ordered(h, s, n), Settle(h, own, dep, s)
  PROVE  /\ handle' \in [Request -> HandleState]
         /\ owner' \in [Key -> Owner \cup {NoOwner}]
         /\ depth' \in [Key -> Nat]
         /\ Accounts(handle', owner', depth')
         /\ \A r \in Request :
              handle'[r] = h[r] \/ (h[r] = "waiting" /\ handle'[r] = "held")
<1>. DEFINE W == {r \in Request : h[r] = "waiting"}
<1>1. PICK G \in SUBSET W :
        /\ Drains(W, own, s, G)
        /\ handle' = [r \in Request |-> IF r \in G THEN "held" ELSE h[r]]
        /\ owner' = GrantedOwner(G, own)
        /\ depth' = GrantedDepth(G, dep)
  BY DEF Settle
<1>. DEFINE On(k) == {r \in G : k \in KeysOf[r]}
<1>2. G \subseteq Request
  OBVIOUS
<1>3. \A r \in Request :
        handle'[r] = h[r] \/ (h[r] = "waiting" /\ handle'[r] = "held")
  BY <1>1
<1>4. handle' \in [Request -> HandleState]
  BY <1>1 DEF HandleState
<1>5. \A k \in Key : IsFiniteSet(On(k)) /\ Cardinality(On(k)) \in Nat
  <2>. TAKE k \in Key
  <2>1. On(k) \in SUBSET Request
    BY <1>2
  <2>2. IsFiniteSet(On(k))
    BY <2>1, FS_Subset, ConstantsAssumption DEF ConstantsAssumption
  <2>. QED
    BY <2>2, FS_CardinalityType
<1>6. depth' \in [Key -> Nat]
  <2>1. depth' = [k \in Key |-> dep[k] + Cardinality(On(k))]
    BY <1>1, Zenon DEF GrantedDepth
  <2>. HIDE DEF On
  <2>2. \A k \in Key : dep[k] + Cardinality(On(k)) \in Nat
    BY <1>5
  <2>. QED
    BY <2>1, <2>2
<1>7. \A k \in Key : HeldOn(handle', k) = HeldOn(h, k) \cup On(k)
  BY <1>1, <1>2 DEF HeldOn
<1>8. ASSUME NEW k \in Key, NEW r \in G, k \in KeysOf[r]
      PROVE  owner'[k] = OwnerOf[r]
  <2>. DEFINE g == CHOOSE x \in G : k \in KeysOf[x]
  <2>1. g \in G /\ k \in KeysOf[g]
    BY <1>8
  <2>2. owner'[k] = OwnerOf[g]
    BY <1>1, <1>8 DEF GrantedOwner
  <2>3. OwnerOf[g] = OwnerOf[r]
    BY <1>1, <1>8, <2>1, GrantsShareOwner
  <2>. QED
    BY <2>2, <2>3
<1>9. ASSUME NEW k \in Key, \A r \in G : k \notin KeysOf[r]
      PROVE  owner'[k] = own[k]
  BY <1>1, <1>9 DEF GrantedOwner
<1>10. owner' \in [Key -> Owner \cup {NoOwner}]
  <2>1. \A k \in Key : owner'[k] \in Owner \cup {NoOwner}
    BY <1>2, <1>8, <1>9, ConstantsAssumption DEF ConstantsAssumption
  <2>2. owner' = [k \in Key |-> owner'[k]]
    BY <1>1 DEF GrantedOwner
  <2>. QED
    BY <2>1, <2>2
<1>11. ASSUME NEW k \in Key
       PROVE  depth'[k] = Cardinality(HeldOn(handle', k))
  <2>1. HeldOn(h, k) \cap On(k) = {}
    BY DEF HeldOn
  <2>2. Cardinality(HeldOn(h, k) \cup On(k))
          = Cardinality(HeldOn(h, k)) + Cardinality(On(k)) - Cardinality({})
    BY <1>5, <2>1, HeldOnFinite, FS_Union
  <2>3. Cardinality({}) = 0
    BY FS_EmptySet
  <2>4. depth'[k] = dep[k] + Cardinality(On(k))
    BY <1>1 DEF GrantedDepth
  <2>5. dep[k] = Cardinality(HeldOn(h, k))
    BY DEF Accounts
  <2>6. Cardinality(HeldOn(h, k)) \in Nat /\ Cardinality(On(k)) \in Nat
    BY <1>5, HeldOnFinite
  <2>7. HeldOn(handle', k) = HeldOn(h, k) \cup On(k)
    BY <1>7
  <2>. HIDE DEF On
  <2>. QED
    BY <2>2, <2>3, <2>4, <2>5, <2>6, <2>7
<1>12. ASSUME NEW k \in Key, NEW r \in HeldOn(handle', k)
       PROVE  owner'[k] = OwnerOf[r]
  <2>1. CASE r \in On(k)
    BY <1>8, <2>1
  <2>2. CASE r \in HeldOn(h, k)
    <3>1. own[k] = OwnerOf[r] /\ own[k] # NoOwner
      <4>1. own[k] = OwnerOf[r]
        BY <2>2 DEF Accounts
      <4>2. r \in Request
        BY <2>2 DEF HeldOn
      <4>. QED
        BY <4>1, <4>2, ConstantsAssumption DEF ConstantsAssumption
    <3>2. CASE \A q \in G : k \notin KeysOf[q]
      BY <1>9, <3>1, <3>2
    <3>3. CASE \E q \in G : k \in KeysOf[q]
      <4>1. PICK q \in G : k \in KeysOf[q]
        BY <3>3
      <4>2. Grantable(q, own)
        BY <1>1 DEF Drains
      <4>3. own[k] = OwnerOf[q]
        BY <3>1, <4>1, <4>2 DEF Grantable
      <4>. QED
        BY <1>8, <3>1, <4>1, <4>3
    <3>. QED
      BY <3>2, <3>3
  <2>. QED
    BY <1>7, <1>12, <2>1, <2>2
<1>13. ASSUME NEW k \in Key, owner'[k] # NoOwner
       PROVE  HeldOn(handle', k) # {}
  <2>1. CASE \E q \in G : k \in KeysOf[q]
    BY <1>7, <2>1
  <2>2. CASE \A q \in G : k \notin KeysOf[q]
    BY <1>7, <1>9, <1>13, <2>2 DEF Accounts
  <2>. QED
    BY <2>1, <2>2
<1>14. Accounts(handle', owner', depth')
  BY <1>11, <1>12, <1>13 DEF Accounts
<1>. QED
  BY <1>3, <1>4, <1>6, <1>10, <1>14

(***************************************************************************)
(* The loop makes nobody wait and moves no handle, so order and solitude   *)
(* carry over.                                                             *)
(***************************************************************************)
LEMMA SettleKeepsOrder ==
  ASSUME NEW h \in [Request -> HandleState], NEW s, NEW n,
         Ordered(h, s, n), MovedAreAlone(h),
         \A r \in Request :
           handle'[r] = h[r] \/ (h[r] = "waiting" /\ handle'[r] = "held")
  PROVE  Ordered(handle', s, n) /\ MovedAreAlone(handle')
<1>1. Ordered(handle', s, n)
  BY DEF Ordered
<1>2. MovedAreAlone(handle')
  BY DEF MovedAreAlone
<1>. QED
  BY <1>1, <1>2
-----------------------------------------------------------------------------
(***************************************************************************)
(* Each method preserves LockInv.                                          *)
(***************************************************************************)

(***************************************************************************)
(* A step that ends with the loop preserves LockInv when what the method   *)
(* left before the loop is accounted, ordered and leaves moved ones alone. *)
(***************************************************************************)
LEMMA SettleKeepsInv ==
  ASSUME NEW h \in [Request -> HandleState],
         NEW own \in [Key -> Owner \cup {NoOwner}], NEW dep \in [Key -> Nat],
         seq' \in [Request -> Nat], nextHandleSeq' \in Nat \ {0},
         Accounts(h, own, dep), Ordered(h, seq', nextHandleSeq'),
         MovedAreAlone(h), Settle(h, own, dep, seq')
  PROVE  LockInv'
<1>1. /\ handle' \in [Request -> HandleState]
      /\ owner' \in [Key -> Owner \cup {NoOwner}]
      /\ depth' \in [Key -> Nat]
      /\ Accounts(handle', owner', depth')
      /\ \A r \in Request :
           handle'[r] = h[r] \/ (h[r] = "waiting" /\ handle'[r] = "held")
  BY SettleAccounts
<1>2. Ordered(handle', seq', nextHandleSeq') /\ MovedAreAlone(handle')
  BY <1>1, SettleKeepsOrder
<1>. QED
  BY <1>1, <1>2 DEF LockInv, TypeOK, Accounts, Ordered, MovedAreAlone, HeldOn

LEMMA AcquireKeepsInv ==
  ASSUME LockInv, NEW r \in Request, Acquire(r)
  PROVE  LockInv'
<1>1. /\ seq' = [seq EXCEPT ![r] = nextHandleSeq]
      /\ nextHandleSeq' = nextHandleSeq + 1
      /\ handle[r] = "idle" /\ ~Dispossessed(OwnerOf[r])
  BY DEF Acquire
<1>2. seq' \in [Request -> Nat] /\ nextHandleSeq' \in Nat \ {0}
  BY <1>1 DEF LockInv, TypeOK
<1>3. CASE CanAcquireAllImmediately(r)
  <2>1. /\ handle' = [handle EXCEPT ![r] = "held"]
        /\ owner' = [k \in Key |-> IF k \in KeysOf[r] THEN OwnerOf[r]
                                                      ELSE owner[k]]
        /\ depth' = [k \in Key |->
                        IF k \notin KeysOf[r] THEN depth[k]
                        ELSE IF owner[k] = OwnerOf[r] THEN depth[k] + 1
                        ELSE 1]
    BY <1>3 DEF Acquire
  <2>2. \A k \in KeysOf[r] : owner[k] \in {NoOwner, OwnerOf[r]}
    BY <1>3 DEF CanAcquireAllImmediately, Grantable
  <2>3. OwnerOf[r] \in Owner
    BY ConstantsAssumption DEF ConstantsAssumption
  <2>4. TypeOK'
    BY <1>2, <2>1, <2>3 DEF LockInv, TypeOK, HandleState
  <2>5. ASSUME NEW k \in Key
        PROVE  /\ depth'[k] = Cardinality(HeldOn(handle', k))
               /\ \A q \in HeldOn(handle', k) : owner'[k] = OwnerOf[q]
               /\ owner'[k] # NoOwner => HeldOn(handle', k) # {}
    <3>1. CASE k \notin KeysOf[r]
      <4>1. HeldOn(handle', k) = HeldOn(handle, k)
        BY <1>1, <2>1, <3>1 DEF HeldOn, LockInv, TypeOK
      <4>. QED
        BY <2>1, <3>1, <4>1 DEF LockInv, Accounts
    <3>2. CASE k \in KeysOf[r]
      <4>1. HeldOn(handle', k) = HeldOn(handle, k) \cup {r}
        BY <2>1, <3>2 DEF HeldOn, LockInv, TypeOK
      <4>2. r \notin HeldOn(handle, k)
        BY <1>1 DEF HeldOn
      <4>3. Cardinality(HeldOn(handle', k)) = Cardinality(HeldOn(handle, k)) + 1
        BY <4>1, <4>2, HeldOnFinite, FS_AddElement
      <4>4. depth[k] = Cardinality(HeldOn(handle, k)) /\ depth[k] \in Nat
        BY DEF LockInv, Accounts, TypeOK
      <4>5. owner'[k] = OwnerOf[r]
        BY <2>1, <3>2
      <4>6. CASE owner[k] = OwnerOf[r]
        <5>1. depth'[k] = Cardinality(HeldOn(handle', k))
          BY <2>1, <3>2, <4>3, <4>4, <4>6
        <5>. QED
          BY <4>1, <4>5, <4>6, <5>1 DEF LockInv, Accounts
      <4>7. CASE owner[k] = NoOwner
        <5>1. HeldOn(handle, k) = {}
          <6>. SUFFICES ASSUME NEW q \in HeldOn(handle, k) PROVE FALSE
            OBVIOUS
          <6>1. OwnerOf[q] = NoOwner
            BY <4>7 DEF LockInv, Accounts
          <6>. QED
            BY <6>1, ConstantsAssumption DEF ConstantsAssumption, HeldOn
        <5>2. depth'[k] = 1 /\ Cardinality(HeldOn(handle, k)) = 0
          BY <2>1, <2>3, <3>2, <4>7, <5>1, FS_EmptySet, ConstantsAssumption
             DEF ConstantsAssumption
        <5>. QED
          BY <4>1, <4>3, <4>5, <5>1, <5>2
      <4>. QED
        BY <2>2, <3>2, <4>6, <4>7
    <3>. QED
      BY <3>1, <3>2
  <2>6. Accounts(handle', owner', depth')
    BY <2>5 DEF Accounts
  <2>7. Ordered(handle', seq', nextHandleSeq')
    BY <1>1, <2>1 DEF LockInv, TypeOK, Ordered
  <2>8. MovedAreAlone(handle')
    BY <1>1, <2>1 DEF LockInv, TypeOK, MovedAreAlone, Dispossessed
  <2>. QED
    BY <2>4, <2>6, <2>7, <2>8
       DEF LockInv, Accounts, Ordered, MovedAreAlone, HeldOn
<1>4. CASE ~CanAcquireAllImmediately(r)
  <2>. DEFINE h == [handle EXCEPT ![r] = "waiting"]
  <2>1. Settle(h, owner, depth, seq')
    BY <1>4 DEF Acquire
  <2>2. h \in [Request -> HandleState]
    BY DEF LockInv, TypeOK, HandleState
  <2>3. Accounts(h, owner, depth)
    <3>1. \A k \in Key : HeldOn(h, k) = HeldOn(handle, k)
      BY <1>1 DEF HeldOn, LockInv, TypeOK
    <3>. QED
      BY <3>1, Zenon DEF LockInv, Accounts
  <2>4. Ordered(h, seq', nextHandleSeq')
    BY <1>1 DEF LockInv, TypeOK, Ordered
  <2>5. MovedAreAlone(h)
    BY <1>1 DEF LockInv, TypeOK, MovedAreAlone, Dispossessed
  <2>6. /\ owner \in [Key -> Owner \cup {NoOwner}]
        /\ depth \in [Key -> Nat]
    BY DEF LockInv, TypeOK
  <2>. HIDE DEF h
  <2>. QED
    BY <1>2, <2>1, <2>2, <2>3, <2>4, <2>5, <2>6, SettleKeepsInv
<1>. QED
  BY <1>3, <1>4

(***************************************************************************)
(* A waiter that leaves held nothing (Timeout and Abort).                  *)
(***************************************************************************)
LEMMA LeaveKeepsInv ==
  ASSUME LockInv, NEW r \in Request, handle[r] = "waiting",
         NEW outcome \in {"timedOut", "cancelled"},
         Settle([handle EXCEPT ![r] = outcome], owner, depth, seq),
         UNCHANGED <<seq, nextHandleSeq>>
  PROVE  LockInv'
<1>. DEFINE h == [handle EXCEPT ![r] = outcome]
<1>1. h \in [Request -> HandleState]
  BY DEF LockInv, TypeOK, HandleState
<1>2. Accounts(h, owner, depth)
  <2>1. \A k \in Key : HeldOn(h, k) = HeldOn(handle, k)
    BY DEF HeldOn, LockInv, TypeOK
  <2>. QED
    BY <2>1, Zenon DEF LockInv, Accounts
<1>3. Ordered(h, seq, nextHandleSeq)
  BY DEF LockInv, TypeOK, Ordered
<1>4. MovedAreAlone(h)
  BY DEF LockInv, TypeOK, MovedAreAlone
<1>5. /\ owner \in [Key -> Owner \cup {NoOwner}] /\ depth \in [Key -> Nat]
      /\ seq \in [Request -> Nat] /\ nextHandleSeq \in Nat \ {0}
  BY DEF LockInv, TypeOK
<1>6. Settle(h, owner, depth, seq) /\ seq' = seq /\ nextHandleSeq' = nextHandleSeq
  OBVIOUS
<1>. HIDE DEF h
<1>. QED
  BY <1>1, <1>2, <1>3, <1>4, <1>5, <1>6, SettleKeepsInv

(***************************************************************************)
(* What releaseKeys leaves for the loop is accounted: a held handle gives  *)
(* up one hold on each of its keys, a moved one finds no key of its own.   *)
(***************************************************************************)
FreedOwner(r) ==
  [k \in Key |-> IF k \in KeysOf[r] /\ owner[k] = OwnerOf[r] /\ depth[k] <= 1
                 THEN NoOwner ELSE owner[k]]

FreedDepth(r) ==
  [k \in Key |-> IF k \in KeysOf[r] /\ owner[k] = OwnerOf[r] THEN depth[k] - 1
                                                             ELSE depth[k]]

LEMMA ReleaseAccounts ==
  ASSUME LockInv, NEW r \in Request, handle[r] \in {"held", "moved"}
  PROVE  /\ FreedDepth(r) \in [Key -> Nat]
         /\ FreedOwner(r) \in [Key -> Owner \cup {NoOwner}]
         /\ Accounts([handle EXCEPT ![r] = "released"], FreedOwner(r), FreedDepth(r))
<1>. DEFINE mine == {k \in KeysOf[r] : owner[k] = OwnerOf[r]}
            h == [handle EXCEPT ![r] = "released"]
            own == FreedOwner(r)
            dep == FreedDepth(r)
<1>1. handle[r] \in {"held", "moved"}
  OBVIOUS
<1>. USE DEF FreedOwner, FreedDepth
<1>2. KeysOf[r] \subseteq Key /\ mine \subseteq Key
  BY ConstantsAssumption DEF ConstantsAssumption
<1>3. h \in [Request -> HandleState]
  BY DEF LockInv, TypeOK, HandleState
<1>4. ASSUME NEW k \in mine
      PROVE  /\ handle[r] = "held"
             /\ r \in HeldOn(handle, k)
             /\ depth[k] = Cardinality(HeldOn(handle, k))
             /\ depth[k] \in Nat \ {0}
  <2>1. k \in Key /\ owner[k] = OwnerOf[r] /\ owner[k] # NoOwner
    BY <1>2, ConstantsAssumption DEF ConstantsAssumption
  <2>2. PICK q \in HeldOn(handle, k) : OwnerOf[q] = OwnerOf[r]
    BY <2>1 DEF LockInv, Accounts
  <2>3. handle[r] = "held"
    BY <1>1, <2>2 DEF LockInv, MovedAreAlone, HeldOn
  <2>4. r \in HeldOn(handle, k)
    BY <2>3 DEF HeldOn
  <2>5. depth[k] = Cardinality(HeldOn(handle, k)) /\ depth[k] \in Nat
    BY <2>1 DEF LockInv, Accounts, TypeOK
  <2>6. depth[k] # 0
    BY <2>4, <2>5, HeldOnFinite, FS_EmptySet
  <2>. QED
    BY <2>3, <2>4, <2>5, <2>6
<1>5. dep \in [Key -> Nat] /\ own \in [Key -> Owner \cup {NoOwner}]
  BY <1>4 DEF LockInv, TypeOK
<1>6. ASSUME NEW k \in Key
      PROVE  /\ dep[k] = Cardinality(HeldOn(h, k))
             /\ \A q \in HeldOn(h, k) : own[k] = OwnerOf[q]
             /\ own[k] # NoOwner => HeldOn(h, k) # {}
  <2>1. HeldOn(h, k) = HeldOn(handle, k) \ {r}
    BY DEF HeldOn, LockInv, TypeOK
  <2>2. CASE k \in mine
    <3>1. /\ r \in HeldOn(handle, k)
          /\ depth[k] = Cardinality(HeldOn(handle, k))
          /\ depth[k] \in Nat \ {0}
      BY <1>4, <2>2
    <3>2. Cardinality(HeldOn(h, k)) = Cardinality(HeldOn(handle, k)) - 1
      BY <2>1, <3>1, HeldOnFinite, FS_RemoveElement
    <3>3. dep[k] = Cardinality(HeldOn(h, k))
      BY <2>2, <3>1, <3>2
    <3>4. IsFiniteSet(HeldOn(h, k))
      BY HeldOnFinite
    <3>5. HeldOn(h, k) = {} <=> dep[k] = 0
      BY <3>3, <3>4, FS_EmptySet
    <3>6. own[k] = IF dep[k] = 0 THEN NoOwner ELSE owner[k]
      BY <2>2, <3>1
    <3>7. \A q \in HeldOn(h, k) : owner[k] = OwnerOf[q]
      BY <2>1 DEF LockInv, Accounts
    <3>. HIDE DEF h, own, dep
    <3>. QED
      BY <3>3, <3>5, <3>6, <3>7
  <2>3. CASE k \notin mine
    <3>1. r \notin HeldOn(handle, k)
      BY <2>3 DEF HeldOn, LockInv, Accounts
    <3>2. HeldOn(h, k) = HeldOn(handle, k)
      BY <2>1, <3>1
    <3>3. own[k] = owner[k] /\ dep[k] = depth[k]
      BY <2>3
    <3>. HIDE DEF h, own, dep
    <3>. QED
      BY <3>2, <3>3 DEF LockInv, Accounts
  <2>. QED
    BY <2>2, <2>3
<1>7. Accounts(h, own, dep)
  <2>. HIDE DEF h, own, dep
  <2>. QED
    BY <1>6 DEF Accounts
<1>. QED
  BY <1>5, <1>7

LEMMA ReleaseKeepsInv ==
  ASSUME LockInv, NEW r \in Request, Release(r)
  PROVE  LockInv'
<1>. DEFINE h == [handle EXCEPT ![r] = "released"]
<1>1. /\ handle[r] \in {"held", "moved"}
      /\ Settle(h, FreedOwner(r), FreedDepth(r), seq)
      /\ seq' = seq /\ nextHandleSeq' = nextHandleSeq
  <2>1. /\ handle[r] \in {"held", "moved"}
        /\ seq' = seq /\ nextHandleSeq' = nextHandleSeq
    BY DEF Release
  <2>. DEFINE mine == {k \in KeysOf[r] : owner[k] = OwnerOf[r]}
              own == [k \in Key |-> IF k \in mine /\ depth[k] <= 1 THEN NoOwner
                                                                   ELSE owner[k]]
              dep == [k \in Key |-> IF k \in mine THEN depth[k] - 1 ELSE depth[k]]
  <2>2. Settle(h, own, dep, seq)
    BY DEF Release
  <2>3. own = FreedOwner(r) /\ dep = FreedDepth(r)
    BY DEF FreedOwner, FreedDepth
  <2>. HIDE DEF own, dep, h
  <2>. QED
    BY <2>1, <2>2, <2>3
<1>2. h \in [Request -> HandleState]
  BY DEF LockInv, TypeOK, HandleState
<1>3. Ordered(h, seq, nextHandleSeq)
  BY <1>1 DEF LockInv, TypeOK, Ordered
<1>4. MovedAreAlone(h)
  BY DEF LockInv, TypeOK, MovedAreAlone
<1>5. seq \in [Request -> Nat] /\ nextHandleSeq \in Nat \ {0}
  BY DEF LockInv, TypeOK
<1>6. /\ FreedDepth(r) \in [Key -> Nat]
      /\ FreedOwner(r) \in [Key -> Owner \cup {NoOwner}]
      /\ Accounts(h, FreedOwner(r), FreedDepth(r))
  BY <1>1, ReleaseAccounts
<1>. HIDE DEF h
<1>. QED
  BY <1>1, <1>2, <1>3, <1>4, <1>5, <1>6, SettleKeepsInv

LEMMA TransferKeepsInv ==
  ASSUME LockInv, NEW r \in Request, NEW t \in Request, Transfer(r, t)
  PROVE  LockInv'
<1>1. /\ handle[r] = "held" /\ handle[t] = "idle" /\ r # t
      /\ KeysOf[t] = KeysOf[r] /\ OwnerOf[t] # OwnerOf[r]
      /\ ~Dispossessed(OwnerOf[t])
      /\ \A q \in Request \ {r} :
           OwnerOf[q] = OwnerOf[r] => handle[q] \notin {"held", "waiting"}
      /\ handle' = [handle EXCEPT ![r] = "moved", ![t] = "held"]
      /\ owner' = [k \in Key |-> IF k \in KeysOf[r] THEN OwnerOf[t]
                                                    ELSE owner[k]]
      /\ seq' = [seq EXCEPT ![t] = nextHandleSeq]
      /\ nextHandleSeq' = nextHandleSeq + 1
      /\ depth' = depth
  BY DEF Transfer
<1>2. OwnerOf[t] \in Owner /\ OwnerOf[t] # NoOwner
  BY ConstantsAssumption DEF ConstantsAssumption
<1>3. TypeOK'
  BY <1>1, <1>2 DEF LockInv, TypeOK, HandleState
<1>4. ASSUME NEW k \in Key
      PROVE  /\ depth'[k] = Cardinality(HeldOn(handle', k))
             /\ \A q \in HeldOn(handle', k) : owner'[k] = OwnerOf[q]
             /\ owner'[k] # NoOwner => HeldOn(handle', k) # {}
  <2>1. CASE k \notin KeysOf[r]
    <3>1. HeldOn(handle', k) = HeldOn(handle, k)
      BY <1>1, <2>1 DEF HeldOn, LockInv, TypeOK
    <3>. QED
      BY <1>1, <2>1, <3>1 DEF LockInv, Accounts
  <2>2. CASE k \in KeysOf[r]
    <3>1. r \in HeldOn(handle, k)
      BY <1>1, <2>2 DEF HeldOn
    <3>2. HeldOn(handle, k) = {r}
      <4>. SUFFICES ASSUME NEW q \in HeldOn(handle, k) PROVE q = r
        BY <3>1
      <4>1. OwnerOf[q] = OwnerOf[r]
        BY <3>1 DEF LockInv, Accounts
      <4>2. q \in Request /\ handle[q] = "held"
        BY DEF HeldOn
      <4>. QED
        BY <1>1, <4>1, <4>2
    <3>3. HeldOn(handle', k) = {t}
      <4>1. r \notin HeldOn(handle', k) /\ t \in HeldOn(handle', k)
        BY <1>1, <2>2 DEF HeldOn, LockInv, TypeOK
      <4>2. \A q \in HeldOn(handle', k) : q # t => q \in HeldOn(handle, k)
        BY <1>1 DEF HeldOn, LockInv, TypeOK
      <4>. QED
        BY <3>2, <4>1, <4>2
    <3>4. depth'[k] = 1
      BY ZenonT(40), <1>1, <3>2, FS_Singleton DEF LockInv, Accounts
    <3>5. owner'[k] = OwnerOf[t]
      BY <1>1, <2>2
    <3>. QED
      BY <3>3, <3>4, <3>5, FS_Singleton
  <2>. QED
    BY <2>1, <2>2
<1>5. Accounts(handle', owner', depth')
  BY <1>4 DEF Accounts
<1>6. Ordered(handle', seq', nextHandleSeq')
  BY <1>1 DEF LockInv, TypeOK, Ordered
<1>7. MovedAreAlone(handle')
  BY <1>1 DEF LockInv, TypeOK, MovedAreAlone, Dispossessed
<1>. QED
  BY <1>3, <1>5, <1>6, <1>7
     DEF LockInv, Accounts, Ordered, MovedAreAlone, HeldOn

LEMMA RefuseAbortedKeepsInv ==
  ASSUME LockInv, NEW r \in Request, RefuseAborted(r)
  PROVE  LockInv'
<1>1. /\ handle[r] = "idle" /\ handle' = [handle EXCEPT ![r] = "cancelled"]
      /\ owner' = owner /\ depth' = depth
      /\ seq' = seq /\ nextHandleSeq' = nextHandleSeq
  BY DEF RefuseAborted
<1>2. TypeOK'
  BY <1>1 DEF LockInv, TypeOK, HandleState
<1>3. \A k \in Key : HeldOn(handle', k) = HeldOn(handle, k)
  BY <1>1 DEF HeldOn, LockInv, TypeOK
<1>4. Accounts(handle', owner', depth')
  BY <1>1, <1>3, Zenon DEF LockInv, Accounts
<1>5. Ordered(handle', seq', nextHandleSeq')
  BY <1>1 DEF LockInv, TypeOK, Ordered
<1>6. MovedAreAlone(handle')
  BY <1>1 DEF LockInv, TypeOK, MovedAreAlone
<1>. QED
  BY <1>2, <1>4, <1>5, <1>6
     DEF LockInv, Accounts, Ordered, MovedAreAlone, HeldOn

-----------------------------------------------------------------------------

LEMMA InitInv == Init => LockInv
<1>. SUFFICES ASSUME Init PROVE LockInv
  OBVIOUS
<1>1. TypeOK
  BY DEF Init, TypeOK, HandleState
<1>2. \A k \in Key : HeldOn(handle, k) = {}
  BY DEF Init, HeldOn
<1>3. Accounts(handle, owner, depth)
  BY <1>2, FS_EmptySet DEF Init, Accounts
<1>4. Ordered(handle, seq, nextHandleSeq) /\ MovedAreAlone(handle)
  BY DEF Init, Ordered, MovedAreAlone
<1>. QED
  BY <1>1, <1>3, <1>4 DEF LockInv

LEMMA NextInv == LockInv /\ [Next]_vars => LockInv'
<1>. SUFFICES ASSUME LockInv, [Next]_vars PROVE LockInv'
  OBVIOUS
<1>1. ASSUME NEW r \in Request, Acquire(r) PROVE LockInv'
  BY <1>1, AcquireKeepsInv
<1>2. ASSUME NEW r \in Request, Timeout(r) PROVE LockInv'
  BY <1>2, LeaveKeepsInv DEF Timeout
<1>3. ASSUME NEW r \in Request, Abort(r) PROVE LockInv'
  BY <1>3, LeaveKeepsInv DEF Abort
<1>4. ASSUME NEW r \in Request, RefuseAborted(r) PROVE LockInv'
  BY <1>4, RefuseAbortedKeepsInv
<1>5. ASSUME NEW r \in Request, Release(r) PROVE LockInv'
  BY <1>5, ReleaseKeepsInv
<1>6. ASSUME NEW r \in Request, NEW t \in Request, Transfer(r, t) PROVE LockInv'
  BY <1>6, TransferKeepsInv
<1>7. CASE UNCHANGED vars
  BY <1>7 DEF vars, LockInv, TypeOK, Accounts, Ordered, MovedAreAlone, HeldOn
<1>. QED
  BY <1>1, <1>2, <1>3, <1>4, <1>5, <1>6, <1>7 DEF Next

(***************************************************************************)
(* The inductive invariant of the lock manager.                            *)
(***************************************************************************)
THEOREM LockInvariant == Spec => []LockInv
BY InitInv, NextInv, PTL DEF Spec

(***************************************************************************)
(* The bookkeeping of every key keeps its type; no release takes a         *)
(* reentrant depth below zero.                                             *)
(***************************************************************************)
THEOREM TypeCorrect == Spec => []TypeOK
<1>1. LockInv => TypeOK
  BY DEF LockInv
<1>. QED
  BY <1>1, LockInvariant, PTL

(***************************************************************************)
(* A key's owner and depth are those of the handles held on it.            *)
(***************************************************************************)
THEOREM AccountingHolds == Spec => []HoldsAccounted
<1>1. LockInv => HoldsAccounted
  <2>. SUFFICES ASSUME LockInv, NEW k \in Key
                PROVE  /\ depth[k] = Cardinality(Holders(k))
                       /\ owner[k] = NoOwner => Holders(k) = {}
                       /\ \A r \in Holders(k) : owner[k] = OwnerOf[r]
                       /\ owner[k] # NoOwner => Holders(k) # {}
    BY DEF HoldsAccounted
  <2>1. Holders(k) = HeldOn(handle, k)
    BY DEF Holders, HeldOn
  <2>2. /\ depth[k] = Cardinality(HeldOn(handle, k))
        /\ \A r \in HeldOn(handle, k) : owner[k] = OwnerOf[r]
        /\ owner[k] # NoOwner => HeldOn(handle, k) # {}
    BY DEF LockInv, Accounts
  <2>3. \A r \in HeldOn(handle, k) : OwnerOf[r] # NoOwner
    BY ConstantsAssumption DEF ConstantsAssumption, HeldOn
  <2>. QED
    BY <2>1, <2>2, <2>3
<1>. QED
  BY <1>1, LockInvariant, PTL

(***************************************************************************)
(* No two owners ever hold handles that share a key.                       *)
(***************************************************************************)
THEOREM MutualExclusionHolds == Spec => []MutualExclusion
<1>1. LockInv => MutualExclusion
  <2>. SUFFICES ASSUME LockInv, NEW r \in Request, NEW q \in Request,
                       handle[r] = "held", handle[q] = "held",
                       NEW k \in KeysOf[r] \cap KeysOf[q]
                PROVE  OwnerOf[r] = OwnerOf[q]
    BY DEF MutualExclusion
  <2>1. k \in Key
    BY ConstantsAssumption DEF ConstantsAssumption
  <2>2. r \in HeldOn(handle, k) /\ q \in HeldOn(handle, k)
    BY DEF HeldOn
  <2>. QED
    BY <2>1, <2>2 DEF LockInv, Accounts
<1>. QED
  BY <1>1, LockInvariant, PTL
-----------------------------------------------------------------------------
(***************************************************************************)
(* Fairness between waiters: order and wakeups.                            *)
(***************************************************************************)

(***************************************************************************)
(* A waiter that the loop leaves behind was not ahead of one it grants on  *)
(* a key of both.                                                          *)
(***************************************************************************)
LEMMA SettleInOrder ==
  ASSUME NEW h \in [Request -> HandleState], NEW s \in [Request -> Nat],
         NEW n \in Nat, NEW own, NEW dep,
         Ordered(h, s, n), Settle(h, own, dep, s),
         NEW q \in Request, NEW r \in Request,
         h[q] = "waiting", handle'[q] = "waiting",
         h[r] = "waiting", handle'[r] = "held",
         KeysOf[q] \cap KeysOf[r] # {}
  PROVE  s[r] < s[q]
<1>. DEFINE W == {x \in Request : h[x] = "waiting"}
<1>1. PICK G \in SUBSET W :
        /\ Drains(W, own, s, G)
        /\ handle' = [x \in Request |-> IF x \in G THEN "held" ELSE h[x]]
  BY DEF Settle
<1>2. r \in G /\ q \notin G /\ q \in W /\ r \in W
  BY <1>1
<1>3. ~(s[q] < s[r])
  BY <1>1, <1>2 DEF Drains
<1>4. s[q] # s[r]
  BY <1>2 DEF Ordered
<1>. QED
  BY <1>3, <1>4

(***************************************************************************)
(* When the loop ends, whoever heads all of its queues is blocked by a key *)
(* of another owner.                                                       *)
(***************************************************************************)
LEMMA SettleServes ==
  ASSUME NEW h \in [Request -> HandleState], NEW s \in [Request -> Nat],
         NEW n \in Nat,
         NEW own \in [Key -> Owner \cup {NoOwner}], NEW dep \in [Key -> Nat],
         Accounts(h, own, dep), Ordered(h, s, n), Settle(h, own, dep, s),
         NEW r \in Request, handle'[r] = "waiting",
         \A q \in Request :
           (handle'[q] = "waiting" /\ s[q] < s[r]) => KeysOf[q] \cap KeysOf[r] = {}
  PROVE  ~Grantable(r, owner')
<1>. DEFINE W == {x \in Request : h[x] = "waiting"}
<1>1. PICK G \in SUBSET W :
        /\ Drains(W, own, s, G)
        /\ handle' = [x \in Request |-> IF x \in G THEN "held" ELSE h[x]]
        /\ owner' = GrantedOwner(G, own)
  BY DEF Settle
<1>2. r \in W /\ r \notin G
  BY <1>1
<1>3. ASSUME NEW x \in G, NEW k \in KeysOf[x]
      PROVE  owner'[k] = OwnerOf[x] /\ k \in Key
  <2>1. k \in Key
    BY ConstantsAssumption DEF ConstantsAssumption
  <2>. DEFINE g == CHOOSE y \in G : k \in KeysOf[y]
  <2>2. g \in G /\ k \in KeysOf[g]
    BY <1>3
  <2>3. owner'[k] = OwnerOf[g]
    BY <1>1, <1>3, <2>1 DEF GrantedOwner
  <2>4. OwnerOf[g] = OwnerOf[x]
    BY <1>1, <1>3, <2>1, <2>2, GrantsShareOwner
  <2>. QED
    BY <2>1, <2>3, <2>4
<1>4. CASE ~Grantable(r, own)
  <2>1. PICK k \in KeysOf[r] : own[k] \notin {NoOwner, OwnerOf[r]}
    BY <1>4 DEF Grantable
  <2>2. k \in Key
    BY ConstantsAssumption DEF ConstantsAssumption
  <2>3. CASE \E x \in G : k \in KeysOf[x]
    <3>1. PICK x \in G : k \in KeysOf[x]
      BY <2>3
    <3>2. own[k] = OwnerOf[x]
      BY <1>1, <2>1, <3>1 DEF Drains, Grantable
    <3>. QED
      BY <1>3, <2>1, <3>1, <3>2 DEF Grantable
  <2>4. CASE \A x \in G : k \notin KeysOf[x]
    BY <1>1, <2>1, <2>2, <2>4 DEF GrantedOwner, Grantable
  <2>. QED
    BY <2>3, <2>4
<1>5. CASE Grantable(r, own)
  <2>1. PICK q \in W : /\ s[q] < s[r] /\ KeysOf[q] \cap KeysOf[r] # {}
                       /\ ~(q \in G /\ OwnerOf[q] = OwnerOf[r])
    BY <1>1, <1>2, <1>5 DEF Drains
  <2>2. q \in G
    BY <1>1, <2>1
  <2>3. PICK k \in KeysOf[q] : k \in KeysOf[r]
    BY <2>1
  <2>4. owner'[k] = OwnerOf[q] /\ OwnerOf[q] # OwnerOf[r]
    BY <1>3, <2>1, <2>2, <2>3
  <2>5. OwnerOf[q] # NoOwner
    BY ConstantsAssumption DEF ConstantsAssumption
  <2>. QED
    BY <2>3, <2>4, <2>5 DEF Grantable
<1>. QED
  BY <1>4, <1>5

(***************************************************************************)
(* A step that ends with the loop overtakes nobody and leaves nobody       *)
(* behind that could be served.                                            *)
(***************************************************************************)
LEMMA SettleWakes ==
  ASSUME NEW h \in [Request -> HandleState],
         NEW own \in [Key -> Owner \cup {NoOwner}], NEW dep \in [Key -> Nat],
         seq' \in [Request -> Nat], nextHandleSeq' \in Nat \ {0},
         Accounts(h, own, dep), Ordered(h, seq', nextHandleSeq'),
         Settle(h, own, dep, seq')
  PROVE  NoLostWakeup'
<1>. SUFFICES ASSUME NEW r \in Request, handle'[r] = "waiting",
                     \A q \in Request :
                       (handle'[q] = "waiting" /\ seq'[q] < seq'[r])
                         => KeysOf[q] \cap KeysOf[r] = {}
              PROVE  ~Grantable(r, owner')
  BY DEF NoLostWakeup, HeadsItsQueues, Waiters, Grantable
<1>. QED
  BY SettleServes

LEMMA AcquireIsFair ==
  ASSUME LockInv, NoLostWakeup, NEW x \in Request, Acquire(x)
  PROVE  NoLostWakeup' /\ \A q, r \in Request : InOrder(q, r)
<1>1. /\ seq' = [seq EXCEPT ![x] = nextHandleSeq]
      /\ nextHandleSeq' = nextHandleSeq + 1
      /\ handle[x] = "idle"
  BY DEF Acquire
<1>2. seq' \in [Request -> Nat] /\ nextHandleSeq' \in Nat \ {0}
  BY <1>1 DEF LockInv, TypeOK
<1>3. CASE CanAcquireAllImmediately(x)
  <2>1. /\ handle' = [handle EXCEPT ![x] = "held"]
        /\ owner' = [k \in Key |-> IF k \in KeysOf[x] THEN OwnerOf[x]
                                                      ELSE owner[k]]
    BY <1>3 DEF Acquire
  <2>2. \A q \in Request : handle[q] = "waiting" => KeysOf[q] \cap KeysOf[x] = {}
    BY <1>3 DEF CanAcquireAllImmediately, Waiters
  <2>3. Waiters' = Waiters /\ x \notin Waiters
    BY <1>1, <2>1 DEF Waiters, LockInv, TypeOK
  <2>4. ASSUME NEW r \in Waiters', HeadsItsQueues(r)', Grantable(r, owner)'
        PROVE  \E t \in Adopted : handle'[t] = "held" /\ OwnerOf[t] = OwnerOf[r]
    <3>1. r \in Request /\ r # x /\ handle[r] = "waiting"
      BY <2>3, <2>4 DEF Waiters
    <3>2. KeysOf[r] \subseteq Key
      BY <3>1, ConstantsAssumption DEF ConstantsAssumption
    <3>3. \A k \in KeysOf[r] : owner'[k] = owner[k]
      BY <2>1, <2>2, <3>1, <3>2
    <3>4. Grantable(r, owner)
      BY <2>4, <3>3 DEF Grantable
    <3>5. HeadsItsQueues(r)
      BY <1>1, <2>3, <2>4, <3>1 DEF HeadsItsQueues, Waiters, LockInv, TypeOK
    <3>6. PICK t \in Adopted : handle[t] = "held" /\ OwnerOf[t] = OwnerOf[r]
      BY <2>3, <2>4, <3>4, <3>5 DEF NoLostWakeup
    <3>7. handle'[t] = "held"
      BY <1>1, <2>1, <3>6 DEF LockInv, TypeOK
    <3>. QED
      BY <3>6, <3>7
  <2>5. NoLostWakeup'
    BY <2>4 DEF NoLostWakeup
  <2>6. \A q, r \in Request : InOrder(q, r)
    BY <2>1, <2>2 DEF InOrder, LockInv, TypeOK
  <2>. QED
    BY <2>5, <2>6
<1>4. CASE ~CanAcquireAllImmediately(x)
  <2>. DEFINE h == [handle EXCEPT ![x] = "waiting"]
  <2>1. Settle(h, owner, depth, seq')
    BY <1>4 DEF Acquire
  <2>2. h \in [Request -> HandleState]
    BY DEF LockInv, TypeOK, HandleState
  <2>3. Accounts(h, owner, depth)
    <3>1. \A k \in Key : HeldOn(h, k) = HeldOn(handle, k)
      BY <1>1 DEF HeldOn, LockInv, TypeOK
    <3>. QED
      BY <3>1, Zenon DEF LockInv, Accounts
  <2>4. Ordered(h, seq', nextHandleSeq')
    BY <1>1 DEF LockInv, TypeOK, Ordered
  <2>5. /\ owner \in [Key -> Owner \cup {NoOwner}]
        /\ depth \in [Key -> Nat]
    BY DEF LockInv, TypeOK
  <2>6. \A r \in Request : h[r] = IF r = x THEN "waiting" ELSE handle[r]
    BY DEF LockInv, TypeOK
  <2>. HIDE DEF h
  <2>7. NoLostWakeup'
    BY <1>2, <2>1, <2>2, <2>3, <2>4, <2>5, SettleWakes
  <2>8. ASSUME NEW q \in Request, NEW r \in Request,
               handle[q] = "waiting", handle'[q] = "waiting",
               handle[r] \in {"idle", "waiting"}, handle'[r] = "held",
               KeysOf[q] \cap KeysOf[r] # {}
        PROVE  seq[r] # 0 /\ seq[r] < seq[q]
    <3>1. \A y \in Request :
            handle'[y] = h[y] \/ (h[y] = "waiting" /\ handle'[y] = "held")
      BY <1>2, <2>1, <2>2, <2>3, <2>4, <2>5, SettleAccounts
    <3>2. q # x /\ h[q] = "waiting" /\ h[r] = "waiting"
      BY <1>1, <2>6, <2>8, <3>1
    <3>3. seq'[r] < seq'[q]
      BY <1>2, <2>1, <2>2, <2>4, <2>8, <3>2, SettleInOrder
    <3>4. seq'[q] = seq[q] /\ seq[q] < nextHandleSeq
      BY <1>1, <3>2 DEF LockInv, TypeOK, Ordered
    <3>5. r # x
      BY <1>1, <3>3, <3>4 DEF LockInv, TypeOK
    <3>. QED
      BY <1>1, <2>6, <3>2, <3>3, <3>4, <3>5 DEF LockInv, TypeOK, Ordered
  <2>. QED
    BY <2>7, <2>8 DEF InOrder
<1>. QED
  BY <1>3, <1>4

(***************************************************************************)
(* Timeouts, aborts and releases: the order of the others is unchanged.    *)
(***************************************************************************)
LEMMA EndIsFair ==
  ASSUME LockInv, NEW x \in Request, NEW end \in HandleState \ {"waiting"},
         NEW own \in [Key -> Owner \cup {NoOwner}], NEW dep \in [Key -> Nat],
         handle[x] # "idle", end # "held",
         Accounts([handle EXCEPT ![x] = end], own, dep),
         Settle([handle EXCEPT ![x] = end], own, dep, seq),
         UNCHANGED <<seq, nextHandleSeq>>
  PROVE  NoLostWakeup' /\ \A q, r \in Request : InOrder(q, r)
<1>. DEFINE h == [handle EXCEPT ![x] = end]
<1>1. h \in [Request -> HandleState]
  BY DEF LockInv, TypeOK
<1>2. Ordered(h, seq, nextHandleSeq)
  BY DEF LockInv, TypeOK, Ordered
<1>3. /\ seq \in [Request -> Nat] /\ nextHandleSeq \in Nat \ {0}
      /\ seq' = seq /\ nextHandleSeq' = nextHandleSeq
  BY DEF LockInv, TypeOK
<1>4. Accounts(h, own, dep) /\ Settle(h, own, dep, seq)
  OBVIOUS
<1>5. \A r \in Request : h[r] = IF r = x THEN end ELSE handle[r]
  BY DEF LockInv, TypeOK
<1>. HIDE DEF h
<1>6. NoLostWakeup'
  BY <1>1, <1>2, <1>3, <1>4, SettleWakes
<1>7. ASSUME NEW q \in Request, NEW r \in Request,
             handle[q] = "waiting", handle'[q] = "waiting",
             handle[r] \in {"idle", "waiting"}, handle'[r] = "held",
             KeysOf[q] \cap KeysOf[r] # {}
      PROVE  seq[r] # 0 /\ seq[r] < seq[q]
  <2>1. \A y \in Request :
          handle'[y] = h[y] \/ (h[y] = "waiting" /\ handle'[y] = "held")
    BY <1>1, <1>2, <1>3, <1>4, SettleAccounts
  <2>2. q # x /\ h[q] = "waiting"
    BY <1>5, <1>7, <2>1
  <2>3. r # x /\ h[r] = "waiting"
    BY <1>5, <1>7, <2>1
  <2>4. seq[r] < seq[q]
    BY <1>1, <1>2, <1>3, <1>4, <1>7, <2>2, <2>3, SettleInOrder
  <2>5. seq[r] # 0
    BY <1>2, <2>3 DEF Ordered
  <2>. QED
    BY <2>4, <2>5
<1>. QED
  BY <1>6, <1>7 DEF InOrder

LEMMA WaitersLeaveFairly ==
  ASSUME LockInv, NEW x \in Request, Timeout(x) \/ Abort(x)
  PROVE  NoLostWakeup' /\ \A q, r \in Request : InOrder(q, r)
<1>1. PICK end \in {"timedOut", "cancelled"} :
        /\ handle[x] = "waiting"
        /\ Settle([handle EXCEPT ![x] = end], owner, depth, seq)
        /\ UNCHANGED <<seq, nextHandleSeq>>
  BY DEF Timeout, Abort
<1>. DEFINE h == [handle EXCEPT ![x] = end]
<1>2. \A k \in Key : HeldOn(h, k) = HeldOn(handle, k)
  BY <1>1 DEF HeldOn, LockInv, TypeOK
<1>3. Accounts(h, owner, depth)
  BY <1>2, Zenon DEF LockInv, Accounts
<1>4. owner \in [Key -> Owner \cup {NoOwner}] /\ depth \in [Key -> Nat]
  BY DEF LockInv, TypeOK
<1>5. end \in HandleState \ {"waiting"} /\ end # "held" /\ handle[x] # "idle"
  BY <1>1 DEF HandleState
<1>. QED
  BY <1>1, <1>3, <1>4, <1>5, EndIsFair

LEMMA ReleaseIsFair ==
  ASSUME LockInv, NEW x \in Request, Release(x)
  PROVE  NoLostWakeup' /\ \A q, r \in Request : InOrder(q, r)
<1>. DEFINE h == [handle EXCEPT ![x] = "released"]
<1>1. /\ handle[x] \in {"held", "moved"}
      /\ Settle(h, FreedOwner(x), FreedDepth(x), seq)
      /\ UNCHANGED <<seq, nextHandleSeq>>
  <2>1. handle[x] \in {"held", "moved"} /\ UNCHANGED <<seq, nextHandleSeq>>
    BY DEF Release
  <2>. DEFINE mine == {k \in KeysOf[x] : owner[k] = OwnerOf[x]}
              own == [k \in Key |-> IF k \in mine /\ depth[k] <= 1 THEN NoOwner
                                                                   ELSE owner[k]]
              dep == [k \in Key |-> IF k \in mine THEN depth[k] - 1 ELSE depth[k]]
  <2>2. Settle(h, own, dep, seq)
    BY DEF Release
  <2>3. own = FreedOwner(x) /\ dep = FreedDepth(x)
    BY DEF FreedOwner, FreedDepth
  <2>. HIDE DEF own, dep, h
  <2>. QED
    BY <2>1, <2>2, <2>3
<1>2. /\ FreedDepth(x) \in [Key -> Nat]
      /\ FreedOwner(x) \in [Key -> Owner \cup {NoOwner}]
      /\ Accounts(h, FreedOwner(x), FreedDepth(x))
  BY <1>1, ReleaseAccounts
<1>3. "released" \in HandleState \ {"waiting"} /\ handle[x] # "idle"
  BY <1>1 DEF HandleState
<1>. QED
  BY <1>1, <1>2, <1>3, EndIsFair

LEMMA TransferIsFair ==
  ASSUME LockInv, NoLostWakeup, NEW x \in Request, NEW y \in Request,
         Transfer(x, y)
  PROVE  NoLostWakeup' /\ \A q, r \in Request : InOrder(q, r)
<1>1. /\ handle[x] = "held" /\ x \notin Adopted
      /\ handle[y] = "idle" /\ y \in Adopted
      /\ handle' = [handle EXCEPT ![x] = "moved", ![y] = "held"]
      /\ owner' = [k \in Key |-> IF k \in KeysOf[x] THEN OwnerOf[y]
                                                    ELSE owner[k]]
      /\ seq' = [seq EXCEPT ![y] = nextHandleSeq]
  BY DEF Transfer
<1>2. Waiters' = Waiters /\ y \notin Waiters
  BY <1>1 DEF Waiters, LockInv, TypeOK
<1>3. ASSUME NEW r \in Waiters', HeadsItsQueues(r)', Grantable(r, owner)'
      PROVE  \E t \in Adopted : handle'[t] = "held" /\ OwnerOf[t] = OwnerOf[r]
  <2>1. CASE OwnerOf[r] = OwnerOf[y]
    <3>1. handle'[y] = "held"
      BY <1>1 DEF LockInv, TypeOK
    <3>. QED
      BY <1>1, <2>1, <3>1
  <2>2. CASE OwnerOf[r] # OwnerOf[y]
    <3>1. r \in Request /\ r \in Waiters /\ r # y
      BY <1>2 DEF Waiters
    <3>2. KeysOf[r] \subseteq Key /\ OwnerOf[y] # NoOwner
      BY <3>1, ConstantsAssumption DEF ConstantsAssumption
    <3>3. \A k \in KeysOf[r] : k \notin KeysOf[x] /\ owner'[k] = owner[k]
      BY <1>1, <1>3, <2>2, <3>2 DEF Grantable
    <3>4. Grantable(r, owner)
      BY <1>3, <3>3 DEF Grantable
    <3>5. HeadsItsQueues(r)
      BY <1>1, <1>2, <1>3, <3>1 DEF HeadsItsQueues, Waiters, LockInv, TypeOK
    <3>6. PICK t \in Adopted : handle[t] = "held" /\ OwnerOf[t] = OwnerOf[r]
      BY <3>1, <3>4, <3>5 DEF NoLostWakeup
    <3>7. t \in Request
      BY ConstantsAssumption DEF ConstantsAssumption
    <3>8. handle'[t] = "held"
      BY <1>1, <3>6, <3>7 DEF LockInv, TypeOK
    <3>. QED
      BY <3>6, <3>8
  <2>. QED
    BY <2>1, <2>2
<1>4. NoLostWakeup'
  BY <1>3 DEF NoLostWakeup
<1>5. \A q, r \in Request : InOrder(q, r)
  BY <1>1 DEF InOrder, LockInv, TypeOK
<1>. QED
  BY <1>4, <1>5

LEMMA RefuseAbortedIsFair ==
  ASSUME LockInv, NoLostWakeup, NEW x \in Request, RefuseAborted(x)
  PROVE  NoLostWakeup' /\ \A q, r \in Request : InOrder(q, r)
<1>1. /\ handle[x] = "idle" /\ handle' = [handle EXCEPT ![x] = "cancelled"]
      /\ owner' = owner /\ seq' = seq
  BY DEF RefuseAborted
<1>2. Waiters' = Waiters
  BY <1>1 DEF Waiters, LockInv, TypeOK
<1>3. \A t \in Request : handle[t] = "held" => handle'[t] = "held"
  BY <1>1 DEF LockInv, TypeOK
<1>4. Adopted \subseteq Request
  BY ConstantsAssumption DEF ConstantsAssumption
<1>5. NoLostWakeup'
  BY <1>1, <1>2, <1>3, <1>4 DEF NoLostWakeup, HeadsItsQueues, Grantable
<1>6. \A q, r \in Request : InOrder(q, r)
  BY <1>1 DEF InOrder, LockInv, TypeOK
<1>. QED
  BY <1>5, <1>6

LEMMA NextIsFair ==
  ASSUME LockInv, NoLostWakeup, [Next]_vars
  PROVE  NoLostWakeup' /\ [\A q, r \in Request : InOrder(q, r)]_vars
<1>1. ASSUME NEW x \in Request, Acquire(x)
      PROVE  NoLostWakeup' /\ \A q, r \in Request : InOrder(q, r)
  BY <1>1, AcquireIsFair
<1>2. ASSUME NEW x \in Request, Timeout(x) \/ Abort(x)
      PROVE  NoLostWakeup' /\ \A q, r \in Request : InOrder(q, r)
  BY <1>2, WaitersLeaveFairly
<1>3. ASSUME NEW x \in Request, RefuseAborted(x)
      PROVE  NoLostWakeup' /\ \A q, r \in Request : InOrder(q, r)
  BY <1>3, RefuseAbortedIsFair
<1>4. ASSUME NEW x \in Request, Release(x)
      PROVE  NoLostWakeup' /\ \A q, r \in Request : InOrder(q, r)
  BY <1>4, ReleaseIsFair
<1>5. ASSUME NEW x \in Request, NEW y \in Request, Transfer(x, y)
      PROVE  NoLostWakeup' /\ \A q, r \in Request : InOrder(q, r)
  BY <1>5, TransferIsFair
<1>6. CASE UNCHANGED vars
  BY <1>6 DEF vars, NoLostWakeup, HeadsItsQueues, Waiters, Grantable
<1>. QED
  BY <1>1, <1>2, <1>3, <1>4, <1>5, <1>6 DEF Next

(***************************************************************************)
(* Between two calls nobody waits who could be served.                     *)
(***************************************************************************)
THEOREM NoWakeupIsLost == Spec => []NoLostWakeup
<1>1. Init => NoLostWakeup
  BY DEF Init, NoLostWakeup, Waiters
<1>. QED
  BY <1>1, NextIsFair, LockInvariant, PTL DEF Spec

(***************************************************************************)
(* Requests that share a key are granted in the order they arrived.        *)
(***************************************************************************)
THEOREM GrantsInOrder == Spec => NoOvertaking
BY NextIsFair, LockInvariant, NoWakeupIsLost, PTL DEF Spec, NoOvertaking

-----------------------------------------------------------------------------
(***************************************************************************)
(* The queues.  LockQueues has a queue per key and the loop as written;    *)
(* the variables of LockManager are what the callers see of it.  QueueInv  *)
(* says of the loop, while it runs, which method entered it and with what  *)
(* (Entered) and that its passes granted only whom Drains grants           *)
(* (Granting).  When no head can have its keys nobody is left to be        *)
(* granted, and the whole is one step of LockManager.                      *)
(***************************************************************************)

(***************************************************************************)
(* The positions of a queue are in the order of the numbers in s.          *)
(***************************************************************************)
InOrderOf(q, s) == \A i, j \in DOMAIN q : i < j => s[q[i]] < s[q[j]]

(***************************************************************************)
(* What is left of a queue spliced at one position (SequencesExt).         *)
(***************************************************************************)
LEMMA RemovedAt ==
  ASSUME NEW q \in Seq(Request), NEW i \in 1 .. Len(q)
  PROVE  /\ RemoveAt(q, i) \in Seq(Request)
         /\ Len(RemoveAt(q, i)) = Len(q) - 1
         /\ \A j \in 1 .. i - 1 : RemoveAt(q, i)[j] = q[j]
         /\ \A j \in i + 1 .. Len(q) : RemoveAt(q, i)[j - 1] = q[j]
<1>. DEFINE a == SubSeq(q, 1, i - 1)
            b == SubSeq(q, i + 1, Len(q))
<1>1. /\ a \in Seq(Request) /\ Len(a) = i - 1
      /\ \A j \in 1 .. i - 1 : a[j] = q[j]
  OBVIOUS
<1>2. /\ b \in Seq(Request) /\ Len(b) = Len(q) - i
      /\ \A j \in 1 .. Len(q) - i : b[j] = q[i + j]
  OBVIOUS
<1>3. RemoveAt(q, i) = a \o b
  BY DEF RemoveAt
<1>. HIDE DEF a, b
<1>4. a \o b \in Seq(Request) /\ Len(a \o b) = Len(a) + Len(b)
  BY <1>1, <1>2, ConcatProperties
<1>5. ASSUME NEW j \in 1 .. i - 1
      PROVE  (a \o b)[j] = q[j]
  <2>1. j \in 1 .. Len(a) /\ a[j] = q[j]
    BY <1>1
  <2>. QED
    BY <1>1, <1>2, <2>1, ConcatProperties
<1>6. ASSUME NEW j \in i + 1 .. Len(q)
      PROVE  (a \o b)[j - 1] = q[j]
  <2>1. /\ j - 1 \in Len(a) + 1 .. Len(a) + Len(b)
        /\ (j - 1) - Len(a) = j - i
    BY <1>1, <1>2
  <2>2. b[j - i] = q[i + (j - i)]
    BY <1>2
  <2>3. (a \o b)[j - 1] = b[(j - 1) - Len(a)]
    BY <1>1, <1>2, <2>1, ConcatProperties
  <2>. QED
    BY <2>1, <2>2, <2>3
<1>. QED
  BY <1>1, <1>2, <1>3, <1>4, <1>5, <1>6

(***************************************************************************)
(* A queue that one request leaves holds the others, in the same order     *)
(* (removeFromQueues).                                                     *)
(***************************************************************************)
LEMMA Spliced ==
  ASSUME NEW q \in Seq(Request), NEW r \in Request, NEW s \in [Request -> Nat],
         InOrderOf(q, s)
  PROVE  /\ RemoveFirst(q, r) \in Seq(Request)
         /\ ToSet(RemoveFirst(q, r)) = ToSet(q) \ {r}
         /\ InOrderOf(RemoveFirst(q, r), s)
<1>1. CASE \A i \in 1 .. Len(q) : q[i] # r
  <2>1. RemoveFirst(q, r) = q
    BY <1>1, Zenon DEF RemoveFirst
  <2>2. r \notin ToSet(q)
    BY <1>1 DEF ToSet
  <2>. QED
    BY <2>1, <2>2
<1>2. CASE \E i \in 1 .. Len(q) : q[i] = r
  <2>1. PICK i \in 1 .. Len(q) : q[i] = r
    BY <1>2
  <2>2. \A j \in 1 .. Len(q) : q[j] = r => j = i
    <3>. SUFFICES ASSUME NEW j \in 1 .. Len(q), q[j] = r, j # i PROVE FALSE
      OBVIOUS
    <3>. QED
      BY <2>1, SMTT(30) DEF InOrderOf
  <2>. DEFINE I == {j \in 1 .. Len(q) : q[j] = r}
              n == RemoveAt(q, i)
  <2>3. I = {i}
    BY <2>1, <2>2
  <2>4. RemoveFirst(q, r) = RemoveAt(q, Min(I))
    BY <2>1, <2>3 DEF RemoveFirst, SelectInSeq
  <2>5. Min(I) = i
    BY <2>3 DEF Min
  <2>6. RemoveFirst(q, r) = n
    BY <2>4, <2>5
  <2>7. /\ n \in Seq(Request) /\ Len(n) = Len(q) - 1
        /\ \A j \in 1 .. i - 1 : n[j] = q[j]
        /\ \A j \in i + 1 .. Len(q) : n[j - 1] = q[j]
    BY RemovedAt
  <2>. HIDE DEF n
  <2>8. DOMAIN q = 1 .. Len(q) /\ DOMAIN n = 1 .. Len(q) - 1
    BY <2>7
  <2>9. ASSUME NEW x \in ToSet(n)
        PROVE  x \in ToSet(q) \ {r}
    <3>1. PICK j \in 1 .. Len(q) - 1 : x = n[j]
      BY <2>8, <2>9 DEF ToSet
    <3>2. CASE j < i
      <4>1. x = q[j] /\ j \in 1 .. Len(q) /\ j # i
        <5>1. j \in 1 .. i - 1
          BY <3>2
        <5>2. n[j] = q[j]
          BY <2>7, <5>1
        <5>. QED
          BY <3>1, <3>2, <5>2
      <4>. QED
        BY <2>2, <2>8, <4>1 DEF ToSet
    <3>3. CASE j >= i
      <4>1. j + 1 \in i + 1 .. Len(q) /\ (j + 1) - 1 = j
        BY <3>3
      <4>2. n[(j + 1) - 1] = q[j + 1]
        BY <2>7, <4>1
      <4>3. x = q[j + 1] /\ j + 1 \in 1 .. Len(q) /\ j + 1 # i
        BY <3>1, <4>1, <4>2
      <4>. QED
        BY <2>2, <2>8, <4>3 DEF ToSet
    <3>. QED
      BY <3>2, <3>3
  <2>10. ASSUME NEW x \in ToSet(q) \ {r}
         PROVE  x \in ToSet(n)
    <3>1. PICK j \in 1 .. Len(q) : x = q[j]
      BY <2>8 DEF ToSet
    <3>2. j # i
      BY <2>1, <3>1
    <3>3. CASE j < i
      <4>1. j \in 1 .. Len(q) - 1 /\ n[j] = q[j]
        BY <2>7, <3>3
      <4>. QED
        BY <2>8, <3>1, <4>1 DEF ToSet
    <3>4. CASE j > i
      <4>1. j \in i + 1 .. Len(q) /\ j - 1 \in 1 .. Len(q) - 1
        BY <3>4
      <4>2. n[j - 1] = q[j]
        BY <2>7, <4>1
      <4>. QED
        BY <2>8, <3>1, <4>1, <4>2 DEF ToSet
    <3>. QED
      BY <3>2, <3>3, <3>4
  <2>11. InOrderOf(n, s)
    <3>. SUFFICES ASSUME NEW j \in 1 .. Len(q) - 1, NEW m \in 1 .. Len(q) - 1, j < m
                  PROVE  s[n[j]] < s[n[m]]
      BY <2>8 DEF InOrderOf
    <3>. DEFINE at(x) == IF x < i THEN x ELSE x + 1
    <3>1. ASSUME NEW x \in 1 .. Len(q) - 1
          PROVE  n[x] = q[at(x)]
      <4>1. CASE x < i
        <5>1. x \in 1 .. i - 1 /\ at(x) = x
          BY <4>1
        <5>. QED
          BY <2>7, <5>1
      <4>2. CASE x >= i
        <5>1. x + 1 \in i + 1 .. Len(q) /\ at(x) = x + 1 /\ (x + 1) - 1 = x
          BY <4>2
        <5>. QED
          BY <2>7, <5>1
      <4>. QED
        BY <4>1, <4>2
    <3>2. at(j) \in 1 .. Len(q) /\ at(m) \in 1 .. Len(q) /\ at(j) < at(m)
      OBVIOUS
    <3>3. n[j] = q[at(j)] /\ n[m] = q[at(m)]
      BY <3>1
    <3>. HIDE DEF at
    <3>. QED
      BY <2>8, <3>2, <3>3 DEF InOrderOf
  <2>. QED
    BY <2>6, <2>7, <2>9, <2>10, <2>11
<1>. QED
  BY <1>1, <1>2

(***************************************************************************)
(* A queue stays in order if who is pushed on it has a larger number than  *)
(* all in it (enqueue).                                                    *)
(***************************************************************************)
LEMMA Appended ==
  ASSUME NEW q \in Seq(Request), NEW r \in Request, NEW s \in [Request -> Nat],
         InOrderOf(q, s), \A x \in ToSet(q) : s[x] < s[r]
  PROVE  /\ Append(q, r) \in Seq(Request)
         /\ ToSet(Append(q, r)) = ToSet(q) \cup {r}
         /\ InOrderOf(Append(q, r), s)
<1>. DEFINE n == Append(q, r)
<1>1. /\ n \in Seq(Request) /\ DOMAIN q = 1 .. Len(q) /\ DOMAIN n = 1 .. Len(q) + 1
      /\ \A j \in 1 .. Len(q) : n[j] = q[j]
      /\ n[Len(q) + 1] = r
  OBVIOUS
<1>. HIDE DEF n
<1>2. ToSet(n) = ToSet(q) \cup {r}
  <2>1. ASSUME NEW x \in ToSet(n)
        PROVE  x \in ToSet(q) \cup {r}
    <3>1. PICK j \in 1 .. Len(q) + 1 : x = n[j]
      BY <1>1, <2>1 DEF ToSet
    <3>2. j \in 1 .. Len(q) \/ j = Len(q) + 1
      OBVIOUS
    <3>. QED
      BY <1>1, <3>1, <3>2 DEF ToSet
  <2>2. ASSUME NEW x \in ToSet(q) \cup {r}
        PROVE  x \in ToSet(n)
    <3>1. CASE x = r
      <4>1. Len(q) + 1 \in DOMAIN n
        BY <1>1
      <4>. QED
        BY <1>1, <3>1, <4>1 DEF ToSet
    <3>2. CASE x \in ToSet(q)
      <4>1. PICK j \in 1 .. Len(q) : x = q[j]
        BY <1>1, <3>2 DEF ToSet
      <4>2. j \in DOMAIN n
        BY <1>1
      <4>. QED
        BY <1>1, <4>1, <4>2 DEF ToSet
    <3>. QED
      BY <2>2, <3>1, <3>2
  <2>. QED
    BY <2>1, <2>2
<1>3. InOrderOf(n, s)
  <2>. SUFFICES ASSUME NEW i \in 1 .. Len(q) + 1, NEW j \in 1 .. Len(q) + 1, i < j
                PROVE  s[n[i]] < s[n[j]]
    BY <1>1 DEF InOrderOf
  <2>1. i \in 1 .. Len(q) /\ n[i] = q[i] /\ q[i] \in ToSet(q)
    <3>1. i \in 1 .. Len(q)
      OBVIOUS
    <3>. QED
      BY <1>1, <3>1 DEF ToSet
  <2>2. CASE j = Len(q) + 1
    <3>1. n[j] = r
      BY <1>1, <2>2
    <3>. QED
      BY <2>1, <3>1
  <2>3. CASE j \in 1 .. Len(q)
    <3>1. n[j] = q[j] /\ i \in DOMAIN q /\ j \in DOMAIN q
      BY <1>1, <2>1, <2>3
    <3>. QED
      BY <2>1, <3>1 DEF InOrderOf
  <2>. QED
    BY <2>2, <2>3
<1>. QED
  BY <1>1, <1>2, <1>3 DEF n

(***************************************************************************)
(* Whoever waits for a key, one that does heads its queue.                 *)
(***************************************************************************)
LEMMA HeadFirst ==
  ASSUME NEW q \in Seq(Request), NEW r \in ToSet(q), NEW s \in [Request -> Nat],
         InOrderOf(q, s)
  PROVE  /\ q # <<>> /\ Head(q) \in ToSet(q)
         /\ Head(q) # r => s[Head(q)] < s[r]
<1>1. PICK i \in 1 .. Len(q) : r = q[i]
  BY DEF ToSet
<1>2. q # <<>> /\ Head(q) = q[1] /\ 1 \in DOMAIN q /\ i \in DOMAIN q
  BY <1>1
<1>3. CASE i = 1
  BY <1>1, <1>2, <1>3 DEF ToSet
<1>4. CASE 1 < i
  BY <1>1, <1>2, <1>4 DEF ToSet, InOrderOf
<1>. QED
  BY <1>1, <1>3, <1>4


(***************************************************************************)
(* A queue that nobody is in is empty.                                     *)
(***************************************************************************)
LEMMA EmptyQueue ==
  ASSUME NEW q \in Seq(Request)
  PROVE  q = <<>> <=> ToSet(q) = {}
<1>1. CASE q = <<>>
  BY <1>1 DEF ToSet
<1>2. CASE q # <<>>
  <2>1. 1 \in DOMAIN q
    BY <1>2
  <2>. QED
    BY <1>2, <2>1 DEF ToSet
<1>. QED
  BY <1>1, <1>2
-----------------------------------------------------------------------------
(***************************************************************************)
(* Who waits for a key.                                                    *)
(***************************************************************************)
WaitersOf(k) == {r \in Request : status[r] = "waiting" /\ k \in KeysOf[r]}

QueuesOK ==
  \A k \in Key : /\ ToSet(queue[k]) = WaitersOf(k)
                 /\ InOrderOf(queue[k], handleId)

NumberedOK ==
  /\ \A r \in Request :
       /\ handleId[r] < nextId
       /\ handleId[r] = 0 => status[r] \notin {"waiting", "held"}
       /\ status[r] = "waiting" => KeysOf[r] # {}
       /\ status[r] = "idle" => handleId[r] = 0
  /\ \A r, q \in Request : r # q /\ handleId[r] = handleId[q] => handleId[r] = 0

TableOK ==
  /\ lockOwner \in [Key -> Owner \cup {NoOwner}]
  /\ lockDepth \in [Key -> Nat]
  /\ status \in [Request -> HandleState]
  /\ handleId \in [Request -> Nat]
  /\ nextId \in Nat \ {0}
  /\ queue \in [Key -> Seq(Request)]
  /\ \A k \in Key : lockOwner[k] = NoOwner <=> lockDepth[k] = 0

(***************************************************************************)
(* The methods that enter the loop, up to there: what they leave of what   *)
(* the callers saw.                                                        *)
(***************************************************************************)
Entered(r, h, own, dep) ==
  \/ /\ handle[r] = "idle" /\ r \notin Adopted
     /\ ~Dispossessed(OwnerOf[r]) /\ ~CanAcquireAllImmediately(r)
     /\ handleId = [seq EXCEPT ![r] = nextHandleSeq]
     /\ nextId = nextHandleSeq + 1
     /\ h = [handle EXCEPT ![r] = "waiting"]
     /\ own = owner /\ dep = depth
  \/ /\ handle[r] = "waiting"
     /\ \/ r \in Timed /\ h = [handle EXCEPT ![r] = "timedOut"]
        \/ r \in Signalled /\ h = [handle EXCEPT ![r] = "cancelled"]
     /\ own = owner /\ dep = depth
     /\ handleId = seq /\ nextId = nextHandleSeq
  \/ LET mine == {k \in KeysOf[r] : owner[k] = OwnerOf[r]}
     IN /\ handle[r] \in {"held", "moved"}
        /\ h = [handle EXCEPT ![r] = "released"]
        /\ own = [k \in Key |-> IF k \in mine /\ depth[k] <= 1 THEN NoOwner
                                                                   ELSE owner[k]]
        /\ dep = [k \in Key |-> IF k \in mine THEN depth[k] - 1
                                              ELSE depth[k]]
        /\ handleId = seq /\ nextId = nextHandleSeq

(***************************************************************************)
(* Whom the loop has granted so far.                                       *)
(***************************************************************************)
Granted(h) == {r \in Request : h[r] = "waiting" /\ status[r] = "held"}

(***************************************************************************)
(* The passes so far granted only whom Drains grants, and left the accounts*)
(* that come of it.                                                        *)
(***************************************************************************)
Granting(h, own, dep) ==
  /\ h \in [Request -> HandleState] /\ own \in [Key -> Owner \cup {NoOwner}]
  /\ dep \in [Key -> Nat]
  /\ \A r \in Request : status[r] = IF r \in Granted(h) THEN "held" ELSE h[r]
  /\ \A k \in Key :
       /\ lockDepth[k] = dep[k] + Cardinality({r \in Granted(h) : k \in KeysOf[r]})
       /\ (\A r \in Granted(h) : k \notin KeysOf[r]) => lockOwner[k] = own[k]
       /\ \A r \in Granted(h) : k \in KeysOf[r] => lockOwner[k] = OwnerOf[r]
  /\ \A r \in Granted(h) :
       /\ Grantable(r, own)
       /\ \A q \in Request :
            (h[q] = "waiting" /\ handleId[q] < handleId[r] /\ KeysOf[q] \cap KeysOf[r] # {})
              => q \in Granted(h) /\ OwnerOf[q] = OwnerOf[r]

LoopOK ==
  IF processingQueues
  THEN \E r \in Request : \E h, own, dep : Entered(r, h, own, dep) /\ Granting(h, own, dep)
  ELSE AllSeen

QueueInv == TableOK /\ QueuesOK /\ NumberedOK /\ LoopOK

-----------------------------------------------------------------------------
(***************************************************************************)
(* The fast path finds the queues of its keys empty exactly when nobody    *)
(* waits for one of them (canAcquireAllImmediately).                       *)
(***************************************************************************)
LEMMA FastPathsAgree ==
  ASSUME TableOK, QueuesOK, AllSeen, NEW r \in Request
  PROVE  FastPath(r) <=> CanAcquireAllImmediately(r)
<1>1. \A k \in Key : queue[k] = <<>> <=> WaitersOf(k) = {}
  BY EmptyQueue DEF TableOK, QueuesOK
<1>2. KeysOf[r] \subseteq Key
  BY ConstantsAssumption DEF ConstantsAssumption
<1>3. (\A k \in KeysOf[r] : WaitersOf(k) = {})
        <=> \A q \in Waiters : KeysOf[q] \cap KeysOf[r] = {}
  BY <1>2 DEF WaitersOf, Waiters, AllSeen
<1>. QED
  BY <1>1, <1>2, <1>3
     DEF FastPath, CanAcquireAllImmediately, Grantable, AllSeen

(***************************************************************************)
(* grantKeys leaves a table of its type, with a depth on every owned key.  *)
(***************************************************************************)
LEMMA KeysGranted ==
  ASSUME TableOK, NEW r \in Request, GrantKeys(r)
  PROVE  /\ lockOwner' \in [Key -> Owner \cup {NoOwner}]
         /\ lockDepth' \in [Key -> Nat]
         /\ status' \in [Request -> HandleState]
         /\ \A k \in Key : lockOwner'[k] = NoOwner <=> lockDepth'[k] = 0
<1>1. OwnerOf[r] \in Owner /\ OwnerOf[r] # NoOwner
  BY ConstantsAssumption DEF ConstantsAssumption
<1>. QED
  BY <1>1 DEF GrantKeys, TableOK, HandleState

(***************************************************************************)
(* A step that leaves the queues and their requests' numbers alone.        *)
(***************************************************************************)
LEMMA QueuesSame ==
  ASSUME TableOK, QueuesOK, UNCHANGED queue,
         \A r \in Request : (status[r] = "waiting" <=> status'[r] = "waiting"),
         \A r \in Request : status[r] = "waiting" => handleId'[r] = handleId[r]
  PROVE  QueuesOK'
<1>1. \A k \in Key : WaitersOf(k)' = WaitersOf(k)
  BY DEF WaitersOf
<1>2. ASSUME NEW k \in Key
      PROVE  InOrderOf(queue'[k], handleId')
  <2>1. \A i \in DOMAIN queue[k] : handleId'[queue[k][i]] = handleId[queue[k][i]]
    BY DEF QueuesOK, WaitersOf, ToSet
  <2>. QED
    BY <2>1 DEF QueuesOK, InOrderOf
<1>. QED
  BY <1>1, <1>2 DEF QueuesOK, ToSet

(***************************************************************************)
(* A request that is numbered is numbered last.                            *)
(***************************************************************************)
LEMMA Numbered ==
  ASSUME TableOK, NumberedOK, NEW r \in Request, status[r] = "idle",
         handleId' = [handleId EXCEPT ![r] = nextId],
         nextId' = nextId + 1,
         \A q \in Request \ {r} : status'[q] = status[q],
         status'[r] # "idle",
         status'[r] = "waiting" => KeysOf[r] # {}
  PROVE  NumberedOK'
<1>1. /\ nextId \in Nat /\ nextId # 0
      /\ handleId'[r] = nextId
      /\ \A q \in Request \ {r} : handleId'[q] = handleId[q]
      /\ \A q \in Request : handleId[q] \in Nat
  BY DEF TableOK
<1>2. ASSUME NEW q \in Request
      PROVE  /\ handleId'[q] < nextId'
             /\ handleId'[q] = 0 => status'[q] \notin {"waiting", "held"}
             /\ status'[q] = "waiting" => KeysOf[q] # {}
             /\ status'[q] = "idle" => handleId'[q] = 0
  <2>1. CASE q = r
    BY <1>1, <2>1
  <2>2. CASE q # r
    BY <1>1, <2>2 DEF NumberedOK
  <2>. QED
    BY <2>1, <2>2
<1>3. ASSUME NEW q \in Request, NEW x \in Request, q # x, handleId'[q] = handleId'[x]
      PROVE  handleId'[q] = 0
  <2>1. q # r /\ x # r
    <3>1. handleId[q] < nextId /\ handleId[x] < nextId
      BY DEF NumberedOK
    <3>. QED
      BY <1>1, <1>3, <3>1
  <2>. QED
    BY <1>1, <1>3, <2>1 DEF NumberedOK
<1>. QED
  BY <1>2, <1>3 DEF NumberedOK

(***************************************************************************)
(* The manager starts with empty queues and nothing owned.                 *)
(***************************************************************************)
LEMMA InitQueueInv == QueueInit => QueueInv
<1>. SUFFICES ASSUME QueueInit PROVE QueueInv
  OBVIOUS
<1>1. TableOK
  BY DEF QueueInit, TableOK, HandleState
<1>2. QueuesOK
  BY DEF QueueInit, QueuesOK, WaitersOf, InOrderOf, ToSet
<1>3. NumberedOK
  BY DEF QueueInit, NumberedOK
<1>. QED
  BY <1>1, <1>2, <1>3 DEF QueueInit, LoopOK, QueueInv

(***************************************************************************)
(* An acquisition on the fast path is LockManager's, in one step.          *)
(***************************************************************************)
LEMMA AcquireAtOnce ==
  ASSUME QueueInv, NEW r \in Request, AcquireLocks(r), FastPath(r)
  PROVE  QueueInv' /\ Acquire(r)
<1>1. /\ ~processingQueues /\ status[r] = "idle" /\ r \notin Adopted
      /\ ~Dispossessed(OwnerOf[r])
      /\ handleId' = [handleId EXCEPT ![r] = nextId]
      /\ nextId' = nextId + 1
      /\ GrantKeys(r) /\ UNCHANGED queue /\ processingQueues' = FALSE /\ AllSeen'
  BY DEF AcquireLocks, Return, AllSeen
<1>2. status' = [status EXCEPT ![r] = "held"]
  BY <1>1 DEF GrantKeys
<1>3. TableOK'
  BY <1>1, KeysGranted DEF QueueInv, TableOK
<1>4. QueuesOK'
  BY <1>1, <1>2, QueuesSame DEF QueueInv, TableOK
<1>5. NumberedOK'
  <2>1. /\ \A q \in Request \ {r} : status'[q] = status[q]
        /\ status'[r] # "idle" /\ (status'[r] = "waiting" => KeysOf[r] # {})
    BY <1>1, <1>2 DEF QueueInv, TableOK
  <2>. QED
    BY <1>1, <2>1, Numbered DEF QueueInv
<1>6. AllSeen
  BY <1>1 DEF QueueInv, LoopOK
<1>7. CanAcquireAllImmediately(r)
  BY <1>6, FastPathsAgree DEF QueueInv
<1>8. Acquire(r)
  BY <1>1, <1>6, <1>7
     DEF Acquire, AllSeen, GrantKeys, Dispossessed
<1>. QED
  BY <1>1, <1>3, <1>4, <1>5, <1>8 DEF QueueInv, LoopOK

(***************************************************************************)
(* A method that enters the loop has granted nobody yet.                   *)
(***************************************************************************)
LEMMA LoopEntered ==
  ASSUME TableOK', processingQueues', NEW r \in Request, NEW h, NEW own, NEW dep,
         h = status', own = lockOwner', dep = lockDepth', Entered(r, h, own, dep)'
  PROVE  LoopOK'
<1>1. Granted(h)' = {}
  BY DEF Granted
<1>2. \A k \in Key : {x \in Granted(h) : k \in KeysOf[x]}' = {}
  BY <1>1
<1>3. Cardinality({}) = 0
  BY FS_EmptySet
<1>4. Granting(h, own, dep)'
  BY <1>1, <1>2, <1>3 DEF Granting, TableOK
<1>. QED
  BY <1>4 DEF LoopOK

(***************************************************************************)
(* An acquisition that is queued enters the loop, and its caller sees      *)
(* nothing yet.                                                            *)
(***************************************************************************)
LEMMA AcquireQueues ==
  ASSUME QueueInv, NEW r \in Request, AcquireLocks(r), ~FastPath(r)
  PROVE  QueueInv' /\ UNCHANGED vars
<1>1. /\ ~processingQueues /\ status[r] = "idle" /\ r \notin Adopted
      /\ ~Dispossessed(OwnerOf[r])
      /\ handleId' = [handleId EXCEPT ![r] = nextId]
      /\ nextId' = nextId + 1
      /\ status' = [status EXCEPT ![r] = "waiting"]
      /\ queue' = [k \in Key |-> IF k \in KeysOf[r] THEN Append(queue[k], r)
                                                    ELSE queue[k]]
      /\ UNCHANGED <<lockOwner, lockDepth, vars>> /\ processingQueues' = TRUE
  BY DEF AcquireLocks, Enqueue, EnterLoop
<1>2. KeysOf[r] # {} /\ KeysOf[r] \subseteq Key
  BY ConstantsAssumption DEF ConstantsAssumption, FastPath
<1>3. TableOK'
  <2>1. queue' \in [Key -> Seq(Request)]
    BY <1>1 DEF QueueInv, TableOK
  <2>. QED
    BY <1>1, <2>1 DEF QueueInv, TableOK, HandleState
<1>4. QueuesOK'
  <2>. SUFFICES ASSUME NEW k \in Key
                PROVE  ToSet(queue'[k]) = WaitersOf(k)' /\ InOrderOf(queue'[k], handleId')
    BY DEF QueuesOK, ToSet
  <2>1. queue[k] \in Seq(Request) /\ ToSet(queue[k]) = WaitersOf(k)
    BY DEF QueueInv, TableOK, QueuesOK
  <2>2. \A i \in DOMAIN queue[k] : handleId'[queue[k][i]] = handleId[queue[k][i]]
    BY <1>1, <2>1 DEF QueueInv, TableOK, WaitersOf, ToSet
  <2>3. InOrderOf(queue[k], handleId')
    BY <2>2 DEF QueueInv, QueuesOK, InOrderOf
  <2>4. CASE k \notin KeysOf[r]
    <3>1. WaitersOf(k)' = WaitersOf(k)
      BY <1>1, <2>4 DEF WaitersOf, QueueInv, TableOK
    <3>. QED
      BY <1>1, <2>1, <2>3, <2>4, <3>1
  <2>5. CASE k \in KeysOf[r]
    <3>1. WaitersOf(k)' = WaitersOf(k) \cup {r}
      BY <1>1, <2>5 DEF WaitersOf, QueueInv, TableOK
    <3>2. handleId' \in [Request -> Nat]
      BY <1>3 DEF TableOK
    <3>3. \A x \in ToSet(queue[k]) : handleId'[x] < handleId'[r]
      BY <1>1, <2>1 DEF QueueInv, TableOK, NumberedOK, WaitersOf
    <3>4. queue'[k] = Append(queue[k], r)
      BY <1>1, <2>5
    <3>. QED
      BY <2>1, <2>3, <3>1, <3>2, <3>3, <3>4, Appended
  <2>. QED
    BY <2>4, <2>5
<1>5. NumberedOK'
  <2>1. /\ \A q \in Request \ {r} : status'[q] = status[q]
        /\ status'[r] # "idle" /\ (status'[r] = "waiting" => KeysOf[r] # {})
    BY <1>1, <1>2 DEF QueueInv, TableOK
  <2>. QED
    BY <1>1, <2>1, Numbered DEF QueueInv
<1>6. AllSeen
  BY <1>1 DEF QueueInv, LoopOK
<1>7. ~CanAcquireAllImmediately(r)
  BY <1>6, FastPathsAgree DEF QueueInv
<1>8. PICK h, own, dep : h = status' /\ own = lockOwner' /\ dep = lockDepth'
  OBVIOUS
<1>9. Entered(r, h, own, dep)'
  BY <1>1, <1>6, <1>7, <1>8
     DEF Entered, AllSeen, Dispossessed, vars,
         CanAcquireAllImmediately, Waiters
<1>10. LoopOK'
  BY <1>1, <1>3, <1>8, <1>9, LoopEntered
<1>. QED
  BY <1>1, <1>3, <1>4, <1>5, <1>10 DEF QueueInv

(***************************************************************************)
(* A request that leaves all its queues leaves them as they should be,     *)
(* whether it timed out, was aborted or is granted.                        *)
(***************************************************************************)
LEMMA RemovedFromQueues ==
  ASSUME TableOK, QueuesOK, NEW r \in Request, RemoveFromQueues(r),
         UNCHANGED handleId, status[r] = "waiting",
         \A q \in Request : status'[q] = "waiting" <=> (q # r /\ status[q] = "waiting")
  PROVE  queue' \in [Key -> Seq(Request)] /\ QueuesOK'
<1>1. ASSUME NEW k \in Key
      PROVE  /\ queue'[k] \in Seq(Request)
             /\ ToSet(queue'[k]) = WaitersOf(k)' /\ InOrderOf(queue'[k], handleId')
  <2>1. /\ queue[k] \in Seq(Request) /\ ToSet(queue[k]) = WaitersOf(k)
        /\ InOrderOf(queue[k], handleId) /\ handleId \in [Request -> Nat]
    BY DEF TableOK, QueuesOK
  <2>2. InOrderOf(queue[k], handleId')
    BY <2>1
  <2>3. CASE k \notin KeysOf[r]
    <3>1. queue'[k] = queue[k]
      BY <2>3 DEF RemoveFromQueues
    <3>2. WaitersOf(k)' = WaitersOf(k)
      BY <2>3 DEF WaitersOf
    <3>. QED
      BY <2>1, <2>2, <3>1, <3>2
  <2>4. CASE k \in KeysOf[r]
    <3>1. queue'[k] = RemoveFirst(queue[k], r)
      BY <2>4 DEF RemoveFromQueues
    <3>2. WaitersOf(k)' = WaitersOf(k) \ {r}
      BY <2>4 DEF WaitersOf
    <3>3. /\ RemoveFirst(queue[k], r) \in Seq(Request)
          /\ ToSet(RemoveFirst(queue[k], r)) = ToSet(queue[k]) \ {r}
          /\ InOrderOf(RemoveFirst(queue[k], r), handleId)
      BY <2>1, Spliced
    <3>4. InOrderOf(RemoveFirst(queue[k], r), handleId')
      BY <3>3
    <3>. QED
      BY <2>1, <3>1, <3>2, <3>3, <3>4
  <2>. QED
    BY <2>3, <2>4
<1>2. queue' = [k \in Key |-> queue'[k]]
  BY DEF RemoveFromQueues
<1>. QED
  BY <1>1, <1>2 DEF QueuesOK, ToSet

(***************************************************************************)
(* A timeout or an abort enters the loop.                                  *)
(***************************************************************************)
LEMMA LeaveQueues ==
  ASSUME QueueInv, NEW r \in Request, TimerFires(r) \/ OnAbort(r)
  PROVE  QueueInv' /\ UNCHANGED vars
<1>1. PICK outcome \in {"timedOut", "cancelled"} :
        /\ Leave(r, outcome)
        /\ outcome = "timedOut" => r \in Timed
        /\ outcome = "cancelled" => r \in Signalled
  BY DEF TimerFires, OnAbort
<1>2. /\ ~processingQueues /\ status[r] = "waiting"
      /\ status' = [status EXCEPT ![r] = outcome]
      /\ RemoveFromQueues(r)
      /\ UNCHANGED <<lockOwner, lockDepth, handleId, nextId, vars>> /\ processingQueues' = TRUE
  BY <1>1 DEF Leave, EnterLoop
<1>3. status' \in [Request -> HandleState]
  BY <1>2 DEF QueueInv, TableOK, HandleState
<1>4. \A q \in Request : status'[q] = "waiting" <=> (q # r /\ status[q] = "waiting")
  BY <1>2 DEF QueueInv, TableOK
<1>5. queue' \in [Key -> Seq(Request)] /\ QueuesOK'
  BY <1>2, <1>4, RemovedFromQueues DEF QueueInv
<1>6. TableOK'
  BY <1>2, <1>3, <1>5 DEF QueueInv, TableOK
<1>7. NumberedOK'
  BY <1>2 DEF QueueInv, NumberedOK, TableOK
<1>8. PICK h, own, dep : h = status' /\ own = lockOwner' /\ dep = lockDepth'
  OBVIOUS
<1>9. Entered(r, h, own, dep)'
  <2>1. AllSeen /\ UNCHANGED vars
    BY <1>2 DEF QueueInv, LoopOK
  <2>2. /\ handle' = status /\ owner' = lockOwner' /\ depth' = lockDepth'
        /\ seq' = handleId' /\ nextHandleSeq' = nextId'
    BY <1>2, <2>1 DEF AllSeen, vars
  <2>3. h = [handle' EXCEPT ![r] = outcome] /\ handle'[r] = "waiting"
    BY <1>2, <1>8, <2>2
  <2>. QED
    BY <1>1, <1>8, <2>2, <2>3 DEF Entered
<1>10. LoopOK'
  BY <1>2, <1>6, <1>8, <1>9, LoopEntered
<1>. QED
  BY <1>2, <1>5, <1>6, <1>7, <1>10 DEF QueueInv

(***************************************************************************)
(* A request that is refused before it is queued is LockManager's step.    *)
(***************************************************************************)
LEMMA RefuseAtOnce ==
  ASSUME QueueInv, NEW r \in Request, AcquireAborted(r)
  PROVE  QueueInv' /\ RefuseAborted(r)
<1>1. /\ ~processingQueues /\ status[r] = "idle"
      /\ status' = [status EXCEPT ![r] = "cancelled"]
      /\ UNCHANGED <<lockOwner, lockDepth, queue, handleId, nextId>>
      /\ processingQueues' = FALSE /\ AllSeen'
  BY DEF AcquireAborted, Return, AllSeen
<1>2. TableOK'
  BY <1>1 DEF QueueInv, TableOK, HandleState
<1>3. QueuesOK'
  BY <1>1, QueuesSame DEF QueueInv, TableOK
<1>4. NumberedOK'
  BY <1>1 DEF QueueInv, NumberedOK, TableOK
<1>5. RefuseAborted(r)
  <2>1. AllSeen
    BY <1>1 DEF QueueInv, LoopOK
  <2>2. /\ handle = status /\ handle' = status'
        /\ owner' = owner /\ depth' = depth
        /\ seq' = seq /\ nextHandleSeq' = nextHandleSeq
    BY <1>1, <2>1 DEF AllSeen
  <2>. QED
    BY <1>1, <2>2 DEF AcquireAborted, RefuseAborted
<1>. QED
  BY <1>1, <1>2, <1>3, <1>4, <1>5 DEF QueueInv, LoopOK

(***************************************************************************)
(* A release enters the loop with the keys it freed.                       *)
(***************************************************************************)
LEMMA ReleaseQueues ==
  ASSUME QueueInv, NEW r \in Request, ReleaseKeys(r)
  PROVE  QueueInv' /\ UNCHANGED vars
<1>. DEFINE mine == {k \in KeysOf[r] : lockOwner[k] = OwnerOf[r]}
<1>1. /\ ~processingQueues /\ status[r] \in {"held", "moved"}
      /\ lockDepth' = [k \in Key |-> IF k \in mine THEN lockDepth[k] - 1 ELSE lockDepth[k]]
      /\ lockOwner' = [k \in Key |-> IF k \in mine /\ lockDepth'[k] <= 0 THEN NoOwner
                                                               ELSE lockOwner[k]]
      /\ status' = [status EXCEPT ![r] = "released"]
      /\ UNCHANGED <<queue, handleId, nextId, vars>> /\ processingQueues' = TRUE
  BY DEF ReleaseKeys, EnterLoop
<1>2. OwnerOf[r] \in Owner /\ OwnerOf[r] # NoOwner
  BY ConstantsAssumption DEF ConstantsAssumption
<1>3. \A k \in Key : k \in mine => lockDepth[k] >= 1
  BY <1>2 DEF QueueInv, TableOK
<1>. HIDE DEF mine
<1>4. \A k \in Key : /\ lockDepth'[k] \in Nat /\ lockOwner'[k] \in Owner \cup {NoOwner}
                     /\ lockOwner'[k] = NoOwner <=> lockDepth'[k] = 0
  <2>. TAKE k \in Key
  <2>1. /\ lockDepth[k] \in Nat /\ lockOwner[k] \in Owner \cup {NoOwner}
        /\ lockOwner[k] = NoOwner <=> lockDepth[k] = 0
    BY DEF QueueInv, TableOK
  <2>2. k \in mine => lockOwner[k] # NoOwner
    BY <1>2 DEF mine
  <2>. QED
    BY <1>1, <1>3, <2>1, <2>2
<1>5. TableOK'
  <2>1. lockDepth' \in [Key -> Nat] /\ lockOwner' \in [Key -> Owner \cup {NoOwner}]
    BY <1>1, <1>4
  <2>2. status' \in [Request -> HandleState]
    BY <1>1 DEF QueueInv, TableOK, HandleState
  <2>. QED
    BY <1>1, <1>4, <2>1, <2>2 DEF QueueInv, TableOK
<1>6. QueuesOK'
  BY <1>1, QueuesSame DEF QueueInv, TableOK
<1>7. NumberedOK'
  BY <1>1 DEF QueueInv, NumberedOK, TableOK
<1>8. PICK h, own, dep : h = status' /\ own = lockOwner' /\ dep = lockDepth'
  OBVIOUS
<1>9. Entered(r, h, own, dep)'
  <2>1. own = [k \in Key |-> IF k \in mine /\ lockDepth[k] <= 1 THEN NoOwner
                                                           ELSE lockOwner[k]]
    <3>1. \A k \in Key : (k \in mine /\ lockDepth'[k] <= 0) <=> (k \in mine /\ lockDepth[k] <= 1)
      BY <1>1 DEF QueueInv, TableOK
    <3>. QED
      BY <1>1, <1>8, <3>1
  <2>2. AllSeen /\ UNCHANGED vars
    BY <1>1 DEF QueueInv, LoopOK
  <2>. QED
    BY <1>1, <1>8, <2>1, <2>2 DEF Entered, AllSeen, mine, vars
<1>10. LoopOK'
  BY <1>1, <1>5, <1>8, <1>9, LoopEntered
<1>. QED
  BY <1>1, <1>5, <1>6, <1>7, <1>10 DEF QueueInv

(***************************************************************************)
(* A transfer touches no queue and is LockManager's step.                  *)
(***************************************************************************)
LEMMA TransferAtOnce ==
  ASSUME QueueInv, NEW r \in Request, NEW t \in Request, TransferLock(r, t)
  PROVE  QueueInv' /\ Transfer(r, t)
<1>1. /\ ~processingQueues /\ status[r] = "held" /\ status[t] = "idle"
      /\ \A k \in KeysOf[r] : lockOwner[k] = OwnerOf[r]
      /\ status' = [status EXCEPT ![r] = "moved", ![t] = "held"]
      /\ lockOwner' = [k \in Key |-> IF k \in KeysOf[r] THEN OwnerOf[t] ELSE lockOwner[k]]
      /\ handleId' = [handleId EXCEPT ![t] = nextId]
      /\ nextId' = nextId + 1
      /\ UNCHANGED <<lockDepth, queue>>
      /\ processingQueues' = FALSE /\ AllSeen'
  BY DEF TransferLock, Return, AllSeen
<1>2. \A x \in Request : OwnerOf[x] \in Owner /\ OwnerOf[x] # NoOwner
  BY ConstantsAssumption DEF ConstantsAssumption
<1>3. TableOK'
  <2>1. lockOwner' \in [Key -> Owner \cup {NoOwner}]
    BY <1>1, <1>2 DEF QueueInv, TableOK
  <2>2. \A k \in Key : lockOwner'[k] = NoOwner <=> lockDepth'[k] = 0
    BY <1>1, <1>2 DEF QueueInv, TableOK
  <2>3. status' \in [Request -> HandleState]
    BY <1>1 DEF QueueInv, TableOK, HandleState
  <2>4. handleId' \in [Request -> Nat] /\ nextId' \in Nat \ {0}
    BY <1>1 DEF QueueInv, TableOK
  <2>. QED
    BY <1>1, <2>1, <2>2, <2>3, <2>4 DEF QueueInv, TableOK
<1>4. QueuesOK'
  <2>1. \A q \in Request : status[q] = "waiting" <=> status'[q] = "waiting"
    BY <1>1 DEF QueueInv, TableOK
  <2>2. \A q \in Request : status[q] = "waiting" => handleId'[q] = handleId[q]
    BY <1>1 DEF QueueInv, TableOK
  <2>. QED
    BY <1>1, <2>1, <2>2, QueuesSame DEF QueueInv
<1>5. NumberedOK'
  <2>1. r # t
    BY <1>1
  <2>2. /\ nextId \in Nat /\ nextId # 0
        /\ \A q \in Request : handleId[q] \in Nat /\ handleId[q] < nextId
        /\ \A q \in Request : handleId'[q] = IF q = t THEN nextId ELSE handleId[q]
        /\ \A q \in Request : status'[q] = IF q = t THEN "held"
                                           ELSE IF q = r THEN "moved" ELSE status[q]
    BY <1>1, <2>1 DEF QueueInv, NumberedOK, TableOK
  <2>3. ASSUME NEW q \in Request
        PROVE  /\ handleId'[q] < nextId'
               /\ handleId'[q] = 0 => status'[q] \notin {"waiting", "held"}
               /\ status'[q] = "waiting" => KeysOf[q] # {}
               /\ status'[q] = "idle" => handleId'[q] = 0
    <3>1. CASE q = t
      <4>1. handleId'[q] = nextId /\ status'[q] = "held"
        BY <2>2, <3>1
      <4>. QED
        BY <1>1, <2>2, <4>1
    <3>2. CASE q # t
      <4>1. /\ handleId'[q] = handleId[q] /\ handleId[q] < nextId
            /\ handleId[q] \in Nat /\ nextId \in Nat
        BY <2>2, <3>2
      <4>2. /\ handleId[q] = 0 => status[q] \notin {"waiting", "held"}
            /\ status[q] = "waiting" => KeysOf[q] # {}
            /\ status[q] = "idle" => handleId[q] = 0
        BY DEF QueueInv, NumberedOK
      <4>3. q # r => status'[q] = status[q]
        BY <2>2, <3>2
      <4>4. q = r => status'[q] = "moved"
        BY <2>2, <3>2
      <4>5. handleId'[q] < nextId'
        BY <1>1, <4>1
      <4>. QED
        BY <4>1, <4>2, <4>3, <4>4, <4>5
    <3>. QED
      BY <3>1, <3>2
  <2>4. ASSUME NEW q \in Request, NEW x \in Request, q # x, handleId'[q] = handleId'[x]
        PROVE  handleId'[q] = 0
    <3>1. q # t /\ x # t
      BY <2>2, <2>4
    <3>. QED
      BY <2>2, <2>4, <3>1 DEF QueueInv, NumberedOK
  <2>. QED
    BY <2>3, <2>4 DEF NumberedOK
<1>6. Transfer(r, t)
  <2>1. AllSeen
    BY <1>1 DEF QueueInv, LoopOK
  <2>2. /\ handle = status /\ handle' = status'
        /\ owner = lockOwner /\ owner' = lockOwner' /\ depth' = depth
        /\ seq = handleId /\ seq' = handleId'
        /\ nextHandleSeq = nextId /\ nextHandleSeq' = nextId'
    BY <1>1, <2>1 DEF AllSeen
  <2>. QED
    BY <1>1, <2>2 DEF TransferLock, Transfer, Dispossessed
<1>. QED
  BY <1>1, <1>3, <1>4, <1>5, <1>6 DEF QueueInv, LoopOK

-----------------------------------------------------------------------------
(***************************************************************************)
(* Of the requests that wait for a key, the head of its queue is the first.*)
(***************************************************************************)
LEMMA HeadOfQueue ==
  ASSUME TableOK, QueuesOK, NEW k \in Key, NEW r \in WaitersOf(k)
  PROVE  /\ queue[k] # <<>> /\ Head(queue[k]) \in WaitersOf(k)
         /\ Head(queue[k]) \in Heads
         /\ Head(queue[k]) # r => handleId[Head(queue[k])] < handleId[r]
<1>1. /\ queue[k] \in Seq(Request) /\ ToSet(queue[k]) = WaitersOf(k)
      /\ InOrderOf(queue[k], handleId) /\ handleId \in [Request -> Nat]
  BY DEF TableOK, QueuesOK
<1>. QED
  BY <1>1, HeadFirst DEF Heads

(***************************************************************************)
(* A pass of the loop grants a request that Drains grants: its keys were   *)
(* free or its owner's when the loop began, and whoever was ahead of it in *)
(* a queue was granted before, to the same owner.                          *)
(***************************************************************************)
LEMMA GrantOne ==
  ASSUME QueueInv, NEW x \in Request, Grant(x)
  PROVE  QueueInv' /\ UNCHANGED vars
<1>1. /\ processingQueues /\ x \in Heads /\ CanAcquireRequest(x)
      /\ RemoveFromQueues(x) /\ GrantKeys(x)
      /\ UNCHANGED <<handleId, nextId, processingQueues, vars>>
  BY DEF Grant
<1>2. status[x] = "waiting" /\ KeysOf[x] # {}
  <2>1. PICK k \in Key : queue[k] # <<>> /\ x = Head(queue[k])
    BY <1>1 DEF Heads
  <2>2. queue[k] \in Seq(Request) /\ ToSet(queue[k]) = WaitersOf(k)
    BY DEF QueueInv, TableOK, QueuesOK
  <2>3. x \in ToSet(queue[k])
    BY <2>1, <2>2 DEF ToSet
  <2>. QED
    BY <2>2, <2>3 DEF WaitersOf, QueueInv, NumberedOK
<1>3. /\ status' = [status EXCEPT ![x] = "held"]
      /\ lockOwner' = [k \in Key |-> IF k \in KeysOf[x] THEN OwnerOf[x] ELSE lockOwner[k]]
      /\ lockDepth' = [k \in Key |-> IF k \notin KeysOf[x] THEN lockDepth[k]
                                 ELSE IF lockOwner[k] = OwnerOf[x] THEN lockDepth[k] + 1
                                 ELSE 1]
  BY <1>1 DEF GrantKeys
<1>4. \A q \in Request : status'[q] = IF q = x THEN "held" ELSE status[q]
  BY <1>3 DEF QueueInv, TableOK
<1>5. queue' \in [Key -> Seq(Request)] /\ QueuesOK'
  BY <1>1, <1>2, <1>4, RemovedFromQueues DEF QueueInv
<1>6. TableOK'
  BY <1>1, <1>5, KeysGranted DEF QueueInv, TableOK
<1>7. NumberedOK'
  BY <1>1, <1>2, <1>4 DEF QueueInv, NumberedOK
<1>8. PICK r \in Request : \E h, own, dep :
        Entered(r, h, own, dep) /\ Granting(h, own, dep)
  BY <1>1 DEF QueueInv, LoopOK
<1>24. PICK h, own, dep : Entered(r, h, own, dep) /\ Granting(h, own, dep)
  BY <1>8
<1>9. Entered(r, h, own, dep)'
  BY <1>1, <1>24 DEF Entered, vars, Dispossessed, CanAcquireAllImmediately,
                    Waiters, Grantable
<1>10. h[x] = "waiting" /\ x \notin Granted(h)
  BY <1>2, <1>24 DEF Granting, Granted
<1>11. PICK G : G = Granted(h)
  OBVIOUS
<1>12. Granted(h)' = G \cup {x}
  BY <1>4, <1>10, <1>11 DEF Granted
<1>13. /\ \A y \in Request : OwnerOf[y] \in Owner /\ OwnerOf[y] # NoOwner
       /\ \A y \in Request : KeysOf[y] \subseteq Key
  BY ConstantsAssumption DEF ConstantsAssumption
<1>14. /\ h \in [Request -> HandleState] /\ own \in [Key -> Owner \cup {NoOwner}]
       /\ dep \in [Key -> Nat] /\ G \subseteq Request
       /\ \A y \in Request : status[y] = IF y \in G THEN "held" ELSE h[y]
       /\ \A k \in Key :
            /\ lockDepth[k] = dep[k] + Cardinality({y \in G : k \in KeysOf[y]})
            /\ (\A y \in G : k \notin KeysOf[y]) => lockOwner[k] = own[k]
            /\ \A y \in G : k \in KeysOf[y] => lockOwner[k] = OwnerOf[y]
       /\ \A y \in G :
            /\ Grantable(y, own)
            /\ \A q \in Request :
                 (h[q] = "waiting" /\ handleId[q] < handleId[y] /\ KeysOf[q] \cap KeysOf[y] # {})
                   => q \in G /\ OwnerOf[q] = OwnerOf[y]
  BY <1>24, <1>11 DEF Granting, Granted
<1>15. \A k \in KeysOf[x] :
         /\ lockOwner[k] \in {NoOwner, OwnerOf[x]}
         /\ queue[k] # <<>> => Head(queue[k]) = x
  BY <1>1 DEF CanAcquireRequest
<1>16. \A y \in G, k \in Key :
         k \in KeysOf[y] /\ k \in KeysOf[x] => OwnerOf[y] = OwnerOf[x]
  <2>. SUFFICES ASSUME NEW y \in G, NEW k \in Key, k \in KeysOf[y], k \in KeysOf[x]
                PROVE  OwnerOf[y] = OwnerOf[x]
    OBVIOUS
  <2>1. lockOwner[k] = OwnerOf[y] /\ y \in Request
    BY <1>14
  <2>2. OwnerOf[y] # NoOwner
    BY <1>13, <2>1
  <2>. QED
    BY <1>15, <2>1, <2>2
<1>17. \A y \in Request : status'[y] = IF y \in G \cup {x} THEN "held" ELSE h[y]
  BY <1>4, <1>14
<1>18. ASSUME NEW k \in Key
       PROVE  lockDepth'[k] = dep[k] + Cardinality({y \in G \cup {x} : k \in KeysOf[y]})
  <2>. DEFINE S == {y \in G : k \in KeysOf[y]}
  <2>1. lockDepth[k] = dep[k] + Cardinality(S) /\ lockDepth[k] \in Nat /\ dep[k] \in Nat
    BY <1>14 DEF QueueInv, TableOK
  <2>2. IsFiniteSet(S) /\ Cardinality(S) \in Nat
    <3>1. S \subseteq Request
      BY <1>14
    <3>. QED
      BY <3>1, FS_Subset, FS_CardinalityType, ConstantsAssumption DEF ConstantsAssumption
  <2>3. CASE k \notin KeysOf[x]
    <3>1. {y \in G \cup {x} : k \in KeysOf[y]} = S
      BY <2>3
    <3>2. lockDepth'[k] = lockDepth[k]
      BY <1>3, <2>3
    <3>. QED
      BY <2>1, <3>1, <3>2
  <2>4. CASE k \in KeysOf[x]
    <3>1. {y \in G \cup {x} : k \in KeysOf[y]} = S \cup {x}
      BY <2>4
    <3>2. x \notin S
      BY <1>10, <1>11
    <3>. HIDE DEF S
    <3>3. Cardinality(S \cup {x}) = Cardinality(S) + 1
      BY <2>2, <3>2, FS_AddElement
    <3>4. lockDepth'[k] = lockDepth[k] + 1
      <4>1. lockOwner[k] = NoOwner <=> lockDepth[k] = 0
        BY DEF QueueInv, TableOK
      <4>. QED
        BY <1>3, <1>15, <2>4, <4>1
    <3>. QED
      <4>1. Cardinality({y \in G \cup {x} : k \in KeysOf[y]}) = Cardinality(S) + 1
        BY <3>1, <3>3, Zenon
      <4>2. PICK c \in Nat : c = Cardinality(S)
        BY <2>2
      <4>3. lockDepth'[k] = dep[k] + (c + 1)
        BY <2>1, <3>4, <4>2
      <4>. QED
        BY <4>1, <4>2, <4>3, Zenon
  <2>. QED
    BY <2>3, <2>4
<1>19. ASSUME NEW k \in Key
       PROVE  /\ (\A y \in G \cup {x} : k \notin KeysOf[y]) => lockOwner'[k] = own[k]
              /\ \A y \in G \cup {x} : k \in KeysOf[y] => lockOwner'[k] = OwnerOf[y]
  <2>1. lockOwner'[k] = IF k \in KeysOf[x] THEN OwnerOf[x] ELSE lockOwner[k]
    BY <1>3
  <2>. QED
    BY <1>14, <1>16, <2>1
<1>20. Grantable(x, own)
  <2>. SUFFICES ASSUME NEW k \in KeysOf[x] PROVE own[k] \in {NoOwner, OwnerOf[x]}
    BY DEF Grantable
  <2>1. k \in Key
    BY <1>13
  <2>2. CASE \A y \in G : k \notin KeysOf[y]
    BY <1>14, <1>15, <2>1, <2>2
  <2>3. CASE \E y \in G : k \in KeysOf[y]
    BY <1>14, <1>16, <2>1, <2>3 DEF Grantable
  <2>. QED
    BY <2>2, <2>3
<1>21. ASSUME NEW q \in Request, h[q] = "waiting", handleId[q] < handleId[x],
              KeysOf[q] \cap KeysOf[x] # {}
       PROVE  q \in G /\ OwnerOf[q] = OwnerOf[x]
  <2>1. PICK k \in Key : k \in KeysOf[q] /\ k \in KeysOf[x]
    BY <1>13, <1>21
  <2>2. q \in G
    <3>. SUFFICES ASSUME q \notin G PROVE FALSE
      OBVIOUS
    <3>1. q \in WaitersOf(k)
      BY <1>14, <1>21, <2>1 DEF WaitersOf
    <3>2. queue[k] # <<>> /\ (Head(queue[k]) # q => handleId[Head(queue[k])] < handleId[q])
      BY <3>1, HeadOfQueue DEF QueueInv
    <3>3. Head(queue[k]) = x
      BY <1>15, <2>1, <3>2
    <3>4. handleId[q] \in Nat /\ handleId[x] \in Nat
      BY DEF QueueInv, TableOK
    <3>. QED
      BY <1>21, <3>2, <3>3, <3>4
  <2>. QED
    BY <1>16, <2>1, <2>2
<1>22. Granting(h, own, dep)'
  <2>1. Granted(h)' = G \cup {x} /\ handleId' = handleId
    BY <1>1, <1>12
  <2>2. \A y \in G \cup {x} :
          /\ Grantable(y, own)
          /\ \A q \in Request :
               (h[q] = "waiting" /\ handleId'[q] < handleId'[y] /\ KeysOf[q] \cap KeysOf[y] # {})
                 => q \in G \cup {x} /\ OwnerOf[q] = OwnerOf[y]
    BY <1>14, <1>20, <1>21, <2>1
  <2>. QED
    BY <1>14, <1>17, <1>18, <1>19, <2>1, <2>2 DEF Granting
<1>23. LoopOK'
  BY <1>1, <1>9, <1>22 DEF LoopOK
<1>. QED
  BY <1>1, <1>5, <1>6, <1>7, <1>23 DEF QueueInv

(***************************************************************************)
(* What the loop has granted when no head can have its keys is what Drains *)
(* says.                                                                   *)
(***************************************************************************)
LEMMA AllGranted ==
  ASSUME QueueInv, QueuesProcessed, NEW h, NEW own, NEW dep, Granting(h, own, dep)
  PROVE  Drains({q \in Request : h[q] = "waiting"}, own, handleId, Granted(h))
<1>1. \A q \in Heads : ~CanAcquireRequest(q)
  BY DEF QueuesProcessed
<1>2. ASSUME NEW x \in Request, h[x] = "waiting", x \notin Granted(h),
             Grantable(x, own),
             \A q \in Request :
               (h[q] = "waiting" /\ handleId[q] < handleId[x] /\ KeysOf[q] \cap KeysOf[x] # {})
                 => q \in Granted(h) /\ OwnerOf[q] = OwnerOf[x]
      PROVE  FALSE
  <2>1. status[x] = "waiting" /\ KeysOf[x] # {} /\ KeysOf[x] \subseteq Key
    BY <1>2, ConstantsAssumption
       DEF ConstantsAssumption, Granting, QueueInv, NumberedOK
  <2>2. ASSUME NEW k \in KeysOf[x]
        PROVE  /\ Head(queue[k]) = x /\ x \in Heads
               /\ lockOwner[k] \in {NoOwner, OwnerOf[x]}
    <3>1. k \in Key /\ x \in WaitersOf(k)
      BY <2>1 DEF WaitersOf
    <3>2. PICK q : q = Head(queue[k])
      OBVIOUS
    <3>3. q \in WaitersOf(k) /\ q \in Heads /\ (q # x => handleId[q] < handleId[x])
      BY <3>1, <3>2, HeadOfQueue DEF QueueInv
    <3>4. q \in Request /\ status[q] = "waiting" /\ k \in KeysOf[q]
      BY <3>3 DEF WaitersOf
    <3>5. q \notin Granted(h) /\ h[q] = "waiting"
      BY <3>4 DEF Granting, Granted
    <3>6. q = x
      BY <1>2, <3>3, <3>4, <3>5
    <3>7. CASE \A g \in Granted(h) : k \notin KeysOf[g]
      <4>1. lockOwner[k] = own[k]
        BY <3>1, <3>7 DEF Granting
      <4>. QED
        BY <1>2, <3>2, <3>3, <3>6, <4>1 DEF Grantable
    <3>8. CASE \E g \in Granted(h) : k \in KeysOf[g]
      <4>1. PICK g \in Granted(h) : k \in KeysOf[g]
        BY <3>8
      <4>2. g \in Request /\ h[g] = "waiting" /\ status[g] = "held" /\ g # x
        BY <1>2 DEF Granted
      <4>3. KeysOf[g] \cap KeysOf[x] # {} /\ KeysOf[x] \cap KeysOf[g] # {}
        BY <4>1
      <4>4. handleId[g] # handleId[x] /\ handleId[g] \in Nat /\ handleId[x] \in Nat
        BY <2>1, <4>2 DEF QueueInv, NumberedOK, TableOK
      <4>5. ~(handleId[x] < handleId[g])
        BY <1>2, <4>1, <4>3 DEF Granting
      <4>6. OwnerOf[g] = OwnerOf[x]
        BY <1>2, <4>2, <4>3, <4>4, <4>5
      <4>7. lockOwner[k] = OwnerOf[g]
        BY <3>1, <4>1 DEF Granting
      <4>. QED
        BY <3>2, <3>3, <3>6, <4>6, <4>7
    <3>. QED
      BY <3>7, <3>8
  <2>3. CanAcquireRequest(x)
    BY <2>2 DEF CanAcquireRequest
  <2>. QED
    BY <1>1, <2>1, <2>2, <2>3
<1>3. \A x \in Granted(h) :
        /\ x \in Request /\ h[x] = "waiting" /\ Grantable(x, own)
        /\ \A q \in Request :
             (h[q] = "waiting" /\ handleId[q] < handleId[x] /\ KeysOf[q] \cap KeysOf[x] # {})
               => q \in Granted(h) /\ OwnerOf[q] = OwnerOf[x]
  BY DEF Granting, Granted
<1>. QED
  BY <1>2, <1>3 DEF Drains

(***************************************************************************)
(* At its end the loop has left the owners and depths that LockManager     *)
(* derives from the set of the granted.                                    *)
(***************************************************************************)
LEMMA LoopSettles ==
  ASSUME QueueInv, QueuesProcessed, NEW h, NEW own, NEW dep, Granting(h, own, dep)
  PROVE  Settle(h, own, dep, handleId)
<1>. DEFINE W == {r \in Request : h[r] = "waiting"}
<1>1. PICK G : G = Granted(h)
  OBVIOUS
<1>2. Drains(W, own, handleId, G)
  BY <1>1, AllGranted
<1>3. G \in SUBSET W
  BY <1>2 DEF Drains
<1>5. handle' = status /\ owner' = lockOwner /\ depth' = lockDepth
  BY DEF QueuesProcessed, Return, table
<1>6. /\ \A r \in Request : status[r] = IF r \in G THEN "held" ELSE h[r]
      /\ \A k \in Key :
           /\ lockDepth[k] = dep[k] + Cardinality({r \in G : k \in KeysOf[r]})
           /\ (\A r \in G : k \notin KeysOf[r]) => lockOwner[k] = own[k]
           /\ \A r \in G : k \in KeysOf[r] => lockOwner[k] = OwnerOf[r]
  BY <1>1 DEF Granting
<1>7. /\ status = [r \in Request |-> status[r]] /\ lockOwner = [k \in Key |-> lockOwner[k]]
      /\ lockDepth = [k \in Key |-> lockDepth[k]]
  BY DEF QueueInv, TableOK
<1>8. status = [r \in Request |-> IF r \in G THEN "held" ELSE h[r]]
  BY <1>6, <1>7
<1>9. lockOwner = GrantedOwner(G, own)
  <2>1. ASSUME NEW k \in Key
        PROVE  lockOwner[k] = IF \E r \in G : k \in KeysOf[r]
                          THEN OwnerOf[CHOOSE r \in G : k \in KeysOf[r]]
                          ELSE own[k]
    BY <1>6
  <2>. QED
    BY <1>7, <2>1 DEF GrantedOwner
<1>10. lockDepth = GrantedDepth(G, dep)
  BY <1>6, <1>7 DEF GrantedDepth
<1>. QED
  BY <1>2, <1>3, <1>5, <1>8, <1>9, <1>10 DEF Settle

(***************************************************************************)
(* The end of the loop is the step of LockManager for the method that      *)
(* entered it: what was still hidden from the callers becomes visible.     *)
(***************************************************************************)
LEMMA LoopEnds ==
  ASSUME QueueInv, QueuesProcessed
  PROVE  QueueInv' /\ Next
<1>1. /\ processingQueues
      /\ UNCHANGED <<lockOwner, lockDepth, queue, status, handleId, nextId>>
      /\ processingQueues' = FALSE /\ AllSeen'
  BY DEF QueuesProcessed, Return, AllSeen, table
<1>2. QueueInv'
  <2>1. TableOK'
    BY <1>1 DEF QueueInv, TableOK
  <2>2. QueuesOK'
    BY <1>1, QueuesSame DEF QueueInv, TableOK
  <2>3. NumberedOK'
    BY <1>1 DEF QueueInv, NumberedOK
  <2>. QED
    BY <1>1, <2>1, <2>2, <2>3 DEF QueueInv, LoopOK
<1>3. PICK r \in Request : \E h, own, dep :
        Entered(r, h, own, dep) /\ Granting(h, own, dep)
  BY <1>1 DEF QueueInv, LoopOK
<1>4. PICK h, own, dep : Entered(r, h, own, dep) /\ Granting(h, own, dep)
  BY <1>3
<1>5. Settle(h, own, dep, handleId)
  BY <1>4, LoopSettles
<1>6. seq' = handleId /\ nextHandleSeq' = nextId
  BY <1>1 DEF AllSeen
<1>7. Acquire(r) \/ Timeout(r) \/ Abort(r) \/ Release(r)
  <2>1. CASE /\ handle[r] = "idle" /\ r \notin Adopted
             /\ ~Dispossessed(OwnerOf[r]) /\ ~CanAcquireAllImmediately(r)
             /\ handleId = [seq EXCEPT ![r] = nextHandleSeq]
             /\ nextId = nextHandleSeq + 1
             /\ h = [handle EXCEPT ![r] = "waiting"]
             /\ own = owner /\ dep = depth
    BY <1>5, <1>6, <2>1 DEF Acquire
  <2>2. CASE /\ handle[r] = "waiting"
             /\ \/ r \in Timed /\ h = [handle EXCEPT ![r] = "timedOut"]
                \/ r \in Signalled /\ h = [handle EXCEPT ![r] = "cancelled"]
             /\ own = owner /\ dep = depth
             /\ handleId = seq /\ nextId = nextHandleSeq
    BY <1>5, <1>6, <2>2 DEF Timeout, Abort
  <2>3. CASE LET mine == {k \in KeysOf[r] : owner[k] = OwnerOf[r]}
             IN /\ handle[r] \in {"held", "moved"}
                /\ h = [handle EXCEPT ![r] = "released"]
                /\ own = [k \in Key |-> IF k \in mine /\ depth[k] <= 1
                                        THEN NoOwner ELSE owner[k]]
                /\ dep = [k \in Key |-> IF k \in mine THEN depth[k] - 1
                                                      ELSE depth[k]]
                /\ handleId = seq /\ nextId = nextHandleSeq
    BY <1>5, <1>6, <2>3 DEF Release
  <2>. QED
    BY <1>4, <2>1, <2>2, <2>3 DEF Entered
<1>. QED
  BY <1>2, <1>7 DEF Next
-----------------------------------------------------------------------------
(***************************************************************************)
(* Every step keeps the invariant, and is for the callers a step of        *)
(* LockManager or none.                                                    *)
(***************************************************************************)
LEMMA QueueStep ==
  ASSUME QueueInv, [QueueNext]_queueVars
  PROVE  QueueInv' /\ [Next]_vars
<1>1. CASE UNCHANGED queueVars
  <2>1. /\ UNCHANGED <<lockOwner, lockDepth, queue, status, handleId, nextId>>
        /\ UNCHANGED processingQueues /\ UNCHANGED vars
    BY <1>1 DEF queueVars, table
  <2>2. TableOK'
    BY <2>1 DEF QueueInv, TableOK
  <2>3. QueuesOK'
    BY <2>1, QueuesSame DEF QueueInv
  <2>4. NumberedOK'
    BY <2>1 DEF QueueInv, NumberedOK
  <2>5. CASE processingQueues
    <3>1. PICK r \in Request : \E h, own, dep :
            Entered(r, h, own, dep) /\ Granting(h, own, dep)
      BY <2>5 DEF QueueInv, LoopOK
    <3>2. PICK h, own, dep : Entered(r, h, own, dep) /\ Granting(h, own, dep)
      BY <3>1
    <3>3. Entered(r, h, own, dep)'
      BY <2>1, <3>2 DEF Entered, vars, Dispossessed, CanAcquireAllImmediately,
                        Waiters, Grantable
    <3>4. Granting(h, own, dep)'
      <4>1. PICK G : G = Granted(h)
        OBVIOUS
      <4>2. Granted(h)' = G /\ UNCHANGED status /\ UNCHANGED lockOwner /\ UNCHANGED lockDepth
              /\ UNCHANGED handleId
        BY <2>1, <4>1 DEF Granted
      <4>3. /\ h \in [Request -> HandleState] /\ own \in [Key -> Owner \cup {NoOwner}]
            /\ dep \in [Key -> Nat]
            /\ \A y \in Request : status[y] = IF y \in G THEN "held" ELSE h[y]
            /\ \A k \in Key :
                 /\ lockDepth[k] = dep[k] + Cardinality({y \in G : k \in KeysOf[y]})
                 /\ (\A y \in G : k \notin KeysOf[y]) => lockOwner[k] = own[k]
                 /\ \A y \in G : k \in KeysOf[y] => lockOwner[k] = OwnerOf[y]
            /\ \A y \in G :
                 /\ Grantable(y, own)
                 /\ \A q \in Request :
                      (h[q] = "waiting" /\ handleId[q] < handleId[y] /\ KeysOf[q] \cap KeysOf[y] # {})
                        => q \in G /\ OwnerOf[q] = OwnerOf[y]
        BY <3>2, <4>1 DEF Granting
      <4>. QED
        BY <4>2, <4>3 DEF Granting
    <3>. QED
      <4>1. processingQueues'
        BY <2>1, <2>5
      <4>2. LoopOK'
        BY <3>3, <3>4, <4>1 DEF LoopOK
      <4>. QED
        BY <2>1, <2>2, <2>3, <2>4, <4>2 DEF QueueInv, vars
  <2>6. CASE ~processingQueues
    BY <2>1, <2>2, <2>3, <2>4, <2>6 DEF QueueInv, LoopOK, AllSeen, vars
  <2>. QED
    BY <2>5, <2>6
<1>2. CASE \E r \in Request : AcquireLocks(r)
  BY <1>2, AcquireAtOnce, AcquireQueues DEF Next, vars
<1>3. CASE \E r \in Request : TimerFires(r) \/ OnAbort(r)
  BY <1>3, LeaveQueues DEF vars
<1>4. CASE \E r \in Request : AcquireAborted(r)
  BY <1>4, RefuseAtOnce DEF Next
<1>5. CASE \E r \in Request : ReleaseKeys(r)
  BY <1>5, ReleaseQueues DEF vars
<1>6. CASE \E r \in Request : Grant(r)
  BY <1>6, GrantOne DEF vars
<1>7. CASE \E r, t \in Request : TransferLock(r, t)
  BY <1>7, TransferAtOnce DEF Next
<1>8. CASE QueuesProcessed
  BY <1>8, LoopEnds
<1>. QED
  BY <1>1, <1>2, <1>3, <1>4, <1>5, <1>6, <1>7, <1>8 DEF QueueNext

(***************************************************************************)
(* What the callers see at the start is LockManager's start.               *)
(***************************************************************************)
LEMMA InitSeen == QueueInit => Init
  BY DEF QueueInit, Init, AllSeen

(***************************************************************************)
(* The queues, the numbers of the handles and the loop are always as       *)
(* QueueInv says (enqueue, removeFromQueues, processQueues).               *)
(***************************************************************************)
THEOREM QueueInvariant == QueueSpec => []QueueInv
<1>1. QueueInv /\ [QueueNext]_queueVars => QueueInv'
  BY QueueStep
<1>. QED
  BY <1>1, InitQueueInv, PTL DEF QueueSpec

(***************************************************************************)
(* Each queue holds exactly the requests that wait for its key, each once, *)
(* in the order of the handle ids, also between two passes of the loop.    *)
(***************************************************************************)
THEOREM QueuesStayOrdered == QueueSpec => []QueuesOrdered
<1>1. QueueInv => QueuesOrdered
  BY DEF QueueInv, QueuesOK, QueuesOrdered, WaitersOf, InOrderOf
<1>. QED
  BY <1>1, QueueInvariant, PTL

(***************************************************************************)
(* For every set of keys, owners and requests the queues and the loop of   *)
(* processQueues implement LockManager, in whatever order the loop visits  *)
(* the heads: what is proved of LockManager holds for what callers see.    *)
(***************************************************************************)
THEOREM QueuesImplementLockManager == QueueSpec => ImplementsLockManager
<1>1. QueueInv /\ [QueueNext]_queueVars => [Next]_vars
  BY QueueStep
<1>. QED
  BY <1>1, InitSeen, QueueInvariant, PTL DEF QueueSpec, ImplementsLockManager, Spec

(***************************************************************************)
(* What the queues give their callers: exclusion, the accounts of holds,   *)
(* no lost wakeup and grants in the order of arrival.                      *)
(***************************************************************************)
THEOREM QueuesServe ==
  QueueSpec => [](MutualExclusion /\ HoldsAccounted /\ NoLostWakeup) /\ NoOvertaking
BY QueuesImplementLockManager, MutualExclusionHolds, AccountingHolds,
   NoWakeupIsLost, GrantsInOrder, PTL DEF ImplementsLockManager
=============================================================================
