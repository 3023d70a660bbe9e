---------------------------- MODULE EconomyProofs ----------------------------
(***************************************************************************)
(* The books of the economy balance, for any accounts, balances, amounts,  *)
(* keys and commands and any number of failures and crashes: the balance   *)
(* of an account is what its ledger entries add up to, a move is booked    *)
(* whole or not at all, and an idempotency key has its effect once.        *)
(*                                                                         *)
(* Under Survivable, which leaves out what section 13 of the README shows  *)
(* to break the books: an account opened over a closed one, the reversal   *)
(* of a reversal, a crash during a command that has neither a transaction  *)
(* nor a key, and a crash after a flush that failed.                       *)
(*                                                                         *)
(* The invariant says at every await where the money is.  A balance is     *)
(* what was there at first, and the entries of the account (Sum), and the  *)
(* keyed adjustments whose entry a crash has lost (Orphaned: the receipt   *)
(* in the document tells the retry to write it again), and what a move     *)
(* has written and not booked (Pending: the record of the transaction      *)
(* tells recovery what to take back).  A step of a command moves these     *)
(* against each other on its own accounts, which nobody else holds         *)
(* (Exclusive), and leaves every other account alone (Frame, StepKeeps).   *)
(* A crash turns entries that were not saved into orphans and pending      *)
(* writes; each account loses those of one command only.                   *)
(*                                                                         *)
(* The sums are the folds of the community modules.  Their laws follow     *)
(* from the library's well-founded order of the subsets of a finite set    *)
(* (SubsetInduction).                                                      *)
(***************************************************************************)
EXTENDS Economy, TLAPS, FiniteSetTheorems, WellFoundedInduction, SequenceTheorems

----------------------------------------------------------------------------
\* Finite sums.

\* Induction over the subsets of a finite set, without an operator parameter:
\* C holds what is shown, and has every set whose proper subsets it has.
LEMMA SubsetInduction ==
  ASSUME NEW D, IsFiniteSet(D), NEW C \in SUBSET (SUBSET D),
         \A T \in SUBSET D : (\A U \in SUBSET T : U # T => U \in C) => T \in C
  PROVE  C = SUBSET D
<1>. DEFINE B == (SUBSET D) \ C
<1>1. SUFFICES ASSUME B # {} PROVE FALSE
  OBVIOUS
<1>2. IsWellFoundedOn(StrictSubsetOrdering(D), SUBSET D)
  BY FS_StrictSubsetOrderingWellFounded, FS_FiniteSubsetsOfFinite
<1>3. B \subseteq SUBSET D
  OBVIOUS
<1>. HIDE DEF B
<1>4. PICK T \in B : \A U \in B : ~ (<<U, T>> \in StrictSubsetOrdering(D))
  BY <1>1, <1>2, <1>3, WFMin
<1>5. \A U \in SUBSET T : U # T => U \in C
  BY <1>4 DEF StrictSubsetOrdering, B
<1>. QED
  BY <1>4, <1>5 DEF B

Pick(s) == CHOOSE x \in s : TRUE

SumStep(g, f, s) == IF s = {} THEN 0 ELSE f[Pick(s)] + g[s \ {Pick(s)}]

\* What SumFunctionOnSet chooses: it adds up f on every subset of T.
AddsUp(g, f, T) == g = [s \in SUBSET T |-> SumStep(g, f, s)]

Total(f, T) == (CHOOSE g : AddsUp(g, f, T))[T]

\* The sum of the library, with its choice of a function made visible.
LEMMA SumIsTotal ==
  ASSUME NEW f, NEW T
  PROVE  SumFunctionOnSet(f, T) = Total(f, T)
  BY DEF SumFunctionOnSet, FoldFunctionOnSet, MapThenFoldSet, AddsUp, SumStep, Pick, Total

\* Any two functions that add up f agree: the choice does not matter.
LEMMA AddsUpOnce ==
  ASSUME NEW f, NEW T, NEW U, NEW g, NEW h, AddsUp(g, f, T), AddsUp(h, f, U),
         NEW S, IsFiniteSet(S), S \subseteq T, S \subseteq U
  PROVE  g[S] = h[S]
<1>. DEFINE C == {s \in SUBSET S : g[s] = h[s]}
<1>1. ASSUME NEW s \in SUBSET S, \A u \in SUBSET s : u # s => u \in C
      PROVE  s \in C
  <2>1. g[s] = SumStep(g, f, s) /\ h[s] = SumStep(h, f, s)
    BY DEF AddsUp
  <2>2. CASE s = {}
    BY <2>1, <2>2 DEF SumStep
  <2>3. CASE s # {}
    <3>1. Pick(s) \in s
      BY <2>3 DEF Pick
    <3>2. s \ {Pick(s)} \in C
      BY <1>1, <3>1
    <3>. QED
      BY <2>1, <2>3, <3>2 DEF SumStep
  <2>. QED
    BY <2>2, <2>3
<1>2. C \in SUBSET SUBSET S
  OBVIOUS
<1>. HIDE DEF C
<1>3. C = SUBSET S
  BY <1>1, <1>2, SubsetInduction
<1>. QED
  BY <1>3 DEF C

\* There is one.
LEMMA TotalAddsUp ==
  ASSUME NEW f, NEW T, IsFiniteSet(T)
  PROVE  \E g : AddsUp(g, f, T)
<1>. DEFINE C == {s \in SUBSET T : \E g : AddsUp(g, f, s)}
<1>1. ASSUME NEW s \in SUBSET T, \A u \in SUBSET s : u # s => u \in C
      PROVE  s \in C
  <2>. DEFINE A == [u \in SUBSET s |-> Total(f, u)]
              g == [u \in SUBSET s |-> SumStep(A, f, u)]
  <2>1. ASSUME NEW u \in SUBSET s, u # s
        PROVE  A[u] = g[u]
    <3>. DEFINE gu == CHOOSE h : AddsUp(h, f, u)
    <3>1. AddsUp(gu, f, u)
      BY <1>1, <2>1
    <3>2. A[u] = gu[u]
      BY DEF Total
    <3>3. gu[u] = SumStep(gu, f, u)
      BY <3>1 DEF AddsUp
    <3>4. CASE u = {}
      BY <3>2, <3>3, <3>4 DEF SumStep
    <3>5. CASE u # {}
      <4>. DEFINE v == u \ {Pick(u)}
                  gv == CHOOSE h : AddsUp(h, f, v)
      <4>1. Pick(u) \in u
        BY <3>5 DEF Pick
      <4>2. v \in SUBSET s /\ v # s /\ v \subseteq u
        BY <4>1, <2>1
      <4>3. AddsUp(gv, f, v)
        BY <1>1, <4>2
      <4>4. IsFiniteSet(v)
        BY <4>2, FS_Subset
      <4>5. gu[v] = gv[v]
        <5>. HIDE DEF gu, gv, v
        <5>. QED
          BY <3>1, <4>2, <4>3, <4>4, AddsUpOnce
      <4>6. A[v] = gv[v]
        BY <4>2 DEF Total
      <4>. QED
        BY <3>2, <3>3, <3>5, <4>5, <4>6 DEF SumStep
    <3>. QED
      BY <3>4, <3>5
  <2>2. \A u \in SUBSET s : SumStep(A, f, u) = SumStep(g, f, u)
    <3>. SUFFICES ASSUME NEW u \in SUBSET s PROVE SumStep(A, f, u) = SumStep(g, f, u)
      OBVIOUS
    <3>1. CASE u = {}
      BY <3>1 DEF SumStep
    <3>2. CASE u # {}
      <4>1. u \ {Pick(u)} \in SUBSET s /\ u \ {Pick(u)} # s
        BY <3>2 DEF Pick
      <4>2. A[u \ {Pick(u)}] = g[u \ {Pick(u)}]
        BY <4>1, <2>1
      <4>. HIDE DEF A, g
      <4>. QED
        BY <4>2 DEF SumStep
    <3>. QED
      BY <3>1, <3>2
  <2>3. AddsUp(g, f, s)
    BY <2>2 DEF AddsUp
  <2>. QED
    BY <2>3
<1>2. C \in SUBSET SUBSET T
  OBVIOUS
<1>. HIDE DEF C
<1>3. C = SUBSET T
  BY <1>1, <1>2, SubsetInduction
<1>. QED
  BY <1>3 DEF C

\* A sum is its picked element and the sum of the others.
LEMMA TotalStep ==
  ASSUME NEW f, NEW T, IsFiniteSet(T)
  PROVE  Total(f, T) = IF T = {} THEN 0 ELSE f[Pick(T)] + Total(f, T \ {Pick(T)})
<1>. DEFINE g == CHOOSE h : AddsUp(h, f, T)
            v == T \ {Pick(T)}
            gv == CHOOSE h : AddsUp(h, f, v)
<1>1. AddsUp(g, f, T) /\ AddsUp(gv, f, v)
  BY TotalAddsUp, FS_Subset
<1>2. g[T] = SumStep(g, f, T)
  BY <1>1 DEF AddsUp
<1>3. g[v] = gv[v]
  <2>1. IsFiniteSet(v)
    BY FS_Subset
  <2>. HIDE DEF g, gv
  <2>. QED
    BY <1>1, <2>1, AddsUpOnce
<1>. QED
  BY <1>2, <1>3 DEF Total, SumStep

\* Sums of integers are integers.
LEMMA TotalType ==
  ASSUME NEW f, NEW T, IsFiniteSet(T), \A x \in T : f[x] \in Int
  PROVE  Total(f, T) \in Int
<1>. DEFINE C == {s \in SUBSET T : Total(f, s) \in Int}
<1>1. ASSUME NEW s \in SUBSET T, \A u \in SUBSET s : u # s => u \in C
      PROVE  s \in C
  <2>1. IsFiniteSet(s)
    BY FS_Subset
  <2>2. Total(f, s) = IF s = {} THEN 0 ELSE f[Pick(s)] + Total(f, s \ {Pick(s)})
    BY <2>1, TotalStep
  <2>3. CASE s # {}
    <3>1. Pick(s) \in s
      BY <2>3 DEF Pick
    <3>2. s \ {Pick(s)} \in C
      BY <1>1, <3>1
    <3>. QED
      BY <2>2, <2>3, <3>1, <3>2
  <2>. QED
    BY <2>2, <2>3
<1>2. C \in SUBSET SUBSET T
  OBVIOUS
<1>. HIDE DEF C
<1>3. C = SUBSET T
  BY <1>1, <1>2, SubsetInduction
<1>. QED
  BY <1>3 DEF C

\* Any element may be taken first.
LEMMA TotalWith ==
  ASSUME NEW f, NEW T, IsFiniteSet(T), \A x \in T : f[x] \in Int, NEW x \in T
  PROVE  Total(f, T) = f[x] + Total(f, T \ {x})
<1>. DEFINE C == {s \in SUBSET T : \A y \in s : Total(f, s) = f[y] + Total(f, s \ {y})}
<1>1. ASSUME NEW s \in SUBSET T, \A u \in SUBSET s : u # s => u \in C
      PROVE  s \in C
  <2>. SUFFICES ASSUME NEW y \in s
                PROVE  Total(f, s) = f[y] + Total(f, s \ {y})
    OBVIOUS
  <2>. DEFINE p == Pick(s)
  <2>1. p \in s
    BY DEF Pick
  <2>. HIDE DEF p
  <2>2. IsFiniteSet(s) /\ IsFiniteSet(s \ {p}) /\ IsFiniteSet(s \ {y}) /\ IsFiniteSet(s \ {p, y})
    BY FS_Subset
  <2>3. Total(f, s) = f[p] + Total(f, s \ {p})
    BY <2>2, TotalStep DEF p
  <2>4. CASE p # y
    <3>1. s \ {p} \in C /\ s \ {y} \in C
      BY <1>1, <2>1
    <3>2. Total(f, s \ {p}) = f[y] + Total(f, (s \ {p}) \ {y})
      BY <3>1, <2>4
    <3>3. Total(f, s \ {y}) = f[p] + Total(f, (s \ {y}) \ {p})
      BY <3>1, <2>1, <2>4
    <3>4. (s \ {p}) \ {y} = s \ {p, y} /\ (s \ {y}) \ {p} = s \ {p, y}
      OBVIOUS
    <3>5. Total(f, s \ {p, y}) \in Int /\ f[p] \in Int /\ f[y] \in Int
      BY <2>1, <2>2, TotalType
    <3>. QED
      BY <2>3, <3>2, <3>3, <3>4, <3>5, SMTT(20)
  <2>. QED
    BY <2>3, <2>4
<1>2. C \in SUBSET SUBSET T
  OBVIOUS
<1>. HIDE DEF C
<1>3. C = SUBSET T
  BY <1>1, <1>2, SubsetInduction
<1>4. T \in C
  BY <1>3
<1>. QED
  BY <1>4 DEF C

\* A sum depends on the values that it adds only.
LEMMA TotalSame ==
  ASSUME NEW f, NEW g, NEW T, IsFiniteSet(T), \A x \in T : f[x] = g[x]
  PROVE  Total(f, T) = Total(g, T)
<1>. DEFINE C == {s \in SUBSET T : Total(f, s) = Total(g, s)}
<1>1. ASSUME NEW s \in SUBSET T, \A u \in SUBSET s : u # s => u \in C
      PROVE  s \in C
  <2>1. IsFiniteSet(s)
    BY FS_Subset
  <2>2. /\ Total(f, s) = IF s = {} THEN 0 ELSE f[Pick(s)] + Total(f, s \ {Pick(s)})
        /\ Total(g, s) = IF s = {} THEN 0 ELSE g[Pick(s)] + Total(g, s \ {Pick(s)})
    BY <2>1, TotalStep
  <2>3. CASE s # {}
    <3>1. Pick(s) \in s
      BY <2>3 DEF Pick
    <3>2. s \ {Pick(s)} \in C
      BY <1>1, <3>1
    <3>. QED
      BY <2>2, <2>3, <3>1, <3>2
  <2>. QED
    BY <2>2, <2>3
<1>2. C \in SUBSET SUBSET T
  OBVIOUS
<1>. HIDE DEF C
<1>3. C = SUBSET T
  BY <1>1, <1>2, SubsetInduction
<1>4. T \in C
  BY <1>3
<1>. QED
  BY <1>4 DEF C

\* SumFunction in terms of Total.
LEMMA SumIs ==
  ASSUME NEW S, NEW f \in [S -> Int], IsFiniteSet(S)
  PROVE  SumFunction(f) = Total(f, S) /\ SumFunction(f) \in Int
<1>1. SumFunction(f) = Total(f, S)
  BY SumIsTotal DEF SumFunction
<1>. QED
  BY <1>1, TotalType

\* Any element can be taken out of a sum.
LEMMA SumRemoved ==
  ASSUME NEW S, NEW f \in [S -> Int], IsFiniteSet(S), NEW x \in S
  PROVE  SumFunction(f) = f[x] + SumFunction([y \in S \ {x} |-> f[y]])
<1>. DEFINE g == [y \in S \ {x} |-> f[y]]
<1>1. IsFiniteSet(S \ {x})
  BY FS_Subset
<1>2. g \in [S \ {x} -> Int] /\ \A y \in S \ {x} : g[y] = f[y]
  OBVIOUS
<1>. HIDE DEF g
<1>3. Total(g, S \ {x}) = Total(f, S \ {x})
  BY <1>1, <1>2, TotalSame
<1>4. SumFunction(f) = Total(f, S) /\ SumFunction(g) = Total(g, S \ {x})
  BY <1>1, <1>2, SumIs
<1>5. \A y \in S : f[y] \in Int
  OBVIOUS
<1>6. Total(f, S) = f[x] + Total(f, S \ {x})
  BY <1>5, TotalWith
<1>. QED
  BY <1>3, <1>4, <1>6 DEF g

\* ... and put into it.
LEMMA SumAdded ==
  ASSUME NEW S, NEW f \in [S -> Int], IsFiniteSet(S), NEW x, x \notin S,
         NEW g \in [S \cup {x} -> Int], \A y \in S : g[y] = f[y]
  PROVE  SumFunction(g) = SumFunction(f) + g[x]
<1>1. IsFiniteSet(S \cup {x})
  BY FS_AddElement
<1>2. SumFunction(g) = g[x] + SumFunction([y \in (S \cup {x}) \ {x} |-> g[y]])
  BY <1>1, SumRemoved
<1>3. (S \cup {x}) \ {x} = S
  OBVIOUS
<1>4. [y \in (S \cup {x}) \ {x} |-> g[y]] = f
  BY <1>3
<1>5. g[x] \in Int /\ SumFunction(f) \in Int
  BY SumIs
<1>. QED
  BY <1>2, <1>4, <1>5

\* A sum moves with the one value that changes.
LEMMA SumChanged ==
  ASSUME NEW S, NEW f \in [S -> Int], NEW g \in [S -> Int], IsFiniteSet(S),
         NEW x \in S, \A y \in S \ {x} : g[y] = f[y]
  PROVE  SumFunction(g) = SumFunction(f) + g[x] - f[x]
<1>. DEFINE h == [y \in S \ {x} |-> f[y]]
<1>1. h = [y \in S \ {x} |-> g[y]]
  OBVIOUS
<1>2. SumFunction(f) = f[x] + SumFunction(h)
  BY SumRemoved
<1>3. SumFunction(g) = g[x] + SumFunction(h)
  <2>1. SumFunction(g) = g[x] + SumFunction([y \in S \ {x} |-> g[y]])
    BY SumRemoved
  <2>. QED
    BY <1>1, <2>1
<1>4. IsFiniteSet(S \ {x}) /\ h \in [S \ {x} -> Int]
  BY FS_Subset
<1>5. SumFunction(h) \in Int
  BY <1>4, SumIs
<1>. QED
  BY <1>2, <1>3, <1>5

\* Naturals add up to a natural.
LEMMA SumAtLeast ==
  ASSUME NEW S, NEW f \in [S -> Nat], IsFiniteSet(S)
  PROVE  SumFunction(f) \in Nat
<1>. DEFINE C == {s \in SUBSET S : Total(f, s) \in Nat}
<1>1. ASSUME NEW s \in SUBSET S, \A u \in SUBSET s : u # s => u \in C
      PROVE  s \in C
  <2>1. Total(f, s) = IF s = {} THEN 0 ELSE f[Pick(s)] + Total(f, s \ {Pick(s)})
    BY FS_Subset, TotalStep
  <2>2. CASE s # {}
    <3>1. Pick(s) \in s
      BY <2>2 DEF Pick
    <3>2. s \ {Pick(s)} \in C
      BY <1>1, <3>1
    <3>. QED
      BY <2>1, <2>2, <3>1, <3>2
  <2>. QED
    BY <2>1, <2>2
<1>2. C \in SUBSET SUBSET S
  OBVIOUS
<1>. HIDE DEF C
<1>3. C = SUBSET S
  BY <1>1, <1>2, SubsetInduction
<1>4. Total(f, S) \in Nat
  BY <1>3 DEF C
<1>5. f \in [S -> Int]
  OBVIOUS
<1>. QED
  BY <1>4, <1>5, SumIs

\* Zeros add up to zero.
LEMMA SumOfZeros ==
  ASSUME NEW S, NEW f, f = [x \in S |-> 0], IsFiniteSet(S)
  PROVE  SumFunction(f) = 0
<1>. DEFINE g == [x \in S |-> 0]
<1>. DEFINE C == {s \in SUBSET S : Total(f, s) = 0}
<1>1. ASSUME NEW s \in SUBSET S, \A u \in SUBSET s : u # s => u \in C
      PROVE  s \in C
  <2>1. Total(f, s) = IF s = {} THEN 0 ELSE f[Pick(s)] + Total(f, s \ {Pick(s)})
    BY FS_Subset, TotalStep
  <2>2. CASE s # {}
    <3>1. Pick(s) \in s
      BY <2>2 DEF Pick
    <3>2. s \ {Pick(s)} \in C /\ f[Pick(s)] = 0
      BY <1>1, <3>1
    <3>. QED
      BY <2>1, <2>2, <3>1, <3>2
  <2>. QED
    BY <2>1, <2>2
<1>2. C \in SUBSET SUBSET S
  OBVIOUS
<1>. HIDE DEF C
<1>3. C = SUBSET S
  BY <1>1, <1>2, SubsetInduction
<1>4. Total(f, S) = 0
  BY <1>3 DEF C
<1>5. f \in [S -> Int]
  OBVIOUS
<1>. QED
  BY <1>4, <1>5, SumIs

----------------------------------------------------------------------------
\* The invariant.

Moves == {"transfer", "convert"}

Statuses == {"none", "active", "closed"}

Receipts == {"none", "applied", "confirmed"}

Pcs ==
  {"idle", "done", "journal", "debit", "exchange", "credit", "rollback", "book",
   "close tx", "apply", "confirm", "undo", "open", "shut", "keep", "spend", "refund",
   "restore", "reverse"}

CmdKinds ==
  {"none", "transfer", "convert", "adjust", "keyed", "undo", "open", "shut", "reserve",
   "consume", "refund", "release", "reverse"}

EntryKinds ==
  {"transfer-debit", "transfer-credit", "conversion-debit", "conversion-credit",
   "adjustment", "consumption", "opening-balance", "reversal"}

ResvStatuses == {"active", "partially-consumed", "consumed", "released"}

EntryType ==
  [acct : Acct, delta : Int, kind : EntryKinds, by : Op, ref : Int, rev : Nat]

ResvType == {NoResv} \cup [status : ResvStatuses, acct : Acct, rem : Nat]

OpType ==
  [pc : Pcs, kind : CmdKinds, a : Acct \cup {NoAcct}, b : Acct \cup {NoAcct},
   n : Int, m : Int, ref : Int, prev : ResvType]

TxStates == {"committing", "committed", "failed", "needs-recovery",
             "compensating", "compensated"}

TxType ==
  {NoTx} \cup
  [state : TxStates, kind : Moves, a : Acct, b : Acct, n : Nat \ {0}, m : Nat \ {0},
   a0 : Nat, b0 : Nat]

DocumentsTyped ==
  /\ account \in [Acct -> [status : Statuses, bal : Nat]]
  /\ receipt \in [Ref -> Receipts]

BooksTyped ==
  /\ ledger \in Seq(EntryType) /\ saved \in Seq(EntryType)
  /\ Len(saved) <= Len(ledger) /\ \A i \in DOMAIN saved : saved[i] = ledger[i]
  /\ \A i \in DOMAIN ledger : ledger[i].rev < i

StoresTyped ==
  /\ resv \in [Op -> ResvType] /\ resvSaved \in [Op -> ResvType]
  /\ tx \in [Op -> TxType] /\ txSaved \in [Op -> TxType]

OpsTyped ==
  /\ op \in [Op -> OpType]
  /\ todo \subseteq isolated /\ isolated \subseteq Op

TypesInv == DocumentsTyped /\ BooksTyped /\ StoresTyped /\ OpsTyped

AcctOf(r) == IF r \in DOMAIN Keyed THEN Keyed[r].acct ELSE Keyed[-r].acct

DeltaOf(r) == IF r \in DOMAIN Keyed THEN Keyed[r].delta ELSE -Keyed[-r].delta

\* What command o has booked.
EntriesBy(o) == {i \in DOMAIN ledger : ledger[i].by = o}

Unsaved(i) == i > Len(saved)

AllSaved(o) == \A i \in EntriesBy(o) : ~Unsaved(i)

\* Both entries of a move are there, and both are saved or none.
HasBoth(o) ==
  \E i \in DOMAIN ledger :
    /\ i + 1 \in DOMAIN ledger
    /\ ledger[i] = Entry(tx[o].a, -tx[o].n, DebitKind(tx[o].kind), o, 0, 0)
    /\ ledger[i + 1] = Entry(tx[o].b, tx[o].m, CreditKind(tx[o].kind), o, 0, 0)
    /\ EntriesBy(o) = {i, i + 1}
    /\ i # Len(saved)

HasNone(o) == EntriesBy(o) = {}

EntryOK(i) ==
  LET e == ledger[i] IN
  /\ op[e.by].pc # "idle"
  /\ Unsaved(i) /\ Busy(e.by) => e.acct \in {op[e.by].a, op[e.by].b}
  /\ e.ref # 0 => /\ e.ref \in Ref /\ e.acct = AcctOf(e.ref) /\ e.delta = DeltaOf(e.ref)
                  /\ receipt[e.ref] # "none"
                  /\ \A j \in DOMAIN ledger : ledger[j].ref = e.ref => j = i

\* An entry that no crash loses.
Durable(r) ==
  \E i \in DOMAIN ledger : ledger[i].ref = r /\ (~Unsaved(i) \/ ~Busy(ledger[i].by))

ConfirmedOK(r) == receipt[r] = "confirmed" => Durable(r)

Untouched(t) == Bal(t.a) = t.a0 /\ Bal(t.b) = t.b0

TxOK(o) ==
  LET t == tx[o] IN
  /\ op[o].pc = "idle" => t = NoTx
  /\ t = NoTx => txSaved[o] = NoTx
  /\ t # NoTx =>
       /\ t.a # t.b
       /\ HasBoth(o) \/ HasNone(o)
       /\ t.state = "committed" => HasBoth(o) /\ AllSaved(o)
       /\ t.state \in {"failed", "compensated"} => HasNone(o)
       /\ \/ txSaved[o] \in {NoTx, t}
          \/ Unresolved(txSaved[o]) /\ t = [txSaved[o] EXCEPT !.state = t.state]

MovePcs == {"journal", "debit", "exchange", "credit", "rollback", "book", "close tx"}

MoveOK(o) ==
  LET e == op[o]
      t == tx[o]
  IN Busy(o) /\ e.kind \in Moves =>
       /\ t # NoTx /\ t.kind = e.kind /\ t.a = e.a /\ t.b = e.b /\ t.n = e.n /\ t.m = e.m
       /\ Native(t.a) /\ Native(t.b)
       /\ e.pc \in MovePcs
       /\ e.pc # "journal" => txSaved[o] # NoTx
       /\ e.pc \in {"journal", "debit", "exchange"} =>
            t.state = "committing" /\ Untouched(t) /\ t.n <= t.a0 /\ HasNone(o)
       /\ e.pc \in {"credit", "rollback"} =>
            t.state = "committing" /\ Debited(t) /\ Bal(t.b) = t.b0 /\ HasNone(o)
       /\ e.pc = "book" => t.state = "committing" /\ Debited(t) /\ Credited(t) /\ HasBoth(o)
       /\ e.pc = "close tx" =>
            \/ t.state = "committed" /\ Debited(t) /\ Credited(t)
            \/ t.state = "failed" /\ Untouched(t)
            \/ t.state = "needs-recovery" /\ Debited(t) /\ Bal(t.b) = t.b0 /\ HasNone(o)

KeyedKinds == {"keyed", "undo"}

KeyedOK(o) ==
  LET e == op[o]
  IN Busy(o) /\ e.kind \in KeyedKinds =>
       /\ e.ref \in Ref /\ e.a = AcctOf(e.ref) /\ e.b = e.a /\ e.n = DeltaOf(e.ref) /\ Native(e.a)
       /\ e.kind = "keyed" => /\ e.ref \in DOMAIN Keyed
                              /\ \A i, j \in EntriesBy(o) : i = j
                              /\ \A i \in EntriesBy(o) : ledger[i].ref # 0
       /\ e.pc \in {"apply", "book", "confirm", "undo"}
       /\ e.pc = "undo" => e.kind = "keyed"
       /\ e.pc = "apply" => receipt[e.ref] = "none" /\ (e.kind = "keyed" => HasNone(o))
       /\ e.pc = "book" => RefEntries(e.ref) # {}
       /\ e.pc = "confirm" => Durable(e.ref)
       /\ e.pc \in {"confirm", "undo"} => AllSaved(o)

PlainPcs == {"apply", "book", "confirm", "undo", "open", "shut", "keep", "spend",
             "refund", "restore", "reverse"}

PlainOK(o) ==
  LET e == op[o]
  IN Busy(o) /\ e.kind \notin Moves =>
       /\ e.pc \in PlainPcs
       /\ e.pc \in {"confirm", "undo"} => e.kind \in KeyedKinds
       /\ tx[o] = NoTx
       /\ e.pc = "apply" => Native(e.a) /\ Bal(e.a) + e.n >= 0
       /\ e.pc = "apply" /\ e.kind \notin KeyedKinds => e.ref = 0
       /\ e.pc = "open" => account[e.a].status = "none" /\ e.n >= 0
       /\ e.pc = "shut" => Bal(e.a) = 0
       /\ e.pc = "spend" => e.n <= Bal(e.a)
       /\ e.pc = "spend" \/ e.kind \in {"consume", "refund"} => Native(e.a) /\ e.n >= 0
       /\ e.pc = "refund" => e.kind = "consume"
       /\ e.pc = "reverse" =>
            /\ Native(e.a) /\ Bal(e.a) + e.n >= 0
            /\ e.ref \in DOMAIN ledger /\ ledger[e.ref].kind # "reversal"

IsolatedOK(o) ==
  LET t == tx[o]
  IN o \in isolated =>
       /\ t # NoTx /\ ~Busy(o) /\ txSaved[o] # NoTx
       /\ t.state \in {"needs-recovery", "compensating", "compensated"}
       /\ HasBoth(o) => t.state = "needs-recovery" /\ Debited(t) /\ Credited(t)
       /\ Bal(t.a) \in {t.a0, t.a0 - t.n} /\ Bal(t.b) \in {t.b0, t.b0 + t.m}
       /\ t.state = "compensated" => Untouched(t)
       /\ Native(t.a) /\ Native(t.b)
       /\ o \notin todo => t.state = "needs-recovery"

OpOK(o) == TxOK(o) /\ MoveOK(o) /\ KeyedOK(o) /\ PlainOK(o) /\ IsolatedOK(o)

\* The keys of a command, or of a transaction under recovery.
HeldBy(o) ==
  IF o \in isolated THEN Domains(tx[o]) ELSE IF Busy(o) THEN Domains(op[o]) ELSE {}

Exclusive ==
  /\ \A o \in Op : Busy(o) => op[o].a \in Acct /\ op[o].b \in Acct
  /\ \A o, p \in Op : o # p => HeldBy(o) \cap HeldBy(p) = {}

AtRest ==
  /\ \A a \in Acct : ~Native(a) => Bal(a) = 0
  /\ todo # {} => saved = ledger /\ \A o \in Op : ~Busy(o)

\* A keyed adjustment was written and its entry is lost.
Orphan(r) == receipt[r] # "none" /\ RefEntries(r) = {}

OrphanAt(r, a) == IF AcctOf(r) = a /\ Orphan(r) THEN DeltaOf(r) ELSE 0

Orphaned(a) == SumFunction([r \in Ref |-> OrphanAt(r, a)])

Side(t, a, x, y) == IF a = t.a THEN x ELSE IF a = t.b THEN y ELSE 0

\* What the move of o has written to a and not booked.
Pending(o, a) ==
  LET t == tx[o]
  IN IF o \in isolated
     THEN IF Unresolved(t) /\ HasNone(o)
          THEN Side(t, a, Bal(a) - t.a0, Bal(a) - t.b0) ELSE 0
     ELSE IF op[o].pc \in {"credit", "rollback"} \/ t.state = "needs-recovery"
          THEN Side(t, a, -t.n, 0) ELSE 0

AllPending(a) == SumFunction([o \in Op |-> Pending(o, a)])

BooksOK(a) == Bal(a) = Base(a) + Sum(a) + Orphaned(a) + AllPending(a)

IInv ==
  /\ TypesInv
  /\ \A i \in DOMAIN ledger : EntryOK(i)
  /\ \A r \in Ref : ConfirmedOK(r)
  /\ \A o \in Op : OpOK(o)
  /\ Exclusive
  /\ AtRest
  /\ \A a \in Acct : BooksOK(a)

\* Nothing of what section 13 of the README lists happens: no account is opened
\* over a closed one, no reversal is reversed, the client crashes only during
\* moves and keyed adjustments and only when nothing is left of others.
Survivable ==
  /\ Reopening = {} /\ "reversal" \notin Reversible
  /\ ~StrayCrash /\ CrashSafe \subseteq {"transfer", "convert", "keyed"}

----------------------------------------------------------------------------
\* What a step of command o within the accounts X does to the rest.

TxWithin(o, X) == tx[o] # NoTx => tx[o].a \in X /\ tx[o].b \in X

Grows(o, X) ==
  /\ Len(ledger) <= Len(ledger')
  /\ \A i \in DOMAIN ledger : ledger'[i] = ledger[i]
  /\ \A i \in DOMAIN ledger' \ DOMAIN ledger :
       ledger'[i].by = o /\ ledger'[i].acct \in X
  /\ saved' \in {saved, ledger, ledger'}

Apart(o, X) ==
  \A p \in Op \ {o} :
    /\ op'[p] = op[p] /\ tx'[p] = tx[p] /\ txSaved'[p] \in {txSaved[p], tx[p]}
    /\ p \in isolated' <=> p \in isolated
    /\ p \in todo' <=> p \in todo
    /\ \A x \in X : x[1] \notin HeldBy(p)

Frame(o, X) ==
  /\ X \subseteq Acct
  /\ Grows(o, X) /\ Apart(o, X)
  /\ TxWithin(o, X) /\ TxWithin(o, X)'
  /\ op'[o].pc # "idle"
  /\ Busy(o)' => op[o].pc = "idle" \/ (Busy(o) /\ op'[o].a = op[o].a /\ op'[o].b = op[o].b)
  /\ \A a \in Acct \ X : account'[a] = account[a]
  /\ \A r \in Ref : receipt'[r] = receipt[r] \/ (AcctOf(r) \in X /\ receipt'[r] # "none")

\* What is left to show of it.
Own(o, X) ==
  /\ TypesInv' /\ OpOK(o)'
  /\ \A i \in DOMAIN ledger' \ DOMAIN ledger : EntryOK(i)'
  /\ \A r \in Ref : receipt'[r] # receipt[r] => ConfirmedOK(r)'
  /\ \A x \in X : BooksOK(x)' /\ (account'[x].status = "none" => account'[x].bal = 0)
  /\ Busy(o)' => op'[o].a \in X /\ op'[o].b \in X
  /\ o \in isolated' => tx'[o].a \in X /\ tx'[o].b \in X
  /\ todo' # {} => saved' = ledger' /\ \A p \in Op : ~Busy(p)'

----------------------------------------------------------------------------
\* A step of one command leaves the others alone.

\* Positions of the ledger and of its snapshot.
LEMMA LedgerDomain ==
  ASSUME TypesInv
  PROVE  DOMAIN ledger = 1 .. Len(ledger) /\ DOMAIN saved = 1 .. Len(saved)
         /\ Len(ledger) \in Nat /\ Len(saved) \in Nat
         /\ (\A i \in DOMAIN ledger : ledger[i] \in EntryType)
BY DEF TypesInv, BooksTyped

\* A step that appends leaves every position where it was.
LEMMA SavedGrows ==
  ASSUME TypesInv, TypesInv', NEW o \in Op, NEW X, Grows(o, X)
  PROVE  /\ Len(saved) <= Len(saved')
         /\ DOMAIN ledger \subseteq DOMAIN ledger'
         /\ \A i \in DOMAIN ledger : Unsaved(i)' => Unsaved(i)
<1>1. /\ DOMAIN ledger = 1 .. Len(ledger) /\ Len(ledger) \in Nat /\ Len(saved) \in Nat
  BY LedgerDomain
<1>2. (DOMAIN ledger = 1 .. Len(ledger) /\ Len(ledger) \in Nat /\ Len(saved) \in Nat)'
  BY LedgerDomain
<1>3. Len(saved) <= Len(ledger)
  BY DEF TypesInv, BooksTyped
<1>. QED
  BY <1>1, <1>2, <1>3 DEF Grows, Unsaved

\* The entries of another command stay what they are.
LEMMA OthersEntries ==
  ASSUME TypesInv, TypesInv', NEW o \in Op, NEW X, Grows(o, X), NEW p \in Op \ {o}
  PROVE  EntriesBy(p)' = EntriesBy(p)
<1>1. DOMAIN ledger \subseteq DOMAIN ledger'
  BY SavedGrows
<1>. QED
  BY <1>1 DEF EntriesBy, Grows

\* ... so what is booked for the move of another command stays booked.
LEMMA OthersMove ==
  ASSUME TypesInv, TypesInv', NEW o \in Op, NEW X, Grows(o, X), NEW p \in Op \ {o},
         tx'[p] = tx[p]
  PROVE  /\ HasBoth(p) => HasBoth(p)'
         /\ HasNone(p)' <=> HasNone(p)
         /\ AllSaved(p) => AllSaved(p)'
<1>1. EntriesBy(p)' = EntriesBy(p)
  BY OthersEntries
<1>2. /\ Len(saved) <= Len(saved')
      /\ DOMAIN ledger \subseteq DOMAIN ledger'
      /\ \A i \in DOMAIN ledger : Unsaved(i)' => Unsaved(i)
  BY SavedGrows
<1>3. DOMAIN ledger = 1 .. Len(ledger) /\ Len(ledger) \in Nat
  BY LedgerDomain
<1>4. DOMAIN ledger' = 1 .. Len(ledger') /\ Len(ledger') \in Nat
  BY LedgerDomain
<1>5. ASSUME HasBoth(p) PROVE HasBoth(p)'
  <2>1. PICK i \in DOMAIN ledger :
          /\ i + 1 \in DOMAIN ledger
          /\ ledger[i] = Entry(tx[p].a, -tx[p].n, DebitKind(tx[p].kind), p, 0, 0)
          /\ ledger[i + 1] = Entry(tx[p].b, tx[p].m, CreditKind(tx[p].kind), p, 0, 0)
          /\ EntriesBy(p) = {i, i + 1}
          /\ i # Len(saved)
    BY <1>5 DEF HasBoth
  <2>2. ledger'[i] = ledger[i] /\ ledger'[i + 1] = ledger[i + 1]
    BY <2>1 DEF Grows
  <2>3. i # Len(saved')
    <3>1. CASE saved' = saved
      BY <3>1, <2>1
    <3>2. CASE saved' = ledger
      BY <3>2, <2>1, <1>3
    <3>3. CASE saved' = ledger'
      <4>1. i + 1 \in DOMAIN ledger'
        BY <2>1, <1>2
      <4>. QED
        BY <4>1, <3>3, <1>4
    <3>. QED
      BY <3>1, <3>2, <3>3 DEF Grows
  <2>4. /\ i \in DOMAIN ledger' /\ i + 1 \in DOMAIN ledger'
        /\ ledger'[i] = Entry(tx'[p].a, -tx'[p].n, DebitKind(tx'[p].kind), p, 0, 0)
        /\ ledger'[i + 1] = Entry(tx'[p].b, tx'[p].m, CreditKind(tx'[p].kind), p, 0, 0)
        /\ EntriesBy(p)' = {i, i + 1}
        /\ i # Len(saved')
    BY <2>1, <2>2, <2>3, <1>1, <1>2
  <2>. QED
    BY <2>4 DEF HasBoth, DebitKind, CreditKind, Entry
<1>6. HasNone(p)' <=> HasNone(p)
  BY <1>1 DEF HasNone
<1>7. AllSaved(p) => AllSaved(p)'
  <2>1. EntriesBy(p) \subseteq DOMAIN ledger
    BY DEF EntriesBy
  <2>. QED
    BY <1>1, <1>2, <2>1 DEF AllSaved
<1>. QED
  BY <1>5, <1>6, <1>7

\* No step of one command gives another one its accounts.
LEMMA BusyStays ==
  ASSUME NEW o \in Op, NEW X, Apart(o, X), TypesInv,
         op'[o].pc # "idle",
         Busy(o)' => op[o].pc = "idle" \/ (Busy(o) /\ op'[o].a = op[o].a /\ op'[o].b = op[o].b),
         NEW p \in Op, op[p].pc # "idle"
  PROVE  /\ op'[p].pc # "idle"
         /\ Busy(p)' => Busy(p) /\ op'[p].a = op[p].a /\ op'[p].b = op[p].b
<1>1. CASE p = o
  BY <1>1
<1>2. CASE p # o
  BY <1>2 DEF Apart, Busy
<1>. QED
  BY <1>1, <1>2

\* What holds of the entries before a step holds after it.
LEMMA OldEntries ==
  ASSUME IInv, TypesInv', NEW o \in Op, NEW X, Frame(o, X),
         \A j \in DOMAIN ledger' \ DOMAIN ledger : EntryOK(j)',
         NEW i \in DOMAIN ledger
  PROVE  EntryOK(i)'
<1>0. PICK e : e = ledger[i]
  OBVIOUS
<1>1. TypesInv /\ EntryOK(i) /\ \A j \in DOMAIN ledger : EntryOK(j)
  BY DEF IInv
<1>2. Grows(o, X) /\ Apart(o, X) /\ ledger'[i] = e
  BY <1>0 DEF Frame, Grows
<1>3. /\ DOMAIN ledger \subseteq DOMAIN ledger'
      /\ \A j \in DOMAIN ledger : Unsaved(j)' => Unsaved(j)
  BY <1>1, <1>2, SavedGrows
<1>4. e.by \in Op /\ op[e.by].pc # "idle"
  BY <1>0, <1>1, LedgerDomain DEF EntryOK, EntryType
<1>5. /\ op'[e.by].pc # "idle"
      /\ Busy(e.by)' => Busy(e.by) /\ op'[e.by].a = op[e.by].a /\ op'[e.by].b = op[e.by].b
  BY <1>1, <1>2, <1>4, BusyStays DEF Frame
<1>6. Unsaved(i)' /\ Busy(e.by)' => e.acct \in {op'[e.by].a, op'[e.by].b}
  BY <1>0, <1>1, <1>3, <1>5 DEF EntryOK
<1>7. ASSUME e.ref # 0
      PROVE  /\ e.ref \in Ref /\ e.acct = AcctOf(e.ref) /\ e.delta = DeltaOf(e.ref)
             /\ receipt'[e.ref] # "none"
             /\ \A j \in DOMAIN ledger' : ledger'[j].ref = e.ref => j = i
  <2>1. /\ e.ref \in Ref /\ e.acct = AcctOf(e.ref) /\ e.delta = DeltaOf(e.ref)
        /\ receipt[e.ref] # "none"
        /\ \A j \in DOMAIN ledger : ledger[j].ref = e.ref => j = i
    BY <1>0, <1>1, <1>7 DEF EntryOK
  <2>2. receipt'[e.ref] # "none"
    BY <2>1 DEF Frame
  <2>3. ASSUME NEW j \in DOMAIN ledger', ledger'[j].ref = e.ref PROVE j = i
    <3>1. CASE j \in DOMAIN ledger
      BY <3>1, <2>1, <2>3, <1>0, <1>2 DEF Grows
    <3>2. CASE j \notin DOMAIN ledger
      <4>1. EntryOK(j)'
        BY <3>2
      <4>2. \A k \in DOMAIN ledger' : ledger'[k].ref = e.ref => k = j
        BY <4>1, <2>3, <1>7 DEF EntryOK
      <4>. QED
        BY <4>2, <1>2, <1>3
    <3>. QED
      BY <3>1, <3>2
  <2>. QED
    BY <2>1, <2>2, <2>3
<1>. QED
  BY <1>2, <1>5, <1>6, <1>7 DEF EntryOK, Busy, Unsaved

\* An entry that no crash loses is not lost by a step of a command.
LEMMA DurableStays ==
  ASSUME IInv, TypesInv', NEW o \in Op, NEW X, Frame(o, X), NEW r, Durable(r)
  PROVE  Durable(r)'
<1>1. PICK i \in DOMAIN ledger : ledger[i].ref = r /\ (~Unsaved(i) \/ ~Busy(ledger[i].by))
  BY DEF Durable
<1>2. TypesInv /\ EntryOK(i) /\ Grows(o, X) /\ Apart(o, X)
  BY DEF IInv, Frame
<1>3. ledger'[i] = ledger[i]
  BY <1>2 DEF Grows
<1>4. ledger[i].by \in Op /\ op[ledger[i].by].pc # "idle"
  BY <1>2, LedgerDomain DEF EntryOK, EntryType
<1>p. PICK p \in Op : p = ledger[i].by
  BY <1>4
<1>5. Busy(p)' => Busy(p)
  <2>1. op[p].pc # "idle"
    BY <1>4, <1>p
  <2>. QED
    BY <1>2, <2>1, BusyStays DEF Frame
<1>6. i \in DOMAIN ledger' /\ (Unsaved(i)' => Unsaved(i))
  BY <1>2, SavedGrows
<1>. QED
  BY <1>1, <1>3, <1>5, <1>6, <1>p DEF Durable, Busy, Unsaved

\* The entries of a key stay.
LEMMA RefsGrow ==
  ASSUME TypesInv, TypesInv', NEW o \in Op, NEW X, Grows(o, X), NEW r
  PROVE  RefEntries(r) \subseteq RefEntries(r)'
BY SavedGrows DEF RefEntries, Grows

\* A key and its compensation: one account, opposite amounts.
LEMMA RefAccounts ==
  /\ \A r \in Ref : AcctOf(r) \in Acct /\ DeltaOf(r) \in Int \ {0}
  /\ Ref \subseteq Int
  /\ \A k \in DOMAIN Keyed : /\ k \in Ref /\ -k \in Ref /\ -k \notin DOMAIN Keyed
                             /\ AcctOf(-k) = AcctOf(k) /\ DeltaOf(-k) = -DeltaOf(k)
                             /\ AcctOf(k) = Keyed[k].acct /\ DeltaOf(k) = Keyed[k].delta
<1>1. \A k \in DOMAIN Keyed : /\ k \in Nat \ {0} /\ Keyed[k].acct \in Acct
                              /\ Keyed[k].delta \in Int \ {0}
  BY EconomyAssumption
<1>2. Ref \subseteq Int
  BY <1>1 DEF Ref
<1>3. \A k \in DOMAIN Keyed : k \in Ref /\ -k \in Ref /\ -k \notin DOMAIN Keyed /\ -(-k) = k
  BY <1>1 DEF Ref
<1>4. \A k \in DOMAIN Keyed : /\ AcctOf(-k) = AcctOf(k) /\ DeltaOf(-k) = -DeltaOf(k)
                              /\ AcctOf(k) = Keyed[k].acct /\ DeltaOf(k) = Keyed[k].delta
  BY <1>3 DEF AcctOf, DeltaOf
<1>5. \A r \in Ref : AcctOf(r) \in Acct /\ DeltaOf(r) \in Int \ {0}
  <2>1. ASSUME NEW r \in Ref PROVE AcctOf(r) \in Acct /\ DeltaOf(r) \in Int \ {0}
    <3>1. PICK k \in DOMAIN Keyed : r = k \/ r = -k
      BY DEF Ref
    <3>. QED
      BY <3>1, <1>1, <1>4
  <2>. QED
    BY <2>1
<1>. QED
  BY <1>2, <1>3, <1>4, <1>5

\* The accounts of another command, or transaction under recovery.
LEMMA OthersAccounts ==
  ASSUME IInv, NEW o \in Op, NEW X, Frame(o, X), NEW p \in Op \ {o}
  PROVE  /\ Busy(p) => /\ op[p].a \notin X /\ op[p].b \notin X
                       /\ account'[op[p].a] = account[op[p].a]
                       /\ account'[op[p].b] = account[op[p].b]
         /\ p \in isolated => /\ tx[p].a \notin X /\ tx[p].b \notin X
                              /\ account'[tx[p].a] = account[tx[p].a]
                              /\ account'[tx[p].b] = account[tx[p].b]
<1>1. \A x \in X : x[1] \notin HeldBy(p)
  BY DEF Frame, Apart
<1>2. IsolatedOK(p) /\ Exclusive /\ tx \in [Op -> TxType]
  BY DEF IInv, OpOK, TypesInv, StoresTyped
<1>3. \A a \in Acct \ X : account'[a] = account[a]
  BY DEF Frame
<1>4. ASSUME Busy(p) PROVE op[p].a \in Acct \ X /\ op[p].b \in Acct \ X
  <2>1. HeldBy(p) = {op[p].a[1], op[p].b[1]}
    BY <1>2, <1>4 DEF HeldBy, IsolatedOK, Domains
  <2>. QED
    BY <2>1, <1>1, <1>2, <1>4 DEF Exclusive
<1>5. ASSUME p \in isolated PROVE tx[p].a \in Acct \ X /\ tx[p].b \in Acct \ X
  <2>1. HeldBy(p) = {tx[p].a[1], tx[p].b[1]}
    BY <1>5 DEF HeldBy, Domains
  <2>2. tx[p] # NoTx
    BY <1>2, <1>5 DEF IsolatedOK
  <2>3. tx[p].a \in Acct /\ tx[p].b \in Acct
    BY <1>2, <2>2 DEF TxType
  <2>. QED
    BY <2>1, <2>3, <1>1
<1>. QED
  BY <1>3, <1>4, <1>5

\* The transaction of another command stays as it is.
LEMMA OthersTx ==
  ASSUME IInv, TypesInv', NEW o \in Op, NEW X, Frame(o, X), NEW p \in Op \ {o}
  PROVE  TxOK(p)'
<1>1. TxOK(p) /\ TypesInv /\ Grows(o, X)
  BY DEF IInv, OpOK, Frame
<1>2. op'[p] = op[p] /\ tx'[p] = tx[p] /\ txSaved'[p] \in {txSaved[p], tx[p]}
  BY DEF Frame, Apart
<1>3. /\ HasBoth(p) => HasBoth(p)'
      /\ HasNone(p)' <=> HasNone(p)
      /\ AllSaved(p) => AllSaved(p)'
  BY <1>1, <1>2, OthersMove
<1>. QED
  BY <1>1, <1>2, <1>3 DEF TxOK, Unresolved

\* ... and so does its move,
LEMMA OthersMoveOK ==
  ASSUME IInv, TypesInv', NEW o \in Op, NEW X, Frame(o, X), NEW p \in Op \ {o}
  PROVE  MoveOK(p)'
<1>1. MoveOK(p) /\ TypesInv /\ Grows(o, X)
  BY DEF IInv, OpOK, Frame
<1>2. op'[p] = op[p] /\ tx'[p] = tx[p] /\ txSaved'[p] \in {txSaved[p], tx[p]}
  BY DEF Frame, Apart
<1>3. /\ HasBoth(p) => HasBoth(p)'
      /\ HasNone(p)' <=> HasNone(p)
  BY <1>1, <1>2, OthersMove
<1>4. Busy(p)' = Busy(p)
  BY <1>2 DEF Busy
<1>5. Busy(p) => account'[op[p].a] = account[op[p].a] /\ account'[op[p].b] = account[op[p].b]
  BY OthersAccounts
<1>6. ASSUME Busy(p), op[p].kind \in Moves
      PROVE  account'[tx[p].a] = account[tx[p].a] /\ account'[tx[p].b] = account[tx[p].b]
  BY <1>1, <1>5, <1>6 DEF MoveOK
<1>. QED
  BY <1>1, <1>2, <1>3, <1>4, <1>6
     DEF MoveOK, Untouched, Debited, Credited, Native, Bal

\* its keyed adjustment,
LEMMA OthersKeyed ==
  ASSUME IInv, TypesInv', NEW o \in Op, NEW X, Frame(o, X), NEW p \in Op \ {o}
  PROVE  KeyedOK(p)'
<1>1. KeyedOK(p) /\ TypesInv /\ Grows(o, X)
  BY DEF IInv, OpOK, Frame
<1>2. op'[p] = op[p] /\ tx'[p] = tx[p]
  BY DEF Frame, Apart
<1>3. /\ HasNone(p)' <=> HasNone(p)
      /\ AllSaved(p) => AllSaved(p)'
  BY <1>1, <1>2, OthersMove
<1>4. Busy(p)' = Busy(p)
  BY <1>2 DEF Busy
<1>5. EntriesBy(p)' = EntriesBy(p) /\ EntriesBy(p) \subseteq DOMAIN ledger
  BY <1>1, OthersEntries DEF EntriesBy
<1>6. \A i \in EntriesBy(p) : ledger'[i] = ledger[i]
  BY <1>1, <1>5 DEF Grows
<1>7. ASSUME Busy(p), op[p].kind \in KeyedKinds
      PROVE  /\ account'[op[p].a] = account[op[p].a]
             /\ receipt'[op[p].ref] = receipt[op[p].ref]
  <2>1. op[p].a \notin X /\ account'[op[p].a] = account[op[p].a]
    BY <1>7, OthersAccounts
  <2>2. op[p].ref \in Ref /\ op[p].a = AcctOf(op[p].ref)
    BY <1>1, <1>7 DEF KeyedOK
  <2>. QED
    BY <2>1, <2>2 DEF Frame
<1>8. RefEntries(op[p].ref) \subseteq RefEntries(op[p].ref)'
  BY <1>1, <1>2, RefsGrow DEF RefEntries
<1>9. Durable(op[p].ref) => Durable(op[p].ref)'
  <2>1. PICK r : r = op[p].ref
    OBVIOUS
  <2>2. Durable(r) => Durable(r)'
    BY DurableStays
  <2>. QED
    BY <2>1, <2>2, <1>2 DEF Durable
<1>. QED
  BY <1>1, <1>2, <1>3, <1>4, <1>5, <1>6, <1>7, <1>8, <1>9 DEF KeyedOK, Native

\* its plain command,
LEMMA OthersPlain ==
  ASSUME IInv, TypesInv', NEW o \in Op, NEW X, Frame(o, X), NEW p \in Op \ {o}
  PROVE  PlainOK(p)'
<1>1. PlainOK(p) /\ TypesInv /\ Grows(o, X)
  BY DEF IInv, OpOK, Frame
<1>2. op'[p] = op[p] /\ tx'[p] = tx[p]
  BY DEF Frame, Apart
<1>4. Busy(p)' = Busy(p)
  BY <1>2 DEF Busy
<1>5. Busy(p) => account'[op[p].a] = account[op[p].a]
  BY OthersAccounts
<1>6. DOMAIN ledger \subseteq DOMAIN ledger' /\ \A i \in DOMAIN ledger : ledger'[i] = ledger[i]
  BY <1>1, SavedGrows DEF Grows
<1>. QED
  BY <1>1, <1>2, <1>4, <1>5, <1>6 DEF PlainOK, Native, Bal

\* and what recovery holds.
LEMMA OthersIsolated ==
  ASSUME IInv, TypesInv', NEW o \in Op, NEW X, Frame(o, X), NEW p \in Op \ {o}
  PROVE  IsolatedOK(p)'
<1>1. IsolatedOK(p) /\ TypesInv /\ Grows(o, X) /\ TxOK(p)
  BY DEF IInv, OpOK, Frame
<1>2. /\ op'[p] = op[p] /\ tx'[p] = tx[p] /\ txSaved'[p] \in {txSaved[p], tx[p]}
      /\ p \in isolated' <=> p \in isolated
      /\ p \in todo' <=> p \in todo
  BY DEF Frame, Apart
<1>3. tx[p] # NoTx /\ HasBoth(p)' => HasBoth(p)
  <2>1. HasBoth(p)' => EntriesBy(p)' # {}
    BY DEF HasBoth
  <2>2. EntriesBy(p)' = EntriesBy(p)
    BY <1>1, OthersEntries
  <2>3. HasBoth(p)' => ~HasNone(p)
    BY <2>1, <2>2 DEF HasNone
  <2>. QED
    BY <2>3, <1>1 DEF TxOK
<1>4. p \in isolated => account'[tx[p].a] = account[tx[p].a] /\ account'[tx[p].b] = account[tx[p].b]
  BY OthersAccounts
<1>5. Busy(p)' = Busy(p)
  BY <1>2 DEF Busy
<1>. QED
  BY <1>1, <1>2, <1>3, <1>4, <1>5 DEF IsolatedOK, Native, Bal, Debited, Credited, Untouched

\* What another command has pending does not change.
LEMMA OthersPending ==
  ASSUME IInv, TypesInv', NEW o \in Op, NEW X, Frame(o, X), NEW p \in Op \ {o}, NEW x
  PROVE  Pending(p, x)' = Pending(p, x)
<1>1. TypesInv /\ Grows(o, X)
  BY DEF IInv, Frame
<1>2. /\ op'[p] = op[p] /\ tx'[p] = tx[p]
      /\ p \in isolated' <=> p \in isolated
  BY DEF Frame, Apart
<1>3. HasNone(p)' <=> HasNone(p)
  BY <1>1, <1>2, OthersMove
<1>4. p \in isolated => account'[tx[p].a] = account[tx[p].a] /\ account'[tx[p].b] = account[tx[p].b]
  BY OthersAccounts
<1>. QED
  BY <1>2, <1>3, <1>4 DEF Pending, Side, Bal, Unresolved

\* Away from its accounts a command and its transaction write nothing.
LEMMA NothingPending ==
  ASSUME NEW o \in Op, NEW X, TxWithin(o, X), MoveOK(o), PlainOK(o),
         o \in isolated => tx[o] # NoTx,
         NEW a, a \notin X
  PROVE  Pending(o, a) = 0
<1>1. CASE tx[o] = NoTx
  <2>1. tx[o].state = "none" /\ o \notin isolated
    BY <1>1 DEF NoTx
  <2>2. op[o].pc \notin {"credit", "rollback"}
    BY <1>1 DEF MoveOK, PlainOK, Busy, PlainPcs
  <2>. QED
    BY <2>1, <2>2 DEF Pending
<1>2. CASE tx[o] # NoTx
  <2>1. tx[o].a # a /\ tx[o].b # a
    BY <1>2 DEF TxWithin
  <2>. QED
    BY <2>1 DEF Pending, Side
<1>. QED
  BY <1>1, <1>2

\* A command changes what is pending on its own accounts only,
LEMMA PendingOutside ==
  ASSUME IInv, TypesInv', NEW o \in Op, NEW X, Frame(o, X), OpOK(o)',
         NEW a, a \notin X
  PROVE  AllPending(a)' = AllPending(a)
<1>1. Pending(o, a) = 0
  <2>1. OpOK(o) /\ TxWithin(o, X)
    BY DEF IInv, Frame
  <2>. QED
    BY <2>1, NothingPending DEF OpOK, IsolatedOK
<1>2. Pending(o, a)' = 0
  <2>1. OpOK(o)' /\ TxWithin(o, X)'
    BY DEF Frame
  <2>2. TxWithin(o, X)' /\ MoveOK(o)' /\ PlainOK(o)' /\ (o \in isolated => tx[o] # NoTx)'
    BY <2>1 DEF OpOK, IsolatedOK
  <2>3. (tx[o] = NoTx)' => Pending(o, a)' = 0
    <3>1. ASSUME tx'[o] = NoTx PROVE Pending(o, a)' = 0
      <4>1. tx'[o].state = "none" /\ o \notin isolated'
        BY <3>1, <2>2 DEF NoTx
      <4>2. op'[o].pc \notin {"credit", "rollback"}
        BY <3>1, <2>2 DEF MoveOK, PlainOK, Busy, PlainPcs
      <4>. QED
        BY <4>1, <4>2 DEF Pending
    <3>. QED
      BY <3>1
  <2>4. ASSUME tx'[o] # NoTx PROVE Pending(o, a)' = 0
    <3>1. tx'[o].a # a /\ tx'[o].b # a
      BY <2>2, <2>4 DEF TxWithin
    <3>. QED
      BY <3>1 DEF Pending, Side
  <2>. QED
    BY <2>3, <2>4
<1>3. \A p \in Op : Pending(p, a)' = Pending(p, a)
  <2>1. ASSUME NEW p \in Op PROVE Pending(p, a)' = Pending(p, a)
    <3>1. CASE p = o
      BY <3>1, <1>1, <1>2
    <3>2. CASE p # o
      BY <3>2, OthersPending
    <3>. QED
      BY <3>1, <3>2
  <2>. QED
    BY <2>1
<1>4. [p \in Op |-> Pending(p, a)'] = [p \in Op |-> Pending(p, a)]
  BY <1>3
<1>. QED
  BY <1>4 DEF AllPending

\* the sums of their entries only,
LEMMA SumOutside ==
  ASSUME TypesInv, TypesInv', NEW o \in Op, NEW X, Grows(o, X), NEW a, a \notin X
  PROVE  Sum(a)' = Sum(a)
<1>. DEFINE I == {i \in DOMAIN ledger : ledger[i].acct = a}
            J == {i \in DOMAIN ledger' : ledger'[i].acct = a}
<1>1. DOMAIN ledger \subseteq DOMAIN ledger'
  BY SavedGrows
<1>2. I = J
  BY <1>1 DEF Grows
<1>3. [i \in J |-> ledger'[i].delta] = [i \in I |-> ledger[i].delta]
  BY <1>2 DEF Grows
<1>. QED
  BY <1>3 DEF Sum, Net

\* and the orphans of their keys only,
LEMMA OrphansOutside ==
  ASSUME IInv, TypesInv', NEW o \in Op, NEW X, Frame(o, X),
         \A j \in DOMAIN ledger' \ DOMAIN ledger : EntryOK(j)',
         NEW a, a \notin X
  PROVE  Orphaned(a)' = Orphaned(a)
<1>1. TypesInv /\ Grows(o, X)
  BY DEF IInv, Frame
<1>2. ASSUME NEW r \in Ref PROVE OrphanAt(r, a)' = OrphanAt(r, a)
  <2>1. CASE AcctOf(r) # a
    BY <2>1 DEF OrphanAt
  <2>2. CASE AcctOf(r) = a
    <3>1. receipt'[r] = receipt[r]
      BY <2>2 DEF Frame
    <3>2. RefEntries(r) \subseteq RefEntries(r)'
      BY <1>1, RefsGrow
    <3>3. RefEntries(r)' \subseteq RefEntries(r)
      <4>1. ASSUME NEW j \in RefEntries(r)' PROVE j \in RefEntries(r)
        <5>1. j \in DOMAIN ledger' /\ ledger'[j].ref = r /\ r # 0
          BY <4>1 DEF RefEntries
        <5>2. CASE j \in DOMAIN ledger
          BY <5>1, <5>2, <1>1 DEF RefEntries, Grows
        <5>3. CASE j \notin DOMAIN ledger
          <6>1. EntryOK(j)' /\ ledger'[j].acct \in X
            BY <5>1, <5>3, <1>1 DEF Grows
          <6>2. ledger'[j].acct = AcctOf(r)
            BY <6>1, <5>1 DEF EntryOK
          <6>. QED
            BY <6>1, <6>2, <2>2
        <5>. QED
          BY <5>2, <5>3
      <4>. QED
        BY <4>1
    <3>4. RefEntries(r)' = RefEntries(r)
      BY <3>2, <3>3
    <3>. QED
      BY <3>1, <3>4 DEF OrphanAt, Orphan
  <2>. QED
    BY <2>1, <2>2
<1>3. [r \in Ref |-> OrphanAt(r, a)'] = [r \in Ref |-> OrphanAt(r, a)]
  BY <1>2
<1>. QED
  BY <1>3 DEF Orphaned

\* so the books of every other account stay balanced.
LEMMA BooksOutside ==
  ASSUME IInv, TypesInv', NEW o \in Op, NEW X, Frame(o, X), OpOK(o)',
         \A j \in DOMAIN ledger' \ DOMAIN ledger : EntryOK(j)',
         NEW a \in Acct \ X
  PROVE  BooksOK(a)'
<1>1. TypesInv /\ Grows(o, X) /\ BooksOK(a) /\ account'[a] = account[a]
  BY DEF IInv, Frame
<1>2. Sum(a)' = Sum(a)
  BY <1>1, SumOutside
<1>3. Orphaned(a)' = Orphaned(a)
  BY OrphansOutside
<1>4. AllPending(a)' = AllPending(a)
  BY PendingOutside
<1>. QED
  BY <1>1, <1>2, <1>3, <1>4 DEF BooksOK, Bal, Base

\* No two commands come to hold a Domain (LockManager).
LEMMA ExclusiveStays ==
  ASSUME IInv, TypesInv', NEW o \in Op, NEW X, Frame(o, X),
         Busy(o)' => op'[o].a \in X /\ op'[o].b \in X,
         o \in isolated' => tx'[o].a \in X /\ tx'[o].b \in X
  PROVE  Exclusive'
<1>1. Exclusive /\ X \subseteq Acct
  BY DEF IInv, Frame
<1>2. ASSUME NEW p \in Op \ {o}
      PROVE  HeldBy(p)' = HeldBy(p) /\ (Busy(p)' => Busy(p) /\ op'[p] = op[p])
  BY DEF Frame, Apart, HeldBy, Domains, Busy
<1>3. HeldBy(o)' \subseteq {x[1] : x \in X}
  BY DEF HeldBy, Domains
<1>4. \A p \in Op \ {o} : \A x \in X : x[1] \notin HeldBy(p)
  BY DEF Frame, Apart
<1>5. \A p \in Op : Busy(p)' => op'[p].a \in Acct /\ op'[p].b \in Acct
  BY <1>1, <1>2 DEF Exclusive
<1>6. ASSUME NEW p \in Op, NEW q \in Op, p # q PROVE HeldBy(p)' \cap HeldBy(q)' = {}
  <2>1. CASE p = o
    BY <2>1, <1>2, <1>3, <1>4, <1>6
  <2>2. CASE q = o
    BY <2>2, <1>2, <1>3, <1>4, <1>6
  <2>3. CASE p # o /\ q # o
    BY <2>3, <1>1, <1>2, <1>6 DEF Exclusive
  <2>. QED
    BY <2>1, <2>2, <2>3
<1>. QED
  BY <1>5, <1>6 DEF Exclusive

\* A step of a command keeps the invariant if it keeps to its accounts and
\* leaves them, and itself, in order.
LEMMA StepKeeps ==
  ASSUME IInv, NEW o \in Op, NEW X, Frame(o, X), Own(o, X)
  PROVE  IInv'
<1>1. TypesInv'
  BY DEF Own
<1>2. \A i \in DOMAIN ledger' : EntryOK(i)'
  <2>1. ASSUME NEW i \in DOMAIN ledger' PROVE EntryOK(i)'
    <3>1. CASE i \in DOMAIN ledger
      BY <1>1, <3>1, OldEntries DEF Own
    <3>2. CASE i \notin DOMAIN ledger
      BY <3>2 DEF Own
    <3>. QED
      BY <3>1, <3>2
  <2>. QED
    BY <2>1
<1>3. \A r \in Ref : ConfirmedOK(r)'
  <2>1. ASSUME NEW r \in Ref PROVE ConfirmedOK(r)'
    <3>1. CASE receipt'[r] # receipt[r]
      BY <3>1 DEF Own
    <3>2. CASE receipt'[r] = receipt[r]
      <4>1. ConfirmedOK(r)
        BY DEF IInv
      <4>2. Durable(r) => Durable(r)'
        BY <1>1, DurableStays
      <4>. QED
        BY <3>2, <4>1, <4>2 DEF ConfirmedOK
    <3>. QED
      BY <3>1, <3>2
  <2>. QED
    BY <2>1
<1>4. \A p \in Op : OpOK(p)'
  <2>1. ASSUME NEW p \in Op PROVE OpOK(p)'
    <3>1. CASE p = o
      BY <3>1 DEF Own
    <3>2. CASE p # o
      <4>1. p \in Op \ {o}
        BY <3>2
      <4>2. TxOK(p)' /\ MoveOK(p)' /\ KeyedOK(p)'
        BY <1>1, <4>1, OthersTx, OthersMoveOK, OthersKeyed
      <4>3. PlainOK(p)' /\ IsolatedOK(p)'
        BY <1>1, <4>1, OthersPlain, OthersIsolated
      <4>. QED
        BY <4>2, <4>3 DEF OpOK
    <3>. QED
      BY <3>1, <3>2
  <2>. QED
    BY <2>1
<1>5. Exclusive'
  BY <1>1, ExclusiveStays DEF Own
<1>6. AtRest'
  <2>1. ASSUME NEW a \in Acct, ~Native(a)' PROVE Bal(a)' = 0
    <3>1. CASE a \in X
      BY <3>1, <2>1 DEF Own, Native, Bal
    <3>2. CASE a \notin X
      BY <3>2, <2>1 DEF IInv, AtRest, Frame, Native, Bal
    <3>. QED
      BY <3>1, <3>2
  <2>. QED
    BY <2>1 DEF AtRest, Own
<1>7. \A a \in Acct : BooksOK(a)'
  <2>1. ASSUME NEW a \in Acct PROVE BooksOK(a)'
    <3>1. CASE a \in X
      BY <3>1 DEF Own
    <3>2. CASE a \notin X
      BY <3>2, <1>1, BooksOutside DEF Own
    <3>. QED
      BY <3>1, <3>2
  <2>. QED
    BY <2>1
<1>. QED
  BY <1>1, <1>2, <1>3, <1>4, <1>5, <1>6, <1>7 DEF IInv

----------------------------------------------------------------------------
\* Sums over the ledger, the keys and the commands.

At(b, a) == {i \in DOMAIN b : b[i].acct = a}

SumOf(b, a) == SumFunction([i \in At(b, a) |-> b[i].delta])

\* The sum of the entries of an account is a number.
LEMMA SumOfType ==
  ASSUME NEW b \in Seq(EntryType), NEW a
  PROVE  /\ [i \in At(b, a) |-> b[i].delta] \in [At(b, a) -> Int]
         /\ IsFiniteSet(At(b, a)) /\ SumOf(b, a) \in Int
<1>0. \A i \in DOMAIN b : b[i] \in EntryType
  OBVIOUS
<1>1. \A i \in DOMAIN b : b[i].delta \in Int
  BY <1>0 DEF EntryType
<1>2. [i \in At(b, a) |-> b[i].delta] \in [At(b, a) -> Int]
  BY <1>1 DEF At
<1>3. IsFiniteSet(DOMAIN b)
  <2>1. DOMAIN b = 1 .. Len(b) /\ Len(b) \in Nat
    OBVIOUS
  <2>. QED
    BY <2>1, FS_Interval
<1>4. IsFiniteSet(At(b, a))
  BY <1>3, FS_Subset DEF At
<1>. QED
  BY <1>2, <1>4, SumIs DEF SumOf

\* An appended entry adds to the sum of its account.
LEMMA SumOfAppend ==
  ASSUME NEW b \in Seq(EntryType), NEW e \in EntryType, NEW a
  PROVE  SumOf(Append(b, e), a) = SumOf(b, a) + (IF e.acct = a THEN e.delta ELSE 0)
<1>1. PICK c : c = Append(b, e)
  OBVIOUS
<1>2. PICK n : n = Len(b) + 1
  OBVIOUS
<1>3. /\ c \in Seq(EntryType) /\ DOMAIN b = 1 .. Len(b) /\ Len(b) \in Nat
      /\ DOMAIN c = 1 .. n /\ \A i \in DOMAIN b : c[i] = b[i]
      /\ c[n] = e
  BY <1>1, <1>2
<1>4. PICK S : S = At(b, a)
  OBVIOUS
<1>5. PICK U : U = At(c, a)
  OBVIOUS
<1>6. PICK f : f = [i \in S |-> b[i].delta]
  OBVIOUS
<1>7. PICK g : g = [i \in U |-> c[i].delta]
  OBVIOUS
<1>8. f \in [S -> Int] /\ IsFiniteSet(S) /\ SumOf(b, a) = SumFunction(f)
  BY <1>4, <1>6, SumOfType DEF SumOf
<1>9. g \in [U -> Int] /\ SumOf(c, a) = SumFunction(g)
  BY <1>3, <1>5, <1>7, SumOfType DEF SumOf
<1>10. CASE e.acct = a
  <2>1. U = S \cup {n} /\ n \notin S
    BY <1>2, <1>3, <1>4, <1>5, <1>10 DEF At
  <2>2. \A y \in S : g[y] = f[y]
    BY <1>3, <1>4, <1>6, <1>7, <2>1 DEF At
  <2>3. g[n] = e.delta
    BY <1>3, <1>7, <2>1
  <2>4. g \in [S \cup {n} -> Int]
    BY <1>9, <2>1
  <2>5. SumFunction(g) = SumFunction(f) + g[n]
    <3>1. IsFiniteSet(U)
      BY <1>8, <2>1, FS_AddElement
    <3>2. SumFunction(g) = g[n] + SumFunction([y \in U \ {n} |-> g[y]])
      <4>1. g \in [U -> Int] /\ n \in U
        BY <1>9, <2>1
      <4>. QED
        BY <3>1, <4>1, SumRemoved, SMTT(40)
    <3>3. [y \in U \ {n} |-> g[y]] = f
      <4>1. U \ {n} = S
        BY <2>1
      <4>. QED
        BY <4>1, <2>2, <1>8
    <3>4. SumFunction(f) \in Int /\ g[n] \in Int
      BY <1>8, <1>9, <2>1, SumIs
    <3>. QED
      BY <3>2, <3>3, <3>4
  <2>. QED
    BY <2>3, <2>5, <1>1, <1>8, <1>9, <1>10
<1>11. CASE e.acct # a
  <2>1. U = S
    BY <1>2, <1>3, <1>4, <1>5, <1>11 DEF At
  <2>2. \A i \in S : c[i] = b[i]
    BY <1>3, <1>4 DEF At
  <2>3. g = f
    BY <2>1, <2>2, <1>6, <1>7
  <2>4. SumFunction(f) \in Int
    BY <1>8, SumIs
  <2>. QED
    BY <2>3, <2>4, <1>1, <1>8, <1>9, <1>11
<1>. QED
  BY <1>10, <1>11

\* The sum of the model, as a function of the ledger.
LEMMA SumIsSumOf ==
  ASSUME NEW a
  PROVE  Sum(a) = SumOf(ledger, a) /\ Sum(a)' = SumOf(ledger', a)
BY DEF Sum, Net, SumOf, At

\* LedgerStore.append of one entry.
LEMMA BookOne ==
  ASSUME TypesInv, NEW e \in EntryType, ledger' = Append(ledger, e), NEW a
  PROVE  Sum(a)' = Sum(a) + (IF e.acct = a THEN e.delta ELSE 0)
<1>1. ledger \in Seq(EntryType)
  BY DEF TypesInv, BooksTyped
<1>2. PICK b \in Seq(EntryType) : b = ledger
  BY <1>1
<1>3. SumOf(Append(b, e), a) = SumOf(b, a) + (IF e.acct = a THEN e.delta ELSE 0)
  BY SumOfAppend
<1>. QED
  BY <1>2, <1>3, SumIsSumOf

\* LedgerStore.append of the two entries of a move.
LEMMA BookTwo ==
  ASSUME TypesInv, NEW e \in EntryType, NEW f \in EntryType, ledger' = ledger \o <<e, f>>,
         NEW a
  PROVE  Sum(a)' = Sum(a) + (IF e.acct = a THEN e.delta ELSE 0)
                          + (IF f.acct = a THEN f.delta ELSE 0)
<1>1. ledger \in Seq(EntryType)
  BY DEF TypesInv, BooksTyped
<1>2. PICK b \in Seq(EntryType) : b = ledger
  BY <1>1
<1>c. Append(b, e) \in Seq(EntryType)
  BY AppendProperties
<1>3. PICK c \in Seq(EntryType) : c = Append(b, e)
  BY <1>c
<1>4. SumOf(c, a) = SumOf(b, a) + (IF e.acct = a THEN e.delta ELSE 0)
  BY <1>3, SumOfAppend
<1>5. SumOf(Append(c, f), a) = SumOf(c, a) + (IF f.acct = a THEN f.delta ELSE 0)
  BY SumOfAppend
<1>6. b \o <<e, f>> = Append(c, f)
  BY <1>3, SMT
<1>. QED
  BY <1>2, <1>4, <1>5, <1>6, SumIsSumOf

\* An entry is added to those of its key.
LEMMA RefsOfAppend ==
  ASSUME TypesInv, NEW e \in EntryType, ledger' = Append(ledger, e), NEW r
  PROVE  RefEntries(r)' = RefEntries(r) \cup (IF r = e.ref /\ r # 0 THEN {Len(ledger) + 1} ELSE {})
<1>1. /\ DOMAIN ledger = 1 .. Len(ledger) /\ Len(ledger) \in Nat
      /\ DOMAIN ledger' = 1 .. Len(ledger) + 1 /\ \A i \in DOMAIN ledger : ledger'[i] = ledger[i]
      /\ ledger'[Len(ledger) + 1] = e
  BY LedgerDomain DEF TypesInv, BooksTyped
<1>. QED
  BY <1>1 DEF RefEntries

\* Commands and keys are finitely many, so they can be summed over.
LEMMA OpFinite == IsFiniteSet(Op) /\ IsFiniteSet(Ref)
<1>1. IsFiniteSet(Op)
  BY EconomyAssumption, FS_Interval DEF Op
<1>2. IsFiniteSet(DOMAIN Keyed) /\ DOMAIN Keyed \subseteq Int
  BY EconomyAssumption
<1>. DEFINE Neg == {-k : k \in DOMAIN Keyed}
<1>3. IsFiniteSet(Neg)
  <2>. DEFINE f == [k \in DOMAIN Keyed |-> -k]
  <2>1. f \in Surjection(DOMAIN Keyed, Neg)
    BY DEF Surjection
  <2>. HIDE DEF f, Neg
  <2>. QED
    BY <1>2, <2>1, FS_Surjection
<1>4. IsFiniteSet(DOMAIN Keyed \cup Neg)
  BY <1>2, <1>3, FS_Union
<1>. QED
  BY <1>1, <1>4 DEF Ref

\* Orphans add up to a number.
LEMMA OrphansType ==
  ASSUME NEW a
  PROVE  /\ [r \in Ref |-> OrphanAt(r, a)] \in [Ref -> Int]
         /\ Orphaned(a) \in Int
<1>1. [r \in Ref |-> OrphanAt(r, a)] \in [Ref -> Int]
  BY RefAccounts DEF OrphanAt
<1>. QED
  BY <1>1, OpFinite, SumIs DEF Orphaned

\* Without a change to the orphans of an account their sum stays.
LEMMA OrphansSame ==
  ASSUME NEW a, \A r \in Ref : AcctOf(r) = a => (Orphan(r)' <=> Orphan(r))
  PROVE  Orphaned(a)' = Orphaned(a)
<1>1. \A r \in Ref : OrphanAt(r, a)' = OrphanAt(r, a)
  BY DEF OrphanAt
<1>2. [r \in Ref |-> OrphanAt(r, a)'] = [r \in Ref |-> OrphanAt(r, a)]
  BY <1>1
<1>. QED
  BY <1>2 DEF Orphaned

\* What is pending is a number.
LEMMA PendingType ==
  ASSUME TypesInv, NEW o \in Op, OpOK(o), NEW a
  PROVE  Pending(o, a) \in Int
<1>1. tx[o] \in TxType /\ account \in [Acct -> [status : Statuses, bal : Nat]]
  BY DEF TypesInv, StoresTyped, DocumentsTyped
<1>2. CASE tx[o] = NoTx
  <2>1. tx[o].state = "none" /\ o \notin isolated
    BY <1>2 DEF NoTx, OpOK, IsolatedOK
  <2>2. op[o].pc \notin {"credit", "rollback"}
    BY <1>2 DEF OpOK, MoveOK, PlainOK, Busy, PlainPcs
  <2>. QED
    BY <2>1, <2>2 DEF Pending
<1>3. CASE tx[o] # NoTx
  <2>1. /\ tx[o].a \in Acct /\ tx[o].b \in Acct /\ tx[o].n \in Int /\ tx[o].a0 \in Int
        /\ tx[o].b0 \in Int
    BY <1>1, <1>3 DEF TxType
  <2>2. Bal(tx[o].a) \in Int /\ Bal(tx[o].b) \in Int
    BY <1>1, <2>1 DEF Bal
  <2>3. /\ a = tx[o].a => Bal(a) - tx[o].a0 \in Int
        /\ a = tx[o].b => Bal(a) - tx[o].b0 \in Int
        /\ -tx[o].n \in Int
    BY <2>1, <2>2
  <2>. QED
    BY <2>3 DEF Pending, Side
<1>. QED
  BY <1>2, <1>3

\* ... and adds up to one.
LEMMA AllPendingType ==
  ASSUME TypesInv, \A o \in Op : OpOK(o), NEW a
  PROVE  /\ [o \in Op |-> Pending(o, a)] \in [Op -> Int]
         /\ AllPending(a) \in Int
<1>1. [o \in Op |-> Pending(o, a)] \in [Op -> Int]
  BY PendingType
<1>. QED
  BY <1>1, OpFinite, SumIs DEF AllPending

\* What is pending in all moves with what is pending for the command.
LEMMA PendingStep ==
  ASSUME IInv, TypesInv', NEW o \in Op, NEW X, Frame(o, X), NEW x, NEW d \in Int,
         Pending(o, x)' = Pending(o, x) + d
  PROVE  AllPending(x)' = AllPending(x) + d
<1>. DEFINE f == [p \in Op |-> Pending(p, x)]
            g == [p \in Op |-> Pending(p, x)']
<1>1. f \in [Op -> Int]
  BY AllPendingType DEF IInv
<1>2. \A p \in Op \ {o} : g[p] = f[p]
  BY OthersPending
<1>3. g[o] = f[o] + d
  OBVIOUS
<1>4. g \in [Op -> Int]
  <2>1. \A p \in Op : g[p] \in Int
    BY <1>1, <1>2, <1>3
  <2>. QED
    BY <2>1
<1>5. AllPending(x) = SumFunction(f) /\ AllPending(x)' = SumFunction(g)
  BY DEF AllPending
<1>. HIDE DEF f, g
<1>6. SumFunction(g) = SumFunction(f) + g[o] - f[o]
  BY <1>1, <1>2, <1>4, OpFinite, SumChanged
<1>7. SumFunction(f) \in Int
  BY <1>1, OpFinite, SumIs
<1>. QED
  BY <1>1, <1>3, <1>5, <1>6, <1>7

\* The balance moves with what is booked, what is orphaned and what is pending.
LEMMA BooksMove ==
  ASSUME IInv, TypesInv', NEW o \in Op, NEW X, Frame(o, X), NEW x \in Acct,
         NEW d \in Int, NEW u \in Int, NEW p \in Int,
         Sum(x)' = Sum(x) + d, Orphaned(x)' = Orphaned(x) + u,
         Pending(o, x)' = Pending(o, x) + p,
         account'[x].bal = account[x].bal + d + u + p
  PROVE  BooksOK(x)'
<1>1. AllPending(x)' = AllPending(x) + p
  BY PendingStep
<1>2. BooksOK(x) /\ AllPending(x) \in Int
  BY AllPendingType DEF IInv
<1>3. Orphaned(x) \in Int
  BY OrphansType
<1>4. Sum(x) \in Int
  BY SumOfType, SumIsSumOf DEF IInv, TypesInv, BooksTyped
<1>5. Base(x) \in Int
  BY EconomyAssumption DEF Base
<1>6. Bal(x) = Base(x) + Sum(x) + Orphaned(x) + AllPending(x)
  BY <1>2 DEF BooksOK
<1>7. Bal(x)' = Base(x) + Sum(x)' + Orphaned(x)' + AllPending(x)'
  BY <1>1, <1>2, <1>3, <1>4, <1>5, <1>6 DEF Bal
<1>. QED
  BY <1>7 DEF BooksOK, Base

\* The usual case: a balance and its entry.
LEMMA BooksBooked ==
  ASSUME IInv, TypesInv', NEW o \in Op, NEW X, Frame(o, X), NEW x \in Acct, NEW d \in Int,
         Sum(x)' = Sum(x) + d, Orphaned(x)' = Orphaned(x),
         Pending(o, x)' = Pending(o, x),
         account'[x].bal = account[x].bal + d
  PROVE  BooksOK(x)'
<1>1. PICK z \in Int : z = 0
  OBVIOUS
<1>2. Orphaned(x) \in Int
  BY OrphansType
<1>3. OpOK(o) /\ TypesInv /\ account[x].bal \in Int
  BY DEF IInv, TypesInv, DocumentsTyped
<1>4. Pending(o, x) \in Int
  BY <1>3, PendingType
<1>5. Orphaned(x)' = Orphaned(x) + z /\ Pending(o, x)' = Pending(o, x) + z
  BY <1>1, <1>2, <1>4
<1>6. account'[x].bal = account[x].bal + d + z + z
  BY <1>1, <1>3
<1>. QED
  BY <1>5, <1>6, BooksMove

----------------------------------------------------------------------------
\* Commands without a transaction.

\* A command that is at work.
LEMMA Working ==
  ASSUME IInv, NEW o \in Op, Busy(o), NEW X, X = {op[o].a, op[o].b}
  PROVE  /\ todo = {} /\ o \notin isolated
         /\ X \subseteq Acct /\ op[o] \in OpType
         /\ \A p \in Op \ {o} : \A x \in X : x[1] \notin HeldBy(p)
         /\ TxWithin(o, X)
         /\ op[o].kind \notin Moves => tx[o] = NoTx /\ txSaved[o] = NoTx
<1>1. OpOK(o) /\ Exclusive /\ AtRest /\ TypesInv
  BY DEF IInv
<1>2. todo = {} /\ o \notin isolated
  BY <1>1 DEF AtRest, OpOK, IsolatedOK
<1>3. op[o].a \in Acct /\ op[o].b \in Acct /\ op[o] \in OpType
  BY <1>1 DEF Exclusive, TypesInv, OpsTyped
<1>4. HeldBy(o) = {op[o].a[1], op[o].b[1]}
  BY <1>2 DEF HeldBy, Domains
<1>5. \A p \in Op \ {o} : HeldBy(o) \cap HeldBy(p) = {}
  BY <1>1 DEF Exclusive
<1>6. op[o].kind \notin Moves => tx[o] = NoTx /\ txSaved[o] = NoTx
  BY <1>1 DEF OpOK, PlainOK, TxOK
<1>7. TxWithin(o, X)
  BY <1>1, <1>6 DEF TxWithin, OpOK, MoveOK
<1>. QED
  BY <1>2, <1>3, <1>4, <1>5, <1>6, <1>7

\* A command that continues keeps to its accounts if it names no others.
LEMMA CommandFrame ==
  ASSUME IInv, NEW o \in Op, Busy(o), NEW X, X = {op[o].a, op[o].b},
         UNCHANGED <<todo, isolated>>, Grows(o, X),
         \A p \in Op \ {o} : /\ op'[p] = op[p] /\ tx'[p] = tx[p]
                             /\ txSaved'[p] \in {txSaved[p], tx[p]},
         op'[o].pc # "idle",
         op'[o].pc = "done" \/ (op'[o].a = op[o].a /\ op'[o].b = op[o].b),
         tx'[o] = tx[o] \/ (tx[o] # NoTx /\ tx'[o].a = tx[o].a /\ tx'[o].b = tx[o].b),
         \A a \in Acct \ X : account'[a] = account[a],
         \A r \in Ref : receipt'[r] = receipt[r] \/ (AcctOf(r) \in X /\ receipt'[r] # "none")
  PROVE  Frame(o, X)
<1>1. /\ X \subseteq Acct
      /\ \A p \in Op \ {o} : \A x \in X : x[1] \notin HeldBy(p)
      /\ TxWithin(o, X)
  BY Working
<1>2. TxWithin(o, X)'
  BY <1>1 DEF TxWithin
<1>3. Apart(o, X)
  BY <1>1 DEF Apart
<1>4. Busy(o)' => op[o].pc = "idle"
                   \/ (Busy(o) /\ op'[o].a = op[o].a /\ op'[o].b = op[o].b)
  BY DEF Busy
<1>5. Grows(o, X) /\ X \subseteq Acct /\ TxWithin(o, X) /\ op'[o].pc # "idle"
  BY <1>1
<1>6. \A a \in Acct \ X : account'[a] = account[a]
  OBVIOUS
<1>7. \A r \in Ref : receipt'[r] = receipt[r] \/ (AcctOf(r) \in X /\ receipt'[r] # "none")
  OBVIOUS
<1>. QED
  BY <1>2, <1>3, <1>4, <1>5, <1>6, <1>7 DEF Frame, Busy

\* What is left to show of a command that continues.
LEMMA CommandOwn ==
  ASSUME IInv, TypesInv', NEW o \in Op, Busy(o), NEW X, X = {op[o].a, op[o].b},
         UNCHANGED <<todo, isolated>>, OpOK(o)',
         op'[o].pc = "done" \/ (op'[o].a = op[o].a /\ op'[o].b = op[o].b),
         \A i \in DOMAIN ledger' \ DOMAIN ledger : EntryOK(i)',
         \A r \in Ref : receipt'[r] # receipt[r] => ConfirmedOK(r)',
         \A x \in X : BooksOK(x)',
         \A x \in X : account'[x].status = "none" => account'[x].bal = 0
  PROVE  Own(o, X)
<1>1. todo = {} /\ o \notin isolated
  BY Working
<1>2. Busy(o)' => op'[o].a \in X /\ op'[o].b \in X
  BY DEF Busy
<1>. QED
  BY <1>1, <1>2 DEF Own

\* A snapshot, or nothing, is written: the ledger stays.
LEMMA LedgerSame ==
  ASSUME TypesInv, NEW o, NEW X, ledger' = ledger, saved' \in {saved, ledger}
  PROVE  /\ Grows(o, X) /\ DOMAIN ledger' \ DOMAIN ledger = {}
         /\ \A r : RefEntries(r)' = RefEntries(r)
         /\ \A a : Sum(a)' = Sum(a)
<1>1. Len(ledger) \in Nat
  BY LedgerDomain
<1>2. Grows(o, X)
  BY <1>1 DEF Grows
<1>3. \A a : Sum(a)' = Sum(a)
  BY SumIsSumOf
<1>. QED
  BY <1>2, <1>3 DEF RefEntries

\* Where there is no account there is no balance.
LEMMA RestStatus ==
  ASSUME IInv, NEW x \in Acct, account[x].status = "none"
  PROVE  account[x].bal = 0
BY DEF IInv, AtRest, Native, Bal

\* A step that moves no money and books nothing.
LEMMA QuietStep ==
  ASSUME IInv, TypesInv', NEW o \in Op, Busy(o),
         UNCHANGED <<ledger, todo, isolated>>, saved' \in {saved, ledger},
         \A x \in Acct : \/ account'[x] = account[x]
                         \/ /\ x = op[o].a /\ account'[x].bal = account[x].bal
                            /\ account'[x].status = "none" => account'[x].bal = 0,
         \A p \in Op \ {o} : /\ op'[p] = op[p] /\ tx'[p] = tx[p]
                             /\ txSaved'[p] \in {txSaved[p], tx[p]},
         op'[o].pc # "idle",
         op'[o].pc = "done" \/ (op'[o].a = op[o].a /\ op'[o].b = op[o].b),
         tx'[o] = tx[o] \/ (tx[o] # NoTx /\ tx'[o].a = tx[o].a /\ tx'[o].b = tx[o].b),
         OpOK(o)',
         \A r \in Ref : \/ receipt'[r] = receipt[r]
                        \/ /\ AcctOf(r) = op[o].a /\ ConfirmedOK(r)'
                           /\ receipt[r] # "none" /\ receipt'[r] # "none",
         \A x \in Acct : Pending(o, x)' = Pending(o, x)
  PROVE  IInv'
<1>1. PICK X : X = {op[o].a, op[o].b}
  OBVIOUS
<1>2. TypesInv /\ X \subseteq Acct
  BY <1>1, Working DEF IInv
<1>3. Grows(o, X) /\ DOMAIN ledger' \ DOMAIN ledger = {}
      /\ (\A r : RefEntries(r)' = RefEntries(r))
      /\ (\A a : Sum(a)' = Sum(a))
  BY <1>2, LedgerSame
<1>4. Frame(o, X)
  <2>1. \A a \in Acct \ X : account'[a] = account[a]
    BY <1>1
  <2>. QED
    BY <2>1, <1>1, <1>3, CommandFrame
<1>5. ASSUME NEW x \in X PROVE BooksOK(x)'
  <2>1. \A r \in Ref : Orphan(r)' <=> Orphan(r)
    BY <1>3 DEF Orphan
  <2>2. Orphaned(x)' = Orphaned(x)
    BY <2>1, OrphansSame
  <2>3. BooksOK(x) /\ x \in Acct /\ account'[x].bal = account[x].bal
    BY <1>2 DEF IInv
  <2>4. \A p \in Op : Pending(p, x)' = Pending(p, x)
    BY <1>4, <2>3, OthersPending
  <2>5. [p \in Op |-> Pending(p, x)'] = [p \in Op |-> Pending(p, x)]
    BY <2>4
  <2>6. AllPending(x)' = AllPending(x)
    BY <2>5 DEF AllPending
  <2>. QED
    BY <2>2, <2>3, <2>6, <1>3 DEF BooksOK, Bal, Base
<1>6. \A x \in X : account'[x].status = "none" => account'[x].bal = 0
  BY <1>2, RestStatus
<1>7. Own(o, X)
  BY <1>1, <1>3, <1>5, <1>6, CommandOwn
<1>. QED
  BY <1>4, <1>7, StepKeeps

\* Only moves leave money pending.
LEMMA PlainPending ==
  ASSUME NEW o, NEW x
  PROVE  /\ tx[o] = NoTx /\ o \notin isolated /\ op[o].pc \notin {"credit", "rollback"}
              => Pending(o, x) = 0
         /\ tx'[o] = NoTx /\ o \notin isolated' /\ op'[o].pc \notin {"credit", "rollback"}
              => Pending(o, x)' = 0
BY DEF Pending, NoTx

\* Without a transaction there is nothing to say of a command that is over.
LEMMA PlainOpOK ==
  ASSUME TypesInv', NEW o \in Op, tx'[o] = NoTx, txSaved'[o] = NoTx, o \notin isolated',
         op'[o].pc # "idle", op'[o].pc = "done" \/ op'[o].kind \notin Moves,
         op'[o].pc # "done" => KeyedOK(o)' /\ PlainOK(o)'
  PROVE  OpOK(o)' /\ op'[o].pc \notin {"credit", "rollback"}
<1>1. TxOK(o)'
  BY DEF TxOK
<1>2. MoveOK(o)' /\ IsolatedOK(o)'
  BY DEF MoveOK, Busy, IsolatedOK
<1>3. KeyedOK(o)' /\ PlainOK(o)'
  <2>1. CASE op'[o].pc = "done"
    BY <2>1 DEF KeyedOK, PlainOK, Busy
  <2>. QED
    BY <2>1
<1>4. op'[o].pc \notin {"credit", "rollback"}
  BY <1>3 DEF PlainOK, Busy, PlainPcs
<1>. QED
  BY <1>1, <1>2, <1>3, <1>4 DEF OpOK

\* A command that is no move is at no step of one.
LEMMA PlainPcNow ==
  ASSUME IInv, NEW o \in Op, Busy(o), op[o].kind \notin Moves
  PROVE  op[o].pc \in PlainPcs /\ op[o].pc \notin {"credit", "rollback"}
BY DEF IInv, OpOK, PlainOK, PlainPcs

\* A step of a command without a transaction that moves no money.
LEMMA PlainQuiet ==
  ASSUME IInv, TypesInv', NEW o \in Op, Busy(o), op[o].kind \notin Moves,
         UNCHANGED <<ledger, todo, isolated, tx, txSaved>>, saved' \in {saved, ledger},
         \A x \in Acct : \/ account'[x] = account[x]
                         \/ /\ x = op[o].a /\ account'[x].bal = account[x].bal
                            /\ account'[x].status = "none" => account'[x].bal = 0,
         \A p \in Op \ {o} : op'[p] = op[p],
         op'[o].pc # "idle",
         \/ op'[o].pc = "done"
         \/ /\ op'[o].a = op[o].a /\ op'[o].b = op[o].b /\ op'[o].kind \notin Moves
            /\ KeyedOK(o)' /\ PlainOK(o)',
         \A r \in Ref : \/ receipt'[r] = receipt[r]
                        \/ /\ AcctOf(r) = op[o].a /\ ConfirmedOK(r)'
                           /\ receipt[r] # "none" /\ receipt'[r] # "none"
  PROVE  IInv'
<1>1. PICK X : X = {op[o].a, op[o].b}
  OBVIOUS
<1>2. tx[o] = NoTx /\ txSaved[o] = NoTx /\ o \notin isolated
  BY <1>1, Working
<1>3. OpOK(o)' /\ op'[o].pc \notin {"credit", "rollback"}
  BY <1>2, PlainOpOK
<1>4. op[o].pc \notin {"credit", "rollback"}
  BY PlainPcNow
<1>5. \A x \in Acct : Pending(o, x)' = Pending(o, x)
  BY <1>2, <1>3, <1>4, PlainPending
<1>. QED
  BY <1>2, <1>3, <1>5, QuietStep

\* A write and its entry.
LEMMA PlainBook ==
  ASSUME IInv, TypesInv', NEW o \in Op, Busy(o), op[o].kind \notin Moves,
         UNCHANGED <<saved, todo, isolated, tx, txSaved>>,
         NEW e \in EntryType, ledger' = Append(ledger, e),
         e.by = o, e.acct = op[o].a, NEW n, n = Len(ledger) + 1, EntryOK(n)',
         \A p \in Op \ {o} : op'[p] = op[p],
         op'[o].pc # "idle",
         \/ op'[o].pc = "done"
         \/ /\ op'[o].a = op[o].a /\ op'[o].b = op[o].b /\ op'[o].kind \notin Moves
            /\ KeyedOK(o)' /\ PlainOK(o)',
         \A r \in Ref : /\ Orphan(r)' <=> Orphan(r)
                        /\ \/ receipt'[r] = receipt[r]
                           \/ /\ AcctOf(r) = op[o].a /\ ConfirmedOK(r)'
                              /\ receipt'[r] # "none",
         \A x \in Acct : x # op[o].a => account'[x] = account[x],
         account'[op[o].a].bal = account[op[o].a].bal + e.delta,
         account'[op[o].a].status # "none"
  PROVE  IInv'
<1>1. PICK X : X = {op[o].a, op[o].b}
  OBVIOUS
<1>2. tx[o] = NoTx /\ txSaved[o] = NoTx /\ o \notin isolated /\ X \subseteq Acct /\ TypesInv
  BY <1>1, Working DEF IInv
<1>3. OpOK(o)' /\ op'[o].pc \notin {"credit", "rollback"}
  BY <1>2, PlainOpOK
<1>4. op[o].pc \notin {"credit", "rollback"}
  BY PlainPcNow
<1>5. /\ DOMAIN ledger = 1 .. Len(ledger) /\ Len(ledger) \in Nat
      /\ DOMAIN ledger' = 1 .. Len(ledger) + 1 /\ Len(ledger') = Len(ledger) + 1
      /\ \A i \in DOMAIN ledger : ledger'[i] = ledger[i]
      /\ ledger'[Len(ledger) + 1] = e
  BY <1>2, LedgerDomain DEF TypesInv, BooksTyped
<1>6. Grows(o, X)
  BY <1>1, <1>5 DEF Grows
<1>7. \A i \in DOMAIN ledger' \ DOMAIN ledger : EntryOK(i)'
  <2>1. ASSUME NEW i \in DOMAIN ledger' \ DOMAIN ledger PROVE i = n
    BY <1>5, <2>1
  <2>. QED
    BY <2>1
<1>8. Frame(o, X)
  BY <1>1, <1>2, <1>6, CommandFrame
<1>9. ASSUME NEW x \in X PROVE BooksOK(x)'
  <2>1. Sum(x)' = Sum(x) + (IF e.acct = x THEN e.delta ELSE 0)
    BY <1>2, BookOne
  <2>2. Orphaned(x)' = Orphaned(x)
    BY OrphansSame
  <2>3. Pending(o, x)' = 0 /\ Pending(o, x) = 0
    BY <1>2, <1>3, <1>4, PlainPending
  <2>4. Orphaned(x) \in Int /\ x \in Acct /\ e.delta \in Int
    BY <1>2, OrphansType DEF EntryType
  <2>5. account[x].bal \in Int
    BY <1>2, <2>4 DEF TypesInv, DocumentsTyped
  <2>6. PICK d \in Int : d = IF e.acct = x THEN e.delta ELSE 0
    BY <2>4
  <2>7. Pending(o, x)' = Pending(o, x)
    BY <2>3
  <2>8. account'[x].bal = account[x].bal + d
    BY <2>4, <2>5, <2>6
  <2>9. Sum(x)' = Sum(x) + d
    BY <2>1, <2>6
  <2>. QED
    BY <1>8, <2>2, <2>4, <2>7, <2>8, <2>9, BooksBooked
<1>10. \A x \in X : account'[x].status = "none" => account'[x].bal = 0
  BY <1>2, RestStatus
<1>11. Own(o, X)
  BY <1>1, <1>3, <1>7, <1>9, <1>10, CommandOwn
<1>. QED
  BY <1>8, <1>11, StepKeeps

\* Names of steps.
LEMMA PcsAre ==
  /\ "done" \in Pcs /\ "debit" \in Pcs /\ "exchange" \in Pcs /\ "credit" \in Pcs
  /\ "rollback" \in Pcs /\ "book" \in Pcs /\ "close tx" \in Pcs /\ "confirm" \in Pcs
  /\ "undo" \in Pcs /\ "keep" \in Pcs /\ "refund" \in Pcs /\ "restore" \in Pcs
BY DEF Pcs

\* A command goes on.
LEMMA GotoIs ==
  ASSUME TypesInv, NEW o \in Op, NEW pc \in Pcs, Goto(o, pc)
  PROVE  /\ op' \in [Op -> OpType] /\ \A p \in Op \ {o} : op'[p] = op[p]
         /\ op'[o].pc = pc /\ op'[o].kind = op[o].kind /\ op'[o].a = op[o].a
         /\ op'[o].b = op[o].b /\ op'[o].n = op[o].n /\ op'[o].m = op[o].m
         /\ op'[o].ref = op[o].ref /\ op'[o].prev = op[o].prev
<1>1. op \in [Op -> OpType]
  BY DEF TypesInv, OpsTyped
<1>. QED
  BY <1>1 DEF Goto, OpType

\* The types, from the invariant.
LEMMA Typed ==
  ASSUME IInv
  PROVE  TypesInv
BY DEF IInv

\* A command ends.
LEMMA EndIs ==
  ASSUME TypesInv, NEW o \in Op, End(o)
  PROVE  /\ op' \in [Op -> OpType] /\ \A p \in Op \ {o} : op'[p] = op[p]
         /\ op'[o].pc = "done"
<1>1. op \in [Op -> OpType]
  BY DEF TypesInv, OpsTyped
<1>2. PICK e : e = [Idle EXCEPT !.pc = "done"]
  OBVIOUS
<1>3. e = [pc |-> "done", kind |-> "none", a |-> NoAcct, b |-> NoAcct,
           n |-> 0, m |-> 0, ref |-> 0, prev |-> NoResv]
  BY <1>2 DEF Idle, NoResv
<1>4. NoResv \in ResvType /\ "done" \in Pcs /\ "none" \in CmdKinds
  BY DEF ResvType, Pcs, CmdKinds
<1>5. e \in OpType /\ e.pc = "done"
  BY <1>3, <1>4 DEF OpType
<1>. QED
  BY <1>1, <1>2, <1>5 DEF End

\* Writing a snapshot and moving on.
LEMMA QuietTypes ==
  ASSUME TypesInv, UNCHANGED <<account, ledger, resv, tx, todo, isolated>>,
         receipt' \in [Ref -> Receipts], saved' \in {saved, ledger},
         resvSaved' \in {resvSaved, resv}, txSaved' \in {txSaved, tx},
         op' \in [Op -> OpType]
  PROVE  TypesInv'
<1>1. DocumentsTyped' /\ StoresTyped' /\ OpsTyped'
  BY DEF TypesInv, DocumentsTyped, StoresTyped, OpsTyped
<1>2. BooksTyped'
  BY DEF TypesInv, BooksTyped
<1>. QED
  BY <1>1, <1>2 DEF TypesInv

\* The parts of the invariant.
LEMMA Facts ==
  ASSUME IInv
  PROVE  /\ TypesInv /\ Exclusive /\ AtRest
         /\ receipt \in [Ref -> Receipts] /\ account \in [Acct -> [status : Statuses, bal : Nat]]
         /\ op \in [Op -> OpType] /\ resv \in [Op -> ResvType]
         /\ \A o \in Op : TxOK(o) /\ MoveOK(o) /\ KeyedOK(o) /\ PlainOK(o) /\ IsolatedOK(o)
         /\ \A i \in DOMAIN ledger : EntryOK(i)
BY DEF IInv, TypesInv, DocumentsTyped, OpsTyped, StoresTyped, OpOK

\* A document write that fails.
LEMMA WriteFailsKeeps ==
  ASSUME IInv, NEW o \in Op, WriteFails(o)
  PROVE  IInv'
<1>1. /\ Busy(o) /\ End(o) /\ op[o].pc \in {"apply", "confirm", "open", "shut", "reverse"}
      /\ UNCHANGED <<account, receipt, ledger, saved, resv, resvSaved, tx, txSaved, todo, isolated>>
  BY DEF WriteFails, Busy, documents, books, reservations, transactions
<1>2. op[o].kind \notin Moves
  BY <1>1, Facts DEF MoveOK, MovePcs
<1>3. /\ op' \in [Op -> OpType] /\ \A p \in Op \ {o} : op'[p] = op[p]
      /\ op'[o].pc = "done"
  BY <1>1, Typed, EndIs
<1>4. TypesInv'
  BY <1>1, <1>3, Facts, QuietTypes
<1>. QED
  BY <1>1, <1>2, <1>3, <1>4, PlainQuiet

\* ledgerStore.flush of an adjustment, an opening balance or a reversal.
LEMMA AdjustBookedKeeps ==
  ASSUME IInv, NEW o \in Op, AdjustBooked(o)
  PROVE  IInv'
<1>1. /\ Busy(o) /\ End(o) /\ op[o].kind \notin Moves /\ saved' = ledger
      /\ UNCHANGED <<account, receipt, ledger, resv, resvSaved, tx, txSaved, todo, isolated>>
  BY DEF AdjustBooked, Busy, documents, FlushLedger, reservations, transactions, Moves
<1>3. /\ op' \in [Op -> OpType] /\ \A p \in Op \ {o} : op'[p] = op[p]
      /\ op'[o].pc = "done"
  BY <1>1, Typed, EndIs
<1>4. TypesInv'
  BY <1>1, <1>3, Facts, QuietTypes
<1>5. op'[o].pc # "idle"
  BY <1>3
<1>. QED
  BY <1>1, <1>3, <1>4, <1>5, PlainQuiet

\* ledgerStore.flush before the receipt is confirmed.
LEMMA KeyedBookedKeeps ==
  ASSUME IInv, NEW o \in Op, KeyedBooked(o)
  PROVE  IInv'
<1>1. /\ Busy(o) /\ Goto(o, "confirm") /\ op[o].kind \in KeyedKinds /\ saved' = ledger
      /\ op[o].kind \notin Moves /\ op[o].pc = "book"
      /\ UNCHANGED <<account, receipt, ledger, resv, resvSaved, tx, txSaved, todo, isolated>>
  BY DEF KeyedBooked, Busy, documents, FlushLedger, reservations, transactions, Moves, KeyedKinds
<1>3. /\ op' \in [Op -> OpType] /\ \A p \in Op \ {o} : op'[p] = op[p]
      /\ op'[o].pc = "confirm" /\ op'[o].kind = op[o].kind /\ op'[o].a = op[o].a
      /\ op'[o].b = op[o].b /\ op'[o].n = op[o].n /\ op'[o].ref = op[o].ref
  BY <1>1, Typed, PcsAre, GotoIs
<1>4. TypesInv'
  BY <1>1, <1>3, Facts, QuietTypes
<1>5. DOMAIN ledger = 1 .. Len(ledger)
  BY Facts, LedgerDomain
<1>6. KeyedOK(o) /\ PlainOK(o)
  BY Facts
<1>7. \A i \in DOMAIN ledger' : ~Unsaved(i)'
  BY <1>1, <1>5 DEF Unsaved
<1>8. EntriesBy(o)' = EntriesBy(o) /\ EntriesBy(o)' \subseteq DOMAIN ledger'
  BY <1>1 DEF EntriesBy
<1>9. Durable(op[o].ref)'
  <2>1. RefEntries(op[o].ref) # {}
    BY <1>1, <1>6 DEF KeyedOK
  <2>2. PICK i \in DOMAIN ledger : ledger[i].ref = op[o].ref
    BY <2>1 DEF RefEntries
  <2>. QED
    BY <2>2, <1>1, <1>3, <1>7 DEF Durable
<1>10. AllSaved(o)'
  BY <1>7, <1>8 DEF AllSaved
<1>11. KeyedOK(o)'
  BY <1>1, <1>3, <1>6, <1>8, <1>9, <1>10 DEF KeyedOK, Busy, Native, HasNone, Durable
<1>12. PlainOK(o)'
  BY <1>1, <1>3, <1>6 DEF PlainOK, Busy, Native, Bal, PlainPcs, KeyedKinds
<1>13. op'[o].pc # "idle" /\ op'[o].kind \notin Moves
  BY <1>1, <1>3
<1>. QED
  BY <1>1, <1>3, <1>4, <1>11, <1>12, <1>13, PlainQuiet

\* The receipt is confirmed.
LEMMA ConfirmKeeps ==
  ASSUME IInv, NEW o \in Op, Confirm(o)
  PROVE  IInv'
<1>1. /\ Busy(o) /\ op[o].pc = "confirm"
      /\ End(o) \/ (op[o].kind = "keyed" /\ Goto(o, "undo"))
      /\ receipt' = [receipt EXCEPT ![op[o].ref] = "confirmed"]
      /\ UNCHANGED <<account, ledger, saved, resv, resvSaved, tx, txSaved, todo, isolated>>
  BY DEF Confirm, Busy, books, reservations, transactions
<1>2. KeyedOK(o) /\ PlainOK(o) /\ op[o].kind \notin Moves
  BY <1>1, Facts DEF MoveOK, MovePcs
<1>3. op[o].kind \in KeyedKinds
  BY <1>1, <1>2 DEF PlainOK
<1>4. PICK r \in Ref : r = op[o].ref /\ AcctOf(r) = op[o].a /\ Durable(r) /\ AllSaved(o)
  BY <1>1, <1>2, <1>3 DEF KeyedOK
<1>5. PICK i \in DOMAIN ledger : ledger[i].ref = r /\ (~Unsaved(i) \/ ~Busy(ledger[i].by))
  BY <1>4 DEF Durable
<1>6. /\ op' \in [Op -> OpType] /\ \A p \in Op \ {o} : op'[p] = op[p]
      /\ \/ op'[o].pc = "done"
         \/ /\ op'[o].pc = "undo" /\ op[o].kind = "keyed"
            /\ op'[o].kind = op[o].kind /\ op'[o].a = op[o].a
            /\ op'[o].b = op[o].b /\ op'[o].n = op[o].n /\ op'[o].ref = op[o].ref
  <2>1. CASE End(o)
    BY <2>1, Typed, EndIs
  <2>2. CASE op[o].kind = "keyed" /\ Goto(o, "undo")
    BY <2>2, Typed, PcsAre, GotoIs
  <2>. QED
    BY <1>1, <2>1, <2>2
<1>7. receipt[r] # "none"
  <2>1. EntryOK(i) /\ r # 0
    BY <1>4, RefAccounts, Facts, EconomyAssumption DEF Ref
  <2>. QED
    BY <1>5, <2>1 DEF EntryOK
<1>8. receipt' \in [Ref -> Receipts]
  BY <1>1, Facts DEF Receipts
<1>9. TypesInv'
  BY <1>1, <1>6, <1>8, Facts, QuietTypes
<1>10. ledger[i].by \in Op
  BY Facts, LedgerDomain DEF EntryType
<1>11. Durable(r)'
  <2>1. Busy(ledger[i].by)' => Busy(ledger[i].by)
    BY <1>1, <1>6, <1>10 DEF Busy
  <2>. QED
    BY <2>1, <1>1, <1>5 DEF Durable, Unsaved, Busy
<1>12. \A q \in Ref : \/ receipt'[q] = receipt[q]
                      \/ /\ AcctOf(q) = op[o].a /\ ConfirmedOK(q)'
                         /\ receipt[q] # "none" /\ receipt'[q] # "none"
  <2>1. ASSUME NEW q \in Ref, receipt'[q] # receipt[q] PROVE q = r /\ receipt'[q] = "confirmed"
    BY <1>1, <1>4, <2>1, Facts
  <2>2. ConfirmedOK(r)'
    BY <1>11 DEF ConfirmedOK
  <2>. QED
    BY <2>1, <2>2, <1>4, <1>7
<1>13. CASE op'[o].pc = "done"
  BY <1>1, <1>2, <1>6, <1>9, <1>12, <1>13, PlainQuiet
<1>14. CASE op'[o].pc # "done"
  <2>1. /\ op'[o].pc = "undo" /\ op[o].kind = "keyed"
        /\ op'[o].kind = op[o].kind /\ op'[o].a = op[o].a
        /\ op'[o].b = op[o].b /\ op'[o].n = op[o].n /\ op'[o].ref = op[o].ref
    BY <1>6, <1>14
  <2>2. AllSaved(o)' /\ EntriesBy(o)' = EntriesBy(o)
    BY <1>1, <1>4 DEF AllSaved, EntriesBy, Unsaved
  <2>3. KeyedOK(o)'
    BY <2>1, <2>2, <1>1, <1>2, <1>3 DEF KeyedOK, Busy, Native
  <2>4. PlainOK(o)'
    BY <2>1, <1>1, <1>2, <1>3 DEF PlainOK, Busy, PlainPcs, KeyedKinds
  <2>5. /\ op'[o].pc # "idle" /\ op'[o].kind \notin Moves
    BY <2>1, <1>2
  <2>. QED
    BY <2>1, <2>3, <2>4, <2>5, <1>1, <1>2, <1>6, <1>9, <1>12, PlainQuiet
<1>. QED
  BY <1>13, <1>14

\* Reservations and consumptions as they go on.
LEMMA PlainOn ==
  ASSUME NEW o \in Op, op'[o].kind \notin Moves \cup KeyedKinds, tx'[o] = NoTx,
         op'[o].pc \in {"keep", "restore", "book", "refund"},
         op'[o].kind \in {"consume", "refund"} =>
           account'[op'[o].a].status # "none" /\ op'[o].n >= 0,
         op'[o].pc = "refund" => op'[o].kind = "consume"
  PROVE  KeyedOK(o)' /\ PlainOK(o)'
<1>1. KeyedOK(o)'
  BY DEF KeyedOK
<1>2. PlainOK(o)'
  BY DEF PlainOK, PlainPcs, Native
<1>. QED
  BY <1>1, <1>2

\* A command that is about reservations, or its money.
LEMMA KindNow ==
  ASSUME IInv, NEW o \in Op, Busy(o),
         \/ op[o].pc \in {"spend", "refund", "keep", "restore", "open", "shut", "reverse"}
         \/ op[o].pc = "book" /\ op[o].kind \notin Moves \cup KeyedKinds
         \/ op[o].pc = "apply" /\ op[o].kind \notin KeyedKinds
  PROVE  /\ op[o].kind \notin Moves \cup KeyedKinds
         /\ tx[o] = NoTx /\ txSaved[o] = NoTx /\ o \notin isolated /\ todo = {}
         /\ op[o].a \in Acct /\ op[o].n \in Int /\ op[o].b \in Acct
<1>1. op[o].kind \notin Moves
  BY Facts DEF MoveOK, MovePcs
<1>2. op[o].kind \notin KeyedKinds
  BY <1>1, Facts DEF KeyedOK
<1>3. PICK X : X = {op[o].a, op[o].b}
  OBVIOUS
<1>4. /\ todo = {} /\ o \notin isolated /\ tx[o] = NoTx /\ txSaved[o] = NoTx
      /\ op[o] \in OpType /\ X \subseteq Acct
  BY <1>1, <1>3, Working
<1>. QED
  BY <1>1, <1>2, <1>3, <1>4 DEF OpType

\* ledgerStore.flush of a consumption.
LEMMA ConsumeBookedKeeps ==
  ASSUME IInv, NEW o \in Op, ConsumeBooked(o)
  PROVE  IInv'
<1>1. /\ Busy(o) /\ Goto(o, "keep") /\ saved' = ledger /\ op[o].kind = "consume"
      /\ op[o].pc = "book"
      /\ UNCHANGED <<account, receipt, ledger, resv, resvSaved, tx, txSaved, todo, isolated>>
  BY DEF ConsumeBooked, Busy, documents, FlushLedger, reservations, transactions
<1>2. /\ op' \in [Op -> OpType] /\ \A p \in Op \ {o} : op'[p] = op[p]
      /\ op'[o].pc = "keep" /\ op'[o].kind = op[o].kind /\ op'[o].a = op[o].a
      /\ op'[o].b = op[o].b /\ op'[o].n = op[o].n
  BY <1>1, Typed, PcsAre, GotoIs
<1>3. TypesInv'
  BY <1>1, <1>2, Facts, QuietTypes
<1>4. op[o].kind \notin Moves \cup KeyedKinds /\ tx[o] = NoTx
  BY <1>1, KindNow DEF Moves, KeyedKinds
<1>5. account[op[o].a].status # "none" /\ op[o].n >= 0
  BY <1>1, <1>4, Facts DEF PlainOK, Native
<1>6. KeyedOK(o)' /\ PlainOK(o)'
  BY <1>1, <1>2, <1>4, <1>5, PlainOn
<1>. QED
  BY <1>1, <1>2, <1>3, <1>4, <1>6, PlainQuiet

\* ledgerStore.flush of a refund.
LEMMA RefundBookedKeeps ==
  ASSUME IInv, NEW o \in Op, RefundBooked(o)
  PROVE  IInv'
<1>1. /\ Busy(o) /\ Goto(o, "restore") /\ saved' = ledger /\ op[o].kind = "refund"
      /\ op[o].pc = "book"
      /\ UNCHANGED <<account, receipt, ledger, resv, resvSaved, tx, txSaved, todo, isolated>>
  BY DEF RefundBooked, Busy, documents, FlushLedger, reservations, transactions
<1>2. /\ op' \in [Op -> OpType] /\ \A p \in Op \ {o} : op'[p] = op[p]
      /\ op'[o].pc = "restore" /\ op'[o].kind = op[o].kind /\ op'[o].a = op[o].a
      /\ op'[o].b = op[o].b /\ op'[o].n = op[o].n
  BY <1>1, Typed, PcsAre, GotoIs
<1>3. TypesInv'
  BY <1>1, <1>2, Facts, QuietTypes
<1>4. op[o].kind \notin Moves \cup KeyedKinds /\ tx[o] = NoTx
  BY <1>1, KindNow DEF Moves, KeyedKinds
<1>5. account[op[o].a].status # "none" /\ op[o].n >= 0
  BY <1>1, <1>4, Facts DEF PlainOK, Native
<1>6. KeyedOK(o)' /\ PlainOK(o)'
  BY <1>1, <1>2, <1>4, <1>5, PlainOn
<1>. QED
  BY <1>1, <1>2, <1>3, <1>4, <1>6, PlainQuiet

\* reservationStore.flush.
LEMMA KeptKeeps ==
  ASSUME IInv, NEW o \in Op, Kept(o)
  PROVE  IInv'
<1>1. /\ Busy(o) /\ op[o].pc = "keep" /\ resvSaved' = resv
      /\ \/ End(o)
         \/ op[o].kind = "consume" /\ Goto(o, "refund")
         \/ op[o].kind = "release" /\ Goto(o, "restore")
      /\ UNCHANGED <<account, receipt, ledger, saved, resv, tx, txSaved, todo, isolated>>
  BY DEF Kept, Busy, documents, FlushReservations, books, transactions
<1>2. op[o].kind \notin Moves \cup KeyedKinds /\ tx[o] = NoTx
  BY <1>1, KindNow
<1>3. op[o].kind = "consume" => account[op[o].a].status # "none" /\ op[o].n >= 0
  BY <1>1, <1>2, Facts DEF PlainOK, Native
<1>4. CASE End(o)
  <2>1. /\ op' \in [Op -> OpType] /\ \A p \in Op \ {o} : op'[p] = op[p]
        /\ op'[o].pc = "done"
    BY <1>4, Typed, EndIs
  <2>2. TypesInv'
    BY <1>1, <2>1, Facts, QuietTypes
  <2>. QED
    BY <1>1, <1>2, <2>1, <2>2, PlainQuiet
<1>5. CASE op[o].kind = "consume" /\ Goto(o, "refund")
  <2>1. /\ op' \in [Op -> OpType] /\ \A p \in Op \ {o} : op'[p] = op[p]
        /\ op'[o].pc = "refund" /\ op'[o].kind = op[o].kind /\ op'[o].a = op[o].a
        /\ op'[o].b = op[o].b /\ op'[o].n = op[o].n
    BY <1>5, Typed, PcsAre, GotoIs
  <2>2. TypesInv'
    BY <1>1, <2>1, Facts, QuietTypes
  <2>3. KeyedOK(o)' /\ PlainOK(o)'
    BY <1>1, <1>2, <1>3, <1>5, <2>1, PlainOn
  <2>. QED
    BY <1>1, <1>2, <2>1, <2>2, <2>3, PlainQuiet
<1>6. CASE op[o].kind = "release" /\ Goto(o, "restore")
  <2>1. /\ op' \in [Op -> OpType] /\ \A p \in Op \ {o} : op'[p] = op[p]
        /\ op'[o].pc = "restore" /\ op'[o].kind = op[o].kind /\ op'[o].a = op[o].a
        /\ op'[o].b = op[o].b /\ op'[o].n = op[o].n
    BY <1>6, Typed, PcsAre, GotoIs
  <2>2. TypesInv'
    BY <1>1, <2>1, Facts, QuietTypes
  <2>3. KeyedOK(o)' /\ PlainOK(o)'
    BY <1>1, <1>2, <1>6, <2>1, PlainOn
  <2>. QED
    BY <1>1, <1>2, <2>1, <2>2, <2>3, PlainQuiet
<1>. QED
  BY <1>1, <1>4, <1>5, <1>6

\* The snapshot of a reservation is put back.
LEMMA PutBack ==
  ASSUME IInv, NEW o \in Op, op[o].pc \in {"spend", "restore"},
         resv' = [resv EXCEPT ![op[o].ref] = op[o].prev],
         op' = [op EXCEPT ![o].pc = "keep", ![o].kind = "reserve"],
         UNCHANGED <<account, receipt, ledger, saved, resvSaved, tx, txSaved, todo, isolated>>
  PROVE  IInv'
<1>1. Busy(o) /\ op[o].kind \notin Moves \cup KeyedKinds /\ tx[o] = NoTx
  BY KindNow DEF Busy
<1>2. "keep" \in Pcs /\ "reserve" \in CmdKinds
  BY DEF Pcs, CmdKinds
<1>3. op \in [Op -> OpType] /\ op[o].prev \in ResvType
  BY Facts DEF OpType
<1>4. op' \in [Op -> OpType]
  BY <1>2, <1>3, ZenonT(30) DEF OpType
<1>5. /\ \A p \in Op \ {o} : op'[p] = op[p]
      /\ op'[o].pc = "keep" /\ op'[o].kind = "reserve" /\ op'[o].a = op[o].a
      /\ op'[o].b = op[o].b
  BY <1>3 DEF OpType
<1>6. resv' \in [Op -> ResvType]
  BY <1>3, Facts
<1>7. TypesInv'
  BY <1>4, <1>6, Typed DEF TypesInv, DocumentsTyped, BooksTyped, StoresTyped, OpsTyped
<1>8. KeyedOK(o)' /\ PlainOK(o)'
  BY <1>1, <1>5, PlainOn DEF Moves, KeyedKinds
<1>9. op'[o].kind \notin Moves
  BY <1>5 DEF Moves
<1>. QED
  BY <1>1, <1>5, <1>7, <1>8, <1>9, PlainQuiet

\* rollbackConsume after a write that failed.
LEMMA SpendFailsKeeps ==
  ASSUME IInv, NEW o \in Op, SpendFails(o)
  PROVE  IInv'
BY PutBack DEF SpendFails, documents, books, transactions

\* rollbackConsume and restore.
LEMMA RestoreKeeps ==
  ASSUME IInv, NEW o \in Op, Restore(o)
  PROVE  IInv'
BY PutBack DEF Restore, documents, books, transactions

\* A reservationStore.flush that throws.
LEMMA KeepFailsKeeps ==
  ASSUME IInv, NEW o \in Op, KeepFails(o)
  PROVE  IInv'
<1>1. /\ Busy(o) /\ op[o].pc = "keep" /\ resvSaved' \in {resvSaved, resv} /\ End(o)
      /\ UNCHANGED <<account, receipt, ledger, saved, resv, tx, txSaved, todo, isolated>>
  BY DEF KeepFails, Busy, documents, books, transactions
<1>2. op[o].kind \notin Moves
  BY <1>1, KindNow
<1>3. /\ op' \in [Op -> OpType] /\ \A p \in Op \ {o} : op'[p] = op[p]
      /\ op'[o].pc = "done"
  BY <1>1, Typed, EndIs
<1>4. TypesInv'
  BY <1>1, <1>3, Facts, QuietTypes
<1>. QED
  BY <1>1, <1>2, <1>3, <1>4, PlainQuiet

\* closeAccount.
LEMMA CloseAccountKeeps ==
  ASSUME IInv, NEW o \in Op, CloseAccount(o)
  PROVE  IInv'
<1>1. /\ Busy(o) /\ op[o].pc = "shut" /\ End(o)
      /\ account' = [account EXCEPT ![op[o].a].status =
                       IF HasHistory(op[o].a) THEN "closed" ELSE "none"]
      /\ UNCHANGED <<receipt, ledger, saved, resv, resvSaved, tx, txSaved, todo, isolated>>
  BY DEF CloseAccount, Busy, books, reservations, transactions
<1>2. op[o].kind \notin Moves /\ op[o].a \in Acct
  BY <1>1, KindNow
<1>3. /\ op' \in [Op -> OpType] /\ \A p \in Op \ {o} : op'[p] = op[p]
      /\ op'[o].pc = "done"
  BY <1>1, Typed, EndIs
<1>4. account[op[o].a].bal = 0
  BY <1>1, <1>2, Facts DEF PlainOK, Bal
<1>5. PICK s \in Statuses : account' = [account EXCEPT ![op[o].a].status = s]
  BY <1>1 DEF Statuses
<1>6. /\ account' \in [Acct -> [status : Statuses, bal : Nat]]
      /\ account'[op[o].a].bal = account[op[o].a].bal
      /\ \A x \in Acct : x # op[o].a => account'[x] = account[x]
  BY <1>2, <1>5, Facts
<1>7. TypesInv'
  BY <1>1, <1>3, <1>6, Typed DEF TypesInv, DocumentsTyped, BooksTyped, StoresTyped, OpsTyped
<1>8. \A x \in Acct : \/ account'[x] = account[x]
                      \/ /\ x = op[o].a /\ account'[x].bal = account[x].bal
                         /\ account'[x].status = "none" => account'[x].bal = 0
  BY <1>2, <1>4, <1>6
<1>. QED
  BY <1>1, <1>2, <1>3, <1>7, <1>8, PlainQuiet

\* A write to one balance.
LEMMA CreditIs ==
  ASSUME TypesInv, NEW a \in Acct, NEW d \in Int, Credit(a, d), account[a].bal + d >= 0
  PROVE  /\ account' \in [Acct -> [status : Statuses, bal : Nat]]
         /\ account'[a].bal = account[a].bal + d
         /\ account'[a].status = account[a].status
         /\ \A x \in Acct : x # a => account'[x] = account[x]
BY DEF TypesInv, DocumentsTyped, Credit

\* LedgerStore.append: the entry gets the next position.
LEMMA AppendIs ==
  ASSUME TypesInv, NEW e \in EntryType, e.rev < Len(ledger) + 1, Append1(e)
  PROVE  /\ BooksTyped' /\ ledger' = Append(ledger, e) /\ saved' = saved
         /\ DOMAIN ledger' = 1 .. Len(ledger) + 1
         /\ \A i \in DOMAIN ledger : ledger'[i] = ledger[i]
         /\ ledger'[Len(ledger) + 1] = e
<1>1. /\ ledger \in Seq(EntryType) /\ saved \in Seq(EntryType)
      /\ Len(saved) <= Len(ledger) /\ \A i \in DOMAIN saved : saved[i] = ledger[i]
      /\ \A i \in DOMAIN ledger : ledger[i].rev < i
  BY DEF TypesInv, BooksTyped
<1>2. DOMAIN ledger = 1 .. Len(ledger) /\ Len(ledger) \in Nat /\ Len(saved) \in Nat
      /\ DOMAIN saved = 1 .. Len(saved)
  BY LedgerDomain
<1>3. ledger' = Append(ledger, e) /\ saved' = saved
  BY DEF Append1
<1>4. ledger' \in Seq(EntryType) /\ Len(ledger') = Len(ledger) + 1
  BY <1>1, <1>3
<1>5. /\ DOMAIN ledger' = 1 .. Len(ledger) + 1
      /\ \A i \in DOMAIN ledger : ledger'[i] = ledger[i]
      /\ ledger'[Len(ledger) + 1] = e
  BY <1>1, <1>2, <1>3
<1>6. \A i \in DOMAIN ledger' : ledger'[i].rev < i
  BY <1>1, <1>2, <1>5
<1>7. Len(saved') <= Len(ledger') /\ \A i \in DOMAIN saved' : saved'[i] = ledger'[i]
  BY <1>1, <1>2, <1>3, <1>4, <1>5
<1>. QED
  BY <1>1, <1>3, <1>4, <1>5, <1>6, <1>7 DEF BooksTyped

\* A write and its entry, without an idempotency key.
LEMMA PlainEntry ==
  ASSUME IInv, TypesInv', NEW o \in Op, Busy(o), op[o].kind \notin Moves,
         UNCHANGED <<receipt, saved, todo, isolated, tx, txSaved>>,
         NEW e \in EntryType, ledger' = Append(ledger, e),
         e.by = o, e.acct = op[o].a, e.ref = 0,
         \A p \in Op \ {o} : op'[p] = op[p],
         op'[o].pc # "idle",
         \/ op'[o].pc = "done"
         \/ /\ op'[o].a = op[o].a /\ op'[o].b = op[o].b /\ op'[o].kind \notin Moves
            /\ KeyedOK(o)' /\ PlainOK(o)',
         \A x \in Acct : x # op[o].a => account'[x] = account[x],
         account'[op[o].a].bal = account[op[o].a].bal + e.delta,
         account'[op[o].a].status # "none"
  PROVE  IInv'
<1>1. PICK n : n = Len(ledger) + 1
  OBVIOUS
<1>2. ledger'[n] = e
  BY <1>1, Typed DEF TypesInv, BooksTyped
<1>3. EntryOK(n)'
  <2>1. op'[e.by].pc # "idle" /\ (Busy(e.by)' => e.acct \in {op'[e.by].a, op'[e.by].b})
    BY DEF Busy
  <2>. QED
    BY <1>2, <2>1 DEF EntryOK, Busy
<1>4. \A r : RefEntries(r)' = RefEntries(r)
  BY Typed, RefsOfAppend
<1>5. \A r \in Ref : Orphan(r)' <=> Orphan(r)
  BY <1>4 DEF Orphan
<1>. QED
  BY <1>1, <1>3, <1>5, PlainBook

\* Names of kinds.
LEMMA EntryKindsAre ==
  /\ "adjustment" \in EntryKinds /\ "consumption" \in EntryKinds
  /\ "opening-balance" \in EntryKinds /\ "reversal" \in EntryKinds
BY DEF EntryKinds

\* The fields of an entry.
LEMMA EntryIs ==
  ASSUME NEW a \in Acct, NEW d \in Int, NEW kind \in EntryKinds, NEW o \in Op,
         NEW ref \in Int, NEW rev \in Nat
  PROVE  \E e \in EntryType : /\ e = Entry(a, d, kind, o, ref, rev)
                              /\ e.acct = a /\ e.delta = d /\ e.by = o /\ e.ref = ref
                              /\ e.rev = rev
<1>1. PICK e : e = Entry(a, d, kind, o, ref, rev)
  OBVIOUS
<1>2. /\ e \in EntryType
      /\ e.acct = a /\ e.delta = d /\ e.by = o /\ e.ref = ref /\ e.rev = rev
  BY <1>1 DEF Entry, EntryType
<1>. QED
  BY <1>1, <1>2, Zenon

\* An entry without a key.
LEMMA PlainEntryIs ==
  ASSUME NEW a \in Acct, NEW d \in Int, NEW kind \in EntryKinds, NEW o \in Op
  PROVE  \E e \in EntryType : /\ e = Entry(a, d, kind, o, 0, 0)
                              /\ e.acct = a /\ e.delta = d /\ e.by = o /\ e.ref = 0 /\ e.rev = 0
<1>1. PICK z \in Nat : z = 0
  OBVIOUS
<1>. QED
  BY <1>1, EntryIs

\* The write of a consumption.
LEMMA SpendKeeps ==
  ASSUME IInv, NEW o \in Op, Spend(o)
  PROVE  IInv'
<1>1. /\ Busy(o) /\ op[o].pc = "spend" /\ Goto(o, "book")
      /\ Credit(op[o].a, -op[o].n)
      /\ Append1(Entry(op[o].a, -op[o].n, "consumption", o, 0, 0))
      /\ UNCHANGED <<receipt, resv, resvSaved, tx, txSaved, todo, isolated>>
  BY DEF Spend, Busy, reservations, transactions
<1>2. /\ op[o].kind \notin Moves \cup KeyedKinds /\ tx[o] = NoTx
      /\ op[o].a \in Acct /\ op[o].n \in Int
  BY <1>1, KindNow
<1>3. /\ op[o].n <= account[op[o].a].bal /\ account[op[o].a].status # "none" /\ op[o].n >= 0
      /\ account[op[o].a].bal \in Nat
  BY <1>1, <1>2, Facts DEF PlainOK, Bal, Native
<1>4. PICK d \in Int : d = -op[o].n
  BY <1>2
<1>5. PICK e \in EntryType : /\ e = Entry(op[o].a, d, "consumption", o, 0, 0)
                             /\ e.acct = op[o].a /\ e.delta = d /\ e.by = o /\ e.ref = 0 /\ e.rev = 0
  BY <1>2, EntryKindsAre, PlainEntryIs
<1>6. /\ account' \in [Acct -> [status : Statuses, bal : Nat]]
      /\ account'[op[o].a].bal = account[op[o].a].bal + d
      /\ account'[op[o].a].status = account[op[o].a].status
      /\ \A x \in Acct : x # op[o].a => account'[x] = account[x]
  BY <1>1, <1>2, <1>3, <1>4, Typed, CreditIs
<1>7. BooksTyped' /\ ledger' = Append(ledger, e) /\ saved' = saved
  <2>1. Append1(e) /\ e.rev < Len(ledger) + 1
    BY <1>1, <1>4, <1>5, Typed, LedgerDomain
  <2>. QED
    BY <2>1, Typed, AppendIs
<1>8. /\ op' \in [Op -> OpType] /\ \A p \in Op \ {o} : op'[p] = op[p]
      /\ op'[o].pc = "book" /\ op'[o].kind = op[o].kind /\ op'[o].a = op[o].a
      /\ op'[o].b = op[o].b /\ op'[o].n = op[o].n
  BY <1>1, Typed, PcsAre, GotoIs
<1>9. TypesInv'
  BY <1>1, <1>6, <1>7, <1>8, Typed DEF TypesInv, DocumentsTyped, StoresTyped, OpsTyped
<1>10. KeyedOK(o)' /\ PlainOK(o)'
  BY <1>1, <1>2, <1>3, <1>6, <1>8, PlainOn
<1>. QED
  BY <1>1, <1>2, <1>3, <1>5, <1>6, <1>7, <1>8, <1>9, <1>10, PlainEntry

\* restoreReservation gives an amount back.
LEMMA RefundKeeps ==
  ASSUME IInv, NEW o \in Op, Refund(o)
  PROVE  IInv'
<1>1. /\ Busy(o) /\ op[o].pc = "refund"
      /\ UNCHANGED <<receipt, resv, resvSaved, tx, txSaved, todo, isolated>>
  BY DEF Refund, Busy, reservations, transactions
<1>2. /\ op[o].kind \notin Moves \cup KeyedKinds /\ tx[o] = NoTx
      /\ op[o].a \in Acct /\ op[o].n \in Int
  BY <1>1, KindNow
<1>3. /\ account[op[o].a].status # "none" /\ op[o].n >= 0 /\ op[o].kind = "consume"
      /\ account[op[o].a].bal \in Nat
  BY <1>1, <1>2, Facts DEF PlainOK, Bal, Native
<1>4. CASE End(o) /\ UNCHANGED <<account, ledger, saved>>
  <2>1. /\ op' \in [Op -> OpType] /\ \A p \in Op \ {o} : op'[p] = op[p]
        /\ op'[o].pc = "done"
    BY <1>4, Typed, EndIs
  <2>2. TypesInv'
    BY <1>1, <1>4, <2>1, Facts, QuietTypes
  <2>. QED
    BY <1>1, <1>2, <1>4, <2>1, <2>2, PlainQuiet
<1>5. CASE /\ Credit(op[o].a, op[o].n)
           /\ Append1(Entry(op[o].a, op[o].n, "adjustment", o, 0, 0))
           /\ op' = [op EXCEPT ![o].pc = "book", ![o].kind = "refund"]
  <2>1. PICK d \in Int : d = op[o].n
    BY <1>2
  <2>2. PICK e \in EntryType : /\ e = Entry(op[o].a, d, "adjustment", o, 0, 0)
                               /\ e.acct = op[o].a /\ e.delta = d /\ e.by = o /\ e.ref = 0 /\ e.rev = 0
    BY <1>2, EntryKindsAre, PlainEntryIs
  <2>3. /\ account' \in [Acct -> [status : Statuses, bal : Nat]]
        /\ account'[op[o].a].bal = account[op[o].a].bal + d
        /\ account'[op[o].a].status = account[op[o].a].status
        /\ \A x \in Acct : x # op[o].a => account'[x] = account[x]
    BY <1>2, <1>3, <1>5, <2>1, Typed, CreditIs
  <2>4. BooksTyped' /\ ledger' = Append(ledger, e) /\ saved' = saved
    <3>1. Append1(e) /\ e.rev < Len(ledger) + 1
      BY <1>5, <2>1, <2>2, Typed, LedgerDomain
    <3>. QED
      BY <3>1, Typed, AppendIs
  <2>5. "book" \in Pcs /\ "refund" \in CmdKinds /\ op \in [Op -> OpType]
    BY Facts DEF Pcs, CmdKinds
  <2>6. op' \in [Op -> OpType]
    BY <1>5, <2>5 DEF OpType
  <2>7. /\ \A p \in Op \ {o} : op'[p] = op[p]
        /\ op'[o].pc = "book" /\ op'[o].kind = "refund" /\ op'[o].a = op[o].a
        /\ op'[o].b = op[o].b /\ op'[o].n = op[o].n
    BY <1>5, <2>5 DEF OpType
  <2>8. TypesInv'
    BY <1>1, <2>3, <2>4, <2>6, Typed DEF TypesInv, DocumentsTyped, StoresTyped, OpsTyped
  <2>9. op'[o].kind \notin Moves \cup KeyedKinds
    BY <2>7 DEF Moves, KeyedKinds
  <2>10. KeyedOK(o)' /\ PlainOK(o)'
    BY <1>1, <1>2, <1>3, <2>3, <2>7, <2>9, PlainOn
  <2>. QED
    BY <1>1, <1>2, <1>3, <2>2, <2>3, <2>4, <2>7, <2>8, <2>9, <2>10, PlainEntry
<1>. QED
  BY <1>4, <1>5 DEF Refund, books

\* The write of a reversal; without reversals of reversals it is booked.
LEMMA ReverseEntryKeeps ==
  ASSUME IInv, NEW o \in Op, ReverseEntry(o)
  PROVE  IInv'
<1>1. /\ Busy(o) /\ op[o].pc = "reverse" /\ Credit(op[o].a, op[o].n)
      /\ UNCHANGED <<receipt, resv, resvSaved, tx, txSaved, todo, isolated>>
  BY DEF ReverseEntry, Busy, reservations, transactions
<1>2. /\ op[o].kind \notin Moves \cup KeyedKinds /\ tx[o] = NoTx
      /\ op[o].a \in Acct /\ op[o].n \in Int
  BY <1>1, KindNow
<1>3. /\ account[op[o].a].status # "none" /\ account[op[o].a].bal + op[o].n >= 0
      /\ account[op[o].a].bal \in Nat
      /\ op[o].ref \in DOMAIN ledger /\ ledger[op[o].ref].kind # "reversal"
  BY <1>1, <1>2, Facts DEF PlainOK, Bal, Native
<1>4. Append1(Entry(op[o].a, op[o].n, "reversal", o, 0, op[o].ref)) /\ Goto(o, "book")
  BY <1>3 DEF ReverseEntry
<1>5. PICK d \in Int : d = op[o].n
  BY <1>2
<1>6. op[o].ref \in Nat /\ op[o].ref < Len(ledger) + 1
  BY <1>3, Typed, LedgerDomain
<1>7. PICK r \in Nat : r = op[o].ref
  BY <1>6
<1>8. PICK e \in EntryType : /\ e = Entry(op[o].a, d, "reversal", o, 0, r)
                             /\ e.acct = op[o].a /\ e.delta = d /\ e.by = o /\ e.ref = 0 /\ e.rev = r
  <2>1. PICK z \in Int : z = 0
    OBVIOUS
  <2>. QED
    BY <2>1, <1>2, EntryIs, EntryKindsAre
<1>9. /\ account' \in [Acct -> [status : Statuses, bal : Nat]]
      /\ account'[op[o].a].bal = account[op[o].a].bal + d
      /\ account'[op[o].a].status = account[op[o].a].status
      /\ \A x \in Acct : x # op[o].a => account'[x] = account[x]
  BY <1>1, <1>2, <1>3, <1>5, Typed, CreditIs
<1>10. BooksTyped' /\ ledger' = Append(ledger, e) /\ saved' = saved
  <2>1. Append1(e) /\ e.rev < Len(ledger) + 1
    BY <1>4, <1>5, <1>6, <1>7, <1>8
  <2>. QED
    BY <2>1, Typed, AppendIs
<1>11. /\ op' \in [Op -> OpType] /\ \A p \in Op \ {o} : op'[p] = op[p]
       /\ op'[o].pc = "book" /\ op'[o].kind = op[o].kind /\ op'[o].a = op[o].a
       /\ op'[o].b = op[o].b /\ op'[o].n = op[o].n
  BY <1>4, Typed, PcsAre, GotoIs
<1>12. TypesInv'
  BY <1>1, <1>9, <1>10, <1>11, Typed DEF TypesInv, DocumentsTyped, StoresTyped, OpsTyped
<1>13. op[o].kind \notin {"consume", "refund"} \/ op[o].n >= 0
  BY <1>1, <1>2, Facts DEF PlainOK
<1>14. KeyedOK(o)' /\ PlainOK(o)'
  BY <1>1, <1>2, <1>3, <1>9, <1>11, <1>13, PlainOn
<1>. QED
  BY <1>1, <1>2, <1>3, <1>8, <1>9, <1>10, <1>11, <1>12, <1>14, PlainEntry

\* createAccount: an initial balance has an opening entry.
LEMMA CreateAccountKeeps ==
  ASSUME IInv, NEW o \in Op, CreateAccount(o)
  PROVE  IInv'
<1>1. /\ Busy(o) /\ op[o].pc = "open"
      /\ account' = [account EXCEPT ![op[o].a] = [status |-> "active", bal |-> op[o].n]]
      /\ UNCHANGED <<receipt, resv, resvSaved, tx, txSaved, todo, isolated>>
  BY DEF CreateAccount, Busy, reservations, transactions
<1>2. /\ op[o].kind \notin Moves \cup KeyedKinds /\ tx[o] = NoTx
      /\ op[o].a \in Acct /\ op[o].n \in Int
  BY <1>1, KindNow
<1>3. /\ account[op[o].a].status = "none" /\ op[o].n >= 0
  BY <1>1, <1>2, Facts DEF PlainOK
<1>4. account[op[o].a].bal = 0
  BY <1>2, <1>3, RestStatus
<1>5. PICK d \in Int : d = op[o].n
  BY <1>2
<1>6. /\ account' \in [Acct -> [status : Statuses, bal : Nat]]
      /\ account'[op[o].a].bal = account[op[o].a].bal + d
      /\ account'[op[o].a].status = "active"
      /\ \A x \in Acct : x # op[o].a => account'[x] = account[x]
  <2>1. "active" \in Statuses /\ d \in Nat
    BY <1>3, <1>5 DEF Statuses
  <2>. QED
    BY <2>1, <1>1, <1>2, <1>4, <1>5, Facts
<1>7. CASE d = 0
  <2>1. End(o) /\ UNCHANGED <<ledger, saved>>
    BY <1>7, <1>5, <1>1 DEF CreateAccount, books
  <2>2. /\ op' \in [Op -> OpType] /\ \A p \in Op \ {o} : op'[p] = op[p]
        /\ op'[o].pc = "done"
    BY <2>1, Typed, EndIs
  <2>3. TypesInv'
    BY <1>1, <1>6, <2>1, <2>2, Typed DEF TypesInv, DocumentsTyped, BooksTyped, StoresTyped, OpsTyped
  <2>4. \A x \in Acct : \/ account'[x] = account[x]
                        \/ /\ x = op[o].a /\ account'[x].bal = account[x].bal
                           /\ account'[x].status = "none" => account'[x].bal = 0
    BY <1>4, <1>6, <1>7
  <2>. QED
    BY <1>1, <1>2, <2>1, <2>2, <2>3, <2>4, PlainQuiet
<1>8. CASE d # 0
  <2>1. Append1(Entry(op[o].a, op[o].n, "opening-balance", o, 0, 0)) /\ Goto(o, "book")
    BY <1>8, <1>5, <1>3 DEF CreateAccount, Native
  <2>2. PICK e \in EntryType : /\ e = Entry(op[o].a, d, "opening-balance", o, 0, 0)
                               /\ e.acct = op[o].a /\ e.delta = d /\ e.by = o /\ e.ref = 0 /\ e.rev = 0
    BY <1>2, EntryKindsAre, PlainEntryIs
  <2>3. BooksTyped' /\ ledger' = Append(ledger, e) /\ saved' = saved
    <3>1. Append1(e) /\ e.rev < Len(ledger) + 1
      BY <2>1, <1>5, <2>2, Typed, LedgerDomain
    <3>. QED
      BY <3>1, Typed, AppendIs
  <2>4. /\ op' \in [Op -> OpType] /\ \A p \in Op \ {o} : op'[p] = op[p]
        /\ op'[o].pc = "book" /\ op'[o].kind = op[o].kind /\ op'[o].a = op[o].a
        /\ op'[o].b = op[o].b /\ op'[o].n = op[o].n
    BY <2>1, Typed, PcsAre, GotoIs
  <2>5. TypesInv'
    BY <1>1, <1>6, <2>3, <2>4, Typed DEF TypesInv, DocumentsTyped, StoresTyped, OpsTyped
  <2>6. KeyedOK(o)' /\ PlainOK(o)'
    BY <1>1, <1>2, <1>3, <1>6, <2>4, PlainOn
  <2>7. account'[op[o].a].status # "none" /\ op'[o].pc # "idle"
    BY <1>6, <2>4
  <2>. QED
    BY <1>1, <1>2, <1>6, <2>2, <2>3, <2>4, <2>5, <2>6, <2>7, PlainEntry
<1>. QED
  BY <1>7, <1>8

\* 0 stands for no key.
LEMMA NoZeroRef == 0 \notin Ref
BY EconomyAssumption DEF Ref

\* The entry that is written for a receipt without one ends an orphan.
LEMMA OrphanBooked ==
  ASSUME TypesInv, NEW r \in Ref, Orphan(r), NEW e \in EntryType,
         ledger' = Append(ledger, e), e.ref = r, receipt' = receipt, NEW a
  PROVE  Orphaned(a)' = Orphaned(a) - (IF AcctOf(r) = a THEN DeltaOf(r) ELSE 0)
<1>1. PICK f : f = [q \in Ref |-> OrphanAt(q, a)]
  OBVIOUS
<1>2. PICK g : g = [q \in Ref |-> OrphanAt(q, a)']
  OBVIOUS
<1>3. /\ f \in [Ref -> Int] /\ Orphaned(a) = SumFunction(f)
  BY <1>1, OrphansType DEF Orphaned
<1>4. \A q \in Ref : OrphanAt(q, a)' \in Int
  BY RefAccounts DEF OrphanAt
<1>5. /\ g \in [Ref -> Int] /\ Orphaned(a)' = SumFunction(g)
  BY <1>2, <1>4 DEF Orphaned
<1>6. ASSUME NEW q \in Ref \ {r} PROVE g[q] = f[q]
  <2>1. RefEntries(q)' = RefEntries(q)
    BY RefsOfAppend
  <2>. QED
    BY <2>1, <1>1, <1>2 DEF OrphanAt, Orphan
<1>7. f[r] = IF AcctOf(r) = a THEN DeltaOf(r) ELSE 0
  BY <1>1 DEF OrphanAt
<1>8. g[r] = 0
  <2>1. RefEntries(r)' # {}
    BY RefsOfAppend, NoZeroRef
  <2>. QED
    BY <2>1, <1>2 DEF OrphanAt, Orphan
<1>9. SumFunction(g) = SumFunction(f) + g[r] - f[r]
  BY <1>3, <1>5, <1>6, OpFinite, SumChanged
<1>10. SumFunction(f) \in Int /\ f[r] \in Int
  BY <1>3, OpFinite, SumIs
<1>. QED
  BY <1>3, <1>5, <1>7, <1>8, <1>9, <1>10

\* A receipt that gets the entry it lacks.
LEMMA OrphanBooks ==
  ASSUME IInv, TypesInv', NEW o \in Op, NEW X, Frame(o, X), NEW x \in Acct,
         NEW r \in Ref, Orphan(r), NEW e \in EntryType,
         ledger' = Append(ledger, e), e.ref = r, e.acct = AcctOf(r), e.delta = DeltaOf(r),
         receipt' = receipt, account' = account, Pending(o, x)' = Pending(o, x)
  PROVE  BooksOK(x)'
<1>1. PICK d \in Int : d = IF AcctOf(r) = x THEN DeltaOf(r) ELSE 0
  BY RefAccounts
<1>2. PICK u \in Int : u = -d
  OBVIOUS
<1>3. PICK z \in Int : z = 0
  OBVIOUS
<1>4. Sum(x)' = Sum(x) + d
  BY <1>1, Typed, BookOne
<1>5. Orphaned(x)' = Orphaned(x) - d
  BY <1>1, Typed, OrphanBooked
<1>6. Orphaned(x) \in Int
  BY OrphansType
<1>7. OpOK(o) /\ TypesInv /\ account[x].bal \in Int
  BY DEF IInv, TypesInv, DocumentsTyped
<1>8. Pending(o, x) \in Int
  BY <1>7, PendingType
<1>9. Orphaned(x)' = Orphaned(x) + u
  BY <1>2, <1>5, <1>6
<1>10. Pending(o, x)' = Pending(o, x) + z
  BY <1>3, <1>8
<1>11. account'[x].bal = account[x].bal + d + u + z
  BY <1>2, <1>3, <1>7
<1>. QED
  BY <1>4, <1>9, <1>10, <1>11, BooksMove

\* An entry of a key that has none yet is its only one.
LEMMA KeyedEntryOK ==
  ASSUME TypesInv, NEW r \in Ref, RefEntries(r) = {}, NEW o \in Op, NEW e \in EntryType,
         ledger' = Append(ledger, e), NEW n, n = Len(ledger) + 1,
         e.by = o, e.ref = r, e.acct = AcctOf(r), e.delta = DeltaOf(r),
         op'[o].pc # "idle", Busy(o)' => e.acct \in {op'[o].a, op'[o].b},
         receipt'[r] # "none"
  PROVE  EntryOK(n)'
<1>1. RefEntries(r)' = {n}
  BY RefsOfAppend, NoZeroRef
<1>2. \A j \in DOMAIN ledger' : ledger'[j].ref = r => j = n
  BY <1>1, NoZeroRef DEF RefEntries
<1>3. ledger'[n] = e
  BY DEF TypesInv, BooksTyped
<1>. QED
  BY <1>2, <1>3 DEF EntryOK, Busy

\* No entry precedes its receipt.
LEMMA RefWritten ==
  ASSUME IInv, NEW r \in Ref, receipt[r] = "none"
  PROVE  RefEntries(r) = {}
<1>1. ASSUME NEW i \in RefEntries(r) PROVE FALSE
  <2>1. i \in DOMAIN ledger /\ ledger[i].ref = r /\ r # 0
    BY <1>1 DEF RefEntries
  <2>2. EntryOK(i)
    BY <2>1, Facts
  <2>. QED
    BY <2>1, <2>2 DEF EntryOK
<1>. QED
  BY <1>1

\* An entry of one key is none of another.
LEMMA OtherRefs ==
  ASSUME TypesInv, NEW e \in EntryType, ledger' = Append(ledger, e), NEW q, q # e.ref
  PROVE  RefEntries(q)' = RefEntries(q)
BY RefsOfAppend

\* A keyed adjustment that is at work.
LEMMA KeyedNow ==
  ASSUME IInv, NEW o \in Op, Busy(o), op[o].kind \in KeyedKinds
  PROVE  /\ op[o].kind \notin Moves /\ tx[o] = NoTx /\ txSaved[o] = NoTx
         /\ o \notin isolated /\ todo = {}
         /\ op[o].ref \in Ref /\ op[o].a = AcctOf(op[o].ref) /\ op[o].a \in Acct
         /\ op[o].b = op[o].a /\ op[o].n = DeltaOf(op[o].ref) /\ op[o].n \in Int
         /\ account[op[o].a].status # "none" /\ account[op[o].a].bal \in Nat
<1>1. KeyedOK(o)
  BY Facts
<1>2. op[o].kind \notin Moves
  BY DEF Moves, KeyedKinds
<1>3. PICK X : X = {op[o].a, op[o].b}
  OBVIOUS
<1>4. /\ todo = {} /\ o \notin isolated /\ tx[o] = NoTx /\ txSaved[o] = NoTx /\ X \subseteq Acct
  BY <1>2, <1>3, Working
<1>5. /\ op[o].ref \in Ref /\ op[o].a = AcctOf(op[o].ref)
      /\ op[o].b = op[o].a /\ op[o].n = DeltaOf(op[o].ref)
      /\ account[op[o].a].status # "none"
  BY <1>1 DEF KeyedOK, Native
<1>6. op[o].a \in Acct /\ op[o].n \in Int
  BY <1>3, <1>4, <1>5, RefAccounts
<1>7. account[op[o].a].bal \in Nat
  BY <1>6, Facts
<1>. QED
  BY <1>2, <1>4, <1>5, <1>6, <1>7

\* Balance, receipt and entry of an adjustment.
LEMMA ApplyKeeps ==
  ASSUME IInv, NEW o \in Op, Apply(o)
  PROVE  IInv'
<1>1. /\ Busy(o) /\ op[o].pc = "apply" /\ Credit(op[o].a, op[o].n)
      /\ receipt' = IF op[o].ref = 0 THEN receipt
                    ELSE [receipt EXCEPT ![op[o].ref] = "applied"]
      /\ Append1(Entry(op[o].a, op[o].n, "adjustment", o, op[o].ref, 0))
      /\ Goto(o, "book")
      /\ UNCHANGED <<resv, resvSaved, tx, txSaved, todo, isolated>>
  BY DEF Apply, Busy, reservations, transactions
<1>2. op[o].kind \notin Moves
  BY <1>1, Facts DEF MoveOK, MovePcs
<1>3. PlainOK(o) /\ KeyedOK(o)
  BY Facts
<1>4. PICK X : X = {op[o].a, op[o].b}
  OBVIOUS
<1>5. /\ op[o].a \in Acct /\ op[o].n \in Int /\ op[o].ref \in Int
      /\ tx[o] = NoTx /\ o \notin isolated /\ txSaved[o] = NoTx
  <2>1. X \subseteq Acct /\ op[o] \in OpType /\ tx[o] = NoTx /\ o \notin isolated
        /\ txSaved[o] = NoTx
    BY <1>1, <1>2, <1>4, Working
  <2>. QED
    BY <2>1, <1>4 DEF OpType
<1>6. /\ account[op[o].a].status # "none" /\ account[op[o].a].bal + op[o].n >= 0
      /\ op[o].kind \notin KeyedKinds => op[o].ref = 0
  BY <1>1, <1>2, <1>3 DEF PlainOK, Native, Bal
<1>7. PICK d \in Int : d = op[o].n
  BY <1>5
<1>8. PICK r \in Int : r = op[o].ref
  BY <1>5
<1>9. PICK e \in EntryType : /\ e = Entry(op[o].a, d, "adjustment", o, r, 0)
                             /\ e.acct = op[o].a /\ e.delta = d /\ e.by = o /\ e.ref = r /\ e.rev = 0
  <2>1. PICK z \in Nat : z = 0
    OBVIOUS
  <2>2. PICK k \in EntryKinds : k = "adjustment"
    BY EntryKindsAre
  <2>3. PICK a \in Acct : a = op[o].a
    BY <1>5
  <2>4. PICK e \in EntryType : /\ e = Entry(a, d, k, o, r, z)
                               /\ e.acct = a /\ e.delta = d /\ e.by = o /\ e.ref = r /\ e.rev = z
    BY EntryIs
  <2>. QED
    BY <2>1, <2>2, <2>3, <2>4
<1>10. /\ account' \in [Acct -> [status : Statuses, bal : Nat]]
       /\ account'[op[o].a].bal = account[op[o].a].bal + d
       /\ account'[op[o].a].status = account[op[o].a].status
       /\ \A x \in Acct : x # op[o].a => account'[x] = account[x]
  BY <1>1, <1>5, <1>6, <1>7, Typed, CreditIs
<1>11. BooksTyped' /\ ledger' = Append(ledger, e) /\ saved' = saved
       /\ DOMAIN ledger' = 1 .. Len(ledger) + 1 /\ ledger'[Len(ledger) + 1] = e
       /\ \A i \in DOMAIN ledger : ledger'[i] = ledger[i]
  <2>1. Append1(e) /\ e.rev < Len(ledger) + 1
    BY <1>1, <1>7, <1>8, <1>9, Typed, LedgerDomain
  <2>. QED
    BY <2>1, Typed, AppendIs
<1>12. /\ op' \in [Op -> OpType] /\ \A p \in Op \ {o} : op'[p] = op[p]
       /\ op'[o].pc = "book" /\ op'[o].kind = op[o].kind /\ op'[o].a = op[o].a
       /\ op'[o].b = op[o].b /\ op'[o].n = op[o].n /\ op'[o].ref = op[o].ref
  BY <1>1, Typed, PcsAre, GotoIs
<1>13. receipt' \in [Ref -> Receipts]
  <2>1. "applied" \in Receipts
    BY DEF Receipts
  <2>. QED
    BY <2>1, <1>1, Facts
<1>14. TypesInv'
  BY <1>1, <1>10, <1>11, <1>12, <1>13, Typed DEF TypesInv, DocumentsTyped, StoresTyped, OpsTyped
<1>15. op'[o].pc # "idle" /\ op'[o].kind \notin Moves
  BY <1>2, <1>12
<1>16. CASE op[o].kind \notin KeyedKinds
  <2>1. /\ op[o].kind \in {"consume", "refund"} => op[o].n >= 0
    BY <1>1, <1>2, <1>3 DEF PlainOK
  <2>2. KeyedOK(o)' /\ PlainOK(o)'
    BY <1>1, <1>2, <1>5, <1>6, <1>10, <1>12, <1>16, <2>1, PlainOn
  <2>3. e.ref = 0 /\ receipt' = receipt
    BY <1>1, <1>6, <1>8, <1>9, <1>16, SMTT(20)
  <2>. QED
    BY <1>1, <1>2, <1>6, <1>9, <1>10, <1>11, <1>12, <1>14, <1>15, <2>2, <2>3, PlainEntry
<1>17. CASE op[o].kind \in KeyedKinds
  <2>1. /\ r \in Ref /\ op[o].a = AcctOf(r) /\ op[o].n = DeltaOf(r) /\ op[o].b = op[o].a
        /\ receipt[r] = "none" /\ r # 0
        /\ op[o].kind = "keyed" => r \in DOMAIN Keyed /\ HasNone(o)
    BY <1>1, <1>3, <1>8, <1>17, NoZeroRef DEF KeyedOK
  <2>2. receipt' = [receipt EXCEPT ![r] = "applied"] /\ receipt'[r] = "applied"
    BY <1>1, <1>8, <2>1, Facts
  <2>3. RefEntries(r) = {}
    BY <2>1, RefWritten
  <2>4. PICK n : n = Len(ledger) + 1
    OBVIOUS
  <2>5. EntryOK(n)'
    BY <1>7, <1>9, <1>11, <1>12, <2>1, <2>2, <2>3, <2>4, Typed, KeyedEntryOK
  <2>6. RefEntries(r)' # {}
    BY <1>9, <1>11, <2>1, Typed, RefsOfAppend
  <2>7. \A q \in Ref : /\ Orphan(q)' <=> Orphan(q)
                       /\ \/ receipt'[q] = receipt[q]
                          \/ /\ AcctOf(q) = op[o].a /\ ConfirmedOK(q)'
                             /\ receipt'[q] # "none"
    <3>1. ASSUME NEW q \in Ref, q # r
          PROVE  receipt'[q] = receipt[q] /\ (Orphan(q)' <=> Orphan(q))
      <4>1. RefEntries(q)' = RefEntries(q)
        <5>1. TypesInv /\ ledger' = Append(ledger, e) /\ q # e.ref
          BY <1>9, <1>11, <3>1, Typed
        <5>. QED
          BY <5>1, OtherRefs
      <4>2. receipt'[q] = receipt[q]
        BY <2>2, <3>1, Facts
      <4>. QED
        BY <4>1, <4>2 DEF Orphan
    <3>2. /\ ~Orphan(r)' /\ ~Orphan(r) /\ AcctOf(r) = op[o].a /\ receipt'[r] # "none"
          /\ ConfirmedOK(r)'
      BY <2>1, <2>2, <2>6 DEF Orphan, ConfirmedOK
    <3>. QED
      BY <3>1, <3>2
  <2>8. EntriesBy(o)' = EntriesBy(o) \cup {n}
    BY <1>9, <1>11, <2>4, Typed, LedgerDomain DEF EntriesBy
  <2>9. KeyedOK(o)'
    <3>1. op[o].kind = "keyed" =>
            /\ \A i, j \in EntriesBy(o)' : i = j
            /\ \A i \in EntriesBy(o)' : ledger'[i].ref # 0
      <4>1. ledger'[n] = e /\ e.ref # 0
        BY <2>1, <2>4, <1>9, <1>11
      <4>2. op[o].kind = "keyed" => EntriesBy(o)' = {n}
        BY <2>1, <2>8 DEF HasNone
      <4>. QED
        BY <4>1, <4>2
    <3>2. RefEntries(op[o].ref)' # {}
      BY <1>8, <1>12, <2>6 DEF RefEntries
    <3>. QED
      BY <1>6, <1>8, <1>10, <1>12, <1>17, <2>1, <3>1, <3>2 DEF KeyedOK, Native, Busy
  <2>10. PlainOK(o)'
    BY <1>1, <1>5, <1>12, <1>17 DEF PlainOK, PlainPcs, KeyedKinds
  <2>. QED
    BY <1>1, <1>2, <1>6, <1>9, <1>10, <1>11, <1>12, <1>14, <1>15, <2>4, <2>5, <2>7, <2>9, <2>10,
       PlainBook
<1>. QED
  BY <1>16, <1>17

\* Entries of an account held by a command that has saved all of its own.
LEMMA HeldDurable ==
  ASSUME IInv, NEW o \in Op, NEW r \in Ref, RefEntries(r) # {},
         \A p \in Op \ {o} : Busy(p) => AcctOf(r)[1] \notin HeldBy(p),
         AllSaved(o)
  PROVE  Durable(r)
<1>1. PICK i \in DOMAIN ledger : ledger[i].ref = r
  BY DEF RefEntries
<1>2. EntryOK(i) /\ r # 0
  BY Facts, NoZeroRef
<1>3. ledger[i].acct = AcctOf(r) /\ ledger[i].by \in Op
  BY <1>1, <1>2, Typed, LedgerDomain DEF EntryOK, EntryType
<1>4. ASSUME Unsaved(i), Busy(ledger[i].by) PROVE FALSE
  <2>1. PICK p \in Op : p = ledger[i].by
    BY <1>3
  <2>2. AcctOf(r) \in {op[p].a, op[p].b}
    BY <1>2, <1>3, <1>4, <2>1 DEF EntryOK
  <2>3. p \notin isolated
    BY <1>4, <2>1, Facts DEF IsolatedOK
  <2>4. AcctOf(r)[1] \in HeldBy(p)
    BY <1>4, <2>1, <2>2, <2>3 DEF HeldBy, Domains
  <2>5. p = o
    BY <2>1, <2>4, <1>4
  <2>. QED
    BY <2>1, <2>5, <1>4 DEF AllSaved, EntriesBy
<1>. QED
  BY <1>1, <1>4 DEF Durable

\* compensateAdjustment goes on under the opposite key.
LEMMA CompensateKeeps ==
  ASSUME IInv, NEW o \in Op, CompensateAdjustment(o)
  PROVE  IInv'
<1>1. PICK e : e = [op[o] EXCEPT !.kind = "undo", !.n = -@, !.ref = -@]
  OBVIOUS
<1>2. /\ op[o].pc = "undo" /\ Busy(o)
      /\ IF KeyCase(e) \in {"apply", "book", "confirm"}
         THEN op' = [op EXCEPT ![o] = [e EXCEPT !.pc = KeyCase(e)]]
         ELSE End(o)
      /\ Reconstruct(o, e)
      /\ UNCHANGED <<account, receipt, saved, resv, resvSaved, tx, txSaved, todo, isolated>>
  BY <1>1 DEF CompensateAdjustment, Busy, documents, reservations, transactions
<1>3. op[o].kind \in KeyedKinds
  <2>1. op[o].kind \notin Moves
    BY <1>2, Facts DEF MoveOK, MovePcs
  <2>. QED
    BY <2>1, <1>2, Facts DEF PlainOK
<1>4. /\ op[o].kind \notin Moves /\ tx[o] = NoTx /\ txSaved[o] = NoTx
      /\ o \notin isolated /\ todo = {}
      /\ op[o].ref \in Ref /\ op[o].a = AcctOf(op[o].ref) /\ op[o].a \in Acct
      /\ op[o].b = op[o].a /\ op[o].n = DeltaOf(op[o].ref) /\ op[o].n \in Int
      /\ account[op[o].a].status # "none" /\ account[op[o].a].bal \in Nat
  BY <1>2, <1>3, KeyedNow
<1>5. op[o].ref \in DOMAIN Keyed /\ AllSaved(o)
  BY <1>2, <1>3, Facts DEF KeyedOK
<1>6. PICK r \in Ref : /\ r = -op[o].ref /\ AcctOf(r) = op[o].a /\ DeltaOf(r) = -op[o].n
                       /\ r \in Int
  BY <1>4, <1>5, RefAccounts
<1>7. op \in [Op -> OpType] /\ op[o] \in OpType
  BY Facts
<1>8. /\ e \in OpType /\ e.kind = "undo" /\ e.a = op[o].a /\ e.b = op[o].b /\ e.ref = r
      /\ e.n = DeltaOf(r)
  <2>1. "undo" \in CmdKinds /\ -op[o].n \in Int
    BY <1>4 DEF CmdKinds
  <2>. QED
    BY <1>1, <1>6, <1>7, <2>1 DEF OpType
<1>9. CASE KeyCase(e) \notin {"apply", "book", "confirm"}
  <2>1. End(o) /\ ledger' = ledger
    BY <1>2, <1>9 DEF Reconstruct
  <2>2. /\ op' \in [Op -> OpType] /\ \A p \in Op \ {o} : op'[p] = op[p]
        /\ op'[o].pc = "done"
    BY <2>1, Typed, EndIs
  <2>3. TypesInv'
    BY <1>2, <2>1, <2>2, Facts, QuietTypes
  <2>. QED
    BY <1>2, <1>4, <2>1, <2>2, <2>3, PlainQuiet
<1>10. ASSUME KeyCase(e) \in {"apply", "book", "confirm"}
       PROVE  /\ op' \in [Op -> OpType] /\ \A p \in Op \ {o} : op'[p] = op[p]
              /\ op'[o].pc = KeyCase(e) /\ op'[o].kind = "undo" /\ op'[o].a = op[o].a
              /\ op'[o].b = op[o].b /\ op'[o].ref = r /\ op'[o].n = DeltaOf(r)
  <2>1. PICK pc \in Pcs : pc = KeyCase(e)
    BY <1>10 DEF Pcs
  <2>2. op' = [op EXCEPT ![o] = [e EXCEPT !.pc = pc]]
    BY <1>2, <1>10, <2>1
  <2>3. PICK f : f = [e EXCEPT !.pc = pc]
    OBVIOUS
  <2>4. /\ f \in OpType /\ f.pc = pc /\ f.kind = "undo" /\ f.a = op[o].a /\ f.b = op[o].b
        /\ f.ref = r /\ f.n = DeltaOf(r)
    BY <1>8, <2>3 DEF OpType
  <2>. QED
    BY <1>7, <2>1, <2>2, <2>3, <2>4
<1>11. AllSaved(o)' <=> \A i \in EntriesBy(o)' : ~(i > Len(saved))
  BY <1>2 DEF AllSaved, Unsaved
<1>12. CASE KeyCase(e) = "apply"
  <2>1. ledger' = ledger
    BY <1>2, <1>12 DEF Reconstruct
  <2>2. RefEntries(r) = {} /\ receipt[r] = "none" /\ account[op[o].a].bal + DeltaOf(r) >= 0
    <3>1. /\ RefEntries(e.ref) = {} /\ receipt[e.ref] = "none"
          /\ Allowed(e.a, Bal(e.a) + e.n)
      BY <1>12 DEF KeyCase
    <3>. QED
      BY <1>8, <3>1 DEF Allowed, Bal
  <2>3. TypesInv'
    BY <1>2, <1>10, <1>12, <2>1, Facts, QuietTypes
  <2>4. KeyedOK(o)'
    BY <1>2, <1>4, <1>6, <1>8, <1>10, <1>12, <2>2 DEF KeyedOK, Native
  <2>5. PlainOK(o)'
    BY <1>2, <1>4, <1>10, <1>12, <2>2 DEF PlainOK, PlainPcs, KeyedKinds, Native, Bal
  <2>6. op'[o].pc # "idle" /\ op'[o].kind \notin Moves
    BY <1>10, <1>12 DEF Moves
  <2>. QED
    BY <1>2, <1>4, <1>10, <1>12, <2>1, <2>3, <2>4, <2>5, <2>6, PlainQuiet
<1>13. CASE KeyCase(e) = "confirm"
  <2>1. ledger' = ledger
    BY <1>2, <1>13 DEF Reconstruct
  <2>2. RefEntries(r) # {}
    BY <1>13, <1>8 DEF KeyCase
  <2>3. TypesInv'
    BY <1>2, <1>10, <1>13, <2>1, Facts, QuietTypes
  <2>4. Durable(r)
    <3>1. op[o].a[1] \in HeldBy(o)
      BY <1>2, <1>4 DEF HeldBy, Domains
    <3>2. \A p \in Op \ {o} : op[o].a[1] \notin HeldBy(p)
      BY <3>1, Facts DEF Exclusive
    <3>. QED
      BY <1>5, <1>6, <2>2, <3>2, HeldDurable
  <2>5. Durable(r)'
    <3>1. PICK i \in DOMAIN ledger : ledger[i].ref = r /\ (~Unsaved(i) \/ ~Busy(ledger[i].by))
      BY <2>4 DEF Durable
    <3>2. Busy(ledger[i].by)' => Busy(ledger[i].by)
      <4>1. ledger[i].by \in Op
        BY Typed, LedgerDomain DEF EntryType
      <4>. QED
        BY <1>2, <1>10, <1>13, <2>1, <4>1 DEF Busy
    <3>. QED
      BY <1>2, <2>1, <3>1, <3>2 DEF Durable, Unsaved, Busy
  <2>6. AllSaved(o)'
    BY <1>2, <1>5, <2>1 DEF AllSaved, Unsaved, EntriesBy
  <2>7. KeyedOK(o)'
    <3>1. Durable(op[o].ref)'
      BY <1>10, <1>13, <2>5 DEF Durable
    <3>. QED
      BY <1>2, <1>4, <1>6, <1>8, <1>10, <1>13, <2>6, <3>1 DEF KeyedOK, Native
  <2>8. PlainOK(o)'
    BY <1>2, <1>4, <1>10, <1>13 DEF PlainOK, PlainPcs, KeyedKinds
  <2>9. op'[o].pc # "idle" /\ op'[o].kind \notin Moves
    BY <1>10, <1>13 DEF Moves
  <2>. QED
    BY <1>2, <1>4, <1>10, <1>13, <2>1, <2>3, <2>7, <2>8, <2>9, PlainQuiet
<1>14. CASE KeyCase(e) = "book"
  <2>1. RefEntries(r) = {} /\ receipt[r] # "none"
    BY <1>14, <1>8 DEF KeyCase
  <2>2. Orphan(r)
    BY <2>1 DEF Orphan
  <2>3. PICK d \in Int : d = DeltaOf(r)
    BY RefAccounts
  <2>4. PICK z \in Nat : z = 0
    OBVIOUS
  <2>5. PICK g \in EntryType : /\ g = Entry(op[o].a, d, "adjustment", o, r, z) /\ g.acct = op[o].a
                               /\ g.delta = d /\ g.by = o /\ g.ref = r /\ g.rev = 0
    BY <1>4, <1>6, <2>4, EntryIs, EntryKindsAre
  <2>6. Append1(g) /\ g.rev < Len(ledger) + 1
    BY <1>2, <1>8, <1>14, <2>3, <2>4, <2>5, Typed, LedgerDomain DEF Reconstruct, Append1
  <2>7. /\ BooksTyped' /\ ledger' = Append(ledger, g) /\ saved' = saved
        /\ DOMAIN ledger' = 1 .. Len(ledger) + 1 /\ ledger'[Len(ledger) + 1] = g
        /\ \A i \in DOMAIN ledger : ledger'[i] = ledger[i]
    BY <2>6, Typed, AppendIs
  <2>8. TypesInv'
    BY <1>2, <1>10, <1>14, <2>7, Typed DEF TypesInv, DocumentsTyped, StoresTyped, OpsTyped
  <2>9. PICK n : n = Len(ledger) + 1
    OBVIOUS
  <2>10. op'[o].pc = "book" /\ op'[o].kind \notin Moves
    BY <1>10, <1>14 DEF Moves
  <2>11. EntryOK(n)'
    <3>1. receipt'[r] # "none" /\ (Busy(o)' => g.acct \in {op'[o].a, op'[o].b})
      BY <1>2, <1>10, <1>14, <2>1, <2>5
    <3>2. g.acct = AcctOf(r) /\ g.delta = DeltaOf(r) /\ op'[o].pc # "idle"
      BY <1>6, <2>3, <2>5, <2>10
    <3>3. /\ TypesInv /\ RefEntries(r) = {} /\ ledger' = Append(ledger, g)
          /\ n = Len(ledger) + 1 /\ g.by = o /\ g.ref = r
      BY <2>1, <2>5, <2>7, <2>9, Typed
    <3>. QED
      BY <3>1, <3>2, <3>3, KeyedEntryOK
  <2>12. RefEntries(r)' # {}
    BY <2>5, <2>7, NoZeroRef, Typed, RefsOfAppend, ZenonT(60)
  <2>13. KeyedOK(o)'
    <3>1. RefEntries(op[o].ref)' # {}
      BY <1>10, <1>14, <2>12 DEF RefEntries
    <3>. QED
      BY <1>2, <1>4, <1>6, <1>8, <1>10, <1>14, <3>1 DEF KeyedOK, Native
  <2>14. PlainOK(o)'
    BY <1>2, <1>4, <1>10, <1>14 DEF PlainOK, PlainPcs, KeyedKinds
  <2>15. OpOK(o)' /\ op'[o].pc \notin {"credit", "rollback"}
    BY <1>2, <1>4, <2>8, <2>10, <2>13, <2>14, PlainOpOK
  <2>16. PICK X : X = {op[o].a, op[o].b}
    OBVIOUS
  <2>17. Grows(o, X)
    <3>1. Len(ledger) \in Nat /\ DOMAIN ledger = 1 .. Len(ledger) /\ Len(ledger') = Len(ledger) + 1
      BY <2>7, Typed, LedgerDomain DEF TypesInv, BooksTyped
    <3>. QED
      BY <2>5, <2>7, <2>16, <3>1 DEF Grows
  <2>18. Frame(o, X)
    BY <1>2, <1>10, <1>14, <2>10, <2>16, <2>17, CommandFrame
  <2>19. X \subseteq Acct
    BY <1>4, <2>16
  <2>20. ASSUME NEW x \in X PROVE BooksOK(x)'
    <3>1. Pending(o, x)' = 0 /\ Pending(o, x) = 0
      BY <1>2, <1>4, <2>15, PlainPending
    <3>2. g.acct = AcctOf(r) /\ g.delta = DeltaOf(r) /\ x \in Acct
      BY <1>6, <2>3, <2>5, <2>19
    <3>3. Pending(o, x)' = Pending(o, x) /\ receipt' = receipt /\ account' = account
      BY <1>2, <3>1
    <3>. QED
      BY <2>2, <2>5, <2>7, <2>8, <2>18, <3>2, <3>3, OrphanBooks
  <2>21. \A i \in DOMAIN ledger' \ DOMAIN ledger : EntryOK(i)'
    <3>1. ASSUME NEW i \in DOMAIN ledger' \ DOMAIN ledger PROVE i = n
      BY <2>7, <2>9, Typed, LedgerDomain
    <3>. QED
      BY <2>11, <3>1
  <2>22. \A x \in X : account'[x].status = "none" => account'[x].bal = 0
    BY <1>2, <2>19, RestStatus
  <2>23. Own(o, X)
    BY <1>2, <1>10, <1>14, <2>8, <2>15, <2>16, <2>20, <2>21, <2>22, CommandOwn
  <2>. QED
    BY <2>18, <2>23, StepKeeps
<1>. QED
  BY <1>9, <1>12, <1>13, <1>14

----------------------------------------------------------------------------
\* Moves.

\* A command that is a move.
LEMMA MoveNow ==
  ASSUME IInv, NEW o \in Op, Busy(o),
         \/ op[o].pc \in {"journal", "debit", "exchange", "credit", "rollback", "close tx"}
         \/ op[o].pc = "book" /\ op[o].kind \in Moves
  PROVE  /\ op[o].kind \in Moves /\ op[o] \in OpType
         /\ todo = {} /\ o \notin isolated
         /\ tx[o] \in TxType /\ tx[o] # NoTx /\ TxOK(o) /\ MoveOK(o)
         /\ tx[o].a = op[o].a /\ tx[o].b = op[o].b /\ tx[o].n = op[o].n /\ tx[o].m = op[o].m
         /\ tx[o].kind = op[o].kind /\ op[o].a # op[o].b
         /\ op[o].a \in Acct /\ op[o].b \in Acct /\ op[o].n \in Nat \ {0} /\ op[o].m \in Nat \ {0}
         /\ tx[o].a0 \in Nat /\ tx[o].b0 \in Nat
         /\ account[op[o].a].status # "none" /\ account[op[o].b].status # "none"
         /\ txSaved[o] \in TxType
<1>1. TypesInv /\ TxOK(o) /\ MoveOK(o) /\ PlainOK(o)
  BY Facts
<1>2. op[o].kind \in Moves
  BY <1>1 DEF PlainOK, PlainPcs
<1>3. PICK X : X = {op[o].a, op[o].b}
  OBVIOUS
<1>4. todo = {} /\ o \notin isolated /\ X \subseteq Acct /\ op[o] \in OpType
  BY <1>3, Working
<1>5. tx[o] \in TxType /\ txSaved[o] \in TxType
  BY <1>1 DEF TypesInv, StoresTyped
<1>6. /\ tx[o] # NoTx /\ tx[o].a = op[o].a /\ tx[o].b = op[o].b /\ tx[o].n = op[o].n
      /\ tx[o].m = op[o].m /\ tx[o].kind = op[o].kind
      /\ account[tx[o].a].status # "none" /\ account[tx[o].b].status # "none"
  BY <1>1, <1>2 DEF MoveOK, Native
<1>7. tx[o].a # tx[o].b
  BY <1>1, <1>6 DEF TxOK
<1>8. tx[o].n \in Nat \ {0} /\ tx[o].m \in Nat \ {0} /\ tx[o].a0 \in Nat /\ tx[o].b0 \in Nat
  BY <1>5, <1>6 DEF TxType
<1>. QED
  BY <1>1, <1>2, <1>3, <1>4, <1>5, <1>6, <1>7, <1>8

\* A transaction changes its state and nothing else.
LEMMA TxEndsIs ==
  ASSUME TypesInv, NEW o \in Op, tx[o] # NoTx, NEW s \in TxStates, TxEnds(o, s)
  PROVE  /\ tx' \in [Op -> TxType] /\ \A p \in Op \ {o} : tx'[p] = tx[p]
         /\ tx'[o] = [tx[o] EXCEPT !.state = s] /\ tx'[o].state = s /\ tx'[o] # NoTx
         /\ tx'[o].kind = tx[o].kind /\ tx'[o].a = tx[o].a /\ tx'[o].b = tx[o].b
         /\ tx'[o].n = tx[o].n /\ tx'[o].m = tx[o].m
         /\ tx'[o].a0 = tx[o].a0 /\ tx'[o].b0 = tx[o].b0
<1>1. tx \in [Op -> TxType]
  BY DEF TypesInv, StoresTyped
<1>2. tx[o] \in [state : TxStates, kind : Moves, a : Acct, b : Acct, n : Nat \ {0},
                 m : Nat \ {0}, a0 : Nat, b0 : Nat]
  BY <1>1 DEF TxType
<1>3. PICK t : t = [tx[o] EXCEPT !.state = s]
  OBVIOUS
<1>4. /\ t \in TxType /\ t.state = s
      /\ t.kind = tx[o].kind /\ t.a = tx[o].a /\ t.b = tx[o].b
      /\ t.n = tx[o].n /\ t.m = tx[o].m /\ t.a0 = tx[o].a0 /\ t.b0 = tx[o].b0
  BY <1>2, <1>3 DEF TxType
<1>5. t # NoTx
  BY <1>4 DEF NoTx, TxStates
<1>6. tx' = [tx EXCEPT ![o] = t]
  BY <1>1, <1>3 DEF TxEnds
<1>. QED
  BY <1>1, <1>3, <1>4, <1>5, <1>6

\* Types through a step of a move that moves no money.
LEMMA MoveTypes ==
  ASSUME TypesInv, UNCHANGED <<account, receipt, ledger, resv, resvSaved, todo, isolated>>,
         saved' \in {saved, ledger}, tx' \in [Op -> TxType], txSaved' \in {txSaved, tx, tx'},
         op' \in [Op -> OpType]
  PROVE  TypesInv'
<1>1. DocumentsTyped' /\ StoresTyped' /\ OpsTyped'
  BY DEF TypesInv, DocumentsTyped, StoresTyped, OpsTyped
<1>2. BooksTyped'
  BY DEF TypesInv, BooksTyped
<1>. QED
  BY <1>1, <1>2 DEF TypesInv

\* ... and what is booked for it.
LEMMA EntriesStay ==
  ASSUME TypesInv, NEW o \in Op, ledger' = ledger, saved' \in {saved, ledger},
         tx'[o].kind = tx[o].kind, tx'[o].a = tx[o].a, tx'[o].b = tx[o].b,
         tx'[o].n = tx[o].n, tx'[o].m = tx[o].m
  PROVE  /\ HasBoth(o) => HasBoth(o)'
         /\ HasNone(o)' <=> HasNone(o)
         /\ AllSaved(o) => AllSaved(o)'
         /\ saved' = ledger => AllSaved(o)'
<1>1. DOMAIN ledger = 1 .. Len(ledger) /\ Len(ledger) \in Nat /\ Len(saved) \in Nat
      /\ Len(saved) <= Len(ledger)
  BY LedgerDomain DEF TypesInv, BooksTyped
<1>2. EntriesBy(o)' = EntriesBy(o) /\ EntriesBy(o) \subseteq DOMAIN ledger
  BY DEF EntriesBy
<1>3. HasBoth(o) => HasBoth(o)'
  BY <1>1, <1>2 DEF HasBoth
<1>4. HasNone(o)' <=> HasNone(o)
  BY <1>2 DEF HasNone
<1>5. AllSaved(o) => AllSaved(o)'
  BY <1>1, <1>2 DEF AllSaved, Unsaved
<1>6. saved' = ledger => AllSaved(o)'
  BY <1>1, <1>2 DEF AllSaved, Unsaved
<1>. QED
  BY <1>3, <1>4, <1>5, <1>6

\* A move has nothing of the other commands to show.
LEMMA MoveOpOK ==
  ASSUME NEW o \in Op, o \notin isolated', TxOK(o)',
         op'[o].pc = "done" \/ (op'[o].kind \in Moves /\ MoveOK(o)')
  PROVE  OpOK(o)'
<1>1. IsolatedOK(o)'
  BY DEF IsolatedOK
<1>2. CASE op'[o].pc = "done"
  <2>1. MoveOK(o)' /\ KeyedOK(o)' /\ PlainOK(o)'
    BY <1>2 DEF MoveOK, KeyedOK, PlainOK, Busy
  <2>. QED
    BY <1>1, <2>1 DEF OpOK
<1>3. CASE op'[o].kind \in Moves /\ MoveOK(o)'
  <2>1. KeyedOK(o)' /\ PlainOK(o)'
    BY <1>3 DEF KeyedOK, PlainOK, KeyedKinds, Moves
  <2>. QED
    BY <1>1, <1>3, <2>1 DEF OpOK
<1>. QED
  BY <1>2, <1>3

Halved(o) == op[o].pc \in {"credit", "rollback"} \/ tx[o].state = "needs-recovery"

\* A step of a move that moves no money.
LEMMA MoveQuiet ==
  ASSUME IInv, TypesInv', NEW o \in Op, Busy(o), op[o].kind \in Moves,
         UNCHANGED <<account, receipt, ledger, todo, isolated>>, saved' \in {saved, ledger},
         \A p \in Op \ {o} : /\ op'[p] = op[p] /\ tx'[p] = tx[p]
                             /\ txSaved'[p] \in {txSaved[p], tx[p]},
         op'[o].pc # "idle",
         op'[o].pc = "done" \/ (op'[o].a = op[o].a /\ op'[o].b = op[o].b),
         o \notin isolated, tx[o] # NoTx,
         tx'[o].a = tx[o].a, tx'[o].b = tx[o].b, tx'[o].n = tx[o].n,
         TxOK(o)', op'[o].pc = "done" \/ (op'[o].kind \in Moves /\ MoveOK(o)'),
         Halved(o)' <=> Halved(o)
  PROVE  IInv'
<1>1. OpOK(o)'
  BY MoveOpOK
<1>2. \A x \in Acct : Pending(o, x)' = Pending(o, x)
  BY DEF Pending, Side, Halved
<1>. QED
  BY <1>1, <1>2, QuietStep

\* The record of a move is durable.
LEMMA TxFlushedKeeps ==
  ASSUME IInv, NEW o \in Op, TxFlushed(o)
  PROVE  IInv'
<1>1. /\ op[o].pc = "journal" /\ Busy(o) /\ txSaved' = tx
      /\ Goto(o, IF op[o].kind = "transfer" THEN "debit" ELSE "exchange")
      /\ UNCHANGED <<account, receipt, ledger, saved, resv, resvSaved, tx, todo, isolated>>
  BY DEF TxFlushed, Busy, documents, books, reservations
<1>2. /\ op[o].kind \in Moves /\ o \notin isolated /\ tx[o] # NoTx /\ TxOK(o) /\ MoveOK(o)
  BY <1>1, MoveNow
<1>3. PICK pc \in Pcs : /\ pc = IF op[o].kind = "transfer" THEN "debit" ELSE "exchange"
                        /\ pc \in {"debit", "exchange"}
  BY PcsAre
<1>4. Goto(o, pc)
  BY <1>1, <1>3
<1>5. /\ op' \in [Op -> OpType] /\ \A p \in Op \ {o} : op'[p] = op[p]
      /\ op'[o].pc = pc /\ op'[o].kind = op[o].kind /\ op'[o].a = op[o].a
      /\ op'[o].b = op[o].b /\ op'[o].n = op[o].n /\ op'[o].m = op[o].m
  BY <1>4, Typed, GotoIs
<1>6. TypesInv'
  BY <1>1, <1>5, Facts, QuietTypes
<1>7. /\ HasBoth(o) => HasBoth(o)'
      /\ HasNone(o)' <=> HasNone(o)
      /\ AllSaved(o) => AllSaved(o)'
  BY <1>1, Typed, EntriesStay
<1>8. TxOK(o)'
  BY <1>1, <1>2, <1>3, <1>5, <1>7 DEF TxOK
<1>9. MoveOK(o)'
  BY <1>1, <1>2, <1>3, <1>5, <1>7 DEF MoveOK, MovePcs, Untouched, Debited, Credited, Native, Bal
<1>10. Halved(o)' <=> Halved(o)
  BY <1>1, <1>3, <1>5 DEF Halved
<1>11. op'[o].pc # "idle"
  BY <1>3, <1>5
<1>. QED
  BY <1>1, <1>2, <1>5, <1>6, <1>8, <1>9, <1>10, <1>11, MoveQuiet

\* transactionStore.flush throws.
LEMMA TxFlushFailsKeeps ==
  ASSUME IInv, NEW o \in Op, TxFlushFails(o)
  PROVE  IInv'
<1>1. /\ op[o].pc \in {"journal", "close tx"} /\ Busy(o) /\ txSaved' \in {txSaved, tx}
      /\ End(o)
      /\ UNCHANGED <<account, receipt, ledger, saved, resv, resvSaved, tx, todo, isolated>>
  BY DEF TxFlushFails, Busy, documents, books, reservations
<1>2. /\ op[o].kind \in Moves /\ o \notin isolated /\ tx[o] # NoTx /\ TxOK(o)
  BY <1>1, MoveNow
<1>3. /\ op' \in [Op -> OpType] /\ \A p \in Op \ {o} : op'[p] = op[p]
      /\ op'[o].pc = "done"
  BY <1>1, Typed, EndIs
<1>4. TypesInv'
  BY <1>1, <1>3, Facts, QuietTypes
<1>5. /\ HasBoth(o) => HasBoth(o)'
      /\ HasNone(o)' <=> HasNone(o)
      /\ AllSaved(o) => AllSaved(o)'
  BY <1>1, Typed, EntriesStay
<1>6. TxOK(o)'
  BY <1>1, <1>2, <1>3, <1>5 DEF TxOK
<1>7. Halved(o)' <=> Halved(o)
  BY <1>1, <1>3 DEF Halved
<1>. QED
  BY <1>1, <1>2, <1>3, <1>4, <1>6, <1>7, MoveQuiet

\* The outcome of a move is durable.
LEMMA TxClosedKeeps ==
  ASSUME IInv, NEW o \in Op, TxClosed(o)
  PROVE  IInv'
<1>1. /\ op[o].pc = "close tx" /\ Busy(o) /\ txSaved' = tx
      /\ End(o)
      /\ UNCHANGED <<account, receipt, ledger, saved, resv, resvSaved, tx, todo, isolated>>
  BY DEF TxClosed, Busy, documents, books, reservations
<1>2. /\ op[o].kind \in Moves /\ o \notin isolated /\ tx[o] # NoTx /\ TxOK(o)
  BY <1>1, MoveNow
<1>3. /\ op' \in [Op -> OpType] /\ \A p \in Op \ {o} : op'[p] = op[p]
      /\ op'[o].pc = "done"
  BY <1>1, Typed, EndIs
<1>4. TypesInv'
  BY <1>1, <1>3, Facts, QuietTypes
<1>5. /\ HasBoth(o) => HasBoth(o)'
      /\ HasNone(o)' <=> HasNone(o)
      /\ AllSaved(o) => AllSaved(o)'
  BY <1>1, Typed, EntriesStay
<1>6. TxOK(o)'
  BY <1>1, <1>2, <1>3, <1>5 DEF TxOK
<1>7. Halved(o)' <=> Halved(o)
  BY <1>1, <1>3 DEF Halved
<1>. QED
  BY <1>1, <1>2, <1>3, <1>4, <1>6, <1>7, MoveQuiet

\* The credit of a transfer fails.
LEMMA CreditFailsKeeps ==
  ASSUME IInv, NEW o \in Op, CreditFails(o)
  PROVE  IInv'
<1>1. /\ op[o].pc = "credit" /\ Busy(o) /\ Goto(o, "rollback")
      /\ UNCHANGED <<account, receipt, ledger, saved, resv, resvSaved, tx, txSaved, todo, isolated>>
  BY DEF CreditFails, Busy, documents, books, reservations, transactions
<1>2. /\ op[o].kind \in Moves /\ o \notin isolated /\ tx[o] # NoTx /\ TxOK(o) /\ MoveOK(o)
  BY <1>1, MoveNow
<1>5. /\ op' \in [Op -> OpType] /\ \A p \in Op \ {o} : op'[p] = op[p]
      /\ op'[o].pc = "rollback" /\ op'[o].kind = op[o].kind /\ op'[o].a = op[o].a
      /\ op'[o].b = op[o].b /\ op'[o].n = op[o].n /\ op'[o].m = op[o].m
  BY <1>1, Typed, PcsAre, GotoIs
<1>6. TypesInv'
  BY <1>1, <1>5, Facts, QuietTypes
<1>7. /\ HasBoth(o) => HasBoth(o)'
      /\ HasNone(o)' <=> HasNone(o)
      /\ AllSaved(o) => AllSaved(o)'
  BY <1>1, Typed, EntriesStay
<1>8. TxOK(o)'
  BY <1>1, <1>2, <1>5, <1>7 DEF TxOK
<1>9. MoveOK(o)'
  BY <1>1, <1>2, <1>5, <1>7 DEF MoveOK, MovePcs, Untouched, Debited, Credited, Native, Bal, Busy
<1>10. Halved(o)' <=> Halved(o)
  BY <1>1, <1>5 DEF Halved
<1>. QED
  BY <1>1, <1>2, <1>5, <1>6, <1>8, <1>9, <1>10, MoveQuiet

\* The first write of a move fails.
LEMMA DebitFailsKeeps ==
  ASSUME IInv, NEW o \in Op, DebitFails(o)
  PROVE  IInv'
<1>1. /\ op[o].pc \in {"debit", "exchange"} /\ Busy(o) /\ Goto(o, "close tx")
      /\ TxEnds(o, "failed")
      /\ UNCHANGED <<account, receipt, ledger, saved, resv, resvSaved, txSaved, todo, isolated>>
  BY DEF DebitFails, Busy, documents, books, reservations
<1>2. /\ op[o].kind \in Moves /\ o \notin isolated /\ tx[o] # NoTx /\ TxOK(o) /\ MoveOK(o)
  BY <1>1, MoveNow
<1>3. "failed" \in TxStates
  BY DEF TxStates
<1>4. /\ tx' \in [Op -> TxType] /\ \A p \in Op \ {o} : tx'[p] = tx[p]
      /\ tx'[o] = [tx[o] EXCEPT !.state = "failed"] /\ tx'[o].state = "failed" /\ tx'[o] # NoTx
      /\ tx'[o].kind = tx[o].kind /\ tx'[o].a = tx[o].a /\ tx'[o].b = tx[o].b
      /\ tx'[o].n = tx[o].n /\ tx'[o].m = tx[o].m
      /\ tx'[o].a0 = tx[o].a0 /\ tx'[o].b0 = tx[o].b0
  BY <1>1, <1>2, <1>3, Typed, TxEndsIs
<1>5. /\ op' \in [Op -> OpType] /\ \A p \in Op \ {o} : op'[p] = op[p]
      /\ op'[o].pc = "close tx" /\ op'[o].kind = op[o].kind /\ op'[o].a = op[o].a
      /\ op'[o].b = op[o].b /\ op'[o].n = op[o].n /\ op'[o].m = op[o].m
  BY <1>1, Typed, PcsAre, GotoIs
<1>6. TypesInv'
  BY <1>1, <1>4, <1>5, Typed, MoveTypes
<1>7. /\ HasBoth(o) => HasBoth(o)'
      /\ HasNone(o)' <=> HasNone(o)
      /\ AllSaved(o) => AllSaved(o)'
  BY <1>1, <1>4, Typed, EntriesStay
<1>8. tx[o].state = "committing" /\ HasNone(o) /\ txSaved[o] # NoTx
  BY <1>1, <1>2 DEF MoveOK
<1>9. TxOK(o)'
  <2>1. txSaved[o] = tx[o] => Unresolved(txSaved[o])
    BY <1>8 DEF Unresolved, Final
  <2>2. Unresolved(txSaved[o]) /\ tx[o] = [txSaved[o] EXCEPT !.state = tx[o].state]
    BY <1>2, <1>8, <2>1, Typed DEF TxOK, TypesInv, StoresTyped, TxType
  <2>3. tx'[o] = [txSaved[o] EXCEPT !.state = tx'[o].state]
    BY <2>2, <1>4, <1>8, Typed DEF TypesInv, StoresTyped, TxType
  <2>. QED
    BY <1>1, <1>2, <1>4, <1>5, <1>7, <1>8, <2>2, <2>3 DEF TxOK, Unresolved
<1>10. MoveOK(o)'
  BY <1>1, <1>2, <1>4, <1>5, <1>7, <1>8, ZenonT(40) DEF MoveOK, MovePcs, Untouched, Debited, Credited, Native, Bal, Busy
<1>11. Halved(o)' <=> Halved(o)
  BY <1>1, <1>4, <1>5, <1>8 DEF Halved
<1>. QED
  BY <1>1, <1>2, <1>4, <1>5, <1>6, <1>9, <1>10, <1>11, MoveQuiet

\* The record in the journal is that of the transaction, in an earlier state.
LEMMA TxMoved ==
  ASSUME IInv, NEW o \in Op, Unresolved(tx[o]), txSaved[o] # NoTx, NEW s \in TxStates,
         TxEnds(o, s)
  PROVE  /\ Unresolved(txSaved[o])
         /\ tx'[o] = [txSaved[o] EXCEPT !.state = tx'[o].state]
<1>1. tx[o] # NoTx /\ TxOK(o) /\ TypesInv
  BY Facts DEF Unresolved, Final, NoTx
<1>2. tx'[o] = [tx[o] EXCEPT !.state = s] /\ tx'[o].state = s
  BY <1>1, TxEndsIs
<1>3. Unresolved(txSaved[o]) /\ tx[o] = [txSaved[o] EXCEPT !.state = tx[o].state]
  BY <1>1 DEF TxOK, TypesInv, StoresTyped, TxType
<1>4. tx'[o] = [txSaved[o] EXCEPT !.state = tx'[o].state]
  BY <1>1, <1>2, <1>3 DEF TypesInv, StoresTyped, TxType
<1>. QED
  BY <1>3, <1>4

\* Names of states.
LEMMA TxStatesAre ==
  /\ "committing" \in TxStates /\ "committed" \in TxStates /\ "failed" \in TxStates
  /\ "needs-recovery" \in TxStates /\ "compensating" \in TxStates /\ "compensated" \in TxStates
BY DEF TxStates

\* The debit of a transfer is not taken back.
LEMMA RollbackFailsKeeps ==
  ASSUME IInv, NEW o \in Op, RollbackFails(o)
  PROVE  IInv'
<1>1. /\ op[o].pc = "rollback" /\ Busy(o) /\ Goto(o, "close tx")
      /\ TxEnds(o, "needs-recovery")
      /\ UNCHANGED <<account, receipt, ledger, saved, resv, resvSaved, txSaved, todo, isolated>>
  BY DEF RollbackFails, Busy, documents, books, reservations
<1>2. /\ op[o].kind \in Moves /\ o \notin isolated /\ tx[o] # NoTx /\ TxOK(o) /\ MoveOK(o)
  BY <1>1, MoveNow
<1>4. /\ tx' \in [Op -> TxType] /\ \A p \in Op \ {o} : tx'[p] = tx[p]
      /\ tx'[o].state = "needs-recovery" /\ tx'[o] # NoTx
      /\ tx'[o].kind = tx[o].kind /\ tx'[o].a = tx[o].a /\ tx'[o].b = tx[o].b
      /\ tx'[o].n = tx[o].n /\ tx'[o].m = tx[o].m
      /\ tx'[o].a0 = tx[o].a0 /\ tx'[o].b0 = tx[o].b0
  BY <1>1, <1>2, TxStatesAre, Typed, TxEndsIs
<1>5. /\ op' \in [Op -> OpType] /\ \A p \in Op \ {o} : op'[p] = op[p]
      /\ op'[o].pc = "close tx" /\ op'[o].kind = op[o].kind /\ op'[o].a = op[o].a
      /\ op'[o].b = op[o].b /\ op'[o].n = op[o].n /\ op'[o].m = op[o].m
  BY <1>1, Typed, PcsAre, GotoIs
<1>6. TypesInv'
  BY <1>1, <1>4, <1>5, Typed, MoveTypes
<1>7. /\ HasBoth(o) => HasBoth(o)'
      /\ HasNone(o)' <=> HasNone(o)
      /\ AllSaved(o) => AllSaved(o)'
  BY <1>1, <1>4, Typed, EntriesStay
<1>8. tx[o].state = "committing" /\ HasNone(o) /\ txSaved[o] # NoTx
  BY <1>1, <1>2 DEF MoveOK
<1>9. TxOK(o)'
  <2>1. Unresolved(tx[o])
    BY <1>8 DEF Unresolved, Final
  <2>2. /\ Unresolved(txSaved[o])
        /\ tx'[o] = [txSaved[o] EXCEPT !.state = tx'[o].state]
    BY <2>1, <1>1, <1>8, TxStatesAre, TxMoved
  <2>. QED
    BY <1>1, <1>2, <1>4, <1>5, <1>7, <1>8, <2>2 DEF TxOK, Unresolved
<1>10. MoveOK(o)'
  BY <1>1, <1>2, <1>4, <1>5, <1>7, <1>8, ZenonT(40) DEF MoveOK, MovePcs, Untouched, Debited, Credited, Native, Bal, Busy
<1>11. Halved(o)' <=> Halved(o)
  BY <1>1, <1>4, <1>5, <1>8 DEF Halved
<1>. QED
  BY <1>1, <1>2, <1>4, <1>5, <1>6, <1>9, <1>10, <1>11, MoveQuiet

\* A move is committed.
LEMMA MoveBookedKeeps ==
  ASSUME IInv, NEW o \in Op, MoveBooked(o)
  PROVE  IInv'
<1>1. /\ op[o].pc = "book" /\ Busy(o) /\ op[o].kind \in Moves /\ Goto(o, "close tx")
      /\ TxEnds(o, "committed") /\ saved' = ledger
      /\ UNCHANGED <<account, receipt, ledger, resv, resvSaved, txSaved, todo, isolated>>
  BY DEF MoveBooked, Busy, documents, reservations, FlushLedger, Moves
<1>2. /\ op[o].kind \in Moves /\ o \notin isolated /\ tx[o] # NoTx /\ TxOK(o) /\ MoveOK(o)
  BY <1>1, MoveNow
<1>4. /\ tx' \in [Op -> TxType] /\ \A p \in Op \ {o} : tx'[p] = tx[p]
      /\ tx'[o].state = "committed" /\ tx'[o] # NoTx
      /\ tx'[o].kind = tx[o].kind /\ tx'[o].a = tx[o].a /\ tx'[o].b = tx[o].b
      /\ tx'[o].n = tx[o].n /\ tx'[o].m = tx[o].m
      /\ tx'[o].a0 = tx[o].a0 /\ tx'[o].b0 = tx[o].b0
  BY <1>1, <1>2, TxStatesAre, Typed, TxEndsIs
<1>5. /\ op' \in [Op -> OpType] /\ \A p \in Op \ {o} : op'[p] = op[p]
      /\ op'[o].pc = "close tx" /\ op'[o].kind = op[o].kind /\ op'[o].a = op[o].a
      /\ op'[o].b = op[o].b /\ op'[o].n = op[o].n /\ op'[o].m = op[o].m
  BY <1>1, Typed, PcsAre, GotoIs
<1>6. TypesInv'
  BY <1>1, <1>4, <1>5, Typed, MoveTypes
<1>7. /\ HasBoth(o) => HasBoth(o)'
      /\ AllSaved(o)'
  BY <1>1, <1>4, Typed, EntriesStay
<1>8. tx[o].state = "committing" /\ HasBoth(o) /\ txSaved[o] # NoTx
  BY <1>1, <1>2 DEF MoveOK
<1>9. TxOK(o)'
  <2>1. Unresolved(tx[o])
    BY <1>8 DEF Unresolved, Final
  <2>2. /\ Unresolved(txSaved[o])
        /\ tx'[o] = [txSaved[o] EXCEPT !.state = tx'[o].state]
    BY <2>1, <1>1, <1>8, TxStatesAre, TxMoved
  <2>. QED
    BY <1>1, <1>2, <1>4, <1>5, <1>7, <1>8, <2>2 DEF TxOK, Unresolved
<1>10. MoveOK(o)'
  BY <1>1, <1>2, <1>4, <1>5, <1>7, <1>8, ZenonT(40) DEF MoveOK, MovePcs, Untouched, Debited, Credited, Native, Bal, Busy
<1>11. Halved(o)' <=> Halved(o)
  BY <1>1, <1>4, <1>5, <1>8 DEF Halved
<1>. QED
  BY <1>1, <1>2, <1>4, <1>5, <1>6, <1>9, <1>10, <1>11, MoveQuiet

\* ledgerStore.flush throws.
LEMMA BookFailsKeeps ==
  ASSUME IInv, NEW o \in Op, BookFails(o)
  PROVE  IInv'
<1>1. /\ op[o].pc = "book" /\ Busy(o) /\ saved' \in {saved, ledger} /\ End(o)
      /\ UNCHANGED <<account, receipt, ledger, resv, resvSaved, tx, txSaved, todo, isolated>>
  BY DEF BookFails, Busy, documents, reservations, transactions
<1>2. /\ op' \in [Op -> OpType] /\ \A p \in Op \ {o} : op'[p] = op[p]
      /\ op'[o].pc = "done"
  BY <1>1, Typed, EndIs
<1>3. TypesInv'
  BY <1>1, <1>2, Facts, QuietTypes
<1>4. CASE op[o].kind \notin Moves
  BY <1>1, <1>2, <1>3, <1>4, PlainQuiet
<1>5. CASE op[o].kind \in Moves
  <2>1. /\ op[o].kind \in Moves /\ o \notin isolated /\ tx[o] # NoTx /\ TxOK(o) /\ MoveOK(o)
    BY <1>1, <1>5, MoveNow
  <2>2. /\ HasBoth(o) => HasBoth(o)'
        /\ HasNone(o)' <=> HasNone(o)
        /\ AllSaved(o) => AllSaved(o)'
    BY <1>1, Typed, EntriesStay
  <2>3. TxOK(o)'
    BY <1>1, <1>2, <2>1, <2>2 DEF TxOK
  <2>4. Halved(o)' <=> Halved(o)
    BY <1>1, <1>2, <2>1 DEF Halved, MoveOK
  <2>. QED
    BY <1>1, <1>2, <1>3, <2>1, <2>3, <2>4, MoveQuiet
<1>. QED
  BY <1>4, <1>5

\* A move that has debited its source and not credited its target has the
\* debit pending, and nothing on the target.
LEMMA PendingOf ==
  ASSUME NEW o \in Op, o \notin isolated, tx[o].a # tx[o].b, tx[o].n \in Int
  PROVE  /\ Halved(o) => Pending(o, tx[o].a) = -tx[o].n
         /\ ~Halved(o) => Pending(o, tx[o].a) = 0
         /\ Pending(o, tx[o].b) = 0
BY DEF Pending, Side, Halved

\* A step of a move that moves money.
LEMMA MoveMoney ==
  ASSUME IInv, TypesInv', NEW o \in Op, Busy(o), op[o].kind \in Moves,
         NEW a \in Acct, NEW b \in Acct, a = op[o].a, b = op[o].b,
         UNCHANGED <<receipt, todo, isolated>>, Grows(o, {a, b}),
         \A i \in DOMAIN ledger' \ DOMAIN ledger : EntryOK(i)',
         \A r : RefEntries(r)' = RefEntries(r),
         \A p \in Op \ {o} : /\ op'[p] = op[p] /\ tx'[p] = tx[p]
                             /\ txSaved'[p] \in {txSaved[p], tx[p]},
         op'[o].pc # "idle", op'[o].a = a, op'[o].b = b,
         tx[o] # NoTx, tx'[o].a = tx[o].a, tx'[o].b = tx[o].b, OpOK(o)',
         \A x \in Acct \ {a, b} : account'[x] = account[x],
         account'[a].status # "none", account'[b].status # "none",
         NEW d \in Int, NEW e \in Int, NEW u \in Int,
         Sum(a)' = Sum(a) + d, Pending(o, a)' = Pending(o, a) + u,
         account'[a].bal = account[a].bal + d + u,
         Sum(b)' = Sum(b) + e, Pending(o, b)' = Pending(o, b),
         account'[b].bal = account[b].bal + e
  PROVE  IInv'
<1>1. PICK X : X = {a, b}
  OBVIOUS
<1>2. Frame(o, X)
  BY <1>1, CommandFrame
<1>3. \A x : Orphaned(x)' = Orphaned(x)
  <2>1. \A r \in Ref : Orphan(r)' <=> Orphan(r)
    BY DEF Orphan
  <2>. QED
    BY <2>1, OrphansSame
<1>4. BooksOK(b)'
  BY <1>2, <1>3, BooksBooked
<1>5. BooksOK(a)'
  <2>1. PICK z \in Int : z = 0
    OBVIOUS
  <2>2. Orphaned(a)' = Orphaned(a) + z
    BY <2>1, <1>3, OrphansType
  <2>3. account[a].bal \in Int
    BY Facts
  <2>4. account'[a].bal = account[a].bal + d + z + u
    BY <2>1, <2>3
  <2>. QED
    BY <1>2, <2>2, <2>4, BooksMove
<1>6. \A x \in X : BooksOK(x)' /\ (account'[x].status = "none" => account'[x].bal = 0)
  BY <1>1, <1>4, <1>5
<1>7. Own(o, X)
  BY <1>1, <1>6, CommandOwn
<1>. QED
  BY <1>2, <1>7, StepKeeps

\* The debit of a transfer.
LEMMA DebitSourceKeeps ==
  ASSUME IInv, NEW o \in Op, DebitSource(o)
  PROVE  IInv'
<1>1. /\ op[o].pc = "debit" /\ Busy(o) /\ Goto(o, "credit")
      /\ Credit(op[o].a, -op[o].n)
      /\ UNCHANGED <<receipt, ledger, saved, resv, resvSaved, tx, txSaved, todo, isolated>>
  BY DEF DebitSource, Busy, books, reservations, transactions
<1>2. /\ op[o].kind \in Moves /\ o \notin isolated /\ tx[o] # NoTx /\ TxOK(o) /\ MoveOK(o)
      /\ tx[o].a = op[o].a /\ tx[o].b = op[o].b /\ tx[o].n = op[o].n /\ op[o].a # op[o].b
      /\ account[op[o].a].status # "none" /\ account[op[o].b].status # "none"
      /\ tx[o].a0 \in Nat
  BY <1>1, MoveNow
<1>3. PICK a \in Acct : a = op[o].a
  BY <1>1, MoveNow
<1>4. PICK b \in Acct : b = op[o].b
  BY <1>1, MoveNow
<1>5. PICK n \in Nat \ {0} : n = op[o].n
  BY <1>1, MoveNow
<1>6. /\ tx[o].state = "committing" /\ account[a].bal = tx[o].a0 /\ n <= tx[o].a0
      /\ account[b].bal = tx[o].b0 /\ HasNone(o)
  BY <1>1, <1>2, <1>3, <1>4, <1>5 DEF MoveOK, Untouched, Bal
<1>7. PICK d \in Int : d = -n
  OBVIOUS
<1>8. /\ account' \in [Acct -> [status : Statuses, bal : Nat]]
      /\ account'[a].bal = account[a].bal + d
      /\ account'[a].status = account[a].status
      /\ \A x \in Acct : x # a => account'[x] = account[x]
  <2>1. Credit(a, d)
    BY <1>1, <1>3, <1>5, <1>7
  <2>2. account[a].bal + d >= 0
    BY <1>2, <1>5, <1>6, <1>7
  <2>. QED
    BY <2>1, <2>2, Typed, CreditIs
<1>9. /\ op' \in [Op -> OpType] /\ \A p \in Op \ {o} : op'[p] = op[p]
      /\ op'[o].pc = "credit" /\ op'[o].kind = op[o].kind /\ op'[o].a = op[o].a
      /\ op'[o].b = op[o].b /\ op'[o].n = op[o].n /\ op'[o].m = op[o].m
  BY <1>1, Typed, PcsAre, GotoIs
<1>10. TypesInv'
  BY <1>1, <1>8, <1>9, Typed DEF TypesInv, DocumentsTyped, BooksTyped, StoresTyped, OpsTyped
<1>11. PICK X : X = {a, b}
  OBVIOUS
<1>12. /\ Grows(o, X) /\ DOMAIN ledger' \ DOMAIN ledger = {}
       /\ \A r : RefEntries(r)' = RefEntries(r)
       /\ \A x : Sum(x)' = Sum(x)
  BY <1>1, Typed, LedgerSame
<1>13. /\ HasBoth(o) => HasBoth(o)'
       /\ HasNone(o)' <=> HasNone(o)
       /\ AllSaved(o) => AllSaved(o)'
  BY <1>1, Typed, EntriesStay
<1>14. TxOK(o)'
  BY <1>1, <1>2, <1>9, <1>13 DEF TxOK
<1>15. account'[a].bal = tx[o].a0 - n
  BY <1>2, <1>5, <1>6, <1>7, <1>8
<1>16. account'[b] = account[b]
  BY <1>2, <1>3, <1>4, <1>8
<1>17. MoveOK(o)'
  BY <1>1, <1>2, <1>3, <1>4, <1>5, <1>6, <1>8, <1>9, <1>13, <1>15, <1>16
     DEF MoveOK, MovePcs, Debited, Native, Bal
<1>18. OpOK(o)'
  BY <1>1, <1>2, <1>9, <1>14, <1>17, MoveOpOK
<1>19. /\ ~Halved(o) => Pending(o, tx[o].a) = 0
       /\ Pending(o, tx[o].b) = 0
  BY <1>2, <1>5, PendingOf
<1>20. Pending(o, a)' = -n /\ Pending(o, b)' = 0
  BY <1>1, <1>2, <1>3, <1>4, <1>5, <1>9 DEF Pending, Side
<1>21. ~Halved(o)
  BY <1>1, <1>6 DEF Halved
<1>22. Pending(o, a)' = Pending(o, a) + d /\ Pending(o, b)' = Pending(o, b)
  BY <1>2, <1>3, <1>4, <1>7, <1>19, <1>20, <1>21
<1>23. PICK z \in Int : z = 0
  OBVIOUS
<1>24. account[a].bal \in Int /\ account[b].bal \in Int /\ Sum(a) \in Int /\ Sum(b) \in Int
  BY Facts, SumOfType, SumIsSumOf DEF TypesInv, BooksTyped
<1>25. /\ Sum(a)' = Sum(a) + z /\ Sum(b)' = Sum(b) + z
       /\ account'[a].bal = account[a].bal + z + d
       /\ account'[b].bal = account[b].bal + z
  BY <1>8, <1>12, <1>16, <1>23, <1>24
<1>26. op'[o].pc # "idle" /\ op'[o].a = a /\ op'[o].b = b
  BY <1>3, <1>4, <1>9
<1>27. account'[a].status # "none" /\ account'[b].status # "none"
  BY <1>2, <1>3, <1>4, <1>8, <1>16
<1>28. \A x \in Acct \ {a, b} : account'[x] = account[x]
  BY <1>8
<1>29. \A i \in DOMAIN ledger' \ DOMAIN ledger : EntryOK(i)'
  BY <1>12
<1>. QED
  BY <1>1, <1>2, <1>3, <1>4, <1>9, <1>10, <1>11, <1>12, <1>18, <1>22, <1>25, <1>26, <1>27,
     <1>28, <1>29, MoveMoney

\* The debit is taken back.
LEMMA RollbackSourceKeeps ==
  ASSUME IInv, NEW o \in Op, RollbackSource(o)
  PROVE  IInv'
<1>1. /\ op[o].pc = "rollback" /\ Busy(o) /\ Goto(o, "close tx")
      /\ Credit(op[o].a, op[o].n) /\ TxEnds(o, "failed")
      /\ UNCHANGED <<receipt, ledger, saved, resv, resvSaved, txSaved, todo, isolated>>
  BY DEF RollbackSource, Busy, books, reservations, transactions
<1>2. /\ op[o].kind \in Moves /\ o \notin isolated /\ tx[o] # NoTx /\ TxOK(o) /\ MoveOK(o)
      /\ tx[o].a = op[o].a /\ tx[o].b = op[o].b /\ tx[o].n = op[o].n /\ op[o].a # op[o].b
      /\ account[op[o].a].status # "none" /\ account[op[o].b].status # "none"
      /\ tx[o].a0 \in Nat
  BY <1>1, MoveNow
<1>3. PICK a \in Acct : a = op[o].a
  BY <1>1, MoveNow
<1>4. PICK b \in Acct : b = op[o].b
  BY <1>1, MoveNow
<1>5. PICK n \in Nat \ {0} : n = op[o].n
  BY <1>1, MoveNow
<1>6. /\ tx[o].state = "committing" /\ account[a].bal = tx[o].a0 - n
      /\ account[b].bal = tx[o].b0 /\ HasNone(o) /\ txSaved[o] # NoTx
  BY <1>1, <1>2, <1>3, <1>4, <1>5 DEF MoveOK, Debited, Bal
<1>7. PICK d \in Int : d = n
  OBVIOUS
<1>8. /\ account' \in [Acct -> [status : Statuses, bal : Nat]]
      /\ account'[a].bal = account[a].bal + d
      /\ account'[a].status = account[a].status
      /\ \A x \in Acct : x # a => account'[x] = account[x]
  <2>1. Credit(a, d)
    BY <1>1, <1>3, <1>5, <1>7
  <2>2. account[a].bal + d >= 0
    BY <1>2, <1>5, <1>6, <1>7
  <2>. QED
    BY <2>1, <2>2, Typed, CreditIs
<1>9. /\ op' \in [Op -> OpType] /\ \A p \in Op \ {o} : op'[p] = op[p]
      /\ op'[o].pc = "close tx" /\ op'[o].kind = op[o].kind /\ op'[o].a = op[o].a
      /\ op'[o].b = op[o].b /\ op'[o].n = op[o].n /\ op'[o].m = op[o].m
  BY <1>1, Typed, PcsAre, GotoIs
<1>t. /\ tx' \in [Op -> TxType] /\ \A p \in Op \ {o} : tx'[p] = tx[p]
      /\ tx'[o].state = "failed" /\ tx'[o] # NoTx
      /\ tx'[o].kind = tx[o].kind /\ tx'[o].a = tx[o].a /\ tx'[o].b = tx[o].b
      /\ tx'[o].n = tx[o].n /\ tx'[o].m = tx[o].m
      /\ tx'[o].a0 = tx[o].a0 /\ tx'[o].b0 = tx[o].b0
  BY <1>1, <1>2, TxStatesAre, Typed, TxEndsIs
<1>10. TypesInv'
  BY <1>1, <1>8, <1>9, <1>t, Typed DEF TypesInv, DocumentsTyped, BooksTyped, StoresTyped, OpsTyped
<1>11. PICK X : X = {a, b}
  OBVIOUS
<1>12. /\ Grows(o, X) /\ DOMAIN ledger' \ DOMAIN ledger = {}
       /\ \A r : RefEntries(r)' = RefEntries(r)
       /\ \A x : Sum(x)' = Sum(x)
  BY <1>1, Typed, LedgerSame
<1>13. HasNone(o)' <=> HasNone(o)
  BY <1>1, <1>t, Typed, EntriesStay
<1>14. TxOK(o)'
  <2>1. Unresolved(tx[o])
    BY <1>6 DEF Unresolved, Final
  <2>2. /\ Unresolved(txSaved[o])
        /\ tx'[o] = [txSaved[o] EXCEPT !.state = tx'[o].state]
    BY <2>1, <1>1, <1>6, TxStatesAre, TxMoved
  <2>. QED
    BY <1>1, <1>2, <1>t, <1>6, <1>9, <1>13, <2>2 DEF TxOK, Unresolved
<1>15. account'[a].bal = tx[o].a0
  BY <1>2, <1>5, <1>6, <1>7, <1>8
<1>16. account'[b] = account[b]
  BY <1>2, <1>3, <1>4, <1>8
<1>17. MoveOK(o)'
  <2>1. account'[tx'[o].a].bal = tx'[o].a0 /\ account'[tx'[o].b].bal = tx'[o].b0
    BY <1>2, <1>3, <1>4, <1>6, <1>15, <1>16, <1>t
  <2>2. account'[tx'[o].a].status # "none" /\ account'[tx'[o].b].status # "none"
    BY <1>2, <1>3, <1>4, <1>8, <1>16, <1>t
  <2>3. /\ tx'[o].kind = op'[o].kind /\ tx'[o].a = op'[o].a /\ tx'[o].b = op'[o].b
        /\ tx'[o].n = op'[o].n /\ tx'[o].m = op'[o].m
    BY <1>1, <1>2, <1>9, <1>t DEF MoveOK
  <2>. QED
    BY <1>1, <1>6, <1>9, <1>t, <2>1, <2>2, <2>3 DEF MoveOK, MovePcs, Untouched, Native, Bal
<1>18. OpOK(o)'
  BY <1>1, <1>2, <1>9, <1>14, <1>17, MoveOpOK
<1>19. /\ Halved(o) => Pending(o, tx[o].a) = -tx[o].n
       /\ Pending(o, tx[o].b) = 0
  BY <1>2, <1>5, PendingOf
<1>20. Pending(o, a)' = 0 /\ Pending(o, b)' = 0
  BY <1>1, <1>2, <1>3, <1>4, <1>5, <1>9, <1>t DEF Pending, Side
<1>21. Halved(o)
  BY <1>1, <1>6 DEF Halved
<1>22. Pending(o, a)' = Pending(o, a) + d /\ Pending(o, b)' = Pending(o, b)
  <2>1. Pending(o, a) = -n /\ Pending(o, b) = 0
    BY <1>2, <1>3, <1>4, <1>5, <1>19, <1>21
  <2>. QED
    BY <2>1, <1>5, <1>7, <1>20
<1>23. PICK z \in Int : z = 0
  OBVIOUS
<1>24. account[a].bal \in Int /\ account[b].bal \in Int /\ Sum(a) \in Int /\ Sum(b) \in Int
  BY Facts, SumOfType, SumIsSumOf DEF TypesInv, BooksTyped
<1>25. /\ Sum(a)' = Sum(a) + z /\ Sum(b)' = Sum(b) + z
       /\ account'[a].bal = account[a].bal + z + d
       /\ account'[b].bal = account[b].bal + z
  BY <1>8, <1>12, <1>16, <1>23, <1>24
<1>26. op'[o].pc # "idle" /\ op'[o].a = a /\ op'[o].b = b
  BY <1>3, <1>4, <1>9
<1>27. account'[a].status # "none" /\ account'[b].status # "none"
  BY <1>2, <1>3, <1>4, <1>8, <1>16
<1>28. \A x \in Acct \ {a, b} : account'[x] = account[x]
  BY <1>8
<1>29. \A i \in DOMAIN ledger' \ DOMAIN ledger : EntryOK(i)'
  BY <1>12
<1>30. \A p \in Op \ {o} : /\ op'[p] = op[p] /\ tx'[p] = tx[p]
                             /\ txSaved'[p] \in {txSaved[p], tx[p]}
  BY <1>1, <1>9, <1>t
<1>31. op[o].kind \in Moves /\ tx[o] # NoTx /\ tx'[o].a = tx[o].a /\ tx'[o].b = tx[o].b
  BY <1>2, <1>t
<1>32. UNCHANGED <<receipt, todo, isolated>> /\ Busy(o) /\ Grows(o, {a, b})
  BY <1>1, <1>11, <1>12
<1>. QED
  BY <1>3, <1>4, <1>10, <1>12, <1>18, <1>22, <1>25, <1>26, <1>27,
     <1>28, <1>29, <1>30, <1>31, <1>32, MoveMoney

\* A move books what it was planned for, in the names the step gives it.
Completes(o, a, b, n, m, X) ==
  /\ a = op[o].a /\ b = op[o].b /\ a # b /\ n = op[o].n /\ m = op[o].m
  /\ op[o].kind \in Moves /\ BookMove(o) /\ HasNone(o) /\ X = {a, b}
  /\ tx'[o].kind = op[o].kind /\ tx'[o].a = a /\ tx'[o].b = b
  /\ tx'[o].n = n /\ tx'[o].m = m
  /\ op'[o].pc = "book" /\ op'[o].a = a /\ op'[o].b = b

\* The two entries of a move.
LEMMA BookMoveIs ==
  ASSUME IInv, NEW o \in Op, NEW a \in Acct, NEW b \in Acct, NEW n \in Nat, NEW m \in Nat,
         NEW X, Completes(o, a, b, n, m, X)
  PROVE  /\ BooksTyped' /\ Grows(o, X) /\ HasBoth(o)' /\ saved' = saved
         /\ \A r : RefEntries(r)' = RefEntries(r)
         /\ \A i \in DOMAIN ledger' \ DOMAIN ledger : EntryOK(i)'
         /\ Sum(a)' = Sum(a) + (-n) /\ Sum(b)' = Sum(b) + m
<1>0. /\ a = op[o].a /\ b = op[o].b /\ a # b /\ n = op[o].n /\ m = op[o].m
      /\ op[o].kind \in Moves /\ BookMove(o) /\ HasNone(o) /\ X = {a, b}
      /\ tx'[o].kind = op[o].kind /\ tx'[o].a = a /\ tx'[o].b = b
      /\ tx'[o].n = n /\ tx'[o].m = m
      /\ op'[o].pc = "book" /\ op'[o].a = a /\ op'[o].b = b
  BY DEF Completes
<1>1. PICK z \in Nat : z = 0
  OBVIOUS
<1>2. PICK c \in EntryKinds : c = DebitKind(op[o].kind)
  BY <1>0 DEF DebitKind, EntryKinds
<1>3. PICK k \in EntryKinds : k = CreditKind(op[o].kind)
  BY <1>0 DEF CreditKind, EntryKinds
<1>4. PICK d \in Int : d = -n
  OBVIOUS
<1>5. PICK e \in EntryType : /\ e = Entry(a, d, c, o, z, z) /\ e.acct = a /\ e.delta = d
                             /\ e.by = o /\ e.ref = z /\ e.rev = z
  BY EntryIs
<1>6. PICK f \in EntryType : /\ f = Entry(b, m, k, o, z, z) /\ f.acct = b /\ f.delta = m
                             /\ f.by = o /\ f.ref = z /\ f.rev = z
  BY EntryIs
<1>7. ledger' = ledger \o <<e, f>> /\ saved' = saved
  BY <1>0, <1>1, <1>2, <1>3, <1>4, <1>5, <1>6, SMTT(40) DEF BookMove
<1>8. PICK N \in Nat : N = Len(ledger)
  BY Typed, LedgerDomain
<1>9. /\ ledger \in Seq(EntryType) /\ saved \in Seq(EntryType) /\ DOMAIN ledger = 1 .. N
      /\ Len(saved) \in Nat /\ Len(saved) <= N /\ DOMAIN saved = 1 .. Len(saved)
      /\ \A i \in DOMAIN saved : saved[i] = ledger[i]
      /\ \A i \in DOMAIN ledger : ledger[i].rev < i
  BY <1>8, Typed, LedgerDomain DEF TypesInv, BooksTyped
<1>10. /\ ledger' \in Seq(EntryType) /\ Len(ledger') = N + 2 /\ DOMAIN ledger' = 1 .. N + 2
       /\ \A i \in 1 .. N : ledger'[i] = ledger[i]
       /\ ledger'[N + 1] = e /\ ledger'[N + 2] = f
  BY <1>7, <1>8, <1>9
<1>d. /\ DOMAIN ledger = 1 .. N /\ DOMAIN ledger' = 1 .. N + 2
      /\ \A i \in 1 .. N : ledger'[i] = ledger[i]
      /\ ledger'[N + 1] = e /\ ledger'[N + 2] = f
      /\ Len(saved') \in Nat /\ Len(saved') <= N
  BY <1>7, <1>9, <1>10
<1>11. BooksTyped'
  <2>1. \A i \in DOMAIN ledger' : ledger'[i].rev < i
    BY <1>1, <1>5, <1>6, <1>9, <1>10
  <2>2. ledger' \in Seq(EntryType) /\ saved' \in Seq(EntryType)
    BY <1>7, <1>9, <1>10
  <2>3. Len(saved') <= Len(ledger')
    BY <1>7, <1>9, <1>10
  <2>4. \A i \in DOMAIN saved' : saved'[i] = ledger'[i]
    BY <1>7, <1>9, <1>d
  <2>. QED
    BY <2>1, <2>2, <2>3, <2>4 DEF BooksTyped
<1>12. Grows(o, X)
  <2>1. Len(ledger) <= Len(ledger') /\ saved' \in {saved, ledger, ledger'}
    BY <1>7, <1>8, <1>10
  <2>2. \A i \in DOMAIN ledger : ledger'[i] = ledger[i]
    BY <1>d
  <2>3. ASSUME NEW i \in DOMAIN ledger' \ DOMAIN ledger
        PROVE  ledger'[i].by = o /\ ledger'[i].acct \in X
    <3>1. i = N + 1 \/ i = N + 2
      BY <1>d, <2>3
    <3>2. e.by = o /\ e.acct \in X /\ f.by = o /\ f.acct \in X
      BY <1>0, <1>5, <1>6
    <3>3. ledger'[N + 1] = e /\ ledger'[N + 2] = f
      BY <1>d
    <3>4. CASE i = N + 1
      BY <3>2, <3>3, <3>4
    <3>5. CASE i = N + 2
      BY <3>2, <3>3, <3>5
    <3>. QED
      BY <3>1, <3>4, <3>5
  <2>. QED
    BY <2>1, <2>2, <2>3 DEF Grows
<1>13. \A r : RefEntries(r)' = RefEntries(r)
  <2>1. e.ref = 0 /\ f.ref = 0
    BY <1>1, <1>5, <1>6
  <2>2. SUFFICES ASSUME NEW r, r # 0
                 PROVE  RefEntries(r)' = RefEntries(r)
    BY DEF RefEntries
  <2>3. RefEntries(r)' = {i \in 1 .. N + 2 : ledger'[i].ref = r}
    BY <1>d, <2>2 DEF RefEntries
  <2>4. RefEntries(r) = {i \in 1 .. N : ledger[i].ref = r}
    BY <1>d, <2>2 DEF RefEntries
  <2>5. \A i \in 1 .. N + 2 : ledger'[i].ref = r => i \in 1 .. N
    <3>1. \A i \in 1 .. N + 2 : i \in 1 .. N \/ i = N + 1 \/ i = N + 2
      OBVIOUS
    <3>. QED
      BY <1>d, <2>1, <2>2, <3>1
  <2>6. \A i \in 1 .. N : ledger'[i] = ledger[i] /\ i \in 1 .. N + 2
    BY <1>d
  <2>. QED
    BY <2>3, <2>4, <2>5, <2>6
<1>14. EntriesBy(o)' = {N + 1, N + 2}
  BY <1>0, <1>5, <1>6, <1>d DEF EntriesBy, HasNone
<1>15. HasBoth(o)'
  <2>1. PICK i : i = N + 1
    OBVIOUS
  <2>2. i \in DOMAIN ledger' /\ i + 1 \in DOMAIN ledger' /\ i # Len(saved') /\ i + 1 = N + 2
    BY <2>1, <1>d
  <2>3. /\ ledger'[i] = Entry(tx'[o].a, -tx'[o].n, DebitKind(tx'[o].kind), o, 0, 0)
        /\ ledger'[i + 1] = Entry(tx'[o].b, tx'[o].m, CreditKind(tx'[o].kind), o, 0, 0)
    BY <1>0, <2>1, <2>2, <1>1, <1>2, <1>3, <1>4, <1>5, <1>6, <1>10
  <2>. QED
    BY <2>1, <2>2, <2>3, <1>14 DEF HasBoth
<1>16. \A i \in DOMAIN ledger' \ DOMAIN ledger : EntryOK(i)'
  <2>1. ASSUME NEW i \in DOMAIN ledger' \ DOMAIN ledger
        PROVE  ledger'[i].by = o /\ ledger'[i].ref = 0 /\ ledger'[i].acct \in {a, b}
    <3>1. i = N + 1 \/ i = N + 2
      BY <1>d
    <3>. QED
      BY <3>1, <1>1, <1>5, <1>6, <1>d
  <2>. QED
    BY <1>0, <2>1 DEF EntryOK
<1>17. /\ Sum(a)' = Sum(a) + (IF e.acct = a THEN e.delta ELSE 0)
                           + (IF f.acct = a THEN f.delta ELSE 0)
       /\ Sum(b)' = Sum(b) + (IF e.acct = b THEN e.delta ELSE 0)
                           + (IF f.acct = b THEN f.delta ELSE 0)
  BY <1>7, Typed, BookTwo
<1>18. Sum(a) \in Int /\ Sum(b) \in Int
  BY <1>9, SumOfType, SumIsSumOf
<1>19. Sum(a)' = Sum(a) + (-n) /\ Sum(b)' = Sum(b) + m
  BY <1>0, <1>4, <1>5, <1>6, <1>17, <1>18
<1>. QED
  BY <1>7, <1>11, <1>12, <1>13, <1>15, <1>16, <1>19

\* The write that completes a move, and its two entries.
LEMMA MoveCompleted ==
  ASSUME IInv, NEW o \in Op, op[o].pc \in {"credit", "exchange"},
         BookMove(o), Goto(o, "book"),
         UNCHANGED <<receipt, resv, resvSaved, tx, txSaved, todo, isolated>>,
         account' \in [Acct -> [status : Statuses, bal : Nat]],
         \A x \in Acct : account'[x].status = account[x].status,
         \A x \in Acct \ {op[o].a, op[o].b} : account'[x] = account[x],
         account'[op[o].a].bal = tx[o].a0 - op[o].n,
         account'[op[o].b].bal = tx[o].b0 + op[o].m
  PROVE  IInv'
<1>1. /\ op[o].kind \in Moves /\ o \notin isolated /\ tx[o] # NoTx /\ TxOK(o) /\ MoveOK(o)
      /\ tx[o].a = op[o].a /\ tx[o].b = op[o].b /\ tx[o].n = op[o].n /\ tx[o].m = op[o].m
      /\ tx[o].kind = op[o].kind /\ op[o].a # op[o].b
      /\ account[op[o].a].status # "none" /\ account[op[o].b].status # "none"
      /\ tx[o].a0 \in Nat /\ tx[o].b0 \in Nat /\ Busy(o)
  BY MoveNow DEF Busy
<1>2. PICK a \in Acct : a = op[o].a
  BY MoveNow DEF Busy
<1>3. PICK b \in Acct : b = op[o].b
  BY MoveNow DEF Busy
<1>4. PICK n \in Nat \ {0} : n = op[o].n
  BY MoveNow DEF Busy
<1>5. PICK m \in Nat \ {0} : m = op[o].m
  BY MoveNow DEF Busy
<1>6. /\ tx[o].state = "committing" /\ HasNone(o) /\ account[b].bal = tx[o].b0
      /\ op[o].pc = "credit" => account[a].bal = tx[o].a0 - n
      /\ op[o].pc = "exchange" => account[a].bal = tx[o].a0
      /\ txSaved[o] # NoTx
  BY <1>1, <1>2, <1>3, <1>4 DEF MoveOK, Untouched, Debited, Bal
<1>7. /\ op' \in [Op -> OpType] /\ \A p \in Op \ {o} : op'[p] = op[p]
      /\ op'[o].pc = "book" /\ op'[o].kind = op[o].kind /\ op'[o].a = op[o].a
      /\ op'[o].b = op[o].b /\ op'[o].n = op[o].n /\ op'[o].m = op[o].m
  BY Typed, PcsAre, GotoIs
<1>8. PICK X : X = {a, b}
  OBVIOUS
<1>9. /\ BooksTyped' /\ Grows(o, X) /\ HasBoth(o)' /\ saved' = saved
      /\ \A r : RefEntries(r)' = RefEntries(r)
      /\ \A i \in DOMAIN ledger' \ DOMAIN ledger : EntryOK(i)'
      /\ Sum(a)' = Sum(a) + (-n) /\ Sum(b)' = Sum(b) + m
  <2>1. /\ tx'[o].kind = op[o].kind /\ tx'[o].a = a /\ tx'[o].b = b /\ tx'[o].n = n
        /\ tx'[o].m = m /\ op'[o].a = a /\ op'[o].b = b /\ a # b
    BY <1>1, <1>2, <1>3, <1>4, <1>5, <1>7
  <2>2. n \in Nat /\ m \in Nat /\ HasNone(o) /\ op[o].kind \in Moves /\ op'[o].pc = "book"
    BY <1>1, <1>6, <1>7
  <2>3. Completes(o, a, b, n, m, X)
    BY <1>2, <1>3, <1>4, <1>5, <1>8, <2>1, <2>2 DEF Completes
  <2>. QED
    BY <2>2, <2>3, BookMoveIs
<1>10. TypesInv'
  BY <1>7, <1>9, Facts DEF TypesInv, DocumentsTyped, StoresTyped, OpsTyped
<1>11. TxOK(o)'
  BY <1>1, <1>6, <1>7, <1>9 DEF TxOK
<1>12. MoveOK(o)'
  <2>1. account'[tx'[o].a].bal = tx'[o].a0 - tx'[o].n /\ account'[tx'[o].b].bal = tx'[o].b0 + tx'[o].m
    BY <1>1
  <2>2. account'[tx'[o].a].status # "none" /\ account'[tx'[o].b].status # "none"
    BY <1>1, <1>2, <1>3
  <2>. QED
    BY <1>1, <1>6, <1>7, <1>9, <2>1, <2>2 DEF MoveOK, MovePcs, Debited, Credited, Native, Bal
<1>13. OpOK(o)'
  BY <1>1, <1>7, <1>11, <1>12, MoveOpOK
<1>14. /\ Halved(o) => Pending(o, tx[o].a) = -tx[o].n
       /\ ~Halved(o) => Pending(o, tx[o].a) = 0
       /\ Pending(o, tx[o].b) = 0
  BY <1>1, <1>4, PendingOf
<1>15. Halved(o) <=> op[o].pc = "credit"
  BY <1>6 DEF Halved
<1>16. Pending(o, a)' = 0 /\ Pending(o, b)' = 0
  BY <1>1, <1>2, <1>3, <1>6, <1>7 DEF Pending, Side
<1>17. account[a].bal \in Int /\ account[b].bal \in Int /\ Sum(a) \in Int /\ Sum(b) \in Int
  BY Facts, SumOfType, SumIsSumOf DEF TypesInv, BooksTyped
<1>18. PICK u \in Int : u = IF op[o].pc = "credit" THEN n ELSE 0
  OBVIOUS
<1>19. Pending(o, a)' = Pending(o, a) + u /\ Pending(o, b)' = Pending(o, b)
  <2>1. Pending(o, a) = (IF op[o].pc = "credit" THEN -n ELSE 0) /\ Pending(o, b) = 0
    BY <1>1, <1>2, <1>3, <1>4, <1>14, <1>15
  <2>. QED
    BY <2>1, <1>4, <1>16, <1>18
<1>20. PICK d \in Int : d = -n
  OBVIOUS
<1>21. /\ Sum(a)' = Sum(a) + d /\ Sum(b)' = Sum(b) + m
       /\ account'[a].bal = account[a].bal + d + u
       /\ account'[b].bal = account[b].bal + m
  <2>1. account'[a].bal = tx[o].a0 - n /\ account'[b].bal = tx[o].b0 + m
    BY <1>2, <1>3, <1>4, <1>5
  <2>2. tx[o].a0 \in Nat /\ tx[o].b0 \in Nat
    BY <1>1
  <2>3. account'[a].bal = account[a].bal + d + u
    BY <2>1, <2>2, <1>4, <1>6, <1>18, <1>20
  <2>. QED
    BY <2>1, <2>3, <1>6, <1>9, <1>20
<1>22. op'[o].pc # "idle" /\ op'[o].a = a /\ op'[o].b = b
  BY <1>2, <1>3, <1>7
<1>23. account'[a].status # "none" /\ account'[b].status # "none"
  BY <1>1, <1>2, <1>3
<1>24. \A x \in Acct \ {a, b} : account'[x] = account[x]
  BY <1>2, <1>3
<1>25. \A p \in Op \ {o} : /\ op'[p] = op[p] /\ tx'[p] = tx[p]
                           /\ txSaved'[p] \in {txSaved[p], tx[p]}
  BY <1>7
<1>26. op[o].kind \in Moves /\ tx[o] # NoTx /\ tx'[o].a = tx[o].a /\ tx'[o].b = tx[o].b
  BY <1>1
<1>27. UNCHANGED <<receipt, todo, isolated>> /\ Busy(o) /\ Grows(o, {a, b})
  BY <1>1, <1>8, <1>9
<1>28. m \in Int
  OBVIOUS
<1>. QED
  BY <1>2, <1>3, <1>9, <1>10, <1>13, <1>19, <1>21, <1>22, <1>23, <1>24, <1>25, <1>26, <1>27,
     <1>28, MoveMoney

\* The credit of a transfer and both entries.
LEMMA CreditTargetKeeps ==
  ASSUME IInv, NEW o \in Op, CreditTarget(o)
  PROVE  IInv'
<1>1. /\ op[o].pc = "credit" /\ Busy(o) /\ BookMove(o) /\ Goto(o, "book")
      /\ Credit(op[o].b, op[o].m)
      /\ UNCHANGED <<receipt, resv, resvSaved, tx, txSaved, todo, isolated>>
  BY DEF CreditTarget, Busy, reservations, transactions
<1>2. PICK b \in Acct : b = op[o].b
  BY <1>1, MoveNow
<1>3. PICK m \in Nat : m = op[o].m
  BY <1>1, MoveNow
<1>4. /\ op[o].kind \in Moves /\ MoveOK(o) /\ op[o].a # op[o].b /\ op[o].a \in Acct
      /\ tx[o].a = op[o].a /\ tx[o].b = op[o].b /\ tx[o].n = op[o].n
      /\ tx[o].b0 \in Nat
  BY <1>1, MoveNow
<1>5. account[op[o].a].bal = tx[o].a0 - op[o].n /\ account[b].bal = tx[o].b0
  BY <1>1, <1>2, <1>4 DEF MoveOK, Debited, Bal
<1>6. /\ account' \in [Acct -> [status : Statuses, bal : Nat]]
      /\ account'[b].bal = account[b].bal + m
      /\ account'[b].status = account[b].status
      /\ \A x \in Acct : x # b => account'[x] = account[x]
  <2>1. Credit(b, m)
    BY <1>1, <1>2, <1>3
  <2>2. account[b].bal + m >= 0
    BY <1>3, <1>4, <1>5
  <2>. QED
    BY <2>1, <2>2, Typed, CreditIs
<1>7. \A x \in Acct : account'[x].status = account[x].status
  BY <1>6
<1>8. \A x \in Acct \ {op[o].a, op[o].b} : account'[x] = account[x]
  BY <1>2, <1>6
<1>9. account'[op[o].a].bal = tx[o].a0 - op[o].n
  BY <1>2, <1>4, <1>5, <1>6
<1>10. account'[op[o].b].bal = tx[o].b0 + op[o].m
  BY <1>2, <1>3, <1>5, <1>6, SMTT(40)
<1>. QED
  BY <1>1, <1>6, <1>7, <1>8, <1>9, <1>10, MoveCompleted

\* Both balances of a conversion and both entries.
LEMMA ExchangeKeeps ==
  ASSUME IInv, NEW o \in Op, Exchange(o)
  PROVE  IInv'
<1>1. /\ op[o].pc = "exchange" /\ Busy(o) /\ BookMove(o) /\ Goto(o, "book")
      /\ account' = [account EXCEPT ![op[o].a].bal = @ - op[o].n,
                                    ![op[o].b].bal = @ + op[o].m]
      /\ UNCHANGED <<receipt, resv, resvSaved, tx, txSaved, todo, isolated>>
  BY DEF Exchange, Busy, reservations, transactions
<1>2. PICK a \in Acct : a = op[o].a
  BY <1>1, MoveNow
<1>3. PICK b \in Acct : b = op[o].b
  BY <1>1, MoveNow
<1>4. PICK n \in Nat : n = op[o].n
  BY <1>1, MoveNow
<1>5. PICK m \in Nat : m = op[o].m
  BY <1>1, MoveNow
<1>6. /\ op[o].kind \in Moves /\ MoveOK(o) /\ a # b
      /\ tx[o].a = a /\ tx[o].b = b /\ tx[o].n = n
      /\ tx[o].a0 \in Nat /\ tx[o].b0 \in Nat
  BY <1>1, <1>2, <1>3, <1>4, MoveNow
<1>7. account[a].bal = tx[o].a0 /\ account[b].bal = tx[o].b0 /\ n <= tx[o].a0
  BY <1>1, <1>6 DEF MoveOK, Untouched, Bal
<1>8. account \in [Acct -> [status : Statuses, bal : Nat]]
  BY Facts
<1>9. account' = [account EXCEPT ![a].bal = @ - n, ![b].bal = @ + m]
  BY <1>1, <1>2, <1>3, <1>4, <1>5
<1>10. PICK u \in Nat : u = tx[o].a0 - n
  BY <1>6, <1>7
<1>11. PICK v \in Nat : v = tx[o].b0 + m
  BY <1>6
<1>12. /\ account' \in [Acct -> [status : Statuses, bal : Nat]]
       /\ account'[a].bal = u /\ account'[b].bal = v
       /\ \A x \in Acct : account'[x].status = account[x].status
       /\ \A x \in Acct \ {a, b} : account'[x] = account[x]
  <2>1. account' = [account EXCEPT ![a].bal = u, ![b].bal = v]
    BY <1>6, <1>7, <1>8, <1>9, <1>10, <1>11
  <2>. QED
    BY <2>1, <1>6, <1>8
<1>13. account'[op[o].a].bal = tx[o].a0 - op[o].n /\ account'[op[o].b].bal = tx[o].b0 + op[o].m
  BY <1>2, <1>3, <1>4, <1>5, <1>10, <1>11, <1>12
<1>14. \A x \in Acct \ {op[o].a, op[o].b} : account'[x] = account[x]
  BY <1>2, <1>3, <1>12
<1>. QED
  BY <1>1, <1>12, <1>13, <1>14, MoveCompleted

----------------------------------------------------------------------------
\* Commands that begin.

\* A command that has not begun.
LEMMA BeginNow ==
  ASSUME IInv, NEW o \in Op, op[o].pc = "idle"
  PROVE  /\ tx[o] = NoTx /\ txSaved[o] = NoTx /\ o \notin isolated /\ HasNone(o)
<1>1. TxOK(o) /\ IsolatedOK(o) /\ \A i \in DOMAIN ledger : EntryOK(i)
  BY Facts
<1>2. HasNone(o)
  BY <1>1 DEF HasNone, EntriesBy, EntryOK
<1>. QED
  BY <1>1, <1>2 DEF TxOK, IsolatedOK

\* A command that begins takes Domains that nobody holds.
LEMMA BeginFree ==
  ASSUME NEW o \in Op, NEW a \in Acct, NEW b \in Acct, Free(a[1]), Free(b[1]),
         NEW X, X = {a, b}
  PROVE  \A p \in Op \ {o} : \A x \in X : x[1] \notin HeldBy(p)
BY DEF Free, HeldBy

\* A command gets its locks.
LEMMA StartIs ==
  ASSUME TypesInv, NEW o \in Op, NEW kind, NEW e \in OpType, Start(o, kind, e)
  PROVE  /\ op' \in [Op -> OpType] /\ \A p \in Op \ {o} : op'[p] = op[p]
         /\ op'[o] = e /\ op[o].pc = "idle" /\ todo = {} /\ UNCHANGED <<todo, isolated>>
         /\ Free(e.a[1]) /\ Free(e.b[1])
BY DEF TypesInv, OpsTyped, Start, Domains

\* The fields of a command.
LEMMA CmdIs ==
  ASSUME NEW pc \in Pcs, NEW kind \in CmdKinds, NEW a \in Acct, NEW n \in Int
  PROVE  /\ Cmd(pc, kind, a, n) \in OpType
         /\ Cmd(pc, kind, a, n).pc = pc /\ Cmd(pc, kind, a, n).kind = kind
         /\ Cmd(pc, kind, a, n).a = a /\ Cmd(pc, kind, a, n).b = a
         /\ Cmd(pc, kind, a, n).n = n /\ Cmd(pc, kind, a, n).ref = 0
<1>1. PICK e : e = Cmd(pc, kind, a, n)
  OBVIOUS
<1>2. e = [pc |-> pc, kind |-> kind, a |-> a, b |-> a,
           n |-> n, m |-> 0, ref |-> 0, prev |-> NoResv]
  BY <1>1 DEF Idle, NoResv, Cmd
<1>3. NoResv \in ResvType
  BY DEF ResvType
<1>4. /\ e \in OpType /\ e.pc = pc /\ e.kind = kind /\ e.a = a /\ e.b = a
      /\ e.n = n /\ e.ref = 0
  BY <1>2, <1>3 DEF OpType
<1>. QED
  BY <1>1, <1>4

\* A command that begins without a transaction and without a write.
LEMMA BeginPlain ==
  ASSUME IInv, TypesInv', NEW o \in Op, op[o].pc = "idle", todo = {},
         UNCHANGED <<account, receipt, ledger, saved, tx, txSaved, todo, isolated>>,
         \A p \in Op \ {o} : op'[p] = op[p],
         NEW a \in Acct, Free(a[1]), op'[o].a = a, op'[o].b = a,
         op'[o].pc # "idle", op'[o].kind \notin Moves, KeyedOK(o)', PlainOK(o)'
  PROVE  IInv'
<1>1. PICK X : X = {a}
  OBVIOUS
<1>2. tx[o] = NoTx /\ txSaved[o] = NoTx /\ o \notin isolated
  BY BeginNow
<1>3. /\ Grows(o, X) /\ DOMAIN ledger' \ DOMAIN ledger = {}
      /\ \A r : RefEntries(r)' = RefEntries(r)
      /\ \A x : Sum(x)' = Sum(x)
  BY Typed, LedgerSame
<1>4. \A p \in Op \ {o} : \A x \in X : x[1] \notin HeldBy(p)
  BY <1>1, BeginFree
<1>5. Frame(o, X)
  <2>1. Apart(o, X)
    BY <1>4 DEF Apart
  <2>2. TxWithin(o, X) /\ TxWithin(o, X)'
    BY <1>2 DEF TxWithin
  <2>. QED
    BY <1>1, <1>3, <2>1, <2>2 DEF Frame
<1>6. OpOK(o)' /\ op'[o].pc \notin {"credit", "rollback"}
  BY <1>2, PlainOpOK
<1>7. ASSUME NEW x \in X PROVE BooksOK(x)'
  <2>1. \A r \in Ref : Orphan(r)' <=> Orphan(r)
    BY <1>3 DEF Orphan
  <2>2. Orphaned(x)' = Orphaned(x)
    BY <2>1, OrphansSame
  <2>3. Pending(o, x) = 0 /\ Pending(o, x)' = 0
    BY <1>2, <1>6, PlainPending
  <2>4. PICK z \in Int : z = 0
    OBVIOUS
  <2>5. x \in Acct /\ account[x].bal \in Int /\ Sum(x) \in Int
    BY <1>1, Facts, SumOfType, SumIsSumOf DEF TypesInv, BooksTyped
  <2>6. Sum(x)' = Sum(x) + z /\ account'[x].bal = account[x].bal + z
    BY <1>3, <2>4, <2>5
  <2>7. Pending(o, x)' = Pending(o, x)
    BY <2>3
  <2>. QED
    BY <1>5, <2>2, <2>5, <2>6, <2>7, BooksBooked
<1>8. \A x \in X : account'[x].status = "none" => account'[x].bal = 0
  BY <1>1, RestStatus
<1>9. Own(o, X)
  BY <1>1, <1>2, <1>3, <1>6, <1>7, <1>8 DEF Own
<1>. QED
  BY <1>5, <1>9, StepKeeps

\* The same for commands without a key of their parent.
LEMMA BeginSimple ==
  ASSUME IInv, NEW o \in Op, NEW kind, NEW e \in OpType, Start(o, kind, e),
         UNCHANGED <<account, receipt, ledger, saved, resvSaved, tx, txSaved>>,
         resv' \in [Op -> ResvType],
         e.a \in Acct, e.b = e.a, e.pc \in PlainPcs \ {"confirm", "undo", "refund"},
         e.kind \notin Moves \cup KeyedKinds, e.n \in Int,
         e.pc = "apply" => Native(e.a) /\ Bal(e.a) + e.n >= 0 /\ e.ref = 0,
         e.pc = "open" => account[e.a].status = "none" /\ e.n >= 0,
         e.pc = "shut" => Bal(e.a) = 0,
         e.pc = "spend" => e.n <= Bal(e.a),
         e.pc = "spend" \/ e.kind \in {"consume", "refund"} => Native(e.a) /\ e.n >= 0,
         e.pc = "reverse" =>
            /\ Native(e.a) /\ Bal(e.a) + e.n >= 0
            /\ e.ref \in DOMAIN ledger /\ ledger[e.ref].kind # "reversal"
  PROVE  IInv'
<1>1. /\ op' \in [Op -> OpType] /\ \A p \in Op \ {o} : op'[p] = op[p]
      /\ op'[o] = e /\ op[o].pc = "idle" /\ todo = {} /\ UNCHANGED <<todo, isolated>>
      /\ Free(e.a[1])
  BY Typed, StartIs
<1>2. TypesInv'
  BY <1>1, Typed DEF TypesInv, DocumentsTyped, BooksTyped, StoresTyped, OpsTyped
<1>3. KeyedOK(o)'
  BY <1>1 DEF KeyedOK
<1>4. tx[o] = NoTx
  BY <1>1, BeginNow
<1>5. PlainOK(o)'
  BY <1>1, <1>4 DEF PlainOK, PlainPcs, Native, Bal
<1>6. op'[o].pc # "idle" /\ op'[o].kind \notin Moves
  BY <1>1 DEF PlainPcs
<1>. QED
  BY <1>1, <1>2, <1>3, <1>5, <1>6, BeginPlain

\* Names of first steps.
LEMMA StartPcs ==
  /\ "apply" \in Pcs /\ "open" \in Pcs /\ "shut" \in Pcs /\ "keep" \in Pcs
  /\ "spend" \in Pcs /\ "reverse" \in Pcs /\ "journal" \in Pcs
  /\ "adjust" \in CmdKinds /\ "open" \in CmdKinds /\ "shut" \in CmdKinds
  /\ "reserve" \in CmdKinds /\ "release" \in CmdKinds /\ "consume" \in CmdKinds
  /\ "reverse" \in CmdKinds /\ "keyed" \in CmdKinds /\ "undo" \in CmdKinds
  /\ {"adjust", "open", "shut", "reserve", "release", "consume", "reverse"}
       \cap (Moves \cup KeyedKinds) = {}
BY DEF Pcs, CmdKinds, Moves, KeyedKinds

\* An adjustment begins.
LEMMA StartAdjustKeeps ==
  ASSUME IInv, NEW o \in Op, StartAdjust(o)
  PROVE  IInv'
<1>1. PICK a \in Acct, n \in Amount, s \in {-1, 1} :
        /\ Native(a) /\ Allowed(a, Bal(a) + s * n)
        /\ Start(o, "adjust", Cmd("apply", "adjust", a, s * n))
        /\ UNCHANGED <<documents, books, reservations, transactions>>
  BY DEF StartAdjust
<1>2. PICK d \in Int : d = s * n
  BY <1>1, EconomyAssumption
<1>3. PICK e \in OpType : /\ e = Cmd("apply", "adjust", a, d) /\ e.pc = "apply"
                          /\ e.kind = "adjust" /\ e.a = a /\ e.b = a /\ e.n = d /\ e.ref = 0
  BY <1>2, StartPcs, CmdIs
<1>4. /\ Start(o, "adjust", e)
      /\ UNCHANGED <<account, receipt, ledger, saved, resv, resvSaved, tx, txSaved>>
  BY <1>1, <1>2, <1>3 DEF documents, books, reservations, transactions
<1>5. Bal(e.a) + e.n >= 0 /\ Native(e.a)
  BY <1>1, <1>2, <1>3 DEF Allowed
<1>6. /\ e.pc \in PlainPcs \ {"confirm", "undo", "refund"}
      /\ e.kind \notin Moves \cup KeyedKinds
  BY <1>3, StartPcs DEF PlainPcs
<1>. QED
  BY <1>3, <1>4, <1>5, <1>6, Facts, BeginSimple

\* createAccount begins; never over a closed account here.
LEMMA StartCreateKeeps ==
  ASSUME IInv, Survivable, NEW o \in Op, StartCreate(o)
  PROVE  IInv'
<1>1. PICK a \in Acct, x \in Amount \cup {0} :
        /\ account[a].status # "active"
        /\ account[a].status = "closed" => x \in Reopening
        /\ Start(o, "open", Cmd("open", "open", a, x))
        /\ UNCHANGED <<documents, books, reservations, transactions>>
  BY DEF StartCreate
<1>2. PICK d \in Nat : d = x
  BY <1>1, EconomyAssumption
<1>3. PICK e \in OpType : /\ e = Cmd("open", "open", a, d) /\ e.pc = "open"
                          /\ e.kind = "open" /\ e.a = a /\ e.b = a /\ e.n = d /\ e.ref = 0
  BY <1>2, StartPcs, CmdIs
<1>4. /\ Start(o, "open", e)
      /\ UNCHANGED <<account, receipt, ledger, saved, resv, resvSaved, tx, txSaved>>
  BY <1>1, <1>2, <1>3 DEF documents, books, reservations, transactions
<1>5. account[e.a].status = "none" /\ e.n >= 0
  <2>1. account[a].status \in Statuses
    BY Facts
  <2>. QED
    BY <1>1, <1>2, <1>3, <2>1 DEF Survivable, Statuses
<1>6. /\ e.pc \in PlainPcs \ {"confirm", "undo", "refund"}
      /\ e.kind \notin Moves \cup KeyedKinds
  BY <1>3, StartPcs DEF PlainPcs
<1>. QED
  BY <1>3, <1>4, <1>5, <1>6, Facts, BeginSimple

\* closeAccount begins.
LEMMA StartCloseKeeps ==
  ASSUME IInv, NEW o \in Op, StartClose(o)
  PROVE  IInv'
<1>1. PICK a \in Acct :
        /\ Bal(a) = 0
        /\ Start(o, "shut", Cmd("shut", "shut", a, 0))
        /\ UNCHANGED <<documents, books, reservations, transactions>>
  BY DEF StartClose
<1>2. PICK d \in Nat : d = 0
  OBVIOUS
<1>3. PICK e \in OpType : /\ e = Cmd("shut", "shut", a, d) /\ e.pc = "shut"
                          /\ e.kind = "shut" /\ e.a = a /\ e.b = a /\ e.n = d /\ e.ref = 0
  BY <1>2, StartPcs, CmdIs
<1>4. /\ Start(o, "shut", e)
      /\ UNCHANGED <<account, receipt, ledger, saved, resv, resvSaved, tx, txSaved>>
  BY <1>1, <1>2, <1>3 DEF documents, books, reservations, transactions
<1>5. Bal(e.a) = 0
  BY <1>1, <1>3
<1>6. /\ e.pc \in PlainPcs \ {"confirm", "undo", "refund"}
      /\ e.kind \notin Moves \cup KeyedKinds
  BY <1>3, StartPcs DEF PlainPcs
<1>. QED
  BY <1>3, <1>4, <1>5, <1>6, Facts, BeginSimple

\* A reservation.
LEMMA ReserveKeeps ==
  ASSUME IInv, NEW o \in Op, Reserve(o)
  PROVE  IInv'
<1>1. PICK a \in Acct, n \in Part :
        /\ Start(o, "reserve", Cmd("keep", "reserve", a, n))
        /\ resv' = [resv EXCEPT ![o] = [status |-> "active", acct |-> a, rem |-> n]]
        /\ UNCHANGED <<documents, books, resvSaved, transactions>>
  BY DEF Reserve
<1>2. PICK d \in Nat : d = n
  BY <1>1, EconomyAssumption
<1>3. PICK e \in OpType : /\ e = Cmd("keep", "reserve", a, d) /\ e.pc = "keep"
                          /\ e.kind = "reserve" /\ e.a = a /\ e.b = a /\ e.n = d /\ e.ref = 0
  BY <1>2, StartPcs, CmdIs
<1>4. /\ Start(o, "reserve", e)
      /\ UNCHANGED <<account, receipt, ledger, saved, resvSaved, tx, txSaved>>
  BY <1>1, <1>2, <1>3 DEF documents, books, transactions
<1>5. resv' \in [Op -> ResvType]
  <2>1. PICK r : r = [status |-> "active", acct |-> a, rem |-> d]
    OBVIOUS
  <2>2. r \in ResvType
    BY <2>1 DEF ResvType, ResvStatuses
  <2>3. resv' = [resv EXCEPT ![o] = r] /\ resv \in [Op -> ResvType]
    BY <1>1, <1>2, <2>1, Facts
  <2>. QED
    BY <2>2, <2>3
<1>6. /\ e.pc \in PlainPcs \ {"confirm", "undo", "refund"}
      /\ e.kind \notin Moves \cup KeyedKinds
  BY <1>3, StartPcs DEF PlainPcs
<1>. QED
  BY <1>3, <1>4, <1>5, <1>6, BeginSimple

\* A reservation that is open, and what is left of it.
LEMMA ReducedIs ==
  ASSUME IInv, NEW r \in Op, Open(resv[r]), NEW n \in Nat, n <= resv[r].rem,
         NEW s \in ResvStatuses
  PROVE  resv[r].acct \in Acct /\ Reduced(resv[r], n, s) \in ResvType
<1>1. resv[r] \in ResvType /\ resv[r] # NoResv
  BY Facts DEF Open, NoResv
<1>2. resv[r] \in [status : ResvStatuses, acct : Acct, rem : Nat]
  BY <1>1 DEF ResvType
<1>3. PICK m \in Nat : m = resv[r].rem - n
  BY <1>2
<1>4. PICK k \in ResvStatuses : k = IF resv[r].rem = n THEN s ELSE "partially-consumed"
  BY DEF ResvStatuses
<1>5. Reduced(resv[r], n, s) = [resv[r] EXCEPT !.rem = m, !.status = k]
  BY <1>2, <1>3, <1>4 DEF Reduced
<1>. QED
  BY <1>2, <1>5 DEF ResvType

\* A consumption begins with its reservation.
LEMMA StartConsumeKeeps ==
  ASSUME IInv, NEW o \in Op, StartConsume(o)
  PROVE  IInv'
<1>1. PICK r \in Op, n \in Amount :
        /\ Open(resv[r]) /\ n <= resv[r].rem
        /\ Native(resv[r].acct) /\ n <= Bal(resv[r].acct)
        /\ Start(o, "consume", [Cmd("spend", "consume", resv[r].acct, n)
                                  EXCEPT !.ref = r, !.prev = resv[r]])
        /\ resv' = [resv EXCEPT ![r] = Reduced(@, n, "consumed")]
        /\ UNCHANGED <<documents, books, resvSaved, transactions>>
  BY DEF StartConsume
<1>2. PICK d \in Nat : d = n
  BY <1>1, EconomyAssumption
<1>3. "consumed" \in ResvStatuses
  BY DEF ResvStatuses
<1>4. resv[r].acct \in Acct /\ Reduced(resv[r], d, "consumed") \in ResvType
  BY <1>1, <1>2, <1>3, ReducedIs
<1>5. PICK a \in Acct : a = resv[r].acct
  BY <1>4
<1>s. "spend" \in Pcs /\ "consume" \in CmdKinds
  BY StartPcs
<1>v. PICK v \in ResvType : v = resv[r]
  BY Facts
<1>k. PICK k \in Int : k = r
  BY DEF Op
<1>d. d \in Int
  OBVIOUS
<1>e. PICK e : e = [Cmd("spend", "consume", a, d) EXCEPT !.ref = k, !.prev = v]
  OBVIOUS
<1>6. e \in OpType /\ e.pc = "spend" /\ e.kind = "consume" /\ e.a = a /\ e.b = a /\ e.n = d
  <2>1. "spend" \in Pcs /\ "consume" \in CmdKinds
    BY StartPcs
  <2>2. e \in OpType /\ e.pc = Cmd("spend", "consume", a, d).pc /\ e.kind = Cmd("spend", "consume", a, d).kind
        /\ e.a = Cmd("spend", "consume", a, d).a /\ e.b = Cmd("spend", "consume", a, d).b
        /\ e.n = Cmd("spend", "consume", a, d).n
    <3>1. Cmd("spend", "consume", a, d) \in OpType
      BY <2>1, <1>d, CmdIs
    <3>. QED
      BY <3>1, <1>e DEF OpType
  <2>. QED
    BY <2>1, <2>2, <1>d, CmdIs
<1>6a. e.pc = "spend" /\ e.kind = "consume" /\ e.a \in Acct /\ e.b = e.a /\ e.n \in Int /\ e.n >= 0
  <2>1. e.pc = "spend" /\ e.kind = "consume" /\ e.a \in Acct /\ e.b = e.a /\ e.n = d
    BY <1>6, Zenon
  <2>. QED
    BY <2>1
<1>7. /\ Start(o, "consume", e)
      /\ UNCHANGED <<account, receipt, ledger, saved, resvSaved, tx, txSaved>>
  <2>1. e = [Cmd("spend", "consume", resv[r].acct, n) EXCEPT !.ref = r, !.prev = resv[r]]
    BY <1>2, <1>5, <1>e, <1>k, <1>v, Zenon
  <2>2. Start(o, "consume", e)
    BY <1>1, <2>1, Zenon
  <2>. QED
    BY <1>1, <2>2 DEF documents, books, transactions
<1>8. resv' \in [Op -> ResvType]
  <2>1. PICK q \in ResvType : q = Reduced(resv[r], d, "consumed")
    BY <1>4
  <2>2. resv \in [Op -> ResvType] /\ resv' = [resv EXCEPT ![r] = q]
    BY <1>1, <1>2, <2>1, Facts
  <2>. QED
    BY <2>2
<1>9. Native(e.a) /\ e.n <= Bal(e.a) /\ e.n >= 0
  BY <1>1, <1>2, <1>5, <1>6
<1>10. /\ e.pc \in PlainPcs \ {"confirm", "undo", "refund"}
       /\ e.kind \notin Moves \cup KeyedKinds
  BY <1>6, StartPcs DEF PlainPcs
<1>. QED
  BY <1>6, <1>6a, <1>7, <1>8, <1>9, <1>10, BeginSimple

\* A release.
LEMMA ReleaseKeeps ==
  ASSUME IInv, NEW o \in Op, Release(o)
  PROVE  IInv'
<1>1. PICK r \in Op, n \in Amount :
        /\ Open(resv[r]) /\ n <= resv[r].rem
        /\ Start(o, "release", [Cmd("keep", "release", resv[r].acct, n)
                                  EXCEPT !.ref = r, !.prev = resv[r]])
        /\ resv' = [resv EXCEPT ![r] = Reduced(@, n, "released")]
        /\ UNCHANGED <<documents, books, resvSaved, transactions>>
  BY DEF Release
<1>2. PICK d \in Nat : d = n
  BY <1>1, EconomyAssumption
<1>3. "released" \in ResvStatuses
  BY DEF ResvStatuses
<1>4. resv[r].acct \in Acct /\ Reduced(resv[r], d, "released") \in ResvType
  BY <1>1, <1>2, <1>3, ReducedIs
<1>5. PICK a \in Acct : a = resv[r].acct
  BY <1>4
<1>s. "keep" \in Pcs /\ "release" \in CmdKinds
  BY StartPcs
<1>v. PICK v \in ResvType : v = resv[r]
  BY Facts
<1>k. PICK k \in Int : k = r
  BY DEF Op
<1>d. d \in Int
  OBVIOUS
<1>e. PICK e : e = [Cmd("keep", "release", a, d) EXCEPT !.ref = k, !.prev = v]
  OBVIOUS
<1>6. e \in OpType /\ e.pc = "keep" /\ e.kind = "release" /\ e.a = a /\ e.b = a /\ e.n = d
  <2>1. "keep" \in Pcs /\ "release" \in CmdKinds
    BY StartPcs
  <2>2. e \in OpType /\ e.pc = Cmd("keep", "release", a, d).pc /\ e.kind = Cmd("keep", "release", a, d).kind
        /\ e.a = Cmd("keep", "release", a, d).a /\ e.b = Cmd("keep", "release", a, d).b
        /\ e.n = Cmd("keep", "release", a, d).n
    <3>1. Cmd("keep", "release", a, d) \in OpType
      BY <2>1, <1>d, CmdIs
    <3>. QED
      BY <3>1, <1>e DEF OpType
  <2>. QED
    BY <2>1, <2>2, <1>d, CmdIs
<1>6a. e.pc = "keep" /\ e.kind = "release" /\ e.a \in Acct /\ e.b = e.a /\ e.n \in Int /\ e.n >= 0
  <2>1. e.pc = "keep" /\ e.kind = "release" /\ e.a \in Acct /\ e.b = e.a /\ e.n = d
    BY <1>6, Zenon
  <2>. QED
    BY <2>1
<1>7. /\ Start(o, "release", e)
      /\ UNCHANGED <<account, receipt, ledger, saved, resvSaved, tx, txSaved>>
  <2>1. e = [Cmd("keep", "release", resv[r].acct, n) EXCEPT !.ref = r, !.prev = resv[r]]
    BY <1>2, <1>5, <1>e, <1>k, <1>v, Zenon
  <2>2. Start(o, "release", e)
    BY <1>1, <2>1, Zenon
  <2>. QED
    BY <1>1, <2>2 DEF documents, books, transactions
<1>8. resv' \in [Op -> ResvType]
  <2>1. PICK q \in ResvType : q = Reduced(resv[r], d, "released")
    BY <1>4
  <2>2. resv \in [Op -> ResvType] /\ resv' = [resv EXCEPT ![r] = q]
    BY <1>1, <1>2, <2>1, Facts
  <2>. QED
    BY <2>2
<1>10. /\ e.pc \in PlainPcs \ {"confirm", "undo", "refund"}
       /\ e.kind \notin Moves \cup KeyedKinds
  BY <1>6, StartPcs DEF PlainPcs
<1>. QED
  BY <1>6, <1>6a, <1>7, <1>8, <1>10, BeginSimple

\* A reversal begins, of an entry that is not one itself.
LEMMA StartReverseKeeps ==
  ASSUME IInv, Survivable, NEW o \in Op, StartReverse(o)
  PROVE  IInv'
<1>1. PICK i \in DOMAIN ledger :
        /\ ledger[i].kind \in Reversible
        /\ Native(ledger[i].acct) /\ Bal(ledger[i].acct) - ledger[i].delta >= 0
        /\ Start(o, "reverse", [Cmd("reverse", "reverse", ledger[i].acct, -ledger[i].delta)
                                  EXCEPT !.ref = i])
        /\ UNCHANGED <<documents, books, reservations, transactions>>
  BY DEF StartReverse
<1>2. ledger[i] \in EntryType /\ i \in Int
  BY Typed, LedgerDomain
<1>3. PICK a \in Acct : a = ledger[i].acct
  BY <1>2 DEF EntryType
<1>4. PICK d \in Int : d = -ledger[i].delta
  BY <1>2 DEF EntryType
<1>5. PICK e \in OpType : /\ e = [Cmd("reverse", "reverse", a, d) EXCEPT !.ref = i]
                          /\ e.pc = "reverse" /\ e.kind = "reverse" /\ e.a = a /\ e.b = a
                          /\ e.n = d /\ e.ref = i
  <2>1. /\ Cmd("reverse", "reverse", a, d) \in OpType
        /\ Cmd("reverse", "reverse", a, d).pc = "reverse"
        /\ Cmd("reverse", "reverse", a, d).kind = "reverse"
        /\ Cmd("reverse", "reverse", a, d).a = a
        /\ Cmd("reverse", "reverse", a, d).b = a
        /\ Cmd("reverse", "reverse", a, d).n = d
    BY StartPcs, CmdIs
  <2>2. PICK e : e = [Cmd("reverse", "reverse", a, d) EXCEPT !.ref = i]
    OBVIOUS
  <2>3. /\ e \in OpType /\ e.pc = "reverse" /\ e.kind = "reverse" /\ e.a = a /\ e.b = a
        /\ e.n = d /\ e.ref = i
    BY <1>2, <2>1, <2>2 DEF OpType
  <2>. QED
    BY <2>2, <2>3
<1>6. /\ Start(o, "reverse", e)
      /\ UNCHANGED <<account, receipt, ledger, saved, resv, resvSaved, tx, txSaved>>
  BY <1>1, <1>3, <1>4, <1>5 DEF documents, books, reservations, transactions
<1>7. /\ Native(e.a) /\ Bal(e.a) + e.n >= 0
      /\ e.ref \in DOMAIN ledger /\ ledger[e.ref].kind # "reversal"
  <2>1. account[a].bal \in Int /\ ledger[i].delta \in Int
    BY <1>2, Facts DEF EntryType
  <2>. QED
    BY <1>1, <1>3, <1>4, <1>5, <2>1 DEF Survivable, Bal
<1>8. /\ e.pc \in PlainPcs \ {"confirm", "undo", "refund"}
      /\ e.kind \notin Moves \cup KeyedKinds
  BY <1>5, StartPcs DEF PlainPcs
<1>. QED
  BY <1>5, <1>6, <1>7, <1>8, Facts, BeginSimple

\* What is reserved is a natural: a move leaves it there.
LEMMA ReservedType ==
  ASSUME TypesInv, NEW a \in Acct
  PROVE  Reserved(a) \in Nat
<1>1. PICK S : S = {o \in Op : Open(resv[o]) /\ resv[o].acct = a}
  OBVIOUS
<1>2. \A o \in S : resv[o].rem \in Nat
  <2>1. ASSUME NEW o \in S PROVE resv[o].rem \in Nat
    <3>1. resv[o] \in ResvType /\ resv[o] # NoResv
      BY <1>1 DEF TypesInv, StoresTyped, Open, NoResv
    <3>. QED
      BY <3>1 DEF ResvType
  <2>. QED
    BY <2>1
<1>3. PICK f : f = [o \in S |-> resv[o].rem]
  OBVIOUS
<1>4. f \in [S -> Nat] /\ IsFiniteSet(S)
  BY <1>1, <1>2, <1>3, OpFinite, FS_Subset
<1>5. SumFunction(f) \in Nat
  BY <1>4, SumAtLeast
<1>. QED
  BY <1>1, <1>3, <1>5 DEF Reserved

\* A move that is planned within the available balance begins.
LEMMA StartMoveKeeps ==
  ASSUME IInv, NEW o \in Op, NEW kind \in Moves, NEW a \in Acct, NEW b \in Acct, a # b,
         NEW n \in Nat \ {0}, NEW m \in Nat \ {0}, StartMove(o, kind, a, b, n, m)
  PROVE  IInv'
<1>1. /\ Native(a) /\ Native(b) /\ n <= Available(a)
      /\ Start(o, kind, [Cmd("journal", kind, a, n) EXCEPT !.b = b, !.m = m])
      /\ tx' = [tx EXCEPT ![o] =
                 [state |-> "committing", kind |-> kind, a |-> a, b |-> b,
                  n |-> n, m |-> m, a0 |-> Bal(a), b0 |-> Bal(b)]]
      /\ UNCHANGED <<account, receipt, ledger, saved, resv, resvSaved, txSaved>>
  BY DEF StartMove, MovePlan, documents, books, reservations
<1>2. account[a].bal \in Nat /\ account[b].bal \in Nat
  BY Facts
<1>3. n <= account[a].bal
  <2>1. Reserved(a) \in Nat
    BY Typed, ReservedType
  <2>. QED
    BY <1>1, <1>2, <2>1 DEF Available, Bal
<1>4. PICK e : e = [Cmd("journal", kind, a, n) EXCEPT !.b = b, !.m = m]
  OBVIOUS
<1>5. /\ e \in OpType /\ e.pc = "journal" /\ e.kind = kind /\ e.a = a /\ e.b = b
      /\ e.n = n /\ e.m = m
  <2>1. n \in Int /\ m \in Int /\ "journal" \in Pcs /\ kind \in CmdKinds
    BY StartPcs DEF Moves, CmdKinds
  <2>2. /\ Cmd("journal", kind, a, n) \in OpType
        /\ Cmd("journal", kind, a, n).pc = "journal" /\ Cmd("journal", kind, a, n).kind = kind
        /\ Cmd("journal", kind, a, n).a = a /\ Cmd("journal", kind, a, n).n = n
    BY <2>1, CmdIs
  <2>. QED
    BY <1>4, <2>1, <2>2 DEF OpType
<1>6. /\ op' \in [Op -> OpType] /\ \A p \in Op \ {o} : op'[p] = op[p]
      /\ op'[o] = e /\ op[o].pc = "idle" /\ todo = {} /\ UNCHANGED <<todo, isolated>>
      /\ Free(a[1]) /\ Free(b[1])
  <2>1. Start(o, kind, e)
    BY <1>1, <1>4, Zenon
  <2>. QED
    BY <2>1, <1>5, Typed, StartIs
<1>7. PICK t : t = [state |-> "committing", kind |-> kind, a |-> a, b |-> b,
                    n |-> n, m |-> m, a0 |-> account[a].bal, b0 |-> account[b].bal]
  OBVIOUS
<1>8. /\ t \in TxType /\ t.state = "committing" /\ t.kind = kind /\ t.a = a /\ t.b = b
      /\ t.n = n /\ t.m = m /\ t.a0 = account[a].bal /\ t.b0 = account[b].bal /\ t # NoTx
  <2>1. /\ t.state = "committing" /\ t.kind = kind /\ t.a = a /\ t.b = b
        /\ t.n = n /\ t.m = m /\ t.a0 = account[a].bal /\ t.b0 = account[b].bal
    BY <1>7
  <2>2. t # NoTx
    BY <2>1 DEF NoTx
  <2>3. t \in TxType
    BY <1>2, <1>7, TxStatesAre DEF TxType
  <2>. QED
    BY <2>1, <2>2, <2>3
<1>9. /\ tx' \in [Op -> TxType] /\ tx'[o] = t /\ \A p \in Op \ {o} : tx'[p] = tx[p]
  <2>1. tx' = [tx EXCEPT ![o] = t] /\ tx \in [Op -> TxType]
    BY <1>1, <1>7, Typed DEF Bal, TypesInv, StoresTyped
  <2>. QED
    BY <2>1, <1>8
<1>10. tx[o] = NoTx /\ txSaved[o] = NoTx /\ o \notin isolated /\ HasNone(o)
  BY <1>6, BeginNow
<1>11. TypesInv'
  BY <1>1, <1>6, <1>9, Typed, MoveTypes
<1>12. PICK X : X = {a, b}
  OBVIOUS
<1>13. /\ Grows(o, X) /\ DOMAIN ledger' \ DOMAIN ledger = {}
       /\ \A r : RefEntries(r)' = RefEntries(r)
       /\ \A x : Sum(x)' = Sum(x)
  BY <1>1, Typed, LedgerSame
<1>14. \A p \in Op \ {o} : \A x \in X : x[1] \notin HeldBy(p)
  BY <1>6, <1>12, BeginFree
<1>15. Frame(o, X)
  <2>1. Apart(o, X)
    BY <1>1, <1>6, <1>9, <1>14 DEF Apart
  <2>2. TxWithin(o, X) /\ TxWithin(o, X)'
    BY <1>8, <1>9, <1>10, <1>12 DEF TxWithin
  <2>3. op'[o].pc # "idle"
    BY <1>5, <1>6
  <2>. QED
    BY <1>1, <1>6, <1>12, <1>13, <2>1, <2>2, <2>3 DEF Frame
<1>16. HasNone(o)'
  BY <1>1, <1>10 DEF HasNone, EntriesBy
<1>17. TxOK(o)'
  BY <1>1, <1>5, <1>6, <1>8, <1>9, <1>10, <1>16 DEF TxOK
<1>18. MoveOK(o)'
  <2>1. account'[tx'[o].a].bal = tx'[o].a0 /\ account'[tx'[o].b].bal = tx'[o].b0
    BY <1>1, <1>8, <1>9
  <2>2. account'[tx'[o].a].status # "none" /\ account'[tx'[o].b].status # "none"
    BY <1>1, <1>8, <1>9 DEF Native
  <2>3. tx'[o].n <= tx'[o].a0
    BY <1>3, <1>8, <1>9
  <2>. QED
    BY <1>5, <1>6, <1>8, <1>9, <1>16, <2>1, <2>2, <2>3 DEF MoveOK, MovePcs, Untouched, Native, Bal
<1>19. OpOK(o)'
  BY <1>5, <1>6, <1>10, <1>17, <1>18, MoveOpOK
<1>20. ASSUME NEW x \in X PROVE BooksOK(x)'
  <2>1. \A r \in Ref : Orphan(r)' <=> Orphan(r)
    BY <1>1, <1>13 DEF Orphan
  <2>2. Orphaned(x)' = Orphaned(x)
    BY <2>1, OrphansSame
  <2>3. Pending(o, x) = 0
    BY <1>6, <1>10, PlainPending
  <2>4. Pending(o, x)' = 0
    BY <1>5, <1>6, <1>8, <1>9, <1>10 DEF Pending
  <2>5. PICK z \in Int : z = 0
    OBVIOUS
  <2>6. x \in Acct /\ account[x].bal \in Int /\ Sum(x) \in Int
    BY <1>12, Facts, SumOfType, SumIsSumOf DEF TypesInv, BooksTyped
  <2>7. Sum(x)' = Sum(x) + z /\ account'[x].bal = account[x].bal + z
    BY <1>1, <1>13, <2>5, <2>6
  <2>8. Pending(o, x)' = Pending(o, x)
    BY <2>3, <2>4
  <2>. QED
    BY <1>11, <1>15, <2>2, <2>6, <2>7, <2>8, BooksBooked
<1>21. \A x \in X : account'[x].status = "none" => account'[x].bal = 0
  BY <1>1, <1>12, RestStatus
<1>22. Own(o, X)
  BY <1>1, <1>5, <1>6, <1>8, <1>9, <1>10, <1>11, <1>12, <1>13, <1>19, <1>20, <1>21 DEF Own
<1>. QED
  BY <1>15, <1>22, StepKeeps

\* buildTransferPlan.
LEMMA StartTransferKeeps ==
  ASSUME IInv, NEW o \in Op, StartTransfer(o)
  PROVE  IInv'
<1>1. PICK a \in Acct, b \in Acct, n \in Amount :
        a[1] # b[1] /\ StartMove(o, "transfer", a, b, n, n)
  BY DEF StartTransfer
<1>2. a # b /\ n \in Nat \ {0} /\ "transfer" \in Moves
  BY <1>1, EconomyAssumption DEF Moves
<1>. QED
  BY <1>1, <1>2, StartMoveKeeps

\* buildConvertPlan.
LEMMA StartConvertKeeps ==
  ASSUME IInv, NEW o \in Op, StartConvert(o)
  PROVE  IInv'
<1>1. PICK a \in Acct, b \in Acct, n \in Amount, m \in Amount :
        a[2] # b[2] /\ StartMove(o, "convert", a, b, n, m)
  BY DEF StartConvert
<1>2. a # b /\ n \in Nat \ {0} /\ m \in Nat \ {0} /\ "convert" \in Moves
  BY <1>1, EconomyAssumption DEF Moves
<1>. QED
  BY <1>1, <1>2, StartMoveKeeps

\* commitAdjust by what the receipt and the ledger say of its key.
LEMMA StartKeyedKeeps ==
  ASSUME IInv, NEW o \in Op, StartKeyed(o)
  PROVE  IInv'
<1>1. PICK k \in DOMAIN Keyed :
        /\ Native(KeyedCmd(k).a) /\ KeyCase(KeyedCmd(k)) \in {"apply", "book", "confirm"}
        /\ Start(o, "keyed", [KeyedCmd(k) EXCEPT !.pc = KeyCase(KeyedCmd(k))])
        /\ Reconstruct(o, KeyedCmd(k))
        /\ UNCHANGED <<documents, saved, reservations, transactions>>
  BY DEF StartKeyed
<1>2. PICK r \in Ref : /\ r = k /\ r \in DOMAIN Keyed /\ AcctOf(r) = Keyed[k].acct
                       /\ DeltaOf(r) = Keyed[k].delta /\ r \in Int
  BY RefAccounts
<1>3. PICK a \in Acct : a = AcctOf(r)
  BY RefAccounts
<1>4. PICK d \in Int : d = DeltaOf(r)
  BY RefAccounts
<1>5. PICK e : e = KeyedCmd(k)
  OBVIOUS
<1>6. /\ e \in OpType /\ e.kind = "keyed" /\ e.a = a /\ e.b = a /\ e.n = d /\ e.ref = r
  <2>1. e = [Cmd("apply", "keyed", a, d) EXCEPT !.ref = r]
    BY <1>2, <1>3, <1>4, <1>5 DEF KeyedCmd
  <2>2. /\ Cmd("apply", "keyed", a, d) \in OpType
        /\ Cmd("apply", "keyed", a, d).kind = "keyed"
        /\ Cmd("apply", "keyed", a, d).a = a /\ Cmd("apply", "keyed", a, d).b = a
        /\ Cmd("apply", "keyed", a, d).n = d
    BY StartPcs, CmdIs
  <2>. QED
    BY <1>2, <2>1, <2>2 DEF OpType
<1>7. PICK pc \in Pcs : pc = KeyCase(e) /\ pc \in {"apply", "book", "confirm"}
  BY <1>1, <1>5 DEF Pcs
<1>8. PICK f : f = [e EXCEPT !.pc = pc]
  OBVIOUS
<1>9. /\ f \in OpType /\ f.pc = pc /\ f.kind = "keyed" /\ f.a = a /\ f.b = a
      /\ f.ref = r /\ f.n = d
  BY <1>6, <1>8 DEF OpType
<1>10. /\ Start(o, "keyed", f) /\ Reconstruct(o, e) /\ Native(a)
       /\ UNCHANGED <<account, receipt, saved, resv, resvSaved, tx, txSaved>>
  <2>1. Start(o, "keyed", f)
    BY <1>1, <1>5, <1>7, <1>8, Zenon
  <2>2. Reconstruct(o, e)
    BY <1>1, <1>5
  <2>. QED
    BY <1>1, <1>5, <1>6, <2>1, <2>2 DEF documents, reservations, transactions
<1>11. /\ op' \in [Op -> OpType] /\ \A p \in Op \ {o} : op'[p] = op[p]
       /\ op'[o] = f /\ op[o].pc = "idle" /\ todo = {} /\ UNCHANGED <<todo, isolated>>
       /\ Free(a[1])
  BY <1>9, <1>10, Typed, StartIs
<1>12. tx[o] = NoTx /\ txSaved[o] = NoTx /\ o \notin isolated /\ HasNone(o)
  BY <1>11, BeginNow
<1>13. op'[o].pc = pc /\ op'[o].pc # "idle" /\ op'[o].kind \notin Moves /\ op'[o].kind = "keyed"
  BY <1>7, <1>9, <1>11 DEF Moves
<1>14. PlainOK(o)' \/ pc = "apply"
  BY <1>7, <1>9, <1>10, <1>11, <1>12, <1>13 DEF PlainOK, PlainPcs, KeyedKinds
<1>15. PICK X : X = {a}
  OBVIOUS
<1>16. \A p \in Op \ {o} : \A x \in X : x[1] \notin HeldBy(p)
  BY <1>11, <1>15, BeginFree
<1>17. CASE pc = "apply"
  <2>1. ledger' = ledger
    BY <1>7, <1>10, <1>17 DEF Reconstruct
  <2>2. RefEntries(r) = {} /\ receipt[r] = "none" /\ account[a].bal + d >= 0
    <3>1. /\ RefEntries(e.ref) = {} /\ receipt[e.ref] = "none"
          /\ Allowed(e.a, Bal(e.a) + e.n)
      BY <1>7, <1>17 DEF KeyCase
    <3>. QED
      BY <1>6, <3>1 DEF Allowed, Bal
  <2>3. TypesInv'
    BY <1>10, <1>11, <2>1, Facts, QuietTypes
  <2>4. HasNone(o)' /\ EntriesBy(o)' = {}
    BY <1>12, <2>1 DEF HasNone, EntriesBy
  <2>5. KeyedOK(o)'
    BY <1>2, <1>3, <1>4, <1>9, <1>10, <1>11, <1>17, <2>2, <2>4 DEF KeyedOK, Native
  <2>6. PlainOK(o)'
    BY <1>9, <1>10, <1>11, <1>12, <1>17, <2>2 DEF PlainOK, PlainPcs, KeyedKinds, Native, Bal
  <2>. QED
    BY <1>9, <1>10, <1>11, <1>13, <2>1, <2>3, <2>5, <2>6, BeginPlain
<1>18. CASE pc = "confirm"
  <2>1. ledger' = ledger
    BY <1>7, <1>10, <1>18 DEF Reconstruct
  <2>2. RefEntries(r) # {}
    BY <1>6, <1>7, <1>18 DEF KeyCase
  <2>3. TypesInv'
    BY <1>10, <1>11, <2>1, Facts, QuietTypes
  <2>4. EntriesBy(o)' = {} /\ EntriesBy(o) = {}
    BY <1>12, <2>1 DEF HasNone, EntriesBy
  <2>5. Durable(r)
    <3>1. AllSaved(o)
      BY <2>4 DEF AllSaved
    <3>2. \A p \in Op \ {o} : Busy(p) => AcctOf(r)[1] \notin HeldBy(p)
      BY <1>3, <1>15, <1>16
    <3>. QED
      BY <2>2, <3>1, <3>2, HeldDurable
  <2>6. Durable(r)'
    <3>1. PICK i \in DOMAIN ledger : ledger[i].ref = r /\ (~Unsaved(i) \/ ~Busy(ledger[i].by))
      BY <2>5 DEF Durable
    <3>2. Busy(ledger[i].by)' => Busy(ledger[i].by)
      <4>1. ledger[i].by \in Op /\ ledger[i].by # o
        BY <2>4, Typed, LedgerDomain DEF EntryType, EntriesBy
      <4>. QED
        BY <1>11, <2>1, <4>1 DEF Busy
    <3>. QED
      BY <1>10, <2>1, <3>1, <3>2 DEF Durable, Unsaved, Busy
  <2>7. KeyedOK(o)'
    <3>1. Durable(op[o].ref)'
      BY <1>9, <1>11, <2>6 DEF Durable
    <3>2. AllSaved(o)'
      BY <2>4 DEF AllSaved
    <3>. QED
      BY <1>2, <1>3, <1>4, <1>9, <1>10, <1>11, <1>18, <2>4, <3>1, <3>2 DEF KeyedOK, Native
  <2>. QED
    BY <1>9, <1>10, <1>11, <1>13, <1>14, <1>18, <2>1, <2>3, <2>7, BeginPlain
<1>19. CASE pc = "book"
  <2>1. RefEntries(r) = {} /\ receipt[r] # "none"
    BY <1>6, <1>7, <1>19 DEF KeyCase
  <2>2. Orphan(r)
    BY <2>1 DEF Orphan
  <2>4. PICK z \in Nat : z = 0
    OBVIOUS
  <2>5. PICK g \in EntryType : /\ g = Entry(a, d, "adjustment", o, r, z) /\ g.acct = a
                               /\ g.delta = d /\ g.by = o /\ g.ref = r /\ g.rev = 0
    BY <1>2, <2>4, EntryIs, EntryKindsAre
  <2>6. Append1(g) /\ g.rev < Len(ledger) + 1
    BY <1>6, <1>7, <1>10, <1>19, <2>4, <2>5, Typed, LedgerDomain DEF Reconstruct, Append1
  <2>7. /\ BooksTyped' /\ ledger' = Append(ledger, g) /\ saved' = saved
        /\ DOMAIN ledger' = 1 .. Len(ledger) + 1 /\ ledger'[Len(ledger) + 1] = g
        /\ \A i \in DOMAIN ledger : ledger'[i] = ledger[i]
    BY <2>6, Typed, AppendIs
  <2>8. TypesInv'
    BY <1>10, <1>11, <2>7, Typed DEF TypesInv, DocumentsTyped, StoresTyped, OpsTyped
  <2>9. PICK n : n = Len(ledger) + 1
    OBVIOUS
  <2>11. EntryOK(n)'
    <3>1. receipt'[r] # "none" /\ (Busy(o)' => g.acct \in {op'[o].a, op'[o].b})
      BY <1>9, <1>10, <1>11, <2>1, <2>5
    <3>2. g.acct = AcctOf(r) /\ g.delta = DeltaOf(r)
      BY <1>3, <1>4, <2>5
    <3>. QED
      BY <1>13, <2>1, <2>5, <2>7, <2>9, <3>1, <3>2, Typed, KeyedEntryOK
  <2>12. RefEntries(r)' # {}
    <3>1. Len(ledger) + 1 \in DOMAIN ledger'
      BY <2>7, Typed, LedgerDomain
    <3>2. r # 0
      BY NoZeroRef
    <3>. QED
      BY <2>5, <2>7, <3>1, <3>2 DEF RefEntries
  <2>12a. EntriesBy(o)' = {n} /\ ledger'[n].ref # 0
    <3>1. DOMAIN ledger = 1 .. Len(ledger) /\ Len(ledger) \in Nat
      BY Typed, LedgerDomain
    <3>2. EntriesBy(o)' = {n}
      BY <1>12, <2>5, <2>7, <2>9, <3>1 DEF EntriesBy, HasNone
    <3>. QED
      BY <2>5, <2>7, <2>9, <3>2, NoZeroRef
  <2>13. KeyedOK(o)'
    <3>1. RefEntries(op[o].ref)' # {}
      BY <1>9, <1>11, <2>12 DEF RefEntries
    <3>2. /\ \A i, j \in EntriesBy(o)' : i = j
          /\ \A i \in EntriesBy(o)' : ledger'[i].ref # 0
      BY <2>12a
    <3>3. op'[o].pc = "book" /\ account'[op'[o].a].status # "none"
      BY <1>9, <1>10, <1>11, <1>19 DEF Native
    <3>. QED
      BY <1>2, <1>3, <1>4, <1>9, <1>11, <3>1, <3>2, <3>3 DEF KeyedOK, Native
  <2>15. OpOK(o)' /\ op'[o].pc \notin {"credit", "rollback"}
    BY <1>10, <1>11, <1>12, <1>13, <1>14, <1>19, <2>8, <2>13, PlainOpOK
  <2>17. Grows(o, X)
    <3>1. Len(ledger) \in Nat /\ DOMAIN ledger = 1 .. Len(ledger) /\ Len(ledger') = Len(ledger) + 1
      BY <2>7, Typed, LedgerDomain DEF TypesInv, BooksTyped
    <3>. QED
      BY <1>15, <2>5, <2>7, <3>1 DEF Grows
  <2>18. Frame(o, X)
    <3>1. Apart(o, X)
      BY <1>10, <1>11, <1>16 DEF Apart
    <3>2. TxWithin(o, X) /\ TxWithin(o, X)'
      BY <1>10, <1>12 DEF TxWithin
    <3>. QED
      BY <1>10, <1>11, <1>13, <1>15, <2>17, <3>1, <3>2 DEF Frame
  <2>20. ASSUME NEW x \in X PROVE BooksOK(x)'
    <3>0. op[o].pc \notin {"credit", "rollback"}
      BY <1>11
    <3>1. Pending(o, x)' = 0 /\ Pending(o, x) = 0
      BY <1>10, <1>11, <1>12, <2>15, <3>0, PlainPending
    <3>2. g.acct = AcctOf(r) /\ g.delta = DeltaOf(r) /\ x \in Acct
      BY <1>3, <1>4, <1>15, <2>5
    <3>3. Pending(o, x)' = Pending(o, x) /\ receipt' = receipt /\ account' = account
      BY <1>10, <3>1
    <3>. QED
      BY <2>2, <2>5, <2>7, <2>8, <2>18, <3>2, <3>3, OrphanBooks
  <2>21. \A i \in DOMAIN ledger' \ DOMAIN ledger : EntryOK(i)'
    <3>1. ASSUME NEW i \in DOMAIN ledger' \ DOMAIN ledger PROVE i = n
      BY <2>7, <2>9, Typed, LedgerDomain
    <3>. QED
      BY <2>11, <3>1
  <2>22. \A x \in X : account'[x].status = "none" => account'[x].bal = 0
    BY <1>10, <1>15, RestStatus
  <2>23. Own(o, X)
    BY <1>9, <1>10, <1>11, <1>12, <1>15, <2>8, <2>15, <2>20, <2>21, <2>22 DEF Own
  <2>. QED
    BY <2>18, <2>23, StepKeeps
<1>. QED
  BY <1>7, <1>17, <1>18, <1>19

----------------------------------------------------------------------------
\* Recovery.

\* A transaction that recovery is to resolve.
LEMMA RecoverNow ==
  ASSUME IInv, NEW o \in Op, o \in todo, NEW X, X = {tx[o].a, tx[o].b}
  PROVE  /\ saved = ledger /\ (\A p \in Op : ~Busy(p)) /\ o \in isolated /\ X \subseteq Acct
         /\ tx[o] \in TxType /\ tx[o] # NoTx /\ txSaved[o] # NoTx /\ TxOK(o) /\ IsolatedOK(o)
         /\ tx[o].a \in Acct /\ tx[o].b \in Acct /\ tx[o].a # tx[o].b
         /\ tx[o].n \in Nat \ {0} /\ tx[o].m \in Nat \ {0} /\ tx[o].a0 \in Nat /\ tx[o].b0 \in Nat
         /\ tx[o].kind \in Moves
         /\ account[tx[o].a].status # "none" /\ account[tx[o].b].status # "none"
         /\ op[o].pc = "done"
         /\ \A p \in Op \ {o} : \A x \in X : x[1] \notin HeldBy(p)
<1>1. TypesInv /\ TxOK(o) /\ IsolatedOK(o) /\ AtRest /\ Exclusive
  BY Facts
<1>2. o \in isolated
  BY <1>1 DEF TypesInv, OpsTyped
<1>3. tx[o] \in TxType /\ tx[o] # NoTx /\ txSaved[o] # NoTx
  BY <1>1, <1>2 DEF TypesInv, StoresTyped, IsolatedOK
<1>4. /\ tx[o].a \in Acct /\ tx[o].b \in Acct /\ tx[o].n \in Nat \ {0} /\ tx[o].m \in Nat \ {0}
      /\ tx[o].a0 \in Nat /\ tx[o].b0 \in Nat /\ tx[o].kind \in Moves
  BY <1>3 DEF TxType
<1>5. tx[o].a # tx[o].b /\ op[o].pc # "idle"
  BY <1>1, <1>3 DEF TxOK
<1>6. /\ account[tx[o].a].status # "none" /\ account[tx[o].b].status # "none"
  BY <1>1, <1>2 DEF IsolatedOK, Native
<1>7. saved = ledger /\ \A p \in Op : ~Busy(p)
  BY <1>1 DEF AtRest
<1>8. op[o].pc = "done"
  BY <1>5, <1>7 DEF Busy
<1>9. HeldBy(o) = {tx[o].a[1], tx[o].b[1]}
  BY <1>2 DEF HeldBy, Domains
<1>10. \A p \in Op \ {o} : HeldBy(o) \cap HeldBy(p) = {}
  BY <1>1 DEF Exclusive
<1>11. \A p \in Op \ {o} : \A x \in X : x[1] \notin HeldBy(p)
  BY <1>9, <1>10
<1>. QED
  BY <1>1, <1>2, <1>3, <1>4, <1>5, <1>6, <1>7, <1>8, <1>11

\* What is booked for a move in recovery, and what its balances say.
LEMMA BookedIs ==
  ASSUME IInv, NEW o \in Op, o \in todo
  PROVE  /\ HasBoth(o) <=> Booked(ledger, o)
         /\ HasNone(o) <=> ~HasBoth(o)
         /\ HasBoth(o) => tx[o].state = "needs-recovery" /\ Debited(tx[o]) /\ Credited(tx[o])
<1>1. PICK X : X = {tx[o].a, tx[o].b}
  OBVIOUS
<1>2. o \in isolated /\ TxOK(o) /\ IsolatedOK(o) /\ tx[o] # NoTx
  BY <1>1, RecoverNow
<1>3. HasBoth(o) \/ HasNone(o)
  BY <1>2 DEF TxOK
<1>4. HasBoth(o) => ~HasNone(o)
  BY DEF HasBoth, HasNone
<1>5. ASSUME HasBoth(o) PROVE Booked(ledger, o)
  <2>1. PICK i \in DOMAIN ledger :
          /\ i + 1 \in DOMAIN ledger
          /\ ledger[i + 1] = Entry(tx[o].b, tx[o].m, CreditKind(tx[o].kind), o, 0, 0)
    BY <1>5 DEF HasBoth
  <2>2. PICK j \in DOMAIN ledger : j = i + 1
    BY <2>1
  <2>3. ledger[j].by = o /\ ledger[j].kind = CreditKind(tx[o].kind)
    BY <2>1, <2>2 DEF Entry
  <2>. QED
    BY <2>3 DEF Booked, EntriesOf
<1>6. HasNone(o) => ~Booked(ledger, o)
  BY DEF HasNone, EntriesBy, Booked, EntriesOf
<1>. QED
  BY <1>2, <1>3, <1>4, <1>5, <1>6 DEF IsolatedOK

\* A step of recovery.
LEMMA RecoverStep ==
  ASSUME IInv, TypesInv', NEW o \in Op, o \in todo,
         UNCHANGED <<op, receipt, ledger, saved>>,
         \A p \in Op \ {o} : /\ tx'[p] = tx[p] /\ txSaved'[p] \in {txSaved[p], tx[p]}
                             /\ p \in isolated' <=> p \in isolated
                             /\ p \in todo' <=> p \in todo,
         tx'[o].a = tx[o].a, tx'[o].b = tx[o].b,
         \A x \in Acct \ {tx[o].a, tx[o].b} : account'[x] = account[x],
         \A x \in Acct : account'[x].status = account[x].status,
         TxOK(o)', IsolatedOK(o)',
         \A x \in {tx[o].a, tx[o].b} :
           Pending(o, x)' = Pending(o, x) + (account'[x].bal - account[x].bal)
  PROVE  IInv'
<1>1. PICK X : X = {tx[o].a, tx[o].b}
  OBVIOUS
<1>2. /\ saved = ledger /\ (\A p \in Op : ~Busy(p)) /\ o \in isolated /\ X \subseteq Acct
      /\ tx[o] # NoTx /\ op[o].pc = "done"
      /\ account[tx[o].a].status # "none" /\ account[tx[o].b].status # "none"
      /\ \A p \in Op \ {o} : \A x \in X : x[1] \notin HeldBy(p)
  BY <1>1, RecoverNow
<1>3. /\ Grows(o, X) /\ DOMAIN ledger' \ DOMAIN ledger = {}
      /\ \A r : RefEntries(r)' = RefEntries(r)
      /\ \A x : Sum(x)' = Sum(x)
  BY Typed, LedgerSame
<1>4. \A p \in Op : ~Busy(p)'
  BY <1>2 DEF Busy
<1>5. Frame(o, X)
  <2>1. Apart(o, X)
    BY <1>2 DEF Apart
  <2>2. TxWithin(o, X) /\ TxWithin(o, X)'
    BY <1>1 DEF TxWithin
  <2>3. op'[o].pc # "idle" /\ ~Busy(o)'
    BY <1>2, <1>4
  <2>. QED
    BY <1>1, <1>2, <1>3, <2>1, <2>2, <2>3 DEF Frame
<1>6. OpOK(o)'
  <2>1. MoveOK(o)' /\ KeyedOK(o)' /\ PlainOK(o)'
    BY <1>4 DEF MoveOK, KeyedOK, PlainOK
  <2>. QED
    BY <2>1 DEF OpOK
<1>7. ASSUME NEW x \in X PROVE BooksOK(x)'
  <2>1. \A r \in Ref : Orphan(r)' <=> Orphan(r)
    BY <1>3 DEF Orphan
  <2>2. Orphaned(x)' = Orphaned(x)
    BY <2>1, OrphansSame
  <2>3. x \in Acct /\ account[x].bal \in Int /\ Sum(x) \in Int /\ Orphaned(x) \in Int
    BY <1>2, Facts, SumOfType, SumIsSumOf, OrphansType DEF TypesInv, BooksTyped
  <2>4. account'[x].bal \in Int
    BY <2>3 DEF TypesInv, DocumentsTyped
  <2>5. PICK p \in Int : p = account'[x].bal - account[x].bal
    BY <2>3, <2>4
  <2>6. PICK z \in Int : z = 0
    OBVIOUS
  <2>7. /\ Sum(x)' = Sum(x) + z /\ Orphaned(x)' = Orphaned(x) + z
        /\ account'[x].bal = account[x].bal + z + z + p
    BY <1>3, <2>2, <2>3, <2>4, <2>5, <2>6
  <2>8. Pending(o, x)' = Pending(o, x) + p
    BY <1>1, <2>5
  <2>. QED
    BY <1>5, <2>3, <2>7, <2>8, BooksMove
<1>8. \A x \in X : account'[x].status # "none"
  BY <1>1, <1>2
<1>9. saved' = ledger'
  BY <1>2
<1>10. tx'[o].a \in X /\ tx'[o].b \in X
  BY <1>1
<1>11. Own(o, X)
  BY <1>3, <1>4, <1>6, <1>7, <1>8, <1>9, <1>10 DEF Own
<1>. QED
  BY <1>5, <1>11, StepKeeps

\* The types through a step of recovery.
LEMMA RecoverTypes ==
  ASSUME TypesInv, UNCHANGED <<op, receipt, ledger, saved, resv, resvSaved>>,
         account' \in [Acct -> [status : Statuses, bal : Nat]],
         tx' \in [Op -> TxType], txSaved' \in {txSaved, tx, tx'},
         todo' \subseteq isolated', isolated' \subseteq Op
  PROVE  TypesInv'
<1>1. DocumentsTyped' /\ OpsTyped'
  BY DEF TypesInv, DocumentsTyped, OpsTyped
<1>2. BooksTyped'
  BY DEF TypesInv, BooksTyped
<1>3. StoresTyped'
  BY DEF TypesInv, StoresTyped
<1>. QED
  BY <1>1, <1>2, <1>3 DEF TypesInv

\* What recovery has still to give back to an account.
LEMMA PendingNow ==
  ASSUME NEW o \in Op, NEW x
  PROVE  /\ o \in isolated /\ HasNone(o) /\ Unresolved(tx[o]) =>
              Pending(o, x) = Side(tx[o], x, Bal(x) - tx[o].a0, Bal(x) - tx[o].b0)
         /\ o \in isolated /\ (~HasNone(o) \/ ~Unresolved(tx[o])) => Pending(o, x) = 0
         /\ o \notin isolated /\ op[o].pc = "done" /\ tx[o].state # "needs-recovery" =>
              Pending(o, x) = 0
BY DEF Pending

\* reconcile of a move, by its entries and its balances.
LEMMA ReconcileMoveKeeps ==
  ASSUME IInv, NEW o \in Op, ReconcileMove(o)
  PROVE  IInv'
<1>1. PICK X : X = {tx[o].a, tx[o].b}
  OBVIOUS
<1>2. /\ o \in todo /\ tx[o].state = "needs-recovery"
      /\ UNCHANGED <<account, receipt, ledger, saved, resv, resvSaved, op>>
  BY DEF ReconcileMove, Next1, documents, books, reservations
<1>3. /\ saved = ledger /\ o \in isolated /\ X \subseteq Acct
      /\ tx[o] \in TxType /\ tx[o] # NoTx /\ txSaved[o] # NoTx /\ TxOK(o) /\ IsolatedOK(o)
      /\ op[o].pc = "done" /\ tx[o].a \in Acct /\ tx[o].b \in Acct
  BY <1>1, <1>2, RecoverNow
<1>4. TypesInv /\ account \in [Acct -> [status : Statuses, bal : Nat]]
      /\ todo \subseteq isolated /\ isolated \subseteq Op
  BY Facts DEF TypesInv, DocumentsTyped, OpsTyped
<1>5. \A x \in Acct : account[x].bal \in Int
  BY <1>4
<1>6. Unresolved(tx[o])
  BY <1>2 DEF Unresolved, Final
<1>7. CASE Booked(ledger, o) /\ Debited(tx[o]) /\ Credited(tx[o])
  <2>1. /\ TxEnds(o, "committed") /\ txSaved' = tx'
        /\ todo' = todo \ {o} /\ isolated' = isolated \ {o}
    BY <1>7 DEF ReconcileMove
  <2>2. /\ tx' \in [Op -> TxType] /\ \A p \in Op \ {o} : tx'[p] = tx[p]
        /\ tx'[o].state = "committed" /\ tx'[o] # NoTx
        /\ tx'[o].kind = tx[o].kind /\ tx'[o].a = tx[o].a /\ tx'[o].b = tx[o].b
        /\ tx'[o].n = tx[o].n /\ tx'[o].m = tx[o].m
        /\ tx'[o].a0 = tx[o].a0 /\ tx'[o].b0 = tx[o].b0
    BY <2>1, <1>3, <1>4, TxStatesAre, TxEndsIs
  <2>3. TypesInv'
    BY <1>2, <1>4, <2>1, <2>2, RecoverTypes
  <2>4. HasBoth(o)
    BY <1>2, <1>7, BookedIs
  <2>5. HasBoth(o)' /\ AllSaved(o)'
    BY <1>2, <1>3, <1>4, <2>2, <2>4, EntriesStay
  <2>6. TxOK(o)'
    BY <1>2, <1>3, <2>1, <2>2, <2>5 DEF TxOK
  <2>7. IsolatedOK(o)'
    BY <2>1 DEF IsolatedOK
  <2>8. ~HasNone(o)
    BY <1>2, <2>4, BookedIs
  <2>9. \A x : Pending(o, x) = 0
    BY <1>3, <2>8, PendingNow
  <2>10. \A x : Pending(o, x)' = 0
    BY <1>2, <1>3, <2>1, <2>2 DEF Pending
  <2>11. \A x \in X : Pending(o, x)' = Pending(o, x) + (account'[x].bal - account[x].bal)
    BY <1>2, <1>3, <1>5, <2>9, <2>10
  <2>12. \A p \in Op \ {o} : /\ tx'[p] = tx[p] /\ txSaved'[p] \in {txSaved[p], tx[p]}
                             /\ p \in isolated' <=> p \in isolated
                             /\ p \in todo' <=> p \in todo
    BY <2>1, <2>2
  <2>. QED
    BY <1>1, <1>2, <2>2, <2>3, <2>6, <2>7, <2>11, <2>12, RecoverStep
<1>8. CASE ~(Booked(ledger, o) /\ Debited(tx[o]) /\ Credited(tx[o]))
  <2>1. TxEnds(o, "compensating") /\ UNCHANGED <<txSaved, todo, isolated>>
    BY <1>8 DEF ReconcileMove
  <2>2. /\ tx' \in [Op -> TxType] /\ \A p \in Op \ {o} : tx'[p] = tx[p]
        /\ tx'[o].state = "compensating" /\ tx'[o] # NoTx
        /\ tx'[o].kind = tx[o].kind /\ tx'[o].a = tx[o].a /\ tx'[o].b = tx[o].b
        /\ tx'[o].n = tx[o].n /\ tx'[o].m = tx[o].m
        /\ tx'[o].a0 = tx[o].a0 /\ tx'[o].b0 = tx[o].b0
    BY <2>1, <1>3, <1>4, TxStatesAre, TxEndsIs
  <2>3. TypesInv'
    BY <1>2, <1>4, <2>1, <2>2, RecoverTypes
  <2>4. HasNone(o) /\ ~HasBoth(o)
    BY <1>2, <1>8, BookedIs
  <2>5. HasNone(o)' /\ EntriesBy(o)' = EntriesBy(o)
    BY <1>2, <2>4 DEF HasNone, EntriesBy
  <2>6. Unresolved(txSaved[o]) /\ tx'[o] = [txSaved[o] EXCEPT !.state = tx'[o].state]
    BY <1>3, <1>6, <2>1, TxStatesAre, TxMoved
  <2>7. TxOK(o)'
    BY <1>2, <1>3, <2>1, <2>2, <2>5, <2>6 DEF TxOK, Unresolved
  <2>8. ~HasBoth(o)'
    BY <2>5 DEF HasBoth, HasNone
  <2>9. IsolatedOK(o)'
    BY <1>2, <1>3, <2>1, <2>2, <2>8 DEF IsolatedOK, Busy, Bal, Native
  <2>10. Unresolved(tx[o])'
    BY <2>2 DEF Unresolved, Final
  <2>11. \A x : Pending(o, x)' = Pending(o, x)
    BY <1>2, <1>3, <1>6, <2>1, <2>2, <2>4, <2>5, <2>10 DEF Pending, Side, Bal
  <2>12. \A x \in X : Pending(o, x) \in Int
    <3>1. OpOK(o)
      BY DEF IInv
    <3>. QED
      BY <1>4, <3>1, PendingType
  <2>13. \A x \in X : Pending(o, x)' = Pending(o, x) + (account'[x].bal - account[x].bal)
    BY <1>2, <1>3, <1>5, <2>11, <2>12
  <2>14. \A p \in Op \ {o} : /\ tx'[p] = tx[p] /\ txSaved'[p] \in {txSaved[p], tx[p]}
                             /\ p \in isolated' <=> p \in isolated
                             /\ p \in todo' <=> p \in todo
    BY <2>1, <2>2
  <2>. QED
    BY <1>1, <1>2, <2>2, <2>3, <2>7, <2>9, <2>13, <2>14, RecoverStep
<1>. QED
  BY <1>7, <1>8

\* The compensators give old balances back.
LEMMA RestoreBalancesKeeps ==
  ASSUME IInv, NEW o \in Op, RestoreBalances(o)
  PROVE  IInv'
<1>1. PICK X : X = {tx[o].a, tx[o].b}
  OBVIOUS
<1>2. PICK a, b : a = tx[o].a /\ b = tx[o].b
  OBVIOUS
<1>3. PICK s, u : /\ s = IF Debited(tx[o]) THEN tx[o].a0 ELSE Bal(tx[o].a)
                  /\ u = IF Credited(tx[o]) /\ (Debited(tx[o]) => tx[o].kind = "convert")
                         THEN tx[o].b0 ELSE Bal(tx[o].b)
  OBVIOUS
<1>4. /\ o \in todo /\ tx[o].state = "compensating"
      /\ UNCHANGED <<receipt, ledger, saved, resv, resvSaved, tx, txSaved, op, todo, isolated>>
  BY DEF RestoreBalances, Next1, books, reservations, transactions
<1>5. /\ saved = ledger /\ o \in isolated /\ X \subseteq Acct
      /\ tx[o] \in TxType /\ tx[o] # NoTx /\ txSaved[o] # NoTx /\ TxOK(o) /\ IsolatedOK(o)
      /\ op[o].pc = "done" /\ tx[o].a0 \in Nat /\ tx[o].b0 \in Nat
      /\ a \in Acct /\ b \in Acct /\ a # b
  BY <1>1, <1>2, <1>4, RecoverNow
<1>6. TypesInv /\ account \in [Acct -> [status : Statuses, bal : Nat]]
      /\ todo \subseteq isolated /\ isolated \subseteq Op
      /\ tx \in [Op -> TxType]
  BY Facts DEF TypesInv, DocumentsTyped, OpsTyped, StoresTyped
<1>7. \A x \in Acct : account[x].bal \in Nat
  BY <1>6
<1>8. s \in Nat /\ u \in Nat
  BY <1>2, <1>3, <1>5, <1>7 DEF Bal
<1>9. account' = [account EXCEPT ![a].bal = s, ![b].bal = u]
  BY <1>2, <1>3, <1>5 DEF RestoreBalances, Bal
<1>10. /\ account' \in [Acct -> [status : Statuses, bal : Nat]]
       /\ \A x \in Acct \ {a, b} : account'[x] = account[x]
       /\ \A x \in Acct : account'[x].status = account[x].status
       /\ account'[a].bal = s /\ account'[b].bal = u
  BY <1>5, <1>6, <1>8, <1>9
<1>11. TypesInv'
  BY <1>4, <1>6, <1>10, RecoverTypes
<1>12. TxOK(o)'
  BY <1>4, <1>5 DEF TxOK, HasBoth, HasNone, EntriesBy, AllSaved, Unsaved, Unresolved
<1>13. ~HasBoth(o) /\ HasNone(o)
  BY <1>4, BookedIs
<1>14. ~HasBoth(o)' /\ HasNone(o)'
  BY <1>4, <1>13 DEF HasBoth, HasNone, EntriesBy
<1>15. /\ s \in {tx[o].a0, tx[o].a0 - tx[o].n} /\ u \in {tx[o].b0, tx[o].b0 + tx[o].m}
  BY <1>3, <1>5 DEF IsolatedOK
<1>16. IsolatedOK(o)'
  BY <1>2, <1>4, <1>5, <1>10, <1>14, <1>15 DEF IsolatedOK, Busy, Bal, Native
<1>17. Unresolved(tx[o]) /\ Unresolved(tx[o])'
  BY <1>4 DEF Unresolved, Final
<1>18. /\ Pending(o, a) = account[a].bal - tx[o].a0 /\ Pending(o, b) = account[b].bal - tx[o].b0
  BY <1>2, <1>5, <1>13, <1>17 DEF Pending, Side, Bal
<1>19. /\ Pending(o, a)' = s - tx[o].a0 /\ Pending(o, b)' = u - tx[o].b0
  BY <1>2, <1>4, <1>5, <1>10, <1>14, <1>17 DEF Pending, Side, Bal
<1>20. /\ Pending(o, a)' = Pending(o, a) + (account'[a].bal - account[a].bal)
       /\ Pending(o, b)' = Pending(o, b) + (account'[b].bal - account[b].bal)
  BY <1>5, <1>7, <1>8, <1>10, <1>18, <1>19
<1>21. \A x \in {tx[o].a, tx[o].b} :
          Pending(o, x)' = Pending(o, x) + (account'[x].bal - account[x].bal)
  BY <1>2, <1>20
<1>. QED
  BY <1>2, <1>4, <1>10, <1>11, <1>12, <1>16, <1>21, RecoverStep

\* A compensated move had no entries: none is taken back.
LEMMA BookRestoredKeeps ==
  ASSUME IInv, NEW o \in Op, BookRestored(o)
  PROVE  IInv'
<1>1. PICK X : X = {tx[o].a, tx[o].b}
  OBVIOUS
<1>2. /\ o \in todo /\ tx[o].state = "compensating" /\ TxEnds(o, "compensated")
      /\ ~Debited(tx[o]) /\ ~Credited(tx[o])
      /\ UNCHANGED <<account, receipt, resv, resvSaved, txSaved, op, todo, isolated>>
  BY DEF BookRestored, Next1, documents, reservations
<1>3. /\ saved = ledger /\ o \in isolated /\ X \subseteq Acct
      /\ tx[o] \in TxType /\ tx[o] # NoTx /\ txSaved[o] # NoTx /\ TxOK(o) /\ IsolatedOK(o)
      /\ op[o].pc = "done" /\ tx[o].a \in Acct /\ tx[o].b \in Acct
      /\ tx[o].a0 \in Nat /\ tx[o].b0 \in Nat
  BY <1>1, <1>2, RecoverNow
<1>4. TypesInv /\ account \in [Acct -> [status : Statuses, bal : Nat]]
      /\ todo \subseteq isolated /\ isolated \subseteq Op /\ ledger \in Seq(EntryType)
  BY Facts DEF TypesInv, DocumentsTyped, OpsTyped, BooksTyped
<1>5. \A x \in Acct : account[x].bal \in Int
  BY <1>4
<1>6. Unresolved(tx[o])
  BY <1>2 DEF Unresolved, Final
<1>7. HasNone(o) /\ ~HasBoth(o) /\ ~Booked(ledger, o)
  BY <1>2, BookedIs
\* Nothing is booked, so nothing is taken back.
<1>8. ledger' = ledger /\ saved' = saved
  <2>1. ledger' = ledger \o <<>> \o <<>> /\ saved' = ledger'
    BY <1>7 DEF BookRestored
  <2>2. ledger \o <<>> = ledger
    BY <1>4
  <2>. QED
    BY <1>3, <2>1, <2>2
<1>9. /\ tx' \in [Op -> TxType] /\ \A p \in Op \ {o} : tx'[p] = tx[p]
      /\ tx'[o].state = "compensated" /\ tx'[o] # NoTx
      /\ tx'[o].kind = tx[o].kind /\ tx'[o].a = tx[o].a /\ tx'[o].b = tx[o].b
      /\ tx'[o].n = tx[o].n /\ tx'[o].m = tx[o].m
      /\ tx'[o].a0 = tx[o].a0 /\ tx'[o].b0 = tx[o].b0
  BY <1>2, <1>3, <1>4, TxStatesAre, TxEndsIs
<1>10. TypesInv'
  BY <1>2, <1>4, <1>8, <1>9, RecoverTypes
<1>11. HasNone(o)' /\ EntriesBy(o)' = EntriesBy(o)
  BY <1>7, <1>8 DEF HasNone, EntriesBy
<1>12. Unresolved(txSaved[o]) /\ tx'[o] = [txSaved[o] EXCEPT !.state = tx'[o].state]
  BY <1>2, <1>3, <1>6, TxStatesAre, TxMoved
<1>13. TxOK(o)'
  BY <1>2, <1>3, <1>9, <1>11, <1>12 DEF TxOK, Unresolved
<1>14. ~HasBoth(o)'
  BY <1>11 DEF HasBoth, HasNone
<1>15. account[tx[o].a].bal = tx[o].a0 /\ account[tx[o].b].bal = tx[o].b0
  BY <1>2, <1>3 DEF IsolatedOK, Debited, Credited, Bal
<1>16. IsolatedOK(o)'
  BY <1>2, <1>3, <1>9, <1>14, <1>15 DEF IsolatedOK, Busy, Bal, Native, Untouched
<1>17. ~Unresolved(tx[o])'
  BY <1>9 DEF Unresolved, Final
<1>18. \A x : Pending(o, x)' = 0
  BY <1>2, <1>3, <1>17 DEF Pending
<1>19. \A x \in X : Pending(o, x) = 0
  BY <1>1, <1>3, <1>15 DEF Pending, Side, Bal
<1>20. \A x \in {tx[o].a, tx[o].b} :
          Pending(o, x)' = Pending(o, x) + (account'[x].bal - account[x].bal)
  BY <1>1, <1>2, <1>3, <1>5, <1>18, <1>19
<1>21. /\ \A p \in Op \ {o} : /\ tx'[p] = tx[p] /\ txSaved'[p] \in {txSaved[p], tx[p]}
                              /\ p \in isolated' <=> p \in isolated
                              /\ p \in todo' <=> p \in todo
       /\ \A x \in Acct \ {tx[o].a, tx[o].b} : account'[x] = account[x]
       /\ \A x \in Acct : account'[x].status = account[x].status
  BY <1>2, <1>9
<1>. QED
  BY <1>2, <1>8, <1>9, <1>10, <1>13, <1>16, <1>20, <1>21, RecoverStep

\* The keys of a resolved transaction are released.
LEMMA RecoveredKeeps ==
  ASSUME IInv, NEW o \in Op, Recovered(o)
  PROVE  IInv'
<1>1. PICK X : X = {tx[o].a, tx[o].b}
  OBVIOUS
<1>2. /\ o \in todo /\ tx[o].state = "compensated" /\ txSaved' = tx
      /\ todo' = todo \ {o} /\ isolated' = isolated \ {o}
      /\ UNCHANGED <<account, receipt, ledger, saved, resv, resvSaved, tx, op>>
  BY DEF Recovered, Next1, documents, books, reservations
<1>3. /\ saved = ledger /\ o \in isolated /\ X \subseteq Acct
      /\ tx[o] \in TxType /\ tx[o] # NoTx /\ txSaved[o] # NoTx /\ TxOK(o) /\ IsolatedOK(o)
      /\ op[o].pc = "done" /\ tx[o].a \in Acct /\ tx[o].b \in Acct
  BY <1>1, <1>2, RecoverNow
<1>4. TypesInv /\ account \in [Acct -> [status : Statuses, bal : Nat]]
      /\ todo \subseteq isolated /\ isolated \subseteq Op /\ tx \in [Op -> TxType]
  BY Facts DEF TypesInv, DocumentsTyped, OpsTyped, StoresTyped
<1>5. \A x \in Acct : account[x].bal \in Int
  BY <1>4
<1>6. TypesInv'
  BY <1>2, <1>4, RecoverTypes
<1>7. TxOK(o)'
  BY <1>2, <1>3 DEF TxOK, HasBoth, HasNone, EntriesBy, AllSaved, Unsaved
<1>8. IsolatedOK(o)'
  BY <1>2 DEF IsolatedOK
<1>9. ~Unresolved(tx[o])
  BY <1>2 DEF Unresolved, Final
<1>10. \A x : Pending(o, x) = 0 /\ Pending(o, x)' = 0
  BY <1>2, <1>3, <1>9 DEF Pending
<1>11. \A x \in {tx[o].a, tx[o].b} :
          Pending(o, x)' = Pending(o, x) + (account'[x].bal - account[x].bal)
  BY <1>2, <1>3, <1>5, <1>10
<1>12. /\ \A p \in Op \ {o} : /\ tx'[p] = tx[p] /\ txSaved'[p] \in {txSaved[p], tx[p]}
                              /\ p \in isolated' <=> p \in isolated
                              /\ p \in todo' <=> p \in todo
       /\ \A x \in Acct \ {tx[o].a, tx[o].b} : account'[x] = account[x]
       /\ \A x \in Acct : account'[x].status = account[x].status
       /\ tx'[o].a = tx[o].a /\ tx'[o].b = tx[o].b
  BY <1>2
<1>. QED
  BY <1>2, <1>6, <1>7, <1>8, <1>11, <1>12, RecoverStep

\* A compensator fails: the transaction keeps its keys.
LEMMA RecoveryFailsKeeps ==
  ASSUME IInv, NEW o \in Op, RecoveryFails(o)
  PROVE  IInv'
<1>1. PICK X : X = {tx[o].a, tx[o].b}
  OBVIOUS
<1>2. /\ o \in todo /\ tx[o].state = "compensating" /\ TxEnds(o, "needs-recovery")
      /\ txSaved' = tx' /\ todo' = todo \ {o}
      /\ UNCHANGED <<account, receipt, ledger, saved, resv, resvSaved, op, isolated>>
  BY DEF RecoveryFails, Next1, documents, books, reservations
<1>3. /\ saved = ledger /\ o \in isolated /\ X \subseteq Acct
      /\ tx[o] \in TxType /\ tx[o] # NoTx /\ txSaved[o] # NoTx /\ TxOK(o) /\ IsolatedOK(o)
      /\ op[o].pc = "done" /\ tx[o].a \in Acct /\ tx[o].b \in Acct
  BY <1>1, <1>2, RecoverNow
<1>4. TypesInv /\ account \in [Acct -> [status : Statuses, bal : Nat]]
      /\ todo \subseteq isolated /\ isolated \subseteq Op
  BY Facts DEF TypesInv, DocumentsTyped, OpsTyped
<1>5. \A x \in Acct : account[x].bal \in Int
  BY <1>4
<1>6. Unresolved(tx[o])
  BY <1>2 DEF Unresolved, Final
<1>7. HasNone(o) /\ ~HasBoth(o)
  BY <1>2, BookedIs
<1>9. /\ tx' \in [Op -> TxType] /\ \A p \in Op \ {o} : tx'[p] = tx[p]
      /\ tx'[o].state = "needs-recovery" /\ tx'[o] # NoTx
      /\ tx'[o].kind = tx[o].kind /\ tx'[o].a = tx[o].a /\ tx'[o].b = tx[o].b
      /\ tx'[o].n = tx[o].n /\ tx'[o].m = tx[o].m
      /\ tx'[o].a0 = tx[o].a0 /\ tx'[o].b0 = tx[o].b0
  BY <1>2, <1>3, <1>4, TxStatesAre, TxEndsIs
<1>10. TypesInv'
  BY <1>2, <1>4, <1>9, RecoverTypes
<1>11. HasNone(o)' /\ EntriesBy(o)' = EntriesBy(o)
  BY <1>2, <1>7 DEF HasNone, EntriesBy
<1>13. TxOK(o)'
  BY <1>2, <1>3, <1>9, <1>11 DEF TxOK
<1>14. ~HasBoth(o)'
  BY <1>11 DEF HasBoth, HasNone
<1>16. IsolatedOK(o)'
  BY <1>2, <1>3, <1>9, <1>14 DEF IsolatedOK, Busy, Bal, Native, Untouched
<1>17. Unresolved(tx[o])'
  BY <1>9 DEF Unresolved, Final
<1>18. \A x : Pending(o, x)' = Pending(o, x)
  BY <1>2, <1>3, <1>6, <1>7, <1>9, <1>11, <1>17 DEF Pending, Side, Bal
<1>19. \A x : Pending(o, x) \in Int
  <2>1. OpOK(o)
    BY DEF IInv
  <2>. QED
    BY <1>4, <2>1, PendingType
<1>20. \A x \in {tx[o].a, tx[o].b} :
          Pending(o, x)' = Pending(o, x) + (account'[x].bal - account[x].bal)
  BY <1>2, <1>3, <1>5, <1>18, <1>19
<1>21. /\ \A p \in Op \ {o} : /\ tx'[p] = tx[p] /\ txSaved'[p] \in {txSaved[p], tx[p]}
                              /\ p \in isolated' <=> p \in isolated
                              /\ p \in todo' <=> p \in todo
       /\ \A x \in Acct \ {tx[o].a, tx[o].b} : account'[x] = account[x]
       /\ \A x \in Acct : account'[x].status = account[x].status
  BY <1>2, <1>9
<1>. QED
  BY <1>2, <1>9, <1>10, <1>13, <1>16, <1>20, <1>21, RecoverStep

----------------------------------------------------------------------------
\* Snapshots and stuttering.

\* A snapshot that catches up with the memory, or nothing at all.
LEMMA SnapshotKeeps ==
  ASSUME IInv, UNCHANGED <<account, receipt, ledger, resv, tx, op, todo, isolated>>,
         saved' \in {saved, ledger}, resvSaved' \in {resvSaved, resv},
         txSaved' \in {txSaved, tx}
  PROVE  IInv'
<1>1. TypesInv /\ AtRest /\ Exclusive
  BY Facts
<1>2. TypesInv'
  <2>1. DocumentsTyped' /\ OpsTyped'
    BY <1>1 DEF TypesInv, DocumentsTyped, OpsTyped
  <2>2. BooksTyped'
    BY <1>1 DEF TypesInv, BooksTyped
  <2>3. StoresTyped'
    BY <1>1 DEF TypesInv, StoresTyped
  <2>. QED
    BY <2>1, <2>2, <2>3 DEF TypesInv
<1>3. ASSUME NEW o \in Op
      PROVE  /\ HasBoth(o) => HasBoth(o)'
             /\ HasNone(o)' <=> HasNone(o)
             /\ AllSaved(o) => AllSaved(o)'
  BY <1>1, EntriesStay
<1>4. \A i \in DOMAIN ledger : Unsaved(i)' => Unsaved(i)
  BY <1>1, LedgerDomain DEF Unsaved
<1>5. \A r : Durable(r) => Durable(r)'
  BY <1>4 DEF Durable, Busy
<1>6. ASSUME NEW i \in DOMAIN ledger PROVE EntryOK(i)'
  BY <1>4, Facts DEF EntryOK, Busy
<1>7. ASSUME NEW r \in Ref PROVE ConfirmedOK(r)'
  <2>1. ConfirmedOK(r)
    BY DEF IInv
  <2>. QED
    BY <1>5, <2>1 DEF ConfirmedOK
<1>8. ASSUME NEW o \in Op PROVE OpOK(o)'
  <2>1. TxOK(o) /\ MoveOK(o) /\ KeyedOK(o) /\ PlainOK(o) /\ IsolatedOK(o)
    BY Facts
  <2>2. txSaved'[o] \in {txSaved[o], tx[o]}
    OBVIOUS
  <2>3. TxOK(o)'
    <3>1. op'[o] = op[o] /\ tx'[o] = tx[o]
      OBVIOUS
    <3>2. CASE txSaved'[o] = tx[o]
      BY <1>3, <2>1, <3>1, <3>2 DEF TxOK
    <3>3. CASE txSaved'[o] = txSaved[o]
      BY <1>3, <2>1, <3>1, <3>3 DEF TxOK, Unresolved
    <3>. QED
      BY <2>2, <3>2, <3>3
  <2>4. MoveOK(o)'
    BY <1>3, <2>1, <2>2 DEF MoveOK, Busy, Native, Untouched, Debited, Credited, Bal
  <2>5. EntriesBy(o)' = EntriesBy(o) /\ \A r : RefEntries(r)' = RefEntries(r)
    BY DEF EntriesBy, RefEntries
  <2>6. KeyedOK(o)'
    BY <1>3, <1>5, <2>1, <2>5 DEF KeyedOK, Busy, Native
  <2>7. PlainOK(o)'
    BY <2>1 DEF PlainOK, Busy, Native, Bal
  <2>8. tx[o] # NoTx /\ HasBoth(o)' => HasBoth(o)
    <3>1. HasBoth(o)' => ~HasNone(o)'
      BY DEF HasBoth, HasNone
    <3>. QED
      BY <1>3, <2>1, <3>1 DEF TxOK
  <2>9. IsolatedOK(o)'
    BY <2>1, <2>2, <2>8 DEF IsolatedOK, Busy, Native, Bal, Debited, Credited, Untouched
  <2>. QED
    BY <2>3, <2>4, <2>6, <2>7, <2>9 DEF OpOK
<1>9. Exclusive'
  BY <1>1 DEF Exclusive, HeldBy, Busy, Domains
<1>10. AtRest'
  BY <1>1 DEF AtRest, Busy, Native, Bal
<1>11. ASSUME NEW a \in Acct PROVE BooksOK(a)'
  <2>1. BooksOK(a)
    BY DEF IInv
  <2>2. Sum(a)' = Sum(a)
    BY <1>1, LedgerSame
  <2>3. Orphaned(a)' = Orphaned(a)
    <3>1. \A r \in Ref : Orphan(r)' <=> Orphan(r)
      BY DEF Orphan, RefEntries
    <3>. QED
      BY <3>1, OrphansSame
  <2>4. AllPending(a)' = AllPending(a)
    <3>1. \A o \in Op : Pending(o, a)' = Pending(o, a)
      BY DEF Pending, Side, Bal, HasNone, EntriesBy, Unresolved
    <3>. QED
      BY <3>1 DEF AllPending
  <2>. QED
    BY <2>1, <2>2, <2>3, <2>4 DEF BooksOK, Bal, Base
<1>. QED
  BY <1>2, <1>6, <1>7, <1>8, <1>9, <1>10, <1>11 DEF IInv

\* A scheduled snapshot.
LEMMA PersistKeeps ==
  ASSUME IInv, Persist
  PROVE  IInv'
<1>1. /\ UNCHANGED <<account, receipt, ledger, resv, tx, op, todo, isolated>>
      /\ saved' \in {saved, ledger} /\ resvSaved' \in {resvSaved, resv}
      /\ txSaved' \in {txSaved, tx}
  BY DEF Persist, documents, FlushLedger, FlushReservations
<1>. QED
  BY <1>1, SnapshotKeeps

\* Nothing.
LEMMA StutterKeeps ==
  ASSUME IInv, UNCHANGED vars
  PROVE  IInv'
<1>1. /\ UNCHANGED <<account, receipt, ledger, resv, tx, op, todo, isolated>>
      /\ saved' = saved /\ resvSaved' = resvSaved /\ txSaved' = txSaved
  BY DEF vars, documents, books, reservations, transactions
<1>. QED
  BY <1>1, SnapshotKeeps

----------------------------------------------------------------------------
\* Crashes.

Found == {o \in Op : Unresolved(txSaved[o])}

\* A crash that Survivable allows: what it finds and what it does.
Crashing ==
  /\ IInv
  /\ \A o \in Op : ~Busy(o) /\ o \notin isolated => ~Unresolved(tx[o]) /\ txSaved[o] = tx[o]
  /\ \A i \in DOMAIN ledger : Unsaved(i) => Busy(ledger[i].by)
  /\ \A o \in Op : Busy(o) => op[o].kind \in Moves \cup {"keyed"}
  /\ ledger' = saved /\ resv' = resvSaved
  /\ UNCHANGED <<account, receipt, saved, resvSaved>>
  /\ tx' = [o \in Op |-> IF o \in Found
                         THEN [txSaved[o] EXCEPT !.state = "needs-recovery"]
                         ELSE txSaved[o]]
  /\ txSaved' = tx' /\ isolated' = Found /\ todo' = Found
  /\ op' = [o \in Op |-> IF Busy(o) THEN [Idle EXCEPT !.pc = "done"] ELSE op[o]]

\* A crash that Survivable allows is one.
LEMMA CrashingIs ==
  ASSUME IInv, Survivable, Crash
  PROVE  Crashing
<1>1. ~Stray /\ \A o \in Op : Busy(o) => op[o].kind \in Moves \cup {"keyed"}
  BY DEF Crash, Survivable, Moves
<1>2. \A o \in Op : ~Busy(o) /\ o \notin isolated => ~Unresolved(tx[o]) /\ txSaved[o] = tx[o]
  BY <1>1 DEF Stray
<1>3. \A i \in DOMAIN ledger : Unsaved(i) => Busy(ledger[i].by)
  <2>1. DOMAIN ledger = 1 .. Len(ledger) /\ Len(ledger) \in Nat /\ Len(saved) \in Nat
    BY Typed, LedgerDomain
  <2>2. ASSUME NEW i \in DOMAIN ledger, Unsaved(i) PROVE i \in Len(saved) + 1 .. Len(ledger)
    BY <2>1, <2>2 DEF Unsaved
  <2>. QED
    BY <1>1, <2>2 DEF Stray
<1>4. /\ ledger' = saved /\ resv' = resvSaved
      /\ UNCHANGED <<account, receipt, saved, resvSaved>>
      /\ tx' = [o \in Op |-> IF o \in Found
                             THEN [txSaved[o] EXCEPT !.state = "needs-recovery"]
                             ELSE txSaved[o]]
      /\ txSaved' = tx' /\ isolated' = Found /\ todo' = Found
      /\ op' = [o \in Op |-> IF Busy(o) THEN [Idle EXCEPT !.pc = "done"] ELSE op[o]]
  BY DEF Crash, Found, Rehydrate, Scanned, documents
<1>. QED
  BY <1>1, <1>2, <1>3, <1>4 DEF Crashing

\* What of a command survives.
LEMMA CrashOps ==
  ASSUME Crashing
  PROVE  /\ op' \in [Op -> OpType]
         /\ \A o \in Op : /\ ~Busy(o)'
                          /\ op'[o].pc \in {"idle", "done"}
                          /\ op'[o].pc = "idle" <=> op[o].pc = "idle"
<1>1. op \in [Op -> OpType]
  BY Facts DEF Crashing
<1>2. PICK e : e = [Idle EXCEPT !.pc = "done"]
  OBVIOUS
<1>3. e = [pc |-> "done", kind |-> "none", a |-> NoAcct, b |-> NoAcct,
           n |-> 0, m |-> 0, ref |-> 0, prev |-> NoResv]
  BY <1>2 DEF Idle, NoResv
<1>4. NoResv \in ResvType /\ "done" \in Pcs /\ "none" \in CmdKinds
  BY DEF ResvType, Pcs, CmdKinds
<1>5. e \in OpType /\ e.pc = "done"
  BY <1>3, <1>4 DEF OpType
<1>6. op' = [o \in Op |-> IF Busy(o) THEN e ELSE op[o]]
  BY <1>2 DEF Crashing
<1>7. op' \in [Op -> OpType]
  BY <1>1, <1>5, <1>6
<1>8. \A o \in Op : /\ op'[o].pc \in {"idle", "done"}
                    /\ op'[o].pc = "idle" <=> op[o].pc = "idle"
  BY <1>5, <1>6 DEF Busy
<1>9. \A o \in Op : ~Busy(o)'
  BY <1>8 DEF Busy
<1>. QED
  BY <1>7, <1>8, <1>9

\* What of the books survives.
LEMMA CrashBooks ==
  ASSUME Crashing
  PROVE  /\ saved \in Seq(EntryType) /\ ledger \in Seq(EntryType)
         /\ ledger' = saved /\ saved' = saved
         /\ DOMAIN saved = {i \in DOMAIN ledger : ~Unsaved(i)}
         /\ \A i \in DOMAIN saved : ledger'[i] = ledger[i] /\ ~Unsaved(i)'
         /\ \A o : EntriesBy(o)' = {i \in EntriesBy(o) : ~Unsaved(i)}
         /\ \A r : RefEntries(r)' = {i \in RefEntries(r) : ~Unsaved(i)}
<1>1. TypesInv
  BY Typed DEF Crashing
<1>2. /\ saved \in Seq(EntryType) /\ ledger \in Seq(EntryType)
      /\ Len(saved) <= Len(ledger) /\ \A i \in DOMAIN saved : saved[i] = ledger[i]
  BY <1>1 DEF TypesInv, BooksTyped
<1>3. ledger' = saved /\ saved' = saved
  BY DEF Crashing
<1>4. /\ DOMAIN ledger = 1 .. Len(ledger) /\ DOMAIN saved = 1 .. Len(saved)
      /\ Len(ledger) \in Nat /\ Len(saved) \in Nat
  BY <1>1, LedgerDomain
<1>5. DOMAIN saved = {i \in DOMAIN ledger : ~Unsaved(i)}
  <2>1. Len(saved) <= Len(ledger)
    BY <1>2
  <2>. QED
    BY <1>4, <2>1 DEF Unsaved
<1>6. \A i \in DOMAIN saved : ledger'[i] = ledger[i] /\ ~Unsaved(i)'
  <2>1. \A i \in DOMAIN saved : ledger'[i] = ledger[i]
    BY <1>2, <1>3
  <2>2. \A i \in DOMAIN saved : ~Unsaved(i)'
    BY <1>3, <1>5 DEF Unsaved
  <2>. QED
    BY <2>1, <2>2
<1>7. \A o : EntriesBy(o)' = {i \in EntriesBy(o) : ~Unsaved(i)}
  <2>1. DOMAIN ledger' = {i \in DOMAIN ledger : ~Unsaved(i)}
    BY <1>3, <1>5
  <2>2. \A i \in DOMAIN ledger' : ledger'[i] = ledger[i]
    BY <1>3, <1>6
  <2>. QED
    BY <2>1, <2>2 DEF EntriesBy
<1>8. \A r : RefEntries(r)' = {i \in RefEntries(r) : ~Unsaved(i)}
  <2>1. DOMAIN ledger' = {i \in DOMAIN ledger : ~Unsaved(i)}
    BY <1>3, <1>5
  <2>2. \A i \in DOMAIN ledger' : ledger'[i] = ledger[i]
    BY <1>3, <1>6
  <2>. QED
    BY <2>1, <2>2 DEF RefEntries
<1>. QED
  BY <1>2, <1>3, <1>5, <1>6, <1>7, <1>8

\* What of a transaction survives.
LEMMA CrashTx ==
  ASSUME Crashing, NEW o \in Op
  PROVE  /\ tx[o] \in TxType /\ txSaved[o] \in TxType /\ txSaved'[o] = tx'[o]
         /\ o \in isolated' <=> o \in Found
         /\ o \in todo' <=> o \in Found
         /\ o \in Found =>
              /\ tx[o] # NoTx /\ tx'[o] # NoTx /\ tx'[o].state = "needs-recovery"
              /\ tx'[o].kind = tx[o].kind /\ tx'[o].a = tx[o].a /\ tx'[o].b = tx[o].b
              /\ tx'[o].n = tx[o].n /\ tx'[o].m = tx[o].m
              /\ tx'[o].a0 = tx[o].a0 /\ tx'[o].b0 = tx[o].b0
              /\ tx'[o] \in TxType
              /\ o \in isolated \/ (Busy(o) /\ op[o].kind \in Moves)
         /\ o \notin Found =>
              /\ tx'[o] = txSaved[o] /\ tx'[o] \in {NoTx, tx[o]} /\ ~Unresolved(tx'[o])
<1>1. /\ tx[o] \in TxType /\ txSaved[o] \in TxType
      /\ TxOK(o) /\ PlainOK(o) /\ IsolatedOK(o)
  BY Facts DEF Crashing, TypesInv, StoresTyped
<1>2. /\ tx'[o] = (IF o \in Found THEN [txSaved[o] EXCEPT !.state = "needs-recovery"]
                   ELSE txSaved[o])
      /\ txSaved'[o] = tx'[o]
      /\ o \in isolated' <=> o \in Found
      /\ o \in todo' <=> o \in Found
  BY DEF Crashing
<1>3. ASSUME o \in Found
      PROVE  /\ tx[o] # NoTx /\ tx'[o] # NoTx /\ tx'[o].state = "needs-recovery"
             /\ tx'[o].kind = tx[o].kind /\ tx'[o].a = tx[o].a /\ tx'[o].b = tx[o].b
             /\ tx'[o].n = tx[o].n /\ tx'[o].m = tx[o].m
             /\ tx'[o].a0 = tx[o].a0 /\ tx'[o].b0 = tx[o].b0
             /\ tx'[o] \in TxType
             /\ o \in isolated \/ (Busy(o) /\ op[o].kind \in Moves)
  <2>1. Unresolved(txSaved[o])
    BY <1>3 DEF Found
  <2>2. txSaved[o] # NoTx
    BY <2>1 DEF NoTx, Unresolved, Final
  <2>3. tx[o] # NoTx
    BY <1>1, <2>2 DEF TxOK
  <2>4. PICK s : s = txSaved[o]
    OBVIOUS
  <2>5. /\ s \in [state : TxStates, kind : Moves, a : Acct, b : Acct, n : Nat \ {0},
                  m : Nat \ {0}, a0 : Nat, b0 : Nat]
    BY <1>1, <2>2, <2>4 DEF TxType
  <2>6. tx'[o] = [s EXCEPT !.state = "needs-recovery"]
    BY <1>2, <1>3, <2>4
  <2>7. /\ tx'[o].state = "needs-recovery" /\ tx'[o].kind = s.kind /\ tx'[o].a = s.a
        /\ tx'[o].b = s.b /\ tx'[o].n = s.n /\ tx'[o].m = s.m /\ tx'[o].a0 = s.a0
        /\ tx'[o].b0 = s.b0
    BY <2>5, <2>6
  <2>8. tx'[o] \in TxType
    BY <2>5, <2>6, TxStatesAre DEF TxType
  <2>9. tx'[o] # NoTx
    BY <2>7 DEF NoTx
  <2>10. /\ tx[o].kind = s.kind /\ tx[o].a = s.a
         /\ tx[o].b = s.b /\ tx[o].n = s.n /\ tx[o].m = s.m /\ tx[o].a0 = s.a0
         /\ tx[o].b0 = s.b0
    <3>1. tx[o] = s \/ tx[o] = [s EXCEPT !.state = tx[o].state]
      BY <1>1, <2>2, <2>3, <2>4 DEF TxOK
    <3>. QED
      BY <2>5, <3>1
  <2>11. o \in isolated \/ (Busy(o) /\ op[o].kind \in Moves)
    <3>1. CASE ~Busy(o) /\ o \notin isolated
      BY <2>1, <3>1 DEF Crashing
    <3>2. CASE Busy(o) /\ op[o].kind \notin Moves
      BY <1>1, <2>3, <3>2 DEF PlainOK
    <3>. QED
      BY <3>1, <3>2
  <2>. QED
    BY <2>3, <2>7, <2>8, <2>9, <2>10, <2>11
<1>4. ASSUME o \notin Found
      PROVE  tx'[o] = txSaved[o] /\ tx'[o] \in {NoTx, tx[o]} /\ ~Unresolved(tx'[o])
  <2>1. ~Unresolved(txSaved[o])
    BY <1>4 DEF Found
  <2>2. tx'[o] = txSaved[o]
    BY <1>2, <1>4
  <2>3. txSaved[o] \in {NoTx, tx[o]}
    BY <1>1, <2>1 DEF TxOK
  <2>. QED
    BY <2>1, <2>2, <2>3
<1>. QED
  BY <1>1, <1>2, <1>3, <1>4

\* The types survive a crash.
LEMMA CrashTypes ==
  ASSUME Crashing
  PROVE  TypesInv'
<1>1. TypesInv
  BY Typed DEF Crashing
<1>2. DocumentsTyped'
  BY <1>1 DEF Crashing, TypesInv, DocumentsTyped
<1>3. BooksTyped'
  <2>1. \A i \in DOMAIN ledger' : ledger'[i].rev < i
    BY <1>1, CrashBooks DEF TypesInv, BooksTyped
  <2>2. ledger' = saved /\ saved' = saved /\ saved \in Seq(EntryType) /\ Len(saved) \in Nat
    BY <1>1, CrashBooks, LedgerDomain
  <2>. QED
    BY <2>1, <2>2 DEF BooksTyped
<1>4. StoresTyped'
  <2>1. \A o \in Op : tx'[o] \in TxType
    BY CrashTx
  <2>2. tx' \in [Op -> TxType]
    BY <2>1 DEF Crashing
  <2>3. resv' \in [Op -> ResvType] /\ resvSaved' \in [Op -> ResvType] /\ txSaved' = tx'
    BY <1>1 DEF Crashing, TypesInv, StoresTyped
  <2>. QED
    BY <2>2, <2>3 DEF StoresTyped
<1>5. OpsTyped'
  BY CrashOps DEF OpsTyped, Crashing, Found
<1>. QED
  BY <1>2, <1>3, <1>4, <1>5 DEF TypesInv

\* A crash takes both entries of a move or none.
LEMMA CrashMove ==
  ASSUME Crashing, NEW o \in Op,
         tx'[o].kind = tx[o].kind, tx'[o].a = tx[o].a, tx'[o].b = tx[o].b,
         tx'[o].n = tx[o].n, tx'[o].m = tx[o].m
  PROVE  /\ HasNone(o) => HasNone(o)'
         /\ HasBoth(o) => HasBoth(o)' \/ HasNone(o)'
         /\ HasBoth(o) /\ AllSaved(o) => HasBoth(o)'
         /\ HasBoth(o) => ~HasNone(o)
         /\ HasBoth(o)' => ~HasNone(o)'
         /\ AllSaved(o)'
         /\ ~Busy(o) => (HasNone(o)' <=> HasNone(o))
<1>1. /\ DOMAIN ledger' = {i \in DOMAIN ledger : ~Unsaved(i)}
      /\ \A i \in DOMAIN ledger' : ledger'[i] = ledger[i] /\ ~Unsaved(i)'
      /\ EntriesBy(o)' = {i \in EntriesBy(o) : ~Unsaved(i)}
      /\ saved' = saved /\ Len(saved) \in Nat
  <2>1. TypesInv
    BY Typed DEF Crashing
  <2>. QED
    BY <2>1, CrashBooks, LedgerDomain
<1>2. HasNone(o) => HasNone(o)'
  BY <1>1 DEF HasNone
<1>3. ASSUME HasBoth(o)
      PROVE  /\ HasBoth(o)' \/ HasNone(o)'
             /\ AllSaved(o) => HasBoth(o)'
  <2>1. PICK i \in DOMAIN ledger :
          /\ i + 1 \in DOMAIN ledger
          /\ ledger[i] = Entry(tx[o].a, -tx[o].n, DebitKind(tx[o].kind), o, 0, 0)
          /\ ledger[i + 1] = Entry(tx[o].b, tx[o].m, CreditKind(tx[o].kind), o, 0, 0)
          /\ EntriesBy(o) = {i, i + 1}
          /\ i # Len(saved)
    BY <1>3 DEF HasBoth
  <2>2. i \in Nat
    <3>1. TypesInv
      BY Typed DEF Crashing
    <3>2. DOMAIN ledger = 1 .. Len(ledger) /\ Len(ledger) \in Nat
      BY <3>1, LedgerDomain
    <3>. QED
      BY <3>2
  <2>3. Unsaved(i) <=> Unsaved(i + 1)
    BY <1>1, <2>1, <2>2 DEF Unsaved
  <2>4. ASSUME ~Unsaved(i) PROVE HasBoth(o)'
    <3>1. i \in DOMAIN ledger' /\ i + 1 \in DOMAIN ledger' /\ EntriesBy(o)' = {i, i + 1}
      BY <1>1, <2>1, <2>3, <2>4
    <3>2. ledger'[i] = ledger[i] /\ ledger'[i + 1] = ledger[i + 1]
      BY <1>1, <3>1
    <3>. QED
      BY <1>1, <2>1, <3>1, <3>2 DEF HasBoth, Entry, DebitKind, CreditKind
  <2>5. ASSUME Unsaved(i) PROVE HasNone(o)'
    BY <1>1, <2>1, <2>3, <2>5 DEF HasNone
  <2>6. AllSaved(o) => ~Unsaved(i)
    BY <2>1 DEF AllSaved
  <2>. QED
    BY <2>4, <2>5, <2>6
<1>4. (HasBoth(o) => ~HasNone(o)) /\ (HasBoth(o)' => ~HasNone(o)')
  BY DEF HasBoth, HasNone
<1>5. AllSaved(o)'
  BY <1>1 DEF AllSaved, EntriesBy
<1>6. ~Busy(o) => EntriesBy(o)' = EntriesBy(o)
  <2>1. \A i \in EntriesBy(o) : Unsaved(i) => Busy(o)
    BY DEF EntriesBy, Crashing
  <2>. QED
    BY <1>1, <2>1
<1>7. ~Busy(o) => (HasNone(o)' <=> HasNone(o))
  BY <1>6 DEF HasNone
<1>. QED
  BY <1>2, <1>3, <1>4, <1>5, <1>7

\* What a move that recovery finds had done, by its balances.
LEMMA CrashFound ==
  ASSUME Crashing, NEW o \in Op, o \in Found, NEW t, t = tx[o]
  PROVE  /\ t # NoTx /\ Native(t.a) /\ Native(t.b) /\ t.a # t.b
         /\ t.a \in Acct /\ t.b \in Acct /\ t.n \in Nat \ {0} /\ t.m \in Nat \ {0}
         /\ t.a0 \in Nat /\ t.b0 \in Nat
         /\ Bal(t.a) \in {t.a0, t.a0 - t.n} /\ Bal(t.b) \in {t.b0, t.b0 + t.m}
         /\ HasBoth(o) \/ HasNone(o)
         /\ HasBoth(o) => Debited(t) /\ Credited(t)
         /\ HeldBy(o) = {t.a[1], t.b[1]}
         /\ Busy(o) => op[o].kind \in Moves /\ op[o].a = t.a /\ op[o].b = t.b /\ o \notin isolated
         /\ ~Busy(o) => o \in isolated
<1>1. /\ t # NoTx /\ t \in TxType /\ (o \in isolated \/ (Busy(o) /\ op[o].kind \in Moves))
  BY CrashTx
<1>2. TxOK(o) /\ MoveOK(o) /\ IsolatedOK(o)
  BY Facts DEF Crashing
<1>3. /\ t.a \in Acct /\ t.b \in Acct /\ t.n \in Nat \ {0} /\ t.m \in Nat \ {0}
      /\ t.a0 \in Nat /\ t.b0 \in Nat
  BY <1>1 DEF TxType
<1>4. t.a # t.b /\ (HasBoth(o) \/ HasNone(o))
  BY <1>1, <1>2 DEF TxOK
<1>5. HasBoth(o) => ~HasNone(o)
  BY DEF HasBoth, HasNone
<1>6. CASE o \in isolated
  <2>1. HeldBy(o) = {t.a[1], t.b[1]}
    BY <1>6 DEF HeldBy, Domains
  <2>. QED
    BY <1>1, <1>2, <1>3, <1>4, <1>6, <2>1 DEF IsolatedOK
<1>7. CASE o \notin isolated
  <2>1. Busy(o) /\ op[o].kind \in Moves
    BY <1>1, <1>7
  <2>2. /\ Native(t.a) /\ Native(t.b) /\ op[o].a = t.a /\ op[o].b = t.b
    BY <1>2, <2>1 DEF MoveOK
  <2>3. HeldBy(o) = {t.a[1], t.b[1]}
    BY <1>7, <2>1, <2>2 DEF HeldBy, Domains
  <2>4. /\ Bal(t.a) \in {t.a0, t.a0 - t.n} /\ Bal(t.b) \in {t.b0, t.b0 + t.m}
    BY <1>2, <2>1 DEF MoveOK, MovePcs, Untouched, Debited, Credited
  <2>5. HasBoth(o) => Debited(t) /\ Credited(t)
    BY <1>1, <1>2, <1>5, <2>1 DEF MoveOK, MovePcs, TxOK
  <2>. QED
    BY <1>1, <1>3, <1>4, <1>7, <2>1, <2>2, <2>3, <2>4, <2>5
<1>. QED
  BY <1>6, <1>7

\* Every command and transaction is in order after a crash: moves are found
\* with their balances, and those that are not found were over.
LEMMA CrashOpOK ==
  ASSUME Crashing, NEW o \in Op
  PROVE  OpOK(o)'
<1>1. ~Busy(o)' /\ (op'[o].pc = "idle" <=> op[o].pc = "idle")
  BY CrashOps
<1>2. MoveOK(o)' /\ KeyedOK(o)' /\ PlainOK(o)'
  BY <1>1 DEF MoveOK, KeyedOK, PlainOK
<1>3. TxOK(o) /\ MoveOK(o) /\ IsolatedOK(o) /\ PlainOK(o)
  BY Facts DEF Crashing
<1>4. account' = account
  BY DEF Crashing
<1>5. CASE o \in Found
  <2>1. PICK t : t = tx[o]
    OBVIOUS
  <2>2. PICK u : u = tx'[o]
    OBVIOUS
  <2>3. /\ t # NoTx /\ u # NoTx /\ u.state = "needs-recovery" /\ txSaved'[o] = u
        /\ u.kind = t.kind /\ u.a = t.a /\ u.b = t.b /\ u.n = t.n /\ u.m = t.m
        /\ u.a0 = t.a0 /\ u.b0 = t.b0
    BY <1>5, <2>1, <2>2, CrashTx
  <2>4. /\ HasNone(o) => HasNone(o)'
        /\ HasBoth(o) => HasBoth(o)' \/ HasNone(o)'
        /\ HasBoth(o)' => ~HasNone(o)'
    <3>1. /\ tx'[o].kind = tx[o].kind /\ tx'[o].a = tx[o].a /\ tx'[o].b = tx[o].b
          /\ tx'[o].n = tx[o].n /\ tx'[o].m = tx[o].m
      BY <2>1, <2>2, <2>3
    <3>. QED
      BY <3>1, CrashMove
  <2>5. /\ Native(t.a) /\ Native(t.b) /\ t.a # t.b
        /\ Bal(t.a) \in {t.a0, t.a0 - t.n} /\ Bal(t.b) \in {t.b0, t.b0 + t.m}
        /\ HasBoth(o) \/ HasNone(o)
        /\ HasBoth(o) => Debited(t) /\ Credited(t)
    BY <1>5, <2>1, CrashFound
  <2>6. op'[o].pc # "idle"
    BY <1>1, <1>3, <2>1, <2>3 DEF TxOK
  <2>7. TxOK(o)'
    BY <2>2, <2>3, <2>4, <2>5, <2>6 DEF TxOK
  <2>8. HasBoth(o)' => Debited(t) /\ Credited(t)
    BY <2>4, <2>5
  <2>9. IsolatedOK(o)'
    BY <1>1, <1>4, <2>2, <2>3, <2>5, <2>8 DEF IsolatedOK, Native, Bal, Debited, Credited
  <2>. QED
    BY <1>2, <2>7, <2>9 DEF OpOK
<1>6. CASE o \notin Found
  <2>1. /\ tx'[o] = txSaved[o] /\ tx'[o] \in {NoTx, tx[o]} /\ ~Unresolved(tx'[o])
        /\ txSaved'[o] = tx'[o] /\ o \notin isolated'
    BY <1>6, CrashTx
  <2>2. IsolatedOK(o)'
    BY <2>1 DEF IsolatedOK
  <2>3. TxOK(o)'
    <3>1. CASE tx'[o] = NoTx
      BY <2>1, <3>1 DEF TxOK
    <3>2. CASE tx'[o] # NoTx
      <4>1. tx'[o] = tx[o] /\ tx[o] # NoTx /\ op'[o].pc # "idle"
        BY <1>1, <1>3, <2>1, <3>2 DEF TxOK
      <4>2. /\ HasNone(o) => HasNone(o)'
            /\ HasBoth(o) => HasBoth(o)' \/ HasNone(o)'
            /\ HasBoth(o) /\ AllSaved(o) => HasBoth(o)'
            /\ AllSaved(o)'
        BY <4>1, CrashMove
      <4>. QED
        BY <1>3, <2>1, <4>1, <4>2 DEF TxOK
    <3>. QED
      BY <3>1, <3>2
  <2>. QED
    BY <1>2, <2>2, <2>3 DEF OpOK
<1>. QED
  BY <1>5, <1>6

\* So are entries, receipts and locks: no confirmed key loses its entry.
LEMMA CrashRest ==
  ASSUME Crashing
  PROVE  /\ \A i \in DOMAIN ledger' : EntryOK(i)'
         /\ \A r \in Ref : ConfirmedOK(r)'
         /\ Exclusive' /\ AtRest'
<1>1. /\ DOMAIN ledger' = {i \in DOMAIN ledger : ~Unsaved(i)}
      /\ \A i \in DOMAIN ledger' : ledger'[i] = ledger[i] /\ ~Unsaved(i)'
      /\ ledger' = saved' /\ account' = account /\ receipt' = receipt
  BY CrashBooks DEF Crashing
<1>2. \A i \in DOMAIN ledger : EntryOK(i) /\ ledger[i].by \in Op
  <2>1. TypesInv
    BY Typed DEF Crashing
  <2>2. \A i \in DOMAIN ledger : ledger[i] \in EntryType
    BY <2>1, LedgerDomain
  <2>3. \A i \in DOMAIN ledger : ledger[i].by \in Op
    BY <2>2 DEF EntryType
  <2>. QED
    BY <2>3, Facts DEF Crashing
<1>3. \A o \in Op : ~Busy(o)' /\ (op'[o].pc = "idle" <=> op[o].pc = "idle")
  BY CrashOps
<1>4. ASSUME NEW i \in DOMAIN ledger' PROVE EntryOK(i)'
  <2>1. PICK e : e = ledger[i]
    OBVIOUS
  <2>2. i \in DOMAIN ledger /\ ledger'[i] = e /\ ~Unsaved(i)' /\ e.by \in Op
    BY <1>1, <1>2, <2>1
  <2>3. op'[e.by].pc # "idle"
    BY <1>2, <1>3, <2>1, <2>2 DEF EntryOK
  <2>4. e.ref # 0 => /\ e.ref \in Ref /\ e.acct = AcctOf(e.ref) /\ e.delta = DeltaOf(e.ref)
                     /\ receipt[e.ref] # "none"
                     /\ \A j \in DOMAIN ledger' : ledger'[j].ref = e.ref => j = i
    BY <1>1, <1>2, <2>1, <2>2 DEF EntryOK
  <2>. QED
    BY <1>1, <2>2, <2>3, <2>4 DEF EntryOK, AcctOf, DeltaOf
<1>5. ASSUME NEW r \in Ref PROVE ConfirmedOK(r)'
  <2>1. SUFFICES ASSUME receipt'[r] = "confirmed" PROVE Durable(r)'
    BY DEF ConfirmedOK
  <2>2. Durable(r)
    BY <1>1, <2>1 DEF Crashing, IInv, ConfirmedOK
  <2>3. PICK i \in DOMAIN ledger : ledger[i].ref = r /\ (~Unsaved(i) \/ ~Busy(ledger[i].by))
    BY <2>2 DEF Durable
  <2>4. ~Unsaved(i)
    BY <2>3 DEF Crashing
  <2>5. i \in DOMAIN ledger' /\ ledger'[i].ref = r /\ ~Unsaved(i)'
    BY <1>1, <2>3, <2>4
  <2>. QED
    BY <2>5 DEF Durable
<1>6. \A o \in Op : HeldBy(o)' = IF o \in Found THEN HeldBy(o) ELSE {}
  <2>1. TAKE o \in Op
  <2>2. CASE o \in Found
    <3>1. o \in isolated' /\ tx'[o].a = tx[o].a /\ tx'[o].b = tx[o].b
      BY <2>2, CrashTx
    <3>2. HeldBy(o) = {tx[o].a[1], tx[o].b[1]}
      BY <2>2, CrashFound
    <3>. QED
      BY <2>2, <3>1, <3>2 DEF HeldBy, Domains
  <2>3. CASE o \notin Found
    <3>1. o \notin isolated'
      BY <2>3, CrashTx
    <3>. QED
      BY <1>3, <2>3, <3>1 DEF HeldBy
  <2>. QED
    BY <2>2, <2>3
<1>7. Exclusive'
  <2>1. \A o, p \in Op : o # p => HeldBy(o) \cap HeldBy(p) = {}
    BY Facts DEF Crashing, Exclusive
  <2>2. \A o, p \in Op : o # p => HeldBy(o)' \cap HeldBy(p)' = {}
    BY <1>6, <2>1
  <2>. QED
    BY <1>3, <2>2 DEF Exclusive
<1>8. AtRest'
  <2>1. AtRest
    BY Facts DEF Crashing
  <2>. QED
    BY <1>1, <1>3, <2>1 DEF AtRest, Native, Bal
<1>. QED
  BY <1>4, <1>5, <1>7, <1>8

\* Nothing is pending at a crash for a command that does not hold the account,
\* but what was.
LEMMA CrashPendingIdle ==
  ASSUME Crashing, NEW o \in Op, NEW a, Busy(o) => a \notin {op[o].a, op[o].b}
  PROVE  Pending(o, a)' = Pending(o, a)
<1>1. TxOK(o) /\ MoveOK(o) /\ IsolatedOK(o) /\ PlainOK(o)
  BY Facts DEF Crashing
<1>2. account' = account /\ op'[o].pc \in {"idle", "done"}
  BY CrashOps DEF Crashing
<1>3. CASE o \in Found /\ Busy(o)
  <2>1. PICK t : t = tx[o]
    OBVIOUS
  <2>2. /\ op[o].a = t.a /\ op[o].b = t.b /\ o \notin isolated
    BY <1>3, <2>1, CrashFound
  <2>3. tx'[o].a = t.a /\ tx'[o].b = t.b
    BY <1>3, <2>1, CrashTx
  <2>4. a # t.a /\ a # t.b
    BY <1>3, <2>2
  <2>5. Pending(o, a) = 0
    BY <2>1, <2>4 DEF Pending, Side
  <2>6. Pending(o, a)' = 0
    BY <2>3, <2>4 DEF Pending, Side
  <2>. QED
    BY <2>5, <2>6
<1>4. CASE o \in Found /\ ~Busy(o)
  <2>1. PICK t : t = tx[o]
    OBVIOUS
  <2>2. PICK u : u = tx'[o]
    OBVIOUS
  <2>3. /\ t # NoTx /\ u.state = "needs-recovery" /\ o \in isolated'
        /\ u.kind = t.kind /\ u.a = t.a /\ u.b = t.b /\ u.n = t.n /\ u.m = t.m
        /\ u.a0 = t.a0 /\ u.b0 = t.b0
    BY <1>4, <2>1, <2>2, CrashTx
  <2>4. o \in isolated /\ t.a0 \in Nat /\ t.b0 \in Nat
    BY <1>4, <2>1, CrashFound
  <2>5. HasNone(o)' <=> HasNone(o)
    <3>1. /\ tx'[o].kind = tx[o].kind /\ tx'[o].a = tx[o].a /\ tx'[o].b = tx[o].b
          /\ tx'[o].n = tx[o].n /\ tx'[o].m = tx[o].m
      BY <2>1, <2>2, <2>3
    <3>. QED
      BY <1>4, <3>1, CrashMove
  <2>6. Unresolved(u)
    BY <2>3 DEF Unresolved, Final
  <2>7. Pending(o, a)' = IF HasNone(o) THEN Side(t, a, Bal(t.a) - t.a0, Bal(t.b) - t.b0) ELSE 0
    <3>1. account'[u.a].bal = account[t.a].bal /\ account'[u.b].bal = account[t.b].bal
      BY <1>2, <2>3
    <3>2. /\ a = u.a => account'[a].bal - u.a0 = account[t.a].bal - t.a0
          /\ a = u.b => account'[a].bal - u.b0 = account[t.b].bal - t.b0
      BY <2>3, <3>1
    <3>. QED
      BY <2>2, <2>3, <2>5, <2>6, <3>2 DEF Pending, Side, Bal
  <2>8. CASE Unresolved(t)
    <3>1. Pending(o, a) = IF HasNone(o) THEN Side(t, a, Bal(t.a) - t.a0, Bal(t.b) - t.b0) ELSE 0
      BY <2>1, <2>4, <2>8 DEF Pending, Side
    <3>. QED
      BY <2>7, <3>1
  <2>9. CASE ~Unresolved(t)
    <3>1. t.state = "compensated"
      BY <1>1, <2>1, <2>4, <2>9 DEF IsolatedOK, Unresolved, Final
    <3>2. Bal(t.a) = t.a0 /\ Bal(t.b) = t.b0
      BY <1>1, <2>1, <2>4, <3>1 DEF IsolatedOK, Untouched
    <3>3. Bal(t.a) - t.a0 = 0 /\ Bal(t.b) - t.b0 = 0
      BY <2>4, <3>2
    <3>4. Pending(o, a)' = 0
      BY <2>7, <3>3 DEF Side
    <3>5. Pending(o, a) = 0
      BY <2>1, <2>4, <2>9 DEF Pending
    <3>. QED
      BY <3>4, <3>5
  <2>. QED
    BY <2>8, <2>9
<1>5. CASE o \notin Found
  <2>1. /\ tx'[o] = txSaved[o] /\ tx'[o] \in {NoTx, tx[o]} /\ ~Unresolved(tx'[o])
        /\ o \notin isolated'
    BY <1>5, CrashTx
  <2>2. tx'[o].state # "needs-recovery"
    BY <2>1 DEF Unresolved, Final
  <2>3. Pending(o, a)' = 0
    BY <1>2, <2>1, <2>2 DEF Pending
  <2>4. CASE Busy(o)
    <3>1. op[o].kind \in Moves => op[o].a = tx[o].a /\ op[o].b = tx[o].b
      BY <1>1, <2>4 DEF MoveOK
    <3>2. op[o].kind \notin Moves => tx[o] = NoTx /\ op[o].pc \notin {"credit", "rollback"}
      BY <1>1, <2>4 DEF PlainOK, PlainPcs
    <3>3. o \notin isolated
      BY <1>1, <2>4 DEF IsolatedOK
    <3>4. CASE op[o].kind \in Moves
      BY <2>3, <2>4, <3>1, <3>3, <3>4 DEF Pending, Side
    <3>5. CASE op[o].kind \notin Moves
      BY <2>3, <3>2, <3>3, <3>5 DEF Pending, NoTx
    <3>. QED
      BY <3>4, <3>5
  <2>5. CASE ~Busy(o) /\ o \notin isolated
    <3>1. tx'[o] = tx[o] /\ op[o].pc \in {"idle", "done"}
      BY <2>1, <2>5 DEF Crashing, Busy
    <3>. QED
      BY <2>2, <2>3, <2>5, <3>1 DEF Pending
  <2>6. CASE o \in isolated
    <3>1. tx[o] # NoTx /\ txSaved[o] # NoTx
      BY <1>1, <2>6 DEF IsolatedOK
    <3>2. ~Unresolved(tx[o])
      BY <2>1, <3>1
    <3>. QED
      BY <2>3, <2>6, <3>2 DEF Pending
  <2>. QED
    BY <2>4, <2>5, <2>6
<1>. QED
  BY <1>3, <1>4, <1>5

\* No entry of the account is lost.
LEMMA CrashSumSame ==
  ASSUME Crashing, NEW a, \A i \in DOMAIN ledger : Unsaved(i) => ledger[i].acct # a
  PROVE  Sum(a)' = Sum(a) /\ Orphaned(a)' = Orphaned(a)
<1>1. /\ DOMAIN saved = {i \in DOMAIN ledger : ~Unsaved(i)} /\ ledger' = saved
      /\ \A i \in DOMAIN saved : ledger'[i] = ledger[i]
      /\ \A r : RefEntries(r)' = {i \in RefEntries(r) : ~Unsaved(i)}
  BY CrashBooks
<1>2. Sum(a)' = Sum(a)
  <2>1. At(saved, a) = At(ledger, a)
    BY <1>1 DEF At
  <2>2. \A i \in At(saved, a) : saved[i] = ledger[i]
    BY <1>1 DEF At
  <2>3. [i \in At(saved, a) |-> saved[i].delta] = [i \in At(ledger, a) |-> ledger[i].delta]
    BY <2>1, <2>2
  <2>4. SumOf(saved, a) = SumOf(ledger, a)
    BY <2>3 DEF SumOf
  <2>. QED
    BY <1>1, <2>4, SumIsSumOf
<1>3. ASSUME NEW r \in Ref, AcctOf(r) = a PROVE Orphan(r)' <=> Orphan(r)
  <2>1. \A i \in RefEntries(r) : ledger[i].acct = a
    BY <1>3, Facts DEF Crashing, RefEntries, EntryOK
  <2>2. RefEntries(r)' = RefEntries(r)
    BY <1>1, <2>1 DEF RefEntries
  <2>. QED
    BY <2>2 DEF Orphan, Crashing
<1>. QED
  BY <1>2, <1>3, OrphansSame

\* One entry of the account is lost.
LEMMA CrashSumOne ==
  ASSUME Crashing, NEW a, NEW i \in DOMAIN ledger, Unsaved(i), ledger[i].acct = a,
         \A j \in DOMAIN ledger : Unsaved(j) /\ ledger[j].acct = a => j = i
  PROVE  Sum(a) = Sum(a)' + ledger[i].delta /\ ledger[i].delta \in Int
<1>1. /\ DOMAIN saved = {j \in DOMAIN ledger : ~Unsaved(j)} /\ ledger' = saved
      /\ \A j \in DOMAIN saved : ledger'[j] = ledger[j]
      /\ ledger \in Seq(EntryType)
  BY CrashBooks
<1>2. PICK S : S = At(ledger, a)
  OBVIOUS
<1>3. PICK f : f = [j \in S |-> ledger[j].delta]
  OBVIOUS
<1>4. f \in [S -> Int] /\ IsFiniteSet(S) /\ SumOf(ledger, a) = SumFunction(f)
  BY <1>1, <1>2, <1>3, SumOfType DEF SumOf
<1>5. i \in S /\ f[i] = ledger[i].delta
  BY <1>2, <1>3 DEF At
<1>6. At(saved, a) = S \ {i}
  BY <1>1, <1>2 DEF At
<1>7. [j \in At(saved, a) |-> saved[j].delta] = [j \in S \ {i} |-> f[j]]
  <2>1. \A j \in S \ {i} : saved[j] = ledger[j] /\ f[j] = ledger[j].delta
    BY <1>1, <1>3, <1>6 DEF At
  <2>. QED
    BY <1>6, <2>1
<1>8. SumFunction(f) = f[i] + SumFunction([j \in S \ {i} |-> f[j]])
  <2>1. f \in [S -> Int] /\ IsFiniteSet(S) /\ i \in S
    BY <1>4, <1>5
  <2>. QED
    BY <2>1, SumRemoved
<1>9. SumOf(saved, a) = SumFunction([j \in S \ {i} |-> f[j]])
  BY <1>7 DEF SumOf
<1>10. SumOf(saved, a) \in Int
  BY CrashBooks, SumOfType
<1>11. f[i] \in Int
  BY <1>4, <1>5
<1>. QED
  BY <1>1, <1>4, <1>5, <1>8, <1>9, <1>10, <1>11, SumIsSumOf

\* The lost entry of a keyed adjustment leaves an orphan.
LEMMA CrashOrphan ==
  ASSUME Crashing, NEW a, NEW i \in DOMAIN ledger, Unsaved(i), ledger[i].acct = a,
         \A j \in DOMAIN ledger : Unsaved(j) /\ ledger[j].acct = a => j = i,
         ledger[i].ref # 0
  PROVE  Orphaned(a)' = Orphaned(a) + ledger[i].delta
<1>1. PICK r : r = ledger[i].ref
  OBVIOUS
<1>2. EntryOK(i)
  BY Facts DEF Crashing
<1>3. /\ r \in Ref /\ AcctOf(r) = a /\ ledger[i].delta = DeltaOf(r) /\ receipt[r] # "none"
      /\ \A j \in DOMAIN ledger : ledger[j].ref = r => j = i
  BY <1>1, <1>2 DEF EntryOK
<1>4. /\ \A s : RefEntries(s)' = {j \in RefEntries(s) : ~Unsaved(j)}
      /\ receipt' = receipt
  BY CrashBooks DEF Crashing
<1>5. RefEntries(r) = {i} /\ RefEntries(r)' = {}
  BY <1>1, <1>3, <1>4 DEF RefEntries
<1>6. ~Orphan(r) /\ Orphan(r)'
  BY <1>3, <1>4, <1>5 DEF Orphan
<1>7. ASSUME NEW s \in Ref \ {r} PROVE OrphanAt(s, a)' = OrphanAt(s, a)
  <2>1. CASE AcctOf(s) # a
    BY <2>1 DEF OrphanAt
  <2>2. CASE AcctOf(s) = a
    <3>1. \A j \in RefEntries(s) : ledger[j].acct = a /\ ledger[j].ref = s
      BY <2>2, Facts DEF Crashing, RefEntries, EntryOK
    <3>2. RefEntries(s)' = RefEntries(s)
      BY <1>1, <1>4, <3>1 DEF RefEntries
    <3>. QED
      BY <1>4, <3>2 DEF OrphanAt, Orphan
  <2>. QED
    BY <2>1, <2>2
<1>8. OrphanAt(r, a) = 0 /\ OrphanAt(r, a)' = DeltaOf(r)
  BY <1>3, <1>6 DEF OrphanAt
<1>9. PICK f : f = [s \in Ref |-> OrphanAt(s, a)]
  OBVIOUS
<1>10. PICK g : g = [s \in Ref |-> OrphanAt(s, a)']
  OBVIOUS
<1>11. f \in [Ref -> Int] /\ Orphaned(a) = SumFunction(f)
  BY <1>9, OrphansType DEF Orphaned
<1>12. Orphaned(a)' = SumFunction(g)
  BY <1>10 DEF Orphaned
<1>13. DeltaOf(r) \in Int
  BY <1>3, RefAccounts
<1>14. g[r] = DeltaOf(r) /\ f[r] = 0 /\ \A s \in Ref \ {r} : g[s] = f[s]
  BY <1>3, <1>7, <1>8, <1>9, <1>10
<1>15. g \in [Ref -> Int]
  <2>1. \A s \in Ref : g[s] \in Int
    BY <1>11, <1>13, <1>14
  <2>. QED
    BY <1>10, <2>1
<1>16. SumFunction(g) = SumFunction(f) + g[r] - f[r]
  BY <1>3, <1>11, <1>14, <1>15, OpFinite, SumChanged
<1>17. SumFunction(f) \in Int
  BY <1>11, OpFinite, SumIs
<1>. QED
  BY <1>3, <1>11, <1>12, <1>13, <1>14, <1>16, <1>17

\* The command that holds an account is alone in losing entries of it.
LEMMA CrashHolder ==
  ASSUME Crashing, NEW h \in Op, Busy(h), NEW a, a \in {op[h].a, op[h].b}
  PROVE  /\ a \in Acct /\ h \notin isolated
         /\ \A i \in DOMAIN ledger : Unsaved(i) /\ ledger[i].acct = a => i \in EntriesBy(h)
         /\ \A p \in Op \ {h} : Busy(p) => a \notin {op[p].a, op[p].b}
<1>1. Exclusive /\ \A o \in Op : IsolatedOK(o)
  BY Facts DEF Crashing
<1>2. \A o \in Op : Busy(o) => o \notin isolated
  BY <1>1 DEF IsolatedOK
<1>3. \A o \in Op : Busy(o) => HeldBy(o) = {op[o].a[1], op[o].b[1]}
  BY <1>2 DEF HeldBy, Domains
<1>4. a[1] \in HeldBy(h)
  BY <1>3
<1>5. \A p \in Op \ {h} : Busy(p) => a \notin {op[p].a, op[p].b}
  <2>1. \A p \in Op \ {h} : a[1] \notin HeldBy(p)
    BY <1>1, <1>4 DEF Exclusive
  <2>. QED
    BY <1>3, <2>1
<1>6. ASSUME NEW i \in DOMAIN ledger, Unsaved(i), ledger[i].acct = a
      PROVE  i \in EntriesBy(h)
  <2>1. PICK p : p = ledger[i].by
    OBVIOUS
  <2>2. TypesInv
    BY Typed DEF Crashing
  <2>3. ledger[i] \in EntryType
    BY <2>2, LedgerDomain
  <2>4. p \in Op
    BY <2>1, <2>3 DEF EntryType
  <2>5. Busy(p)
    BY <1>6, <2>1 DEF Crashing
  <2>6. a \in {op[p].a, op[p].b}
    BY <1>6, <2>1, <2>5, Facts DEF Crashing, EntryOK
  <2>7. p = h
    BY <1>5, <2>4, <2>5, <2>6
  <2>. QED
    BY <2>1, <2>7 DEF EntriesBy
<1>. QED
  BY <1>1, <1>2, <1>5, <1>6 DEF Exclusive

\* The entries of moves have no key: losing them leaves no orphan.
LEMMA CrashNoRef ==
  ASSUME Crashing, NEW a,
         \A i \in DOMAIN ledger : Unsaved(i) /\ ledger[i].acct = a => ledger[i].ref = 0
  PROVE  Orphaned(a)' = Orphaned(a)
<1>1. /\ \A r : RefEntries(r)' = {i \in RefEntries(r) : ~Unsaved(i)}
      /\ receipt' = receipt
  BY CrashBooks DEF Crashing
<1>2. ASSUME NEW r \in Ref, AcctOf(r) = a PROVE Orphan(r)' <=> Orphan(r)
  <2>1. \A i \in RefEntries(r) : ledger[i].acct = a /\ ledger[i].ref # 0
    BY <1>2, Facts DEF Crashing, RefEntries, EntryOK
  <2>2. RefEntries(r)' = RefEntries(r)
    BY <1>1, <2>1 DEF RefEntries
  <2>. QED
    BY <1>1, <2>2 DEF Orphan
<1>. QED
  BY <1>2, OrphansSame

\* What a move had written and loses the entry of is pending.
LEMMA CrashOfMove ==
  ASSUME Crashing, NEW h \in Op, Busy(h), op[h].kind \in Moves, NEW a, a \in {op[h].a, op[h].b}
  PROVE  /\ Orphaned(a)' = Orphaned(a)
         /\ Pending(h, a)' - Pending(h, a) = Sum(a) - Sum(a)'
<1>1. PICK t : t = tx[h]
  OBVIOUS
<1>2. TxOK(h) /\ MoveOK(h) /\ h \notin isolated
  BY CrashHolder, Facts DEF Crashing
<1>3. /\ t # NoTx /\ t.kind = op[h].kind /\ t.a = op[h].a /\ t.b = op[h].b /\ t.a # t.b
      /\ t.a \in Acct /\ t.b \in Acct /\ t.n \in Nat \ {0} /\ t.m \in Nat \ {0}
      /\ t.a0 \in Nat /\ t.b0 \in Nat
  <2>1. t # NoTx /\ t.kind = op[h].kind /\ t.a = op[h].a /\ t.b = op[h].b
    BY <1>1, <1>2 DEF MoveOK
  <2>2. t.a # t.b
    BY <1>1, <1>2, <2>1 DEF TxOK
  <2>3. t \in TxType
    BY <1>1, CrashTx
  <2>. QED
    BY <2>1, <2>2, <2>3 DEF TxType
<1>4. \A i \in DOMAIN ledger : Unsaved(i) /\ ledger[i].acct = a => i \in EntriesBy(h)
  BY CrashHolder
<1>5. /\ account' = account /\ op'[h].pc \in {"idle", "done"}
      /\ \A x \in Acct : account[x].bal \in Nat
  BY CrashOps, Facts DEF Crashing
<1>6. Sum(a) \in Int /\ Sum(a)' \in Int
  <2>1. SumOf(saved, a) \in Int /\ SumOf(ledger, a) \in Int
    BY CrashBooks, SumOfType
  <2>. QED
    BY <2>1, CrashBooks, SumIsSumOf
\* The transaction is found, unless it is closed or was never saved.
<1>7. /\ h \in Found => t.state \in {"committing", "needs-recovery", "committed", "failed"}
      /\ h \notin Found /\ op[h].pc # "journal" => t.state \in {"committed", "failed"}
  <2>1. t.state \in {"committing", "needs-recovery", "committed", "failed"}
    BY <1>1, <1>2 DEF MoveOK, MovePcs
  <2>2. ASSUME h \notin Found, op[h].pc # "journal" PROVE ~Unresolved(t)
    <3>1. txSaved[h] # NoTx
      BY <1>2, <2>2 DEF MoveOK
    <3>. QED
      BY <1>1, <2>2, <3>1, CrashTx
  <2>3. ASSUME h \notin Found, op[h].pc # "journal" PROVE t.state \in {"committed", "failed"}
    BY <2>1, <2>2, <2>3 DEF Unresolved, Final
  <2>. QED
    BY <2>1, <2>3
\* What is pending before and after.
<1>8. Pending(h, a) = IF op[h].pc \in {"credit", "rollback"} \/ t.state = "needs-recovery"
                      THEN Side(t, a, -t.n, 0) ELSE 0
  BY <1>1, <1>2 DEF Pending
<1>9. h \notin Found => Pending(h, a)' = 0
  <2>1. ASSUME h \notin Found PROVE h \notin isolated' /\ tx'[h].state # "needs-recovery"
    BY <2>1, CrashTx DEF Unresolved, Final
  <2>. QED
    BY <1>5, <2>1 DEF Pending
<1>10. h \in Found => Pending(h, a)' = IF HasNone(h)'
                                       THEN Side(t, a, Bal(t.a) - t.a0, Bal(t.b) - t.b0) ELSE 0
  <2>1. ASSUME h \in Found
        PROVE  /\ h \in isolated' /\ Unresolved(tx'[h]) /\ tx'[h].a = t.a /\ tx'[h].b = t.b
               /\ tx'[h].a0 = t.a0 /\ tx'[h].b0 = t.b0
    BY <1>1, <2>1, CrashTx DEF Unresolved, Final
  <2>. QED
    BY <1>5, <2>1 DEF Pending, Side, Bal
<1>11. CASE HasNone(h)
  <2>1. Sum(a)' = Sum(a) /\ Orphaned(a)' = Orphaned(a)
    <3>1. \A i \in DOMAIN ledger : Unsaved(i) => ledger[i].acct # a
      BY <1>4, <1>11 DEF HasNone
    <3>. QED
      BY <3>1, CrashSumSame
  <2>2. h \in Found => HasNone(h)'
    <3>1. ASSUME h \in Found
          PROVE  /\ tx'[h].kind = tx[h].kind /\ tx'[h].a = tx[h].a /\ tx'[h].b = tx[h].b
                 /\ tx'[h].n = tx[h].n /\ tx'[h].m = tx[h].m
      BY <3>1, CrashTx
    <3>. QED
      BY <1>11, <3>1, CrashMove
  <2>3. ~HasBoth(h)
    BY <1>11 DEF HasBoth, HasNone
  <2>4. Pending(h, a)' = Pending(h, a) /\ Pending(h, a) \in Int
    <3>1. CASE op[h].pc \in {"journal", "debit", "exchange"}
      <4>1. Bal(t.a) - t.a0 = 0 /\ Bal(t.b) - t.b0 = 0 /\ t.state = "committing"
        <5>1. t.state = "committing" /\ Untouched(t)
          BY <1>1, <1>2, <3>1 DEF MoveOK
        <5>2. Bal(t.a) \in Int /\ Bal(t.b) \in Int
          BY <1>3, <1>5 DEF Bal
        <5>. QED
          BY <1>3, <5>1, <5>2 DEF Untouched
      <4>2. Pending(h, a) = 0
        BY <1>8, <3>1, <4>1
      <4>3. Pending(h, a)' = 0
        BY <1>9, <1>10, <4>1 DEF Side
      <4>. QED
        BY <4>2, <4>3
    <3>2. CASE op[h].pc \in {"credit", "rollback"}
      <4>1. Bal(t.a) - t.a0 = -t.n /\ Bal(t.b) - t.b0 = 0 /\ t.state = "committing"
        <5>1. t.state = "committing" /\ Debited(t) /\ Bal(t.b) = t.b0
          BY <1>1, <1>2, <3>2 DEF MoveOK
        <5>2. Bal(t.a) \in Int /\ Bal(t.b) \in Int
          BY <1>3, <1>5 DEF Bal
        <5>. QED
          BY <1>3, <5>1, <5>2 DEF Debited
      <4>2. h \in Found
        BY <1>7, <3>2, <4>1
      <4>3. Pending(h, a) = Side(t, a, -t.n, 0) /\ Pending(h, a)' = Side(t, a, -t.n, 0)
        BY <1>8, <1>10, <2>2, <3>2, <4>1, <4>2
      <4>. QED
        BY <1>3, <4>3 DEF Side
    <3>3. CASE op[h].pc = "close tx" /\ t.state = "failed"
      <4>1. Bal(t.a) - t.a0 = 0 /\ Bal(t.b) - t.b0 = 0
        <5>1. Untouched(t)
          BY <1>1, <1>2, <3>3 DEF MoveOK
        <5>2. Bal(t.a) \in Int /\ Bal(t.b) \in Int
          BY <1>3, <1>5 DEF Bal
        <5>. QED
          BY <1>3, <5>1, <5>2 DEF Untouched
      <4>2. Pending(h, a) = 0
        BY <1>8, <3>3
      <4>3. Pending(h, a)' = 0
        BY <1>9, <1>10, <4>1 DEF Side
      <4>. QED
        BY <4>2, <4>3
    <3>4. CASE op[h].pc = "close tx" /\ t.state = "needs-recovery"
      <4>1. Bal(t.a) - t.a0 = -t.n /\ Bal(t.b) - t.b0 = 0
        <5>1. Debited(t) /\ Bal(t.b) = t.b0
          BY <1>1, <1>2, <3>4 DEF MoveOK
        <5>2. Bal(t.a) \in Int /\ Bal(t.b) \in Int
          BY <1>3, <1>5 DEF Bal
        <5>. QED
          BY <1>3, <5>1, <5>2 DEF Debited
      <4>2. h \in Found
        BY <1>7, <3>4
      <4>3. Pending(h, a) = Side(t, a, -t.n, 0) /\ Pending(h, a)' = Side(t, a, -t.n, 0)
        BY <1>8, <1>10, <2>2, <3>4, <4>1, <4>2
      <4>. QED
        BY <1>3, <4>3 DEF Side
    <3>5. \/ op[h].pc \in {"journal", "debit", "exchange"} \/ op[h].pc \in {"credit", "rollback"}
          \/ op[h].pc = "close tx" /\ t.state = "failed"
          \/ op[h].pc = "close tx" /\ t.state = "needs-recovery"
      <4>1. op[h].pc # "book"
        BY <1>1, <1>2, <2>3 DEF MoveOK
      <4>2. t.state # "committed"
        BY <1>1, <1>2, <1>3, <2>3 DEF TxOK
      <4>3. op[h].pc = "close tx" => t.state \in {"failed", "needs-recovery"}
        BY <1>1, <1>2, <4>2 DEF MoveOK
      <4>4. op[h].pc \in MovePcs
        BY <1>2 DEF MoveOK
      <4>. QED
        BY <4>1, <4>3, <4>4 DEF MovePcs
    <3>. QED
      BY <3>1, <3>2, <3>3, <3>4, <3>5
  <2>. QED
    BY <1>6, <2>1, <2>4
<1>12. CASE HasBoth(h)
  <2>1. ~HasNone(h)
    BY <1>12 DEF HasBoth, HasNone
  <2>2. PICK i \in DOMAIN ledger :
          /\ i + 1 \in DOMAIN ledger
          /\ ledger[i] = Entry(t.a, -t.n, DebitKind(t.kind), h, 0, 0)
          /\ ledger[i + 1] = Entry(t.b, t.m, CreditKind(t.kind), h, 0, 0)
          /\ EntriesBy(h) = {i, i + 1}
          /\ i # Len(saved)
    BY <1>1, <1>12 DEF HasBoth
  <2>3. PICK j \in DOMAIN ledger : j = i + 1
    BY <2>2
  <2>4. /\ ledger[i].acct = t.a /\ ledger[i].delta = -t.n /\ ledger[i].ref = 0
        /\ ledger[j].acct = t.b /\ ledger[j].delta = t.m /\ ledger[j].ref = 0
        /\ EntriesBy(h) = {i, j}
    BY <2>2, <2>3 DEF Entry
  <2>5. Unsaved(i) <=> Unsaved(j)
    <3>1. TypesInv
      BY Typed DEF Crashing
    <3>2. i \in Nat /\ Len(saved) \in Nat
      BY <3>1, LedgerDomain
    <3>. QED
      BY <2>2, <2>3, <3>2 DEF Unsaved
  <2>6. /\ Debited(t) /\ Credited(t)
        /\ \/ op[h].pc = "book" /\ t.state = "committing"
           \/ op[h].pc = "close tx" /\ t.state = "committed" /\ AllSaved(h)
    <3>1. op[h].pc = "close tx" => t.state = "committed" /\ Debited(t) /\ Credited(t)
      BY <1>1, <1>2, <1>3, <2>1 DEF MoveOK, TxOK
    <3>2. op[h].pc \in {"book", "close tx"}
      BY <1>2, <2>1 DEF MoveOK, MovePcs
    <3>3. op[h].pc = "book" => t.state = "committing" /\ Debited(t) /\ Credited(t)
      BY <1>1, <1>2 DEF MoveOK
    <3>4. t.state = "committed" => AllSaved(h)
      BY <1>1, <1>2, <1>3 DEF TxOK
    <3>. QED
      BY <3>1, <3>2, <3>3, <3>4
  <2>7. Pending(h, a) = 0
    BY <1>8, <2>6
  <2>10. \A k \in DOMAIN ledger : Unsaved(k) /\ ledger[k].acct = a => ledger[k].ref = 0
    BY <1>4, <2>4
  <2>8. CASE Unsaved(i)
    <3>1. op[h].pc = "book" /\ h \in Found
      <4>1. ~AllSaved(h)
        BY <2>4, <2>8 DEF AllSaved
      <4>. QED
        BY <1>7, <2>6, <4>1
    <3>2. HasNone(h)'
      <4>1. EntriesBy(h)' = {k \in EntriesBy(h) : ~Unsaved(k)}
        BY CrashBooks
      <4>. QED
        BY <2>4, <2>5, <2>8, <4>1 DEF HasNone
    <3>3. Bal(t.a) - t.a0 = -t.n /\ Bal(t.b) - t.b0 = t.m
      <4>1. Bal(t.a) = t.a0 - t.n /\ Bal(t.b) = t.b0 + t.m
        BY <2>6 DEF Debited, Credited
      <4>. QED
        BY <1>3, <4>1
    <3>4. Pending(h, a)' = Side(t, a, -t.n, t.m)
      BY <1>10, <3>1, <3>2, <3>3
    <3>5. CASE a = t.a
      <4>1. \A k \in DOMAIN ledger : Unsaved(k) /\ ledger[k].acct = a => k = i
        BY <1>3, <1>4, <2>4, <3>5
      <4>2. Sum(a) = Sum(a)' + (-t.n)
        BY <2>4, <2>8, <3>5, <4>1, CrashSumOne
      <4>3. Orphaned(a)' = Orphaned(a)
        BY <2>10, CrashNoRef
      <4>4. Pending(h, a)' = -t.n
        BY <3>4, <3>5 DEF Side
      <4>. QED
        BY <1>3, <1>6, <2>7, <4>2, <4>3, <4>4
    <3>6. CASE a = t.b
      <4>1. \A k \in DOMAIN ledger : Unsaved(k) /\ ledger[k].acct = a => k = j
        BY <1>3, <1>4, <2>4, <3>6
      <4>2. Sum(a) = Sum(a)' + t.m
        BY <2>4, <2>5, <2>8, <3>6, <4>1, CrashSumOne
      <4>3. Orphaned(a)' = Orphaned(a)
        BY <2>10, CrashNoRef
      <4>4. Pending(h, a)' = t.m
        BY <1>3, <3>4, <3>6 DEF Side
      <4>. QED
        BY <1>3, <1>6, <2>7, <4>2, <4>3, <4>4
    <3>. QED
      BY <1>3, <3>5, <3>6
  <2>9. CASE ~Unsaved(i)
    <3>1. \A k \in DOMAIN ledger : Unsaved(k) => ledger[k].acct # a
      BY <1>4, <2>4, <2>5, <2>9
    <3>2. Sum(a)' = Sum(a) /\ Orphaned(a)' = Orphaned(a)
      BY <3>1, CrashSumSame
    <3>3. ~HasNone(h)'
      <4>1. EntriesBy(h)' = {k \in EntriesBy(h) : ~Unsaved(k)}
        BY CrashBooks
      <4>. QED
        BY <2>4, <2>9, <4>1 DEF HasNone
    <3>4. Pending(h, a)' = 0
      BY <1>9, <1>10, <3>3
    <3>. QED
      BY <1>6, <2>7, <3>2, <3>4
  <2>. QED
    BY <2>8, <2>9
<1>13. HasNone(h) \/ HasBoth(h)
  BY <1>1, <1>2, <1>3 DEF TxOK
<1>. QED
  BY <1>11, <1>12, <1>13

\* The entry that a keyed adjustment loses is an orphan.
LEMMA CrashOfKeyed ==
  ASSUME Crashing, NEW h \in Op, Busy(h), op[h].kind \notin Moves, NEW a, a \in {op[h].a, op[h].b}
  PROVE  /\ Sum(a)' + Orphaned(a)' = Sum(a) + Orphaned(a)
         /\ Pending(h, a)' = 0 /\ Pending(h, a) = 0
<1>1. KeyedOK(h) /\ PlainOK(h) /\ h \notin isolated
  BY CrashHolder, Facts DEF Crashing
<1>2. op[h].kind = "keyed"
  BY DEF Crashing
<1>3. tx[h] = NoTx /\ op[h].pc \notin {"credit", "rollback"}
  BY <1>1 DEF PlainOK, PlainPcs
<1>4. Pending(h, a) = 0
  BY <1>1, <1>3 DEF Pending, NoTx
<1>5. Pending(h, a)' = 0
  <2>1. h \notin isolated' /\ tx'[h] = NoTx
    BY <1>3, CrashTx
  <2>2. op'[h].pc \in {"idle", "done"}
    BY CrashOps
  <2>. QED
    BY <2>1, <2>2 DEF Pending, NoTx
<1>6. /\ \A i, j \in EntriesBy(h) : i = j
      /\ \A i \in EntriesBy(h) : ledger[i].ref # 0
  BY <1>1, <1>2 DEF KeyedOK, KeyedKinds
<1>7. \A i \in DOMAIN ledger : Unsaved(i) /\ ledger[i].acct = a => i \in EntriesBy(h)
  BY CrashHolder
<1>8. Sum(a) \in Int /\ Sum(a)' \in Int /\ Orphaned(a) \in Int
  <2>1. SumOf(saved, a) \in Int /\ SumOf(ledger, a) \in Int
    BY CrashBooks, SumOfType
  <2>. QED
    BY <2>1, CrashBooks, SumIsSumOf, OrphansType
<1>9. CASE \E i \in DOMAIN ledger : Unsaved(i) /\ ledger[i].acct = a
  <2>1. PICK i \in DOMAIN ledger : Unsaved(i) /\ ledger[i].acct = a
    BY <1>9
  <2>2. /\ \A j \in DOMAIN ledger : Unsaved(j) /\ ledger[j].acct = a => j = i
        /\ ledger[i].ref # 0
    BY <1>6, <1>7, <2>1
  <2>3. Sum(a) = Sum(a)' + ledger[i].delta /\ ledger[i].delta \in Int
    BY <2>1, <2>2, CrashSumOne
  <2>4. Orphaned(a)' = Orphaned(a) + ledger[i].delta
    BY <2>1, <2>2, CrashOrphan
  <2>. QED
    BY <1>4, <1>5, <1>8, <2>3, <2>4
<1>10. CASE \A i \in DOMAIN ledger : Unsaved(i) => ledger[i].acct # a
  <2>1. Sum(a)' = Sum(a) /\ Orphaned(a)' = Orphaned(a)
    BY <1>10, CrashSumSame
  <2>. QED
    BY <1>4, <1>5, <2>1
<1>. QED
  BY <1>9, <1>10

\* What is pending after a crash is a number.
LEMMA CrashPendingType ==
  ASSUME Crashing, NEW o \in Op, NEW a
  PROVE  Pending(o, a)' \in Int
<1>1. account' = account /\ op'[o].pc \in {"idle", "done"} /\ \A x \in Acct : account[x].bal \in Int
  BY CrashOps, Facts DEF Crashing
<1>2. CASE o \in Found
  <2>1. PICK t : t = tx[o]
    OBVIOUS
  <2>2. /\ t.a \in Acct /\ t.b \in Acct /\ t.a0 \in Int /\ t.b0 \in Int
    BY <1>2, <2>1, CrashFound
  <2>3. /\ o \in isolated' /\ tx'[o].a = t.a /\ tx'[o].b = t.b
        /\ tx'[o].a0 = t.a0 /\ tx'[o].b0 = t.b0
    BY <1>2, <2>1, CrashTx
  <2>4. account[t.a].bal - t.a0 \in Int /\ account[t.b].bal - t.b0 \in Int
    BY <1>1, <2>2
  <2>. QED
    BY <1>1, <2>3, <2>4 DEF Pending, Side, Bal
<1>3. CASE o \notin Found
  <2>1. ~Unresolved(tx'[o]) /\ o \notin isolated'
    BY <1>3, CrashTx
  <2>2. tx'[o].state # "needs-recovery"
    BY <2>1 DEF Unresolved, Final
  <2>. QED
    BY <1>1, <2>1, <2>2 DEF Pending
<1>. QED
  BY <1>2, <1>3

\* The books survive a crash.
LEMMA CrashBooksOK ==
  ASSUME Crashing, NEW a \in Acct
  PROVE  BooksOK(a)'
<1>. DEFINE f == [p \in Op |-> Pending(p, a)]
            g == [p \in Op |-> Pending(p, a)']
<1>1. f \in [Op -> Int]
  BY AllPendingType DEF Crashing, IInv
<1>2. g \in [Op -> Int]
  BY CrashPendingType
<1>3. AllPending(a) = SumFunction(f) /\ AllPending(a)' = SumFunction(g)
  BY DEF AllPending
<1>4. \A p \in Op : f[p] = Pending(p, a) /\ g[p] = Pending(p, a)'
  OBVIOUS
<1>. HIDE DEF f, g
<1>5. SumFunction(f) \in Int
  BY <1>1, OpFinite, SumIs
<1>6. BooksOK(a) /\ account'[a].bal = account[a].bal
  BY DEF Crashing, IInv
<1>7. Sum(a) \in Int /\ Sum(a)' \in Int /\ Orphaned(a) \in Int /\ Base(a) \in Int
  <2>1. SumOf(saved, a) \in Int /\ SumOf(ledger, a) \in Int
    BY CrashBooks, SumOfType
  <2>2. Base(a) \in Int
    BY EconomyAssumption DEF Base
  <2>3. ledger' = saved
    BY CrashBooks
  <2>4. Sum(a) = SumOf(ledger, a) /\ Sum(a)' = SumOf(ledger', a)
    BY SumIsSumOf
  <2>5. Orphaned(a) \in Int
    BY OrphansType
  <2>. QED
    BY <2>1, <2>2, <2>3, <2>4, <2>5
<1>8. Orphaned(a)' \in Int
  <2>1. [r \in Ref |-> OrphanAt(r, a)'] \in [Ref -> Int]
    BY RefAccounts DEF OrphanAt
  <2>2. SumFunction([r \in Ref |-> OrphanAt(r, a)']) \in Int
    BY <2>1, OpFinite, SumIs
  <2>. QED
    BY <2>2 DEF Orphaned
<1>9. CASE \E h \in Op : Busy(h) /\ a \in {op[h].a, op[h].b}
  <2>1. PICK h \in Op : Busy(h) /\ a \in {op[h].a, op[h].b}
    BY <1>9
  <2>2. \A p \in Op \ {h} : Busy(p) => a \notin {op[p].a, op[p].b}
    BY <2>1, CrashHolder
  <2>3. \A p \in Op \ {h} : g[p] = f[p]
    BY <1>4, <2>2, CrashPendingIdle
  <2>4. SumFunction(g) = SumFunction(f) + g[h] - f[h]
    <3>1. h \in Op /\ IsFiniteSet(Op)
      BY <2>1, OpFinite
    <3>. QED
      BY <1>1, <1>2, <2>3, <3>1, SumChanged
  <2>5. g[h] \in Int /\ f[h] \in Int
    BY <1>1, <1>2
  <2>6. Sum(a)' + Orphaned(a)' + g[h] = Sum(a) + Orphaned(a) + f[h]
    <3>1. CASE op[h].kind \in Moves
      <4>1. /\ Orphaned(a)' = Orphaned(a)
            /\ Pending(h, a)' - Pending(h, a) = Sum(a) - Sum(a)'
        BY <2>1, <3>1, CrashOfMove
      <4>2. g[h] - f[h] = Sum(a) - Sum(a)'
        BY <1>4, <4>1
      <4>. QED
        BY <1>7, <2>5, <4>1, <4>2
    <3>2. CASE op[h].kind \notin Moves
      <4>1. /\ Sum(a)' + Orphaned(a)' = Sum(a) + Orphaned(a)
            /\ Pending(h, a)' = 0 /\ Pending(h, a) = 0
        BY <2>1, <3>2, CrashOfKeyed
      <4>2. g[h] = 0 /\ f[h] = 0
        BY <1>4, <4>1
      <4>. QED
        BY <1>7, <1>8, <4>1, <4>2
    <3>. QED
      BY <3>1, <3>2
  <2>7. account[a].bal = Base(a) + Sum(a) + Orphaned(a) + SumFunction(f)
    BY <1>3, <1>6 DEF BooksOK, Bal
  <2>8. account'[a].bal = Base(a) + Sum(a)' + Orphaned(a)' + SumFunction(g)
    BY <1>5, <1>6, <1>7, <1>8, <2>4, <2>5, <2>6, <2>7
  <2>. QED
    BY <1>3, <2>8 DEF BooksOK, Bal, Base
<1>10. CASE \A h \in Op : Busy(h) => a \notin {op[h].a, op[h].b}
  <2>1. \A i \in DOMAIN ledger : Unsaved(i) => ledger[i].acct # a
    <3>1. SUFFICES ASSUME NEW i \in DOMAIN ledger, Unsaved(i) PROVE ledger[i].acct # a
      OBVIOUS
    <3>2. PICK p : p = ledger[i].by
      OBVIOUS
    <3>3. TypesInv
      BY Typed DEF Crashing
    <3>4. ledger[i] \in EntryType
      BY <3>3, LedgerDomain
    <3>5. p \in Op /\ Busy(p)
      BY <3>1, <3>2, <3>4 DEF EntryType, Crashing
    <3>6. ledger[i].acct \in {op[p].a, op[p].b}
      BY <3>1, <3>2, <3>5, Facts DEF Crashing, EntryOK
    <3>. QED
      BY <1>10, <3>5, <3>6
  <2>2. Sum(a)' = Sum(a) /\ Orphaned(a)' = Orphaned(a)
    BY <2>1, CrashSumSame
  <2>3. \A p \in Op : g[p] = f[p]
    BY <1>4, <1>10, CrashPendingIdle
  <2>4. g = f
    BY <1>1, <1>2, <2>3
  <2>. QED
    BY <1>3, <1>6, <2>2, <2>4 DEF BooksOK, Bal, Base
<1>. QED
  BY <1>9, <1>10

\* The memory is lost, and the startup scan takes the keys of what it finds.
LEMMA CrashKeeps ==
  ASSUME IInv, Survivable, Crash
  PROVE  IInv'
<1>1. Crashing
  BY CrashingIs
<1>2. TypesInv'
  BY <1>1, CrashTypes
<1>3. /\ \A i \in DOMAIN ledger' : EntryOK(i)'
      /\ \A r \in Ref : ConfirmedOK(r)'
      /\ Exclusive' /\ AtRest'
  BY <1>1, CrashRest
<1>4. \A o \in Op : OpOK(o)'
  BY <1>1, CrashOpOK
<1>5. \A a \in Acct : BooksOK(a)'
  BY <1>1, CrashBooksOK
<1>. QED
  BY <1>2, <1>3, <1>4, <1>5 DEF IInv

----------------------------------------------------------------------------
\* The invariant is inductive.

\* At first nothing is booked.
LEMMA InitHolds ==
  ASSUME Init
  PROVE  IInv
<1>1. /\ account = [a \in Acct |-> IF Opening[a] = -1 THEN [status |-> "none", bal |-> 0]
                                   ELSE [status |-> "active", bal |-> Opening[a]]]
      /\ receipt = [r \in Ref |-> "none"]
      /\ ledger = <<>> /\ saved = <<>>
      /\ resv = [o \in Op |-> NoResv] /\ resvSaved = [o \in Op |-> NoResv]
      /\ tx = [o \in Op |-> NoTx] /\ txSaved = [o \in Op |-> NoTx]
      /\ op = [o \in Op |-> Idle]
      /\ todo = {} /\ isolated = {}
  BY DEF Init
<1>2. Idle \in OpType /\ Idle.pc = "idle"
  <2>1. Idle = [pc |-> "idle", kind |-> "none", a |-> NoAcct, b |-> NoAcct,
                n |-> 0, m |-> 0, ref |-> 0, prev |-> NoResv]
    BY DEF Idle, NoResv
  <2>2. NoResv \in ResvType /\ "idle" \in Pcs /\ "none" \in CmdKinds
    BY DEF ResvType, Pcs, CmdKinds
  <2>. QED
    BY <2>1, <2>2 DEF OpType
<1>3. \A a \in Acct : Opening[a] \in Nat \cup {-1}
  BY EconomyAssumption
<1>4. TypesInv
  <2>1. account \in [Acct -> [status : Statuses, bal : Nat]]
    BY <1>1, <1>3 DEF Statuses
  <2>2. receipt \in [Ref -> Receipts]
    BY <1>1 DEF Receipts
  <2>3. BooksTyped
    BY <1>1 DEF BooksTyped
  <2>4. StoresTyped
    BY <1>1 DEF StoresTyped, ResvType, TxType
  <2>5. OpsTyped
    BY <1>1, <1>2 DEF OpsTyped
  <2>. QED
    BY <2>1, <2>2, <2>3, <2>4, <2>5 DEF TypesInv, DocumentsTyped
<1>5. DOMAIN ledger = {}
  BY <1>1
<1>6. \A o \in Op : ~Busy(o) /\ op[o].pc = "idle" /\ tx[o] = NoTx /\ txSaved[o] = NoTx
                    /\ o \notin isolated
  BY <1>1, <1>2 DEF Busy
<1>7. ASSUME NEW o \in Op PROVE OpOK(o)
  BY <1>6 DEF OpOK, TxOK, MoveOK, KeyedOK, PlainOK, IsolatedOK
<1>8. Exclusive
  BY <1>6 DEF Exclusive, HeldBy
<1>9. AtRest
  BY <1>1 DEF AtRest, Native, Bal
<1>10. \A r \in Ref : ConfirmedOK(r)
  BY <1>1 DEF ConfirmedOK
<1>11. ASSUME NEW a \in Acct PROVE BooksOK(a)
  <2>1. Sum(a) = 0
    <3>1. [i \in {i \in DOMAIN ledger : ledger[i].acct = a} |-> ledger[i].delta]
            = [i \in {} |-> 0]
      BY <1>5
    <3>2. SumFunction([i \in {} |-> 0]) = 0
      BY SumOfZeros, FS_EmptySet
    <3>. QED
      BY <3>1, <3>2 DEF Sum, Net
  <2>2. Orphaned(a) = 0
    <3>1. [r \in Ref |-> OrphanAt(r, a)] = [r \in Ref |-> 0]
      BY <1>1 DEF OrphanAt, Orphan
    <3>. QED
      BY <3>1, OpFinite, SumOfZeros DEF Orphaned
  <2>3. AllPending(a) = 0
    <3>1. [o \in Op |-> Pending(o, a)] = [o \in Op |-> 0]
      BY <1>6 DEF Pending, NoTx
    <3>. QED
      BY <3>1, OpFinite, SumOfZeros DEF AllPending
  <2>4. Bal(a) = Base(a)
    BY <1>1 DEF Bal, Base
  <2>5. Base(a) \in Int
    BY <1>3 DEF Base
  <2>. QED
    BY <2>1, <2>2, <2>3, <2>4, <2>5 DEF BooksOK
<1>. QED
  BY <1>4, <1>5, <1>7, <1>8, <1>9, <1>10, <1>11 DEF IInv

\* Every command begins in order,
LEMMA BeginKeeps ==
  ASSUME IInv, Survivable, NEW o \in Op, Begin(o)
  PROVE  IInv'
<1>1. CASE StartTransfer(o)
  BY <1>1, StartTransferKeeps
<1>2. CASE StartConvert(o)
  BY <1>2, StartConvertKeeps
<1>3. CASE StartAdjust(o)
  BY <1>3, StartAdjustKeeps
<1>4. CASE StartKeyed(o)
  BY <1>4, StartKeyedKeeps
<1>5. CASE StartCreate(o)
  BY <1>5, StartCreateKeeps
<1>6. CASE StartClose(o)
  BY <1>6, StartCloseKeeps
<1>7. CASE Reserve(o)
  BY <1>7, ReserveKeeps
<1>8. CASE StartConsume(o)
  BY <1>8, StartConsumeKeeps
<1>9. CASE Release(o)
  BY <1>9, ReleaseKeeps
<1>10. CASE StartReverse(o)
  BY <1>10, StartReverseKeeps
<1>. QED
  BY <1>1, <1>2, <1>3, <1>4, <1>5, <1>6, <1>7, <1>8, <1>9, <1>10 DEF Begin

\* goes on in order,
LEMMA ContinueKeeps ==
  ASSUME IInv, NEW o \in Op, Continue(o)
  PROVE  IInv'
<1>1. CASE \/ TxFlushed(o) \/ TxFlushFails(o) \/ DebitSource(o) \/ DebitFails(o)
           \/ CreditTarget(o) \/ CreditFails(o) \/ RollbackSource(o)
           \/ RollbackFails(o) \/ Exchange(o) \/ MoveBooked(o) \/ TxClosed(o)
  BY <1>1, TxFlushedKeeps, TxFlushFailsKeeps, DebitSourceKeeps, DebitFailsKeeps,
     CreditTargetKeeps, CreditFailsKeeps, RollbackSourceKeeps, RollbackFailsKeeps,
     ExchangeKeeps, MoveBookedKeeps, TxClosedKeeps
<1>2. CASE \/ Apply(o) \/ WriteFails(o) \/ AdjustBooked(o) \/ KeyedBooked(o)
           \/ Confirm(o) \/ CompensateAdjustment(o) \/ CreateAccount(o) \/ CloseAccount(o)
  BY <1>2, ApplyKeeps, WriteFailsKeeps, AdjustBookedKeeps, KeyedBookedKeeps, ConfirmKeeps,
     CompensateKeeps, CreateAccountKeeps, CloseAccountKeeps
<1>3. CASE \/ Spend(o) \/ SpendFails(o) \/ ConsumeBooked(o) \/ Kept(o) \/ Refund(o)
           \/ RefundBooked(o) \/ Restore(o) \/ ReverseEntry(o) \/ BookFails(o) \/ KeepFails(o)
  BY <1>3, SpendKeeps, SpendFailsKeeps, ConsumeBookedKeeps, KeptKeeps, RefundKeeps,
     RefundBookedKeeps, RestoreKeeps, ReverseEntryKeeps, BookFailsKeeps, KeepFailsKeeps
<1>. QED
  BY <1>1, <1>2, <1>3 DEF Continue

\* and is recovered in order.
LEMMA RecoverKeeps ==
  ASSUME IInv, NEW o \in Op, Recover(o)
  PROVE  IInv'
BY ReconcileMoveKeeps, RestoreBalancesKeeps, BookRestoredKeeps, RecoveredKeeps,
   RecoveryFailsKeeps DEF Recover

\* IInv is inductive.
LEMMA NextKeeps ==
  ASSUME IInv, Survivable, [Next]_vars
  PROVE  IInv'
<1>1. ASSUME NEW o \in Op, Begin(o) PROVE IInv'
  BY <1>1, BeginKeeps
<1>2. ASSUME NEW o \in Op, Continue(o) PROVE IInv'
  BY <1>2, ContinueKeeps
<1>3. ASSUME NEW o \in Op, Recover(o) PROVE IInv'
  BY <1>3, RecoverKeeps
<1>4. CASE Persist
  BY <1>4, PersistKeeps
<1>5. CASE Crash
  BY <1>5, CrashKeeps
<1>6. CASE UNCHANGED vars
  BY <1>6, StutterKeeps
<1>. QED
  BY <1>1, <1>2, <1>3, <1>4, <1>5, <1>6 DEF Next

\* The invariant: entries, receipts, transactions, locks and balances agree at
\* every await of every command, through failures, crashes and recoveries.
THEOREM BooksInvariant ==
  ASSUME Survivable
  PROVE  Spec => []IInv
<1>1. Init => IInv
  BY InitHolds
<1>2. IInv /\ [Next]_vars => IInv'
  BY NextKeeps
<1>. QED
  BY <1>1, <1>2, PTL DEF Spec

----------------------------------------------------------------------------
\* What it says.

\* Nothing is orphaned or pending on an account nothing happens to.
LEMMA QuietBooks ==
  ASSUME IInv, NEW a \in Acct, Quiet(a)
  PROVE  Bal(a) = Base(a) + Sum(a)
<1>1. Orphaned(a) = 0
  <2>1. ASSUME NEW r \in Ref, AcctOf(r) = a PROVE ~Orphan(r)
    <3>1. PICK k \in DOMAIN Keyed : r = k \/ r = -k
      BY DEF Ref
    <3>2. Keyed[k].acct = a
      BY <2>1, <3>1, RefAccounts
    <3>3. receipt[r] # "applied"
      BY <3>1, <3>2 DEF Quiet
    <3>4. receipt[r] \in {"none", "applied", "confirmed"}
      BY Facts DEF Receipts
    <3>5. receipt[r] = "confirmed" => RefEntries(r) # {}
      <4>1. receipt[r] = "confirmed" => Durable(r)
        BY DEF IInv, ConfirmedOK
      <4>2. r # 0
        BY <3>1, EconomyAssumption
      <4>. QED
        BY <4>1, <4>2 DEF Durable, RefEntries
    <3>. QED
      BY <3>3, <3>4, <3>5 DEF Orphan
  <2>2. \A r \in Ref : OrphanAt(r, a) = 0
    BY <2>1 DEF OrphanAt
  <2>3. [r \in Ref |-> OrphanAt(r, a)] = [r \in Ref |-> 0]
    BY <2>2
  <2>. QED
    BY <2>3, OpFinite, SumOfZeros DEF Orphaned
<1>2. AllPending(a) = 0
  <2>1. ASSUME NEW o \in Op PROVE Pending(o, a) = 0
    <3>1. MoveOK(o) /\ PlainOK(o) /\ IsolatedOK(o)
      BY Facts
    <3>2. Unresolved(tx[o]) => a # tx[o].a /\ a # tx[o].b
      BY DEF Quiet
    <3>3. CASE o \in isolated
      BY <3>2, <3>3 DEF Pending, Side
    <3>4. CASE o \notin isolated
      <4>1. op[o].pc \in {"credit", "rollback"} => Unresolved(tx[o])
        <5>1. SUFFICES ASSUME op[o].pc \in {"credit", "rollback"} PROVE Unresolved(tx[o])
          OBVIOUS
        <5>2. Busy(o)
          BY <5>1 DEF Busy
        <5>3. op[o].kind \in Moves
          BY <3>1, <5>1, <5>2 DEF PlainOK, PlainPcs
        <5>4. tx[o].state = "committing"
          BY <3>1, <5>1, <5>2, <5>3 DEF MoveOK
        <5>. QED
          BY <5>4 DEF Unresolved, Final
      <4>2. tx[o].state = "needs-recovery" => Unresolved(tx[o])
        BY DEF Unresolved, Final
      <4>. QED
        BY <3>2, <3>4, <4>1, <4>2 DEF Pending, Side
    <3>. QED
      BY <3>3, <3>4
  <2>2. [o \in Op |-> Pending(o, a)] = [o \in Op |-> 0]
    BY <2>1
  <2>. QED
    BY <2>2, OpFinite, SumOfZeros DEF AllPending
<1>3. Base(a) \in Int /\ Sum(a) \in Int
  <2>1. Base(a) \in Int
    BY EconomyAssumption DEF Base
  <2>2. SumOf(ledger, a) \in Int
    BY Typed, SumOfType DEF TypesInv, BooksTyped
  <2>. QED
    BY <2>1, <2>2, SumIsSumOf
<1>4. BooksOK(a)
  BY DEF IInv
<1>. QED
  BY <1>1, <1>2, <1>3, <1>4 DEF BooksOK

\* One entry adds up to its amount.
LEMMA NetOfOne ==
  ASSUME NEW i, ledger[i].delta \in Int
  PROVE  Net({i}) = ledger[i].delta
<1>1. PICK f : f = [j \in {i} |-> ledger[j].delta]
  OBVIOUS
<1>2. f \in [{i} -> Int] /\ f[i] = ledger[i].delta /\ i \in {i}
  BY <1>1
<1>3. SumFunction(f) = f[i] + SumFunction([j \in {i} \ {i} |-> f[j]])
  <2>1. IsFiniteSet({i})
    BY FS_Singleton
  <2>. QED
    BY <1>2, <2>1, SumRemoved
<1>4. SumFunction([j \in {i} \ {i} |-> f[j]]) = 0
  <2>1. [j \in {i} \ {i} |-> f[j]] = [j \in {} |-> 0]
    OBVIOUS
  <2>. QED
    BY <2>1, SumOfZeros, FS_EmptySet
<1>. QED
  BY <1>1, <1>2, <1>3, <1>4 DEF Net

\* No entry adds up to nothing.
LEMMA NetOfNone == Net({}) = 0
<1>1. [i \in {} |-> ledger[i].delta] = [i \in {} |-> 0]
  OBVIOUS
<1>2. SumFunction([i \in {} |-> 0]) = 0
  BY SumOfZeros, FS_EmptySet
<1>. QED
  BY <1>1, <1>2 DEF Net

\* A committed move has both its entries, a failed one has none.
LEMMA MovesAreBooked ==
  ASSUME IInv
  PROVE  MovesBooked
<1>1. SUFFICES ASSUME NEW o \in Op, NEW t, t = tx[o]
               PROVE  /\ t.state = "committed" =>
                           /\ Net({i \in DOMAIN ledger : ledger[i].by = o /\ ledger[i].acct = t.a}) = -t.n
                           /\ Net({i \in DOMAIN ledger : ledger[i].by = o /\ ledger[i].acct = t.b}) = t.m
                      /\ t.state \in {"failed", "compensated"} =>
                           /\ Net({i \in DOMAIN ledger : ledger[i].by = o /\ ledger[i].acct = t.a}) = 0
                           /\ Net({i \in DOMAIN ledger : ledger[i].by = o /\ ledger[i].acct = t.b}) = 0
  BY DEF MovesBooked
<1>2. TxOK(o) /\ tx[o] \in TxType
  BY Facts DEF TypesInv, StoresTyped
<1>3. ASSUME t.state = "committed"
      PROVE  /\ Net({i \in DOMAIN ledger : ledger[i].by = o /\ ledger[i].acct = t.a}) = -t.n
             /\ Net({i \in DOMAIN ledger : ledger[i].by = o /\ ledger[i].acct = t.b}) = t.m
  <2>1. t # NoTx
    BY <1>3 DEF NoTx
  <2>2. HasBoth(o) /\ t.a # t.b
    BY <1>1, <1>2, <1>3, <2>1 DEF TxOK
  <2>3. PICK i \in DOMAIN ledger :
          /\ i + 1 \in DOMAIN ledger
          /\ ledger[i] = Entry(t.a, -t.n, DebitKind(t.kind), o, 0, 0)
          /\ ledger[i + 1] = Entry(t.b, t.m, CreditKind(t.kind), o, 0, 0)
          /\ EntriesBy(o) = {i, i + 1}
    BY <1>1, <2>2 DEF HasBoth
  <2>4. PICK j \in DOMAIN ledger : j = i + 1
    BY <2>3
  <2>5. /\ ledger[i].acct = t.a /\ ledger[i].delta = -t.n
        /\ ledger[j].acct = t.b /\ ledger[j].delta = t.m
        /\ EntriesBy(o) = {i, j}
    BY <2>3, <2>4 DEF Entry
  <2>6. t.n \in Nat /\ t.m \in Nat
    BY <1>1, <1>2, <2>1 DEF TxType
  <2>7. /\ {k \in DOMAIN ledger : ledger[k].by = o /\ ledger[k].acct = t.a} = {i}
        /\ {k \in DOMAIN ledger : ledger[k].by = o /\ ledger[k].acct = t.b} = {j}
    BY <2>2, <2>5 DEF EntriesBy
  <2>8. Net({i}) = -t.n
    BY <2>5, <2>6, NetOfOne
  <2>9. Net({j}) = t.m
    BY <2>5, <2>6, NetOfOne
  <2>. QED
    BY <2>7, <2>8, <2>9
<1>4. ASSUME t.state \in {"failed", "compensated"}
      PROVE  /\ Net({i \in DOMAIN ledger : ledger[i].by = o /\ ledger[i].acct = t.a}) = 0
             /\ Net({i \in DOMAIN ledger : ledger[i].by = o /\ ledger[i].acct = t.b}) = 0
  <2>1. t # NoTx
    BY <1>4 DEF NoTx
  <2>2. HasNone(o)
    BY <1>1, <1>2, <1>4, <2>1 DEF TxOK
  <2>3. /\ {k \in DOMAIN ledger : ledger[k].by = o /\ ledger[k].acct = t.a} = {}
        /\ {k \in DOMAIN ledger : ledger[k].by = o /\ ledger[k].acct = t.b} = {}
    BY <2>2 DEF HasNone, EntriesBy
  <2>. QED
    BY <2>3, NetOfNone
<1>. QED
  BY <1>3, <1>4

\* The type invariant of the model, from that of the proof.
LEMMA TypesAreOK ==
  ASSUME IInv
  PROVE  TypeOK
<1>1. /\ account \in [Acct -> [status : Statuses, bal : Nat]]
      /\ receipt \in [Ref -> Receipts]
      /\ todo \subseteq isolated /\ isolated \subseteq Op
      /\ tx \in [Op -> TxType] /\ TypesInv
  BY Facts DEF TypesInv, StoresTyped, OpsTyped
<1>2. \A a \in Acct : account[a].status \in {"none", "active", "closed"} /\ Bal(a) \in Nat
  BY <1>1 DEF Statuses, Bal
<1>3. ASSUME NEW i \in DOMAIN ledger
      PROVE  ledger[i].acct \in Acct /\ ledger[i].rev \in 0 .. i - 1
  <2>1. ledger[i] \in EntryType /\ DOMAIN ledger = 1 .. Len(ledger) /\ Len(ledger) \in Nat
    BY <1>1, LedgerDomain
  <2>2. ledger[i].rev < i
    BY <1>1 DEF TypesInv, BooksTyped
  <2>3. i \in Nat /\ ledger[i].rev \in Nat /\ ledger[i].acct \in Acct
    BY <2>1 DEF EntryType
  <2>. QED
    BY <2>2, <2>3
<1>4. IsPrefix(saved, ledger)
  <2>1. PICK n : n = Len(saved)
    OBVIOUS
  <2>2. /\ n \in Nat /\ n <= Len(ledger) /\ Len(ledger) \in Nat
        /\ \A i \in 1 .. n : saved[i] = ledger[i]
        /\ \A i \in 1 .. n : saved[i] \in EntryType /\ ledger[i] \in EntryType
    <3>1. /\ DOMAIN ledger = 1 .. Len(ledger) /\ DOMAIN saved = 1 .. n
          /\ n \in Nat /\ Len(ledger) \in Nat /\ \A i \in DOMAIN ledger : ledger[i] \in EntryType
      BY <1>1, <2>1, LedgerDomain
    <3>2. n <= Len(ledger) /\ \A i \in DOMAIN saved : saved[i] = ledger[i]
      BY <1>1, <2>1 DEF TypesInv, BooksTyped
    <3>3. DOMAIN saved \subseteq DOMAIN ledger
      BY <3>1, <3>2
    <3>. QED
      BY <3>1, <3>2, <3>3
  <2>3. PICK s : s = SubSeq(saved, 1, n)
    OBVIOUS
  <2>4. PICK u : u = SubSeq(ledger, 1, n)
    OBVIOUS
  <2>5. s \in Seq(EntryType) /\ Len(s) = n /\ \A i \in 1 .. n : s[i] = saved[i]
    <3>1. 1 \in Int /\ n \in Int /\ \A i \in 1 .. n : saved[i] \in EntryType
      BY <2>2
    <3>2. /\ s \in Seq(EntryType) /\ Len(s) = IF 1 <= n THEN n - 1 + 1 ELSE 0
          /\ \A i \in 1 .. n - 1 + 1 : s[i] = saved[1 + i - 1]
      BY <2>3, <3>1, SubSeqProperties
    <3>. QED
      BY <2>2, <3>2
  <2>6. u \in Seq(EntryType) /\ Len(u) = n /\ \A i \in 1 .. n : u[i] = ledger[i]
    <3>1. 1 \in Int /\ n \in Int /\ \A i \in 1 .. n : ledger[i] \in EntryType
      BY <2>2
    <3>2. /\ u \in Seq(EntryType) /\ Len(u) = IF 1 <= n THEN n - 1 + 1 ELSE 0
          /\ \A i \in 1 .. n - 1 + 1 : u[i] = ledger[1 + i - 1]
      BY <2>4, <3>1, SubSeqProperties
    <3>. QED
      BY <2>2, <3>2
  <2>7. s = u
    <3>1. Len(s) = Len(u) /\ \A i \in 1 .. Len(s) : s[i] = u[i]
      BY <2>2, <2>5, <2>6
    <3>. QED
      BY <2>5, <2>6, <3>1, SeqEqual
  <2>. QED
    BY <2>1, <2>2, <2>3, <2>4, <2>7 DEF IsPrefix
<1>5. \A o \in Op : Unresolved(tx[o]) => tx[o].a \in Acct /\ tx[o].b \in Acct
  <2>1. TAKE o \in Op
  <2>2. tx[o] \in TxType
    BY <1>1
  <2>3. tx[o] = NoTx => ~Unresolved(tx[o])
    BY DEF NoTx, Unresolved, Final
  <2>. QED
    BY <2>2, <2>3 DEF TxType
<1>. QED
  BY <1>1, <1>2, <1>3, <1>4, <1>5 DEF TypeOK, Receipts

\* A key has one entry at most, and one when its receipt is confirmed.
LEMMA KeysOnce ==
  ASSUME IInv
  PROVE  KeyedOnce
<1>1. SUFFICES ASSUME NEW r \in Ref
               PROVE  /\ Cardinality(RefEntries(r)) <= 1
                      /\ receipt[r] = "confirmed" => RefEntries(r) # {}
  BY DEF KeyedOnce
<1>2. \A i, j \in RefEntries(r) : i = j
  BY Facts DEF RefEntries, EntryOK
<1>3. Cardinality(RefEntries(r)) <= 1
  <2>1. CASE RefEntries(r) = {}
    BY <2>1, FS_EmptySet
  <2>2. CASE RefEntries(r) # {}
    <3>1. PICK i : i \in RefEntries(r)
      BY <2>2
    <3>2. RefEntries(r) = {i}
      BY <1>2, <3>1
    <3>. QED
      BY <3>2, FS_Singleton
  <2>. QED
    BY <2>1, <2>2
<1>4. receipt[r] = "confirmed" => RefEntries(r) # {}
  <2>1. receipt[r] = "confirmed" => Durable(r)
    BY DEF IInv, ConfirmedOK
  <2>2. r # 0
    BY EconomyAssumption DEF Ref
  <2>. QED
    BY <2>1, <2>2 DEF Durable, RefEntries
<1>. QED
  BY <1>3, <1>4

\* Accounts and ledger are of their types, and a move is booked whole or not
\* at all (ledgerStore.append of both entries, the flush that precedes the
\* commit, reconcile and the compensators), for any accounts, amounts and
\* commands, any failures, and any number of the crashes that Survivable allows.
THEOREM AlwaysConsistent ==
  ASSUME Survivable
  PROVE  Spec => []Consistent
<1>1. IInv => Consistent
  BY TypesAreOK, MovesAreBooked DEF Consistent
<1>. QED
  BY <1>1, BooksInvariant, PTL

\* The balance of an account nothing is happening to is what its entries add
\* up to: commitTransfer, commitConvert, commitAdjust, the consumption, the
\* reversal and the creation of accounts write no balance without an entry and
\* no entry without its write, and rollback, recovery and the reconstruction of
\* an entry from its receipt make up for what they miss.
THEOREM BalancesAreBooked ==
  ASSUME Survivable
  PROVE  Spec => []BooksAgree
<1>1. IInv => BooksAgree
  BY QuietBooks DEF BooksAgree
<1>. QED
  BY <1>1, BooksInvariant, PTL

\* An idempotency key of commitAdjust has one entry at most, whatever is retried
\* after a crash, and has it when its receipt is confirmed.
THEOREM KeysTakeEffectOnce ==
  ASSUME Survivable
  PROVE  Spec => []KeyedOnce
<1>1. IInv => KeyedOnce
  BY KeysOnce
<1>. QED
  BY <1>1, BooksInvariant, PTL
=============================================================================
