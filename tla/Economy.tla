------------------------------- MODULE Economy -------------------------------
(***************************************************************************)
(* The native accounts of the economy (src/economy/services/               *)
(* economy-service.ts): transfer, conversion, adjustment, creation and     *)
(* closing of accounts, reservations, reversals, and the compensators      *)
(* economy:transfer and economy:convert, over the LedgerStore, the         *)
(* ReservationStore and the records of the TransactionStore.               *)
(*                                                                         *)
(* Accounts and receipts are in the Domain documents, on the server; the   *)
(* ledger, the reservations and the transactions are in the memory of the  *)
(* authority and saved as whole snapshots.  An action is the code between  *)
(* two awaits.  A command holds the keys of its Domains from Start to its  *)
(* end (LockManager), so its reads and its plan belong to Start; a command *)
(* whose plan is refused changes nothing and is left out.  Commands are    *)
(* numbered in the order they get their locks.                             *)
(*                                                                         *)
(* A crash loses the memory.  The startup scan and recoverAll then resolve *)
(* the transactions in the journal before commands are accepted again.     *)
(***************************************************************************)
EXTENDS Integers, Sequences, FiniteSets, SequencesExt, FiniteSetsExt, Functions

CONSTANTS
  Domain, Resource,
  Acct,        \* the accounts, pairs of a Domain and a resource
  Opening,     \* their balances at first; -1 where there is no account
  Limit,       \* capacity of an account, policy "block"
  Ops,         \* number of commands
  Amount,      \* amounts of a command
  Part,        \* amounts of a reservation
  Keyed,       \* for each idempotency key of a parent: account and amount
  Reopening,   \* initial balances given to an account that was closed
  Reversible,  \* kinds of entries the Game Master reverses
  Kinds,       \* kinds of commands
  CrashSafe,   \* kinds of commands during which the client may crash
  StrayCrash,  \* TRUE: also after a flush that failed, see Stray
  Failing,     \* what may fail: "write", "rollback", "flush"
  MaxFailures, MaxCrashes

Op == 1 .. Ops

Ref == DOMAIN Keyed \cup {-k : k \in DOMAIN Keyed}

NoAcct == <<>>

ASSUME EconomyAssumption ==
  /\ Acct \subseteq Domain \X Resource
  /\ Ops \in Nat /\ MaxFailures \in Nat /\ MaxCrashes \in Nat
  /\ Opening \in [Acct -> Nat \cup {-1}] /\ Limit \in [Acct -> Nat]
  /\ Amount \cup Part \subseteq Nat \ {0} /\ Reopening \subseteq Nat
  /\ IsFiniteSet(DOMAIN Keyed)
  /\ \A k \in DOMAIN Keyed : k \in Nat \ {0} /\ Keyed[k].acct \in Acct
                             /\ Keyed[k].delta \in Int \ {0}
  /\ CrashSafe \subseteq Kinds /\ StrayCrash \in BOOLEAN

VARIABLES
  account,    \* status and balance, in the documents
  receipt,    \* receipts of keyed adjustments, in the documents
  ledger, saved,        \* entries in memory and in the snapshot
  resv, resvSaved,      \* reservations, by the command that made them
  tx, txSaved,          \* transactions, by their command
  op,         \* the commands
  todo,       \* transactions the startup has still to recover
  isolated,   \* transactions whose keys recovery holds
  failures, crashes

documents == <<account, receipt>>
books == <<ledger, saved>>
reservations == <<resv, resvSaved>>
transactions == <<tx, txSaved>>
faults == <<failures, crashes>>
vars == <<documents, books, reservations, transactions, op, todo, isolated,
          faults>>

Idle == [pc |-> "idle", kind |-> "none", a |-> NoAcct, b |-> NoAcct,
         n |-> 0, m |-> 0, ref |-> 0, prev |-> [status |-> "none"]]

NoResv == [status |-> "none"]

NoTx == [state |-> "none"]

----------------------------------------------------------------------------
\* Views of the state.

Bal(a) == account[a].bal

Native(a) == account[a].status # "none"

Open(r) == r.status \in {"active", "partially-consumed"}

Reserved(a) ==
  SumFunction([o \in {o \in Op : Open(resv[o]) /\ resv[o].acct = a} |->
                 resv[o].rem])

Available(a) == Bal(a) - Reserved(a)

\* Policy "block"; resources do not allow a negative balance.
Allowed(a, balance) == balance \in 0 .. Limit[a]

Reversed(i) == \E j \in DOMAIN ledger : ledger[j].rev = i

EntriesOf(book, o, kind) ==
  {i \in DOMAIN book : book[i].by = o /\ book[i].kind = kind}

RefEntries(ref) == {i \in DOMAIN ledger : ledger[i].ref = ref /\ ref # 0}

HasHistory(a) == Opening[a] > 0 \/ \E i \in DOMAIN ledger : ledger[i].acct = a

Final == {"none", "committed", "compensated", "failed"}

Unresolved(t) == t.state \notin Final

Busy(o) == op[o].pc \notin {"idle", "done"}

\* The keys a command holds, or recovery for a transaction.
Domains(e) == {e.a[1], e.b[1]}

Free(d) ==
  /\ \A o \in Op : Busy(o) => d \notin Domains(op[o])
  /\ \A o \in isolated : d \notin Domains(tx[o])

----------------------------------------------------------------------------
\* Effects.

Entry(a, delta, kind, o, ref, rev) ==
  [acct |-> a, delta |-> delta, kind |-> kind, by |-> o, ref |-> ref,
   rev |-> rev]

Credit(a, delta) == account' = [account EXCEPT ![a].bal = @ + delta]

DebitKind(kind) ==
  IF kind = "transfer" THEN "transfer-debit" ELSE "conversion-debit"

CreditKind(kind) ==
  IF kind = "transfer" THEN "transfer-credit" ELSE "conversion-credit"

\* LedgerStore.append: the position is the sequence number.
Append1(e) == ledger' = Append(ledger, e) /\ UNCHANGED saved

\* The snapshots are written whole.
FlushLedger == saved' = ledger

FlushReservations == resvSaved' = resv

Goto(o, pc) == op' = [op EXCEPT ![o].pc = pc]

End(o) == op' = [op EXCEPT ![o] = [Idle EXCEPT !.pc = "done"]]

MayFail(what) == what \in Failing /\ failures < MaxFailures

Fails(what) ==
  /\ MayFail(what)
  /\ failures' = failures + 1
  /\ UNCHANGED crashes

\* A command gets its keys and reads what it will act upon.
Start(o, kind, e) ==
  /\ kind \in Kinds /\ todo = {}
  /\ op[o].pc = "idle" /\ \A p \in 1 .. o - 1 : op[p].pc # "idle"
  /\ \A d \in Domains(e) : Free(d)
  /\ op' = [op EXCEPT ![o] = e]
  /\ UNCHANGED <<todo, isolated, faults>>

Cmd(pc, kind, a, n) ==
  [Idle EXCEPT !.pc = pc, !.kind = kind, !.a = a, !.b = a, !.n = n]

----------------------------------------------------------------------------
\* Transfer and conversion: a transaction around one or two writes.

\* Mutant: reserved amounts may move.
MovePlanReserved(a, b, n, m) ==
  Native(a) /\ Native(b) /\ n <= Bal(a) /\ Allowed(b, Bal(b) + m)

\* buildTransferPlan and buildConvertPlan.
MovePlan(a, b, n, m) ==
  /\ Native(a) /\ Native(b)
  /\ n <= Available(a)
  /\ Allowed(b, Bal(b) + m)

StartMove(o, kind, a, b, n, m) ==
  /\ MovePlan(a, b, n, m)
  /\ Start(o, kind, [Cmd("journal", kind, a, n) EXCEPT !.b = b, !.m = m])
  /\ tx' = [tx EXCEPT ![o] =
              [state |-> "committing", kind |-> kind, a |-> a, b |-> b,
               n |-> n, m |-> m, a0 |-> Bal(a), b0 |-> Bal(b)]]
  /\ UNCHANGED <<documents, books, reservations, txSaved>>

StartTransfer(o) ==
  \E a, b \in Acct, n \in Amount :
    /\ a[1] # b[1] /\ a[2] = b[2]
    /\ StartMove(o, "transfer", a, b, n, n)

StartConvert(o) ==
  \E a, b \in Acct, n, m \in Amount :
    /\ a[1] = b[1] /\ a[2] # b[2]
    /\ StartMove(o, "convert", a, b, n, m)

\* The record is durable before the first write.
TxFlushed(o) ==
  /\ op[o].pc = "journal"
  /\ txSaved' = tx
  /\ Goto(o, IF op[o].kind = "transfer" THEN "debit" ELSE "exchange")
  /\ UNCHANGED <<documents, books, reservations, tx, todo, isolated, faults>>

\* A flush that throws ends the command; the snapshot may be old or new.
TxFlushFails(o) ==
  /\ op[o].pc \in {"journal", "close tx"}
  /\ Fails("flush")
  /\ txSaved' \in {txSaved, tx}
  /\ End(o)
  /\ UNCHANGED <<documents, books, reservations, tx, todo, isolated>>

TxEnds(o, state) == tx' = [tx EXCEPT ![o].state = state]

DebitSource(o) ==
  /\ op[o].pc = "debit"
  /\ Credit(op[o].a, -op[o].n)
  /\ Goto(o, "credit")
  /\ UNCHANGED <<receipt, books, reservations, transactions, todo, isolated,
                 faults>>

DebitFails(o) ==
  /\ op[o].pc \in {"debit", "exchange"}
  /\ Fails("write")
  /\ TxEnds(o, "failed") /\ Goto(o, "close tx")
  /\ UNCHANGED <<documents, books, reservations, txSaved, todo, isolated>>

\* The two entries of a move, appended together.
BookMove(o) ==
  LET e == op[o]
  IN /\ ledger' = ledger \o <<Entry(e.a, -e.n, DebitKind(e.kind), o, 0, 0),
                             Entry(e.b, e.m, CreditKind(e.kind), o, 0, 0)>>
     /\ UNCHANGED saved

CreditTarget(o) ==
  /\ op[o].pc = "credit"
  /\ Credit(op[o].b, op[o].m)
  /\ BookMove(o)
  /\ Goto(o, "book")
  /\ UNCHANGED <<receipt, reservations, transactions, todo, isolated, faults>>

CreditFails(o) ==
  /\ op[o].pc = "credit"
  /\ Fails("write")
  /\ Goto(o, "rollback")
  /\ UNCHANGED <<documents, books, reservations, transactions, todo, isolated>>

\* Mutant: the transaction fails and the source stays debited.
RollbackForgotten(o) ==
  /\ op[o].pc = "rollback"
  /\ TxEnds(o, "failed") /\ Goto(o, "close tx")
  /\ UNCHANGED <<documents, books, reservations, txSaved, todo, isolated, faults>>

RollbackSource(o) ==
  /\ op[o].pc = "rollback"
  /\ Credit(op[o].a, op[o].n)
  /\ TxEnds(o, "failed") /\ Goto(o, "close tx")
  /\ UNCHANGED <<receipt, books, reservations, txSaved, todo, isolated, faults>>

\* What made the write fail may last.
RollbackFails(o) ==
  /\ op[o].pc = "rollback" /\ "rollback" \in Failing
  /\ TxEnds(o, "needs-recovery") /\ Goto(o, "close tx")
  /\ UNCHANGED <<documents, books, reservations, txSaved, todo, isolated, faults>>

\* A conversion writes both accounts of the document at once.
Exchange(o) ==
  /\ op[o].pc = "exchange"
  /\ account' = [account EXCEPT ![op[o].a].bal = @ - op[o].n,
                                ![op[o].b].bal = @ + op[o].m]
  /\ BookMove(o)
  /\ Goto(o, "book")
  /\ UNCHANGED <<receipt, reservations, transactions, todo, isolated, faults>>

\* ledgerStore.flush, then the transaction is committed.
MoveBooked(o) ==
  /\ op[o].pc = "book" /\ op[o].kind \in {"transfer", "convert"}
  /\ FlushLedger
  /\ TxEnds(o, "committed") /\ Goto(o, "close tx")
  /\ UNCHANGED <<documents, ledger, reservations, txSaved, todo, isolated, faults>>

TxClosed(o) ==
  /\ op[o].pc = "close tx"
  /\ txSaved' = tx
  /\ End(o)
  /\ UNCHANGED <<documents, books, reservations, tx, todo, isolated, faults>>

----------------------------------------------------------------------------
\* Adjustments, with or without an idempotency key.

StartAdjust(o) ==
  \E a \in Acct, n \in Amount, s \in {-1, 1} :
    /\ Native(a) /\ Allowed(a, Bal(a) + s * n)
    /\ Start(o, "adjust", Cmd("apply", "adjust", a, s * n))
    /\ UNCHANGED <<documents, books, reservations, transactions>>

\* Mutant: a receipt that is not confirmed is always booked again.
KeyCaseReceipt(e) ==
  IF receipt[e.ref] = "applied" THEN "book"
  ELSE IF receipt[e.ref] = "confirmed" THEN "noop"
  ELSE IF Allowed(e.a, Bal(e.a) + e.n) THEN "apply" ELSE "refused"

\* What commitAdjust does with a key, by what its receipt and the ledger say
\* of it: where the command goes on, or "noop" or "refused".
KeyCase(e) ==
  IF RefEntries(e.ref) # {}
  THEN IF receipt[e.ref] = "applied" THEN "confirm" ELSE "noop"
  ELSE IF receipt[e.ref] # "none" THEN "book"
  ELSE IF Allowed(e.a, Bal(e.a) + e.n) THEN "apply" ELSE "refused"

\* A receipt without its entry gets one.
Reconstruct(o, e) ==
  ledger' = IF KeyCase(e) = "book"
            THEN Append(ledger, Entry(e.a, e.n, "adjustment", o, e.ref, 0))
            ELSE ledger

KeyedCmd(k) ==
  [Cmd("apply", "keyed", Keyed[k].acct, Keyed[k].delta) EXCEPT !.ref = k]

StartKeyed(o) ==
  \E k \in DOMAIN Keyed :
    LET e == KeyedCmd(k) IN
    /\ Native(e.a) /\ KeyCase(e) \in {"apply", "book", "confirm"}
    /\ Start(o, "keyed", [e EXCEPT !.pc = KeyCase(e)])
    /\ Reconstruct(o, e)
    /\ UNCHANGED <<documents, saved, reservations, transactions>>

\* Balance, key and receipt are one write; the entry follows it.
Apply(o) ==
  LET e == op[o] IN
  /\ e.pc = "apply"
  /\ Credit(e.a, e.n)
  /\ receipt' = IF e.ref = 0 THEN receipt
                ELSE [receipt EXCEPT ![e.ref] = "applied"]
  /\ Append1(Entry(e.a, e.n, "adjustment", o, e.ref, 0))
  /\ Goto(o, "book")
  /\ UNCHANGED <<reservations, transactions, todo, isolated, faults>>

\* A failed document write ends a command without a transaction.
WriteFails(o) ==
  /\ op[o].pc \in {"apply", "confirm", "open", "shut", "reverse"}
  /\ Fails("write")
  /\ End(o)
  /\ UNCHANGED <<documents, books, reservations, transactions, todo, isolated>>

AdjustBooked(o) ==
  /\ op[o].pc = "book" /\ op[o].kind \in {"adjust", "open", "reverse"}
  /\ FlushLedger
  /\ End(o)
  /\ UNCHANGED <<documents, ledger, reservations, transactions, todo, isolated,
                 faults>>

KeyedBooked(o) ==
  /\ op[o].pc = "book" /\ op[o].kind \in {"keyed", "undo"}
  /\ FlushLedger
  /\ Goto(o, "confirm")
  /\ UNCHANGED <<documents, ledger, reservations, transactions, todo, isolated,
                 faults>>

\* The parent goes on, or fails at a later step and compensates this one.
Confirm(o) ==
  /\ op[o].pc = "confirm"
  /\ receipt' = [receipt EXCEPT ![op[o].ref] = "confirmed"]
  /\ \/ End(o)
     \/ op[o].kind = "keyed" /\ Goto(o, "undo")
  /\ UNCHANGED <<account, books, reservations, transactions, todo, isolated,
                 faults>>

\* compensateAdjustment: the original is applied (reconcileAdjustment), so
\* the opposite is applied under a key of its own.
CompensateAdjustment(o) ==
  LET e == [op[o] EXCEPT !.kind = "undo", !.n = -@, !.ref = -@] IN
  /\ op[o].pc = "undo"
  /\ IF KeyCase(e) \in {"apply", "book", "confirm"}
     THEN op' = [op EXCEPT ![o] = [e EXCEPT !.pc = KeyCase(e)]]
     ELSE End(o)
  /\ Reconstruct(o, e)
  /\ UNCHANGED <<documents, saved, reservations, transactions, todo, isolated,
                 faults>>

----------------------------------------------------------------------------
\* Accounts.

\* createAccount, where there is no account or over a closed one.
StartCreate(o) ==
  \E a \in Acct, x \in Amount \cup {0} :
    /\ account[a].status # "active"
    /\ account[a].status = "closed" => x \in Reopening
    /\ Start(o, "open", Cmd("open", "open", a, x))
    /\ UNCHANGED <<documents, books, reservations, transactions>>

CreateAccount(o) ==
  LET e == op[o] IN
  /\ e.pc = "open"
  /\ account' = [account EXCEPT ![e.a] = [status |-> "active", bal |-> e.n]]
  /\ IF ~Native(e.a) /\ e.n # 0
     THEN /\ Append1(Entry(e.a, e.n, "opening-balance", o, 0, 0))
          /\ Goto(o, "book")
     ELSE End(o) /\ UNCHANGED books
  /\ UNCHANGED <<receipt, reservations, transactions, todo, isolated, faults>>

StartClose(o) ==
  \E a \in Acct :
    /\ account[a].status = "active"
    /\ Bal(a) = 0 /\ Reserved(a) = 0
    /\ Start(o, "shut", Cmd("shut", "shut", a, 0))
    /\ UNCHANGED <<documents, books, reservations, transactions>>

\* An account with entries stays, closed; any other is removed.
CloseAccount(o) ==
  /\ op[o].pc = "shut"
  /\ account' = [account EXCEPT ![op[o].a].status =
                   IF HasHistory(op[o].a) THEN "closed" ELSE "none"]
  /\ End(o)
  /\ UNCHANGED <<receipt, books, reservations, transactions, todo, isolated,
                 faults>>

----------------------------------------------------------------------------
\* Reservations; one is named by the command that made it.

Reserve(o) ==
  \E a \in Acct, n \in Part :
    /\ Native(a) /\ n <= Available(a)
    /\ Start(o, "reserve", Cmd("keep", "reserve", a, n))
    /\ resv' = [resv EXCEPT ![o] = [status |-> "active", acct |-> a, rem |-> n]]
    /\ UNCHANGED <<documents, books, resvSaved, transactions>>

\* ReservationStore.consume and release.
Reduced(r, n, finally) ==
  [r EXCEPT !.rem = @ - n,
            !.status = IF r.rem = n THEN finally ELSE "partially-consumed"]

\* The store is changed first, the balance after it.
StartConsume(o) ==
  \E r \in Op, n \in Amount :
    /\ Open(resv[r]) /\ n <= resv[r].rem
    /\ Native(resv[r].acct) /\ n <= Bal(resv[r].acct)
    /\ Start(o, "consume", [Cmd("spend", "consume", resv[r].acct, n)
                              EXCEPT !.ref = r, !.prev = resv[r]])
    /\ resv' = [resv EXCEPT ![r] = Reduced(@, n, "consumed")]
    /\ UNCHANGED <<documents, books, resvSaved, transactions>>

Spend(o) ==
  LET e == op[o] IN
  /\ e.pc = "spend"
  /\ Credit(e.a, -e.n)
  /\ Append1(Entry(e.a, -e.n, "consumption", o, 0, 0))
  /\ Goto(o, "book")
  /\ UNCHANGED <<receipt, reservations, transactions, todo, isolated, faults>>

\* rollbackConsume puts the snapshot of the reservation back.
SpendFails(o) ==
  /\ op[o].pc = "spend"
  /\ Fails("write")
  /\ resv' = [resv EXCEPT ![op[o].ref] = op[o].prev]
  /\ op' = [op EXCEPT ![o].pc = "keep", ![o].kind = "reserve"]
  /\ UNCHANGED <<documents, books, resvSaved, transactions, todo, isolated>>

ConsumeBooked(o) ==
  /\ op[o].pc = "book" /\ op[o].kind = "consume"
  /\ FlushLedger
  /\ Goto(o, "keep")
  /\ UNCHANGED <<documents, ledger, reservations, transactions, todo, isolated,
                 faults>>

Release(o) ==
  \E r \in Op, n \in Amount :
    /\ Open(resv[r]) /\ n <= resv[r].rem
    /\ Start(o, "release", [Cmd("keep", "release", resv[r].acct, n)
                              EXCEPT !.ref = r, !.prev = resv[r]])
    /\ resv' = [resv EXCEPT ![r] = Reduced(@, n, "released")]
    /\ UNCHANGED <<documents, books, resvSaved, transactions>>

\* reservationStore.flush; the parent of a consumption or of a release may
\* fail at a later step and restore the reservation under its own locks.
Kept(o) ==
  /\ op[o].pc = "keep"
  /\ FlushReservations
  /\ \/ End(o)
     \/ op[o].kind = "consume" /\ Goto(o, "refund")
     \/ op[o].kind = "release" /\ Goto(o, "restore")
  /\ UNCHANGED <<documents, books, resv, transactions, todo, isolated, faults>>

\* restoreReservation: commitAdjust gives a consumed amount back first.
Refund(o) ==
  LET e == op[o] IN
  /\ e.pc = "refund"
  /\ IF Allowed(e.a, Bal(e.a) + e.n)
     THEN /\ Credit(e.a, e.n)
          /\ Append1(Entry(e.a, e.n, "adjustment", o, 0, 0))
          /\ op' = [op EXCEPT ![o].pc = "book", ![o].kind = "refund"]
     ELSE End(o) /\ UNCHANGED <<account, books>>
  /\ UNCHANGED <<receipt, reservations, transactions, todo, isolated, faults>>

RefundBooked(o) ==
  /\ op[o].pc = "book" /\ op[o].kind = "refund"
  /\ FlushLedger
  /\ Goto(o, "restore")
  /\ UNCHANGED <<documents, ledger, reservations, transactions, todo, isolated,
                 faults>>

\* rollbackConsume and restore: the snapshot replaces the reservation.
Restore(o) ==
  /\ op[o].pc = "restore"
  /\ resv' = [resv EXCEPT ![op[o].ref] = op[o].prev]
  /\ op' = [op EXCEPT ![o].pc = "keep", ![o].kind = "reserve"]
  /\ UNCHANGED <<documents, books, resvSaved, transactions, todo, isolated,
                 faults>>

----------------------------------------------------------------------------
\* Reversal of a ledger entry.

StartReverse(o) ==
  \E i \in DOMAIN ledger :
    LET a == ledger[i].acct IN
    /\ ledger[i].kind \in Reversible /\ ~Reversed(i)
    /\ Native(a) /\ Bal(a) - ledger[i].delta >= 0
    /\ Start(o, "reverse", [Cmd("reverse", "reverse", a, -ledger[i].delta)
                              EXCEPT !.ref = i])
    /\ UNCHANGED <<documents, books, reservations, transactions>>

\* The balance is written before createReversal, which refuses to reverse a
\* reversal; the write that should take it back carries the old revision
\* and is refused in turn.
ReverseEntry(o) ==
  LET e == op[o] IN
  /\ e.pc = "reverse"
  /\ Credit(e.a, e.n)
  /\ IF ledger[e.ref].kind # "reversal"
     THEN Append1(Entry(e.a, e.n, "reversal", o, 0, e.ref)) /\ Goto(o, "book")
     ELSE End(o) /\ UNCHANGED books
  /\ UNCHANGED <<receipt, reservations, transactions, todo, isolated, faults>>

----------------------------------------------------------------------------
\* Failures of the snapshots, and the writes behind the commands' backs.

BookFails(o) ==
  /\ op[o].pc = "book"
  /\ Fails("flush")
  /\ saved' \in {saved, ledger}
  /\ End(o)
  /\ UNCHANGED <<documents, ledger, reservations, transactions, todo, isolated>>

KeepFails(o) ==
  /\ op[o].pc = "keep"
  /\ Fails("flush")
  /\ resvSaved' \in {resvSaved, resv}
  /\ End(o)
  /\ UNCHANGED <<documents, books, resv, transactions, todo, isolated>>

\* #schedulePersist of the three stores: it matters to a crash to come.
Persist ==
  /\ crashes < MaxCrashes
  /\ \/ saved # ledger /\ FlushLedger /\ UNCHANGED <<resvSaved, txSaved>>
     \/ resvSaved # resv /\ FlushReservations /\ UNCHANGED <<saved, txSaved>>
     \/ txSaved # tx /\ txSaved' = tx /\ UNCHANGED <<saved, resvSaved>>
  /\ UNCHANGED <<documents, ledger, resv, tx, op, todo, isolated, faults>>

----------------------------------------------------------------------------
\* Crash, startup and recovery.

\* What commands that have ended left in memory only, or unresolved.
Stray ==
  \/ \E o \in Op : /\ ~Busy(o) /\ o \notin isolated
                  /\ (Unresolved(tx[o]) \/ tx[o] # txSaved[o])
  \/ \E i \in Len(saved) + 1 .. Len(ledger) : ~Busy(ledger[i].by)
  \/ resv # resvSaved

\* rehydrate of the ledger and of the reservations.
Rehydrate == ledger' = saved /\ resv' = resvSaved

\* scanOnStartup marks what is unresolved in the journal and takes its keys.
Scanned(found) ==
  /\ tx' = [o \in Op |-> IF o \in found
                         THEN [txSaved[o] EXCEPT !.state = "needs-recovery"]
                         ELSE txSaved[o]]
  /\ txSaved' = tx'
  /\ isolated' = found

\* The memory is lost; recoverAll goes through what the scan has found.
Crash ==
  LET found == {o \in Op : Unresolved(txSaved[o])} IN
  /\ crashes < MaxCrashes
  /\ \A o \in Op : Busy(o) => op[o].kind \in CrashSafe
  /\ StrayCrash \/ ~Stray
  /\ crashes' = crashes + 1
  /\ Rehydrate /\ Scanned(found)
  /\ todo' = found
  /\ op' = [o \in Op |-> IF Busy(o) THEN [Idle EXCEPT !.pc = "done"] ELSE op[o]]
  /\ UNCHANGED <<documents, saved, resvSaved, failures>>

Debited(t) == Bal(t.a) = t.a0 - t.n

Credited(t) == Bal(t.b) = t.b0 + t.m

Booked(book, o) == EntriesOf(book, o, CreditKind(tx[o].kind)) # {}

\* Entries of source type "recovery" of a transaction.
Undone(o, a) ==
  \E i \in EntriesOf(ledger, o, "adjustment") : ledger[i].acct = a

Next1(o) == o \in todo /\ \A p \in todo : o <= p

\* Mutant: the balances alone decide that a move was completed.
ReconcileByBalance(o) ==
  LET t == tx[o] IN
  /\ Next1(o) /\ t.state = "needs-recovery"
  /\ IF Debited(t) /\ Credited(t)
     THEN /\ TxEnds(o, "committed") /\ txSaved' = tx'
          /\ todo' = todo \ {o} /\ isolated' = isolated \ {o}
     ELSE TxEnds(o, "compensating") /\ UNCHANGED <<txSaved, todo, isolated>>
  /\ UNCHANGED <<documents, books, reservations, op, faults>>

\* Both entries and both balances are there: the move is committed.
ReconcileMove(o) ==
  LET t == tx[o] IN
  /\ Next1(o) /\ t.state = "needs-recovery"
  /\ IF Booked(ledger, o) /\ Debited(t) /\ Credited(t)
     THEN /\ TxEnds(o, "committed") /\ txSaved' = tx'
          /\ todo' = todo \ {o} /\ isolated' = isolated \ {o}
     ELSE TxEnds(o, "compensating") /\ UNCHANGED <<txSaved, todo, isolated>>
  /\ UNCHANGED <<documents, books, reservations, op, faults>>

\* An account that has the balance the move gave it gets its old one back;
\* source before target, both in one write for a conversion.
RestoreBalances(o) ==
  LET t == tx[o]
      source == Debited(t)
      target == Credited(t) /\ (source => t.kind = "convert")
  IN /\ Next1(o) /\ t.state = "compensating" /\ (source \/ target)
     /\ account' = [account EXCEPT ![t.a].bal = IF source THEN t.a0 ELSE @,
                                   ![t.b].bal = IF target THEN t.b0 ELSE @]
     /\ UNCHANGED <<receipt, books, reservations, transactions, op, todo, isolated,
                    faults>>

\* Entries that exist are taken back by opposite ones, once.
BookRestored(o) ==
  LET t == tx[o]
      back(a, n) == IF Booked(ledger, o) /\ ~Undone(o, a)
                    THEN <<Entry(a, n, "adjustment", o, 0, 0)>> ELSE <<>>
  IN /\ Next1(o) /\ t.state = "compensating"
     /\ ~Debited(t) /\ ~Credited(t)
     /\ ledger' = ledger \o back(t.a, t.n) \o back(t.b, -t.m)
     /\ saved' = ledger'
     /\ TxEnds(o, "compensated") /\ UNCHANGED txSaved
     /\ UNCHANGED <<documents, reservations, op, todo, isolated, faults>>

\* The state is flushed and the keys are released.
Recovered(o) ==
  /\ Next1(o) /\ tx[o].state = "compensated"
  /\ txSaved' = tx
  /\ todo' = todo \ {o} /\ isolated' = isolated \ {o}
  /\ UNCHANGED <<documents, books, reservations, tx, op, faults>>

\* A compensator that fails leaves the keys with recovery.
RecoveryFails(o) ==
  /\ Next1(o) /\ tx[o].state = "compensating" /\ (Debited(tx[o]) \/ Credited(tx[o]))
  /\ Fails("write")
  /\ TxEnds(o, "needs-recovery") /\ txSaved' = tx'
  /\ todo' = todo \ {o}
  /\ UNCHANGED <<documents, books, reservations, op, isolated>>

Recover(o) ==
  \/ ReconcileMove(o) \/ RestoreBalances(o) \/ BookRestored(o)
  \/ Recovered(o) \/ RecoveryFails(o)

----------------------------------------------------------------------------

Begin(o) ==
  \/ StartTransfer(o) \/ StartConvert(o) \/ StartAdjust(o) \/ StartKeyed(o)
  \/ StartCreate(o) \/ StartClose(o) \/ Reserve(o) \/ StartConsume(o)
  \/ Release(o) \/ StartReverse(o)

Continue(o) ==
  \/ TxFlushed(o) \/ TxFlushFails(o) \/ DebitSource(o) \/ DebitFails(o)
  \/ CreditTarget(o) \/ CreditFails(o) \/ RollbackSource(o)
  \/ RollbackFails(o) \/ Exchange(o) \/ MoveBooked(o) \/ TxClosed(o)
  \/ Apply(o) \/ WriteFails(o) \/ AdjustBooked(o) \/ KeyedBooked(o)
  \/ Confirm(o) \/ CompensateAdjustment(o) \/ CreateAccount(o)
  \/ CloseAccount(o) \/ Spend(o) \/ SpendFails(o) \/ ConsumeBooked(o)
  \/ Kept(o) \/ Refund(o) \/ RefundBooked(o) \/ Restore(o)
  \/ ReverseEntry(o) \/ BookFails(o) \/ KeepFails(o)

Init ==
  /\ account = [a \in Acct |->
       IF Opening[a] = -1 THEN [status |-> "none", bal |-> 0]
       ELSE [status |-> "active", bal |-> Opening[a]]]
  /\ receipt = [r \in Ref |-> "none"]
  /\ ledger = <<>> /\ saved = <<>>
  /\ resv = [o \in Op |-> NoResv] /\ resvSaved = resv
  /\ tx = [o \in Op |-> NoTx] /\ txSaved = tx
  /\ op = [o \in Op |-> Idle]
  /\ todo = {} /\ isolated = {}
  /\ failures = 0 /\ crashes = 0

Next ==
  \/ \E o \in Op : Begin(o) \/ Continue(o) \/ Recover(o)
  \/ Persist
  \/ Crash

Spec == Init /\ [][Next]_vars

----------------------------------------------------------------------------
\* Properties.

TypeOK ==
  /\ \A a \in Acct : /\ account[a].status \in {"none", "active", "closed"}
                     /\ Bal(a) \in Nat
  /\ receipt \in [Ref -> {"none", "applied", "confirmed"}]
  /\ \A i \in DOMAIN ledger : /\ ledger[i].acct \in Acct
                              /\ ledger[i].rev \in 0 .. i - 1
  /\ IsPrefix(saved, ledger)
  /\ \A o \in Op : Unresolved(tx[o]) => tx[o].a \in Acct /\ tx[o].b \in Acct
  /\ todo \subseteq isolated /\ isolated \subseteq Op

\* What the entries at the positions in I add up to.
Net(I) == SumFunction([i \in I |-> ledger[i].delta])

\* What the entries of an account since the start add up to.
Sum(a) == Net({i \in DOMAIN ledger : ledger[i].acct = a})

Base(a) == IF Opening[a] = -1 THEN 0 ELSE Opening[a]

Quiet(a) ==
  /\ todo = {} /\ Free(a[1])
  /\ \A o \in Op : Unresolved(tx[o]) => a \notin {tx[o].a, tx[o].b}
  /\ \A k \in DOMAIN Keyed : Keyed[k].acct = a =>
       receipt[k] # "applied" /\ receipt[-k] # "applied"

\* The balance of an account nothing is happening to is what its ledger
\* entries add up to: every write has its entry and every entry its write,
\* through rollbacks, restores, restarts and recoveries.
BooksAgree == \A a \in Acct : Quiet(a) => Bal(a) = Base(a) + Sum(a)

\* A committed move has both its entries and none against them; one that
\* failed or was compensated has no effect on the sum of either account.
MovesBooked ==
  \A o \in Op :
    LET t == tx[o]
        net(a) == Net({i \in DOMAIN ledger : ledger[i].by = o /\ ledger[i].acct = a})
    IN /\ t.state = "committed" => net(t.a) = -t.n /\ net(t.b) = t.m
       /\ t.state \in {"failed", "compensated"} => net(t.a) = 0 /\ net(t.b) = 0

\* Accounts and ledger are of their types, and moves are booked whole or not
\* at all.
Consistent == TypeOK /\ MovesBooked

\* A key of a parent command has its effect once, whatever is retried after
\* a crash: one entry at most, and one if its receipt is confirmed.
KeyedOnce ==
  \A r \in Ref : /\ Cardinality(RefEntries(r)) <= 1
                 /\ receipt[r] = "confirmed" => RefEntries(r) # {}

\* Refinement.  A move counts once its entries are durable; until then its
\* writes are set aside, and so is a consumption that waits for its write.
InFlight(o) ==
  /\ Unresolved(tx[o]) /\ (Busy(o) \/ o \in isolated)
  /\ ~Booked(saved, o)

Settled ==
  [a \in Acct |->
     Bal(a)
     + MapThenSumSet(LAMBDA o : tx[o].n,
         {o \in Op : InFlight(o) /\ tx[o].a = a /\ Debited(tx[o])})
     - MapThenSumSet(LAMBDA o : tx[o].m,
         {o \in Op : InFlight(o) /\ tx[o].b = a /\ Credited(tx[o])})]

\* Amounts that are between a reservation and its command: to be spent, to
\* be restored, or released as long as the parent may restore them.
Keeping(e) ==
  \/ e.pc = "spend"
  \/ e.kind = "refund" /\ e.pc \in {"book", "restore"}
  \/ e.kind = "release" /\ e.pc \in {"keep", "restore"}

Held ==
  [a \in Acct |->
     Reserved(a)
     + MapThenSumSet(LAMBDA o : op[o].n,
         {o \in Op : Keeping(op[o]) /\ op[o].a = a})]

EconomyBank == INSTANCE Bank WITH Account <- Acct, funds <- Settled, held <- Held

\* The accounts behave as a bank in which each command is one step.
ImplementsBank == EconomyBank!Spec
===============================================================================
