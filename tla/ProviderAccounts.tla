--------------------------- MODULE ProviderAccounts ---------------------------
(***************************************************************************)
(* Accounts whose balance a provider keeps: the provider branch of         *)
(* commitAdjust, compensateProviderAdjustment and the compensator          *)
(* economy:provider-adjust (src/economy/services/economy-service.ts) over  *)
(* the ManualCurrencyProvider, whose operations are repeatable by their    *)
(* reference, the ledger and the transaction journal.                      *)
(*                                                                         *)
(* An adjustment of its own has a transaction record.  One that is a step  *)
(* of a parent command has none: the parent compensates it, at once or     *)
(* after a restart, and again if that failed.  An action is the code       *)
(* between two awaits; commands hold the key of their Domain.              *)
(***************************************************************************)
EXTENDS Integers, Sequences, FiniteSets, Functions

CONSTANTS
  Acct,        \* one account in each Domain
  Opening,     \* balances at the provider
  Ops,         \* number of commands
  Delta,       \* amounts of adjustments
  Step,        \* steps of parents: account and amount, by their reference
  Failing,     \* what may fail: "refused", "unknown", "flush"
  StrayCrash,  \* TRUE: a crash may follow a compensation that flushed nothing
  MaxFailures, MaxCrashes

Op == 1 .. Ops

\* An operation and its compensation, operationRef and `${ref}:compensation`.
Ref == Op \cup DOMAIN Step

Undo(ref) == -ref

ASSUME ProviderAssumption ==
  /\ Opening \in [Acct -> Nat] /\ Ops \in Nat /\ Delta \subseteq Int \ {0}
  /\ DOMAIN Step \cap Op = {} /\ DOMAIN Step \subseteq Nat \ {0}
  /\ IsFiniteSet(DOMAIN Step)
  /\ \A k \in DOMAIN Step : Step[k].acct \in Acct /\ Step[k].n \in Int \ {0}
  /\ StrayCrash \in BOOLEAN /\ MaxFailures \in Nat /\ MaxCrashes \in Nat

VARIABLES
  prov, provSaved,   \* the provider: balances and operations
  ledger, saved,     \* entries of the ledger
  tx, txSaved,       \* transactions of adjustments
  parent,            \* the parents: unresolved ("open") until the step stands
                     \* or is compensated
  op, todo, isolated, failures, crashes

provider == <<prov, provSaved>>
books == <<ledger, saved>>
journal == <<tx, txSaved>>
faults == <<failures, crashes>>
vars == <<provider, books, journal, parent, op, todo, isolated, faults>>

Idle == [pc |-> "idle", ref |-> 0, a |-> 0, n |-> 0]

Busy(o) == op[o].pc \notin {"idle", "done"}

Free(a) ==
  /\ \A o \in Op : Busy(o) => op[o].a # a
  /\ \A o \in isolated : tx[o].a # a

Final == {"none", "committed", "compensated", "failed"}

Goto(o, pc) == op' = [op EXCEPT ![o].pc = pc]

End(o) == op' = [op EXCEPT ![o] = [Idle EXCEPT !.pc = "done"]]

Fails(what) ==
  /\ what \in Failing /\ failures < MaxFailures
  /\ failures' = failures + 1
  /\ UNCHANGED crashes

----------------------------------------------------------------------------
\* The provider and the ledger.

Written(ref) == ref \in prov.done

\* mutateCurrency: a known operation has no second effect.
Mutate(a, n, ref) ==
  prov' = IF Written(ref) THEN prov
          ELSE [bal |-> [prov.bal EXCEPT ![a] = @ + n],
                done |-> prov.done \cup {ref}]

EntriesBy(book, ref) == {i \in DOMAIN book : book[i].ref = ref}

Present(ref) == EntriesBy(ledger, ref) # {}

Entry(a, n, o, ref) == <<[acct |-> a, n |-> n, tx |-> o, ref |-> ref]>>

FlushLedger == saved' = ledger

\* The balances and the operations are one snapshot.
FlushProvider == provSaved' = prov

\* Mutant: what the provider wrote is taken to be in the ledger.
OutcomeByProvider(ref) ==
  CASE Written(ref) -> "fully-applied"
    [] ~Written(ref) /\ Present(ref) -> "ledger-only"
    [] OTHER -> "not-applied"

\* reconcileProviderAdjustment.
Outcome(ref) ==
  CASE Written(ref) /\ Present(ref) -> "fully-applied"
    [] Written(ref) /\ ~Present(ref) -> "provider-only"
    [] ~Written(ref) /\ Present(ref) -> "ledger-only"
    [] OTHER -> "not-applied"

----------------------------------------------------------------------------
\* commitAdjust.

Start(o, pc, ref, a, n) ==
  /\ todo = {} /\ op[o].pc = "idle" /\ \A p \in 1 .. o - 1 : op[p].pc # "idle"
  /\ Free(a)
  /\ op' = [op EXCEPT ![o] = [pc |-> pc, ref |-> ref, a |-> a, n |-> n]]
  /\ UNCHANGED <<provider, books, txSaved, todo, isolated, faults>>

\* A debit is checked against the balance the provider reports.
Covered(a, n) == n < 0 => prov.bal[a] + n >= 0

StartAdjust(o) ==
  \E a \in Acct, n \in Delta :
    /\ Covered(a, n)
    /\ Start(o, "journal", o, a, n)
    /\ tx' = [tx EXCEPT ![o] = [state |-> "committing", a |-> a, n |-> n]]
    /\ UNCHANGED parent

\* A step of a parent (recoveryOwner "parent") has no record of its own; its
\* key is found in the ledger if it was applied before.
StartStep(o) ==
  \E k \in DOMAIN Step :
    /\ parent[k] = "none" /\ ~Present(k)
    /\ Covered(Step[k].acct, Step[k].n)
    /\ Start(o, "mutate", k, Step[k].acct, Step[k].n)
    /\ parent' = [parent EXCEPT ![k] = "open"]
    /\ UNCHANGED tx

\* The parent is recovered: its step is compensated (again).
StartUndo(o) ==
  \E k \in DOMAIN Step :
    /\ parent[k] = "open"
    /\ Start(o, "undo", k, Step[k].acct, Step[k].n)
    /\ UNCHANGED <<tx, parent>>

Own(o) == op[o].ref = o

Becomes(o, state) ==
  tx' = IF Own(o) THEN [tx EXCEPT ![o].state = state] ELSE tx

\* What follows an error: the record is flushed, or the parent compensates.
AfterError(o) ==
  IF Own(o) THEN Goto(o, "close") ELSE Goto(o, "undo") \/ End(o)

Journalled(o) ==
  /\ op[o].pc = "journal"
  /\ txSaved' = tx /\ Goto(o, "mutate")
  /\ UNCHANGED <<provider, books, tx, parent, todo, isolated, faults>>

JournalFails(o) ==
  /\ op[o].pc \in {"journal", "close"}
  /\ Fails("flush")
  /\ txSaved' \in {txSaved, tx} /\ End(o)
  /\ UNCHANGED <<provider, books, tx, parent, todo, isolated>>

MutateBalance(o) ==
  /\ op[o].pc = "mutate"
  /\ Mutate(op[o].a, op[o].n, op[o].ref)
  /\ Goto(o, "append")
  /\ UNCHANGED <<provSaved, books, journal, parent, todo, isolated, faults>>

\* A definite failure, before anything is written.
MutateRefused(o) ==
  /\ op[o].pc = "mutate"
  /\ Fails("refused")
  /\ Becomes(o, "failed") /\ AfterError(o)
  /\ UNCHANGED <<provider, books, txSaved, parent, todo, isolated>>

\* The call throws or times out: the provider may have written or not.
MutateUnknown(o) ==
  /\ op[o].pc = "mutate"
  /\ Fails("unknown")
  /\ Mutate(op[o].a, op[o].n, op[o].ref) \/ UNCHANGED prov
  /\ Becomes(o, "needs-recovery") /\ AfterError(o)
  /\ UNCHANGED <<provSaved, books, txSaved, parent, todo, isolated>>

AppendEntry(o) ==
  /\ op[o].pc = "append"
  /\ ledger' = ledger \o Entry(op[o].a, op[o].n, o, op[o].ref)
  /\ Goto(o, "book")
  /\ UNCHANGED <<provider, saved, journal, parent, todo, isolated, faults>>

Book(o) ==
  /\ op[o].pc = "book"
  /\ FlushLedger /\ Goto(o, "flush provider")
  /\ UNCHANGED <<provider, ledger, journal, parent, todo, isolated, faults>>

BookFails(o) ==
  /\ op[o].pc = "book"
  /\ Fails("flush")
  /\ saved' \in {saved, ledger}
  /\ Becomes(o, "needs-recovery") /\ AfterError(o)
  /\ UNCHANGED <<provider, ledger, txSaved, parent, todo, isolated>>

\* The parent of a step goes on, or fails later and compensates.
ProviderFlushed(o) ==
  /\ op[o].pc = "flush provider"
  /\ FlushProvider /\ Becomes(o, "committed")
  /\ \/ Own(o) /\ Goto(o, "close") /\ UNCHANGED parent
     \/ ~Own(o) /\ Goto(o, "undo") /\ UNCHANGED parent
     \/ ~Own(o) /\ End(o) /\ parent' = [parent EXCEPT ![op[o].ref] = "closed"]
  /\ UNCHANGED <<prov, books, txSaved, todo, isolated, faults>>

ProviderFlushFails(o) ==
  /\ op[o].pc = "flush provider"
  /\ Fails("flush")
  /\ provSaved' \in {provSaved, prov}
  /\ Becomes(o, "needs-recovery") /\ AfterError(o)
  /\ UNCHANGED <<prov, books, txSaved, parent, todo, isolated>>

Close(o) ==
  /\ op[o].pc = "close"
  /\ txSaved' = tx /\ End(o)
  /\ UNCHANGED <<provider, books, tx, parent, todo, isolated, faults>>

----------------------------------------------------------------------------
\* compensateProviderAdjustment, by what reconciliation finds.

Settle(o) == parent' = [parent EXCEPT ![op[o].ref] = "closed"]

UndoNothing(o) ==
  /\ op[o].pc = "undo" /\ Outcome(op[o].ref) = "not-applied"
  /\ End(o) /\ Settle(o)
  /\ UNCHANGED <<provider, books, journal, todo, isolated, faults>>

\* The provider wrote and the ledger did not: the original entry first.
UndoRebuild(o) ==
  /\ op[o].pc = "undo" /\ Outcome(op[o].ref) = "provider-only"
  /\ ledger' = ledger \o Entry(op[o].a, op[o].n, o, op[o].ref)
  /\ Goto(o, "rebuild")
  /\ UNCHANGED <<provider, saved, journal, parent, todo, isolated, faults>>

Rebuilt(o) ==
  /\ op[o].pc = "rebuild"
  /\ FlushLedger /\ Goto(o, "undo")
  /\ UNCHANGED <<provider, ledger, journal, parent, todo, isolated, faults>>

UndoMutates(o) ==
  /\ op[o].pc = "undo" /\ Outcome(op[o].ref) = "fully-applied"
  /\ ~Written(Undo(op[o].ref))

UndoMutate(o) ==
  /\ UndoMutates(o)
  /\ Mutate(op[o].a, -op[o].n, Undo(op[o].ref))
  /\ Goto(o, "undo flush")
  /\ UNCHANGED <<provSaved, books, journal, parent, todo, isolated, faults>>

UndoRefused(o) ==
  /\ UndoMutates(o)
  /\ \/ Fails("refused") /\ UNCHANGED prov
     \/ Fails("unknown") /\ Mutate(op[o].a, -op[o].n, Undo(op[o].ref))
  /\ End(o)
  /\ UNCHANGED <<provSaved, books, journal, parent, todo, isolated>>

UndoFlushed(o) ==
  /\ op[o].pc = "undo flush"
  /\ FlushProvider /\ Goto(o, "undo")
  /\ UNCHANGED <<prov, books, journal, parent, todo, isolated, faults>>

\* The provider is compensated, or never wrote: the entry that compensates.
CompensationDue(o) ==
  /\ op[o].pc = "undo"
  /\ \/ Outcome(op[o].ref) = "fully-applied" /\ Written(Undo(op[o].ref))
     \/ Outcome(op[o].ref) = "ledger-only"

\* Mutant: a compensation tried again appends its entry again.
UndoAppendAgain(o) ==
  /\ CompensationDue(o)
  /\ ledger' = ledger \o Entry(op[o].a, -op[o].n, o, Undo(op[o].ref))
  /\ Goto(o, "undo book")
  /\ UNCHANGED <<provider, saved, journal, parent, todo, isolated, faults>>

UndoAppend(o) ==
  /\ CompensationDue(o) /\ ~Present(Undo(op[o].ref))
  /\ ledger' = ledger \o Entry(op[o].a, -op[o].n, o, Undo(op[o].ref))
  /\ Goto(o, "undo book")
  /\ UNCHANGED <<provider, saved, journal, parent, todo, isolated, faults>>

UndoBooked(o) ==
  /\ \/ op[o].pc = "undo book" /\ FlushLedger
     \/ CompensationDue(o) /\ Present(Undo(op[o].ref)) /\ UNCHANGED saved
  /\ End(o) /\ Settle(o)
  /\ UNCHANGED <<provider, ledger, journal, todo, isolated, faults>>

UndoFlushFails(o) ==
  /\ op[o].pc \in {"rebuild", "undo flush", "undo book"}
  /\ Fails("flush")
  /\ IF op[o].pc = "undo flush"
     THEN provSaved' \in {provSaved, prov} /\ UNCHANGED saved
     ELSE saved' \in {saved, ledger} /\ UNCHANGED provSaved
  /\ End(o)
  /\ UNCHANGED <<prov, ledger, journal, parent, todo, isolated>>

----------------------------------------------------------------------------
\* economy:provider-adjust, one unresolved transaction after another.

Resolved(o, state) ==
  /\ tx' = [tx EXCEPT ![o].state = state]
  /\ txSaved' = tx'
  /\ todo' = todo \ {o}
  /\ UNCHANGED isolated

\* Mutant: an entry of the ledger is enough to call it committed.
RecoverByEntry(o) ==
  /\ o \in todo /\ op[o].pc = "done" /\ Present(o)
  /\ Resolved(o, "committed")
  /\ UNCHANGED <<provider, books, parent, op, faults>>

RecoverPresent(o) ==
  /\ o \in todo /\ op[o].pc = "done" /\ Present(o) /\ Written(o)
  /\ Resolved(o, "committed")
  /\ UNCHANGED <<provider, books, parent, op, faults>>

\* Only the ledger has it: the entry that compensates, unless an earlier
\* recovery that was cut off has left it (hasCompensatingReversal).
RecoverUnwritten(o) ==
  /\ o \in todo /\ op[o].pc = "done" /\ Present(o) /\ ~Written(o)
  /\ IF Present(Undo(o))
     THEN Goto(o, "failed") /\ UNCHANGED ledger
     ELSE /\ Goto(o, "unbook")
          /\ ledger' = ledger \o Entry(tx[o].a, -tx[o].n, o, Undo(o))
  /\ UNCHANGED <<provider, saved, journal, parent, todo, isolated, faults>>

RecoverAbsent(o) ==
  /\ o \in todo /\ op[o].pc = "done" /\ ~Present(o) /\ ~Written(o)
  /\ Resolved(o, "failed")
  /\ UNCHANGED <<provider, books, parent, op, faults>>

RecoverRevert(o) ==
  /\ o \in todo /\ op[o].pc = "done" /\ ~Present(o) /\ Written(o)
  /\ ledger' = ledger \o Entry(tx[o].a, tx[o].n, o, o)
  /\ Mutate(tx[o].a, -tx[o].n, Undo(o))
  /\ Goto(o, "revert")
  /\ UNCHANGED <<provSaved, saved, journal, parent, todo, isolated, faults>>

RevertFlushed(o) ==
  /\ op[o].pc = "revert"
  /\ FlushProvider
  /\ ledger' = ledger \o Entry(tx[o].a, -tx[o].n, o, Undo(o))
  /\ Goto(o, "reverted")
  /\ UNCHANGED <<prov, saved, journal, parent, todo, isolated, faults>>

\* The entry that compensates is flushed, and then what became of it.
ReversalBooked(o) ==
  /\ op[o].pc \in {"unbook", "reverted"}
  /\ FlushLedger
  /\ Goto(o, IF op[o].pc = "unbook" THEN "failed" ELSE "compensated")
  /\ UNCHANGED <<provider, ledger, journal, parent, todo, isolated, faults>>

RecoveryEnds(o) ==
  /\ op[o].pc \in {"failed", "compensated"}
  /\ Resolved(o, op[o].pc) /\ Goto(o, "done")
  /\ UNCHANGED <<provider, books, parent, faults>>

\* The transaction stays unresolved and keeps its keys.
RecoverFails(o) ==
  /\ o \in todo
  /\ \/ op[o].pc = "done" /\ Fails("unknown") /\ UNCHANGED <<provSaved, saved>>
     \/ /\ op[o].pc = "revert" /\ Fails("flush")
        /\ provSaved' \in {provSaved, prov} /\ UNCHANGED saved
     \/ /\ op[o].pc \in {"unbook", "reverted"} /\ Fails("flush")
        /\ saved' \in {saved, ledger} /\ UNCHANGED provSaved
  /\ Goto(o, "done")
  /\ todo' = todo \ {o} /\ isolated' = isolated \cup {o}
  /\ UNCHANGED <<prov, ledger, journal, parent>>

----------------------------------------------------------------------------
\* Snapshots written in the background, and the restart.

Persist ==
  /\ crashes < MaxCrashes
  /\ \/ provSaved # prov /\ FlushProvider /\ UNCHANGED <<saved, txSaved>>
     \/ saved # ledger /\ FlushLedger /\ UNCHANGED <<provSaved, txSaved>>
     \/ txSaved # tx /\ txSaved' = tx /\ UNCHANGED <<provSaved, saved>>
  /\ UNCHANGED <<prov, ledger, tx, parent, op, todo, isolated, faults>>

Unresolved == {"committing", "needs-recovery"}

\* Memory holds a compensation that succeeded and that no snapshot has.
Stray ==
  \E k \in DOMAIN Step :
    /\ parent[k] = "closed"
    /\ \/ Written(Undo(k)) /\ Undo(k) \notin provSaved.done
       \/ Present(Undo(k)) /\ EntriesBy(saved, Undo(k)) = {}

Crash ==
  /\ crashes < MaxCrashes /\ crashes' = crashes + 1
  /\ StrayCrash \/ ~Stray
  /\ prov' = provSaved /\ ledger' = saved
  /\ tx' = [o \in Op |-> IF txSaved[o].state \in Unresolved
                         THEN [txSaved[o] EXCEPT !.state = "needs-recovery"]
                         ELSE txSaved[o]]
  /\ todo' = {o \in Op : tx'[o].state = "needs-recovery"}
  /\ isolated' = {}
  /\ op' = [o \in Op |-> IF op[o].pc = "idle" THEN op[o]
                         ELSE [Idle EXCEPT !.pc = "done"]]
  /\ UNCHANGED <<provSaved, saved, txSaved, parent, failures>>

----------------------------------------------------------------------------
Init ==
  /\ prov = [bal |-> Opening, done |-> {}] /\ provSaved = prov
  /\ ledger = <<>> /\ saved = <<>>
  /\ tx = [o \in Op |-> [state |-> "none", a |-> 0, n |-> 0]] /\ txSaved = tx
  /\ parent = [k \in DOMAIN Step |-> "none"]
  /\ op = [o \in Op |-> Idle]
  /\ todo = {} /\ isolated = {} /\ failures = 0 /\ crashes = 0

Adjusting(o) ==
  \/ StartAdjust(o) \/ StartStep(o) \/ Journalled(o) \/ JournalFails(o)
  \/ MutateBalance(o) \/ MutateRefused(o) \/ MutateUnknown(o)
  \/ AppendEntry(o) \/ Book(o) \/ BookFails(o)
  \/ ProviderFlushed(o) \/ ProviderFlushFails(o) \/ Close(o)

Undoing(o) ==
  \/ StartUndo(o) \/ UndoNothing(o) \/ UndoRebuild(o) \/ Rebuilt(o)
  \/ UndoMutate(o) \/ UndoRefused(o) \/ UndoFlushed(o)
  \/ UndoAppend(o) \/ UndoBooked(o) \/ UndoFlushFails(o)

Recovering(o) ==
  \/ RecoverPresent(o) \/ RecoverUnwritten(o) \/ RecoverAbsent(o)
  \/ RecoverRevert(o) \/ RevertFlushed(o) \/ ReversalBooked(o)
  \/ RecoveryEnds(o) \/ RecoverFails(o)

Next ==
  \/ \E o \in Op : Adjusting(o) \/ Undoing(o) \/ Recovering(o)
  \/ Persist \/ Crash

Spec == Init /\ [][Next]_vars

----------------------------------------------------------------------------
TypeOK ==
  /\ \A p \in {prov, provSaved} :
       p.bal \in [Acct -> Int] /\ p.done \subseteq Ref \cup {Undo(k) : k \in Ref}
  /\ \A b \in {ledger, saved} :
       b \in Seq([acct : Acct, n : Int, tx : Op,
                  ref : Ref \cup {Undo(k) : k \in Ref}])
  /\ \A t \in {tx, txSaved} : \A o \in Op :
       t[o].state \in Final \cup Unresolved
  /\ parent \in [DOMAIN Step -> {"none", "open", "closed"}]
  /\ isolated \subseteq Op /\ todo \subseteq Op
  /\ todo # {} => \A o \in Op : Busy(o) => o \in todo

\* What the entries at the positions in I add up to.
Net(I) == SumFunction([i \in I |-> ledger[i].n])

NetBy(ref) == Net(EntriesBy(ledger, ref) \cup EntriesBy(ledger, Undo(ref)))

Booked(a) == Net({i \in DOMAIN ledger : ledger[i].acct = a})

\* Nothing on the account awaits an end: a command, a recovery, a parent.
Quiet(a) ==
  /\ todo = {} /\ Free(a)
  /\ \A o \in Op : tx[o].state \in Unresolved => tx[o].a # a
  /\ \A k \in DOMAIN Step : parent[k] = "open" => Step[k].acct # a

\* The balance the provider reports for an account at rest is its opening
\* balance and the entries of the ledger, whatever call of the provider or
\* flush failed and wherever the client stopped.
ProviderAgrees ==
  \A a \in Acct : Quiet(a) => prov.bal[a] = Opening[a] + Booked(a)

\* No operation is booked twice, whoever books it: the command, the
\* compensation that rebuilds its entry, or the recovery after a restart.
BookedOnce ==
  \A ref \in Ref \cup {Undo(k) : k \in Ref} :
    Cardinality(EntriesBy(ledger, ref)) <= 1

\* Provider, ledger and journal are of their types, and nothing is booked
\* twice.
Consistent == TypeOK /\ BookedOnce

\* The journal tells the truth about the provider: a committed adjustment is
\* written there and was not compensated, any other end left nothing of it.
AdjustResolved ==
  todo = {} => \A o \in Op :
    /\ tx[o].state = "committed" =>
         Written(o) /\ ~Written(Undo(o)) /\ NetBy(o) = tx[o].n
    /\ tx[o].state \in {"failed", "compensated"} /\ ~Busy(o) =>
         (Written(o) => Written(Undo(o))) /\ NetBy(o) = 0
===============================================================================
