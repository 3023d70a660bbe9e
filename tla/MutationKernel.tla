---------------------------- MODULE MutationKernel ----------------------------
(***************************************************************************)
(* Composite transactions of the Primary Authority: MutationCoordinator    *)
(* .execute (src/mutations/mutation-coordinator.ts) around a               *)
(* CompositeMutationSession (composite-mutation-session.ts) that runs its  *)
(* child steps, writes the parent document and commits, as the plan of     *)
(* projects:start does (project-start-domain-operation-plan.ts), with the  *)
(* TransactionStore and its durable snapshot (transaction-store.ts), the   *)
(* RecoveryFenceRegistry and the RecoveryService that scans for unresolved *)
(* transactions and recovers them.                                         *)
(*                                                                         *)
(* A command makes one transaction, so a Tx is both.  An action is the     *)
(* code between two awaits; every await of a flush is a state of its own,  *)
(* in which other sessions run and the client may crash.  A flush writes   *)
(* the records of the whole store.  It may fail without writing, and it    *)
(* may report the failure of an earlier write although its own went        *)
(* through (#lastPersistError).                                            *)
(*                                                                         *)
(* A child effect (a debit, a reservation of the economy) is atomic and,   *)
(* by its operationRef, applied and undone at most once: the services are  *)
(* outside this module.  So is the order in which the LockManager serves   *)
(* waiters: here a command that waits is granted when the keys are free.   *)
(***************************************************************************)
EXTENDS Integers, FiniteSets

CONSTANTS
  Tx,               \* commands and their transactions
  Key,              \* lock keys
  KeysOf,           \* the keys a command locks
  Steps,            \* child steps of a transaction
  LiveScan,         \* whether the recovery scan also runs beside sessions and
                    \* recoveries: TRUE, FALSE, or both are considered
  MaxFaults,        \* bound on the failures of storage and services
  MaxCrashes,       \* bound on the crashes
  MaxFailures,      \* bound on failures and crashes together, with and without
                    \* such scans
  LateParentError   \* TRUE: a parent write may be applied and then fail

ASSUME KernelAssumption ==
  /\ KeysOf \in [Tx -> SUBSET Key]
  /\ \A t \in Tx : KeysOf[t] # {}
  /\ Steps \in Nat \ {0} /\ MaxFaults \in Nat
  /\ MaxCrashes \in Nat /\ MaxFailures \in [BOOLEAN -> Nat]
  /\ LiveScan \in SUBSET BOOLEAN \ {{}} /\ LateParentError \in BOOLEAN

VARIABLES
  record,    \* the TransactionStore in memory
  disk,      \* its durable snapshot
  undo,      \* the record a durable operation restores when its flush fails
  journal,   \* the steps of the session
  pc,        \* where the command, its session or its recovery is
  effect,    \* the child effects
  parent,    \* transactions whose parent document is written
  holder,    \* who holds the keys of a transaction
  pending,   \* pendingLockAcquisitions
  fences,    \* transactions with a recovery fence
  answer,    \* the receipt of the command
  scan,      \* the recovery scan
  enabled,   \* FALSE in safe mode
  live,      \* the scan runs beside sessions and recoveries
  faults, crashes

storage == <<record, disk, undo>>
recovery == <<holder, pending, fences, scan, enabled>>
world == <<live, crashes>>
vars == <<storage, journal, pc, effect, parent, recovery, answer,
          faults, world>>

Step == 1 .. Steps

Final == {"committed", "compensated", "failed"}

Unresolved(r) == r.state \notin Final \cup {"absent"}

\* Steps that may have had their effect: what a compensator undoes.
Compensable == {"executing", "applied", "unknown"}

\* planned and claimed last no longer than one run to completion here: the
\* session saves both states before it lets go of the thread.
ValidTransitions ==
  [absent |-> {},
   prepared |-> {"committing", "compensating", "failed", "needs-recovery"},
   committing |-> {"committed", "needs-recovery", "compensating", "failed"},
   committed |-> {"needs-recovery"},
   recovering |-> {"compensating", "committing", "compensated", "failed",
                   "committed"},
   compensating |-> {"compensated", "committed", "needs-recovery", "failed"},
   compensated |-> {"needs-recovery"},
   failed |-> {}]

State == (DOMAIN ValidTransitions \ {"recovering"}) \cup {"needs-recovery"}

IsValidTransition(from, to) ==
  to \in ValidTransitions[IF from = "needs-recovery" THEN "recovering" ELSE from]

\* transition: an invalid one leaves the record alone.  "reached" is what
\* the history tells a compensator: committing was entered.
Moved(r, to) ==
  IF IsValidTransition(r.state, to)
    THEN [r EXCEPT !.state = to,
                   !.reached = @ \/ to \in {"committing", "committed"}]
    ELSE r

NoSteps == [s \in Step |-> "absent"]

Absent == [state |-> "absent", steps |-> NoSteps, reached |-> FALSE, done |-> {}]

Conflict(t, u) == t # u /\ KeysOf[t] \cap KeysOf[u] # {}

Free(t) == \A u \in Tx : Conflict(t, u) => holder[u] = "none"

NoScan == [phase |-> "off", pass |-> 1, todo |-> {}, waitsFor |-> {},
           changed |-> {}, seen |-> [t \in Tx |-> Absent]]

Init ==
  /\ record = [t \in Tx |-> Absent] /\ disk = record /\ undo = record
  /\ journal = [t \in Tx |-> NoSteps]
  /\ pc = [t \in Tx |-> "idle"]
  /\ effect = [t \in Tx |-> [s \in Step |-> "none"]]
  /\ parent = {}
  /\ holder = [t \in Tx |-> "none"]
  /\ pending = {} /\ fences = {}
  /\ answer = [t \in Tx |-> "none"]
  /\ scan = NoScan /\ enabled = TRUE
  /\ live \in LiveScan /\ faults = 0 /\ crashes = 0

-----------------------------------------------------------------------------
(* Durable operations of the store.                                        *)

\* From its list to the first lock it asks for, and from one lock to the
\* next, the recovery scan has the thread.
ThreadFree == scan.phase # "loop"

At(t, label) == ThreadFree /\ pc[t] = label

Goto(t, label) == pc' = [pc EXCEPT ![t] = label]

\* save; the operation's flush is awaited in pc "label".
SaveAndFlush(t, r, label) ==
  /\ record' = [record EXCEPT ![t] = r]
  /\ undo' = [undo EXCEPT ![t] = record[t]]
  /\ Goto(t, label)
  /\ UNCHANGED disk

Fault ==
  /\ faults < MaxFaults /\ faults + crashes < MaxFailures[live]
  /\ faults' = faults + 1

Written == disk' = record /\ UNCHANGED <<record, faults>>

Flushed(t) == Written /\ undo' = [undo EXCEPT ![t] = record[t]]

FlushFails == Fault /\ disk' \in {disk, record} /\ UNCHANGED undo

Reverted(t) == record' = [record EXCEPT ![t] = undo[t]]

\* The queue of scheduled persists writes on its own time what was saved
\* without a flush.
Persist ==
  /\ disk # record
  /\ disk' = record
  /\ UNCHANGED <<record, undo, journal, pc, effect, parent, recovery, answer,
                 faults, world>>

-----------------------------------------------------------------------------
(* MutationCoordinator.execute: fence, locks, fresh read and plan.         *)

Answer(t, a) == answer' = [answer EXCEPT ![t] = a]

Fenced(t) == \E u \in fences : KeysOf[t] \cap KeysOf[u] # {}

Submit(t) ==
  /\ At(t, "idle") /\ enabled
  /\ IF Fenced(t)
       THEN Goto(t, "done") /\ Answer(t, "rejected")
       ELSE Goto(t, "waiting") /\ UNCHANGED answer
  /\ UNCHANGED <<storage, journal, effect, parent, recovery, faults, world>>

Grant(t) ==
  /\ At(t, "waiting") /\ Free(t)
  /\ holder' = [holder EXCEPT ![t] = "command"]
  /\ Goto(t, "planning")
  /\ UNCHANGED <<storage, journal, effect, parent, pending, fences, scan,
                 enabled, answer, faults, world>>

\* Mutant: no timer is set, the wait for the locks is unbounded.
WaitForever(t) == FALSE /\ At(t, "waiting") /\ UNCHANGED vars

LockTimeout(t) ==
  /\ At(t, "waiting")
  /\ Goto(t, "done") /\ Answer(t, "rejected")
  /\ UNCHANGED <<storage, journal, effect, parent, recovery, faults, world>>

Leave(t, a) ==
  /\ holder' = [holder EXCEPT ![t] = "none"]
  /\ Goto(t, "done") /\ Answer(t, a)
  /\ UNCHANGED <<pending, scan, enabled>>

\* The fresh read, the revisions or the plan's blockers refuse it.
RejectPlan(t) ==
  /\ At(t, "planning")
  /\ Leave(t, "rejected")
  /\ UNCHANGED <<storage, journal, effect, parent, fences, faults, world>>

-----------------------------------------------------------------------------
(* CompositeMutationSession: prepare and the child steps.                  *)

Prepare(t) ==
  /\ At(t, "planning")
  /\ SaveAndFlush(t, [Absent EXCEPT !.state = "prepared"], "preparing")
  /\ UNCHANGED <<journal, effect, parent, recovery, answer, faults, world>>

PrepareFlushed(t) ==
  /\ At(t, "preparing")
  /\ \/ Flushed(t) /\ Goto(t, "running")
     \/ /\ FlushFails
        /\ record' = [record EXCEPT ![t] = Moved(@, "failed")]
        /\ Goto(t, "returning")
  /\ UNCHANGED <<journal, effect, parent, recovery, answer, world>>

Current(t) == CHOOSE s \in Step : journal[t][s] = "executing"

NextStep(t) ==
  CHOOSE s \in Step : /\ journal[t][s] = "absent"
                      /\ \A r \in 1 .. s - 1 : journal[t][r] # "absent"

WithSteps(r, steps) == [r EXCEPT !.steps = steps]

\* The session sets a step of its journal and persists the journal.
Journalled(t, s, state, label) ==
  LET steps == [journal[t] EXCEPT ![s] = state]
  IN  /\ journal' = [journal EXCEPT ![t] = steps]
      /\ SaveAndFlush(t, WithSteps(record[t], steps), label)

\* Mutant: the intent is saved, its flush is not awaited.
StartStepUnflushed(t) ==
  /\ At(t, "running")
  /\ \E s \in Step : journal[t][s] = "absent"
  /\ Journalled(t, NextStep(t), "executing", "executing")
  /\ UNCHANGED <<effect, parent, recovery, answer, faults, world>>

StartStep(t) ==
  /\ At(t, "running")
  /\ \E s \in Step : journal[t][s] = "absent"
  /\ Journalled(t, NextStep(t), "executing", "intent")
  /\ UNCHANGED <<effect, parent, recovery, answer, faults, world>>

IntentFlushed(t) ==
  /\ At(t, "intent")
  /\ \/ Flushed(t) /\ Goto(t, "executing") /\ UNCHANGED journal
     \/ /\ FlushFails /\ Reverted(t)
        /\ journal' = [journal EXCEPT ![t][Current(t)] = "planned"]
        /\ Goto(t, "failing")
  /\ UNCHANGED <<effect, parent, recovery, answer, world>>

\* The service applies the effect, its answer is still to come.
Apply(t) ==
  /\ At(t, "executing") /\ effect[t][Current(t)] = "none"
  /\ effect' = [effect EXCEPT ![t][Current(t)] = "applied"]
  /\ UNCHANGED <<storage, journal, pc, parent, recovery, answer, faults, world>>

StepSucceeds(t) ==
  /\ At(t, "executing") /\ effect[t][Current(t)] = "applied"
  /\ Journalled(t, Current(t), "applied", "receipt")
  /\ UNCHANGED <<effect, parent, recovery, answer, faults, world>>

\* The service declines: insufficient funds, a closed account.
StepDeclined(t) ==
  /\ At(t, "executing") /\ effect[t][Current(t)] = "none"
  /\ Journalled(t, Current(t), "planned", "declined")
  /\ UNCHANGED <<effect, parent, recovery, answer, faults, world>>

\* A timeout, a storage error or an exception: applied or not.
StepUnknown(t) ==
  /\ At(t, "executing") /\ Fault
  /\ journal' = [journal EXCEPT ![t][Current(t)] = "unknown"]
  /\ Goto(t, "marking")
  /\ UNCHANGED <<storage, effect, parent, recovery, answer, world>>

DeclinedFlushed(t) ==
  /\ At(t, "declined")
  /\ Flushed(t) \/ (FlushFails /\ Reverted(t))
  /\ Goto(t, "failing")
  /\ UNCHANGED <<journal, effect, parent, recovery, answer, world>>

LastStep(t) ==
  CHOOSE s \in Step : /\ journal[t][s] # "absent"
                      /\ \A r \in s + 1 .. Steps : journal[t][r] = "absent"

ReceiptFlushed(t) ==
  /\ At(t, "receipt")
  /\ \/ Flushed(t) /\ Goto(t, "checkpoint") /\ UNCHANGED journal
     \/ /\ FlushFails /\ Reverted(t)
        /\ journal' = [journal EXCEPT ![t][LastStep(t)] = "unknown"]
        /\ Goto(t, "marking")
  /\ UNCHANGED <<effect, parent, recovery, answer, world>>

\* The plan notes the receipt in the recovery data (checkpointRecoveryData).
CheckpointFlushed(t) ==
  /\ At(t, "checkpoint")
  /\ \/ Flushed(t) /\ Goto(t, "running")
     \/ FlushFails /\ Reverted(t) /\ Goto(t, "failing")
  /\ UNCHANGED <<journal, effect, parent, recovery, answer, world>>

-----------------------------------------------------------------------------
(* The parent write and the durable commit.                                *)

AllApplied(t) == \A s \in Step : journal[t][s] = "applied"

\* commitProjectStartPlan or the re-read of the document fails.
CommitPlanFails(t) ==
  /\ At(t, "running") /\ AllApplied(t)
  /\ Goto(t, "failing")
  /\ UNCHANGED <<storage, journal, effect, parent, recovery, answer, faults,
                 world>>

\* Mutant: the parent is written before committing is durable.
EnterCommittingUnflushed(t) ==
  /\ At(t, "running") /\ AllApplied(t)
  /\ SaveAndFlush(t, Moved(record[t], "committing"), "committing")
  /\ UNCHANGED <<journal, effect, parent, recovery, answer, faults, world>>

EnterCommitting(t) ==
  /\ At(t, "running") /\ AllApplied(t)
  /\ IF IsValidTransition(record[t].state, "committing")
       THEN SaveAndFlush(t, Moved(record[t], "committing"), "entering")
       ELSE Goto(t, "failing") /\ UNCHANGED storage
  /\ UNCHANGED <<journal, effect, parent, recovery, answer, faults, world>>

CommittingFlushed(t) ==
  /\ At(t, "entering")
  /\ \/ Flushed(t) /\ Goto(t, "committing")
     \/ FlushFails /\ Reverted(t) /\ Goto(t, "failing")
  /\ UNCHANGED <<journal, effect, parent, recovery, answer, world>>

\* commitParent: an exception of the save is an error like any other.
CommitParent(t) ==
  /\ At(t, "committing")
  /\ \/ parent' = parent \cup {t} /\ Goto(t, "saved") /\ UNCHANGED faults
     \/ Fault /\ UNCHANGED parent /\ Goto(t, "failing")
     \/ /\ LateParentError /\ Fault
        /\ parent' = parent \cup {t} /\ Goto(t, "failing")
  /\ UNCHANGED <<storage, journal, effect, recovery, answer, world>>

CommitDurably(t) ==
  /\ At(t, "saved")
  /\ IF IsValidTransition(record[t].state, "committed")
       THEN SaveAndFlush(t, Moved(record[t], "committed"), "confirming")
       ELSE Goto(t, "marking") /\ UNCHANGED storage
  /\ UNCHANGED <<journal, effect, parent, recovery, answer, faults, world>>

CommitFlushed(t) ==
  /\ At(t, "confirming")
  /\ \/ /\ Flushed(t)
        /\ fences' = fences \ {t}
        /\ Leave(t, "executed")
     \/ /\ FlushFails /\ Reverted(t)
        /\ Goto(t, "marking")
        /\ UNCHANGED <<recovery, answer>>
  /\ UNCHANGED <<journal, effect, parent, world>>

-----------------------------------------------------------------------------
(* failAndCompensate and markNeedsRecovery.                                *)

InJournal(t, states) == \E s \in Step : journal[t][s] \in states

\* Mutant: the failure of a step is taken for the failure of all steps.
FailWithoutCompensation(t) ==
  /\ At(t, "failing")
  /\ IF InJournal(t, {"executing", "unknown"})
       THEN Goto(t, "marking") /\ UNCHANGED storage
       ELSE SaveAndFlush(t, Moved(record[t], "failed"), "abandoning")
  /\ UNCHANGED <<journal, effect, parent, recovery, answer, faults, world>>

FailAndCompensate(t) ==
  /\ At(t, "failing")
  /\ \/ /\ InJournal(t, {"executing", "unknown"})
        /\ Goto(t, "marking") /\ UNCHANGED storage
     \/ /\ ~InJournal(t, Compensable)
        /\ SaveAndFlush(t, Moved(record[t], "failed"), "abandoning")
     \/ /\ ~InJournal(t, {"executing", "unknown"}) /\ InJournal(t, {"applied"})
        /\ SaveAndFlush(t, Moved(record[t], "compensating"), "reversing")
  /\ UNCHANGED <<journal, effect, parent, recovery, answer, faults, world>>

\* Neither outcome of these two flushes is looked at.
AbandonFlushed(t) ==
  /\ At(t, "abandoning")
  /\ Flushed(t) \/ (FlushFails /\ Reverted(t))
  /\ fences' = fences \ {t}
  /\ Goto(t, "returning")
  /\ UNCHANGED <<journal, effect, parent, holder, pending, scan, enabled,
                 answer, world>>

ReverseFlushed(t) ==
  /\ At(t, "reversing")
  /\ Flushed(t) \/ (FlushFails /\ Reverted(t))
  /\ Goto(t, "compensating")
  /\ UNCHANGED <<journal, effect, parent, recovery, answer, world>>

\* What the compensator has left to undo.
Remaining(t) ==
  {s \in Step : record[t].steps[s] \in Compensable /\ s \notin record[t].done}

\* A compensator that fails leaves the transaction in needs-recovery: the
\* session through markNeedsRecovery, a recovery by a transition it does
\* not flush.
CompensatorFails(t, r) ==
  IF holder[t] = "command"
    THEN record' = [record EXCEPT ![t] = r] /\ Goto(t, "marking")
    ELSE /\ record' = [record EXCEPT ![t] = Moved(r, "needs-recovery")]
         /\ Goto(t, "done")

\* The compensator undoes an effect that is there, then marks the step
\* (markCompensationStepCompleted).
Compensate(t, s) ==
  /\ At(t, "compensating") /\ s \in Remaining(t)
  /\ effect' = [effect EXCEPT ![t][s] = IF @ = "applied" THEN "undone" ELSE @]
  /\ SaveAndFlush(t, [record[t] EXCEPT !.steps[s] = "compensated",
                                       !.done = @ \cup {s}], "checking")
  /\ UNCHANGED <<journal, parent, recovery, answer, faults, world>>

CompensateFails(t) ==
  /\ At(t, "compensating") /\ Remaining(t) # {}
  /\ Fault
  /\ CompensatorFails(t, record[t])
  /\ UNCHANGED <<disk, undo, journal, effect, parent, recovery, answer, world>>

CheckFlushed(t) ==
  /\ At(t, "checking")
  /\ \/ Flushed(t) /\ Goto(t, "compensating")
     \/ FlushFails /\ CompensatorFails(t, undo[t])
  /\ UNCHANGED <<journal, effect, parent, recovery, answer, world>>

\* A session ends in failed, a recovery in compensated.
Conclude(t) ==
  /\ At(t, "compensating") /\ Remaining(t) = {}
  /\ LET outcome == IF holder[t] = "command" THEN "failed" ELSE "compensated"
     IN  SaveAndFlush(t, Moved(record[t], outcome), "concluding")
  /\ UNCHANGED <<journal, effect, parent, recovery, answer, faults, world>>

ReleaseRecovery(t) ==
  /\ holder' = [holder EXCEPT ![t] = "none"]
  /\ fences' = fences \ {t}
  /\ pending' = pending \ {t}
  /\ UNCHANGED <<scan, enabled>>

ConcludeFlushed(t) ==
  /\ At(t, "concluding")
  /\ \/ /\ Flushed(t)
        /\ IF holder[t] = "command"
             THEN /\ fences' = fences \ {t} /\ Goto(t, "returning")
                  /\ UNCHANGED <<holder, pending, scan, enabled>>
             ELSE ReleaseRecovery(t) /\ Goto(t, "done")
     \/ /\ FlushFails
        /\ CompensatorFails(t, IF holder[t] = "command" THEN undo[t] ELSE record[t])
        /\ UNCHANGED recovery
  /\ UNCHANGED <<journal, effect, parent, answer, world>>

\* markNeedsRecovery: fence, patch with the journal, transition.  When the
\* step that failed marked it, failAndCompensate marks it once more.
MarkNeedsRecovery(t) ==
  /\ At(t, "marking")
  /\ fences' = fences \cup {t}
  /\ SaveAndFlush(t, [WithSteps(record[t], journal[t]) EXCEPT
                        !.state = "needs-recovery"], "marked")
  /\ UNCHANGED <<journal, effect, parent, holder, pending, scan, enabled,
                 answer, faults, world>>

MarkFlushed(t) ==
  /\ At(t, "marked")
  /\ \/ Flushed(t)
     \/ /\ FlushFails
        /\ record' = [record EXCEPT ![t] = Moved(undo[t], "needs-recovery")]
  /\ Goto(t, "returning")
  /\ UNCHANGED <<journal, effect, parent, recovery, answer, world>>

\* Mutant: the lock moves to the recovery, no fence is installed.
ReturnWithoutFence(t) ==
  /\ At(t, "returning")
  /\ holder' = [holder EXCEPT ![t] =
                  IF Unresolved(record[t]) THEN "recovery" ELSE "none"]
  /\ Goto(t, "done") /\ Answer(t, "rejected")
  /\ UNCHANGED <<storage, journal, effect, parent, pending, fences, scan,
                 enabled, faults, world>>

\* The coordinator after a commit that failed: an unresolved transaction is
\* isolated, its lock moves to the recovery; then the handle is released.
Return(t) ==
  /\ At(t, "returning")
  /\ IF Unresolved(record[t])
       THEN /\ record' = [record EXCEPT ![t] = Moved(@, "needs-recovery")]
            /\ fences' = fences \cup {t}
            /\ holder' = [holder EXCEPT ![t] = "recovery"]
            /\ pending' = pending \ {t}
       ELSE /\ holder' = [holder EXCEPT ![t] = "none"]
            /\ UNCHANGED <<record, fences, pending>>
  /\ Goto(t, "done") /\ Answer(t, "rejected")
  /\ UNCHANGED <<disk, undo, journal, effect, parent, scan, enabled, faults,
                 world>>

-----------------------------------------------------------------------------
(* RecoveryService.recoverTransaction.                                     *)

\* No composite transaction sets safeAutoRecovery, so nothing but a call of
\* the service recovers it; while the command still holds the keys that call
\* waits for them.
Recover(t) ==
  /\ At(t, "done") /\ Unresolved(record[t])
  /\ live \/ scan.phase = "off"
  /\ holder[t] = "recovery" \/ Free(t)
  /\ IsValidTransition(record[t].state, "compensating")
  /\ holder' = [holder EXCEPT ![t] = "recovery"]
  /\ pending' = pending \ {t}
  /\ record' = [record EXCEPT ![t] = Moved(@, "compensating")]
  /\ Goto(t, "reconciling")
  /\ UNCHANGED <<disk, undo, journal, effect, parent, fences, scan, enabled,
                 answer, faults, world>>

\* Repeated on a transaction that is final: it lets go of the scope.
RecoverFinal(t) ==
  /\ At(t, "done") /\ record[t].state \in Final
  /\ t \in fences \/ holder[t] = "recovery"
  /\ ReleaseRecovery(t)
  /\ UNCHANGED <<storage, journal, pc, effect, parent, answer, faults, world>>

\* The compensator first looks for the parent, if committing was reached.
Reconcile(t) ==
  /\ At(t, "reconciling")
  /\ IF record[t].reached /\ t \in parent
       THEN SaveAndFlush(t, Moved(record[t], "committed"), "reconciled")
       ELSE Goto(t, "compensating") /\ UNCHANGED storage
  /\ UNCHANGED <<journal, effect, parent, recovery, answer, faults, world>>

ReconcileFlushed(t) ==
  /\ At(t, "reconciled")
  /\ \/ Flushed(t) /\ ReleaseRecovery(t)
     \/ /\ FlushFails
        /\ record' = [record EXCEPT ![t] = Moved(@, "needs-recovery")]
        /\ UNCHANGED recovery
  /\ Goto(t, "done")
  /\ UNCHANGED <<journal, effect, parent, answer, world>>

-----------------------------------------------------------------------------
(* scanOnStartup, as handleAuthorityTransition calls it: once by itself,   *)
(* and once more in recoverAll.                                            *)

AtRest == \A t \in Tx : pc[t] \in {"idle", "done"}

\* Mutant: the scan goes over listAll instead of listUnresolved.
ListedAll(pass) ==
  [phase |-> "loop", pass |-> pass, waitsFor |-> {}, changed |-> {},
   seen |-> record, todo |-> {t \in Tx : record[t].state # "absent"}]

Listed(pass) ==
  [phase |-> "loop", pass |-> pass, waitsFor |-> {}, changed |-> {}, seen |-> record,
   todo |-> {t \in Tx : Unresolved(record[t])}]

ScanStart ==
  /\ scan.phase = "off"
  /\ live \/ (AtRest /\ ~enabled)
  /\ enabled' = FALSE
  /\ scan' = Listed(1)
  /\ UNCHANGED <<storage, journal, pc, effect, parent, holder, pending, fences,
                 answer, faults, world>>

\* The scan goes by the records it listed: "seen" is how the record was
\* then, the transition is made on the record as it is now.
ScanRecord(t) ==
  /\ scan.phase = "loop" /\ t \in scan.todo
  /\ LET changes == scan.seen[t].state # "needs-recovery"
         now == IF changes THEN Moved(record[t], "needs-recovery") ELSE record[t]
         noted == [scan EXCEPT !.changed = IF changes THEN @ \cup {t} ELSE @]
         past == [noted EXCEPT !.todo = @ \ {t}]
     IN  /\ record' = [record EXCEPT ![t] = now]
         /\ fences' = IF Unresolved(now) THEN fences \cup {t} ELSE fences
         /\ \/ /\ ~Unresolved(now) \/ holder[t] = "recovery"
               /\ scan' = past /\ UNCHANGED <<holder, pending>>
            \/ /\ Unresolved(now) /\ holder[t] = "none" /\ Free(t)
               /\ holder' = [holder EXCEPT ![t] = "recovery"]
               /\ pending' = pending \ {t}
               /\ scan' = [past EXCEPT !.phase = "locking"]
            \/ /\ Unresolved(now)
               /\ holder[t] = "command" \/ (holder[t] = "none" /\ ~Free(t))
               /\ scan' = [noted EXCEPT !.phase = "locking", !.waitsFor = {t}]
               /\ UNCHANGED <<holder, pending>>
  /\ UNCHANGED <<disk, undo, journal, pc, effect, parent, enabled, answer,
                 faults, world>>

\* The await of the lock is over: it was granted at once, or the keys came
\* free within 50 ms, or not.
ScanGranted ==
  /\ scan.phase = "locking" /\ scan.waitsFor = {}
  /\ scan' = [scan EXCEPT !.phase = "loop"]
  /\ UNCHANGED <<storage, journal, pc, effect, parent, holder, pending, fences,
                 enabled, answer, faults, world>>

ScanWaited(t) ==
  /\ scan.phase = "locking" /\ t \in scan.waitsFor
  /\ \/ /\ holder[t] = "none" /\ Free(t)
        /\ holder' = [holder EXCEPT ![t] = "recovery"]
        /\ pending' = pending \ {t}
     \/ /\ pending' = pending \cup {t}
        /\ UNCHANGED holder
  /\ scan' = [scan EXCEPT !.phase = "loop", !.todo = @ \ {t}, !.waitsFor = {}]
  /\ UNCHANGED <<storage, journal, pc, effect, parent, fences, enabled, answer,
                 faults, world>>

\* A pass is over: recoverAll follows the first, the second ends safe mode.
PassEnds ==
  IF scan.pass = 1 THEN scan' = Listed(2) /\ UNCHANGED enabled
                   ELSE scan' = NoScan /\ enabled' = TRUE

ScanEnds ==
  /\ scan.phase = "loop" /\ scan.todo = {}
  /\ IF scan.changed = {}
       THEN PassEnds
       ELSE scan' = [scan EXCEPT !.phase = "flush"] /\ UNCHANGED enabled
  /\ UNCHANGED <<storage, journal, pc, effect, parent, holder, pending, fences,
                 answer, faults, world>>

\* A flush that fails puts back the records as they were listed.  The first
\* pass then stays in safe mode, recoverAll swallows the exception.
ScanFlushed ==
  /\ scan.phase = "flush"
  /\ \/ Written /\ UNCHANGED undo /\ PassEnds
     \/ /\ FlushFails
        /\ record' = [t \in Tx |-> IF t \in scan.changed THEN scan.seen[t]
                                                         ELSE record[t]]
        /\ scan' = NoScan
        /\ enabled' = (scan.pass = 2)
  /\ UNCHANGED <<journal, pc, effect, parent, holder, pending, fences, answer,
                 world>>

\* retryPendingLockAcquisitions, run at every release of a lock.  It gets
\* the keys at once or gives up: its wait of 50 ms is left out.
RetryPending(t) ==
  /\ ThreadFree
  /\ t \in pending /\ holder[t] = "none" /\ Free(t)
  /\ holder' = IF Unresolved(record[t])
                 THEN [holder EXCEPT ![t] = "recovery"] ELSE holder
  /\ pending' = pending \ {t}
  /\ UNCHANGED <<storage, journal, pc, effect, parent, fences, scan, enabled,
                 answer, faults, world>>

\* The client is reloaded.  Only the snapshot, the effects and the parent
\* documents are left; a new client starts in safe mode.
Crash ==
  /\ crashes < MaxCrashes /\ faults + crashes < MaxFailures[live]
  /\ crashes' = crashes + 1
  /\ record' = disk /\ undo' = disk
  /\ journal' = [t \in Tx |-> NoSteps]
  /\ pc' = [t \in Tx |-> IF pc[t] = "idle" THEN "idle" ELSE "done"]
  /\ holder' = [t \in Tx |-> "none"]
  /\ pending' = {} /\ fences' = {}
  /\ scan' = NoScan /\ enabled' = FALSE
  /\ UNCHANGED <<disk, effect, parent, answer, live, faults>>

-----------------------------------------------------------------------------

Coordinate(t) ==
  Grant(t) \/ LockTimeout(t) \/ RejectPlan(t) \/ Return(t)

Execute(t) ==
  \/ Prepare(t) \/ PrepareFlushed(t)
  \/ StartStep(t) \/ IntentFlushed(t) \/ Apply(t)
  \/ StepSucceeds(t) \/ StepDeclined(t) \/ StepUnknown(t)
  \/ DeclinedFlushed(t) \/ ReceiptFlushed(t) \/ CheckpointFlushed(t)

Commit(t) ==
  \/ CommitPlanFails(t) \/ EnterCommitting(t) \/ CommittingFlushed(t)
  \/ CommitParent(t) \/ CommitDurably(t) \/ CommitFlushed(t)

Fail(t) ==
  \/ FailAndCompensate(t) \/ AbandonFlushed(t) \/ ReverseFlushed(t)
  \/ \E s \in Step : Compensate(t, s)
  \/ CompensateFails(t) \/ CheckFlushed(t) \/ Conclude(t) \/ ConcludeFlushed(t)
  \/ MarkNeedsRecovery(t) \/ MarkFlushed(t)

RecoverStep(t) ==
  \/ Recover(t) \/ RecoverFinal(t)
  \/ Reconcile(t) \/ ReconcileFlushed(t)

Scan ==
  \/ ScanStart \/ ScanGranted \/ ScanEnds \/ ScanFlushed
  \/ \E t \in Tx : ScanRecord(t) \/ ScanWaited(t)

Next ==
  \/ \E t \in Tx :
       \/ Submit(t) \/ Coordinate(t) \/ Execute(t) \/ Commit(t) \/ Fail(t)
       \/ RecoverStep(t) \/ RetryPending(t)
  \/ Scan \/ Persist \/ Crash

Spec == Init /\ [][Next]_vars

\* The thread runs on while there is something to run: a step of a started
\* command, of a started recovery or of the scan, or a lock timer.  Nothing
\* is assumed about whose turn it is, and nobody has to submit, to recover
\* or to crash.
Run ==
  \/ \E t \in Tx :
       \/ Coordinate(t) \/ Execute(t) \/ Commit(t) \/ Fail(t)
       \/ Reconcile(t) \/ ReconcileFlushed(t)
  \/ Scan

FairSpec == Spec /\ WF_vars(Run)

-----------------------------------------------------------------------------
(* Properties.                                                             *)

Record ==
  [state : State, reached : BOOLEAN, done : SUBSET Step,
   steps : [Step -> {"absent", "planned", "compensated"} \cup Compensable]]

Label ==
  {"idle", "waiting", "planning", "preparing", "running", "intent",
   "executing", "declined", "receipt", "checkpoint", "entering", "committing",
   "saved", "confirming", "failing", "abandoning", "reversing",
   "compensating", "checking", "concluding", "marking", "marked", "returning",
   "reconciling", "reconciled", "done"}

\* Every variable has its type; in particular a transaction is only ever in
\* a state of TransactionState.
TypeOK ==
  /\ record \in [Tx -> Record] /\ disk \in [Tx -> Record]
  /\ undo \in [Tx -> Record]
  /\ journal \in [Tx -> [Step -> {"absent", "planned"} \cup Compensable]]
  /\ pc \in [Tx -> Label]
  /\ effect \in [Tx -> [Step -> {"none", "applied", "undone"}]]
  /\ parent \subseteq Tx
  /\ holder \in [Tx -> {"none", "command", "recovery"}]
  /\ pending \subseteq Tx /\ fences \subseteq Tx
  /\ answer \in [Tx -> {"none", "executed", "rejected"}]
  /\ scan \in [phase : {"off", "loop", "locking", "flush"}, pass : {1, 2},
               todo : SUBSET Tx, waitsFor : SUBSET Tx, changed : SUBSET Tx,
               seen : [Tx -> Record]]
  /\ enabled \in BOOLEAN
  /\ live \in BOOLEAN
  /\ faults \in 0 .. MaxFaults /\ crashes \in 0 .. MaxCrashes

\* Write-ahead: a child effect that stands is in the durable snapshot, as a
\* step a compensator undoes, whatever flush failed before it, whatever
\* journal was persisted after it, and whenever the client crashes
\* (runChildStep flushes the intent before it calls execute).
WriteAhead ==
  \A t \in Tx, s \in Step :
    effect[t][s] = "applied" =>
      disk[t].steps[s] \in Compensable /\ s \notin disk[t].done

\* All or nothing: a transaction that ended committed has its parent and all
\* its effects, one that ended failed or compensated has no effect standing
\* and no parent, in memory and in the snapshot.
AtomicOutcome ==
  \A t \in Tx : \A r \in {record[t], disk[t]} :
    /\ r.state = "committed" =>
         t \in parent /\ \A s \in Step : effect[t][s] = "applied"
    /\ r.state \in {"failed", "compensated"} =>
         t \notin parent /\ \A s \in Step : effect[t][s] # "applied"

\* No child effect is undone under a parent document that was written, at no
\* point of a session, a recovery or a recovery cut off by a crash: what
\* reconciliation (reachedCommitting) and skipReconciliation rely on.
NeverUndoneUnderParent ==
  \A t \in parent, s \in Step : effect[t][s] # "undone"

\* commitDurably answers success only for what no crash takes back.
ExecutedIsDurable ==
  \A t \in Tx :
    answer[t] = "executed" => t \in parent /\ disk[t].state = "committed"

\* While a command works, nothing unresolved of another command lies in its
\* scope: neither a session that is under way nor a transaction somebody has
\* still to recover.  The fence is checked before the wait for the locks and
\* not after it.
Working(t) == pc[t] \notin {"idle", "waiting", "done"} /\ holder[t] = "command"

ScopeIsolated ==
  \A t, u \in Tx : Conflict(t, u) /\ Working(t) => ~Unresolved(record[u])

\* Out of safe mode, an unresolved transaction nobody works on is fenced.
UnresolvedFenced ==
  \A t \in Tx :
    enabled /\ pc[t] = "done" /\ Unresolved(record[t]) => t \in fences

\* The state is of its type, what was answered is durable, and nobody works
\* in the scope of a transaction that is unresolved: its keys are held by
\* its session or its recovery, or fenced.
Consistent == TypeOK /\ ExecutedIsDurable /\ ScopeIsolated /\ UnresolvedFenced

\* The state a transaction ended in stays, but for a crash that takes back
\* what was never flushed.
OutcomeIsFinal ==
  [][\A t \in Tx :
       pc[t] = "done" /\ record[t].state \in Final =>
         record'[t].state = record[t].state \/ crashes' # crashes]_vars

\* Every command that got past the bus comes to an end, with an answer
\* unless the client crashed, whatever fails on its way.  (A scan that is
\* started again and again has its turn as often as the command has.)
CommandEnds ==
  \A t \in Tx : pc[t] = "waiting" /\ ~live ~> pc[t] = "done"
=============================================================================
