------------------------------ MODULE DomainWork ------------------------------
(***************************************************************************)
(* What the commands of projects, facilities and downtime have in common:  *)
(* the state of one Domain, the child steps a command takes at the economy *)
(* and at the people of the Domain, the session that runs them before it   *)
(* writes the parent document, and the compensation of a session that does *)
(* not reach its end, at once or by the game master after a failure or a   *)
(* restart (src/mutations/composite-mutation-session.ts and                *)
(* src/mutations/recovery-service.ts, from the side of their callers).     *)
(*                                                                         *)
(* A command holds the key of its Domain and an unresolved transaction     *)
(* keeps it, so that one transaction is open at a time.  The journal is    *)
(* MutationKernel's: here a flush that fails leaves the record as it was.  *)
(***************************************************************************)
EXTENDS Integers, Sequences, FiniteSets, SequencesExt, FiniteSetsExt

CONSTANTS
  Project, Facility, Activity,
  Design,      \* definitions of projects: work, upfront, progressive,
               \* reserved, final, reward, crew, builds (a facility or none)
  Upkeep,      \* cost of the maintenance of each facility
  Full,        \* maximum of integrity
  Direct,      \* the largest repair that is no project of its own
  Pursuit,     \* definitions of downtime: cost, reward, optional, ticks,
               \* needs (a facility or none), who
  Opening,     \* funds
  Workforce,   \* units of general workforce
  Delta,       \* work a command adds to a project
  Unsure,      \* steps whose outcome may be unknown to their command
  Torn,        \* "receipt": a step may be lost before its snapshot is saved,
               \* "restore": a compensation may stop inside a restoration
  LateSaves,   \* kinds whose parent may be written by a save that fails
  AnyLifecycle,\* TRUE: lifecycle commands of downtime come in any state
  Scenes,      \* the commands of a behaviour, and how many
  MaxFailures, MaxCrashes

None == "none"

ASSUME WorkAssumption ==
  /\ \A p \in Project :
       /\ Design[p].builds \in Facility \cup {None}
       /\ Design[p].work \in Nat \ {0}
       /\ \A k \in {"upfront", "progressive", "reserved", "final", "reward",
                    "crew"} : Design[p][k] \in Nat
  /\ Upkeep \in [Facility -> Nat] /\ {Full, Direct, Opening, Workforce} \subseteq Nat
  /\ \A a \in Activity : /\ Pursuit[a].needs \in Facility \cup {None}
                         /\ {Pursuit[a].cost, Pursuit[a].reward} \subseteq Nat
                         /\ Pursuit[a].ticks \in Nat \ {0}
  /\ Delta \subseteq Int /\ AnyLifecycle \in BOOLEAN
  /\ \A s \in Scenes : s.max \in Nat
  /\ {MaxFailures, MaxCrashes} \subseteq Nat

VARIABLES
  domain,    \* the document of the Domain, its account and its reservations
  tx,        \* the transaction that is open
  scene,     \* one of Scenes
  commands,  \* commands so far
  failures, crashes

faults == <<failures, crashes>>
vars == <<domain, tx, scene, commands, faults>>

NoTx == [kind |-> None]

Open == tx.kind # None

Fault ==
  /\ failures < MaxFailures
  /\ failures' = failures + 1
  /\ UNCHANGED crashes

----------------------------------------------------------------------------
\* The economy of a Domain d, for one resource.

Held(d) == {p \in Project : d.hold[p] = "active"}

Reserved(d) == MapThenSumSet(LAMBDA p : Design[p].reserved, Held(d))

\* getAccountAvailability
Available(d) == d.funds - Reserved(d)

\* commitAdjust by -n or n; reserved funds are not kept back from a debit.
CanPay(d, n) == d.funds >= n

Adjusted(d, n) == [d EXCEPT !.funds = @ + n]

CanReserve(d, p) == Available(d) >= Design[p].reserved

WithHold(d, p, status) == [d EXCEPT !.hold[p] = status]

Consumed(d, p) == WithHold(Adjusted(d, -Design[p].reserved), p, "consumed")

----------------------------------------------------------------------------
\* The people of a Domain.

\* Mutant: the workforce of a project on hold is at everybody's disposal.
WorkingOnly(d) ==
  {p \in Project : d.crew[p] = "active" /\ d.project[p].life # "paused"}

Crewed(d) == {p \in Project : d.crew[p] = "active"}

\* calculateWorkforce: what is left of the type "general".
WorkforceLeft(d) ==
  Workforce - MapThenSumSet(LAMBDA p : Design[p].crew, Crewed(d))

\* allocateReservation: the amount is not compared with what is left.
Hired(d, p) == [d EXCEPT !.crew[p] = "active"]

\* releaseReservation, by the project the reservation is for.
Dismissed(d, p) ==
  [d EXCEPT !.crew[p] = IF @ = "active" THEN "released" ELSE @]

\* restoreReservation
Rehired(d, p) == [d EXCEPT !.crew[p] = IF @ = "released" THEN "active" ELSE @]

----------------------------------------------------------------------------
\* A facility, and what stands in the document.

NoFacility == [life |-> None, integrity |-> 0, readiness |-> "ready",
               critical |-> FALSE, revision |-> 0, paid |-> 0]

NewFacility == [NoFacility EXCEPT !.life = "operational", !.integrity = Full]

\* createFacility with the id the step has chosen: a second call finds it.
Built(d, f) ==
  IF d.facility[f].life # None THEN d ELSE [d EXCEPT !.facility[f] = NewFacility]

Removed(d, f) == [d EXCEPT !.facility[f] = NoFacility]

----------------------------------------------------------------------------
\* Child steps: op on ref, by n.

Step(op, ref, n) ==
  [op |-> op, ref |-> ref, n |-> n, optional |-> FALSE, st |-> "planned",
   eff |-> None]

Optional(s) == [s EXCEPT !.optional = TRUE]

When(condition, steps) == IF condition THEN steps ELSE <<>>

\* What the service answers when the step is executed in d.
Refuses(s, d) ==
  \/ s.op = "pay" /\ ~CanPay(d, s.n)
  \/ s.op = "consume" /\ ~CanPay(d, s.n)
  \/ s.op = "reserve" /\ ~CanReserve(d, s.ref)
  \/ s.op \in {"release", "consume"} /\ d.hold[s.ref] # "active"

Effect(s, d) ==
  CASE s.op = "pay" -> Adjusted(d, -s.n)
    [] s.op = "reward" -> Adjusted(d, s.n)
    [] s.op = "reserve" -> WithHold(d, s.ref, "active")
    [] s.op = "consume" -> Consumed(d, s.ref)
    [] s.op = "release" -> WithHold(d, s.ref, "released")
    [] s.op = "hire" -> Hired(d, s.ref)
    [] s.op \in {"dismiss", "letgo"} -> Dismissed(d, s.ref)
    [] s.op = "build" -> Built(d, s.ref)

\* Steps that are compensated from a snapshot of what they changed.
BySnapshot == {"consume", "dismiss"}

\* compensateAdjustment: by the reference of the original, its result is
\* reconciled first; the others look at what they are about to undo.
Undone(s, d) ==
  IF s.eff # "done" THEN d
  ELSE CASE s.op = "pay" -> Adjusted(d, s.n)
         [] s.op = "reward" -> Adjusted(d, -s.n)
         [] s.op = "reserve" -> WithHold(d, s.ref, "released")
         [] s.op = "release" -> WithHold(d, s.ref, "active")
         [] s.op = "hire" -> Dismissed(d, s.ref)
         [] s.op \in {"dismiss", "letgo"} -> Rehired(d, s.ref)
         [] s.op = "build" -> Removed(d, s.ref)
         [] s.op = "consume" -> WithHold(d, s.ref, "active")

----------------------------------------------------------------------------
\* A command: one at a time, of a kind of this behaviour.

Command(kind) ==
  /\ ~Open /\ kind \in scene.commands /\ commands < scene.max
  /\ commands' = commands + 1
  /\ UNCHANGED <<scene, faults>>

\* A command that is one write of the document.
Write(kind, d) == Command(kind) /\ domain' = d /\ UNCHANGED tx

\* CompositeMutationSession.prepare
Prepare(kind, on, steps, goal, prior) ==
  /\ Command(kind)
  /\ tx' = [kind |-> kind, on |-> on, steps |-> steps, at |-> 1,
            phase |-> IF steps = <<>> THEN "enter" ELSE "intent",
            live |-> TRUE, reached |-> FALSE, kept |-> {}, marked |-> {},
            partial |-> FALSE, goal |-> goal, prior |-> prior]
  /\ UNCHANGED domain

Now == tx.steps[tx.at]

In(phase) == Open /\ tx.live /\ tx.phase = phase

InSession == UNCHANGED <<scene, commands>>

At(phase) == [tx EXCEPT !.phase = phase]

\* The next step, or the parent.
Onward(t) ==
  IF t.at < Len(t.steps) THEN [t EXCEPT !.at = @ + 1, !.phase = "intent"]
  ELSE [t EXCEPT !.phase = "enter"]

Result(st, eff) == [tx EXCEPT !.steps[tx.at].st = st, !.steps[tx.at].eff = eff]

Uncertain(t) == \E i \in DOMAIN t.steps : t.steps[i].st \in {"unknown", "executing"}

Certain(t) == {i \in DOMAIN t.steps : t.steps[i].st = "applied"}

\* markNeedsRecovery: the record is for the game master from here on.
Isolated(t) ==
  [t EXCEPT !.phase = "isolated", !.live = FALSE,
            !.kept = IF t.phase \in {"undo", "rollback", "mark"} /\ t.live
                       THEN @ \cup Certain(t) ELSE @]

\* failAndCompensate
Aborted(t) ==
  IF Uncertain(t) THEN Isolated(t)
  ELSE IF Certain(t) = {} THEN NoTx
  ELSE [t EXCEPT !.phase = "undo"]

----------------------------------------------------------------------------
\* runChildStep

\* The intent is in the journal before the step is executed.
Intend ==
  /\ In("intent")
  /\ tx' = [Result("executing", None) EXCEPT !.phase = "execute"]
  /\ UNCHANGED <<domain, faults>> /\ InSession

\* An optional outcome of downtime is passed over whatever the error was; the
\* effects of a completion only if it was not the journal that failed.
PassedOver(t) ==
  IF t.kind = "complete" THEN [Onward(t) EXCEPT !.partial = TRUE] ELSE Onward(t)

IntendFails ==
  /\ In("intent") /\ Fault
  /\ tx' = IF Now.optional /\ tx.kind # "complete"
           THEN PassedOver(tx) ELSE Aborted(tx)
  /\ UNCHANGED domain /\ InSession

Execute ==
  /\ In("execute") /\ ~Refuses(Now, domain)
  /\ domain' = Effect(Now, domain)
  /\ tx' = [Result("executing", IF domain' = domain THEN None ELSE "done")
            EXCEPT !.phase = "receipt"]
  /\ UNCHANGED faults /\ InSession

\* The service refuses, by its rules or because something in it failed.  A
\* completion does not pass over an effect for which the storage failed
\* (DM_DOMAIN_STORAGE_ERROR).
Refused ==
  /\ In("execute")
  /\ LET t == Result("planned", None) IN
       \/ /\ Refuses(Now, domain) /\ UNCHANGED faults
          /\ tx' = IF Now.optional THEN PassedOver(t) ELSE Aborted(t)
       \/ /\ Fault
          /\ \/ Now.optional /\ tx' = PassedOver(t)
             \/ (Now.optional => t.kind = "complete") /\ tx' = Aborted(t)
  /\ UNCHANGED domain /\ InSession

\* The answer is lost, with or without the effect.  A reward that may be
\* passed over is, although the record is already with the game master.
Lost ==
  /\ In("execute") /\ Now.op \in Unsure /\ ~Refuses(Now, domain) /\ Fault
  /\ \E done \in BOOLEAN :
       LET t == Result("unknown", IF done THEN "done" ELSE None)
       IN /\ domain' = IF done THEN Effect(Now, domain) ELSE domain
          /\ tx' = IF Now.optional THEN PassedOver(t) ELSE Aborted(t)
  /\ InSession

Receipt ==
  /\ In("receipt")
  /\ LET t == Result("applied", Now.eff)
     IN tx' = IF t.kind = "cancel" THEN Onward(t)
              ELSE [t EXCEPT !.phase = "checkpoint"]
  /\ UNCHANGED <<domain, faults>> /\ InSession

\* Nothing of what a lost step has changed is known but its intent.
Traceable(i) == tx.steps[i].op \in BySnapshot => i \in tx.kept

ReceiptFails ==
  /\ In("receipt") /\ Fault
  /\ "receipt" \in Torn \/ Now.op \notin BySnapshot
  /\ ~(Now.optional /\ Now.op = "reward") \/ "reward" \in Unsure
  /\ LET t == Result("unknown", Now.eff)
     IN tx' = IF Now.optional /\ tx.kind # "complete"
              THEN PassedOver(t) ELSE Aborted(t)
  /\ UNCHANGED domain /\ InSession

\* checkpointRecoveryData, with the snapshots so far; what a cancellation is
\* to restore is in its record from the beginning.
Checkpoint ==
  /\ In("checkpoint")
  /\ tx' = [Onward(tx) EXCEPT !.kept = Certain(tx)]
  /\ UNCHANGED <<domain, faults>> /\ InSession

CheckpointFails ==
  /\ In("checkpoint") /\ Fault
  /\ tx' = Aborted(tx)
  /\ UNCHANGED domain /\ InSession

----------------------------------------------------------------------------
\* The parent document, written as the kind of the command defines.

\* enterCommitting: the journal says so before the parent is written.
EnterCommitting ==
  /\ In("enter")
  /\ tx' = [At("save") EXCEPT !.reached = TRUE]
  /\ UNCHANGED <<domain, faults>> /\ InSession

EnterCommittingFails ==
  /\ In("enter") /\ Fault
  /\ tx' = Aborted(tx)
  /\ UNCHANGED domain /\ InSession

\* commitParent
Save(parent) ==
  /\ In("save")
  /\ domain' = parent
  /\ tx' = At("finish")
  /\ UNCHANGED faults /\ InSession

\* The session compensates; a completion is left to the game master.
SaveFails(parent) ==
  /\ In("save") /\ Fault
  /\ \/ UNCHANGED domain
     \/ tx.kind \in LateSaves /\ domain' = parent
  /\ tx' = IF tx.kind = "complete" THEN Isolated(tx) ELSE Aborted(tx)
  /\ InSession

\* commitDurably; a completion with effects that failed stays unresolved.
Finish ==
  /\ In("finish")
  /\ \/ tx' = (IF tx.partial THEN Isolated(tx) ELSE NoTx) /\ UNCHANGED faults
     \/ tx' = Isolated(tx) /\ ~tx.partial /\ Fault
  /\ UNCHANGED domain /\ InSession

----------------------------------------------------------------------------
\* Compensation, by the session or, after it, by the game master.

Undoing == Open /\ tx.phase = "undo"

\* Mutant: a step that is marked as compensated is compensated again.
AllToUndo(t) ==
  {i \in DOMAIN t.steps :
     /\ t.steps[i].st \in {"applied", "unknown", "executing"}
     /\ t.steps[i].op \in BySnapshot => i \in t.kept \/ t.live}

\* Mutant: steps whose outcome is not known are taken not to have happened.
SomeToUndo(t) ==
  {i \in DOMAIN t.steps \ t.marked :
     /\ t.steps[i].st = "applied"
     /\ t.steps[i].op \in BySnapshot => i \in t.kept \/ t.live}

\* The steps that took place or may have, unless no snapshot tells of them.
ToUndo(t) ==
  {i \in DOMAIN t.steps \ t.marked :
     /\ t.steps[i].st \in {"applied", "unknown", "executing"}
     /\ t.steps[i].op \in BySnapshot => i \in t.kept \/ t.live}

UndoneAt(i, d) == Undone(tx.steps[i], d)

WithUndone(i, t) == [t EXCEPT !.steps[i].eff = IF @ = "done" THEN "undone" ELSE @]

\* A step i is undone, then marked (markCompensationStepCompleted).
Undo(i) ==
  /\ Undoing /\ tx.steps[i].op # "consume"
  /\ domain' = UndoneAt(i, domain)
  /\ tx' = [WithUndone(i, tx) EXCEPT !.phase = "mark", !.at = i]
  /\ UNCHANGED faults /\ InSession

\* restoreReservation of a consumed one: the amount is credited, under no
\* reference, and then the reservation is active again.
UndoConsume(i) ==
  /\ Undoing /\ tx.steps[i].op = "consume"
  /\ IF domain.hold[tx.steps[i].ref] = "active"
     THEN /\ tx' = [tx EXCEPT !.phase = "mark", !.at = i]
          /\ UNCHANGED domain
     ELSE /\ domain' = Adjusted(domain, Design[tx.steps[i].ref].reserved)
          /\ tx' = [tx EXCEPT !.phase = "rollback", !.at = i]
  /\ UNCHANGED faults /\ InSession

RollbackConsume ==
  /\ Open /\ tx.phase = "rollback"
  /\ domain' = UndoneAt(tx.at, domain)
  /\ tx' = [WithUndone(tx.at, tx) EXCEPT !.phase = "mark"]
  /\ UNCHANGED faults /\ InSession

Mark ==
  /\ Open /\ tx.phase = "mark"
  /\ tx' = [At("undo") EXCEPT !.marked = @ \cup {tx.at},
                              !.kept = IF tx.live THEN @ \cup Certain(tx) ELSE @]
  /\ UNCHANGED <<domain, faults>> /\ InSession

\* The document as it was when the command began, after its steps.
Restore(d, needed) ==
  /\ Undoing /\ 0 \notin tx.marked
  /\ domain' = IF needed THEN d ELSE domain
  /\ tx' = [tx EXCEPT !.marked = @ \cup {0}]
  /\ UNCHANGED faults /\ InSession

UndoFails ==
  /\ Open /\ tx.phase \in {"undo", "rollback"} /\ Fault
  /\ tx.phase = "rollback" => "restore" \in Torn
  /\ tx' = Isolated(tx)
  /\ UNCHANGED domain /\ InSession

\* "failed" or "compensated" is saved: the locks and the fence are given up.
Compensated ==
  /\ Undoing
  /\ \/ tx' = NoTx /\ UNCHANGED faults
     \/ tx' = Isolated(tx) /\ Fault
  /\ UNCHANGED domain /\ InSession

----------------------------------------------------------------------------
\* The authority disappears at any point, and the record is found again.
Crash ==
  /\ Open /\ tx.phase # "isolated" /\ crashes < MaxCrashes
  /\ "receipt" \in Torn
     \/ \A i \in DOMAIN tx.steps : tx.steps[i].eff = "done" => Traceable(i)
  /\ tx.phase = "rollback" => "restore" \in Torn
  /\ crashes' = crashes + 1
  /\ tx' = [At("isolated") EXCEPT !.live = FALSE]
  /\ UNCHANGED <<domain, failures>> /\ InSession

\* recoverTransaction: shown says that the parent has been written, which
\* only counts once the journal says that it was about to be.
Recover(shown) ==
  /\ Open /\ tx.phase = "isolated"
  /\ tx' = IF tx.reached /\ shown THEN NoTx ELSE At("undo")
  /\ UNCHANGED <<domain, faults>> /\ InSession
===============================================================================
