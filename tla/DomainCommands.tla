---------------------------- MODULE DomainCommands ----------------------------
(***************************************************************************)
(* The commands of projects, facilities and downtime on one Domain, their  *)
(* sessions and the game master's recovery, together: they share the funds *)
(* of the Domain, its workforce and its facilities.                        *)
(***************************************************************************)
EXTENDS Projects, Facilities, Downtime

\* The document a transaction writes at its end.
Parent(t, d) ==
  CASE t.kind = "start" -> Started(t, d)
    [] t.kind = "advance" -> Advanced(t, d)
    [] t.kind = "cancel" -> Cancelled(t, d)
    [] t.kind = "complete" -> Completed(t, d)
    [] t.kind = "maintain" -> Maintained(t, d)
    [] t.kind = "repair" -> Repaired(t, d)
    [] t.kind = "begin" -> Begun(t, d)
    [] t.kind \in {"resolve", "tick"} -> Resolved(t, d)

\* Whether the compensator of a kind takes the document for written.
Shown(t, d) ==
  CASE t.kind = "start" -> StartShown(t, d)
    [] t.kind = "advance" -> AdvanceShown(t, d)
    [] t.kind = "cancel" -> CancelShown(t, d)
    [] t.kind = "complete" -> CompletionShown(t, d)
    [] t.kind \in {"maintain", "repair"} -> FacilityShown(t, d)
    [] t.kind = "begin" -> BegunShown(t, d)
    [] t.kind \in {"resolve", "tick"} -> ResolvedShown(t, d)

\* The order in which it undoes the steps; 0 is the document itself.
Order(t) ==
  CASE t.kind = "start" -> StartOrder(t)
    [] t.kind = "advance" -> AdvanceOrder(t)
    [] t.kind = "cancel" -> CancelOrder(t)
    [] t.kind = "complete" -> CompletionOrder(t)
    [] t.kind \in {"maintain", "repair"} -> FacilityOrder(t)
    [] t.kind = "begin" -> BegunOrder(t)
    [] t.kind \in {"resolve", "tick"} -> ResolvedOrder(t)

Left(t) ==
  SelectSeq(Order(t),
            LAMBDA i : i \in ToUndo(t) \/ (i = 0 /\ 0 \notin t.marked))

UndoNext ==
  /\ Undoing /\ Left(tx) # <<>>
  /\ LET i == Head(Left(tx))
     IN CASE i # 0 -> Undo(i) \/ UndoConsume(i)
          [] i = 0 /\ tx.kind = "complete" ->
               Restore([domain EXCEPT !.project[tx.on] = tx.prior], TRUE)
          [] OTHER ->
               Restore(FacilityRestored(tx, domain), FacilityDiffers(tx, domain))

----------------------------------------------------------------------------

EmptyDomain ==
  [funds |-> Opening,
   hold |-> [p \in Project |-> None], crew |-> [p \in Project |-> None],
   project |-> [p \in Project |-> NoProject],
   facility |-> [f \in Facility |-> NoFacility],
   activity |-> [a \in Activity |-> NoActivity]]

Init ==
  /\ scene \in Scenes
  /\ domain = [EmptyDomain EXCEPT !.facility =
                 [f \in Facility |-> IF f \in scene.standing THEN NewFacility
                                     ELSE NoFacility]]
  /\ tx = NoTx /\ commands = 0 /\ failures = 0 /\ crashes = 0

Session ==
  \/ Intend \/ IntendFails \/ Execute \/ Refused \/ Lost
  \/ Receipt \/ ReceiptFails \/ Checkpoint \/ CheckpointFails
  \/ EnterCommitting \/ EnterCommittingFails
  \/ Save(Parent(tx, domain)) \/ SaveFails(Parent(tx, domain)) \/ Finish

Compensation ==
  \/ UndoNext \/ RollbackConsume \/ Mark \/ UndoFails
  \/ Left(tx) = <<>> /\ Compensated
  \/ Recover(Shown(tx, domain))

Next ==
  \/ ProjectCommand \/ FacilityCommand \/ DowntimeCommand
  \/ Open /\ (Session \/ Compensation)
  \/ Crash

\* A handler runs on until it returns; the game master recovers what is left.
Spec ==
  /\ Init /\ [][Next]_vars
  /\ WF_vars(Open /\ Session) /\ WF_vars(Open /\ Compensation)

----------------------------------------------------------------------------
\* Properties.

Statuses == {None, "active", "consumed", "released"}

\* Funds, pledges and documents are of their types.
TypeOK ==
  /\ domain.funds \in Nat
  /\ domain.hold \in [Project -> Statuses]
  /\ domain.crew \in [Project -> {None, "active", "released"}]
  /\ \A p \in Project :
       /\ Life(domain, p) \in Live \cup {None, "completed", "cancelled"}
       /\ domain.project[p].work \in 0 .. Design[p].work
  /\ \A f \in Facility : domain.facility[f].integrity \in 0 .. Full
  /\ scene \in Scenes /\ commands \in 0 .. scene.max
  /\ Open => /\ tx.marked \subseteq 0 .. Len(tx.steps)
             /\ tx.kept \subseteq DOMAIN tx.steps

\* What the documents say has been paid for a project, less what it gave.
ProjectCost(d, p) ==
  LET project == d.project[p]
  IN IF project.life = None THEN 0
     ELSE Design[p].upfront + Due(p, 0, project.work)
          + (IF project.life = "completed"
             THEN Design[p].final + Design[p].reserved ELSE 0)
          - (IF project.rewarded THEN Design[p].reward ELSE 0)

ActivityCost(d, a) ==
  IF d.activity[a].life = None THEN 0
  ELSE Pursuit[a].cost - d.activity[a].granted * Pursuit[a].reward

Spent(d) ==
  MapThenSumSet(LAMBDA p : ProjectCost(d, p), Project)
  + MapThenSumSet(LAMBDA f : d.facility[f].paid, Facility)
  + MapThenSumSet(LAMBDA a : ActivityCost(d, a), Activity)

\* Once no transaction is open, the funds are what the documents of the
\* projects, facilities and activities account for: no step of a command that
\* failed, was cut off or was recovered is left, undone twice or forgotten.
Settled == ~Open => domain.funds = Opening - Spent(domain)

\* Once no transaction is open, funds and workforce are pledged to the projects
\* that are alive and to no others, and a completed project has consumed its
\* reservation and, if it says so, has its facility.
PledgesMatch ==
  ~Open => \A p \in Project :
    /\ (domain.hold[p] = "active") <=> (Life(domain, p) \in Live /\ Design[p].reserved > 0)
    /\ (domain.crew[p] = "active") <=> (Life(domain, p) \in Live /\ Design[p].crew > 0)
    /\ (domain.hold[p] = "consumed") <=>
         (Life(domain, p) = "completed" /\ Design[p].reserved > 0)
    /\ domain.project[p].built => Exists(domain, Design[p].builds)

\* The workforce of the projects together is not more than there is: it is
\* compared once, before the transaction.
Staffed ==
  MapThenSumSet(LAMBDA p : IF domain.crew[p] = "active" THEN Design[p].crew ELSE 0,
                Project) <= Workforce

\* The state is of its type, funds are never negative, and the workforce is
\* not promised twice.
Consistent == TypeOK /\ Staffed

\* Nobody is engaged in two activities at once.
OneActivityEach ==
  \A a, b \in Doing(domain) : a # b => Pursuit[a].who # Pursuit[b].who

\* What is reserved is there when it is to be consumed.
ReservedCovered == domain.funds >= Reserved(domain)

\* A project that has ended stays as it ended, with what was pledged to it: a
\* session or a recovery that finds its document written undoes nothing.
EndedForGood ==
  [][\A p \in Project :
       Life(domain, p) \in {"completed", "cancelled"} =>
         /\ domain'.project[p] = domain.project[p]
         /\ domain'.hold[p] = domain.hold[p] /\ domain'.crew[p] = domain.crew[p]]_vars

\* An activity changes its lifecycle as LEGAL_DOWNTIME_TRANSITIONS permits: one
\* that has ended is not taken up again.
LifecyclePermitted ==
  [][\A a \in Activity :
       LET from == domain.activity[a].life
           to == domain'.activity[a].life
       IN from \notin {None, to} => Permitted(from, to)]_vars

\* Every transaction ends: its session finishes it or the game master does.
TransactionsEnd == Open ~> ~Open
===============================================================================
