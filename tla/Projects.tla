------------------------------- MODULE Projects -------------------------------
(***************************************************************************)
(* The projects of a Domain: src/projects/plans, src/projects/services and *)
(* src/projects/commands.  For each command, what it asks of the document, *)
(* the child steps it takes, the document it writes; and, for the commands *)
(* that take steps, when their compensator takes the document for written  *)
(* and in which order it undoes the steps.  Requirements and capabilities  *)
(* are given; a requirement on a facility blocks whatever the facility is, *)
(* because no caller passes the facilities that are available.             *)
(***************************************************************************)
EXTENDS DomainWork

NoProject == [life |-> None, work |-> 0, rewarded |-> FALSE, built |-> FALSE]

Life(d, p) == d.project[p].life

\* Reserved funds and workforce are pledged to these.
Live == {"initializing", "active", "blocked", "paused"}

\* validateProjectLifecycleTransition, without the option to reopen.
Legal(from, to) ==
  \/ from = to
  \/ <<from, to>> \in
       {<<"draft", "cancelled">>, <<"initializing", "active">>,
        <<"initializing", "blocked">>, <<"active", "blocked">>,
        <<"active", "paused">>, <<"active", "completed">>,
        <<"active", "cancelled">>, <<"blocked", "active">>,
        <<"blocked", "paused">>, <<"blocked", "cancelled">>,
        <<"paused", "active">>, <<"paused", "cancelled">>}

----------------------------------------------------------------------------
\* Starting a project.

Draft == [NoProject EXCEPT !.life = "draft"]

\* evaluateProjectStartPlan: every cost by itself against what is available,
\* then the workforce.
MayStart(d, p) ==
  /\ Available(d) >= Design[p].upfront
  /\ Available(d) >= Design[p].reserved
  /\ Design[p].crew > 0 => WorkforceLeft(d) >= Design[p].crew

StartSteps(p) ==
  When(Design[p].upfront > 0, <<Step("pay", p, Design[p].upfront)>>)
  \o When(Design[p].reserved > 0, <<Step("reserve", p, Design[p].reserved)>>)
  \o When(Design[p].crew > 0, <<Step("hire", p, Design[p].crew)>>)

CommitStart(t) == [Draft EXCEPT !.life = t.goal]

Started(t, d) == [d EXCEPT !.project[t.on] = CommitStart(t)]

StartShown(t, d) == d.project[t.on].life # None

\* The refunds, the reservations, the workforce.
StartOrder(t) == <<1, 2, 3>>

StartProject(p) ==
  /\ Life(domain, p) = None
  /\ MayStart(domain, p)
  /\ \E target \in {"active", "initializing"} :
       Prepare("start", p, StartSteps(p), target, NoProject)

----------------------------------------------------------------------------
\* Work on a project.

MayAdvance(d, p) == Life(d, p) = "active"

\* Work is clamped to what the project requires.
After(d, p, n) == Min({Design[p].work, Max({0, d.project[p].work + n})})

\* What is due between two amounts of work, each rounded down.
Due(p, before, after) ==
  (after * Design[p].progressive) \div Design[p].work
    - (before * Design[p].progressive) \div Design[p].work

\* Nothing is given back for work that is taken back.
AdvanceSteps(d, p, n) ==
  LET due == Due(p, d.project[p].work, After(d, p, n))
  IN When(n > 0 /\ due > 0, <<Step("pay", p, due)>>)

CommitAdvance(project, t) == [project EXCEPT !.work = t.goal]

Advanced(t, d) == [d EXCEPT !.project[t.on] = CommitAdvance(@, t)]

AdvanceShown(t, d) == d.project[t.on].work >= t.goal

AdvanceOrder(t) == <<1>>

AdvanceProject(p) ==
  /\ MayAdvance(domain, p)
  /\ \E n \in Delta :
       Prepare("advance", p, AdvanceSteps(domain, p, n), After(domain, p, n),
               domain.project[p])

----------------------------------------------------------------------------
\* Commands that are one write: #mutateLifecycle and the plans it applies.

MayBlock(life) == life # None /\ Legal(life, "blocked")

MayUnblock(life) == life = "blocked"

MayPause(life) == life # None /\ Legal(life, "paused")

MayResume(life) == life = "paused"

\* #mutateLifecycle
MutateProject(kind, p, life) ==
  Write(kind, [domain EXCEPT !.project[p].life = life])

BlockProject(p) ==
  MayBlock(Life(domain, p)) /\ MutateProject("block", p, "blocked")

UnblockProject(p) ==
  MayUnblock(Life(domain, p)) /\ MutateProject("unblock", p, "active")

PauseProject(p) ==
  MayPause(Life(domain, p)) /\ MutateProject("pause", p, "paused")

ResumeProject(p) ==
  MayResume(Life(domain, p)) /\ MutateProject("resume", p, "active")

----------------------------------------------------------------------------
\* Cancelling a project gives back what is pledged to it.

MayCancel(d, p) == Life(d, p) # None /\ Legal(Life(d, p), "cancelled")

\* The reservations are found by the project's document, active or not.
CancelSteps(d, p) ==
  When(d.hold[p] # None, <<Step("release", p, 0)>>) \o <<Step("letgo", p, 0)>>

CommitCancel(project) == [project EXCEPT !.life = "cancelled"]

Cancelled(t, d) == [d EXCEPT !.project[t.on] = CommitCancel(@)]

CancelShown(t, d) == Life(d, t.on) = "cancelled"

\* Mutant: the workforce that was let go is not taken on again.
ReservationsOnly(t) == <<1>>

\* The reservations, the workforce.
CancelOrder(t) == <<1, 2>>

CancelProject(p) ==
  /\ MayCancel(domain, p)
  /\ Prepare("cancel", p, CancelSteps(domain, p), "cancelled", domain.project[p])

----------------------------------------------------------------------------
\* Completing a project.

MayComplete(d, p) ==
  Life(d, p) = "active" /\ d.project[p].work >= Design[p].work

FinalCost(p) ==
  When(Design[p].final > 0, <<Step("pay", p, Design[p].final)>>)

\* Reservations and workforce of the project that are active.
ConsumedPledge(d, p) ==
  When(d.hold[p] = "active", <<Step("consume", p, Design[p].reserved)>>)

DismissedCrew(d, p) ==
  When(d.crew[p] = "active", <<Step("dismiss", p, Design[p].crew)>>)

\* A facility or a reward that fails leaves the completion partial.
BuiltFacility(p) ==
  When(Design[p].builds # None, <<Optional(Step("build", Design[p].builds, 0))>>)

GrantedReward(p) ==
  When(Design[p].reward > 0, <<Optional(Step("reward", p, Design[p].reward))>>)

CompletionSteps(d, p) ==
  FinalCost(p) \o ConsumedPledge(d, p) \o DismissedCrew(d, p)
    \o BuiltFacility(p) \o GrantedReward(p)

\* What the receipts of the completion say.
Done(t, op) == \E i \in DOMAIN t.steps : t.steps[i].op = op /\ t.steps[i].st = "applied"

CommitCompletion(project, t) ==
  [project EXCEPT !.life = "completed", !.rewarded = Done(t, "reward"),
                  !.built = Done(t, "build")]

Completed(t, d) == [d EXCEPT !.project[t.on] = CommitCompletion(@, t)]

\* Mutant: a completion counts as written if it is one with its reward.
RewardShown(t, d) == Life(d, t.on) = "completed" /\ d.project[t.on].rewarded

CompletionShown(t, d) == Life(d, t.on) = "completed"

Steps(t, ops) == SelectSeq([i \in DOMAIN t.steps |-> i], LAMBDA i : t.steps[i].op \in ops)

\* The effects from the last to the first, the reservations, the workforce,
\* the project's entry of the document.
CompletionOrder(t) ==
  Reverse(Steps(t, {"pay", "build", "reward"})) \o Steps(t, {"consume"})
    \o Steps(t, {"dismiss"}) \o <<0>>

CompleteProject(p) ==
  /\ MayComplete(domain, p)
  /\ Prepare("complete", p, CompletionSteps(domain, p), "completed",
             domain.project[p])

----------------------------------------------------------------------------
\* ProjectsService

ProjectCommand ==
  \E p \in Project :
    \/ StartProject(p) \/ AdvanceProject(p) \/ CompleteProject(p)
    \/ CancelProject(p) \/ BlockProject(p) \/ UnblockProject(p)
    \/ PauseProject(p) \/ ResumeProject(p)
===============================================================================
