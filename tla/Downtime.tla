------------------------------- MODULE Downtime -------------------------------
(***************************************************************************)
(* The downtime of a Domain: src/downtime.  Starting an activity and       *)
(* resolving it are transactions; time and the lifecycle commands are one  *)
(* write.  Outcomes of other types than a grant are left to handlers that  *)
(* are registered by nobody in this repository, or are a text.             *)
(***************************************************************************)
EXTENDS DomainWork

NoActivity == [life |-> None, ticks |-> 0, granted |-> 0]

Doing(d) == {a \in Activity : d.activity[a].life = "inProgress"}

\* LEGAL_DOWNTIME_TRANSITIONS between the states a command leads to; the
\* service compares nothing with them.
Permitted(from, to) ==
  <<from, to>> \in {<<"inProgress", "paused">>, <<"inProgress", "cancelled">>,
                    <<"inProgress", "completed">>, <<"paused", "inProgress">>,
                    <<"paused", "cancelled">>}

----------------------------------------------------------------------------
\* Starting an activity.

\* A facility of the kind the activity needs.
Usable(d, f) ==
  /\ d.facility[f].life = "operational"
  /\ d.facility[f].readiness # "unavailable"
  /\ d.facility[f].integrity > 0

FacilityStands(d, a) == Pursuit[a].needs # None => Usable(d, Pursuit[a].needs)

\* Only activities in progress keep their participant busy.
ParticipantIdle(d, a) == \A b \in Doing(d) : Pursuit[b].who # Pursuit[a].who

CostOf(a) == When(Pursuit[a].cost > 0, <<Step("pay", a, Pursuit[a].cost)>>)

Begun(t, d) ==
  [d EXCEPT !.activity[t.on] = [NoActivity EXCEPT !.life = "inProgress"]]

LastFirst(t) == Reverse([i \in DOMAIN t.steps |-> i])

BegunOrder(t) == LastFirst(t)

BegunShown(t, d) == d.activity[t.on].life # None

StartActivity(a) ==
  /\ domain.activity[a].life = None
  /\ FacilityStands(domain, a) /\ ParticipantIdle(domain, a)
  /\ Prepare("begin", a, CostOf(a), "inProgress", NoActivity)

----------------------------------------------------------------------------
\* Resolution, asked for or because the time has passed.

\* An outcome that is not optional fails the resolution if it fails.
Grant(a) ==
  LET grant == Step("reward", a, Pursuit[a].reward)
  IN When(Pursuit[a].reward > 0,
          <<IF Pursuit[a].optional THEN Optional(grant) ELSE grant>>)

Granted(t) == Cardinality({i \in DOMAIN t.steps : t.steps[i].st = "applied"})

Resolved(t, d) ==
  [d EXCEPT !.activity[t.on] =
     [@ EXCEPT !.life = "completed", !.ticks = t.goal, !.granted = @ + Granted(t)]]

ResolvedShown(t, d) == d.activity[t.on].life = "completed"

ResolvedOrder(t) == LastFirst(t)

\* executeDowntimeResolutionPlan: the duration is not compared.
Resolve(kind, a, ticks) ==
  Prepare(kind, a, Grant(a), ticks, NoActivity)

CompleteActivity(a) ==
  /\ a \in Doing(domain)
  /\ Resolve("resolve", a, domain.activity[a].ticks)

AdvanceActivity(a) ==
  /\ a \in Doing(domain)
  /\ LET ticks == domain.activity[a].ticks + 1
     IN IF ticks >= Pursuit[a].ticks
        THEN Resolve("tick", a, ticks)
        ELSE Write("tick", [domain EXCEPT !.activity[a].ticks = ticks])

----------------------------------------------------------------------------
\* #mutateLifecycle: from whatever state the activity is in.

MutateLifecycle(kind, a, to) ==
  /\ domain.activity[a].life # None
  /\ AnyLifecycle \/ Permitted(domain.activity[a].life, to)
  /\ Write(kind, [domain EXCEPT !.activity[a].life = to])

PauseActivity(a) == MutateLifecycle("rest", a, "paused")

ResumeActivity(a) == MutateLifecycle("return", a, "inProgress")

CancelActivity(a) == MutateLifecycle("abandon", a, "cancelled")

DowntimeCommand ==
  \E a \in Activity :
    \/ StartActivity(a) \/ AdvanceActivity(a) \/ CompleteActivity(a)
    \/ PauseActivity(a) \/ ResumeActivity(a) \/ CancelActivity(a)
===============================================================================
