------------------------------ MODULE Facilities ------------------------------
(***************************************************************************)
(* The facilities of a Domain: src/facilities.  Maintenance and repair are *)
(* transactions with a payment; a facility is created, damaged and         *)
(* decommissioned by one write.  The ticks that make maintenance fall due  *)
(* are advanced by no caller, so that maintenance changes the revision and *)
(* the funds only.                                                         *)
(***************************************************************************)
EXTENDS DomainWork

Exists(d, f) == d.facility[f].life # None

WithFacility(d, f, facility) == [d EXCEPT !.facility[f] = facility]

\* A write of a facility that is there already is one of its revisions.
Revised(facility) == [facility EXCEPT !.revision = @ + 1]

CreateFacility(f) ==
  /\ ~Exists(domain, f)
  /\ Write("create", Built(domain, f))

----------------------------------------------------------------------------
\* Maintenance.

\* The balance is compared as it is in the document, reserved funds included.
MayMaintain(d, f) ==
  /\ Exists(d, f) /\ d.facility[f].life # "decommissioned"
  /\ CanPay(d, Upkeep[f])

MaintenanceSteps(f) == When(Upkeep[f] > 0, <<Step("pay", f, Upkeep[f])>>)

CommitMaintenance(facility, f) == [Revised(facility) EXCEPT !.paid = @ + Upkeep[f]]

Maintained(t, d) == WithFacility(d, t.on, CommitMaintenance(d.facility[t.on], t.on))

MaintainFacility(f) ==
  /\ MayMaintain(domain, f)
  /\ Prepare("maintain", f, MaintenanceSteps(f),
             domain.facility[f].revision + 1, domain.facility[f])

----------------------------------------------------------------------------
\* Repair: one unit for each point of integrity, if it is a small one.

Missing(d, f) == Full - d.facility[f].integrity

Repairable(d, f, n) == Min({Missing(d, f), n})

MayRepair(d, f, n) ==
  /\ Exists(d, f) /\ d.facility[f].life # "decommissioned"
  /\ Repairable(d, f, n) <= Direct /\ ~d.facility[f].critical

RepairSteps(points) == When(points > 0, <<Step("pay", None, points)>>)

\* A facility that is whole again is operational and ready again.
CommitRepair(facility, points) ==
  LET whole == facility.integrity + points >= Full
  IN [Revised(facility) EXCEPT
        !.integrity = @ + points, !.paid = @ + points,
        !.life = IF whole /\ @ = "degraded" THEN "operational" ELSE @,
        !.readiness = IF whole THEN "ready" ELSE @]

Repaired(t, d) == WithFacility(d, t.on, CommitRepair(d.facility[t.on], t.goal))

RepairFacility(f) ==
  \E n \in 1 .. Full :
    /\ MayRepair(domain, f, n)
    /\ LET points == Repairable(domain, f, n)
       IN Prepare("repair", f, RepairSteps(points), points, domain.facility[f])

----------------------------------------------------------------------------
\* The compensator of both: the facility first, then the refunds.

FacilityShown(t, d) == d.facility[t.on].revision >= t.prior.revision + 1

FacilityOrder(t) == <<0>> \o Reverse([i \in DOMAIN t.steps |-> i])

FacilityRestored(t, d) == WithFacility(d, t.on, t.prior)

FacilityDiffers(t, d) == d.facility[t.on].revision # t.prior.revision

----------------------------------------------------------------------------
\* Commands that are one write.

\* applyFacilityDamage: in any lifecycle.
Damaged(facility, n, critical) ==
  LET left == Max({0, facility.integrity - n})
  IN [Revised(facility) EXCEPT
        !.integrity = left, !.critical = @ \/ critical,
        !.life = IF left = 0 /\ @ = "operational" THEN "degraded" ELSE @,
        !.readiness = IF left = 0 \/ (2 * left < Full /\ @ = "ready")
                      THEN "limited" ELSE @]

DamageFacility(f) ==
  /\ Exists(domain, f)
  /\ \E n \in 1 .. Full, critical \in BOOLEAN :
       Write("damage",
             WithFacility(domain, f, Damaged(domain.facility[f], n, critical)))

\* Whatever uses the facility.
DecommissionFacility(f) ==
  /\ Exists(domain, f)
  /\ Write("decommission",
       WithFacility(domain, f, [Revised(domain.facility[f]) EXCEPT
                                  !.life = "decommissioned",
                                  !.readiness = "unavailable"]))

FacilityCommand ==
  \E f \in Facility :
    \/ CreateFacility(f) \/ MaintainFacility(f) \/ RepairFacility(f)
    \/ DamageFacility(f) \/ DecommissionFacility(f)
===============================================================================
