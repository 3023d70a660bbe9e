-------------------------------- MODULE People --------------------------------
(***************************************************************************)
(* The people of a Domain: population groups, operational groups, notables *)
(* and their roles, and the workforce these sources lend to assignments    *)
(* and reservations (src/people).                                          *)
(*                                                                         *)
(* Every people:* command reads the document of the Domain, plans on what  *)
(* it read and writes the document back, all under the key of the Domain:  *)
(* a command is one step.  What it left is validated by the next read,     *)
(* which throws when the data do not pass.  Ids are made for a command and *)
(* never used again.                                                       *)
(*                                                                         *)
(* Left out: names, notes, tags, visibility and permissions; the figures   *)
(* of the population, from which no workforce is derived; the reservations *)
(* of projects, which DomainWork has.                                      *)
(***************************************************************************)
EXTENDS Integers, Sequences, FiniteSets, SequencesExt, FiniteSetsExt, Functions

CONSTANTS
  Id,          \* of population groups, operational groups and notables
  NotableId,   \* those in the format of a notable's id: not_ and a uuid
  Trade,       \* types of workforce
  Actor,       \* actors a notable may be linked to
  Role, RoleMax, \* roles, and how many each definition admits
  Never,       \* an instant after all others
  Scenes,      \* openings of a behaviour, the commands it may see and their
               \* inputs
  MaxNow

None == "none"
Inline == "inline"   \* a notable that is no actor
Anytime == -1        \* no instant given

ASSUME PeopleAssumption ==
  /\ RoleMax \in [Role -> Nat \ {0}] /\ NotableId \subseteq Id
  /\ MaxNow \in Nat /\ MaxNow < Never
  /\ {None, Inline} \cap Actor = {}

VARIABLES
  people,      \* the data of the capability domain-manager:people
  used,        \* ids given so far
  now,         \* the clock of the client
  scene, commands

vars == <<people, used, now, scene, commands>>

\* f is kept by keys in K and holds what is in S.
IsMap(f, K, S) == DOMAIN f \subseteq K /\ f \in [DOMAIN f -> S]

Modes == {"abstract", "partial", "explicit"}

Lifecycles == {"active", "inactive", "disbanded"}

OperationalGroup ==
  [trade : Trade, mode : Modes, size : Nat, members : Seq(Id),
   lifecycle : Lifecycles, population : Id \cup {None}]

DomainRole == [group : Id \cup {None}, occupants : Seq(Id)]

Commitment ==
  [source : Id, trade : Trade, amount : Nat \ {0}, starts : Int, ends : Int,
   expires : Int, active : BOOLEAN]

\* DomainPeopleData
IsData(d) ==
  /\ DOMAIN d = {"mode", "populations", "groups", "notables", "roles",
                 "assignments", "reservations"}
  /\ d.mode \in {"manual", "hybrid"}
  /\ IsMap(d.populations, Id, [Trade -> Nat])
  /\ IsMap(d.groups, Id, OperationalGroup)
  /\ IsMap(d.notables, Id, Actor \cup {Inline})
  /\ IsMap(d.roles, Role, DomainRole)
  /\ d.assignments \in Seq(Commitment) /\ d.reservations \in Seq(Commitment)

\* f with v for x, new or not.
With(f, x, v) == [y \in DOMAIN f \cup {x} |-> IF y = x THEN v ELSE f[y]]

Without(f, x) == Restrict(f, DOMAIN f \ {x})

(***************************************************************************)
(* The elements of s at the positions in I, in their order.  SelectSeq,    *)
(* whose definition is recursive, said by counting.                        *)
(***************************************************************************)
Picked(s, I) ==
  LET Before(i) == Cardinality({j \in I : j < i})
  IN [k \in 1 .. Cardinality(I) |-> s[CHOOSE i \in I : Before(i) = k - 1]]

Sources(d) == DOMAIN d.groups \cup DOMAIN d.populations \cup DOMAIN d.notables

Commitments(d) == d.assignments \o d.reservations

----------------------------------------------------------------------------
\* The workforce of a Domain.

\* A commitment counts until it ends or, for a reservation, expires.
Counts(c) == c.active /\ c.expires >= now

\* What the commitments at the positions in I ask for.
AmountOf(cs, I) == SumFunction([i \in I |-> cs[i].amount])

Working(d) == {g \in DOMAIN d.groups : d.groups[g].lifecycle = "active"}

SizeOf(d, G) == SumFunction([g \in G |-> d.groups[g].size])

AtLeastZero(n) == IF n < 0 THEN 0 ELSE n

\* What a population group adds: its working groups are counted as groups,
\* whatever their trade.
NetContribution(d, p, t) ==
  AtLeastZero(d.populations[p][t]
              - SizeOf(d, {g \in Working(d) : d.groups[g].population = p}))

\* A notable is one unit, of the trade of its first commitment.
Lends(d, n, t) ==
  LET cs == Commitments(d)
      of == {i \in DOMAIN cs : Counts(cs[i]) /\ cs[i].source = n}
  IN of # {} /\ cs[Min(of)].trade = t

TradeCapacity(d, t) ==
  SizeOf(d, {g \in Working(d) : d.groups[g].trade = t})
  + SumFunction([p \in DOMAIN d.populations |-> NetContribution(d, p, t)])
  + Cardinality({n \in DOMAIN d.notables : Lends(d, n, t)})

TradeLeft(d, t) ==
  LET cs == Commitments(d)
      of == {i \in DOMAIN cs : Counts(cs[i]) /\ cs[i].trade = t}
  IN TradeCapacity(d, t) - AmountOf(cs, of)

\* getSourceCapacity: of the groups of a population, those of the trade.
SourceCapacity(d, s, t) ==
  IF s \in DOMAIN d.groups
  THEN IF s \in Working(d) /\ d.groups[s].trade = t THEN d.groups[s].size ELSE 0
  ELSE IF s \in DOMAIN d.populations
       THEN AtLeastZero(d.populations[s][t]
              - SizeOf(d, {g \in Working(d) : /\ d.groups[g].population = s
                                              /\ d.groups[g].trade = t}))
       ELSE 1

\* at is the instant an assignment starts, from which what ended is free.
SourceLeft(d, s, t, at) ==
  LET cs == Commitments(d)
      of == {i \in DOMAIN cs : /\ Counts(cs[i]) /\ cs[i].source = s
                              /\ cs[i].trade = t /\ cs[i].ends > at}
  IN SourceCapacity(d, s, t) - AmountOf(cs, of)

----------------------------------------------------------------------------
\* What a read accepts.

WellFormed(g) ==
  /\ g.mode = "abstract" => g.members = <<>>
  /\ g.mode = "partial" => Len(g.members) <= g.size
  /\ IsInjective(g.members)

Fits(r, occupants) == IsInjective(occupants) /\ Len(occupants) <= RoleMax[r]

LinkedTo(d, a) == {n \in DOMAIN d.notables : d.notables[n] = a}

\* What names a notable has the format of a notable's id (isOpaqueId).
OpaqueIds(d) ==
  /\ DOMAIN d.notables \subseteq NotableId
  /\ \A r \in DOMAIN d.roles : Range(d.roles[r].occupants) \subseteq NotableId
  /\ \A g \in DOMAIN d.groups : Range(d.groups[g].members) \subseteq NotableId

Readable(d) ==
  /\ OpaqueIds(d)
  /\ \A a \in Actor : Cardinality(LinkedTo(d, a)) <= 1
  /\ \A r \in DOMAIN d.roles : Fits(r, d.roles[r].occupants)
  /\ \A g \in DOMAIN d.groups : WellFormed(d.groups[g])

\* Who fills a role is a notable of the Domain.
Filled(d) ==
  \A r \in DOMAIN d.roles : Range(d.roles[r].occupants) \subseteq DOMAIN d.notables

\* What a command may change of an operational group.
Patch(p) ==
  /\ "trade" \in DOMAIN p => p["trade"] \in Trade
  /\ "mode" \in DOMAIN p => p["mode"] \in Modes
  /\ "size" \in DOMAIN p => p["size"] \in Nat
  /\ "members" \in DOMAIN p => p["members"] \in Seq(Id)
  /\ "lifecycle" \in DOMAIN p => p["lifecycle"] \in Lifecycles
  /\ "population" \in DOMAIN p => p["population"] \in Id \cup {None}

\* A scene opens with data that a read accepts, and its inputs are typed.
ASSUME SceneAssumption ==
  \A s \in Scenes :
    /\ s.max \in Nat /\ s.careful \in BOOLEAN
    /\ IsData(s.opening)
    /\ \A part \in {"populations", "groups", "notables"} :
         IsFiniteSet(DOMAIN s.opening[part])
    /\ Readable(s.opening) /\ Filled(s.opening)
    /\ s.populationIds \cup s.groupIds \cup s.notableIds \subseteq Id
    /\ s.contributions \subseteq [Trade -> Nat]
    /\ s.groups \subseteq OperationalGroup /\ \A p \in s.patches : Patch(p)
    /\ s.occupants \subseteq Seq(Id)
    /\ s.assignments \cup s.reservations \subseteq Commitment
    /\ s.instants \subseteq Int /\ \A t \in s.instants : t < Never

----------------------------------------------------------------------------
Init ==
  /\ scene \in Scenes
  /\ people = scene.opening
  /\ used = Sources(people) \cup DOMAIN people.roles
  /\ now = 0
  /\ commands = 0

\* The read of a command throws on data that are not readable.
Given(name) ==
  /\ name \in scene.may
  /\ Readable(people)
  /\ commands < scene.max
  /\ commands' = commands + 1
  /\ UNCHANGED <<now, scene>>

Write(d) == people' = d /\ UNCHANGED used

New(id, d) == id \notin used /\ used' = used \cup {id} /\ people' = d

\* people:set-population
SetPopulation(mode) ==
  /\ Given("set-population")
  /\ Write([people EXCEPT !.mode = mode])

CreatePopulationGroup(p, contribution) ==
  /\ Given("population-group")
  /\ New(p, [people EXCEPT !.populations = With(@, p, contribution)])

UpdatePopulationGroup(p, contribution) ==
  /\ Given("population-group")
  /\ p \in DOMAIN people.populations
  /\ Write([people EXCEPT !.populations[p] = contribution])

DeletePopulationGroup(p) ==
  /\ Given("population-group")
  /\ p \in DOMAIN people.populations
  /\ Write([people EXCEPT !.populations = Without(@, p)])

PopulationKnown(g) ==
  g.population \in DOMAIN people.populations \cup {None}

MembersKnown(g) == Range(g.members) \subseteq DOMAIN people.notables

CreateOperationalGroup(id, g) ==
  /\ Given("operational-group")
  /\ WellFormed(g) /\ MembersKnown(g) /\ PopulationKnown(g)
  /\ New(id, [people EXCEPT !.groups = With(@, id, g)])

\* The size of an explicit group follows its members unless it is given.
Merged(g, patch) ==
  LET m == [f \in DOMAIN g |-> IF f \in DOMAIN patch THEN patch[f] ELSE g[f]]
  IN [m EXCEPT !.size = IF "size" \in DOMAIN patch \/ m.mode # "explicit"
                        THEN m.size ELSE Len(m.members)]

UpdateOperationalGroup(id, patch) ==
  LET g == Merged(people.groups[id], patch)
  IN /\ Given("operational-group")
     /\ id \in DOMAIN people.groups
     /\ WellFormed(g) /\ MembersKnown(g) /\ PopulationKnown(g)
     /\ Write([people EXCEPT !.groups[id] = g])

DeleteOperationalGroup(id) ==
  /\ Given("operational-group")
  /\ id \in DOMAIN people.groups
  /\ Write([people EXCEPT !.groups = Without(@, id)])

\* No two notables are the same actor.
Unlinked(n, a) == a = Inline \/ LinkedTo(people, a) \subseteq {n}

CreateNotable(n, a) ==
  /\ Given("notable")
  /\ n \in NotableId
  /\ Unlinked(n, a)
  /\ New(n, [people EXCEPT !.notables = With(@, n, a)])

UpdateNotable(n, a) ==
  /\ Given("notable")
  /\ n \in DOMAIN people.notables
  /\ a # Inline /\ Unlinked(n, a)
  /\ Write([people EXCEPT !.notables[n] = a])

\* Mutant: a notable is deleted whatever roles it fills.
NoRole(n) == TRUE

Unoccupied(n) ==
  \A r \in DOMAIN people.roles : n \notin Range(people.roles[r].occupants)

DeleteNotable(n) ==
  /\ Given("notable")
  /\ n \in DOMAIN people.notables
  /\ Unoccupied(n)
  /\ Write([people EXCEPT !.notables = Without(@, n)])

\* A role of a group is for its members, if the group names any.
Admits(g, ns) ==
  /\ people.groups[g].lifecycle # "disbanded"
  /\ \/ people.groups[g].members = <<>>
     \/ ns \subseteq Range(people.groups[g].members)

CreateRole(r, g, occupants) ==
  /\ Given("role")
  /\ Fits(r, occupants)
  /\ g # None => g \in DOMAIN people.groups /\ Admits(g, Range(occupants))
  /\ Range(occupants) \subseteq DOMAIN people.notables
  /\ LET role == [group |-> g, occupants |-> occupants]
     IN New(r, [people EXCEPT !.roles = With(@, r, role)])

AssignRole(r, n) ==
  LET role == people.roles[r]
  IN /\ Given("role")
     /\ r \in DOMAIN people.roles /\ n \in DOMAIN people.notables
     /\ role.group \in DOMAIN people.groups => Admits(role.group, {n})
     /\ n \notin Range(role.occupants)
     /\ Len(role.occupants) < RoleMax[r]
     /\ Write([people EXCEPT !.roles[r].occupants = Append(@, n)])

UnassignRole(r, n) ==
  /\ Given("role")
  /\ r \in DOMAIN people.roles /\ n \in Range(people.roles[r].occupants)
  /\ LET others == {i \in DOMAIN people.roles[r].occupants :
                      people.roles[r].occupants[i] # n}
     IN Write([people EXCEPT !.roles[r].occupants = Picked(@, others)])

DeleteRole(r) ==
  /\ Given("role")
  /\ r \in DOMAIN people.roles
  /\ Write([people EXCEPT !.roles = Without(@, r)])

----------------------------------------------------------------------------
\* Assignments and reservations.

\* Mutant: only the trade is looked at, not the source.
SourceIgnored(c) == TRUE

SourceCovers(c) ==
  SourceLeft(people, c.source, c.trade, c.starts) >= c.amount

\* A game master may force a commitment past both capacities.
MayCommit(c, after, forced) ==
  /\ c.source \in Sources(people)
  /\ forced \/ (SourceCovers(c) /\ TradeLeft(after, c.trade) >= 0)

CreateAssignment(c, forced) ==
  LET after == [people EXCEPT !.assignments = Append(@, c)]
  IN Given("assignment") /\ MayCommit(c, after, forced) /\ Write(after)

CreateReservation(c, forced) ==
  LET after == [people EXCEPT !.reservations = Append(@, c)]
  IN Given("reservation") /\ MayCommit(c, after, forced) /\ Write(after)

CancelAssignment(i) ==
  /\ Given("assignment")
  /\ i \in DOMAIN people.assignments
  /\ Write([people EXCEPT !.assignments = RemoveAt(@, i)])

ReleaseReservation(i) ==
  /\ Given("reservation")
  /\ i \in DOMAIN people.reservations
  /\ Write([people EXCEPT !.reservations = RemoveAt(@, i)])

----------------------------------------------------------------------------
\* people:repair.  A repair that changes nothing writes nothing.

Repair(d) == Given("repair") /\ d # people /\ Write(d)

Distinct(s) ==
  Picked(s, {i \in DOMAIN s : \A j \in DOMAIN s : j < i => s[j] # s[i]})

Relinked(s, old, new) ==
  IF old \notin Range(s) THEN s
  ELSE Distinct([i \in DOMAIN s |-> IF s[i] = old THEN new ELSE s[i]])

\* The new id is not looked up, nor its format; an explicit group keeps its
\* size.
RelinkNotable(old, new) ==
  Repair([people EXCEPT
    !.roles = [r \in DOMAIN @ |->
       [people.roles[r] EXCEPT !.occupants = Relinked(@, old, new)]],
    !.groups = [g \in DOMAIN @ |->
       [people.groups[g] EXCEPT !.members = Relinked(@, old, new)]]])

Known(s) == Picked(s, {i \in DOMAIN s : s[i] \in DOMAIN people.notables})

PurgedGroup(g) ==
  IF Known(g.members) = g.members THEN g
  ELSE [g EXCEPT !.members = Known(g.members),
                 !.size = IF g.mode = "explicit" THEN Len(Known(g.members)) ELSE @]

PurgeDanglingOccupants ==
  Repair([people EXCEPT
    !.roles = [r \in DOMAIN @ |->
       [people.roles[r] EXCEPT !.occupants = Known(@)]],
    !.groups = [g \in DOMAIN @ |-> PurgedGroup(people.groups[g])]])

ResizedGroup(g) ==
  IF g.mode = "explicit" THEN [g EXCEPT !.size = Len(g.members)] ELSE g

RepairExplicitGroupSizes ==
  Repair([people EXCEPT
    !.groups = [g \in DOMAIN @ |-> ResizedGroup(people.groups[g])]])

Past(c, real) == c.expires < real

\* real is the time the game master gives, or else that of the clock, and at
\* the world time given, or Anytime.
PruneExpiredReservations(real, at) ==
  LET kept == {i \in DOMAIN people.reservations :
                 LET c == people.reservations[i]
                 IN c.active => ~Past(c, real) /\ c.ends > at}
  IN Repair([people EXCEPT !.reservations = Picked(@, kept)])

PruneEndedAssignments(at) ==
  Repair([people EXCEPT
    !.assignments = [i \in DOMAIN @ |->
       [people.assignments[i] EXCEPT !.active =
          @ /\ people.assignments[i].ends > at]]])

Tick ==
  /\ now < MaxNow
  /\ now' = now + 1
  /\ UNCHANGED <<people, used, scene, commands>>

----------------------------------------------------------------------------
PopulationCommand ==
  \/ \E mode \in {"manual", "hybrid"} : SetPopulation(mode)
  \/ \E p \in scene.populationIds, c \in scene.contributions :
       CreatePopulationGroup(p, c) \/ UpdatePopulationGroup(p, c)
  \/ \E p \in scene.populationIds : DeletePopulationGroup(p)

GroupCommand ==
  \E id \in scene.groupIds :
    \/ \E g \in scene.groups : CreateOperationalGroup(id, g)
    \/ \E patch \in scene.patches : UpdateOperationalGroup(id, patch)
    \/ DeleteOperationalGroup(id)

NotableCommand ==
  \E n \in scene.notableIds :
    \/ \E a \in Actor \cup {Inline} : CreateNotable(n, a) \/ UpdateNotable(n, a)
    \/ DeleteNotable(n)

RoleCommand ==
  \E r \in Role :
    \/ \E g \in scene.groupIds \cup {None}, s \in scene.occupants :
         CreateRole(r, g, s)
    \/ \E n \in scene.notableIds : AssignRole(r, n) \/ UnassignRole(r, n)
    \/ DeleteRole(r)

WorkCommand ==
  \/ \E c \in scene.assignments, forced \in BOOLEAN : CreateAssignment(c, forced)
  \/ \E c \in scene.reservations, forced \in BOOLEAN : CreateReservation(c, forced)
  \/ \E i \in 1 .. scene.max : CancelAssignment(i) \/ ReleaseReservation(i)

RepairCommand ==
  \/ \E old, new \in scene.notableIds :
       /\ scene.careful => new \in DOMAIN people.notables
       /\ RelinkNotable(old, new)
  \/ PurgeDanglingOccupants \/ RepairExplicitGroupSizes
  \/ \E at \in scene.instants :
       \/ \E real \in {now} \cup scene.instants : PruneExpiredReservations(real, at)
       \/ PruneEndedAssignments(at)

Next ==
  \/ PopulationCommand \/ GroupCommand \/ NotableCommand \/ RoleCommand
  \/ WorkCommand \/ RepairCommand \/ Tick

Spec == Init /\ [][Next]_vars

----------------------------------------------------------------------------
(***************************************************************************)
(* What a command leaves passes the validation of the next read, which     *)
(* would throw for every later command of the Domain.                      *)
(***************************************************************************)
ReadBack == Readable(people)

\* Relinks name somebody who is there, or at least have an id to name.
RelinksNameIds == scene.careful \/ scene.notableIds \subseteq NotableId

(***************************************************************************)
(* Who fills a role is a notable of the Domain.                            *)
(***************************************************************************)
RolesFilledByPeople == Filled(people)

\* The data are of their type, and so are the ids, the clock and the scene.
TypeOK ==
  /\ IsData(people) /\ used \subseteq Id \cup Role
  /\ now \in 0 .. MaxNow
  /\ scene \in Scenes /\ commands \in 0 .. scene.max

(***************************************************************************)
(* No command, and no repair, leaves data that its successors cannot read, *)
(* or a role filled by somebody who is gone.                               *)
(***************************************************************************)
Consistent == TypeOK /\ ReadBack /\ RolesFilledByPeople

Commits(forced) ==
  \/ \E c \in scene.assignments : CreateAssignment(c, forced)
  \/ \E c \in scene.reservations : CreateReservation(c, forced)

\* A step that only a forced command takes.
Forced == Commits(TRUE) /\ ~Commits(FALSE)

sources == <<people.populations, people.groups, DOMAIN people.notables>>

TradeShort(t) == AtLeastZero(-TradeLeft(people, t))

SourceShort(s, t, at) ==
  LET cs == Commitments(people)
      of == {i \in DOMAIN cs : /\ Counts(cs[i]) /\ cs[i].source = s
                              /\ cs[i].trade = t
                              /\ cs[i].starts <= at /\ at < cs[i].ends}
  IN AtLeastZero(AmountOf(cs, of) - SourceCapacity(people, s, t))

(***************************************************************************)
(* While the sources of workforce stay, no trade, and no source at any     *)
(* time, is promised further beyond what it has, unless by a command that  *)
(* says so                                                                 *)
(* (src/Documentos/99_DOMAIN_MANAGER_MASTER_SPECIFICATION_V1.md:1044): not *)
(* by commitments of another trade, nor as some end, expire, are taken     *)
(* back or pruned.                                                         *)
(***************************************************************************)
PromisedWithinMeans ==
  [][\/ Forced
     \/ sources' # sources
     \/ \A t \in Trade :
          /\ TradeShort(t)' <= TradeShort(t)
          /\ \A s \in Sources(people), at \in scene.instants \ {Anytime} :
               SourceShort(s, t, at)' <= SourceShort(s, t, at)]_vars
=============================================================================
