# Domain Manager in TLA+

Domain Manager is a Foundry VTT module. Every client of a world (Game Masters
and players) runs the same TypeScript in one JavaScript thread; one Game Master
client, elected by all, is the *Primary Authority* and executes every command
that changes the world. This directory holds TLA+ specifications of that
machinery, TLC configurations that check them on small instances, and TLAPS
proofs for every instance. Line numbers below are of files under `src/src/`.

## 1. What the system consists of

| part | state it keeps | operations | what can go wrong |
|---|---|---|---|
| **Lock manager** `mutations/lock-manager.ts` | owner, hold count and handles per key; a queue per key | acquire, timeout, abort, release, transfer to recovery | lost wakeups, starvation, a grant beside a timeout, nested acquisitions |
| **Command pipeline** `commands/command-bus.ts`, `-queue.ts`, `-dedupe-store.ts` | remembered commands and receipts, permits, waiting commands, abort controllers | dispatch, duplicate, cancel, execute, answer | a duplicate that executes again, an answer that never comes, a cancelled command with an effect |
| **Mutation kernel** `mutations/*` | transaction records in memory and in the journal, locks, fences, effects of steps | prepare, step, enter committing, commit the parent, compensate, isolate, scan, recover | crash between any two steps, failing flushes, the scan beside running sessions |
| **Primary authority** `authority/*`, `main.ts`, `bootstrap/domain-manager-runtime.ts` | per client: users it sees, elected user, epoch, whether mutations are enabled | reconcile, synchronize, transition, hooks | several clients with different views, writes that fail or arrive late, failover in a transaction |
| **Domain repository** `storage/*`, `domains/*` | one journal entry per Domain, an index per client | create, save, archive, restore, query | checks separated from writes by a round trip, indexes left behind |
| **Economy** `economy/*` | accounts and receipts in Domain documents; ledger and reservations in memory and in snapshots; thresholds | adjust, transfer, convert, open, close, reserve, consume, release, reverse, recover | several stores per operation, each with its own flush; recovery that compares balances others have changed |
| **Economy providers** `economy/providers/*` | balances and the record of operations of a provider | adjust, reconcile, compensate, recover | an outcome nobody knows, an operation repeated |
| **Projects, facilities, downtime** | entries inside a Domain's document | start, advance, complete, cancel; create, maintain, repair, damage; begin, tick, resolve | composite commands and their compensators, recovery that guesses from the document whether a command got through |
| **People** `people/*` | populations, groups, notables, roles, assignments, reservations inside a Domain's document | twenty commands | data the next read refuses, promises beyond what there is |
| reads and display: aggregation, projection, UI, diagnostics, relations | none, or caches | queries | visibility and staleness |

They interact like this. A UI or API call becomes a command envelope; the
transport carries it to the authority's client; the *pipeline* admits,
deduplicates, orders and runs it; its handler runs under the `MutationCoordinator`,
which checks the recovery *fences*, takes *locks*, reads fresh state, plans and
commits; composite commands commit through a `CompositeMutationSession`, which
checkpoints every step in the *transaction store*, and whatever cannot be
finished is isolated and left to *recovery*. Effects are documents written
through the *Domain repository* and the economy's stores. A change of authority
disables mutations, reconciles, scans and fences, and enables them again.

The hard behaviour is all in the `await`s: between any two of them another
command, timer, socket message or hook may run, a write may fail, and the page
may be closed. `PROJECT.json` lists the hazards line by line.

## 2. The plan

| order | module | covers | state |
|---|---|---|---|
| 1 | `LockManager`, `LockQueues` | the lock manager; the queues as written refine the abstract order | checked and proved |
| 2 | `CommandPipeline` | bus, queue, dedupe store | checked and proved |
| 3 | `MutationKernel` | session, transaction store, recovery, fences, coordinator | checked; proved without a scan beside sessions |
| 4 | `PrimaryAuthority` | election, epochs, hooks, barrier | checked; barrier, epochs and the agreed choice proved |
| 5 | `DomainTree` | repository, hierarchy, index, domain commands | checked and proved |
| 6 | `Economy`, `Bank` | native accounts, ledger, reservations and their recovery; they implement a bank whose operations are single steps | checked; the books balance: proved |
| 7 | `ProviderAccounts` | adjustments through a provider, alone or as a step of a parent, with their recovery | checked and proved, for restarts that lose no compensation |
| 8 | `DomainWork`, `Projects`, `Facilities`, `Downtime`, `DomainCommands` | the commands of one Domain, their sessions, compensators and recovery | checked |
| 9 | `People` | every command on the people of a Domain | checked; readable data, filled roles and covered promises proved |
| 10 | `RecoveryLocks` | the handles the recovery service holds, over `LockManager` | planned |
| 11 | `Transport` | requests, timeouts and answers between clients, around the pipeline | planned |
| 12 | `Thresholds` | crossings, reported once per crossing | planned |

`DomainCommands` composes `Projects`, `Facilities` and `Downtime`, which share the
state and the session of `DomainWork`. Two abstract specifications are
implemented: `LockManager`, a queue of requests, by `LockQueues`, and `Bank` by
`Economy`. An atomic command (all effects and a durable record, or none) that
`MutationKernel` implements is still to be stated. Theorems worth proving next: that
refinement; a project that ended keeps its end, and pledges match the projects
(`DomainCommands`).

Each module keeps one action per run to completion: JavaScript runs from one
`await` to the next without interruption, so the code between two awaits is one
step, and every `await` on a lock, a permit, a write or another client is a
state in which others run.

## 3. LockManager, LockQueues

`owner` and `depth` are the `currentOwnerId` and `reentrantDepth` of each key,
`handle` says where each request is in its life, and `seq` holds the sequence
number in its handle id: `#enqueue` puts a request in the queues of all its keys
at once, so every queue is in the order of these numbers. Acquire covers the
fast path, reentrancy and the queue; the timer and the signal end a wait; Release
and Transfer are the handle's methods. The loop of `#processQueues` is part of
the step of every method that ends with it (`Settle`), stated in one formula.
`LockQueues` has one queue per key and the loop as written: a pass over the heads
is a step, which grants one request, in every order of the keys. While the loop
runs no other method does (`processingQueues`, as the code's flag): JavaScript runs a
method to its end. `LockQueues` extends `LockManager`, whose variables it takes for what
the callers see, and declares its own for what the manager works on; the two agree
whenever a method has returned (`Return`). So seen it implements `LockManager`
(`ImplementsLockManager`): entering the loop and each pass of it change nothing the
callers see, and the end of the loop shows them the whole method.

What callers do is part of the model: an owner that lost its handle to recovery
asks for no more locks (the coordinator's `finally` only releases), and only the
sole handle of an owner is transferred.

* `lock_core`: four owners, one of them recovery, nested acquisitions and
  crossing keys, timers on some requests, a signal on one, a transfer:
  exclusion, no lost wakeup, no overtaking. A waiter of the
  new owner of a transferred key is exempt from the wakeup: `transferLock`
  processes no queue, and the next release does. `EveryWaiterServed`: a request
  without timer or signal that waits is granted, if whoever holds keys releases
  them (weak fairness of `Release` only: the code releases in a `finally`).
  Timers and signals owe nothing.
* `lock_queues`: the refinement, on the same requests.

Two keys and six requests give every relation between two requests (nested,
same key, crossing keys, disjoint) together with a third that waits.

## 4. CommandPipeline

Each *delivery* is one arrival of a command at the authority; several may carry
the same id, with the same content or another (`fingerprint`). The state is what
the bus remembers (`remembered` in the order of use, `entry`, `expired`), the
permits (`runningCount`) and the waiting list with its priorities, and in `pc`
where each execution stands: admitted, waiting for a permit, granted, executing,
performed, done. Envelope, rate-limit and permission checks are one refusal; the
result is a token. `Expire` is the TTL of remembered results, after which
repeating a command is allowed by design.

* `pipeline_core`: three deliveries of users, two of them of one command with
  equal or different content, and one of the system, one permit, cancellation
  and expiry: `SharedExecution` (one execution of a command at a time),
  `TrueReceipts` (an answer says what happened), `NoOvertaking` (permits in the
  order of priority and arrival), and, in `Consistent`, `PermitsAccounted` (no
  permit is leaked or handed out twice) and `CancelledBeforeCommit`.
* `pipeline_answers`: without cancellation every admitted delivery, duplicates
  included, is answered. Fairness: the continuation of each delivery is run by
  the event loop once what it awaits is there; nothing is assumed of clients.
## 5. MutationKernel

One transaction per composite command. `record` is the transaction store in
memory, `disk` its durable snapshot, `undo` what a durable operation restores
when its flush fails, `journal` the steps of the session, `pc` where the command
or its recovery is, `effect` and `parent` what it has done, `holder` who has its
keys (section 3 justifies one holder per transaction), `fences` the recovery
fences, `scan` the recovery scan. A step is: check, checkpoint the intent,
flush, effect, receipt, flush. Child effects are atomic and happen once (their
services look their `operationRef` up). A flush may fail, or report an earlier
failure although its own write went through (`#lastPersistError`). A crash throws
away everything but `disk` and the effects. States a record passes within one
run to completion (`planned`, `claimed`) are not separated. The scan runs
`scanOnStartup` and `recoverAll`; no composite command sets `safeAutoRecovery`,
so finishing a recovery is a service call of a Game Master (`Recover`).

* `kernel_core`: two commands of two steps on one Domain. Without a scan beside
  sessions: two failures, or a failure and a crash, at every point. With the
  scan started again and again beside them, as every change of users makes it:
  no failures. Intents are durable before effects (`WriteAhead`), effects are
  all or nothing once an outcome is recorded (`AtomicOutcome`), children stand
  under a parent that stands (`NeverUndoneUnderParent`), answered means durable
  (`ExecutedIsDurable`), unresolved scopes admit nobody (`ScopeIsolated`,
  `UnresolvedFenced`; these three are parts of `Consistent`), final is final (`OutcomeIsFinal`), and without a scan
  beside it a command that asked for its keys comes to an end (`CommandEnds`)
  under weak fairness of the event loop as a whole: while some command,
  session, lock timer or scan can go on, one of them does; nobody has to submit,
  start a recovery or crash.
Two commands are the least that compete for a scope, two steps the least that
leave a prefix of effects, and TLC places failures and crashes at every point.

## 6. PrimaryAuthority

Users are numbers in the order of their ids (the election takes the least
active Game Master unless another is preferred). The server has the users
online, the preference, the persisted authority state and the transaction
journal; each client has an inbox of updates in server order, its local replica,
the stage of its start (`loading`; `opening`: the first transition; `settling`:
the first barrier, when another transition overtook that one; `open`), its
service's state, the phase of the transition that runs, how many wait behind
it, whether commands are enabled, and its transaction store and fences.

Foundry's server and sockets are external. The journal is replicated when a
page loads; a scan fences everything at its start and ends in one step; a
transaction begins and ends with its record persisted; a write under way when
the page closes lands or is lost. `MaxEvents` bounds connections, departures and
preferences, `MaxFaults` failing writes, scans and starts.

* `authority_core`: two Game Masters, three events, one fault: they can come, go
  and come back around each other's barriers. `BarrierHolds`: commands are
  enabled only when no transition is under way and, on the authority, every
  record it knows is its own or fenced. `ChoiceAgreed`: with all messages
  delivered, the clients that listen agree. `EpochAdvances`: a client's epoch
  never falls and rises with its authority. `TransitionsEnd`: every transition
  ends although each may ask for another. Weak fairness: clients run their
  promises and handle their updates, the server handles writes. With four events
  and without the fairness there are 2.4 million states, and the safety
  properties hold as well.

`AuthorityAlone.cfg` stands beside the runs: one Game Master and a player, five
events: reload and crash lose no record (`RecordsSurvive`), the interrupted
transactions are known (`AuthorityKnows`) and the choice is saved
(`AuthorityPersisted`). With two Game Masters in turn none of the three holds
(section 13).

## 7. DomainTree

`docs` are the journal entries (revision, parent, lifecycle), `cmd` the commands:
queued, then *writing* with the record they sent, holding their keys, then done.
`Start` is everything from the grant of the locks to the sending of the update:
the awaits in between let only commands with other keys run, and they change
nothing it looks at before its own check. Renames and moves (`domain:update`)
carry the version their client read; archive, restore and the saves of the other
services (`edit`) read after locking. `Delete` is Foundry's own sidebar. A create
locks its parent by uuid, every other command by id, as in the code. An update
that is applied although its answer is an error is not modelled, nor is an
update that changes the lifecycle directly.

* `tree_core`: three commands on three Domains (three are needed for a cycle
  that is not a swap), any of them a change of parent, one deletion:
  `WritesCurrent` (a write replaces what its command read),
  `OnlyCrossingMovesClose`, `IndexAgrees`.

No key keeps two changes of parent apart, and each is checked against what has
landed: that the hierarchy is `Acyclic` is not true of the code, and `TreeCycle`
reproduces the cycle. What the checks do keep is `OnlyCrossingMovesClose`. A state
is `Sound` when the hierarchy is a forest and each move under way, landing next,
would leave one; two moves *cross* when each goes below what the other one moves.
From a sound state in which no two cross, every step leads to a sound state, with
all three commands moves under way at once. The run sets `MaxMoves` to the number of
commands, where it bounds nothing; `TreeCycle` needs two.

## 8. Economy, Bank

`account` and `receipt` are in the Domain documents, on the server; `ledger`,
`resv` and `tx` are what the authority has in memory, `saved`, `resvSaved` and
`txSaved` the snapshots, which are written whole, by the commands' own flushes and
behind their backs (`Persist`; only a crash tells the difference, so it is a step
only while one may come). `op` holds the commands, numbered in the order they get
their keys. `Start...` is what a command reads and plans under its locks; each
later action is the code between two awaits: for a transfer the record, its
flush, the debit, the credit with both entries, the flush of the ledger, the
record again, and the rollback when the credit fails. `Crash` loses the memory and
scans the journal, and recovery goes through what it found before commands start
again: by the entries and by the balances it compares with those of before the
move (`ReconcileMove`), then by putting balances back (`RestoreBalances`) and
taking entries back (`BookRestored`). The flushes of the ledger and of the record
within a recovery are one step; a Game Master's own retry of a recovery is left
out. Resources have the policy "block" and no negative balances.

`Bank` is what all this should amount to: an operation is one step, only what is
available moves or is held, and what is held is spent or freed once. `Settled`
takes a move that is under way for not yet made, and `Held` counts what is between
a reservation and its command as held.

* `economy_core`: three commands of every kind over two accounts with gold and
  one that may be opened, amounts of one, a failing write or flush anywhere, a
  rollback that may fail as well, and a restart in the middle of a transfer,
  conversion or keyed adjustment. `BooksAgree` (with nothing open on it, an
  account has its opening balance and the sum of its entries), `MovesBooked` (a
  move is booked on both sides or on none; in `Consistent`), `KeyedOnce` (a keyed
  adjustment and its compensation have their effect once) and `ImplementsBank`.

Three commands are the least in which one is recovered, another has changed what
its recovery compares, and a third sees the result. What the run leaves out, each
because the code does not survive it (section 13): a crash after a flush that
failed, or in an adjustment without a key; the reversal of a reversal; an account
opened again over a closed one with a balance.

## 9. ProviderAccounts

The balance is the provider's (`prov`: balances and the record of operations, one
snapshot). An adjustment of its own has a transaction record; a step of a parent
has none, and the parent compensates it by reference: at once, or after a restart,
and again if that failed (`parent` says which). `Outcome` is
`reconcileProviderAdjustment`: the provider is asked whether it wrote and the
ledger whether it has the entry. The call of the provider may be refused, lose its
answer, or have its effect and lose its answer. The compensator of the recovery is
step by step too: what it reverts, the entry that compensates (appended only if an
earlier recovery that was cut off left none), the flush of the ledger and that of the
journal are apart, and a restart may come between any two of them. That the last
of these flushes fails is left out.

* `provider_core`: three commands on two accounts, one failure, one restart.
  `ProviderAgrees`: with nothing open on an account, the provider has what the
  ledger explains. `AdjustResolved`: after a recovery the journal's verdict is
  true of the provider. `BookedOnce`, in `Consistent`: nothing has two entries.

The restart of the core instance does not come right after a compensation whose
flush failed; `ProviderStray.cfg` shows what happens then. A second restart may
come half way through the recovery after the first (`HalfReverted`,
`ProviderAccountsProofs`): section 13.

## 10. DomainWork, Projects, Facilities, Downtime, DomainCommands

One Domain, one resource, one type of workforce. `domain` is the document with
its account, its reservations of funds (`hold`) and of workforce (`crew`), one per
project, and its projects, facilities and activities; `tx` is the composite
command that is open: its steps in order, where it stands, what the journal knows
of each, what of it is marked as compensated. `DomainWork` has the session
(intend, execute, receipt, checkpoint, enter committing, save, finish), its
failures, the crash and the compensation, from the side of their callers; the
journal is coarser than in `MutationKernel`, which has checked its flushes: here
one that fails leaves the record as it was. `Projects`, `Facilities` and
`Downtime` give each command its checks, its steps, the document it writes, how
its compensator decides that the document had been written (`...Shown`) and in
which order it undoes the steps (`...Order`, where 0 stands for the document
itself). `DomainCommands` puts them together: they share funds, workforce and
facilities.

A command holds its Domain's key and an unresolved transaction keeps it, so
sessions follow one another. Ids of projects are slots that a new project may use
again after the old one ended. Outcome handlers of other modules are external; a
facility a project requires blocks it as the code does; contributors and workforce
allocations are not passed by any command; ticks and batches without a caller, and
marks that cannot be saved, are left out.

* `works_core`: five scenes, each the commands that share state: projects from
  start to completion or cancellation; their pauses and blocks; facilities;
  activities; and activities beside a project and a damaged facility. At most five
  commands, one failure and one restart at any step, recovery by the Game Master.
  With no transaction open, the funds are what the documents account for
  (`Settled`), and reservations, workforce and facilities belong to living or
  completed projects (`PledgesMatch`). `EndedForGood`: a project that ended keeps
  its end and what it gave. `Consistent` includes that no workforce is taken on
  beyond what there is. `TransactionsEnd`, under weak fairness of the session (its
  handler runs on) and of compensation: the recovery a Game Master has to start
  counts as started at some time.
* `downtime_reopened`, a violation: an activity that has ended is taken up again.

What may be unknown or late in the core instance is what the code survives: the
outcome of a payment, a reservation, a hire, their release, and of building; a
late failure of the saves of maintenance, repair and completion. Section 13 names
each case that is left out and what it does. `Delta` is positive: work goes back
only in one of these.

## 11. People

`people` is the data of the capability: the population by groups and trades,
operational groups with their members and sizes, notables, roles with their
occupants, assignments and reservations. All commands run under the key of the
Domain and write once, so each is one step; what it leaves is validated by every
later read, which throws on data that do not pass, and thereby stops every later
command of the Domain. `now` is the clock of the client (reservations expire by
it), `ends` the world time up to which a commitment counts.

Ids are new for every entry; `Id` has those of groups and notables, `NotableId` those
in the format of a notable's (`not_` and a uuid), which a read demands of notables,
members and occupants (`OpaqueIds`). A command that names a notable looks it up; only
a relink takes its new id as it is given. A repair prunes reservations by the time the
Game Master gives, or else by the clock. Names, visibility, permissions and the figures of
the population that no check reads are left out; the reservations of projects are
in `DomainWork`.

* `people_core`: two scenes of at most four commands from data that commands
  lead to: the workforce of a population, a group and a notable under assignments,
  reservations, expiry, pruning and changes of the groups; and notables, groups
  with members and roles under deletions and repairs. `Consistent`: what any
  command leaves can be read, and roles are filled by people who are there.
  `PromisedWithinMeans`: while the sources stay, nobody but a Game Master who
  forces it promises a trade or a source further beyond what it has, whatever
  ends, expires or is pruned in between.

`Picked` is a filter on a sequence, by counting rather than by recursion, so that it
can be reasoned about; `With` and `Without` add to and take from a list of entries,
which is kept by id. The notable of the core works in one trade, and a Game Master
relinks to notables that exist; section 13 has the other cases.

## 12. What is proved

The theorems hold for every value of the constants, from the named assumptions of each
module only (`ConstantsAssumption`, `PipelineAssumption`, `KernelAssumption`,
`UserAssumption`, `BoundAssumption`, `DomainTreeAssumption`, `DocumentAssumption`,
`EconomyAssumption`, `ProviderAssumption`, `PeopleAssumption`, `SceneAssumption`:
finiteness where a number is counted, null values that are not members, a least Game
Master in every set of them, data and inputs of their types). Where a theorem has a
hypothesis of its own, it is named below with the behaviour that makes it necessary. TLC
checked each inductive invariant on the instances of section 2 to 11 before it was
proved.

**LockManager** (`LockManagerProofs`). `TypeCorrect`, `AccountingHolds`,
`MutualExclusionHolds` and `NoWakeupIsLost` are invariants, `GrantsInOrder` is
the action property `NoOvertaking`. None of them is inductive alone. `LockInv`
adds that a key's owner and depth are those of the handles held on it, that
waiting requests have distinct numbers, and that the owner of a moved handle
holds and awaits nothing. The loop of `#processQueues` is treated once, in lemmas
about what `Settle` leaves given what the method before it left; each method
then has a lemma of its own.

`QueuesImplementLockManager` is the refinement of `LockQueues`, for `ImplementsLockManager`,
with `QueuesStayOrdered` for the queues themselves. `QueueInv` says that the queue of a key
holds who waits for it in the order of the numbers (`Spliced` and `Appended` are the two
things that happen to a queue), and of a loop in progress from where it set out
(`Entered`) and that everybody granted so far is somebody whom `Drains` grants, with the owners
and depths that come of it (`Granting`). `GrantOne` keeps that over a pass: who is at the
head of all its queues was behind nobody who still waits, and a key granted
in this loop is its owner's. `AllGranted` is the converse at the end: somebody whom `Drains`
grants and the loop did not would head its queues and find its keys its own or
free. So the order of the heads does not matter, and `QueuesServe` gives the callers
of the queues what the theorems above prove of `LockManager`.

**CommandPipeline** (`CommandPipelineProofs`). `PermitsNeverLeak` and
`NobodyOvertaken` need nothing of the dedupe store. Their invariant `QueueInv` says that
the waiting list is ordered by priority and arrival and holds exactly the
deliveries that wait, that the permits out are those of the deliveries that have
one, and that nobody waits while a permit is free. `PipelineConsistent`,
`ExecutionShared` and `ReceiptsTrue` rest on `Books`: an entry in flight belongs to
one delivery that has not come to its end, a finished entry says what its
delivery did, and who joined an entry waits for its delivery. They hold as
long as what a claim pushes out of a full store is not in flight
(`SparesPending`); `PipelineEviction` in section 13 shows what happens otherwise.
`RoomSuffices` discharges it: a store with room for every command that was sent
pushes out nothing that is in flight. The code's store has room for 5000 entries, and
nothing keeps the commands in it below that number, so this is a hypothesis and not an
assumption. The store is an ordered sequence from which
entries go; `FilteredPicks` and `FilteredHas` are the lemmas about
`Filtered`, which is defined by counting and not by recursion for that reason.
TLC checked the two invariants together on 904,720 states of `PipelineCore` and 512,256
states with a store that is too small and a claim that respects `SparesPending`.

**MutationKernel** (`MutationKernelProofs`). `KernelConsistent`,
`KernelWriteAhead`, `KernelAtomicOutcome`, `KernelNeverUndone` and, for the action
property, `KernelOutcomeIsFinal`. Four things have to agree: the record in memory, the
one on the disk, the one a failed flush goes back to, and the journal of the
session. A crash picks the second, a failed flush the third, recovery the
fourth; so `RecordsInv` says that each of the three records is `Sound` at every
await (what stands is to be compensated, an outcome is true), and that where a
step turns on the disk nothing saved awaits its flush (`Synced`). `JournalInv`
says that the session knows what stands; `Exclusive` that of two transactions in
conflict at most one is unresolved, in memory or on the disk, and only who holds
its keys works on it. The theorems assume `LiveScan = {FALSE}`, a recovery scan that
runs while no session does, as in the safe mode a transition enters, and
`~LateParentError`, a parent write that fails was not applied. Section 13 has the
counterexample for each. `KernelCore` checks without them the combinations that do hold
(scans beside sessions, without failures), and those stay with TLC. TLC checked
the invariant on three instances (265,089, 730,437 and 531,696 states).

**PrimaryAuthority** (`PrimaryAuthorityProofs`). `TypesHold`,
`BarrierAlwaysHolds`, and `EpochsAdvance` for `EpochAdvances`. The barrier is not
inductive: `AuthorityInv` adds `ScanCovers` (a scan that nothing overtook fits
the epoch and fences the store), `InSession` (a client that runs is among the
users it sees) and the messages that can be on their way (nobody is told of
itself: this is why a client whose `userConnected` hook is not registered yet
cannot become elected by a change of users it ignores). `ChoiceIsAgreed`, for `ChoiceAgreed`, needs
a second one: what a client sees and the messages on their way to it make up the
users there are, and a client that owes no transition holds the choice its own
copy makes. Both were checked on 2,434,347 states.

**DomainTree** (`DomainTreeProofs`). `TypesHold`, `WritesAreCurrent`,
`IndexStaysInAgreement`, and `RevisionsCountWrites` for `RevisionsCount`: the
invariant `TreeInv` says that writing commands have distinct targets, that a
writing command read the version it replaces, and that a version a waiting
command brought is the current one or has a lower revision. `CyclesTakeCrossingMoves`, for
`OnlyCrossingMovesClose`, and from it `HierarchyIsAForest` (`[]NoneCross` gives
`[]Acyclic`) hold for any number of moves in flight. They add that nobody names a
parent that was never born (`ParentsBorn`), so that a new Domain is a leaf, and rest
on `TwoMoves`: of a cycle that two moves close together, the nodes that are not
below what the second one moves are a cycle of the first one alone, unless the first
goes below it. Three moves add nothing: when the first has landed, two of the others
cross or the cycle is not closed.

**Economy** (`EconomyProofs`). `BalancesAreBooked` for `BooksAgree`, `KeysTakeEffectOnce`
for `KeyedOnce`, `AlwaysConsistent` for `Consistent` (and in it `MovesBooked`), for any
accounts, opening balances, limits, amounts, keys and commands and any number of
failures and crashes. `BooksAgree` speaks of accounts nothing is happening to; the
invariant (`IInv`, `BooksInvariant`) has to say where the money is in between. At every
await a balance is what was there at first, plus the entries of the account (`Sum`),
plus the keyed adjustments whose entry a crash has lost and whose receipt a retry
writes it from (`Orphaned`), plus what a move has written and not booked, which its
record tells the recovery to take back (`Pending`). Beside that, `EntryOK` and
`ConfirmedOK` relate entries, receipts and what is saved; `OpOK` says what each step of
a command, and a recovery, still has in its hands; `Exclusive` that one command holds an
account. A step moves the four against each other on its own
accounts and leaves all others alone: that is shown once (`Frame`, `StepKeeps`), and
each action then owes only what it does to its own. A crash turns entries that were
not saved into orphans and writes that are pending, and takes those of one
command from an account at most (`CrashRest`, `CrashBooksOK`).

The theorems assume `Survivable`: no account is opened over a closed one
(`Reopening = {}`), no reversal is reversed, a crash comes during moves and keyed
adjustments only and not after a flush that failed. Section 13 has the
counterexample without each. The run `economy_core` is of the same kind, so that it
shows states in which a crash, a failed rollback and a lost entry happen; the bounds
of that run (three commands, one failure, one crash, two resources) are what the
proof removes. The sums are those of the community modules. A library theorem of
induction over data cannot be instantiated here, so `SubsetInduction` gets it from
the well-founded order of the finite sets for a set that is named in the
statement, and `SumRemoved`, `SumChanged`, `SumAtLeast` and `SumOfZeros` follow. TLC
checked `IInv` on four instances (180,488, 841,313, 60,265 and 6,040 states; up to four
commands, two failures and three crashes).

**ProviderAccounts** (`ProviderAccountsProofs`). `ProviderConsistent`: `Consistent`,
and in it `BookedOnce`, for any accounts, commands and steps of parents, any
number of failures and restarts, and a restart at any moment (`StrayCrash` or
not). It rests on `ProviderAssumption`: references of commands and of steps are
distinct positive numbers, so that no compensation has the reference of an
operation. A command appends its entry without looking; `IInv` says why it is
not there (`FreshInv`: each command runs once; `Exclusive`: no two work for one
reference) and that what is saved is part of what is in memory (`SavedInv`), so
that a restart brings no entry back. A recovery looks before it appends, except for the
entry that compensates what it has just reverted: it found the original missing, and
`UndoneInv` says that no compensation is there without its original, and none where
a recovery has yet to append one unseen.

`ProviderResolved` and `ProviderReconciled`, for `AdjustResolved` and
`ProviderAgrees`, need more. `Truth` relates four facts about a reference (it and its
compensation, done at the provider and in the ledger) to what the records, the
parents and the places commands have come to say: nothing of an
adjustment is there before its record is saved; a step whose parent is closed
stands and is saved, or is compensated wherever it is; an unresolved record whose
compensation is booked has it saved at the provider, or was never written there, so
that the recovery can tell.
`Money` says that balances and books are made of those references, each with the
account and amount of its record or step: a balance is the opening balance and the
`Effect` of what is done, and the entries of an account add up to the `Effect` of
what is booked (`BookAddsUp`). On an account at rest the two have the same `Left` of
every reference (`LeftAlike`), and so agree. The two theorems assume `~StrayCrash`, as
the run does, and `Crash => ~HalfReverted`: a restart does not find that the provider has
saved the compensation of an adjustment, the ledger its original entry, and the
journal nothing of it. Only a recovery leaves that behind, between its first flush
and its last, so a first restart always satisfies it; section 13 has the
counterexamples without each. The sums are proved as for `Economy`. TLC checked the
two invariants on three instances before (one to three commands, up to two failures
and three restarts); a recovery that finds the compensation an earlier one left takes
two restarts, and so is in those and in the theorems but not in `provider_core`.

**People** (`PeopleProofs`). `DataStayReadable`: what a command or a repair leaves
passes the next read, for any scenes of typed inputs, as long as relinks name ids that
are notables', there or not (`RelinksNameIds`); `OnlyStrayRelinksGarble` needs no such
condition: the one step from data that can be read to data on which every later
command throws, the repairs among them, is a relink to another id. `NextNamed` is the
part about ids, from who may be named by which command. A read counts the
notables of each actor, which is not an inductive thing to say: `Good` says instead
that no two notables are the same actor (`GoodIsReadable`, `ReadableIsGood`), that
occupants fit their role and members their group. `PickedHas` is what makes it stay: what
is picked from a sequence is in it, is not longer, and is injective where what it
picks is; `DistinctHas`, `KnownHas` and `RelinkedHas` follow for the repairs.
`PeopleConsistent`, for `Consistent`, adds `Filled` and needs a hypothesis,
`AlwaysCareful`: who relinks a notable names one who is there, which the code does
not look up (section 13). A notable that fills a role is not deleted, and
roles are not filled by anybody else, so that no id of a notable that is gone
can be left. A scene opens with data that a read accepts, finitely many sources and
roles filled by notables that are there (`SceneAssumption`); an empty Domain is one of
these.

`PromisesKept`, for `PromisedWithinMeans`, is about differences of sums over sets of positions:
what a trade has, from groups, populations and the notables that work in it, less what
the commitments that count ask for. `StepIs` says what a step does to the
commitments: it is forced; or it leaves no more than there were (`Fewer`, an injection
of positions under which a commitment may have ended); or it adds one (`OneMore`) that
its source and its trade cover (`Promised`). That what ends never deepens a shortage is
not obvious: a notable counts for a trade only while a commitment that counts names it, so
an end can take a unit of capacity along. `TradeFewer` shows that the trade loses no more
units than commitments, each of at least one unit (both validators refuse other
amounts, `assignment-types.ts:175` and `349`). For what is added the check of the
source is at the start of the commitment, and `SourceMore` carries it to every later
instant at which it counts: what is asked of the source then was counted at the start as well.
The hypothesis is `WithinOneTrade`, at every moment: the commitments of a notable that
count are of one trade. `TwoTradesScenes` in section 13 is the counterexample
without it: the unit goes to the trade of the first commitment, and which is
the first changes as commitments end. The scenes of `people_core` satisfy it
throughout.

Only model-checked: the kernel with a scan beside its sessions;
`Settled`, the `Staffed` of `DomainCommands`,
`PledgesMatch` and `EndedForGood`, which rest on the
orders of compensation; the refinement of `Bank` by `Economy`; and all
liveness, which rests on fairness and `ENABLED`.

## 13. What the code does not keep

One violation is a run (`downtime_reopened`), and `findings` in `PROJECT.json` quotes what it
contradicts. The instances below are not runs; TLC ends each with a counterexample
to the property named. A name alone is a configuration beside the runs; "X with"
is the configuration X changed as said, with the property in the place of its
own. Each shows a behaviour of the code that a hazard in `PROJECT.json` points at.

| configuration | property | what happens | where |
|---|---|---|---|
| `LockNested` | `NestedNeverWaits` | a nested acquisition waits behind a command that waits for its owner | `mutations/lock-manager.ts:287` |
| `PipelineEviction` | `SharedExecution` | a full dedupe store evicts the entry of a command that executes; `command-dedupe-store.ts:103` promises that requests "share the same in-flight execution" | `commands/command-dedupe-store.ts:163` |
| `PipelineAnswers` with `Cancellable = {c1}` | `EveryDeliveryAnswered` | a command cancelled before its permit leaves its duplicates waiting | `commands/command-bus.ts:472` |
| `PipelineAnswers` with `SPECIFICATION Spec`, `Cancellable = {e1}` | `CancelledHasNoEffect` | a handler without a commit boundary is cancelled after its effect | `commands/command-bus.ts:563` |
| `PipelineAnswers` with `SPECIFICATION Spec` | `NoEffectInSafeMode` | a command admitted before safe mode has its effect in it | `commands/command-bus.ts:317` |
| the same | `NothingAdmittedInSafeMode` | economy commands are admitted in safe mode | `commands/command-bus.ts:317` |
| `KernelScanStale` | `OutcomeIsFinal` | the scan waits for one session's keys and puts another, committed meanwhile, back to needs-recovery | `mutations/recovery-service.ts:120` |
| `KernelCore` with `Steps = 1`, `MaxFaults = 1`, `MaxFailures <- OneFailure`, `LiveScan = {TRUE}` | `WriteAhead` | a scan whose flush fails puts older records back | `mutations/recovery-service.ts:176` |
| the same with `LiveScan = {FALSE}`, `LateParentError = TRUE` | `NeverUndoneUnderParent` | a parent write that lands and then reports an error loses its children | `mutations/composite-mutation-session.ts:457` |
| `AuthorityErased` | `RecordsSurvive` | a new authority's first save erases its predecessor's records | `mutations/transaction-store.ts:246` |
| `AuthorityCore` with `Txs = {}`, `MaxFaults = 0`, `MaxEvents = 4` | `EveryoneAgrees` | users change while `ready` awaits its barrier | `main.ts:81` |
| the same | `EpochsConverge` | clients that agree on the authority keep different epochs | `authority/primary-authority-service.ts:152` |
| the same | `OneAuthority` | two clients accept commands at the same time | `authority/primary-authority-service.ts:118` |
| the same with `MaxEvents = 5` | `SettingMonotone` | an older write of the setting lands later | `authority/foundry-primary-authority-adapter.ts:210` |
| the same with `MaxFaults = 1` | `AuthorityPersisted` | a failed write leaves an authority nobody recorded | `authority/foundry-primary-authority-adapter.ts:209` |
| the same with `MaxFaults = 1` | `FailedStaysSafe` | an update lifts the safe mode of a failed initialization | `main.ts:47` |
| `AuthorityCore` with `MaxFaults = 0`, `MaxEvents = 4` | `AuthorityKnows` | a successor does not know what began after its page was loaded | `bootstrap/domain-manager-runtime.ts:362` |
| `TreeCycle` | `Acyclic` | two Domains are moved under each other at the same time; the Master Specification, line 8524: "cycle não pode ser salvo" | `domains/domain-command-handlers.ts:96` |
| `TreeCore` with two Domains | `NewParentActive` | the parent is archived while a creation waits for the server | `domains/domain-command-handlers.ts:26` |
| `TreeCore` with two Domains | `DetachAccepted` | a hierarchy with a cycle refuses every change of parent | `domains/domain-command-handlers.ts:96` |
| `TreeCore` with `Clients = {gm, player}` | `SeesAllChildren` | the index of a client that does not write grows stale | `storage/repositories/domain-repository.ts:254` |
| `EconomyReversal` | `BooksAgree` | the reversal of a reversal is refused after the balance was written, and the write that should take it back is refused as well | `economy/services/economy-service.ts:2917` |
| `EconomyRetry` | `BooksAgree` | the flush of a transfer's record throws, its keys are given back, and the recovery after a restart undoes a move by balances that later commands made | `economy/services/economy-service.ts:2041` |
| `EconomyRollback` | `BooksAgree` | the rollback of a source fails; nothing fences it and a later command changes what recovery compares | `economy/services/economy-service.ts:2093` |
| `EconomyCore` with `Limit <- Limits`, `Reopening = {1}`, no failure and no restart | `BooksAgree` | an account opened again over a closed one has a balance without an entry | `economy/services/economy-service.ts:904` |
| `EconomyCore` with `Ops = 1`, `CrashSafe = {"adjust"}`, `Failing = {"write"}` | `BooksAgree` | a restart between the write of a balance and the flush of its entry | `economy/services/economy-service.ts:1788` |
| `ProviderStray` | `ProviderAgrees` | a compensation repeated after its flush failed finds its operation in memory, skips the flush and closes the parent | `economy/services/economy-service.ts:470` |
| `ProviderCore` with `MaxCrashes = 2` | `AdjustResolved`, `ProviderAgrees` | a recovery that is itself cut off by a restart finds provider and entry written and commits what was compensated | `economy/services/economy-service.ts:3307` |
| `WorksCore` | `OneActivityEach` | one participant is engaged in two activities | `downtime/plans/downtime-start-plan.ts:222` |
| `WorksCore` | `ReservedCovered` | the cost of an advance is paid out of reserved funds | `projects/plans/project-advance-domain-operation-plan.ts:232` |
| `WorksCore` with `Torn = {"receipt"}` | `Settled` | a step lost before its snapshot is saved cannot be undone | `projects/plans/project-completion-domain-operation-plan.ts:382` |
| `WorksCore` with `Torn = {"restore"}` | `Settled` | a restoration cut off after the refund refunds again | `economy/services/economy-service.ts:2804` |
| `WorksCore` with `Delta <- BackAndForth` | `Settled` | a document with more work than expected is taken for written and the cost is kept | `projects/services/project-recovery-compensators.ts:285` |
| `WorksCore` with "start" in `LateSaves` | `PledgesMatch` | a start whose save lands and reports an error is undone under its document | `projects/services/project-recovery-compensators.ts:68` |
| `WorksCore` with "reward" in `Unsure` | `Settled` | a reward whose answer was lost is optional, is passed over and stays | `projects/plans/project-completion-domain-operation-plan.ts:548` |
| `WorksCore` with "consume" and "dismiss" in `Unsure` | `Settled` | a consumption whose answer was lost has no snapshot to be restored from | `projects/plans/project-completion-domain-operation-plan.ts:382` |
| `PeopleCore` with `Scenes <- TwoTradesScenes` | `PromisedWithinMeans` | a notable reserved for one trade is assigned to another; the unit moves and the first trade falls short | `people/commands/assignment-commands.ts:108` |
| `PeopleCore` with `Scenes <- RelinkScenes` | `Consistent` | a role is relinked to a notable who is not there | `people/commands/repair-commands.ts:102` |
| `PeopleCore` with `Scenes <- StrayScenes` | `ReadBack` | a role is relinked to an id in another format; every later read of the Domain throws | `people/commands/repair-commands.ts:102` |

## 14. What is not modelled

* The transport and its request timeouts, and the handles the recovery service
  holds, are planned (section 2). Thresholds: planned as well.
* Expiry of reservations, ticks and batches of projects and the health of the
  manual provider: nothing in `src/` calls them.
* Schema validation, codecs, definitions and registries, projections, aggregation,
  diagnostics, relations and the UI have no state over time whose order matters.
* Foundry and its server are the environment of each module. Wording, formatting
  and time stamps are left out everywhere; permissions are one refusal.
* `Economy`, `ProviderAccounts` and `DomainWork` see transactions and locks through
  what `MutationKernel` and `LockManager` promise; they are not composed with them
  state by state, which is beyond TLC.

## 15. Running

    tlc -workers 2 -config LockCore.cfg MCLockManager.tla
    tlapm LockManagerProofs.tla

The module and the configuration of every run are in `PROJECT.json`. The
configurations beside the runs: `AuthorityAlone` and `AuthorityErased` with
`MCPrimaryAuthority`, `Economy*` with `MCEconomy`, `KernelScanStale` with
`MCMutationKernel`, `LockNested` with `MCLockManager`, `PipelineEviction` with
`MCCommandPipeline`, `ProviderStray` with `MCProviderAccounts`, `TreeCycle` with
`MCDomainTree`. Each property of a passing run has a mutant: a definition of the
module, the mutated form that stands before it (`Mutant:` in its comment), and the
run that finds the property violated with it.
