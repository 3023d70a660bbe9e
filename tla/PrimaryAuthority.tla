-------------------------- MODULE PrimaryAuthority --------------------------
(***************************************************************************)
(* The election of the Primary Authority and the recovery barrier behind   *)
(* it, with every client of the world.                                     *)
(*                                                                         *)
(* There is no election protocol.  Each client looks at the users it       *)
(* knows to be connected and computes who the authority is                 *)
(* (primary-authority-election.ts); each counts for itself the changes it  *)
(* saw (primary-authority-service.ts); the client that finds itself        *)
(* elected writes identity and epoch to a world setting, which reaches the *)
(* others as a message (foundry-primary-authority-adapter.ts).  Whatever   *)
(* changes, a client runs handleAuthorityTransition                        *)
(* (domain-manager-runtime.ts): mutations off, one transition after the    *)
(* other, reconcile, scan the unresolved transactions if elected, and      *)
(* mutations on again unless another transition was asked for meanwhile.   *)
(*                                                                         *)
(* The server, the sockets and the replicated documents are Foundry's and  *)
(* external: one ordered channel to each client, writes acknowledged to    *)
(* the writer by its own update.                                           *)
(***************************************************************************)
EXTENDS Naturals, Sequences, FiniteSets

CONSTANTS
    Users,        \* the users of the world: numbers, in the order of their ids
    GMs,          \* those of them who are Game Masters
    Txs,          \* transactions the authority may start
    NoUser,       \* null
    MaxEvents,    \* bound: users connecting or leaving, preferences set
    MaxFaults     \* bound: writes, scans and initializations that fail

ASSUME UserAssumption ==
    /\ Users \subseteq Nat
    /\ GMs \subseteq Users
    /\ NoUser \notin Users
    /\ \A S \in SUBSET GMs : S # {} => \E g \in S : \A h \in S : g <= h
ASSUME BoundAssumption == MaxEvents \in Nat /\ MaxFaults \in Nat

VARIABLES
    online,      \* server: the users connected
    preferred,   \* server: the preferred authority, a world setting
    setting,     \* server: the persisted authority state, a world setting
    record,      \* server: the unresolved transactions in the journal document
    inbox,       \* the updates on their way to each client
    pending,     \* each client's setting write on its way to the server
    local,       \* each client's copy of users, preference and authority state
    stage,       \* how far each client's start-up is
    due,         \* transitions the start-up still waits for
    authority,   \* PrimaryAuthorityService: identity, epoch, initialized
    phase,       \* where the running transition of a client is
    waiting,     \* transitions waiting for the transition lock
    enabled,     \* CommandBus: mutations enabled
    scanned,     \* the epoch of the last startup scan, or nothing
    store,       \* TransactionStore: the unresolved transactions in memory
    fences,      \* RecoveryFenceRegistry: the fenced transactions
    running,     \* transactions this client is executing
    begun, done, \* transactions ever begun, and those that ended
    missed,      \* a presence change arrived before anyone listened
    events, faults

server   == <<online, preferred, setting>>
startup  == <<stage, due, missed>>
barrier  == <<phase, waiting, enabled, scanned, fences>>
txs      == <<record, store, running, begun, done>>
bounds   == <<events, faults>>
vars == <<server, inbox, pending, local, startup, authority, barrier, txs, bounds>>

(***************************************************************************)
(* States of the service.                                                  *)
(***************************************************************************)
Fresh == [id |-> NoUser, epoch |-> 0, initialized |-> FALSE]

None == Fresh     \* no write under way: nobody writes the uninitialized state

States == [id : Users \cup {NoUser}, epoch : Nat, initialized : BOOLEAN]

\* The client runs the module's code: composed at `ready`.
Composed(u) == stage[u] \in {"opening", "settling", "open", "failed"}

\* The userConnected hook is registered after the first barrier.
Listening(u) == stage[u] = "open"

\* onChanged is subscribed at the end of initialize, so not after a failed one.
Subscribed(u) == stage[u] \in {"opening", "settling", "open"}

\* resolvePrimaryAuthorityUserId.
Elect(view, pref) ==
    LET eligible == view \cap GMs
    IN  IF pref \in eligible THEN pref
        ELSE IF eligible = {} THEN NoUser
        ELSE CHOOSE g \in eligible : \A h \in eligible : g <= h

\* PrimaryAuthorityService.isCurrentUser in state a with the known users `view`.
IsCurrentUser(u, a, view) == a.id = u /\ u \in view \cap GMs

Elected(u) == IsCurrentUser(u, authority[u], local[u].view)

\* PrimaryAuthorityService.resolve: the state after it.
Resolve(a, next) ==
    IF ~a.initialized THEN [a EXCEPT !.id = next, !.initialized = TRUE]
    ELSE IF next \in {NoUser, a.id} THEN a
    ELSE IF a.id = NoUser THEN [a EXCEPT !.id = next]
    ELSE [a EXCEPT !.id = next, !.epoch = @ + 1]

\* Mutant: the callbacks run after every election.
NotifiesAlways(a, next) == next # NoUser

\* Its callbacks run when an initialized service changes identity.
Notifies(a, next) == a.initialized /\ next \notin {NoUser, a.id}

\* PrimaryAuthorityService.synchronizeState: two known identities at one epoch.
Conflict(a, s) ==
    /\ s.initialized
    /\ s.epoch = a.epoch
    /\ s.id # a.id
    /\ a.id # NoUser

\* Mutant: a persisted state is adopted whatever its epoch.
SynchronizeAny(a, s) == IF s.initialized /\ ~Conflict(a, s) THEN s ELSE a

\* PrimaryAuthorityService.synchronizeState: the state after it.
Synchronize(a, s) ==
    IF s.initialized /\ s.epoch >= a.epoch /\ ~Conflict(a, s) THEN s ELSE a

(***************************************************************************)
(* Transitions.                                                            *)
(***************************************************************************)

\* Mutant: a transition that ends does not look for a later one.
EndTransitionUnaware(u, w, ok) ==
    /\ phase' = [phase EXCEPT ![u] = "idle"]
    /\ enabled' = [enabled EXCEPT ![u] = ok]

\* The transition of u that runs ends and w others wait: it enables the
\* mutations if it may and none was asked for after it.
EndTransition(u, w, ok) ==
    /\ phase' = [phase EXCEPT ![u] = "idle"]
    /\ enabled' = [enabled EXCEPT ![u] = IF ok THEN @ \/ w = 0 ELSE FALSE]

\* Start-up awaits its first transition and, when that one is no longer the
\* latest, the w that wait for the lock by then; then it registers its hook.
Awaited(u, w) ==
    /\ stage' = [stage EXCEPT ![u] =
                     IF due[u] # 1 THEN @
                     ELSE IF @ = "opening" /\ w > 0 THEN "settling"
                     ELSE "open"]
    /\ due' = [due EXCEPT ![u] =
                   IF @ = 0 THEN 0
                   ELSE IF @ = 1 /\ stage[u] = "opening" THEN w
                   ELSE @ - 1]

\* After reconcile: the client that is elected, in state a, starts its scan,
\* which fences every unresolved transaction of its store; any other is done.
AfterReconcile(u, a, w) ==
    \/ /\ IsCurrentUser(u, a, local[u].view)
       /\ phase' = [phase EXCEPT ![u] = "scanning"]
       /\ scanned' = [scanned EXCEPT ![u] = {a.epoch}]
       /\ fences' = [fences EXCEPT ![u] = @ \cup store[u]]
       /\ enabled' = [enabled EXCEPT ![u] = FALSE]
       /\ UNCHANGED <<stage, due>>
    \/ /\ ~IsCurrentUser(u, a, local[u].view)
       /\ EndTransition(u, w, TRUE) /\ Awaited(u, w)
       /\ UNCHANGED <<scanned, fences>>

\* The next transition takes the lock and reconciles.  A change of identity
\* notifies the runtime, which asks for one more transition.  The elected
\* client writes what changed and awaits the acknowledgement.
Reconcile(u) ==
    /\ Composed(u)
    /\ phase[u] = "idle" /\ waiting[u] > 0
    /\ LET next == Elect(local[u].view, local[u].pref)
           a    == Resolve(authority[u], next)
           w    == IF Notifies(authority[u], next) /\ Subscribed(u)
                   THEN waiting[u] ELSE waiting[u] - 1
       IN  /\ authority' = [authority EXCEPT ![u] = a]
           /\ waiting' = [waiting EXCEPT ![u] = w]
           /\ \/ /\ a # authority[u] /\ IsCurrentUser(u, a, local[u].view)
                 /\ pending' = [pending EXCEPT ![u] = a]
                 /\ phase' = [phase EXCEPT ![u] = "writing"]
                 /\ enabled' = [enabled EXCEPT ![u] = FALSE]
                 /\ UNCHANGED <<stage, due, scanned, fences>>
              \/ /\ a = authority[u] \/ ~IsCurrentUser(u, a, local[u].view)
                 /\ AfterReconcile(u, a, w)
                 /\ UNCHANGED pending
    /\ missed' = [missed EXCEPT ![u] = FALSE]
    /\ UNCHANGED <<server, inbox, local, txs, bounds>>

\* The write was acknowledged: reconcile returns.
Written(u) ==
    /\ phase[u] = "written"
    /\ AfterReconcile(u, authority[u], waiting[u])
    /\ UNCHANGED <<server, inbox, pending, local, authority, waiting, missed, txs, bounds>>

\* The write fails: safe mode, until another transition succeeds.  This call
\* returns at once, whoever waits.
WriteFails(u) ==
    /\ phase[u] = "writing" /\ pending[u] # None
    /\ faults < MaxFaults
    /\ faults' = faults + 1
    /\ pending' = [pending EXCEPT ![u] = None]
    /\ EndTransition(u, waiting[u], FALSE) /\ Awaited(u, 0)
    /\ UNCHANGED <<server, inbox, local, authority, waiting, scanned, fences,
                   missed, txs, events>>

\* scanOnStartup and recoverAll return, or one of them throws.
ScanEnds(u) ==
    /\ phase[u] = "scanning"
    /\ \E ok \in BOOLEAN :
          /\ ok \/ faults < MaxFaults
          /\ faults' = IF ok THEN faults ELSE faults + 1
          /\ EndTransition(u, waiting[u], ok)
    /\ Awaited(u, waiting[u])
    /\ UNCHANGED <<server, inbox, pending, local, authority, waiting, scanned,
                   fences, missed, txs, events>>

(***************************************************************************)
(* Updates.  A client handles one only when none of its promises is ready  *)
(* to run, and never while it executes the steps between two awaits.       *)
(***************************************************************************)
Settled(u) == phase[u] \notin {"written"} /\ ~(phase[u] = "idle" /\ waiting[u] > 0)

\* handleAuthorityTransition up to its first await.
AskTransition(u) ==
    /\ waiting' = [waiting EXCEPT ![u] = @ + 1]
    /\ enabled' = [enabled EXCEPT ![u] = FALSE]

\* userConnected: someone connected or left.  Nobody listens before start-up
\* has awaited its first barrier.
HearPresence(u, m) ==
    /\ m.kind = "presence"
    /\ local' = [local EXCEPT ![u].view = IF m.active THEN @ \cup {m.user} ELSE @ \ {m.user}]
    /\ IF Listening(u)
       THEN AskTransition(u) /\ UNCHANGED missed
       ELSE /\ missed' = [missed EXCEPT ![u] = Composed(u)]
            /\ UNCHANGED <<waiting, enabled>>
    /\ UNCHANGED <<authority, phase>>

\* onPreferredChanged.
HearPreferred(u, m) ==
    /\ m.kind = "preferred"
    /\ local' = [local EXCEPT ![u].pref = m.user]
    /\ IF Composed(u) THEN AskTransition(u) ELSE UNCHANGED <<waiting, enabled>>
    /\ UNCHANGED <<authority, phase, missed>>

\* Mutant: a synchronized state is not followed by a transition.
HearStateOnly(u, m) ==
    /\ m.kind = "state"
    /\ local' = [local EXCEPT ![u].saved = m.state]
    /\ phase' = [phase EXCEPT ![u] = IF m.by = u /\ @ = "writing" THEN "written" ELSE @]
    /\ authority' = IF Composed(u) /\ ~Conflict(authority[u], m.state)
                    THEN [authority EXCEPT ![u] = Synchronize(@, m.state)]
                    ELSE authority
    /\ UNCHANGED <<waiting, enabled, missed>>

\* onAuthorityStateChanged: a conflict throws before the transition is asked
\* for.  The writer's own update acknowledges its write.
HearState(u, m) ==
    /\ m.kind = "state"
    /\ local' = [local EXCEPT ![u].saved = m.state]
    /\ phase' = [phase EXCEPT ![u] = IF m.by = u /\ @ = "writing" THEN "written" ELSE @]
    /\ IF Composed(u) /\ ~Conflict(authority[u], m.state)
       THEN /\ authority' = [authority EXCEPT ![u] = Synchronize(@, m.state)]
            /\ AskTransition(u)
       ELSE UNCHANGED <<authority, waiting, enabled>>
    /\ UNCHANGED missed

Deliver(u) ==
    /\ stage[u] # "offline" /\ inbox[u] # <<>> /\ Settled(u)
    /\ LET m == Head(inbox[u])
       IN  HearPresence(u, m) \/ HearPreferred(u, m) \/ HearState(u, m)
    /\ inbox' = [inbox EXCEPT ![u] = Tail(@)]
    /\ UNCHANGED <<server, pending, stage, due, scanned, fences, txs, bounds>>

(***************************************************************************)
(* Foundry: the server and the life of a client.                           *)
(***************************************************************************)
Broadcast(S, m) == [u \in Users |-> IF u \in S THEN Append(inbox[u], m) ELSE inbox[u]]

\* The setting is written and every client told, its writer too.
ServerWrites(u) ==
    /\ pending[u] # None
    /\ setting' = pending[u]
    /\ pending' = [pending EXCEPT ![u] = None]
    /\ inbox' = Broadcast(online, [kind |-> "state", state |-> pending[u], by |-> u])
    /\ UNCHANGED <<online, preferred, local, startup, authority, barrier, txs, bounds>>

SetPreferred(p) ==
    /\ events < MaxEvents /\ online # {} /\ p # preferred
    /\ events' = events + 1
    /\ preferred' = p
    /\ inbox' = Broadcast(online, [kind |-> "preferred", user |-> p])
    /\ UNCHANGED <<online, setting, pending, local, startup, authority, barrier, txs, faults>>

\* A page load: the client gets the world as it is and every later update.
Connect(u) ==
    /\ stage[u] = "offline" /\ events < MaxEvents
    /\ events' = events + 1
    /\ online' = online \cup {u}
    /\ inbox' = Broadcast(online, [kind |-> "presence", user |-> u, active |-> TRUE])
    /\ local' = [local EXCEPT ![u] = [view |-> online', pref |-> preferred, saved |-> setting]]
    /\ stage' = [stage EXCEPT ![u] = "loading"]
    /\ UNCHANGED <<preferred, setting, pending, due, missed, authority, barrier, txs, faults>>

\* `ready`: the runtime is composed with the persisted state, mutations are
\* off, initialize rehydrates the stores from the replicated documents and the
\* first transition is asked for.  After an initialize that throws it is not.
Ready(u) ==
    /\ stage[u] = "loading"
    /\ authority' = [authority EXCEPT ![u] = local[u].saved]
    /\ \/ /\ stage' = [stage EXCEPT ![u] = "opening"]
          /\ due' = [due EXCEPT ![u] = 1]
          /\ store' = [store EXCEPT ![u] = record]
          /\ waiting' = [waiting EXCEPT ![u] = 1]
          /\ UNCHANGED faults
       \/ /\ faults < MaxFaults
          /\ faults' = faults + 1
          /\ stage' = [stage EXCEPT ![u] = "failed"]
          /\ UNCHANGED <<due, store, waiting>>
    /\ UNCHANGED <<server, inbox, pending, local, missed, phase, enabled, scanned,
                   fences, record, running, begun, done, events>>

\* The page is closed, or crashes: its memory is gone.  A write on its way
\* lands or is lost.
Leave(u) ==
    /\ stage[u] # "offline" /\ events < MaxEvents
    /\ events' = events + 1
    /\ online' = online \ {u}
    /\ \E lands \in IF pending[u] = None THEN {FALSE} ELSE BOOLEAN :
          LET news == (IF lands THEN <<[kind |-> "state", state |-> pending[u], by |-> u]>>
                       ELSE <<>>)
                      \o <<[kind |-> "presence", user |-> u, active |-> FALSE]>>
          IN  /\ setting' = IF lands THEN pending[u] ELSE setting
              /\ inbox' = [v \in Users |-> IF v = u THEN <<>>
                                           ELSE IF v \in online' THEN inbox[v] \o news
                                           ELSE inbox[v]]
    /\ pending' = [pending EXCEPT ![u] = None]
    /\ local' = [local EXCEPT ![u] = [view |-> {}, pref |-> NoUser, saved |-> Fresh]]
    /\ stage' = [stage EXCEPT ![u] = "offline"]
    /\ due' = [due EXCEPT ![u] = 0]
    /\ missed' = [missed EXCEPT ![u] = FALSE]
    /\ authority' = [authority EXCEPT ![u] = Fresh]
    /\ phase' = [phase EXCEPT ![u] = "idle"]
    /\ waiting' = [waiting EXCEPT ![u] = 0]
    /\ enabled' = [enabled EXCEPT ![u] = FALSE]
    /\ scanned' = [scanned EXCEPT ![u] = {}]
    /\ fences' = [fences EXCEPT ![u] = {}]
    /\ store' = [store EXCEPT ![u] = {}]
    /\ running' = [running EXCEPT ![u] = {}]
    /\ UNCHANGED <<preferred, record, begun, done, faults>>

(***************************************************************************)
(* The transactions of the authority: TransactionStore writes the whole    *)
(* journal document from its memory each time.                             *)
(***************************************************************************)
\* Mutant: the record is written but not kept in memory.
BeginUnsaved(u, t) ==
    /\ Composed(u) /\ enabled[u] /\ Elected(u)
    /\ t \notin begun
    /\ begun' = begun \cup {t}
    /\ running' = [running EXCEPT ![u] = @ \cup {t}]
    /\ record' = store[u] \cup {t}
    /\ UNCHANGED <<server, inbox, pending, local, startup, authority, barrier, store, done, bounds>>

Begin(u, t) ==
    /\ Composed(u) /\ enabled[u] /\ Elected(u)
    /\ t \notin begun
    /\ begun' = begun \cup {t}
    /\ running' = [running EXCEPT ![u] = @ \cup {t}]
    /\ store' = [store EXCEPT ![u] = @ \cup {t}]
    /\ record' = store'[u]
    /\ UNCHANGED <<server, inbox, pending, local, startup, authority, barrier, done, bounds>>

End(u, t) ==
    /\ t \in running[u]
    /\ running' = [running EXCEPT ![u] = @ \ {t}]
    /\ store' = [store EXCEPT ![u] = @ \ {t}]
    /\ record' = store'[u]
    /\ fences' = [fences EXCEPT ![u] = @ \ {t}]
    /\ done' = done \cup {t}
    /\ UNCHANGED <<server, inbox, pending, local, startup, authority, phase, waiting,
                   enabled, scanned, begun, bounds>>

(***************************************************************************)
(* The specification: a new world, or one that has had an authority.       *)
(***************************************************************************)
Init ==
    /\ online = {} /\ preferred = NoUser
    /\ setting \in {Fresh} \cup [id : GMs, epoch : {0}, initialized : {TRUE}]
    /\ record = {}
    /\ inbox = [u \in Users |-> <<>>]
    /\ pending = [u \in Users |-> None]
    /\ local = [u \in Users |-> [view |-> {}, pref |-> NoUser, saved |-> Fresh]]
    /\ stage = [u \in Users |-> "offline"]
    /\ due = [u \in Users |-> 0]
    /\ authority = [u \in Users |-> Fresh]
    /\ phase = [u \in Users |-> "idle"]
    /\ waiting = [u \in Users |-> 0]
    /\ enabled = [u \in Users |-> FALSE]
    /\ scanned = [u \in Users |-> {}]
    /\ store = [u \in Users |-> {}]
    /\ fences = [u \in Users |-> {}]
    /\ running = [u \in Users |-> {}]
    /\ begun = {} /\ done = {}
    /\ missed = [u \in Users |-> FALSE]
    /\ events = 0 /\ faults = 0

Next ==
    \/ \E u \in Users :
          \/ Connect(u) \/ Ready(u) \/ Leave(u)
          \/ Deliver(u)
          \/ Reconcile(u) \/ Written(u) \/ WriteFails(u) \/ ScanEnds(u)
          \/ ServerWrites(u)
          \/ \E t \in Txs : Begin(u, t) \/ End(u, t)
    \/ \E p \in GMs \cup {NoUser} : SetPreferred(p)

Spec == Init /\ [][Next]_vars

\* A client runs its promises and handles its updates; the server handles
\* writes.  Nobody has to connect, leave, prefer or begin anything.
Fairness ==
    \A u \in Users :
        /\ WF_vars(Ready(u)) /\ WF_vars(Deliver(u))
        /\ WF_vars(Reconcile(u)) /\ WF_vars(Written(u)) /\ WF_vars(ScanEnds(u))
        /\ WF_vars(ServerWrites(u))

FairSpec == Spec /\ Fairness

(***************************************************************************)
(* Properties.                                                             *)
(***************************************************************************)

\* Types.
TypeOK ==
    /\ online \subseteq Users /\ preferred \in GMs \cup {NoUser}
    /\ setting \in States
    /\ pending \in [Users -> States] /\ authority \in [Users -> States]
    /\ stage \in [Users -> {"offline", "loading", "opening", "settling", "open", "failed"}]
    /\ phase \in [Users -> {"idle", "writing", "written", "scanning"}]
    /\ waiting \in [Users -> Nat] /\ due \in [Users -> Nat]
    /\ enabled \in [Users -> BOOLEAN] /\ missed \in [Users -> BOOLEAN]
    /\ scanned \in [Users -> SUBSET Nat] /\ running \in [Users -> SUBSET Txs]
    /\ \A u \in Users : running[u] \subseteq store[u]
    /\ {record, begun, done} \subseteq SUBSET Txs
    /\ store \in [Users -> SUBSET Txs] /\ fences \in [Users -> SUBSET Txs]

\* Commands that change the world are accepted only at rest, and by an elected
\* client only when its last scan was made for the epoch it is in and every
\* transaction it found unresolved in its store is fenced (Blocker A: an
\* earlier transition must not enable them while a later one is due).
BarrierHolds ==
    \A u \in Users : enabled[u] =>
        /\ phase[u] = "idle" /\ waiting[u] = 0
        /\ Elected(u) => /\ scanned[u] = {authority[u].epoch}
                         /\ store[u] \ running[u] \subseteq fences[u]

\* While a client runs, its epoch never falls, and it replaces an authority it
\* knows by another one only at a higher epoch, whichever of its own elections
\* and the updates it receives come first.
EpochAdvances ==
    [][\A u \in Users : stage[u] # "offline" /\ stage'[u] # "offline" =>
         /\ authority'[u].epoch >= authority[u].epoch
         /\ authority[u].id \notin {NoUser, authority'[u].id}
              => authority'[u].epoch > authority[u].epoch]_vars

\* Nothing is on its way and nobody is in the middle of a transition.
Quiet ==
    \A u \in Users : /\ inbox[u] = <<>> /\ pending[u] = None /\ stage[u] # "loading"
                     /\ phase[u] = "idle" /\ waiting[u] = 0

\* At rest every running client that saw the last change of users names the
\* same authority, the one the users really connected elect, whatever the
\* order in which updates, writes and elections met.
ChoiceAgreed ==
    Quiet => \A u \in Users : Listening(u) /\ ~missed[u] =>
                 Elect(online, preferred) \in {NoUser, authority[u].id}

\* At rest every running client names the elected authority, also those that
\* were starting when the users changed.
EveryoneAgrees ==
    Quiet => \A u \in Users : Listening(u) =>
                 Elect(online, preferred) \in {NoUser, authority[u].id}

\* At rest the clients that name the same authority name it at the same epoch:
\* a command carries its sender's epoch and the authority rejects any other.
EpochsConverge ==
    Quiet => \A u, v \in Users :
        Listening(u) /\ Listening(v) /\ authority[u].id = authority[v].id
            => authority[u].epoch = authority[v].epoch

\* Two clients never accept commands as the authority at the same time.
OneAuthority ==
    \A u, v \in Users : enabled[u] /\ Elected(u) /\ enabled[v] /\ Elected(v) => u = v

\* The persisted epoch never goes back.
SettingMonotone == [][setting'.epoch >= setting.epoch]_vars

\* At rest the client that acts as the authority is the persisted one.
AuthorityPersisted ==
    Quiet => \A u \in Users : enabled[u] /\ Elected(u) => setting = authority[u]

\* A client whose initialization failed stays in safe mode.
FailedStaysSafe == \A u \in Users : stage[u] = "failed" => ~enabled[u]

\* The authority that accepts commands has fenced every transaction that the
\* journal holds unresolved and no client is executing: those that a crash
\* interrupted, its own or its predecessor's.
AuthorityKnows ==
    \A u \in Users : enabled[u] /\ Elected(u) =>
        record \ UNION {running[v] : v \in Users} \subseteq fences[u]

\* The record of a transaction stays in the journal until the transaction ends.
RecordsSurvive == begun \ done \subseteq record

\* Every transition a client starts ends, however many overtake it.
TransitionsEnd ==
    \A u \in Users : waiting[u] > 0 \/ phase[u] # "idle" ~> waiting[u] = 0 /\ phase[u] = "idle"
=============================================================================
