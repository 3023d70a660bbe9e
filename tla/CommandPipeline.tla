--------------------------- MODULE CommandPipeline ---------------------------
(***************************************************************************)
(* The command pipeline of the Primary Authority: CommandBus               *)
(* .dispatchInbound (src/commands/command-bus.ts) with the dedupe store    *)
(* (command-dedupe-store.ts) and the permit queue (command-queue.ts) it    *)
(* drives.                                                                 *)
(*                                                                         *)
(* A Delivery is one call of dispatchInbound; a retry or a duplicate of a  *)
(* command is another delivery of the same command id.  Between two awaits *)
(* JavaScript runs to completion, so every action below is the code from   *)
(* one await to the next: the synchronous checks, the await of the         *)
(* permission, the claim with the enqueueing and the request of a permit,  *)
(* the await of the permit, and the execution.                             *)
(*                                                                         *)
(* A Coordinated command is registered with a mutationDefinition and runs  *)
(* under the MutationCoordinator; the others (the economy commands) run    *)
(* their handler directly.  What an execution does is module               *)
(* MutationKernel's affair: here it has its effect or not.              *)
(***************************************************************************)
EXTENDS Integers, Sequences, FiniteSets, SequencesExt

CONSTANTS
  Command,         \* command ids
  Coordinated,     \* commands with a mutationDefinition
  SystemCommand,   \* commands whose source is "system": priority 10, else 0
  Delivery,        \* calls of dispatchInbound
  NoDelivery,
  CommandOf,       \* the command id a delivery carries
  ContentOf,       \* the contents it may carry, by their fingerprints
  MaxConcurrency,  \* permits
  MaxEntries,      \* capacity of the dedupe store
  Cancellable      \* commands somebody may cancel

ASSUME PipelineAssumption ==
  /\ Coordinated \subseteq Command
  /\ SystemCommand \subseteq Command
  /\ IsFiniteSet(Delivery) /\ NoDelivery \notin Delivery
  /\ CommandOf \in [Delivery -> Command]
  /\ \A d \in Delivery : ContentOf[d] # {} /\ "none" \notin ContentOf[d]
  /\ MaxConcurrency \in Nat \ {0} /\ MaxEntries \in Nat \ {0}

VARIABLES
  pc,                \* where each delivery is in dispatchInbound
  fingerprint,       \* the fingerprint of what it carries
  reply,             \* what it was answered
  remembered,        \* the dedupe entries, least recently used first
  entry,             \* what the dedupe store knows of a command
  expired,           \* remembered commands older than the TTL
  awaits,            \* the delivery whose inFlightPromise a duplicate awaits
  status,            \* the queue entry of a command, "none" without one
  enqueuedAt,        \* when that entry was made
  waiting,           \* waitingQueue: deliveries that await a permit
  runningCount,      \* permits taken
  performed,         \* deliveries whose execution had its effect
  mutationsEnabled   \* FALSE in safe mode

dedupeVars == <<remembered, entry, expired, awaits>>
queueVars == <<status, enqueuedAt, waiting, runningCount>>
vars == <<pc, fingerprint, reply, dedupeVars, queueVars, performed,
          mutationsEnabled>>

Active == {"granted", "executing", "performed"}

Past == {"waiting"} \cup Active

Receipt == {"executed", "failed", "cancelled"}

Priority(c) == IF c \in SystemCommand THEN 10 ELSE 0

Fingerprint == UNION {ContentOf[d] : d \in Delivery}

-----------------------------------------------------------------------------

Init ==
  /\ pc = [d \in Delivery |-> "idle"]
  /\ fingerprint = [d \in Delivery |-> "none"]
  /\ reply = [d \in Delivery |-> "none"]
  /\ remembered = <<>>
  /\ entry = [c \in Command |->
       [state |-> "none", fingerprint |-> "none",
        promise |-> NoDelivery, receipt |-> "none"]]
  /\ expired = {}
  /\ awaits = [d \in Delivery |-> NoDelivery]
  /\ status = [c \in Command |-> "none"]
  /\ enqueuedAt = [c \in Command |-> 0]
  /\ waiting = <<>>
  /\ runningCount = 0
  /\ performed = {}
  /\ mutationsEnabled = TRUE

Answer(D, r) ==
  /\ pc' = [d \in Delivery |-> IF d \in D THEN "replied" ELSE pc[d]]
  /\ reply' = [d \in Delivery |-> IF d \in D THEN r ELSE reply[d]]

(***************************************************************************)
(* The checks before the first await.  Only a command with a mutation      *)
(* definition is stopped by the safe mode.                                 *)
(***************************************************************************)
Admit(d) ==
  /\ pc[d] = "idle"
  /\ mutationsEnabled \/ CommandOf[d] \notin Coordinated
  /\ \E f \in ContentOf[d] : fingerprint' = [fingerprint EXCEPT ![d] = f]
  /\ pc' = [pc EXCEPT ![d] = "admitted"]
  /\ UNCHANGED <<reply, dedupeVars, queueVars, performed, mutationsEnabled>>

(***************************************************************************)
(* One of the checks fails: rate limit, envelope, authority, sender,       *)
(* handler, safe mode, visibility, schema; or, later, the permission.      *)
(***************************************************************************)
Refuse(d) ==
  /\ pc[d] \in {"idle", "admitted"}
  /\ Answer({d}, "refused")
  /\ UNCHANGED <<dedupeVars, queueVars, performed, fingerprint,
                 mutationsEnabled>>

-----------------------------------------------------------------------------
(***************************************************************************)
(* CommandDedupeStore.                                                     *)
(***************************************************************************)

(***************************************************************************)
(* The members of s that are in K, in their order: SelectSeq, whose        *)
(* definition is recursive, said by counting.                              *)
(***************************************************************************)
Filtered(s, K) ==
  LET at == {i \in 1 .. Len(s) : s[i] \in K}
      Before(i) == Cardinality({j \in at : j < i})
  IN [k \in 1 .. Cardinality(at) |-> s[CHOOSE i \in at : Before(i) = k - 1]]

\* Mutant: the TTL collects pending entries too.
KeptDroppingPending == Filtered(remembered, Command \ expired)

(***************************************************************************)
(* evictExpired: every claim first drops the entries past the TTL, but not *)
(* the pending ones.                                                       *)
(***************************************************************************)
Kept ==
  Filtered(remembered,
           {c \in Command : c \notin expired \/ entry[c].state = "pending"})

\* An entry that is kept keeps its age; one that is claimed anew is new.
Remember(s) ==
  /\ remembered' = s
  /\ expired' = expired \cap Range(Kept) \cap Range(s)

Remembers(d) == CommandOf[d] \in Range(Kept)

\* Mutant: the fingerprint of a replay is not compared.
AnyFingerprint(d) == TRUE

SameFingerprint(d) ==
  fingerprint[d] = entry[CommandOf[d]].fingerprint

(***************************************************************************)
(* The command id was used for another content.                            *)
(***************************************************************************)
ClaimMismatch(d) ==
  /\ pc[d] = "admitted" /\ Remembers(d) /\ ~SameFingerprint(d)
  /\ Remember(Kept)
  /\ Answer({d}, "refused")
  /\ UNCHANGED <<entry, awaits, queueVars, performed, fingerprint,
                 mutationsEnabled>>

Refreshed(c) == Append(Filtered(Kept, Command \ {c}), c)

(***************************************************************************)
(* The result is known: it is replayed.                                    *)
(***************************************************************************)
ClaimReplay(d) ==
  LET c == CommandOf[d]
  IN /\ pc[d] = "admitted" /\ Remembers(d) /\ SameFingerprint(d)
     /\ entry[c].state # "pending"
     /\ Remember(Refreshed(c))
     /\ Answer({d}, entry[c].receipt)
     /\ UNCHANGED <<entry, awaits, queueVars, performed, fingerprint,
                 mutationsEnabled>>

(***************************************************************************)
(* The command is in flight: the duplicate awaits the same promise.        *)
(***************************************************************************)
ClaimJoin(d) ==
  LET c == CommandOf[d]
  IN /\ pc[d] = "admitted" /\ Remembers(d) /\ SameFingerprint(d)
     /\ entry[c].state = "pending"
     /\ Remember(Refreshed(c))
     /\ awaits' = [awaits EXCEPT ![d] = entry[c].promise]
     /\ pc' = [pc EXCEPT ![d] = "joined"]
     /\ UNCHANGED <<entry, reply, queueVars, performed, fingerprint,
                 mutationsEnabled>>

(***************************************************************************)
(* An entry grows older than the TTL.                                      *)
(***************************************************************************)
Expire(c) ==
  /\ c \in Range(remembered) \ expired
  /\ expired' = expired \cup {c}
  /\ UNCHANGED <<pc, reply, remembered, entry, awaits, queueVars, performed,
                 fingerprint, mutationsEnabled>>

-----------------------------------------------------------------------------
(***************************************************************************)
(* CommandQueue.                                                           *)
(***************************************************************************)

\* Mutant: a new waiter always goes to the end.
BehindEverybody(d, e) == FALSE

(***************************************************************************)
(* insertWaiter puts d in front of the first waiter e of lower priority,   *)
(* or of the same priority and enqueued later.                             *)
(***************************************************************************)
Precedes(d, e) ==
  LET c == CommandOf[d]
      o == CommandOf[e]
  IN \/ Priority(c) > Priority(o)
     \/ Priority(c) = Priority(o) /\ enqueuedAt'[c] < enqueuedAt'[o]

InsertWaiter(d) ==
  LET later == {i \in 1 .. Len(waiting) : Precedes(d, waiting[i])}
      idx == IF later = {} THEN Len(waiting) + 1
             ELSE CHOOSE i \in later : \A j \in later : i <= j
  IN waiting' = InsertAt(waiting, idx, d)

(***************************************************************************)
(* processQueue on the waiters w with free permits: waiters are taken from *)
(* the front until the permits are used up; the cancelled ones take none.  *)
(***************************************************************************)
Serve(w, free, st) ==
  LET Live(i) == st[CommandOf[w[i]]] # "cancelled"
      taken == {i \in 1 .. Len(w) :
                  Cardinality({j \in 1 .. i - 1 : Live(j)}) < free}
  IN [granted |-> {w[i] : i \in {j \in taken : Live(j)}},
      refused |-> {w[i] : i \in {j \in taken : ~Live(j)}},
      left |-> SubSeq(w, Cardinality(taken) + 1, Len(w))]

PermitFree == runningCount < MaxConcurrency

(***************************************************************************)
(* A command nobody remembers is claimed, which pushes out the oldest      *)
(* entry of a full store, enqueued, and asks for a permit.  The queue      *)
(* still has the entry of a command the store forgot.  The answer to a     *)
(* command that was cancelled before is not recorded.                      *)
(***************************************************************************)
Claim(d) ==
  LET c == CommandOf[d]
      room == IF Len(Kept) >= MaxEntries THEN Tail(Kept) ELSE Kept
  IN /\ pc[d] = "admitted" /\ ~Remembers(d)
     /\ Remember(Append(room, c))
     /\ entry' = [entry EXCEPT ![c] =
          [state |-> "pending", fingerprint |-> fingerprint[d],
           promise |-> d, receipt |-> "none"]]
     /\ enqueuedAt' = IF status[c] # "none" THEN enqueuedAt
                      ELSE [enqueuedAt EXCEPT ![c] =
                        1 + Cardinality({o \in Command : status[o] # "none"})]
     /\ \/ /\ status[c] = "cancelled"
           /\ Answer({d}, "cancelled")
           /\ UNCHANGED <<status, waiting, runningCount>>
        \/ /\ status[c] # "cancelled" /\ PermitFree
           /\ pc' = [pc EXCEPT ![d] = "granted"]
           /\ status' = [status EXCEPT ![c] = "running"]
           /\ runningCount' = runningCount + 1
           /\ UNCHANGED <<reply, waiting>>
        \/ /\ status[c] # "cancelled" /\ ~PermitFree
           /\ pc' = [pc EXCEPT ![d] = "waiting"]
           /\ status' = IF status[c] = "none"
                        THEN [status EXCEPT ![c] = "queued"] ELSE status
           /\ InsertWaiter(d)
           /\ UNCHANGED <<reply, runningCount>>
     /\ UNCHANGED <<awaits, performed, fingerprint,
                 mutationsEnabled>>

\* Mutant: a command past the commit boundary is cancelled like any other.
CancelAnyTime(c) == status[c] \in {"queued", "running", "committing"}

CancelAllowed(c) == status[c] \in {"queued", "running"}

(***************************************************************************)
(* cancel by the sender or a GM.  A waiter is rejected on the spot, and    *)
(* dispatchInbound answers it without recording a result.                  *)
(***************************************************************************)
Cancel(c) ==
  LET mine == {i \in 1 .. Len(waiting) : CommandOf[waiting[i]] = c}
  IN /\ c \in Cancellable
     /\ CancelAllowed(c)
     /\ status' = [status EXCEPT ![c] = "cancelled"]
     /\ IF mine = {} THEN UNCHANGED <<pc, reply, waiting>>
        ELSE LET i == CHOOSE i \in mine : \A j \in mine : i <= j
             IN /\ waiting' = RemoveAt(waiting, i)
                /\ Answer({waiting[i]}, "cancelled")
     /\ UNCHANGED <<dedupeVars, enqueuedAt, runningCount, performed,
                    fingerprint, mutationsEnabled>>

-----------------------------------------------------------------------------
(***************************************************************************)
(* Execution.                                                              *)
(***************************************************************************)

(***************************************************************************)
(* The permit is there and the command was not cancelled meanwhile.  A     *)
(* coordinated command cannot be cancelled from here on (markCommitting).  *)
(***************************************************************************)
Start(d) ==
  LET c == CommandOf[d]
  IN /\ pc[d] = "granted"
     /\ status[c] # "cancelled"
     /\ pc' = [pc EXCEPT ![d] = "executing"]
     /\ status' = IF c \in Coordinated
                  THEN [status EXCEPT ![c] = "committing"] ELSE status
     /\ UNCHANGED <<reply, dedupeVars, enqueuedAt, waiting, runningCount,
                    performed, fingerprint, mutationsEnabled>>

(***************************************************************************)
(* The execution has its effect.                                           *)
(***************************************************************************)
Perform(d) ==
  /\ pc[d] = "executing"
  /\ pc' = [pc EXCEPT ![d] = "performed"]
  /\ performed' = performed \cup {d}
  /\ UNCHANGED <<reply, fingerprint, dedupeVars, queueVars, mutationsEnabled>>

(***************************************************************************)
(* recordResult: the entry of the command, if it is still there, takes the *)
(* receipt, and everybody who awaits its promise gets it.                  *)
(***************************************************************************)
Joiners(c) ==
  IF c \notin Range(remembered) \/ entry[c].promise = NoDelivery THEN {}
  ELSE {e \in Delivery : pc[e] = "joined" /\ awaits[e] = entry[c].promise}

\* Mutant: the result is never recorded.
NothingRecorded(c, r) == entry

Recorded(c, r) ==
  IF c \notin Range(remembered) THEN entry
  ELSE [entry EXCEPT ![c].state = IF r = "executed" THEN "completed"
                                                     ELSE "rejected",
                     ![c].receipt = r,
                     ![c].promise = NoDelivery]

(***************************************************************************)
(* The execution ended with outcome r.  A cancelled command is answered as *)
(* cancelled, whatever its handler did.  Then the entry is marked, the     *)
(* permit goes to the next waiter and the result is recorded.              *)
(***************************************************************************)
Finish(d, r) ==
  LET c == CommandOf[d]
      receipt == IF status[c] = "cancelled" THEN "cancelled" ELSE r
      st == IF status[c] \in {"running", "committing"}
            THEN [status EXCEPT ![c] = IF r = "executed" THEN "completed"
                                                          ELSE "failed"]
            ELSE status
      next == Serve(waiting, MaxConcurrency - (runningCount - 1), st)
      answered == {d} \cup Joiners(c)
  IN /\ \/ pc[d] = "granted" /\ status[c] = "cancelled" /\ r = "failed"
        \/ pc[d] = "executing" /\ r = "failed"
        \/ pc[d] = "performed" /\ r \in {"executed", "failed"}
     /\ entry' = Recorded(c, receipt)
     /\ status' = [o \in Command |->
          IF \E e \in next.granted : CommandOf[e] = o THEN "running"
          ELSE st[o]]
     /\ waiting' = next.left
     /\ runningCount' = runningCount - 1 + Cardinality(next.granted)
     /\ pc' = [e \in Delivery |->
          IF e \in answered \cup next.refused THEN "replied"
          ELSE IF e \in next.granted THEN "granted" ELSE pc[e]]
     /\ reply' = [e \in Delivery |->
          IF e \in answered THEN receipt
          ELSE IF e \in next.refused THEN "cancelled" ELSE reply[e]]
     /\ UNCHANGED <<remembered, expired, awaits, enqueuedAt, performed,
                    fingerprint, mutationsEnabled>>

(***************************************************************************)
(* setMutationsEnabled, by the runtime: FALSE as a transition of authority *)
(* begins, TRUE when it is over.                                           *)
(***************************************************************************)
SetMutationsEnabled(b) ==
  /\ mutationsEnabled' = b
  /\ UNCHANGED <<pc, reply, fingerprint, dedupeVars, queueVars, performed>>

Next ==
  \/ \E d \in Delivery :
       \/ Admit(d) \/ Refuse(d)
       \/ ClaimMismatch(d) \/ ClaimReplay(d) \/ ClaimJoin(d) \/ Claim(d)
       \/ Start(d) \/ Perform(d)
       \/ \E r \in {"executed", "failed"} : Finish(d, r)
  \/ \E c \in Command : Expire(c) \/ Cancel(c)
  \/ \E b \in BOOLEAN : SetMutationsEnabled(b)

Spec == Init /\ [][Next]_vars

(***************************************************************************)
(* The event loop runs every continuation, and an execution ends.          *)
(***************************************************************************)
Progress(d) ==
  \/ Refuse(d) \/ ClaimMismatch(d) \/ ClaimReplay(d) \/ ClaimJoin(d)
  \/ Claim(d) \/ Start(d) \/ Perform(d)
  \/ \E r \in {"executed", "failed"} : Finish(d, r)

FairSpec == Spec /\ \A d \in Delivery : WF_vars(Progress(d))

-----------------------------------------------------------------------------
(***************************************************************************)
(* Types of the bus, the dedupe store and the queue; the store is within   *)
(* its capacity.                                                           *)
(***************************************************************************)
TypeOK ==
  /\ pc \in [Delivery -> {"idle", "admitted", "joined", "replied"} \cup Past]
  /\ fingerprint \in [Delivery -> Fingerprint \cup {"none"}]
  /\ reply \in [Delivery -> {"none", "refused"} \cup Receipt]
  /\ remembered \in Seq(Command) /\ Len(remembered) <= MaxEntries
  /\ entry \in [Command ->
       [state : {"none", "pending", "completed", "rejected"},
        fingerprint : Fingerprint \cup {"none"},
        promise : Delivery \cup {NoDelivery},
        receipt : Receipt \cup {"none"}]]
  /\ expired \subseteq Range(remembered)
  /\ awaits \in [Delivery -> Delivery \cup {NoDelivery}]
  /\ status \in [Command -> {"none", "queued", "running", "committing",
                             "completed", "failed", "cancelled"}]
  /\ enqueuedAt \in [Command -> Nat]
  /\ waiting \in Seq(Delivery)
  /\ runningCount \in 0 .. MaxConcurrency
  /\ performed \subseteq Delivery
  /\ mutationsEnabled \in BOOLEAN

(***************************************************************************)
(* Permits are neither leaked nor handed out twice, whichever way a        *)
(* delivery ends, and none is idle while somebody waits (acquirePermit,    *)
(* releasePermit, cancel, processQueue).                                   *)
(***************************************************************************)
PermitsAccounted ==
  /\ runningCount = Cardinality({d \in Delivery : pc[d] \in Active})
  /\ Range(waiting) = {d \in Delivery : pc[d] = "waiting"}
  /\ Len(waiting) = Cardinality(Range(waiting))
  /\ waiting # <<>> => runningCount = MaxConcurrency

(***************************************************************************)
(* command-dedupe-store.ts:103: concurrent requests for the same command   *)
(* share the same in-flight execution.  While a delivery is queued or      *)
(* executing, the store holds its pending claim, so no other delivery of   *)
(* the command is.                                                         *)
(***************************************************************************)
SharedExecution ==
  \A d, e \in Delivery :
    pc[d] \in Past /\ pc[e] \in Past /\ CommandOf[d] = CommandOf[e] => d = e

(***************************************************************************)
(* Nobody is told that a command was executed which was not, with the very *)
(* content this delivery carries (recordResult, claim).                    *)
(***************************************************************************)
TrueReceipts ==
  \A d \in Delivery :
    reply[d] = "executed" =>
      \E e \in performed : /\ CommandOf[e] = CommandOf[d]
                           /\ fingerprint[e] = fingerprint[d]

(***************************************************************************)
(* A coordinated command that is cancelled has no effect any more, and     *)
(* whoever is told so had none: cancel races with the permit, the start    *)
(* and the duplicates, and markCommitting is the boundary.  (Past the TTL  *)
(* a command may run, and be cancelled, once more.)                        *)
(***************************************************************************)
Untouched(c) ==
  \A d \in Delivery :
    CommandOf[d] = c =>
      /\ status[c] = "cancelled" => pc[d] \notin {"executing", "performed"}
      /\ reply[d] = "cancelled" => d \notin performed

CancelledBeforeCommit == \A c \in Coordinated : Untouched(c)

(***************************************************************************)
(* The three of them together: bus, store and queue are of their types,    *)
(* permits are accounted for, and a cancelled command has no effect.       *)
(***************************************************************************)
Consistent == TypeOK /\ PermitsAccounted /\ CancelledBeforeCommit

(***************************************************************************)
(* The same of every command: Documentos/99_DOMAIN_MANAGER_MASTER_         *)
(* SPECIFICATION_V1.md:11470, a commit that started is not cancelled.      *)
(***************************************************************************)
CancelledHasNoEffect == \A c \in Command : Untouched(c)

(***************************************************************************)
(* A permit goes to the waiter of the highest priority, and among those to *)
(* the one enqueued first: nobody is overtaken by an equal or a lesser     *)
(* (insertWaiter, processQueue).                                           *)
(***************************************************************************)
NoOvertaking ==
  [][\A d, e \in Delivery :
       (/\ pc[d] = "waiting" /\ pc'[d] = "granted"
        /\ pc[e] = "waiting" /\ pc'[e] = "waiting")
       => LET c == CommandOf[d]
              o == CommandOf[e]
          IN \/ Priority(c) > Priority(o)
             \/ Priority(c) = Priority(o) /\ enqueuedAt[c] <= enqueuedAt[o]]_vars

(***************************************************************************)
(* Every delivery that was admitted is answered, duplicates included.      *)
(***************************************************************************)
EveryDeliveryAnswered ==
  \A d \in Delivery : pc[d] = "admitted" ~> pc[d] = "replied"

(***************************************************************************)
(* docs/GATE_G5_ACCEPTANCE_REPORT.md:228 and :240: mutating commands fail  *)
(* closed in safe mode; nothing is changed while a transition of authority *)
(* has mutations disabled.                                                 *)
(***************************************************************************)
NothingAdmittedInSafeMode ==
  [][\A d \in Delivery :
       pc[d] = "idle" /\ pc'[d] = "admitted" => mutationsEnabled]_vars

NoEffectInSafeMode ==
  [][performed' # performed => mutationsEnabled]_vars
=============================================================================
