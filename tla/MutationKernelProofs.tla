------------------------ MODULE MutationKernelProofs ------------------------
(***************************************************************************)
(* A composite transaction is all or nothing, and its scope is its own     *)
(* until it is resolved, for any commands, keys and child steps, any       *)
(* number of failures of the storage, the services and the parent write,   *)
(* and any number of crashes, at every await.                              *)
(*                                                                         *)
(* Two assumptions: the recovery scan runs while no session and no         *)
(* recovery is under way (LiveScan = {FALSE}), as in the safe mode that    *)
(* handleAuthorityTransition enters, and a parent write that fails was not *)
(* applied (~LateParentError).  The theorems are false without them.       *)
(*                                                                         *)
(* Four things have to agree: the record in memory, the one on the disk,   *)
(* the one a flush that fails goes back to, and the journal of the         *)
(* session.  A crash may pick the second, a failure the third and the      *)
(* recovery the fourth, so each of the three records is Sound at every     *)
(* await, and where a step turns on the disk (an effect, the parent, an    *)
(* answer) nothing that was saved awaits its flush (Synced).  Between      *)
(* transactions it is enough that two that conflict are never both         *)
(* unresolved, in memory or on the disk.                                   *)
(***************************************************************************)
EXTENDS MutationKernel, TLAPS

\* Nothing is written yet.
Unstarted == {"idle", "waiting", "planning"}

\* Where nobody works on a transaction.
Rest == {"idle", "waiting", "done"}

\* The steps go on, and have all gone well so far.
Stepping == {"running", "intent", "executing", "declined", "receipt",
             "checkpoint"}

Forward == Stepping \cup {"preparing", "entering", "committing"}

\* Nothing that was saved awaits its flush.
Synced == {"running", "executing", "checkpoint", "committing", "saved"}

\* Failing or compensating: the parent is not written.
Undoing == {"failing", "abandoning", "reversing", "compensating", "checking",
            "concluding"}

Both == {"compensating", "checking", "concluding"}

Mid == {"prepared", "committing", "compensating"}

NoneStands(t) == \A s \in Step : effect[t][s] # "applied"

\* A record the storage may be left with: what stands is to be compensated,
\* an outcome is true, and a parent is known to be possible.
Sound(t, r) ==
  /\ \A s \in Step :
       effect[t][s] = "applied" =>
         r.steps[s] \in Compensable /\ s \notin r.done
  /\ r.state = "committed" => t \in parent
  /\ r.state \in {"failed", "compensated"} => NoneStands(t)
  /\ t \in parent => r.reached

RecordsInv(t) ==
  /\ \A r \in {record[t], disk[t], undo[t]} : Sound(t, r)
  /\ t \in parent => \A s \in Step : effect[t][s] = "applied"
  /\ pc[t] \in Synced => disk[t] = record[t] /\ undo[t] = record[t]
  /\ pc[t] \in Unstarted =>
       /\ record[t].state = "absent" /\ disk[t].state = "absent"
       /\ journal[t] = NoSteps /\ effect[t] = [s \in Step |-> "none"]
  /\ pc[t] \in Unstarted \cup Forward \cup Undoing => t \notin parent
  /\ pc[t] \in {"saved", "confirming", "reconciled"} => t \in parent

\* The first k steps were begun.
Prefix(steps, k) == \A s \in Step : steps[s] = "absent" <=> s > k

\* The journal of a session knows what stands.
JournalInv(t) ==
  /\ holder[t] = "command" =>
       \A s \in Step :
         effect[t][s] = "applied" => journal[t][s] \in Compensable
  /\ pc[t] \in Forward =>
       /\ \E k \in 0 .. Steps : Prefix(journal[t], k)
       /\ \A s \in Step : journal[t][s] = "applied" => effect[t][s] = "applied"
  /\ pc[t] \in Forward \ {"intent", "executing", "declined"} =>
       \A s \in Step : journal[t][s] \in {"absent", "applied"}
  /\ pc[t] = "preparing" => journal[t] = NoSteps
  /\ pc[t] \in {"entering", "committing"} => AllApplied(t)
  /\ pc[t] \in {"intent", "executing"} =>
       \E c \in Step :
         /\ journal[t][c] = "executing"
         /\ pc[t] = "intent" => effect[t][c] # "applied"
         /\ \A s \in Step \ {c} : journal[t][s] \in {"absent", "applied"}

\* How far the record is.
StateInv(t) ==
  LET r == record[t] IN
  /\ pc[t] \in Stepping \cup {"preparing"} =>
       r.state = "prepared" /\ r.steps = journal[t] /\ r.done = {}
  /\ pc[t] \in Stepping => undo[t].state = "prepared" /\ undo[t].done = {}
  /\ pc[t] \in {"entering", "committing", "saved"} =>
       r.state = "committing" /\ r.reached
  /\ pc[t] = "entering" => undo[t].state = "prepared"
  /\ pc[t] = "confirming" => r.state = "committed"
  /\ pc[t] = "failing" => r.state \in Mid
  /\ pc[t] \in Both /\ pc[t] # "concluding" =>
        IF holder[t] = "command" THEN r.state \in Mid
                                 ELSE r.state = "compensating"
  /\ pc[t] = "reversing" => r.state \in Mid /\ undo[t].state \in Mid
  /\ pc[t] = "checking" =>
        IF holder[t] = "command" THEN undo[t].state \in Mid
                                 ELSE undo[t].state = "compensating"
  /\ pc[t] = "reconciling" => r.state = "compensating"
  /\ pc[t] = "reconciled" => r.state = "committed"
  /\ pc[t] = "concluding" =>
        r.state = IF holder[t] = "command" THEN "failed" ELSE "compensated"
  /\ answer[t] = "executed" =>
        /\ pc[t] = "done" /\ t \in parent
        /\ r.state = "committed" /\ disk[t].state = "committed"

\* Who has the keys.  Out of safe mode every unresolved transaction has them.
HolderInv(t) ==
  /\ pc[t] \in {"idle", "waiting"} => holder[t] = "none"
  /\ pc[t] = "done" => holder[t] # "command"
  /\ pc[t] \in {"reconciling", "reconciled"} => holder[t] = "recovery"
  /\ pc[t] \in Both => holder[t] # "none"
  /\ pc[t] \notin Rest \cup Both \cup {"reconciling", "reconciled"} =>
       holder[t] = "command"
  /\ holder[t] = "recovery" /\ pc[t] = "done" => Unresolved(record[t])
  /\ pc[t] = "waiting" \/ holder[t] = "command" => enabled
  /\ enabled /\ Unresolved(record[t]) => holder[t] # "none"
  /\ enabled /\ holder[t] = "recovery" => t \in fences

\* What is said of one transaction.
Loc(t) == RecordsInv(t) /\ JournalInv(t) /\ StateInv(t) /\ HolderInv(t)

\* One of those that conflict.
Exclusive(rec) ==
  \A t, u \in Tx :
    Conflict(t, u) => ~(Unresolved(rec[t]) /\ Unresolved(rec[u]))

\* No two that conflict hold keys, or have one at work and one to resolve.
ScopeInv ==
  /\ Exclusive(record) /\ Exclusive(disk)
  /\ \A t, u \in Tx :
       Conflict(t, u) =>
         /\ holder[t] # "none" => holder[u] = "none"
         /\ pc[t] \notin Rest => ~Unresolved(record[u])

\* The scan goes by what it listed, which is how things are: what it has
\* come past is held and fenced, the rest is as it was listed.
ScanInv ==
  scan.phase # "off" =>
    /\ AtRest /\ ~enabled /\ scan.waitsFor = {}
    /\ scan.phase = "flush" => scan.todo = {}
    /\ scan.changed \cap scan.todo = {}
    /\ \A t \in Tx : Sound(t, scan.seen[t])
    /\ \A t \in scan.todo : Unresolved(record[t]) /\ scan.seen[t] = record[t]
    /\ \A t \in scan.changed :
         Unresolved(record[t]) /\ Unresolved(scan.seen[t])
    /\ \A t \in Tx \ scan.todo :
         Unresolved(record[t]) => holder[t] = "recovery" /\ t \in fences

\* As the scan runs alone, it never waits for keys, and nothing is pending.
IInv ==
  /\ TypeOK /\ live = FALSE /\ pending = {}
  /\ \A t \in Tx : Loc(t)
  /\ ScopeInv /\ ScanInv

-----------------------------------------------------------------------------
(***************************************************************************)
(* What a transition leaves of a record.                                   *)
(***************************************************************************)
LEMMA MovedFacts ==
  ASSUME NEW r \in Record, NEW to \in State
  PROVE  /\ Moved(r, to) \in Record
         /\ Moved(r, to).steps = r.steps /\ Moved(r, to).done = r.done
         /\ Moved(r, to).state = IF IsValidTransition(r.state, to)
                                   THEN to ELSE r.state
         /\ r.reached => Moved(r, to).reached
         /\ IsValidTransition(r.state, to)
            /\ to \in {"committing", "committed"}
              => Moved(r, to).reached
<1>1. CASE ~IsValidTransition(r.state, to)
  BY <1>1 DEF Moved
<1>2. CASE IsValidTransition(r.state, to)
  <2>. DEFINE b == r.reached \/ to \in {"committing", "committed"}
  <2>1. b \in BOOLEAN
    BY DEF Record
  <2>2. Moved(r, to) = [r EXCEPT !.state = to, !.reached = b]
    BY <1>2 DEF Moved
  <2>3. r.reached => b
    OBVIOUS
  <2>4. to \in {"committing", "committed"} => b
    OBVIOUS
  <2>. HIDE DEF b
  <2>5. /\ Moved(r, to) \in Record /\ Moved(r, to).state = to
        /\ Moved(r, to).steps = r.steps /\ Moved(r, to).done = r.done
        /\ Moved(r, to).reached = b
    BY <2>1, <2>2 DEF Record
  <2>. QED
    BY <1>2, <2>3, <2>4, <2>5
<1>. QED
  BY <1>1, <1>2

(***************************************************************************)
(* The transitions a session, its compensator and its recovery rely on.    *)
(***************************************************************************)
LEMMA Transitions ==
  /\ IsValidTransition("prepared", "committing")
  /\ IsValidTransition("prepared", "compensating")
  /\ IsValidTransition("committing", "committed")
  /\ IsValidTransition("committing", "compensating")
  /\ \A s \in Mid : IsValidTransition(s, "failed")
  /\ IsValidTransition("compensating", "compensated")
  /\ IsValidTransition("compensating", "committed")
  /\ IsValidTransition("needs-recovery", "compensating")
  /\ \A s \in Mid \cup {"committed", "compensated"} :
       IsValidTransition(s, "needs-recovery")
  /\ ~IsValidTransition("compensating", "compensating")
  /\ ~IsValidTransition("failed", "needs-recovery")
  /\ ~IsValidTransition("absent", "needs-recovery")
BY DEF IsValidTransition, ValidTransitions, Mid

(***************************************************************************)
(* Final, or to be recovered from, or never written.                       *)
(***************************************************************************)
LEMMA States ==
  /\ State = Mid \cup Final \cup {"absent", "needs-recovery"}
  /\ \A r \in Record :
       Unresolved(r) <=> r.state \in Mid \cup {"needs-recovery"}
BY DEF State, ValidTransitions, Mid, Final, Unresolved, Record

(***************************************************************************)
(* An unresolved record moves to needs-recovery, or is there.              *)
(***************************************************************************)
LEMMA NeedsRecovery ==
  ASSUME NEW r \in Record
  PROVE  LET m == Moved(r, "needs-recovery") IN
         /\ m \in Record /\ m.steps = r.steps /\ m.done = r.done
         /\ r.reached => m.reached
         /\ m.state \in {r.state, "needs-recovery"}
         /\ m.state = "needs-recovery"
              <=> r.state \in Mid \cup {"needs-recovery", "committed",
                                       "compensated"}
<1>1. "needs-recovery" \in State /\ r.state \in State
  BY DEF State, Record
<1>2. r.state \in Mid \cup Final \cup {"absent", "needs-recovery"}
  BY <1>1, States
<1>. QED
  BY <1>1, <1>2, MovedFacts, Transitions DEF Final, Mid

(***************************************************************************)
(* What is unresolved stays unresolved there.                              *)
(***************************************************************************)
LEMMA Recoverable ==
  ASSUME NEW r \in Record, Unresolved(r)
  PROVE  LET m == Moved(r, "needs-recovery") IN
         m \in Record /\ m.state = "needs-recovery" /\ Unresolved(m)
<1>1. r.state \in Mid \cup {"needs-recovery"}
  BY States
<1>2. /\ Moved(r, "needs-recovery") \in Record
      /\ Moved(r, "needs-recovery").state = "needs-recovery"
  BY <1>1, NeedsRecovery
<1>. QED
  BY <1>2, States

(***************************************************************************)
(* A transition to an outcome that is true leaves a sound record.          *)
(***************************************************************************)
LEMMA MovedSound ==
  ASSUME NEW t \in Tx, NEW r \in Record, NEW to \in State, Sound(t, r),
         to = "committed" => t \in parent,
         to \in {"failed", "compensated"} => NoneStands(t)
  PROVE  Sound(t, Moved(r, to))
BY MovedFacts DEF Sound

(***************************************************************************)
(* The operations of the store, seen from one transaction.                 *)
(***************************************************************************)
StoreTyped ==
  /\ record \in [Tx -> Record] /\ disk \in [Tx -> Record]
  /\ undo \in [Tx -> Record]

StoreFrame(t) ==
  /\ \A u \in Tx \ {t} : record'[u] = record[u] /\ undo'[u] = undo[u]
  /\ disk' \in {disk, record}

Goes(t, label) ==
  /\ pc' \in [Tx -> Label] /\ pc'[t] = label
  /\ \A u \in Tx \ {t} : pc'[u] = pc[u]

(***************************************************************************)
(* A step of the program counter.                                          *)
(***************************************************************************)
LEMMA Going ==
  ASSUME TypeOK, NEW t \in Tx, NEW label \in Label, Goto(t, label)
  PROVE  Goes(t, label)
BY DEF TypeOK, Goto, Goes

(***************************************************************************)
(* save: memory has the new record, undo the old one, the disk neither.    *)
(***************************************************************************)
LEMMA Saving ==
  ASSUME TypeOK, NEW t \in Tx, NEW r \in Record, NEW label \in Label,
         SaveAndFlush(t, r, label)
  PROVE  /\ StoreTyped' /\ StoreFrame(t) /\ Goes(t, label)
         /\ record'[t] = r /\ undo'[t] = record[t] /\ disk' = disk
BY Going DEF TypeOK, SaveAndFlush, StoreTyped, StoreFrame

(***************************************************************************)
(* A flush that went through: the disk is what memory is.                  *)
(***************************************************************************)
LEMMA Flushing ==
  ASSUME TypeOK, NEW t \in Tx, Flushed(t)
  PROVE  /\ StoreTyped' /\ StoreFrame(t) /\ faults' \in 0 .. MaxFaults
         /\ record' = record /\ undo'[t] = record[t] /\ disk' = record
BY DEF TypeOK, Flushed, Written, StoreTyped, StoreFrame

(***************************************************************************)
(* A failure is counted.                                                   *)
(***************************************************************************)
LEMMA Faulting ==
  ASSUME TypeOK, Fault
  PROVE  faults' \in 0 .. MaxFaults
BY KernelAssumption DEF TypeOK, Fault

(***************************************************************************)
(* A flush that failed, and what memory is set to: the disk may have it.   *)
(***************************************************************************)
LEMMA Failing ==
  ASSUME TypeOK, NEW t \in Tx, NEW r \in Record, FlushFails,
         record' = [record EXCEPT ![t] = r]
  PROVE  /\ StoreTyped' /\ StoreFrame(t) /\ faults' \in 0 .. MaxFaults
         /\ record'[t] = r /\ undo' = undo /\ disk' \in {disk, record}
<1>1. faults' \in 0 .. MaxFaults
  BY Faulting DEF FlushFails
<1>. QED
  BY <1>1 DEF TypeOK, FlushFails, StoreTyped, StoreFrame

(***************************************************************************)
(* A step of one transaction: of the others it writes at most the records  *)
(* to the disk.                                                            *)
(***************************************************************************)
Frame(t) ==
  /\ StoreFrame(t)
  /\ \A u \in Tx \ {t} :
       /\ pc'[u] = pc[u] /\ journal'[u] = journal[u] /\ effect'[u] = effect[u]
       /\ holder'[u] = holder[u] /\ answer'[u] = answer[u]
       /\ u \in parent' <=> u \in parent
       /\ u \in fences' <=> u \in fences
  /\ enabled' = enabled /\ live' = live /\ pending' = {}

(***************************************************************************)
(* Of the others, what is said stays true.                                 *)
(***************************************************************************)
LEMMA Others ==
  ASSUME IInv, NEW t \in Tx, Frame(t), NEW u \in Tx \ {t}
  PROVE  Loc(u)'
<1>1. /\ record'[u] = record[u] /\ undo'[u] = undo[u]
      /\ disk'[u] \in {disk[u], record[u]}
      /\ pc'[u] = pc[u] /\ journal'[u] = journal[u] /\ effect'[u] = effect[u]
      /\ holder'[u] = holder[u] /\ answer'[u] = answer[u]
      /\ u \in parent' <=> u \in parent
      /\ u \in fences' <=> u \in fences
      /\ enabled' = enabled
  BY DEF Frame, StoreFrame
<1>2. Loc(u)
  BY DEF IInv
<1>3. RecordsInv(u)'
  BY <1>1, <1>2 DEF Loc, RecordsInv, Sound, NoneStands
<1>4. JournalInv(u)'
  BY <1>1, <1>2 DEF Loc, JournalInv, AllApplied
<1>5. StateInv(u)'
  BY <1>1, <1>2 DEF Loc, StateInv
<1>6. HolderInv(u)'
  BY <1>1, <1>2 DEF Loc, HolderInv, Unresolved
<1>. QED
  BY <1>3, <1>4, <1>5, <1>6 DEF Loc

(***************************************************************************)
(* Nobody who conflicts works, holds keys or has something to recover.     *)
(***************************************************************************)
Alone(t) ==
  \A u \in Tx : Conflict(t, u) =>
    holder[u] = "none" /\ pc[u] \in Rest /\ ~Unresolved(record[u])

(***************************************************************************)
(* Conflicts are mutual.                                                   *)
(***************************************************************************)
LEMMA Symmetric ==
  \A t, u \in Tx : Conflict(t, u) => t # u /\ Conflict(u, t)
BY DEF Conflict

(***************************************************************************)
(* A step of one transaction keeps the invariant if it keeps what is said  *)
(* of that transaction, and comes to keys, to work or to something to      *)
(* recover only where nobody is in its way.                                *)
(***************************************************************************)
LEMMA TxKeeps ==
  ASSUME IInv, NEW t \in Tx, Frame(t), TypeOK', Loc(t)', ScanInv',
         \/ Alone(t)
         \/ /\ holder'[t] = "none" /\ pc'[t] \in Rest
            /\ ~Unresolved(record'[t])
         \/ /\ holder'[t] = "none" /\ pc'[t] \in Rest
            /\ record'[t] = record[t]
  PROVE  IInv'
<1>1. \A u \in Tx : Loc(u)'
  BY Others
<1>2. /\ record' \in [Tx -> Record] /\ record \in [Tx -> Record]
      /\ \A u \in Tx \ {t} : /\ record'[u] = record[u] /\ pc'[u] = pc[u]
                             /\ holder'[u] = holder[u]
      /\ disk' \in {disk, record}
  BY DEF IInv, TypeOK, Frame, StoreFrame
<1>3. /\ Exclusive(record) /\ Exclusive(disk)
      /\ \A u, v \in Tx : Conflict(u, v) =>
           /\ holder[u] # "none" => holder[v] = "none"
           /\ pc[u] \notin Rest => ~Unresolved(record[v])
  BY DEF IInv, ScopeInv
<1>4. Exclusive(disk')
  BY <1>2, <1>3
<1>5. Exclusive(record')
  BY <1>2, <1>3, Symmetric DEF Exclusive, Alone, Unresolved
<1>6. ASSUME NEW u \in Tx, NEW v \in Tx, Conflict(u, v)
      PROVE  /\ holder'[u] # "none" => holder'[v] = "none"
             /\ pc'[u] \notin Rest => ~Unresolved(record'[v])
  <2>1. u # v /\ Conflict(v, u)
    BY <1>6, Symmetric
  <2>2. CASE u = t
    BY <1>2, <1>3, <1>6, <2>1, <2>2 DEF Alone
  <2>3. CASE v = t
    BY <1>2, <1>3, <1>6, <2>1, <2>3 DEF Alone
  <2>4. CASE u # t /\ v # t
    BY <1>2, <1>3, <1>6, <2>4
  <2>. QED
    BY <2>2, <2>3, <2>4
<1>7. ScopeInv'
  BY <1>4, <1>5, <1>6 DEF ScopeInv, Exclusive, Conflict, Unresolved
<1>. QED
  BY <1>1, <1>7 DEF IInv, Frame

(***************************************************************************)
(* Where a session or a recovery is under way the scan is off, and who     *)
(* works has its scope for itself.                                         *)
(***************************************************************************)
LEMMA AtWork ==
  ASSUME IInv, NEW t \in Tx, pc[t] \notin Rest
  PROVE  Alone(t) /\ scan.phase = "off"
<1>1. Loc(t) /\ \A u \in Tx : HolderInv(u)
  BY DEF IInv, Loc
<1>2. holder[t] # "none"
  BY <1>1 DEF Loc, HolderInv, Rest, Both
<1>3. scan.phase = "off"
  BY DEF IInv, ScanInv, AtRest, Rest
<1>4. ASSUME NEW u \in Tx, Conflict(t, u)
      PROVE  holder[u] = "none" /\ pc[u] \in Rest /\ ~Unresolved(record[u])
  <2>1. holder[u] = "none" /\ ~Unresolved(record[u])
    BY <1>2, <1>4 DEF IInv, ScopeInv
  <2>2. pc[u] \in Rest
    BY <1>1, <2>1 DEF HolderInv, Rest, Both
  <2>. QED
    BY <2>1, <2>2
<1>. QED
  BY <1>3, <1>4 DEF Alone

(***************************************************************************)
(* A step of a session or of a recovery under way keeps the invariant if it*)
(* keeps what is said of its transaction.                                  *)
(***************************************************************************)
LEMMA WorkKeeps ==
  ASSUME IInv, NEW t \in Tx, pc[t] \notin Rest, Frame(t), TypeOK', Loc(t)',
         scan' = scan
  PROVE  IInv'
<1>1. Alone(t) /\ scan.phase = "off"
  BY AtWork
<1>2. ScanInv'
  BY <1>1 DEF ScanInv, Frame
<1>. QED
  BY <1>1, <1>2, TxKeeps

(***************************************************************************)
(* The step that is under way, and the one that comes next.                *)
(***************************************************************************)
LEMMA CurrentStep ==
  ASSUME NEW t \in Tx, Loc(t), pc[t] \in {"intent", "executing"}
  PROVE  /\ Current(t) \in Step /\ journal[t][Current(t)] = "executing"
         /\ pc[t] = "intent" => effect[t][Current(t)] # "applied"
         /\ \A s \in Step \ {Current(t)} :
              journal[t][s] \in {"absent", "applied"}
<1>1. PICK c \in Step :
        /\ journal[t][c] = "executing"
        /\ pc[t] = "intent" => effect[t][c] # "applied"
        /\ \A s \in Step \ {c} : journal[t][s] \in {"absent", "applied"}
  BY DEF Loc, JournalInv
<1>2. Current(t) \in Step /\ journal[t][Current(t)] = "executing"
  BY <1>1 DEF Current
<1>3. Current(t) = c
  BY <1>1, <1>2
<1>. QED
  BY <1>1, <1>2, <1>3

(***************************************************************************)
(* The steps are begun in order.                                           *)
(***************************************************************************)
LEMMA FollowingStep ==
  ASSUME NEW t \in Tx, Loc(t), pc[t] = "running",
         \E s \in Step : journal[t][s] = "absent"
  PROVE  /\ NextStep(t) \in Step /\ journal[t][NextStep(t)] = "absent"
         /\ \E k \in 0 .. Steps : Prefix(journal[t], k) /\ NextStep(t) = k + 1
<1>1. PICK k \in 0 .. Steps : Prefix(journal[t], k)
  BY DEF Loc, JournalInv, Forward, Stepping
<1>. DEFINE First(s) == /\ journal[t][s] = "absent"
                        /\ \A r \in 1 .. s - 1 : journal[t][r] # "absent"
<1>2. Steps \in Nat
  BY KernelAssumption
<1>3. k + 1 \in Step /\ journal[t][k + 1] = "absent"
  BY <1>1, <1>2 DEF Step, Prefix
<1>4. \A r \in 1 .. k : journal[t][r] # "absent"
  BY <1>1, <1>2 DEF Step, Prefix
<1>5. First(k + 1)
  BY <1>2, <1>3, <1>4
<1>6. NextStep(t) = CHOOSE s \in Step : First(s)
  BY DEF NextStep
<1>. HIDE DEF First
<1>7. NextStep(t) \in Step /\ First(NextStep(t))
  BY <1>3, <1>5, <1>6
<1>8. NextStep(t) = k + 1
  BY <1>1, <1>2, <1>3, <1>7 DEF First, Step, Prefix
<1>. QED
  BY <1>1, <1>7, <1>8 DEF First


(***************************************************************************)
(* A journal with a step begun, and with a step changed.                   *)
(***************************************************************************)
LEMMA PrefixGrows ==
  ASSUME NEW steps \in [Step -> {"absent", "planned"} \cup Compensable],
         NEW k \in 0 .. Steps, Prefix(steps, k), k + 1 \in Step
  PROVE  \E j \in 0 .. Steps : Prefix([steps EXCEPT ![k + 1] = "executing"], j)
<1>1. Steps \in Nat
  BY KernelAssumption
<1>2. k + 1 \in 0 .. Steps
  BY <1>1 DEF Step
<1>3. Prefix([steps EXCEPT ![k + 1] = "executing"], k + 1)
  BY <1>1 DEF Step, Prefix
<1>. QED
  BY <1>2, <1>3

(***************************************************************************)
(* A step that was begun stays begun.                                      *)
(***************************************************************************)
LEMMA PrefixStays ==
  ASSUME NEW steps \in [Step -> {"absent", "planned"} \cup Compensable],
         NEW k, Prefix(steps, k), NEW s \in Step, steps[s] # "absent",
         NEW state, state # "absent"
  PROVE  Prefix([steps EXCEPT ![s] = state], k)
BY DEF Prefix

(***************************************************************************)
(* A record with the steps of a journal.                                   *)
(***************************************************************************)
LEMMA Noted ==
  ASSUME NEW r \in Record,
         NEW steps \in [Step -> {"absent", "planned"} \cup Compensable]
  PROVE  /\ WithSteps(r, steps) \in Record
         /\ WithSteps(r, steps).steps = steps
         /\ WithSteps(r, steps).state = r.state
         /\ WithSteps(r, steps).done = r.done
         /\ WithSteps(r, steps).reached = r.reached
BY DEF WithSteps, Record, Compensable

(***************************************************************************)
(* A step of the journal is set and the journal persisted.                 *)
(***************************************************************************)
LEMMA Journalling ==
  ASSUME TypeOK, NEW t \in Tx, NEW s \in Step,
         NEW state \in {"planned"} \cup Compensable, NEW label \in Label,
         Journalled(t, s, state, label)
  PROVE  /\ journal' \in
                [Tx -> [Step -> {"absent", "planned"} \cup Compensable]]
         /\ journal'[t] = [journal[t] EXCEPT ![s] = state]
         /\ \A u \in Tx \ {t} : journal'[u] = journal[u]
         /\ StoreTyped' /\ StoreFrame(t) /\ Goes(t, label)
         /\ undo'[t] = record[t] /\ disk' = disk
         /\ record'[t] \in Record
         /\ record'[t].steps = journal'[t]
         /\ record'[t].state = record[t].state
         /\ record'[t].done = record[t].done
         /\ record'[t].reached = record[t].reached
<1>. DEFINE steps == [journal[t] EXCEPT ![s] = state]
            r == WithSteps(record[t], steps)
<1>1. /\ record[t] \in Record
      /\ journal[t] \in [Step -> {"absent", "planned"} \cup Compensable]
  BY DEF TypeOK
<1>2. steps \in [Step -> {"absent", "planned"} \cup Compensable]
  BY <1>1
<1>3. journal' = [journal EXCEPT ![t] = steps] /\ SaveAndFlush(t, r, label)
  BY DEF Journalled
<1>. HIDE DEF steps
<1>4. /\ r \in Record /\ r.steps = steps /\ r.state = record[t].state
      /\ r.done = record[t].done /\ r.reached = record[t].reached
  BY <1>1, <1>2, Noted
<1>5. /\ StoreTyped' /\ StoreFrame(t) /\ Goes(t, label)
      /\ record'[t] = r /\ undo'[t] = record[t] /\ disk' = disk
  BY <1>3, <1>4, Saving
<1>6. /\ journal' \in [Tx -> [Step -> {"absent", "planned"} \cup Compensable]]
      /\ journal'[t] = steps
      /\ \A u \in Tx \ {t} : journal'[u] = journal[u]
  BY <1>2, <1>3 DEF TypeOK
<1>. QED
  BY <1>4, <1>5, <1>6 DEF steps

(***************************************************************************)
(* A step the session sets without persisting its journal.                 *)
(***************************************************************************)
LEMMA Setting ==
  ASSUME TypeOK, NEW t \in Tx, NEW s,
         NEW state \in {"planned"} \cup Compensable,
         journal' = [journal EXCEPT ![t][s] = state]
  PROVE  /\ journal' \in
                [Tx -> [Step -> {"absent", "planned"} \cup Compensable]]
         /\ journal'[t] = [journal[t] EXCEPT ![s] = state]
         /\ \A u \in Tx \ {t} : journal'[u] = journal[u]
<1>. DEFINE steps == [journal[t] EXCEPT ![s] = state]
            Journal == [Step -> {"absent", "planned"} \cup Compensable]
<1>1. journal \in [Tx -> Journal]
  BY DEF TypeOK
<1>2. steps \in Journal
  BY <1>1
<1>3. journal' = [journal EXCEPT ![t] = steps]
  OBVIOUS
<1>4. journal'[t] = steps
  BY <1>1, <1>3
<1>. HIDE DEF steps, Journal
<1>5. /\ journal' \in [Tx -> Journal]
      /\ \A u \in Tx \ {t} : journal'[u] = journal[u]
  BY <1>1, <1>2, <1>3
<1>. QED
  BY <1>4, <1>5 DEF steps, Journal

(***************************************************************************)
(* The next step is begun in journal and record, and has no effect yet.    *)
(***************************************************************************)
LEMMA StartStepKeeps ==
  ASSUME IInv, NEW t \in Tx, StartStep(t)
  PROVE  IInv'
<1>1. /\ TypeOK /\ Loc(t) /\ pending = {}
      /\ pc[t] = "running" /\ pc[t] \notin Rest
  BY DEF IInv, StartStep, At, Rest
<1>2. /\ NextStep(t) \in Step /\ journal[t][NextStep(t)] = "absent"
      /\ \E k \in 0 .. Steps : Prefix(journal[t], k) /\ NextStep(t) = k + 1
  BY <1>1, FollowingStep DEF StartStep
<1>3. PICK k \in 0 .. Steps : Prefix(journal[t], k) /\ NextStep(t) = k + 1
  BY <1>2
<1>4. /\ Journalled(t, NextStep(t), "executing", "intent")
      /\ "executing" \in {"planned"} \cup Compensable /\ "intent" \in Label
  BY DEF StartStep, Label, Compensable
<1>5. /\ journal' \in [Tx -> [Step -> {"absent", "planned"} \cup Compensable]]
      /\ journal'[t] = [journal[t] EXCEPT ![NextStep(t)] = "executing"]
      /\ \A u \in Tx \ {t} : journal'[u] = journal[u]
      /\ StoreTyped' /\ StoreFrame(t)
      /\ Goes(t, "intent")
      /\ undo'[t] = record[t] /\ disk' = disk
      /\ record'[t] \in Record
      /\ record'[t].steps = journal'[t] /\ record'[t].state = record[t].state
      /\ record'[t].done = record[t].done
      /\ record'[t].reached = record[t].reached
  BY <1>1, <1>2, <1>4, Journalling
<1>6. journal[t] \in [Step -> {"absent", "planned"} \cup Compensable]
  BY <1>1 DEF TypeOK
<1>7. \E j \in 0 .. Steps : Prefix(journal'[t], j)
  BY <1>3, <1>2, <1>5, <1>6, PrefixGrows
<1>8. effect[t][NextStep(t)] # "applied"
  BY <1>1, <1>2 DEF Loc, JournalInv, HolderInv, Rest, Both, Compensable
<1>9. UNCHANGED <<effect, parent, holder, fences, answer, enabled>>
  BY <1>1, <1>5 DEF StartStep, recovery, storage, TypeOK
<1>10. TypeOK'
  BY <1>1, <1>5, <1>9 DEF StartStep, storage, recovery, world, StoreTyped,
      Goes, TypeOK
<1>11. Frame(t) /\ scan' = scan
  BY <1>1, <1>5, <1>9 DEF StartStep, storage, recovery, world, StoreTyped,
      Goes, TypeOK, Frame, StoreFrame
<1>12. \A s \in Step : effect[t][s] = "applied" =>
           journal'[t][s] \in Compensable
  BY <1>1, <1>5, <1>6, <1>8 DEF Loc, JournalInv, HolderInv, Rest, Both,
      Compensable
<1>13. \A r \in {record[t], disk[t], undo[t]}' : Sound(t, r)'
  BY <1>1, <1>5, <1>9, <1>12 DEF Loc, RecordsInv, StateInv, Sound, NoneStands,
      Stepping
<1>14. RecordsInv(t)'
  BY <1>1, <1>5, <1>9, <1>13 DEF Goes, Loc, RecordsInv, Forward, Stepping,
      Undoing, Synced, Unstarted
<1>15. JournalInv(t)'
  BY <1>1, <1>5, <1>9, <1>2, <1>7, <1>8 DEF Goes, Loc, JournalInv, AllApplied,
      Forward, Stepping, Compensable
<1>16. StateInv(t)'
  BY <1>1, <1>5, <1>9 DEF Goes, Loc, StateInv, Both, Stepping
<1>17. HolderInv(t)'
  BY <1>1, <1>5, <1>9 DEF Goes, Loc, HolderInv, Both, Rest, Unresolved, Mid,
      Final
<1>. QED
  BY <1>1, <1>10, <1>11, <1>14, <1>15, <1>16, <1>17, WorkKeeps DEF Loc

(***************************************************************************)
(* A new record, with no step and no effect.                               *)
(***************************************************************************)
LEMMA PrepareKeeps ==
  ASSUME IInv, NEW t \in Tx, Prepare(t)
  PROVE  IInv'
<1>1. /\ TypeOK /\ Loc(t) /\ pending = {}
      /\ pc[t] = "planning" /\ pc[t] \notin Rest
  BY DEF IInv, Prepare, At, Rest
<1>2. [Absent EXCEPT !.state = "prepared"] \in Record
  BY DEF Record, Absent, NoSteps, State, ValidTransitions
<1>3. /\ StoreTyped' /\ StoreFrame(t)
      /\ Goes(t, "preparing")
      /\ record'[t] = [Absent EXCEPT !.state = "prepared"]
      /\ undo'[t] = record[t]
      /\ disk' = disk
  BY <1>1, <1>2, Saving DEF Prepare, Label
<1>4. /\ journal[t] = NoSteps /\ effect[t] = [s \in Step |-> "none"]
      /\ t \notin parent
  BY <1>1 DEF Loc, RecordsInv, Unstarted
<1>5. Prefix(journal[t], 0) /\ 0 \in 0 .. Steps
  BY <1>4, KernelAssumption DEF Prefix, NoSteps, Step
<1>6. UNCHANGED <<journal, effect, parent, holder, fences, answer, enabled>>
  BY <1>1, <1>3 DEF Prepare, recovery, storage, TypeOK
<1>7. TypeOK'
  BY <1>1, <1>3, <1>6 DEF Prepare, storage, recovery, world, StoreTyped, Goes,
      TypeOK
<1>8. Frame(t) /\ scan' = scan
  BY <1>1, <1>3, <1>6 DEF Prepare, storage, recovery, world, StoreTyped, Goes,
      TypeOK, Frame, StoreFrame
<1>9. \A r \in {record[t], disk[t], undo[t]}' : Sound(t, r)'
  BY <1>1, <1>3, <1>6, <1>4 DEF Loc, RecordsInv, Sound, NoneStands, Absent,
      NoSteps
<1>10. RecordsInv(t)'
  BY <1>1, <1>3, <1>6, <1>9, <1>4 DEF Goes, Loc, RecordsInv, Forward,
      Stepping, Undoing, Synced, Unstarted
<1>11. JournalInv(t)'
  BY <1>1, <1>3, <1>6, <1>4, <1>5 DEF Goes, Loc, JournalInv, AllApplied,
      Forward, Stepping, NoSteps
<1>12. StateInv(t)'
  BY <1>1, <1>3, <1>6, <1>4 DEF Goes, Loc, StateInv, Both, Stepping, Absent
<1>13. HolderInv(t)'
  BY <1>1, <1>3, <1>6 DEF Goes, Loc, HolderInv, Both, Rest, Unresolved, Mid,
      Final
<1>. QED
  BY <1>1, <1>7, <1>8, <1>10, <1>11, <1>12, <1>13, WorkKeeps DEF Loc

(***************************************************************************)
(* A prepare that fails leaves a record that failed, which is true:        *)
(* nothing stands.                                                         *)
(***************************************************************************)
LEMMA PrepareFlushedKeeps ==
  ASSUME IInv, NEW t \in Tx, PrepareFlushed(t)
  PROVE  IInv'
<1>1. /\ TypeOK /\ Loc(t) /\ pending = {}
      /\ pc[t] = "preparing" /\ pc[t] \notin Rest
  BY DEF IInv, PrepareFlushed, At, Rest
<1>2. CASE Flushed(t) /\ Goto(t, "running")
  <2>1. /\ StoreTyped' /\ StoreFrame(t) /\ faults' \in 0 .. MaxFaults
        /\ record' = record /\ undo'[t] = record[t] /\ disk' = record
        /\ Goes(t, "running")
    BY <1>1, <1>2, Flushing, Going DEF Label
  <2>2. UNCHANGED <<journal, effect, parent, holder, fences, answer, enabled>>
    BY <1>1, <1>2, <2>1 DEF PrepareFlushed, recovery, storage, TypeOK
  <2>3. TypeOK'
    BY <1>1, <1>2, <2>1, <2>2 DEF PrepareFlushed, storage, recovery, world,
        StoreTyped, Goes, TypeOK
  <2>4. Frame(t) /\ scan' = scan
    BY <1>1, <1>2, <2>1, <2>2 DEF PrepareFlushed, storage, recovery, world,
        StoreTyped, Goes, TypeOK, Frame, StoreFrame
  <2>5. \A r \in {record[t], disk[t], undo[t]}' : Sound(t, r)'
    BY <1>1, <1>2, <2>1, <2>2 DEF Loc, RecordsInv, Sound, NoneStands
  <2>6. RecordsInv(t)'
    BY <1>1, <1>2, <2>1, <2>2, <2>5 DEF Goes, Loc, RecordsInv, Forward,
        Stepping, Undoing, Synced, Unstarted
  <2>7. JournalInv(t)'
    BY <1>1, <1>2, <2>1, <2>2 DEF Goes, Loc, JournalInv, AllApplied, Forward,
        Stepping
  <2>8. StateInv(t)'
    BY <1>1, <1>2, <2>1, <2>2 DEF Goes, Loc, StateInv, Both, Stepping
  <2>9. HolderInv(t)'
    BY <1>1, <1>2, <2>1, <2>2 DEF Goes, Loc, HolderInv, Both, Rest,
        Unresolved, Mid, Final
  <2>. QED
    BY <1>1, <2>3, <2>4, <2>6, <2>7, <2>8, <2>9, WorkKeeps DEF Loc
<1>3. CASE FlushFails /\ Goto(t, "returning")
          /\ record' = [record EXCEPT ![t] = Moved(@, "failed")]
  <2>1. Moved(record[t], "failed") \in Record
    BY <1>1, MovedFacts DEF TypeOK, State, ValidTransitions
  <2>2. /\ StoreTyped' /\ StoreFrame(t) /\ faults' \in 0 .. MaxFaults
        /\ record'[t] = Moved(record[t], "failed") /\ undo' = undo
        /\ disk' \in {disk, record}
        /\ Goes(t, "returning")
    BY <1>1, <1>3, <2>1, Failing, Going DEF PrepareFlushed, Reverted, Label
  <2>3. UNCHANGED <<journal, effect, parent, holder, fences, answer, enabled>>
    BY <1>1, <1>3, <2>2 DEF PrepareFlushed, recovery, storage, TypeOK
  <2>4. TypeOK'
    BY <1>1, <1>3, <2>2, <2>3 DEF PrepareFlushed, storage, recovery, world,
        StoreTyped, Goes, TypeOK
  <2>5. Frame(t) /\ scan' = scan
    BY <1>1, <1>3, <2>2, <2>3 DEF PrepareFlushed, storage, recovery, world,
        StoreTyped, Goes, TypeOK, Frame, StoreFrame
  <2>6. NoneStands(t)
    BY <1>1 DEF Loc, JournalInv, HolderInv, NoneStands, Rest, Both, NoSteps,
        Compensable
  <2>7. Sound(t, Moved(record[t], "failed"))
    BY <1>1, <2>6, MovedSound DEF Loc, RecordsInv, TypeOK, State,
        ValidTransitions
  <2>8. \A r \in {record[t], disk[t], undo[t]}' : Sound(t, r)'
    BY <1>1, <1>3, <2>2, <2>3, <2>7 DEF Loc, RecordsInv, Sound, NoneStands
  <2>9. RecordsInv(t)'
    BY <1>1, <1>3, <2>2, <2>3, <2>8 DEF Goes, Loc, RecordsInv, Forward,
        Stepping, Undoing, Synced, Unstarted
  <2>10. JournalInv(t)'
    BY <1>1, <1>3, <2>2, <2>3 DEF Goes, Loc, JournalInv, AllApplied, Forward,
        Stepping
  <2>11. StateInv(t)'
    BY <1>1, <1>3, <2>2, <2>3 DEF Goes, Loc, StateInv, Both, Stepping
  <2>12. HolderInv(t)'
    BY <1>1, <1>3, <2>2, <2>3 DEF Goes, Loc, HolderInv, Both, Rest,
        Unresolved, Mid, Final
  <2>. QED
    BY <1>1, <2>4, <2>5, <2>9, <2>10, <2>11, <2>12, WorkKeeps DEF Loc
<1>. QED
  BY <1>2, <1>3 DEF PrepareFlushed

(***************************************************************************)
(* Only an intent that is on the disk is acted on; one that failed is      *)
(* taken back, and the step is then planned.                               *)
(***************************************************************************)
LEMMA IntentFlushedKeeps ==
  ASSUME IInv, NEW t \in Tx, IntentFlushed(t)
  PROVE  IInv'
<1>1. /\ TypeOK /\ Loc(t) /\ pending = {}
      /\ pc[t] = "intent" /\ pc[t] \notin Rest
  BY DEF IInv, IntentFlushed, At, Rest
<1>2. /\ Current(t) \in Step /\ journal[t][Current(t)] = "executing"
      /\ pc[t] = "intent" => effect[t][Current(t)] # "applied"
      /\ \A s \in Step \ {Current(t)} : journal[t][s] \in {"absent", "applied"}
  BY <1>1, CurrentStep
<1>3. \A s \in Step : effect[t][s] = "applied" => journal[t][s] \in Compensable
  BY <1>1 DEF Loc, JournalInv, HolderInv, Rest, Both
<1>4. CASE Flushed(t) /\ Goto(t, "executing") /\ UNCHANGED journal
  <2>1. /\ StoreTyped' /\ StoreFrame(t) /\ faults' \in 0 .. MaxFaults
        /\ record' = record /\ undo'[t] = record[t] /\ disk' = record
        /\ Goes(t, "executing")
    BY <1>1, <1>4, Flushing, Going DEF Label
  <2>2. UNCHANGED <<journal, effect, parent, holder, fences, answer, enabled>>
    BY <1>1, <1>4, <2>1 DEF IntentFlushed, recovery, storage, TypeOK
  <2>3. TypeOK'
    BY <1>1, <1>4, <2>1, <2>2 DEF IntentFlushed, storage, recovery, world,
        StoreTyped, Goes, TypeOK
  <2>4. Frame(t) /\ scan' = scan
    BY <1>1, <1>4, <2>1, <2>2 DEF IntentFlushed, storage, recovery, world,
        StoreTyped, Goes, TypeOK, Frame, StoreFrame
  <2>5. \A r \in {record[t], disk[t], undo[t]}' : Sound(t, r)'
    BY <1>1, <1>4, <2>1, <2>2 DEF Loc, RecordsInv, Sound, NoneStands
  <2>6. RecordsInv(t)'
    BY <1>1, <1>4, <2>1, <2>2, <2>5 DEF Goes, Loc, RecordsInv, Forward,
        Stepping, Undoing, Synced, Unstarted
  <2>7. JournalInv(t)'
    BY <1>1, <1>4, <2>1, <2>2, <1>2 DEF Goes, Loc, JournalInv, AllApplied,
        Forward, Stepping
  <2>8. StateInv(t)'
    BY <1>1, <1>4, <2>1, <2>2 DEF Goes, Loc, StateInv, Both, Stepping
  <2>9. HolderInv(t)'
    BY <1>1, <1>4, <2>1, <2>2 DEF Goes, Loc, HolderInv, Both, Rest,
        Unresolved, Mid, Final
  <2>. QED
    BY <1>1, <2>3, <2>4, <2>6, <2>7, <2>8, <2>9, WorkKeeps DEF Loc
<1>5. CASE /\ FlushFails /\ Reverted(t) /\ Goto(t, "failing")
          /\ journal' = [journal EXCEPT ![t][Current(t)] = "planned"]
  <2>1. undo[t] \in Record
    BY <1>1 DEF TypeOK
  <2>2. /\ StoreTyped' /\ StoreFrame(t) /\ faults' \in 0 .. MaxFaults
        /\ record'[t] = undo[t] /\ undo' = undo
        /\ disk' \in {disk, record}
        /\ Goes(t, "failing")
    BY <1>1, <1>5, <2>1, Failing, Going DEF IntentFlushed, Reverted, Label
  <2>3. /\ journal' \in
               [Tx -> [Step -> {"absent", "planned"} \cup Compensable]]
        /\ journal'[t] = [journal[t] EXCEPT ![Current(t)] = "planned"]
        /\ \A u \in Tx \ {t} : journal'[u] = journal[u]
    BY <1>1, <1>5, Setting
  <2>4. UNCHANGED <<effect, parent, holder, fences, answer, enabled>>
    BY <1>1, <1>5, <2>2 DEF IntentFlushed, recovery, storage, TypeOK
  <2>5. TypeOK'
    BY <1>1, <1>5, <2>2, <2>4, <2>3 DEF IntentFlushed, storage, recovery,
        world, StoreTyped, Goes, TypeOK
  <2>6. Frame(t) /\ scan' = scan
    BY <1>1, <1>5, <2>2, <2>4, <2>3 DEF IntentFlushed, storage, recovery,
        world, StoreTyped, Goes, TypeOK, Frame, StoreFrame
  <2>7. \A r \in {record[t], disk[t], undo[t]}' : Sound(t, r)'
    BY <1>1, <1>5, <2>2, <2>4, <2>3 DEF Loc, RecordsInv, Sound, NoneStands
  <2>8. RecordsInv(t)'
    BY <1>1, <1>5, <2>2, <2>4, <2>7, <2>3 DEF Goes, Loc, RecordsInv, Forward,
        Stepping, Undoing, Synced, Unstarted
  <2>9. JournalInv(t)'
    BY <1>1, <1>5, <2>2, <2>4, <2>3, <1>3, <1>2 DEF Goes, Loc, JournalInv,
        AllApplied, Forward, Stepping
  <2>10. StateInv(t)'
    BY <1>1, <1>5, <2>2, <2>4, <2>3 DEF Goes, Loc, StateInv, Both, Stepping,
        Mid
  <2>11. HolderInv(t)'
    BY <1>1, <1>5, <2>2, <2>4, <2>3 DEF Goes, Loc, HolderInv, Both, Rest,
        Unresolved, Mid, Final
  <2>. QED
    BY <1>1, <2>5, <2>6, <2>8, <2>9, <2>10, <2>11, WorkKeeps DEF Loc
<1>. QED
  BY <1>4, <1>5 DEF IntentFlushed

(***************************************************************************)
(* The effect stands: its intent is in memory, on the disk and in undo.    *)
(***************************************************************************)
LEMMA ApplyKeeps ==
  ASSUME IInv, NEW t \in Tx, Apply(t)
  PROVE  IInv'
<1>1. /\ TypeOK /\ Loc(t) /\ pending = {}
      /\ pc[t] = "executing" /\ pc[t] \notin Rest
  BY DEF IInv, Apply, At, Rest
<1>2. /\ Current(t) \in Step /\ journal[t][Current(t)] = "executing"
      /\ pc[t] = "intent" => effect[t][Current(t)] # "applied"
      /\ \A s \in Step \ {Current(t)} : journal[t][s] \in {"absent", "applied"}
  BY <1>1, CurrentStep
<1>3. /\ StoreTyped' /\ StoreFrame(t)
      /\ UNCHANGED <<record, disk, undo, pc>>
  BY <1>1 DEF Apply, TypeOK, storage, StoreTyped, StoreFrame
<1>4. /\ effect' \in [Tx -> [Step -> {"none", "applied", "undone"}]]
      /\ effect'[t] = [effect[t] EXCEPT ![Current(t)] = "applied"]
      /\ \A u \in Tx \ {t} : effect'[u] = effect[u]
  BY <1>1, <1>2 DEF Apply, TypeOK
<1>5. /\ disk[t] = record[t] /\ undo[t] = record[t]
      /\ record[t].state = "prepared" /\ record[t].steps = journal[t]
      /\ record[t].done = {} /\ t \notin parent
  BY <1>1 DEF Loc, RecordsInv, StateInv, Stepping, Forward, Synced
<1>6. UNCHANGED <<journal, parent, holder, fences, answer, enabled>>
  BY <1>1, <1>3 DEF Apply, recovery, storage, TypeOK
<1>7. TypeOK'
  BY <1>1, <1>3, <1>6, <1>4 DEF Apply, storage, recovery, world, StoreTyped,
      Goes, TypeOK
<1>8. Frame(t) /\ scan' = scan
  BY <1>1, <1>3, <1>6, <1>4 DEF Apply, storage, recovery, world, StoreTyped,
      Goes, TypeOK, Frame, StoreFrame
<1>9. \A r \in {record[t], disk[t], undo[t]}' : Sound(t, r)'
  BY <1>1, <1>3, <1>6, <1>4, <1>2, <1>5 DEF Loc, RecordsInv, Sound,
      NoneStands, Compensable
<1>10. RecordsInv(t)'
  BY <1>1, <1>3, <1>6, <1>9, <1>4, <1>5 DEF Goes, Loc, RecordsInv, Forward,
      Stepping, Undoing, Synced, Unstarted
<1>11. JournalInv(t)'
  BY <1>1, <1>3, <1>6, <1>4, <1>2 DEF Goes, Loc, JournalInv, AllApplied,
      Forward, Stepping, Compensable
<1>12. StateInv(t)'
  BY <1>1, <1>3, <1>6, <1>4 DEF Goes, Loc, StateInv, Both, Stepping
<1>13. HolderInv(t)'
  BY <1>1, <1>3, <1>6, <1>4 DEF Goes, Loc, HolderInv, Both, Rest, Unresolved,
      Mid, Final
<1>. QED
  BY <1>1, <1>7, <1>8, <1>10, <1>11, <1>12, <1>13, WorkKeeps DEF Loc

(***************************************************************************)
(* The receipt is journalled: the step is applied, and so is its effect.   *)
(***************************************************************************)
LEMMA StepSucceedsKeeps ==
  ASSUME IInv, NEW t \in Tx, StepSucceeds(t)
  PROVE  IInv'
<1>1. /\ TypeOK /\ Loc(t) /\ pending = {}
      /\ pc[t] = "executing" /\ pc[t] \notin Rest
  BY DEF IInv, StepSucceeds, At, Rest
<1>2. /\ Current(t) \in Step /\ journal[t][Current(t)] = "executing"
      /\ pc[t] = "intent" => effect[t][Current(t)] # "applied"
      /\ \A s \in Step \ {Current(t)} : journal[t][s] \in {"absent", "applied"}
  BY <1>1, CurrentStep
<1>3. \A s \in Step : effect[t][s] = "applied" => journal[t][s] \in Compensable
  BY <1>1 DEF Loc, JournalInv, HolderInv, Rest, Both
<1>4. /\ Journalled(t, Current(t), "applied", "receipt")
      /\ "applied" \in {"planned"} \cup Compensable /\ "receipt" \in Label
  BY DEF StepSucceeds, Label, Compensable
<1>5. /\ journal' \in [Tx -> [Step -> {"absent", "planned"} \cup Compensable]]
      /\ journal'[t] = [journal[t] EXCEPT ![Current(t)] = "applied"]
      /\ \A u \in Tx \ {t} : journal'[u] = journal[u]
      /\ StoreTyped' /\ StoreFrame(t)
      /\ Goes(t, "receipt")
      /\ undo'[t] = record[t] /\ disk' = disk
      /\ record'[t] \in Record
      /\ record'[t].steps = journal'[t] /\ record'[t].state = record[t].state
      /\ record'[t].done = record[t].done
      /\ record'[t].reached = record[t].reached
  BY <1>1, <1>2, <1>4, Journalling
<1>6. journal[t] \in [Step -> {"absent", "planned"} \cup Compensable]
  BY <1>1 DEF TypeOK
<1>7. PICK k \in 0 .. Steps : Prefix(journal[t], k)
  BY <1>1 DEF Loc, JournalInv, Forward, Stepping
<1>8. Prefix(journal'[t], k)
  <2>1. /\ Current(t) \in Step /\ journal[t][Current(t)] # "absent"
        /\ "applied" # "absent"
    BY <1>2
  <2>2. Prefix([journal[t] EXCEPT ![Current(t)] = "applied"], k)
    BY <1>6, <1>7, <2>1, PrefixStays
  <2>. QED
    BY <1>5, <2>2
<1>9. \A s \in Step : effect[t][s] = "applied" =>
          journal'[t][s] \in Compensable
  BY <1>3, <1>2, <1>5, <1>6 DEF Compensable, StepSucceeds
<1>10. UNCHANGED <<effect, parent, holder, fences, answer, enabled>>
  BY <1>1, <1>5 DEF StepSucceeds, recovery, storage, TypeOK
<1>11. TypeOK'
  BY <1>1, <1>5, <1>10 DEF StepSucceeds, storage, recovery, world, StoreTyped,
      Goes, TypeOK
<1>12. Frame(t) /\ scan' = scan
  BY <1>1, <1>5, <1>10 DEF StepSucceeds, storage, recovery, world, StoreTyped,
      Goes, TypeOK, Frame, StoreFrame
<1>13. \A r \in {record[t], disk[t], undo[t]}' : Sound(t, r)'
  BY <1>1, <1>5, <1>10, <1>9 DEF Loc, RecordsInv, StateInv, Sound, NoneStands,
      Stepping
<1>14. RecordsInv(t)'
  BY <1>1, <1>5, <1>10, <1>13 DEF Goes, Loc, RecordsInv, Forward, Stepping,
      Undoing, Synced, Unstarted
<1>15. JournalInv(t)'
  BY <1>1, <1>5, <1>10, <1>9, <1>2, <1>6, <1>7, <1>8 DEF Goes, Loc,
      JournalInv, AllApplied, Forward, Stepping, StepSucceeds
<1>16. StateInv(t)'
  BY <1>1, <1>5, <1>10 DEF Goes, Loc, StateInv, Both, Stepping
<1>17. HolderInv(t)'
  BY <1>1, <1>5, <1>10 DEF Goes, Loc, HolderInv, Both, Rest, Unresolved, Mid,
      Final
<1>. QED
  BY <1>1, <1>11, <1>12, <1>14, <1>15, <1>16, <1>17, WorkKeeps DEF Loc

(***************************************************************************)
(* The step is planned again, and has no effect.                           *)
(***************************************************************************)
LEMMA StepDeclinedKeeps ==
  ASSUME IInv, NEW t \in Tx, StepDeclined(t)
  PROVE  IInv'
<1>1. /\ TypeOK /\ Loc(t) /\ pending = {}
      /\ pc[t] = "executing" /\ pc[t] \notin Rest
  BY DEF IInv, StepDeclined, At, Rest
<1>2. /\ Current(t) \in Step /\ journal[t][Current(t)] = "executing"
      /\ pc[t] = "intent" => effect[t][Current(t)] # "applied"
      /\ \A s \in Step \ {Current(t)} : journal[t][s] \in {"absent", "applied"}
  BY <1>1, CurrentStep
<1>3. \A s \in Step : effect[t][s] = "applied" => journal[t][s] \in Compensable
  BY <1>1 DEF Loc, JournalInv, HolderInv, Rest, Both
<1>4. /\ Journalled(t, Current(t), "planned", "declined")
      /\ "planned" \in {"planned"} \cup Compensable /\ "declined" \in Label
  BY DEF StepDeclined, Label, Compensable
<1>5. /\ journal' \in [Tx -> [Step -> {"absent", "planned"} \cup Compensable]]
      /\ journal'[t] = [journal[t] EXCEPT ![Current(t)] = "planned"]
      /\ \A u \in Tx \ {t} : journal'[u] = journal[u]
      /\ StoreTyped' /\ StoreFrame(t)
      /\ Goes(t, "declined")
      /\ undo'[t] = record[t] /\ disk' = disk
      /\ record'[t] \in Record
      /\ record'[t].steps = journal'[t] /\ record'[t].state = record[t].state
      /\ record'[t].done = record[t].done
      /\ record'[t].reached = record[t].reached
  BY <1>1, <1>2, <1>4, Journalling
<1>6. journal[t] \in [Step -> {"absent", "planned"} \cup Compensable]
  BY <1>1 DEF TypeOK
<1>7. PICK k \in 0 .. Steps : Prefix(journal[t], k)
  BY <1>1 DEF Loc, JournalInv, Forward, Stepping
<1>8. Prefix(journal'[t], k)
  <2>1. /\ Current(t) \in Step /\ journal[t][Current(t)] # "absent"
        /\ "planned" # "absent"
    BY <1>2
  <2>2. Prefix([journal[t] EXCEPT ![Current(t)] = "planned"], k)
    BY <1>6, <1>7, <2>1, PrefixStays
  <2>. QED
    BY <1>5, <2>2
<1>9. \A s \in Step : effect[t][s] = "applied" =>
          journal'[t][s] \in Compensable
  BY <1>3, <1>2, <1>5, <1>6 DEF Compensable, StepDeclined
<1>10. UNCHANGED <<effect, parent, holder, fences, answer, enabled>>
  BY <1>1, <1>5 DEF StepDeclined, recovery, storage, TypeOK
<1>11. TypeOK'
  BY <1>1, <1>5, <1>10 DEF StepDeclined, storage, recovery, world, StoreTyped,
      Goes, TypeOK
<1>12. Frame(t) /\ scan' = scan
  BY <1>1, <1>5, <1>10 DEF StepDeclined, storage, recovery, world, StoreTyped,
      Goes, TypeOK, Frame, StoreFrame
<1>13. \A r \in {record[t], disk[t], undo[t]}' : Sound(t, r)'
  BY <1>1, <1>5, <1>10, <1>9 DEF Loc, RecordsInv, StateInv, Sound, NoneStands,
      Stepping
<1>14. RecordsInv(t)'
  BY <1>1, <1>5, <1>10, <1>13 DEF Goes, Loc, RecordsInv, Forward, Stepping,
      Undoing, Synced, Unstarted
<1>15. JournalInv(t)'
  BY <1>1, <1>5, <1>10, <1>9, <1>2, <1>6, <1>7, <1>8 DEF Goes, Loc,
      JournalInv, AllApplied, Forward, Stepping, StepDeclined
<1>16. StateInv(t)'
  BY <1>1, <1>5, <1>10 DEF Goes, Loc, StateInv, Both, Stepping
<1>17. HolderInv(t)'
  BY <1>1, <1>5, <1>10 DEF Goes, Loc, HolderInv, Both, Rest, Unresolved, Mid,
      Final
<1>. QED
  BY <1>1, <1>11, <1>12, <1>14, <1>15, <1>16, <1>17, WorkKeeps DEF Loc

(***************************************************************************)
(* The step is unknown to the journal, the record still has its intent.    *)
(***************************************************************************)
LEMMA StepUnknownKeeps ==
  ASSUME IInv, NEW t \in Tx, StepUnknown(t)
  PROVE  IInv'
<1>1. /\ TypeOK /\ Loc(t) /\ pending = {}
      /\ pc[t] = "executing" /\ pc[t] \notin Rest
  BY DEF IInv, StepUnknown, At, Rest
<1>2. /\ Current(t) \in Step /\ journal[t][Current(t)] = "executing"
      /\ pc[t] = "intent" => effect[t][Current(t)] # "applied"
      /\ \A s \in Step \ {Current(t)} : journal[t][s] \in {"absent", "applied"}
  BY <1>1, CurrentStep
<1>3. \A s \in Step : effect[t][s] = "applied" => journal[t][s] \in Compensable
  BY <1>1 DEF Loc, JournalInv, HolderInv, Rest, Both
<1>4. /\ StoreTyped' /\ StoreFrame(t)
      /\ UNCHANGED <<record, disk, undo>>
      /\ Goes(t, "marking")
      /\ faults' \in 0 .. MaxFaults
  BY <1>1, Going, Faulting DEF StepUnknown, TypeOK, storage, StoreTyped,
      StoreFrame, Label
<1>5. /\ journal' \in [Tx -> [Step -> {"absent", "planned"} \cup Compensable]]
      /\ journal'[t] = [journal[t] EXCEPT ![Current(t)] = "unknown"]
      /\ \A u \in Tx \ {t} : journal'[u] = journal[u]
  BY <1>1, Setting DEF StepUnknown, Compensable
<1>6. UNCHANGED <<effect, parent, holder, fences, answer, enabled>>
  BY <1>1, <1>4 DEF StepUnknown, recovery, storage, TypeOK
<1>7. TypeOK'
  BY <1>1, <1>4, <1>6, <1>5 DEF StepUnknown, storage, recovery, world,
      StoreTyped, Goes, TypeOK
<1>8. Frame(t) /\ scan' = scan
  BY <1>1, <1>4, <1>6, <1>5 DEF StepUnknown, storage, recovery, world,
      StoreTyped, Goes, TypeOK, Frame, StoreFrame
<1>9. \A r \in {record[t], disk[t], undo[t]}' : Sound(t, r)'
  BY <1>1, <1>4, <1>6, <1>5 DEF Loc, RecordsInv, Sound, NoneStands
<1>10. RecordsInv(t)'
  BY <1>1, <1>4, <1>6, <1>9, <1>5 DEF Goes, Loc, RecordsInv, Forward,
      Stepping, Undoing, Synced, Unstarted
<1>11. JournalInv(t)'
  BY <1>1, <1>4, <1>6, <1>5, <1>3, <1>2 DEF Goes, Loc, JournalInv, AllApplied,
      Forward, Stepping, Compensable
<1>12. StateInv(t)'
  BY <1>1, <1>4, <1>6, <1>5 DEF Goes, Loc, StateInv, Both, Stepping
<1>13. HolderInv(t)'
  BY <1>1, <1>4, <1>6, <1>5 DEF Goes, Loc, HolderInv, Both, Rest, Unresolved,
      Mid, Final
<1>. QED
  BY <1>1, <1>7, <1>8, <1>10, <1>11, <1>12, <1>13, WorkKeeps DEF Loc

(***************************************************************************)
(* Flushed or reverted, the session fails with a prepared record.          *)
(***************************************************************************)
LEMMA DeclinedFlushedKeeps ==
  ASSUME IInv, NEW t \in Tx, DeclinedFlushed(t)
  PROVE  IInv'
<1>1. /\ TypeOK /\ Loc(t) /\ pending = {}
      /\ pc[t] = "declined" /\ pc[t] \notin Rest
  BY DEF IInv, DeclinedFlushed, At, Rest
<1>2. CASE Flushed(t) /\ Goto(t, "failing")
  <2>1. /\ StoreTyped' /\ StoreFrame(t) /\ faults' \in 0 .. MaxFaults
        /\ record' = record /\ undo'[t] = record[t] /\ disk' = record
        /\ Goes(t, "failing")
    BY <1>1, <1>2, Flushing, Going DEF Label
  <2>2. UNCHANGED <<journal, effect, parent, holder, fences, answer, enabled>>
    BY <1>1, <1>2, <2>1 DEF DeclinedFlushed, recovery, storage, TypeOK
  <2>3. TypeOK'
    BY <1>1, <1>2, <2>1, <2>2 DEF DeclinedFlushed, storage, recovery, world,
        StoreTyped, Goes, TypeOK
  <2>4. Frame(t) /\ scan' = scan
    BY <1>1, <1>2, <2>1, <2>2 DEF DeclinedFlushed, storage, recovery, world,
        StoreTyped, Goes, TypeOK, Frame, StoreFrame
  <2>5. \A r \in {record[t], disk[t], undo[t]}' : Sound(t, r)'
    BY <1>1, <1>2, <2>1, <2>2 DEF Loc, RecordsInv, Sound, NoneStands
  <2>6. RecordsInv(t)'
    BY <1>1, <1>2, <2>1, <2>2, <2>5 DEF Goes, Loc, RecordsInv, Forward,
        Stepping, Undoing, Synced, Unstarted
  <2>7. JournalInv(t)'
    BY <1>1, <1>2, <2>1, <2>2 DEF Goes, Loc, JournalInv, AllApplied, Forward,
        Stepping
  <2>8. StateInv(t)'
    BY <1>1, <1>2, <2>1, <2>2 DEF Goes, Loc, StateInv, Both, Stepping, Mid
  <2>9. HolderInv(t)'
    BY <1>1, <1>2, <2>1, <2>2 DEF Goes, Loc, HolderInv, Both, Rest,
        Unresolved, Mid, Final
  <2>. QED
    BY <1>1, <2>3, <2>4, <2>6, <2>7, <2>8, <2>9, WorkKeeps DEF Loc
<1>3. CASE FlushFails /\ Reverted(t) /\ Goto(t, "failing")
  <2>1. undo[t] \in Record
    BY <1>1 DEF TypeOK
  <2>2. /\ StoreTyped' /\ StoreFrame(t) /\ faults' \in 0 .. MaxFaults
        /\ record'[t] = undo[t] /\ undo' = undo
        /\ disk' \in {disk, record}
        /\ Goes(t, "failing")
    BY <1>1, <1>3, <2>1, Failing, Going DEF DeclinedFlushed, Reverted, Label
  <2>3. UNCHANGED <<journal, effect, parent, holder, fences, answer, enabled>>
    BY <1>1, <1>3, <2>2 DEF DeclinedFlushed, recovery, storage, TypeOK
  <2>4. TypeOK'
    BY <1>1, <1>3, <2>2, <2>3 DEF DeclinedFlushed, storage, recovery, world,
        StoreTyped, Goes, TypeOK
  <2>5. Frame(t) /\ scan' = scan
    BY <1>1, <1>3, <2>2, <2>3 DEF DeclinedFlushed, storage, recovery, world,
        StoreTyped, Goes, TypeOK, Frame, StoreFrame
  <2>6. \A r \in {record[t], disk[t], undo[t]}' : Sound(t, r)'
    BY <1>1, <1>3, <2>2, <2>3 DEF Loc, RecordsInv, Sound, NoneStands
  <2>7. RecordsInv(t)'
    BY <1>1, <1>3, <2>2, <2>3, <2>6 DEF Goes, Loc, RecordsInv, Forward,
        Stepping, Undoing, Synced, Unstarted
  <2>8. JournalInv(t)'
    BY <1>1, <1>3, <2>2, <2>3 DEF Goes, Loc, JournalInv, AllApplied, Forward,
        Stepping
  <2>9. StateInv(t)'
    BY <1>1, <1>3, <2>2, <2>3 DEF Goes, Loc, StateInv, Both, Stepping, Mid
  <2>10. HolderInv(t)'
    BY <1>1, <1>3, <2>2, <2>3 DEF Goes, Loc, HolderInv, Both, Rest,
        Unresolved, Mid, Final
  <2>. QED
    BY <1>1, <2>4, <2>5, <2>7, <2>8, <2>9, <2>10, WorkKeeps DEF Loc
<1>. QED
  BY <1>2, <1>3 DEF DeclinedFlushed

(***************************************************************************)
(* A receipt that is not flushed is taken back, the step is then unknown.  *)
(***************************************************************************)
LEMMA ReceiptFlushedKeeps ==
  ASSUME IInv, NEW t \in Tx, ReceiptFlushed(t)
  PROVE  IInv'
<1>1. /\ TypeOK /\ Loc(t) /\ pending = {}
      /\ pc[t] = "receipt" /\ pc[t] \notin Rest
  BY DEF IInv, ReceiptFlushed, At, Rest
<1>2. \A s \in Step : effect[t][s] = "applied" => journal[t][s] \in Compensable
  BY <1>1 DEF Loc, JournalInv, HolderInv, Rest, Both
<1>3. CASE Flushed(t) /\ Goto(t, "checkpoint") /\ UNCHANGED journal
  <2>1. /\ StoreTyped' /\ StoreFrame(t) /\ faults' \in 0 .. MaxFaults
        /\ record' = record /\ undo'[t] = record[t] /\ disk' = record
        /\ Goes(t, "checkpoint")
    BY <1>1, <1>3, Flushing, Going DEF Label
  <2>2. UNCHANGED <<journal, effect, parent, holder, fences, answer, enabled>>
    BY <1>1, <1>3, <2>1 DEF ReceiptFlushed, recovery, storage, TypeOK
  <2>3. TypeOK'
    BY <1>1, <1>3, <2>1, <2>2 DEF ReceiptFlushed, storage, recovery, world,
        StoreTyped, Goes, TypeOK
  <2>4. Frame(t) /\ scan' = scan
    BY <1>1, <1>3, <2>1, <2>2 DEF ReceiptFlushed, storage, recovery, world,
        StoreTyped, Goes, TypeOK, Frame, StoreFrame
  <2>5. \A r \in {record[t], disk[t], undo[t]}' : Sound(t, r)'
    BY <1>1, <1>3, <2>1, <2>2 DEF Loc, RecordsInv, Sound, NoneStands
  <2>6. RecordsInv(t)'
    BY <1>1, <1>3, <2>1, <2>2, <2>5 DEF Goes, Loc, RecordsInv, Forward,
        Stepping, Undoing, Synced, Unstarted
  <2>7. JournalInv(t)'
    BY <1>1, <1>3, <2>1, <2>2 DEF Goes, Loc, JournalInv, AllApplied, Forward,
        Stepping
  <2>8. StateInv(t)'
    BY <1>1, <1>3, <2>1, <2>2 DEF Goes, Loc, StateInv, Both, Stepping
  <2>9. HolderInv(t)'
    BY <1>1, <1>3, <2>1, <2>2 DEF Goes, Loc, HolderInv, Both, Rest,
        Unresolved, Mid, Final
  <2>. QED
    BY <1>1, <2>3, <2>4, <2>6, <2>7, <2>8, <2>9, WorkKeeps DEF Loc
<1>4. CASE /\ FlushFails /\ Reverted(t) /\ Goto(t, "marking")
          /\ journal' = [journal EXCEPT ![t][LastStep(t)] = "unknown"]
  <2>1. undo[t] \in Record
    BY <1>1 DEF TypeOK
  <2>2. /\ StoreTyped' /\ StoreFrame(t) /\ faults' \in 0 .. MaxFaults
        /\ record'[t] = undo[t] /\ undo' = undo
        /\ disk' \in {disk, record}
        /\ Goes(t, "marking")
    BY <1>1, <1>4, <2>1, Failing, Going DEF ReceiptFlushed, Reverted, Label
  <2>3. /\ journal' \in
               [Tx -> [Step -> {"absent", "planned"} \cup Compensable]]
        /\ journal'[t] = [journal[t] EXCEPT ![LastStep(t)] = "unknown"]
        /\ \A u \in Tx \ {t} : journal'[u] = journal[u]
    BY <1>1, <1>4, Setting DEF Compensable
  <2>4. UNCHANGED <<effect, parent, holder, fences, answer, enabled>>
    BY <1>1, <1>4, <2>2 DEF ReceiptFlushed, recovery, storage, TypeOK
  <2>5. TypeOK'
    BY <1>1, <1>4, <2>2, <2>4, <2>3 DEF ReceiptFlushed, storage, recovery,
        world, StoreTyped, Goes, TypeOK
  <2>6. Frame(t) /\ scan' = scan
    BY <1>1, <1>4, <2>2, <2>4, <2>3 DEF ReceiptFlushed, storage, recovery,
        world, StoreTyped, Goes, TypeOK, Frame, StoreFrame
  <2>7. \A r \in {record[t], disk[t], undo[t]}' : Sound(t, r)'
    BY <1>1, <1>4, <2>2, <2>4, <2>3 DEF Loc, RecordsInv, Sound, NoneStands
  <2>8. RecordsInv(t)'
    BY <1>1, <1>4, <2>2, <2>4, <2>7, <2>3 DEF Goes, Loc, RecordsInv, Forward,
        Stepping, Undoing, Synced, Unstarted
  <2>9. JournalInv(t)'
    BY <1>1, <1>4, <2>2, <2>4, <2>3, <1>2 DEF Goes, Loc, JournalInv,
        AllApplied, Forward, Stepping, Compensable
  <2>10. StateInv(t)'
    BY <1>1, <1>4, <2>2, <2>4, <2>3 DEF Goes, Loc, StateInv, Both, Stepping
  <2>11. HolderInv(t)'
    BY <1>1, <1>4, <2>2, <2>4, <2>3 DEF Goes, Loc, HolderInv, Both, Rest,
        Unresolved, Mid, Final
  <2>. QED
    BY <1>1, <2>5, <2>6, <2>8, <2>9, <2>10, <2>11, WorkKeeps DEF Loc
<1>. QED
  BY <1>3, <1>4 DEF ReceiptFlushed

(***************************************************************************)
(* Flushed or reverted, the record is what it was.                         *)
(***************************************************************************)
LEMMA CheckpointFlushedKeeps ==
  ASSUME IInv, NEW t \in Tx, CheckpointFlushed(t)
  PROVE  IInv'
<1>1. /\ TypeOK /\ Loc(t) /\ pending = {}
      /\ pc[t] = "checkpoint" /\ pc[t] \notin Rest
  BY DEF IInv, CheckpointFlushed, At, Rest
<1>2. CASE Flushed(t) /\ Goto(t, "running")
  <2>1. /\ StoreTyped' /\ StoreFrame(t) /\ faults' \in 0 .. MaxFaults
        /\ record' = record /\ undo'[t] = record[t] /\ disk' = record
        /\ Goes(t, "running")
    BY <1>1, <1>2, Flushing, Going DEF Label
  <2>2. UNCHANGED <<journal, effect, parent, holder, fences, answer, enabled>>
    BY <1>1, <1>2, <2>1 DEF CheckpointFlushed, recovery, storage, TypeOK
  <2>3. TypeOK'
    BY <1>1, <1>2, <2>1, <2>2 DEF CheckpointFlushed, storage, recovery, world,
        StoreTyped, Goes, TypeOK
  <2>4. Frame(t) /\ scan' = scan
    BY <1>1, <1>2, <2>1, <2>2 DEF CheckpointFlushed, storage, recovery, world,
        StoreTyped, Goes, TypeOK, Frame, StoreFrame
  <2>5. \A r \in {record[t], disk[t], undo[t]}' : Sound(t, r)'
    BY <1>1, <1>2, <2>1, <2>2 DEF Loc, RecordsInv, Sound, NoneStands
  <2>6. RecordsInv(t)'
    BY <1>1, <1>2, <2>1, <2>2, <2>5 DEF Goes, Loc, RecordsInv, Forward,
        Stepping, Undoing, Synced, Unstarted
  <2>7. JournalInv(t)'
    BY <1>1, <1>2, <2>1, <2>2 DEF Goes, Loc, JournalInv, AllApplied, Forward,
        Stepping
  <2>8. StateInv(t)'
    BY <1>1, <1>2, <2>1, <2>2 DEF Goes, Loc, StateInv, Both, Stepping
  <2>9. HolderInv(t)'
    BY <1>1, <1>2, <2>1, <2>2 DEF Goes, Loc, HolderInv, Both, Rest,
        Unresolved, Mid, Final
  <2>. QED
    BY <1>1, <2>3, <2>4, <2>6, <2>7, <2>8, <2>9, WorkKeeps DEF Loc
<1>3. CASE FlushFails /\ Reverted(t) /\ Goto(t, "failing")
  <2>1. undo[t] \in Record
    BY <1>1 DEF TypeOK
  <2>2. /\ StoreTyped' /\ StoreFrame(t) /\ faults' \in 0 .. MaxFaults
        /\ record'[t] = undo[t] /\ undo' = undo
        /\ disk' \in {disk, record}
        /\ Goes(t, "failing")
    BY <1>1, <1>3, <2>1, Failing, Going DEF CheckpointFlushed, Reverted, Label
  <2>3. UNCHANGED <<journal, effect, parent, holder, fences, answer, enabled>>
    BY <1>1, <1>3, <2>2 DEF CheckpointFlushed, recovery, storage, TypeOK
  <2>4. TypeOK'
    BY <1>1, <1>3, <2>2, <2>3 DEF CheckpointFlushed, storage, recovery, world,
        StoreTyped, Goes, TypeOK
  <2>5. Frame(t) /\ scan' = scan
    BY <1>1, <1>3, <2>2, <2>3 DEF CheckpointFlushed, storage, recovery, world,
        StoreTyped, Goes, TypeOK, Frame, StoreFrame
  <2>6. \A r \in {record[t], disk[t], undo[t]}' : Sound(t, r)'
    BY <1>1, <1>3, <2>2, <2>3 DEF Loc, RecordsInv, Sound, NoneStands
  <2>7. RecordsInv(t)'
    BY <1>1, <1>3, <2>2, <2>3, <2>6 DEF Goes, Loc, RecordsInv, Forward,
        Stepping, Undoing, Synced, Unstarted
  <2>8. JournalInv(t)'
    BY <1>1, <1>3, <2>2, <2>3 DEF Goes, Loc, JournalInv, AllApplied, Forward,
        Stepping
  <2>9. StateInv(t)'
    BY <1>1, <1>3, <2>2, <2>3 DEF Goes, Loc, StateInv, Both, Stepping, Mid
  <2>10. HolderInv(t)'
    BY <1>1, <1>3, <2>2, <2>3 DEF Goes, Loc, HolderInv, Both, Rest,
        Unresolved, Mid, Final
  <2>. QED
    BY <1>1, <2>4, <2>5, <2>7, <2>8, <2>9, <2>10, WorkKeeps DEF Loc
<1>. QED
  BY <1>2, <1>3 DEF CheckpointFlushed

(***************************************************************************)
(* The session fails before it commits.                                    *)
(***************************************************************************)
LEMMA CommitPlanFailsKeeps ==
  ASSUME IInv, NEW t \in Tx, CommitPlanFails(t)
  PROVE  IInv'
<1>1. /\ TypeOK /\ Loc(t) /\ pending = {}
      /\ pc[t] = "running" /\ pc[t] \notin Rest
  BY DEF IInv, CommitPlanFails, At, Rest
<1>2. /\ UNCHANGED <<record, disk, undo>> /\ StoreTyped' /\ StoreFrame(t)
      /\ Goes(t, "failing")
  BY <1>1, Going DEF CommitPlanFails, TypeOK, storage, StoreTyped, StoreFrame,
      Label
<1>3. UNCHANGED <<journal, effect, parent, holder, fences, answer, enabled>>
  BY <1>1, <1>2 DEF CommitPlanFails, recovery, storage, TypeOK
<1>4. TypeOK'
  BY <1>1, <1>2, <1>3 DEF CommitPlanFails, storage, recovery, world,
      StoreTyped, Goes, TypeOK
<1>5. Frame(t) /\ scan' = scan
  BY <1>1, <1>2, <1>3 DEF CommitPlanFails, storage, recovery, world,
      StoreTyped, Goes, TypeOK, Frame, StoreFrame
<1>6. \A r \in {record[t], disk[t], undo[t]}' : Sound(t, r)'
  BY <1>1, <1>2, <1>3 DEF Loc, RecordsInv, Sound, NoneStands
<1>7. RecordsInv(t)'
  BY <1>1, <1>2, <1>3, <1>6 DEF Goes, Loc, RecordsInv, Forward, Stepping,
      Undoing, Synced, Unstarted
<1>8. JournalInv(t)'
  BY <1>1, <1>2, <1>3 DEF Goes, Loc, JournalInv, AllApplied, Forward, Stepping
<1>9. StateInv(t)'
  BY <1>1, <1>2, <1>3 DEF Goes, Loc, StateInv, Both, Stepping, Mid
<1>10. HolderInv(t)'
  BY <1>1, <1>2, <1>3 DEF Goes, Loc, HolderInv, Both, Rest, Unresolved, Mid,
      Final
<1>. QED
  BY <1>1, <1>4, <1>5, <1>7, <1>8, <1>9, <1>10, WorkKeeps DEF Loc

(***************************************************************************)
(* All steps are applied when committing is entered, and the record knows  *)
(* that the parent may be written.                                         *)
(***************************************************************************)
LEMMA EnterCommittingKeeps ==
  ASSUME IInv, NEW t \in Tx, EnterCommitting(t)
  PROVE  IInv'
<1>1. /\ TypeOK /\ Loc(t) /\ pending = {}
      /\ pc[t] = "running" /\ pc[t] \notin Rest
  BY DEF IInv, EnterCommitting, At, Rest
<1>2. record[t].state = "prepared"
  BY <1>1 DEF Loc, StateInv, Stepping
<1>3. Moved(record[t], "committing") \in Record
  BY <1>1, MovedFacts DEF TypeOK, State, ValidTransitions
<1>4. /\ StoreTyped' /\ StoreFrame(t)
      /\ Goes(t, "entering")
      /\ record'[t] = Moved(record[t], "committing") /\ undo'[t] = record[t]
      /\ disk' = disk
  BY <1>1, <1>3, <1>2, Transitions, Saving DEF EnterCommitting, Label
<1>5. /\ record[t] \in Record
      /\ Moved(record[t], "committing").state = "committing"
      /\ Moved(record[t], "committing").reached
  BY <1>1, <1>2, Transitions, MovedFacts DEF TypeOK, State, ValidTransitions
<1>6. Sound(t, Moved(record[t], "committing"))
  BY <1>1, MovedSound DEF Loc, RecordsInv, TypeOK, State, ValidTransitions
<1>7. UNCHANGED <<journal, effect, parent, holder, fences, answer, enabled>>
  BY <1>1, <1>4 DEF EnterCommitting, recovery, storage, TypeOK
<1>8. TypeOK'
  BY <1>1, <1>4, <1>7 DEF EnterCommitting, storage, recovery, world,
      StoreTyped, Goes, TypeOK
<1>9. Frame(t) /\ scan' = scan
  BY <1>1, <1>4, <1>7 DEF EnterCommitting, storage, recovery, world,
      StoreTyped, Goes, TypeOK, Frame, StoreFrame
<1>10. \A r \in {record[t], disk[t], undo[t]}' : Sound(t, r)'
  BY <1>1, <1>4, <1>7, <1>6 DEF Loc, RecordsInv, Sound, NoneStands
<1>11. RecordsInv(t)'
  BY <1>1, <1>4, <1>7, <1>10 DEF Goes, Loc, RecordsInv, Forward, Stepping,
      Undoing, Synced, Unstarted
<1>12. JournalInv(t)'
  BY <1>1, <1>4, <1>7 DEF Goes, Loc, JournalInv, AllApplied, Forward,
      Stepping, EnterCommitting
<1>13. StateInv(t)'
  BY <1>1, <1>4, <1>7, <1>5, <1>2 DEF Goes, Loc, StateInv, Both, Stepping
<1>14. HolderInv(t)'
  BY <1>1, <1>4, <1>7, <1>5, <1>2 DEF Goes, Loc, HolderInv, Both, Rest,
      Unresolved, Mid, Final
<1>. QED
  BY <1>1, <1>8, <1>9, <1>11, <1>12, <1>13, <1>14, WorkKeeps DEF Loc

(***************************************************************************)
(* The parent is written only when committing is on the disk.              *)
(***************************************************************************)
LEMMA CommittingFlushedKeeps ==
  ASSUME IInv, NEW t \in Tx, CommittingFlushed(t)
  PROVE  IInv'
<1>1. /\ TypeOK /\ Loc(t) /\ pending = {}
      /\ pc[t] = "entering" /\ pc[t] \notin Rest
  BY DEF IInv, CommittingFlushed, At, Rest
<1>2. CASE Flushed(t) /\ Goto(t, "committing")
  <2>1. /\ StoreTyped' /\ StoreFrame(t) /\ faults' \in 0 .. MaxFaults
        /\ record' = record /\ undo'[t] = record[t] /\ disk' = record
        /\ Goes(t, "committing")
    BY <1>1, <1>2, Flushing, Going DEF Label
  <2>2. UNCHANGED <<journal, effect, parent, holder, fences, answer, enabled>>
    BY <1>1, <1>2, <2>1 DEF CommittingFlushed, recovery, storage, TypeOK
  <2>3. TypeOK'
    BY <1>1, <1>2, <2>1, <2>2 DEF CommittingFlushed, storage, recovery, world,
        StoreTyped, Goes, TypeOK
  <2>4. Frame(t) /\ scan' = scan
    BY <1>1, <1>2, <2>1, <2>2 DEF CommittingFlushed, storage, recovery, world,
        StoreTyped, Goes, TypeOK, Frame, StoreFrame
  <2>5. \A r \in {record[t], disk[t], undo[t]}' : Sound(t, r)'
    BY <1>1, <1>2, <2>1, <2>2 DEF Loc, RecordsInv, Sound, NoneStands
  <2>6. RecordsInv(t)'
    BY <1>1, <1>2, <2>1, <2>2, <2>5 DEF Goes, Loc, RecordsInv, Forward,
        Stepping, Undoing, Synced, Unstarted
  <2>7. JournalInv(t)'
    BY <1>1, <1>2, <2>1, <2>2 DEF Goes, Loc, JournalInv, AllApplied, Forward,
        Stepping
  <2>8. StateInv(t)'
    BY <1>1, <1>2, <2>1, <2>2 DEF Goes, Loc, StateInv, Both, Stepping
  <2>9. HolderInv(t)'
    BY <1>1, <1>2, <2>1, <2>2 DEF Goes, Loc, HolderInv, Both, Rest,
        Unresolved, Mid, Final
  <2>. QED
    BY <1>1, <2>3, <2>4, <2>6, <2>7, <2>8, <2>9, WorkKeeps DEF Loc
<1>3. CASE FlushFails /\ Reverted(t) /\ Goto(t, "failing")
  <2>1. undo[t] \in Record
    BY <1>1 DEF TypeOK
  <2>2. /\ StoreTyped' /\ StoreFrame(t) /\ faults' \in 0 .. MaxFaults
        /\ record'[t] = undo[t] /\ undo' = undo
        /\ disk' \in {disk, record}
        /\ Goes(t, "failing")
    BY <1>1, <1>3, <2>1, Failing, Going DEF CommittingFlushed, Reverted, Label
  <2>3. UNCHANGED <<journal, effect, parent, holder, fences, answer, enabled>>
    BY <1>1, <1>3, <2>2 DEF CommittingFlushed, recovery, storage, TypeOK
  <2>4. TypeOK'
    BY <1>1, <1>3, <2>2, <2>3 DEF CommittingFlushed, storage, recovery, world,
        StoreTyped, Goes, TypeOK
  <2>5. Frame(t) /\ scan' = scan
    BY <1>1, <1>3, <2>2, <2>3 DEF CommittingFlushed, storage, recovery, world,
        StoreTyped, Goes, TypeOK, Frame, StoreFrame
  <2>6. \A r \in {record[t], disk[t], undo[t]}' : Sound(t, r)'
    BY <1>1, <1>3, <2>2, <2>3 DEF Loc, RecordsInv, Sound, NoneStands
  <2>7. RecordsInv(t)'
    BY <1>1, <1>3, <2>2, <2>3, <2>6 DEF Goes, Loc, RecordsInv, Forward,
        Stepping, Undoing, Synced, Unstarted
  <2>8. JournalInv(t)'
    BY <1>1, <1>3, <2>2, <2>3 DEF Goes, Loc, JournalInv, AllApplied, Forward,
        Stepping
  <2>9. StateInv(t)'
    BY <1>1, <1>3, <2>2, <2>3 DEF Goes, Loc, StateInv, Both, Stepping, Mid
  <2>10. HolderInv(t)'
    BY <1>1, <1>3, <2>2, <2>3 DEF Goes, Loc, HolderInv, Both, Rest,
        Unresolved, Mid, Final
  <2>. QED
    BY <1>1, <2>4, <2>5, <2>7, <2>8, <2>9, <2>10, WorkKeeps DEF Loc
<1>. QED
  BY <1>2, <1>3 DEF CommittingFlushed

(***************************************************************************)
(* The parent is written under effects that all stand and records that all *)
(* say committing was reached.                                             *)
(***************************************************************************)
LEMMA CommitParentKeeps ==
  ASSUME IInv, NEW t \in Tx, CommitParent(t), ~LateParentError
  PROVE  IInv'
<1>1. /\ TypeOK /\ Loc(t) /\ pending = {}
      /\ pc[t] = "committing" /\ pc[t] \notin Rest
  BY DEF IInv, CommitParent, At, Rest
<1>2. CASE parent' = parent \cup {t} /\ Goto(t, "saved") /\ UNCHANGED faults
  <2>1. /\ UNCHANGED <<record, disk, undo>> /\ StoreTyped' /\ StoreFrame(t)
        /\ Goes(t, "saved")
    BY <1>1, <1>2, Going DEF CommitParent, TypeOK, storage, StoreTyped,
        StoreFrame, Label
  <2>2. /\ parent' = parent \cup {t}
        /\ \A s \in Step : effect[t][s] = "applied"
        /\ record[t].reached /\ record[t].state = "committing"
        /\ disk[t] = record[t] /\ undo[t] = record[t]
    BY <1>1, <1>2 DEF Loc, RecordsInv, JournalInv, StateInv, Synced, Forward,
        AllApplied
  <2>3. UNCHANGED <<journal, effect, holder, fences, answer, enabled>>
    BY <1>1, <1>2, <2>1 DEF CommitParent, recovery, storage, TypeOK
  <2>4. TypeOK'
    BY <1>1, <1>2, <2>1, <2>3, <2>2 DEF CommitParent, storage, recovery,
        world, StoreTyped, Goes, TypeOK
  <2>5. Frame(t) /\ scan' = scan
    BY <1>1, <1>2, <2>1, <2>3, <2>2 DEF CommitParent, storage, recovery,
        world, StoreTyped, Goes, TypeOK, Frame, StoreFrame
  <2>6. \A r \in {record[t], disk[t], undo[t]}' : Sound(t, r)'
    BY <1>1, <1>2, <2>1, <2>3, <2>2 DEF Loc, RecordsInv, Sound, NoneStands
  <2>7. RecordsInv(t)'
    BY <1>1, <1>2, <2>1, <2>3, <2>6, <2>2 DEF Goes, Loc, RecordsInv, Forward,
        Stepping, Undoing, Synced, Unstarted
  <2>8. JournalInv(t)'
    BY <1>1, <1>2, <2>1, <2>3, <2>2 DEF Goes, Loc, JournalInv, AllApplied,
        Forward, Stepping
  <2>9. StateInv(t)'
    BY <1>1, <1>2, <2>1, <2>3, <2>2 DEF Goes, Loc, StateInv, Both, Stepping
  <2>10. HolderInv(t)'
    BY <1>1, <1>2, <2>1, <2>3, <2>2 DEF Goes, Loc, HolderInv, Both, Rest,
        Unresolved, Mid, Final
  <2>. QED
    BY <1>1, <2>4, <2>5, <2>7, <2>8, <2>9, <2>10, WorkKeeps DEF Loc
<1>3. CASE Fault /\ UNCHANGED parent /\ Goto(t, "failing")
  <2>1. /\ UNCHANGED <<record, disk, undo>> /\ StoreTyped' /\ StoreFrame(t)
        /\ Goes(t, "failing")
        /\ faults' \in 0 .. MaxFaults
    BY <1>1, <1>3, Going, Faulting DEF CommitParent, TypeOK, storage,
        StoreTyped, StoreFrame, Label
  <2>2. UNCHANGED <<journal, effect, parent, holder, fences, answer, enabled>>
    BY <1>1, <1>3, <2>1 DEF CommitParent, recovery, storage, TypeOK
  <2>3. TypeOK'
    BY <1>1, <1>3, <2>1, <2>2 DEF CommitParent, storage, recovery, world,
        StoreTyped, Goes, TypeOK
  <2>4. Frame(t) /\ scan' = scan
    BY <1>1, <1>3, <2>1, <2>2 DEF CommitParent, storage, recovery, world,
        StoreTyped, Goes, TypeOK, Frame, StoreFrame
  <2>5. \A r \in {record[t], disk[t], undo[t]}' : Sound(t, r)'
    BY <1>1, <1>3, <2>1, <2>2 DEF Loc, RecordsInv, Sound, NoneStands
  <2>6. RecordsInv(t)'
    BY <1>1, <1>3, <2>1, <2>2, <2>5 DEF Goes, Loc, RecordsInv, Forward,
        Stepping, Undoing, Synced, Unstarted
  <2>7. JournalInv(t)'
    BY <1>1, <1>3, <2>1, <2>2 DEF Goes, Loc, JournalInv, AllApplied, Forward,
        Stepping
  <2>8. StateInv(t)'
    BY <1>1, <1>3, <2>1, <2>2 DEF Goes, Loc, StateInv, Both, Stepping, Mid
  <2>9. HolderInv(t)'
    BY <1>1, <1>3, <2>1, <2>2 DEF Goes, Loc, HolderInv, Both, Rest,
        Unresolved, Mid, Final
  <2>. QED
    BY <1>1, <2>3, <2>4, <2>6, <2>7, <2>8, <2>9, WorkKeeps DEF Loc
<1>. QED
  BY <1>2, <1>3 DEF CommitParent

(***************************************************************************)
(* The outcome is committed, which is true: the parent is written.         *)
(***************************************************************************)
LEMMA CommitDurablyKeeps ==
  ASSUME IInv, NEW t \in Tx, CommitDurably(t)
  PROVE  IInv'
<1>1. /\ TypeOK /\ Loc(t) /\ pending = {}
      /\ pc[t] = "saved" /\ pc[t] \notin Rest
  BY DEF IInv, CommitDurably, At, Rest
<1>2. record[t].state = "committing" /\ t \in parent
  BY <1>1 DEF Loc, StateInv, RecordsInv
<1>3. Moved(record[t], "committed") \in Record
  BY <1>1, MovedFacts DEF TypeOK, State, ValidTransitions
<1>4. /\ StoreTyped' /\ StoreFrame(t)
      /\ Goes(t, "confirming")
      /\ record'[t] = Moved(record[t], "committed") /\ undo'[t] = record[t]
      /\ disk' = disk
  BY <1>1, <1>3, <1>2, Transitions, Saving DEF CommitDurably, Label
<1>5. /\ record[t] \in Record
      /\ Moved(record[t], "committed").state = "committed"
      /\ Moved(record[t], "committed").reached
  BY <1>1, <1>2, Transitions, MovedFacts DEF TypeOK, State, ValidTransitions
<1>6. Sound(t, Moved(record[t], "committed"))
  BY <1>1, <1>2, MovedSound DEF Loc, RecordsInv, TypeOK, State,
      ValidTransitions
<1>7. UNCHANGED <<journal, effect, parent, holder, fences, answer, enabled>>
  BY <1>1, <1>4 DEF CommitDurably, recovery, storage, TypeOK
<1>8. TypeOK'
  BY <1>1, <1>4, <1>7 DEF CommitDurably, storage, recovery, world, StoreTyped,
      Goes, TypeOK
<1>9. Frame(t) /\ scan' = scan
  BY <1>1, <1>4, <1>7 DEF CommitDurably, storage, recovery, world, StoreTyped,
      Goes, TypeOK, Frame, StoreFrame
<1>10. \A r \in {record[t], disk[t], undo[t]}' : Sound(t, r)'
  BY <1>1, <1>4, <1>7, <1>6 DEF Loc, RecordsInv, Sound, NoneStands
<1>11. RecordsInv(t)'
  BY <1>1, <1>4, <1>7, <1>10, <1>2 DEF Goes, Loc, RecordsInv, Forward,
      Stepping, Undoing, Synced, Unstarted
<1>12. JournalInv(t)'
  BY <1>1, <1>4, <1>7 DEF Goes, Loc, JournalInv, AllApplied, Forward, Stepping
<1>13. StateInv(t)'
  BY <1>1, <1>4, <1>7, <1>5, <1>2 DEF Goes, Loc, StateInv, Both, Stepping
<1>14. HolderInv(t)'
  BY <1>1, <1>4, <1>7, <1>5, <1>2 DEF Goes, Loc, HolderInv, Both, Rest,
      Unresolved, Mid, Final
<1>. QED
  BY <1>1, <1>8, <1>9, <1>11, <1>12, <1>13, <1>14, WorkKeeps DEF Loc

(***************************************************************************)
(* Success is answered when the outcome is on the disk, and only then.     *)
(***************************************************************************)
LEMMA CommitFlushedKeeps ==
  ASSUME IInv, NEW t \in Tx, CommitFlushed(t)
  PROVE  IInv'
<1>1. /\ TypeOK /\ Loc(t) /\ pending = {}
      /\ pc[t] = "confirming" /\ pc[t] \notin Rest
  BY DEF IInv, CommitFlushed, At, Rest
<1>2. CASE Flushed(t) /\ fences' = fences \ {t} /\ Leave(t, "executed")
  <2>1. /\ StoreTyped' /\ StoreFrame(t) /\ faults' \in 0 .. MaxFaults
        /\ record' = record /\ undo'[t] = record[t] /\ disk' = record
        /\ Goes(t, "done")
    BY <1>1, <1>2, Flushing, Going DEF Label, Leave
  <2>2. /\ ~Unresolved(record[t])
        /\ record[t].state = "committed" /\ t \in parent
    BY <1>1 DEF Loc, RecordsInv, StateInv, Unresolved, Final
  <2>3. /\ UNCHANGED <<journal, effect, parent, enabled>>
        /\ holder'[t] = "none"
    BY <1>1, <1>2, <2>1 DEF CommitFlushed, recovery, storage, TypeOK, Leave
  <2>4. TypeOK'
    BY <1>1, <1>2, <2>1, <2>3 DEF CommitFlushed, storage, recovery, world,
        StoreTyped, Goes, Leave, Answer, TypeOK
  <2>5. Frame(t) /\ scan' = scan
    BY <1>1, <1>2, <2>1, <2>3 DEF CommitFlushed, storage, recovery, world,
        StoreTyped, Goes, Leave, Answer, TypeOK, Frame, StoreFrame
  <2>6. \A r \in {record[t], disk[t], undo[t]}' : Sound(t, r)'
    BY <1>1, <1>2, <2>1, <2>3 DEF Loc, RecordsInv, Sound, NoneStands
  <2>7. RecordsInv(t)'
    BY <1>1, <1>2, <2>1, <2>3, <2>6 DEF Goes, Loc, RecordsInv, Forward,
        Stepping, Undoing, Synced, Unstarted
  <2>8. JournalInv(t)'
    BY <1>1, <1>2, <2>1, <2>3 DEF Goes, Loc, JournalInv, AllApplied, Forward,
        Stepping
  <2>9. StateInv(t)'
    BY <1>1, <1>2, <2>1, <2>3, <2>2 DEF Goes, Loc, StateInv, Both, Stepping
  <2>10. HolderInv(t)'
    BY <1>1, <1>2, <2>1, <2>3, <2>2 DEF Goes, Loc, HolderInv, Both, Rest,
        Unresolved, Mid, Final
  <2>. QED
    BY <1>1, <2>4, <2>5, <2>7, <2>8, <2>9, <2>10, WorkKeeps DEF Loc
<1>3. CASE /\ FlushFails /\ Reverted(t) /\ Goto(t, "marking")
          /\ UNCHANGED <<recovery, answer>>
  <2>1. undo[t] \in Record
    BY <1>1 DEF TypeOK
  <2>2. /\ StoreTyped' /\ StoreFrame(t) /\ faults' \in 0 .. MaxFaults
        /\ record'[t] = undo[t] /\ undo' = undo
        /\ disk' \in {disk, record}
        /\ Goes(t, "marking")
    BY <1>1, <1>3, <2>1, Failing, Going DEF CommitFlushed, Reverted, Label
  <2>3. UNCHANGED <<journal, effect, parent, holder, fences, answer, enabled>>
    BY <1>1, <1>3, <2>2 DEF CommitFlushed, recovery, storage, TypeOK
  <2>4. TypeOK'
    BY <1>1, <1>3, <2>2, <2>3 DEF CommitFlushed, storage, recovery, world,
        StoreTyped, Goes, TypeOK
  <2>5. Frame(t) /\ scan' = scan
    BY <1>1, <1>3, <2>2, <2>3 DEF CommitFlushed, storage, recovery, world,
        StoreTyped, Goes, TypeOK, Frame, StoreFrame
  <2>6. \A r \in {record[t], disk[t], undo[t]}' : Sound(t, r)'
    BY <1>1, <1>3, <2>2, <2>3 DEF Loc, RecordsInv, Sound, NoneStands
  <2>7. RecordsInv(t)'
    BY <1>1, <1>3, <2>2, <2>3, <2>6 DEF Goes, Loc, RecordsInv, Forward,
        Stepping, Undoing, Synced, Unstarted
  <2>8. JournalInv(t)'
    BY <1>1, <1>3, <2>2, <2>3 DEF Goes, Loc, JournalInv, AllApplied, Forward,
        Stepping
  <2>9. StateInv(t)'
    BY <1>1, <1>3, <2>2, <2>3 DEF Goes, Loc, StateInv, Both, Stepping
  <2>10. HolderInv(t)'
    BY <1>1, <1>3, <2>2, <2>3 DEF Goes, Loc, HolderInv, Both, Rest,
        Unresolved, Mid, Final
  <2>. QED
    BY <1>1, <2>4, <2>5, <2>7, <2>8, <2>9, <2>10, WorkKeeps DEF Loc
<1>. QED
  BY <1>2, <1>3 DEF CommitFlushed

(***************************************************************************)
(* A plan that is refused leaves no record.                                *)
(***************************************************************************)
LEMMA RejectPlanKeeps ==
  ASSUME IInv, NEW t \in Tx, RejectPlan(t)
  PROVE  IInv'
<1>1. /\ TypeOK /\ Loc(t) /\ pending = {}
      /\ pc[t] = "planning" /\ pc[t] \notin Rest
  BY DEF IInv, RejectPlan, At, Rest
<1>2. /\ UNCHANGED <<record, disk, undo>> /\ StoreTyped' /\ StoreFrame(t)
      /\ Goes(t, "done")
  BY <1>1, Going DEF RejectPlan, Leave, TypeOK, storage, StoreTyped,
      StoreFrame, Label
<1>3. record[t].state = "absent" /\ ~Unresolved(record[t])
  BY <1>1 DEF Loc, RecordsInv, Unstarted, Unresolved
<1>4. /\ UNCHANGED <<journal, effect, parent, fences, enabled>>
      /\ holder'[t] = "none"
      /\ answer'[t] = "rejected"
  BY <1>1, <1>2 DEF RejectPlan, recovery, storage, TypeOK, Leave, Answer
<1>5. TypeOK'
  BY <1>1, <1>2, <1>4 DEF RejectPlan, storage, recovery, world, StoreTyped,
      Goes, Leave, Answer, TypeOK
<1>6. Frame(t) /\ scan' = scan
  BY <1>1, <1>2, <1>4 DEF RejectPlan, storage, recovery, world, StoreTyped,
      Goes, Leave, Answer, TypeOK, Frame, StoreFrame
<1>7. \A r \in {record[t], disk[t], undo[t]}' : Sound(t, r)'
  BY <1>1, <1>2, <1>4 DEF Loc, RecordsInv, Sound, NoneStands
<1>8. RecordsInv(t)'
  BY <1>1, <1>2, <1>4, <1>7 DEF Goes, Loc, RecordsInv, Forward, Stepping,
      Undoing, Synced, Unstarted
<1>9. JournalInv(t)'
  BY <1>1, <1>2, <1>4 DEF Goes, Loc, JournalInv, AllApplied, Forward, Stepping
<1>10. StateInv(t)'
  BY <1>1, <1>2, <1>4 DEF Goes, Loc, StateInv, Both, Stepping
<1>11. HolderInv(t)'
  BY <1>1, <1>2, <1>4, <1>3 DEF Goes, Loc, HolderInv, Both, Rest, Unresolved,
      Mid, Final
<1>. QED
  BY <1>1, <1>5, <1>6, <1>8, <1>9, <1>10, <1>11, WorkKeeps DEF Loc

(***************************************************************************)
(* What the command leaves unresolved it leaves fenced and to the          *)
(* recovery; what is final lets go of the keys.                            *)
(***************************************************************************)
LEMMA ReturnKeeps ==
  ASSUME IInv, NEW t \in Tx, Return(t)
  PROVE  IInv'
<1>1. /\ TypeOK /\ Loc(t) /\ pending = {}
      /\ pc[t] = "returning" /\ pc[t] \notin Rest
  BY DEF IInv, Return, At, Rest
<1>2. CASE Unresolved(record[t])
  <2>1. record[t] \in Record
    BY <1>1 DEF TypeOK
  <2>2. /\ record[t] \in Record
        /\ Moved(record[t], "needs-recovery") \in Record
        /\ Moved(record[t], "needs-recovery").state = "needs-recovery"
        /\ Unresolved(Moved(record[t], "needs-recovery"))
    BY <1>2, <2>1, Recoverable
  <2>3. Sound(t, Moved(record[t], "needs-recovery"))
    BY <1>1, <2>2, MovedSound DEF Loc, RecordsInv, TypeOK, State,
        ValidTransitions
  <2>4. /\ record' = [record EXCEPT ![t] = Moved(record[t], "needs-recovery")]
        /\ holder' = [holder EXCEPT ![t] = "recovery"]
        /\ fences' = fences \cup {t} /\ pending' = pending \ {t}
    BY <1>2 DEF Return
  <2>5. /\ Goes(t, "done")
        /\ UNCHANGED <<disk, undo>>
    BY <1>1, Going DEF Return, Label
  <2>6. /\ StoreTyped' /\ StoreFrame(t) /\ Goes(t, "done")
        /\ record'[t] = Moved(record[t], "needs-recovery")
        /\ UNCHANGED <<disk, undo>>
    BY <1>1, <2>2, <2>4, <2>5 DEF TypeOK, StoreTyped, StoreFrame
  <2>7. /\ UNCHANGED <<journal, effect, parent, enabled>>
        /\ holder'[t] = "recovery"
        /\ t \in fences'
        /\ answer'[t] = "rejected"
    BY <1>1, <1>2, <2>6, <2>4 DEF Return, recovery, storage, TypeOK, Answer,
        Unresolved, Final
  <2>8. TypeOK'
    BY <1>1, <1>2, <2>6, <2>7, <2>4 DEF Return, storage, recovery, world,
        StoreTyped, Goes, Answer, Unresolved, Final, TypeOK
  <2>9. Frame(t) /\ scan' = scan
    BY <1>1, <1>2, <2>6, <2>7, <2>4 DEF Return, storage, recovery, world,
        StoreTyped, Goes, Answer, Unresolved, Final, TypeOK, Frame, StoreFrame
  <2>10. \A r \in {record[t], disk[t], undo[t]}' : Sound(t, r)'
    BY <1>1, <1>2, <2>6, <2>7, <2>4, <2>3 DEF Loc, RecordsInv, Sound,
        NoneStands
  <2>11. RecordsInv(t)'
    BY <1>1, <1>2, <2>6, <2>7, <2>10, <2>4 DEF Goes, Loc, RecordsInv, Forward,
        Stepping, Undoing, Synced, Unstarted
  <2>12. JournalInv(t)'
    BY <1>1, <1>2, <2>6, <2>7, <2>4 DEF Goes, Loc, JournalInv, AllApplied,
        Forward, Stepping
  <2>13. StateInv(t)'
    BY <1>1, <1>2, <2>6, <2>7, <2>4, <2>2 DEF Goes, Loc, StateInv, Both,
        Stepping
  <2>14. HolderInv(t)'
    BY <1>1, <1>2, <2>6, <2>7, <2>4, <2>2 DEF Goes, Loc, HolderInv, Both,
        Rest, Unresolved, Mid, Final
  <2>. QED
    BY <1>1, <2>8, <2>9, <2>11, <2>12, <2>13, <2>14, WorkKeeps DEF Loc
<1>3. CASE ~Unresolved(record[t])
  <2>1. /\ UNCHANGED <<record, disk, undo>> /\ StoreTyped' /\ StoreFrame(t)
        /\ Goes(t, "done")
    BY <1>1, <1>3, Going DEF Return, TypeOK, storage, StoreTyped, StoreFrame,
        Label, Unresolved, Final
  <2>2. /\ UNCHANGED <<journal, effect, parent, fences, enabled>>
        /\ holder'[t] = "none"
        /\ answer'[t] = "rejected"
    BY <1>1, <1>3, <2>1 DEF Return, recovery, storage, TypeOK, Answer,
        Unresolved, Final
  <2>3. TypeOK'
    BY <1>1, <1>3, <2>1, <2>2 DEF Return, storage, recovery, world,
        StoreTyped, Goes, Answer, Unresolved, Final, TypeOK
  <2>4. Frame(t) /\ scan' = scan
    BY <1>1, <1>3, <2>1, <2>2 DEF Return, storage, recovery, world,
        StoreTyped, Goes, Answer, Unresolved, Final, TypeOK, Frame, StoreFrame
  <2>5. \A r \in {record[t], disk[t], undo[t]}' : Sound(t, r)'
    BY <1>1, <1>3, <2>1, <2>2 DEF Loc, RecordsInv, Sound, NoneStands
  <2>6. RecordsInv(t)'
    BY <1>1, <1>3, <2>1, <2>2, <2>5 DEF Goes, Loc, RecordsInv, Forward,
        Stepping, Undoing, Synced, Unstarted
  <2>7. JournalInv(t)'
    BY <1>1, <1>3, <2>1, <2>2 DEF Goes, Loc, JournalInv, AllApplied, Forward,
        Stepping
  <2>8. StateInv(t)'
    BY <1>1, <1>3, <2>1, <2>2 DEF Goes, Loc, StateInv, Both, Stepping
  <2>9. HolderInv(t)'
    BY <1>1, <1>3, <2>1, <2>2 DEF Goes, Loc, HolderInv, Both, Rest,
        Unresolved, Mid, Final
  <2>. QED
    BY <1>1, <2>3, <2>4, <2>6, <2>7, <2>8, <2>9, WorkKeeps DEF Loc
<1>. QED
  BY <1>2, <1>3 DEF Return

(***************************************************************************)
(* A session that knows of no effect fails, which is true; one that knows  *)
(* all of them compensates; another leaves it to recovery.                 *)
(***************************************************************************)
LEMMA FailAndCompensateKeeps ==
  ASSUME IInv, NEW t \in Tx, FailAndCompensate(t)
  PROVE  IInv'
<1>1. /\ TypeOK /\ Loc(t) /\ pending = {}
      /\ pc[t] = "failing" /\ pc[t] \notin Rest
  BY DEF IInv, FailAndCompensate, At, Rest
<1>2. CASE Goto(t, "marking") /\ UNCHANGED storage
  <2>1. /\ UNCHANGED <<record, disk, undo>> /\ StoreTyped' /\ StoreFrame(t)
        /\ Goes(t, "marking")
    BY <1>1, <1>2, Going DEF TypeOK, storage, StoreTyped, StoreFrame, Label
  <2>2. UNCHANGED <<journal, effect, parent, holder, fences, answer, enabled>>
    BY <1>1, <1>2, <2>1 DEF FailAndCompensate, recovery, storage, TypeOK
  <2>3. TypeOK'
    BY <1>1, <1>2, <2>1, <2>2 DEF FailAndCompensate, storage, recovery, world,
        StoreTyped, Goes, TypeOK
  <2>4. Frame(t) /\ scan' = scan
    BY <1>1, <1>2, <2>1, <2>2 DEF FailAndCompensate, storage, recovery, world,
        StoreTyped, Goes, TypeOK, Frame, StoreFrame
  <2>5. \A r \in {record[t], disk[t], undo[t]}' : Sound(t, r)'
    BY <1>1, <1>2, <2>1, <2>2 DEF Loc, RecordsInv, Sound, NoneStands
  <2>6. RecordsInv(t)'
    BY <1>1, <1>2, <2>1, <2>2, <2>5 DEF Goes, Loc, RecordsInv, Forward,
        Stepping, Undoing, Synced, Unstarted
  <2>7. JournalInv(t)'
    BY <1>1, <1>2, <2>1, <2>2 DEF Goes, Loc, JournalInv, AllApplied, Forward,
        Stepping
  <2>8. StateInv(t)'
    BY <1>1, <1>2, <2>1, <2>2 DEF Goes, Loc, StateInv, Both, Stepping
  <2>9. HolderInv(t)'
    BY <1>1, <1>2, <2>1, <2>2 DEF Goes, Loc, HolderInv, Both, Rest,
        Unresolved, Mid, Final
  <2>. QED
    BY <1>1, <2>3, <2>4, <2>6, <2>7, <2>8, <2>9, WorkKeeps DEF Loc
<1>3. CASE /\ ~InJournal(t, Compensable)
          /\ SaveAndFlush(t, Moved(record[t], "failed"), "abandoning")
  <2>1. NoneStands(t)
    BY <1>1, <1>3 DEF Loc, JournalInv, HolderInv, Rest, Both, NoneStands,
        InJournal
  <2>2. Moved(record[t], "failed") \in Record
    BY <1>1, MovedFacts DEF TypeOK, State, ValidTransitions
  <2>3. /\ StoreTyped' /\ StoreFrame(t)
        /\ Goes(t, "abandoning")
        /\ record'[t] = Moved(record[t], "failed") /\ undo'[t] = record[t]
        /\ disk' = disk
    BY <1>1, <2>2, <1>3, Saving DEF Label
  <2>4. Sound(t, Moved(record[t], "failed"))
    BY <1>1, <2>1, MovedSound DEF Loc, RecordsInv, TypeOK, State,
        ValidTransitions
  <2>5. UNCHANGED <<journal, effect, parent, holder, fences, answer, enabled>>
    BY <1>1, <1>3, <2>3 DEF FailAndCompensate, recovery, storage, TypeOK
  <2>6. TypeOK'
    BY <1>1, <1>3, <2>3, <2>5 DEF FailAndCompensate, storage, recovery, world,
        StoreTyped, Goes, TypeOK
  <2>7. Frame(t) /\ scan' = scan
    BY <1>1, <1>3, <2>3, <2>5 DEF FailAndCompensate, storage, recovery, world,
        StoreTyped, Goes, TypeOK, Frame, StoreFrame
  <2>8. \A r \in {record[t], disk[t], undo[t]}' : Sound(t, r)'
    BY <1>1, <1>3, <2>3, <2>5, <2>4 DEF Loc, RecordsInv, Sound, NoneStands
  <2>9. RecordsInv(t)'
    BY <1>1, <1>3, <2>3, <2>5, <2>8 DEF Goes, Loc, RecordsInv, Forward,
        Stepping, Undoing, Synced, Unstarted
  <2>10. JournalInv(t)'
    BY <1>1, <1>3, <2>3, <2>5 DEF Goes, Loc, JournalInv, AllApplied, Forward,
        Stepping
  <2>11. StateInv(t)'
    BY <1>1, <1>3, <2>3, <2>5 DEF Goes, Loc, StateInv, Both, Stepping
  <2>12. HolderInv(t)'
    BY <1>1, <1>3, <2>3, <2>5 DEF Goes, Loc, HolderInv, Both, Rest,
        Unresolved, Mid, Final
  <2>. QED
    BY <1>1, <2>6, <2>7, <2>9, <2>10, <2>11, <2>12, WorkKeeps DEF Loc
<1>4. CASE SaveAndFlush(t, Moved(record[t], "compensating"), "reversing")
  <2>1. /\ Moved(record[t], "compensating") \in Record
        /\ Moved(record[t], "compensating").state \in Mid
        /\ record[t].state \in Mid
    BY <1>1, MovedFacts DEF Loc, StateInv, Mid, TypeOK, State,
        ValidTransitions
  <2>2. /\ StoreTyped' /\ StoreFrame(t)
        /\ Goes(t, "reversing")
        /\ record'[t] = Moved(record[t], "compensating")
        /\ undo'[t] = record[t]
        /\ disk' = disk
    BY <1>1, <2>1, <1>4, Saving DEF Label
  <2>3. Sound(t, Moved(record[t], "compensating"))
    BY <1>1, MovedSound DEF Loc, RecordsInv, TypeOK, State, ValidTransitions
  <2>4. UNCHANGED <<journal, effect, parent, holder, fences, answer, enabled>>
    BY <1>1, <1>4, <2>2 DEF FailAndCompensate, recovery, storage, TypeOK
  <2>5. TypeOK'
    BY <1>1, <1>4, <2>2, <2>4 DEF FailAndCompensate, storage, recovery, world,
        StoreTyped, Goes, TypeOK
  <2>6. Frame(t) /\ scan' = scan
    BY <1>1, <1>4, <2>2, <2>4 DEF FailAndCompensate, storage, recovery, world,
        StoreTyped, Goes, TypeOK, Frame, StoreFrame
  <2>7. \A r \in {record[t], disk[t], undo[t]}' : Sound(t, r)'
    BY <1>1, <1>4, <2>2, <2>4, <2>3 DEF Loc, RecordsInv, Sound, NoneStands
  <2>8. RecordsInv(t)'
    BY <1>1, <1>4, <2>2, <2>4, <2>7 DEF Goes, Loc, RecordsInv, Forward,
        Stepping, Undoing, Synced, Unstarted
  <2>9. JournalInv(t)'
    BY <1>1, <1>4, <2>2, <2>4 DEF Goes, Loc, JournalInv, AllApplied, Forward,
        Stepping
  <2>10. StateInv(t)'
    BY <1>1, <1>4, <2>2, <2>4, <2>1 DEF Goes, Loc, StateInv, Both, Stepping
  <2>11. HolderInv(t)'
    BY <1>1, <1>4, <2>2, <2>4 DEF Goes, Loc, HolderInv, Both, Rest,
        Unresolved, Mid, Final
  <2>. QED
    BY <1>1, <2>5, <2>6, <2>8, <2>9, <2>10, <2>11, WorkKeeps DEF Loc
<1>. QED
  BY <1>2, <1>3, <1>4 DEF FailAndCompensate

(***************************************************************************)
(* Whatever was flushed, memory and disk are sound.                        *)
(***************************************************************************)
LEMMA AbandonFlushedKeeps ==
  ASSUME IInv, NEW t \in Tx, AbandonFlushed(t)
  PROVE  IInv'
<1>1. /\ TypeOK /\ Loc(t) /\ pending = {}
      /\ pc[t] = "abandoning" /\ pc[t] \notin Rest
  BY DEF IInv, AbandonFlushed, At, Rest
<1>2. CASE Flushed(t) /\ Goto(t, "returning")
  <2>1. /\ StoreTyped' /\ StoreFrame(t) /\ faults' \in 0 .. MaxFaults
        /\ record' = record /\ undo'[t] = record[t] /\ disk' = record
        /\ Goes(t, "returning")
    BY <1>1, <1>2, Flushing, Going DEF Label
  <2>2. UNCHANGED <<journal, effect, parent, holder, answer, enabled>>
    BY <1>1, <1>2, <2>1 DEF AbandonFlushed, recovery, storage, TypeOK
  <2>3. TypeOK'
    BY <1>1, <1>2, <2>1, <2>2 DEF AbandonFlushed, storage, recovery, world,
        StoreTyped, Goes, TypeOK
  <2>4. Frame(t) /\ scan' = scan
    BY <1>1, <1>2, <2>1, <2>2 DEF AbandonFlushed, storage, recovery, world,
        StoreTyped, Goes, TypeOK, Frame, StoreFrame
  <2>5. \A r \in {record[t], disk[t], undo[t]}' : Sound(t, r)'
    BY <1>1, <1>2, <2>1, <2>2 DEF Loc, RecordsInv, Sound, NoneStands
  <2>6. RecordsInv(t)'
    BY <1>1, <1>2, <2>1, <2>2, <2>5 DEF Goes, Loc, RecordsInv, Forward,
        Stepping, Undoing, Synced, Unstarted
  <2>7. JournalInv(t)'
    BY <1>1, <1>2, <2>1, <2>2 DEF Goes, Loc, JournalInv, AllApplied, Forward,
        Stepping
  <2>8. StateInv(t)'
    BY <1>1, <1>2, <2>1, <2>2 DEF Goes, Loc, StateInv, Both, Stepping
  <2>9. HolderInv(t)'
    BY <1>1, <1>2, <2>1, <2>2 DEF Goes, Loc, HolderInv, Both, Rest,
        Unresolved, Mid, Final
  <2>. QED
    BY <1>1, <2>3, <2>4, <2>6, <2>7, <2>8, <2>9, WorkKeeps DEF Loc
<1>3. CASE FlushFails /\ Reverted(t) /\ Goto(t, "returning")
  <2>1. undo[t] \in Record
    BY <1>1 DEF TypeOK
  <2>2. /\ StoreTyped' /\ StoreFrame(t) /\ faults' \in 0 .. MaxFaults
        /\ record'[t] = undo[t] /\ undo' = undo
        /\ disk' \in {disk, record}
        /\ Goes(t, "returning")
    BY <1>1, <1>3, <2>1, Failing, Going DEF AbandonFlushed, Reverted, Label
  <2>3. UNCHANGED <<journal, effect, parent, holder, answer, enabled>>
    BY <1>1, <1>3, <2>2 DEF AbandonFlushed, recovery, storage, TypeOK
  <2>4. TypeOK'
    BY <1>1, <1>3, <2>2, <2>3 DEF AbandonFlushed, storage, recovery, world,
        StoreTyped, Goes, TypeOK
  <2>5. Frame(t) /\ scan' = scan
    BY <1>1, <1>3, <2>2, <2>3 DEF AbandonFlushed, storage, recovery, world,
        StoreTyped, Goes, TypeOK, Frame, StoreFrame
  <2>6. \A r \in {record[t], disk[t], undo[t]}' : Sound(t, r)'
    BY <1>1, <1>3, <2>2, <2>3 DEF Loc, RecordsInv, Sound, NoneStands
  <2>7. RecordsInv(t)'
    BY <1>1, <1>3, <2>2, <2>3, <2>6 DEF Goes, Loc, RecordsInv, Forward,
        Stepping, Undoing, Synced, Unstarted
  <2>8. JournalInv(t)'
    BY <1>1, <1>3, <2>2, <2>3 DEF Goes, Loc, JournalInv, AllApplied, Forward,
        Stepping
  <2>9. StateInv(t)'
    BY <1>1, <1>3, <2>2, <2>3 DEF Goes, Loc, StateInv, Both, Stepping
  <2>10. HolderInv(t)'
    BY <1>1, <1>3, <2>2, <2>3 DEF Goes, Loc, HolderInv, Both, Rest,
        Unresolved, Mid, Final
  <2>. QED
    BY <1>1, <2>4, <2>5, <2>7, <2>8, <2>9, <2>10, WorkKeeps DEF Loc
<1>. QED
  BY <1>2, <1>3 DEF AbandonFlushed

(***************************************************************************)
(* Whatever was flushed, the record is one a compensator ends.             *)
(***************************************************************************)
LEMMA ReverseFlushedKeeps ==
  ASSUME IInv, NEW t \in Tx, ReverseFlushed(t)
  PROVE  IInv'
<1>1. /\ TypeOK /\ Loc(t) /\ pending = {}
      /\ pc[t] = "reversing" /\ pc[t] \notin Rest
  BY DEF IInv, ReverseFlushed, At, Rest
<1>2. holder[t] = "command"
  BY <1>1 DEF Loc, HolderInv, Rest, Both
<1>3. CASE Flushed(t) /\ Goto(t, "compensating")
  <2>1. /\ StoreTyped' /\ StoreFrame(t) /\ faults' \in 0 .. MaxFaults
        /\ record' = record /\ undo'[t] = record[t] /\ disk' = record
        /\ Goes(t, "compensating")
    BY <1>1, <1>3, Flushing, Going DEF Label
  <2>2. UNCHANGED <<journal, effect, parent, holder, fences, answer, enabled>>
    BY <1>1, <1>3, <2>1 DEF ReverseFlushed, recovery, storage, TypeOK
  <2>3. TypeOK'
    BY <1>1, <1>3, <2>1, <2>2 DEF ReverseFlushed, storage, recovery, world,
        StoreTyped, Goes, TypeOK
  <2>4. Frame(t) /\ scan' = scan
    BY <1>1, <1>3, <2>1, <2>2 DEF ReverseFlushed, storage, recovery, world,
        StoreTyped, Goes, TypeOK, Frame, StoreFrame
  <2>5. \A r \in {record[t], disk[t], undo[t]}' : Sound(t, r)'
    BY <1>1, <1>3, <2>1, <2>2 DEF Loc, RecordsInv, Sound, NoneStands
  <2>6. RecordsInv(t)'
    BY <1>1, <1>3, <2>1, <2>2, <2>5 DEF Goes, Loc, RecordsInv, Forward,
        Stepping, Undoing, Synced, Unstarted
  <2>7. JournalInv(t)'
    BY <1>1, <1>3, <2>1, <2>2 DEF Goes, Loc, JournalInv, AllApplied, Forward,
        Stepping
  <2>8. StateInv(t)'
    BY <1>1, <1>3, <2>1, <2>2, <1>2 DEF Goes, Loc, StateInv, Both, Stepping,
        HolderInv, Rest
  <2>9. HolderInv(t)'
    BY <1>1, <1>3, <2>1, <2>2 DEF Goes, Loc, HolderInv, Both, Rest,
        Unresolved, Mid, Final
  <2>. QED
    BY <1>1, <2>3, <2>4, <2>6, <2>7, <2>8, <2>9, WorkKeeps DEF Loc
<1>4. CASE FlushFails /\ Reverted(t) /\ Goto(t, "compensating")
  <2>1. undo[t] \in Record
    BY <1>1 DEF TypeOK
  <2>2. /\ StoreTyped' /\ StoreFrame(t) /\ faults' \in 0 .. MaxFaults
        /\ record'[t] = undo[t] /\ undo' = undo
        /\ disk' \in {disk, record}
        /\ Goes(t, "compensating")
    BY <1>1, <1>4, <2>1, Failing, Going DEF ReverseFlushed, Reverted, Label
  <2>3. UNCHANGED <<journal, effect, parent, holder, fences, answer, enabled>>
    BY <1>1, <1>4, <2>2 DEF ReverseFlushed, recovery, storage, TypeOK
  <2>4. TypeOK'
    BY <1>1, <1>4, <2>2, <2>3 DEF ReverseFlushed, storage, recovery, world,
        StoreTyped, Goes, TypeOK
  <2>5. Frame(t) /\ scan' = scan
    BY <1>1, <1>4, <2>2, <2>3 DEF ReverseFlushed, storage, recovery, world,
        StoreTyped, Goes, TypeOK, Frame, StoreFrame
  <2>6. \A r \in {record[t], disk[t], undo[t]}' : Sound(t, r)'
    BY <1>1, <1>4, <2>2, <2>3 DEF Loc, RecordsInv, Sound, NoneStands
  <2>7. RecordsInv(t)'
    BY <1>1, <1>4, <2>2, <2>3, <2>6 DEF Goes, Loc, RecordsInv, Forward,
        Stepping, Undoing, Synced, Unstarted
  <2>8. JournalInv(t)'
    BY <1>1, <1>4, <2>2, <2>3 DEF Goes, Loc, JournalInv, AllApplied, Forward,
        Stepping
  <2>9. StateInv(t)'
    BY <1>1, <1>4, <2>2, <2>3, <1>2 DEF Goes, Loc, StateInv, Both, Stepping,
        HolderInv, Rest
  <2>10. HolderInv(t)'
    BY <1>1, <1>4, <2>2, <2>3 DEF Goes, Loc, HolderInv, Both, Rest,
        Unresolved, Mid, Final
  <2>. QED
    BY <1>1, <2>4, <2>5, <2>7, <2>8, <2>9, <2>10, WorkKeeps DEF Loc
<1>. QED
  BY <1>3, <1>4 DEF ReverseFlushed

(***************************************************************************)
(* The effect of a step is taken back, the step is marked.                 *)
(***************************************************************************)
Compensated(r, s) == [r EXCEPT !.steps[s] = "compensated", !.done = @ \cup {s}]

LEMMA Marking ==
  ASSUME NEW r \in Record, NEW s \in Step
  PROVE  /\ Compensated(r, s) \in Record
         /\ Compensated(r, s).state = r.state
         /\ Compensated(r, s).reached = r.reached
         /\ \A i \in Step \ {s} :
              /\ Compensated(r, s).steps[i] = r.steps[i]
              /\ i \in Compensated(r, s).done <=> i \in r.done
<1>. DEFINE S == [Step -> {"absent", "planned", "compensated"}
                            \cup Compensable]
            steps == [r.steps EXCEPT ![s] = "compensated"]
            done == r.done \cup {s}
<1>1. r.steps \in S /\ r.done \in SUBSET Step /\ steps \in S
      /\ done \in SUBSET Step
  BY DEF Record
<1>2. \A i \in Step \ {s} : steps[i] = r.steps[i]
  BY <1>1
<1>3. Compensated(r, s) = [r EXCEPT !.steps = steps, !.done = done]
  BY DEF Compensated, Record
<1>4. \A i \in Step \ {s} : i \in done <=> i \in r.done
  OBVIOUS
<1>. HIDE DEF steps, done
<1>5. /\ Compensated(r, s) \in Record
      /\ Compensated(r, s).state = r.state
      /\ Compensated(r, s).reached = r.reached
      /\ Compensated(r, s).steps = steps /\ Compensated(r, s).done = done
  BY <1>1, <1>3 DEF Record
<1>. QED
  BY <1>2, <1>4, <1>5

(***************************************************************************)
(* What a compensator does to the effects.                                 *)
(***************************************************************************)
LEMMA Undone ==
  ASSUME TypeOK, NEW t \in Tx, NEW s \in Step, Compensate(t, s)
  PROVE  /\ effect' \in [Tx -> [Step -> {"none", "applied", "undone"}]]
         /\ \A u \in Tx \ {t} : effect'[u] = effect[u]
         /\ effect'[t][s] # "applied"
         /\ \A i \in Step \ {s} : effect'[t][i] = effect[t][i]
<1>. DEFINE E == [Step -> {"none", "applied", "undone"}]
            e == [effect[t] EXCEPT
                    ![s] = IF @ = "applied" THEN "undone" ELSE @]
<1>1. effect \in [Tx -> E]
  BY DEF TypeOK
<1>2. e \in E /\ e[s] # "applied" /\ \A i \in Step \ {s} : e[i] = effect[t][i]
  BY <1>1
<1>3. effect' = [effect EXCEPT ![t] = e]
  BY DEF Compensate
<1>. HIDE DEF E, e
<1>4. effect' \in [Tx -> E] /\ effect'[t] = e
      /\ \A u \in Tx \ {t} : effect'[u] = effect[u]
  BY <1>1, <1>2, <1>3
<1>. QED
  BY <1>2, <1>4 DEF E

(***************************************************************************)
(* An effect less stands, and the parent is not written.                   *)
(***************************************************************************)
LEMMA CompensateKeeps ==
  ASSUME IInv, NEW t \in Tx, NEW s \in Step, Compensate(t, s)
  PROVE  IInv'
<1>1. /\ TypeOK /\ Loc(t) /\ pending = {}
      /\ pc[t] = "compensating" /\ pc[t] \notin Rest
  BY DEF IInv, Compensate, At, Rest
<1>2. SaveAndFlush(t, Compensated(record[t], s), "checking")
  BY DEF Compensate, Compensated
<1>3. /\ record[t] \in Record /\ Compensated(record[t], s) \in Record
      /\ Compensated(record[t], s).state = record[t].state
      /\ Compensated(record[t], s).reached = record[t].reached
      /\ \A i \in Step \ {s} :
             /\ Compensated(record[t], s).steps[i] = record[t].steps[i]
             /\ i \in Compensated(record[t], s).done <=> i \in record[t].done
  BY <1>1, Marking DEF TypeOK
<1>4. /\ StoreTyped' /\ StoreFrame(t)
      /\ Goes(t, "checking")
      /\ record'[t] = Compensated(record[t], s) /\ undo'[t] = record[t]
      /\ disk' = disk
  BY <1>1, <1>2, <1>3, Saving DEF Label
<1>5. /\ effect' \in [Tx -> [Step -> {"none", "applied", "undone"}]]
      /\ \A u \in Tx \ {t} : effect'[u] = effect[u]
      /\ effect'[t][s] # "applied"
      /\ \A i \in Step \ {s} : effect'[t][i] = effect[t][i]
  BY <1>1, Undone
<1>6. t \notin parent
  BY <1>1 DEF Loc, RecordsInv, Undoing
<1>7. UNCHANGED <<journal, parent, holder, fences, answer, enabled>>
  BY <1>1, <1>4 DEF Compensate, recovery, storage, TypeOK
<1>8. TypeOK'
  BY <1>1, <1>4, <1>7, <1>5, <1>3 DEF Compensate, storage, recovery, world,
      StoreTyped, Goes, TypeOK
<1>9. Frame(t) /\ scan' = scan
  BY <1>1, <1>4, <1>7, <1>5, <1>3 DEF Compensate, storage, recovery, world,
      StoreTyped, Goes, TypeOK, Frame, StoreFrame
<1>10. \A r \in {record[t], disk[t], undo[t]}' : Sound(t, r)'
  BY <1>1, <1>4, <1>7, <1>5, <1>3 DEF Loc, RecordsInv, Sound, NoneStands
<1>11. RecordsInv(t)'
  BY <1>1, <1>4, <1>7, <1>10, <1>5, <1>3, <1>6 DEF Goes, Loc, RecordsInv,
      Forward, Stepping, Undoing, Synced, Unstarted
<1>12. JournalInv(t)'
  BY <1>1, <1>4, <1>7, <1>5, <1>3 DEF Goes, Loc, JournalInv, AllApplied,
      Forward, Stepping
<1>13. StateInv(t)'
  BY <1>1, <1>4, <1>7, <1>5, <1>3 DEF Goes, Loc, StateInv, Both, Stepping
<1>14. HolderInv(t)'
  BY <1>1, <1>4, <1>7, <1>5, <1>3 DEF Goes, Loc, HolderInv, Both, Rest,
      Unresolved, Mid, Final
<1>. QED
  BY <1>1, <1>8, <1>9, <1>11, <1>12, <1>13, <1>14, WorkKeeps DEF Loc

(***************************************************************************)
(* A compensator that fails leaves its transaction to recovery.            *)
(***************************************************************************)
LEMMA CompensateFailsKeeps ==
  ASSUME IInv, NEW t \in Tx, CompensateFails(t)
  PROVE  IInv'
<1>1. /\ TypeOK /\ Loc(t) /\ pending = {}
      /\ pc[t] = "compensating" /\ pc[t] \notin Rest
  BY DEF IInv, CompensateFails, At, Rest
<1>2. holder[t] \in {"command", "recovery"}
  BY <1>1 DEF Loc, HolderInv, Both, TypeOK
<1>3. CASE holder[t] = "command"
  <2>1. /\ UNCHANGED <<record, disk, undo>> /\ StoreTyped' /\ StoreFrame(t)
        /\ Goes(t, "marking")
        /\ faults' \in 0 .. MaxFaults
    BY ZenonT(40), <1>1, <1>3, Going, Faulting DEF CompensateFails, CompensatorFails,
        TypeOK, StoreTyped, StoreFrame, Label
  <2>2. UNCHANGED <<journal, effect, parent, holder, fences, answer, enabled>>
    BY <1>1, <1>3, <2>1 DEF CompensateFails, recovery, storage, TypeOK
  <2>3. TypeOK'
    BY <1>1, <1>3, <2>1, <2>2 DEF CompensateFails, storage, recovery, world,
        StoreTyped, Goes, TypeOK
  <2>4. Frame(t) /\ scan' = scan
    BY <1>1, <1>3, <2>1, <2>2 DEF CompensateFails, storage, recovery, world,
        StoreTyped, Goes, TypeOK, Frame, StoreFrame
  <2>5. \A r \in {record[t], disk[t], undo[t]}' : Sound(t, r)'
    BY <1>1, <1>3, <2>1, <2>2 DEF Loc, RecordsInv, Sound, NoneStands
  <2>6. RecordsInv(t)'
    BY <1>1, <1>3, <2>1, <2>2, <2>5 DEF Goes, Loc, RecordsInv, Forward,
        Stepping, Undoing, Synced, Unstarted
  <2>7. JournalInv(t)'
    BY <1>1, <1>3, <2>1, <2>2 DEF Goes, Loc, JournalInv, AllApplied, Forward,
        Stepping
  <2>8. StateInv(t)'
    BY <1>1, <1>3, <2>1, <2>2 DEF Goes, Loc, StateInv, Both, Stepping
  <2>9. HolderInv(t)'
    BY <1>1, <1>3, <2>1, <2>2 DEF Goes, Loc, HolderInv, Both, Rest,
        Unresolved, Mid, Final
  <2>. QED
    BY <1>1, <2>3, <2>4, <2>6, <2>7, <2>8, <2>9, WorkKeeps DEF Loc
<1>4. CASE holder[t] # "command"
  <2>1. record[t].state = "compensating"
    BY <1>1, <1>4 DEF Loc, StateInv, Both
  <2>2. record[t] \in Record
    BY <1>1 DEF TypeOK
  <2>3. /\ Moved(record[t], "needs-recovery") \in Record
        /\ Moved(record[t], "needs-recovery").state = "needs-recovery"
        /\ Unresolved(Moved(record[t], "needs-recovery"))
    BY <1>1, <2>2, <2>1, NeedsRecovery, States DEF Mid
  <2>4. Sound(t, Moved(record[t], "needs-recovery"))
    BY <1>1, <2>3, MovedSound DEF Loc, RecordsInv, TypeOK, State,
        ValidTransitions
  <2>5. /\ record' = [record EXCEPT ![t] =
                        Moved(record[t], "needs-recovery")]
        /\ Goto(t, "done") /\ UNCHANGED <<disk, undo>>
        /\ faults' \in 0 .. MaxFaults
    BY <1>1, <1>4, Faulting DEF CompensateFails, CompensatorFails
  <2>6. /\ StoreTyped' /\ StoreFrame(t)
        /\ Goes(t, "done")
        /\ record'[t] = Moved(record[t], "needs-recovery")
        /\ UNCHANGED <<disk, undo>>
        /\ faults' \in 0 .. MaxFaults
    BY <1>1, <2>5, <2>3, Going DEF TypeOK, StoreTyped, StoreFrame, Label
  <2>7. UNCHANGED <<journal, effect, parent, holder, fences, answer, enabled>>
    BY <1>1, <1>4, <2>6 DEF CompensateFails, recovery, storage, TypeOK
  <2>8. TypeOK'
    BY <1>1, <1>4, <2>6, <2>7, <1>2 DEF CompensateFails, storage, recovery,
        world, StoreTyped, Goes, TypeOK
  <2>9. Frame(t) /\ scan' = scan
    BY <1>1, <1>4, <2>6, <2>7, <1>2 DEF CompensateFails, storage, recovery,
        world, StoreTyped, Goes, TypeOK, Frame, StoreFrame
  <2>10. \A r \in {record[t], disk[t], undo[t]}' : Sound(t, r)'
    BY <1>1, <1>4, <2>6, <2>7, <1>2, <2>4 DEF Loc, RecordsInv, Sound,
        NoneStands
  <2>11. RecordsInv(t)'
    BY <1>1, <1>4, <2>6, <2>7, <2>10, <1>2 DEF Goes, Loc, RecordsInv, Forward,
        Stepping, Undoing, Synced, Unstarted
  <2>12. JournalInv(t)'
    BY <1>1, <1>4, <2>6, <2>7, <1>2 DEF Goes, Loc, JournalInv, AllApplied,
        Forward, Stepping
  <2>13. StateInv(t)'
    BY <1>1, <1>4, <2>6, <2>7, <1>2, <2>3 DEF Goes, Loc, StateInv, Both,
        Stepping
  <2>14. HolderInv(t)'
    BY <1>1, <1>4, <2>6, <2>7, <1>2, <2>3 DEF Goes, Loc, HolderInv, Both,
        Rest, Unresolved, Mid, Final
  <2>. QED
    BY <1>1, <2>8, <2>9, <2>11, <2>12, <2>13, <2>14, WorkKeeps DEF Loc
<1>. QED
  BY <1>3, <1>4 DEF CompensateFails

(***************************************************************************)
(* A mark that is not flushed is taken back.                               *)
(***************************************************************************)
LEMMA CheckFlushedKeeps ==
  ASSUME IInv, NEW t \in Tx, CheckFlushed(t)
  PROVE  IInv'
<1>1. /\ TypeOK /\ Loc(t) /\ pending = {}
      /\ pc[t] = "checking" /\ pc[t] \notin Rest
  BY DEF IInv, CheckFlushed, At, Rest
<1>2. holder[t] \in {"command", "recovery"}
  BY <1>1 DEF Loc, HolderInv, Both, TypeOK
<1>3. CASE Flushed(t) /\ Goto(t, "compensating")
  <2>1. /\ StoreTyped' /\ StoreFrame(t) /\ faults' \in 0 .. MaxFaults
        /\ record' = record /\ undo'[t] = record[t] /\ disk' = record
        /\ Goes(t, "compensating")
    BY <1>1, <1>3, Flushing, Going DEF Label
  <2>2. UNCHANGED <<journal, effect, parent, holder, fences, answer, enabled>>
    BY <1>1, <1>3, <2>1 DEF CheckFlushed, recovery, storage, TypeOK
  <2>3. TypeOK'
    BY <1>1, <1>3, <2>1, <2>2 DEF CheckFlushed, storage, recovery, world,
        StoreTyped, Goes, TypeOK
  <2>4. Frame(t) /\ scan' = scan
    BY <1>1, <1>3, <2>1, <2>2 DEF CheckFlushed, storage, recovery, world,
        StoreTyped, Goes, TypeOK, Frame, StoreFrame
  <2>5. \A r \in {record[t], disk[t], undo[t]}' : Sound(t, r)'
    BY <1>1, <1>3, <2>1, <2>2 DEF Loc, RecordsInv, Sound, NoneStands
  <2>6. RecordsInv(t)'
    BY <1>1, <1>3, <2>1, <2>2, <2>5 DEF Goes, Loc, RecordsInv, Forward,
        Stepping, Undoing, Synced, Unstarted
  <2>7. JournalInv(t)'
    BY <1>1, <1>3, <2>1, <2>2 DEF Goes, Loc, JournalInv, AllApplied, Forward,
        Stepping
  <2>8. StateInv(t)'
    BY <1>1, <1>3, <2>1, <2>2 DEF Goes, Loc, StateInv, Both, Stepping
  <2>9. HolderInv(t)'
    BY <1>1, <1>3, <2>1, <2>2 DEF Goes, Loc, HolderInv, Both, Rest,
        Unresolved, Mid, Final
  <2>. QED
    BY <1>1, <2>3, <2>4, <2>6, <2>7, <2>8, <2>9, WorkKeeps DEF Loc
<1>4. CASE /\ FlushFails /\ holder[t] = "command" /\ Goto(t, "marking")
          /\ record' = [record EXCEPT ![t] = undo[t]]
  <2>1. undo[t] \in Record
    BY <1>1 DEF TypeOK
  <2>2. /\ StoreTyped' /\ StoreFrame(t) /\ faults' \in 0 .. MaxFaults
        /\ record'[t] = undo[t] /\ undo' = undo
        /\ disk' \in {disk, record}
        /\ Goes(t, "marking")
    BY <1>1, <1>4, <2>1, Failing, Going DEF CheckFlushed, Reverted, Label
  <2>3. UNCHANGED <<journal, effect, parent, holder, fences, answer, enabled>>
    BY <1>1, <1>4, <2>2 DEF CheckFlushed, recovery, storage, TypeOK
  <2>4. TypeOK'
    BY <1>1, <1>4, <2>2, <2>3 DEF CheckFlushed, storage, recovery, world,
        StoreTyped, Goes, TypeOK
  <2>5. Frame(t) /\ scan' = scan
    BY <1>1, <1>4, <2>2, <2>3 DEF CheckFlushed, storage, recovery, world,
        StoreTyped, Goes, TypeOK, Frame, StoreFrame
  <2>6. \A r \in {record[t], disk[t], undo[t]}' : Sound(t, r)'
    BY <1>1, <1>4, <2>2, <2>3 DEF Loc, RecordsInv, Sound, NoneStands
  <2>7. RecordsInv(t)'
    BY <1>1, <1>4, <2>2, <2>3, <2>6 DEF Goes, Loc, RecordsInv, Forward,
        Stepping, Undoing, Synced, Unstarted
  <2>8. JournalInv(t)'
    BY <1>1, <1>4, <2>2, <2>3 DEF Goes, Loc, JournalInv, AllApplied, Forward,
        Stepping
  <2>9. StateInv(t)'
    BY <1>1, <1>4, <2>2, <2>3 DEF Goes, Loc, StateInv, Both, Stepping
  <2>10. HolderInv(t)'
    BY <1>1, <1>4, <2>2, <2>3 DEF Goes, Loc, HolderInv, Both, Rest,
        Unresolved, Mid, Final
  <2>. QED
    BY <1>1, <2>4, <2>5, <2>7, <2>8, <2>9, <2>10, WorkKeeps DEF Loc
<1>5. CASE /\ FlushFails /\ holder[t] # "command" /\ Goto(t, "done")
          /\ record' = [record EXCEPT ![t] =
                        Moved(undo[t], "needs-recovery")]
  <2>1. undo[t].state = "compensating"
    BY <1>1, <1>5 DEF Loc, StateInv, Both
  <2>2. undo[t] \in Record
    BY <1>1 DEF TypeOK
  <2>3. /\ Moved(undo[t], "needs-recovery") \in Record
        /\ Moved(undo[t], "needs-recovery").state = "needs-recovery"
        /\ Unresolved(Moved(undo[t], "needs-recovery"))
    BY <1>1, <2>2, <2>1, NeedsRecovery, States DEF Mid
  <2>4. Sound(t, Moved(undo[t], "needs-recovery"))
    BY <1>1, <2>3, MovedSound DEF Loc, RecordsInv, TypeOK, State,
        ValidTransitions
  <2>5. /\ StoreTyped' /\ StoreFrame(t) /\ faults' \in 0 .. MaxFaults
        /\ record'[t] = Moved(undo[t], "needs-recovery") /\ undo' = undo
        /\ disk' \in {disk, record}
        /\ Goes(t, "done")
    BY <1>1, <1>5, <2>3, Failing, Going DEF Label
  <2>6. UNCHANGED <<journal, effect, parent, holder, fences, answer, enabled>>
    BY <1>1, <1>5, <2>5 DEF CheckFlushed, recovery, storage, TypeOK
  <2>7. TypeOK'
    BY <1>1, <1>5, <2>5, <2>6, <1>2 DEF CheckFlushed, storage, recovery,
        world, StoreTyped, Goes, TypeOK
  <2>8. Frame(t) /\ scan' = scan
    BY <1>1, <1>5, <2>5, <2>6, <1>2 DEF CheckFlushed, storage, recovery,
        world, StoreTyped, Goes, TypeOK, Frame, StoreFrame
  <2>9. \A r \in {record[t], disk[t], undo[t]}' : Sound(t, r)'
    BY <1>1, <1>5, <2>5, <2>6, <1>2, <2>4 DEF Loc, RecordsInv, Sound,
        NoneStands
  <2>10. RecordsInv(t)'
    BY <1>1, <1>5, <2>5, <2>6, <2>9, <1>2 DEF Goes, Loc, RecordsInv, Forward,
        Stepping, Undoing, Synced, Unstarted
  <2>11. JournalInv(t)'
    BY <1>1, <1>5, <2>5, <2>6, <1>2 DEF Goes, Loc, JournalInv, AllApplied,
        Forward, Stepping
  <2>12. StateInv(t)'
    BY <1>1, <1>5, <2>5, <2>6, <1>2, <2>3 DEF Goes, Loc, StateInv, Both,
        Stepping
  <2>13. HolderInv(t)'
    BY <1>1, <1>5, <2>5, <2>6, <1>2, <2>3 DEF Goes, Loc, HolderInv, Both,
        Rest, Unresolved, Mid, Final
  <2>. QED
    BY <1>1, <2>7, <2>8, <2>10, <2>11, <2>12, <2>13, WorkKeeps DEF Loc
<1>. QED
  BY <1>3, <1>4, <1>5 DEF CheckFlushed, CompensatorFails

(***************************************************************************)
(* Nothing remains, so nothing stands: the outcome is true.                *)
(***************************************************************************)
LEMMA ConcludeKeeps ==
  ASSUME IInv, NEW t \in Tx, Conclude(t)
  PROVE  IInv'
<1>1. /\ TypeOK /\ Loc(t) /\ pending = {}
      /\ pc[t] = "compensating" /\ pc[t] \notin Rest
  BY DEF IInv, Conclude, At, Rest
<1>2. holder[t] \in {"command", "recovery"}
  BY <1>1 DEF Loc, HolderInv, Both, TypeOK
<1>3. NoneStands(t)
  BY <1>1 DEF Conclude, Remaining, Loc, RecordsInv, Sound, NoneStands
<1>4. CASE holder[t] = "command"
  <2>1. record[t].state \in Mid
    BY <1>1, <1>4 DEF Loc, StateInv, Both
  <2>2. Moved(record[t], "failed") \in Record
    BY <1>1, MovedFacts DEF TypeOK, State, ValidTransitions
  <2>3. /\ StoreTyped' /\ StoreFrame(t)
        /\ Goes(t, "concluding")
        /\ record'[t] = Moved(record[t], "failed") /\ undo'[t] = record[t]
        /\ disk' = disk
    BY <1>1, <2>2, <1>4, Saving DEF Conclude, Label
  <2>4. /\ record[t] \in Record
        /\ Moved(record[t], "failed").state = "failed"
    BY <1>1, <2>1, Transitions, MovedFacts DEF TypeOK, State, ValidTransitions
  <2>5. Sound(t, Moved(record[t], "failed"))
    BY <1>1, <1>3, MovedSound DEF Loc, RecordsInv, TypeOK, State,
        ValidTransitions
  <2>6. UNCHANGED <<journal, effect, parent, holder, fences, answer, enabled>>
    BY <1>1, <1>4, <2>3 DEF Conclude, recovery, storage, TypeOK
  <2>7. TypeOK'
    BY <1>1, <1>4, <2>3, <2>6, <1>2 DEF Conclude, storage, recovery, world,
        StoreTyped, Goes, TypeOK
  <2>8. Frame(t) /\ scan' = scan
    BY <1>1, <1>4, <2>3, <2>6, <1>2 DEF Conclude, storage, recovery, world,
        StoreTyped, Goes, TypeOK, Frame, StoreFrame
  <2>9. \A r \in {record[t], disk[t], undo[t]}' : Sound(t, r)'
    BY <1>1, <1>4, <2>3, <2>6, <1>2, <2>5 DEF Loc, RecordsInv, Sound,
        NoneStands
  <2>10. RecordsInv(t)'
    BY <1>1, <1>4, <2>3, <2>6, <2>9, <1>2 DEF Goes, Loc, RecordsInv, Forward,
        Stepping, Undoing, Synced, Unstarted
  <2>11. JournalInv(t)'
    BY <1>1, <1>4, <2>3, <2>6, <1>2 DEF Goes, Loc, JournalInv, AllApplied,
        Forward, Stepping
  <2>12. StateInv(t)'
    BY <1>1, <1>4, <2>3, <2>6, <1>2, <2>4 DEF Goes, Loc, StateInv, Both,
        Stepping
  <2>13. HolderInv(t)'
    BY <1>1, <1>4, <2>3, <2>6, <1>2, <2>4 DEF Goes, Loc, HolderInv, Both,
        Rest, Unresolved, Mid, Final
  <2>. QED
    BY <1>1, <2>7, <2>8, <2>10, <2>11, <2>12, <2>13, WorkKeeps DEF Loc
<1>5. CASE holder[t] # "command"
  <2>1. record[t].state = "compensating"
    BY <1>1, <1>5 DEF Loc, StateInv, Both
  <2>2. Moved(record[t], "compensated") \in Record
    BY <1>1, MovedFacts DEF TypeOK, State, ValidTransitions
  <2>3. /\ StoreTyped' /\ StoreFrame(t)
        /\ Goes(t, "concluding")
        /\ record'[t] = Moved(record[t], "compensated") /\ undo'[t] = record[t]
        /\ disk' = disk
    BY <1>1, <2>2, <1>5, Saving DEF Conclude, Label
  <2>4. /\ record[t] \in Record
        /\ Moved(record[t], "compensated").state = "compensated"
    BY <1>1, <2>1, Transitions, MovedFacts DEF TypeOK, State, ValidTransitions
  <2>5. Sound(t, Moved(record[t], "compensated"))
    BY <1>1, <1>3, MovedSound DEF Loc, RecordsInv, TypeOK, State,
        ValidTransitions
  <2>6. UNCHANGED <<journal, effect, parent, holder, fences, answer, enabled>>
    BY <1>1, <1>5, <2>3 DEF Conclude, recovery, storage, TypeOK
  <2>7. TypeOK'
    BY <1>1, <1>5, <2>3, <2>6, <1>2 DEF Conclude, storage, recovery, world,
        StoreTyped, Goes, TypeOK
  <2>8. Frame(t) /\ scan' = scan
    BY <1>1, <1>5, <2>3, <2>6, <1>2 DEF Conclude, storage, recovery, world,
        StoreTyped, Goes, TypeOK, Frame, StoreFrame
  <2>9. \A r \in {record[t], disk[t], undo[t]}' : Sound(t, r)'
    BY <1>1, <1>5, <2>3, <2>6, <1>2, <2>5 DEF Loc, RecordsInv, Sound,
        NoneStands
  <2>10. RecordsInv(t)'
    BY <1>1, <1>5, <2>3, <2>6, <2>9, <1>2 DEF Goes, Loc, RecordsInv, Forward,
        Stepping, Undoing, Synced, Unstarted
  <2>11. JournalInv(t)'
    BY <1>1, <1>5, <2>3, <2>6, <1>2 DEF Goes, Loc, JournalInv, AllApplied,
        Forward, Stepping
  <2>12. StateInv(t)'
    BY <1>1, <1>5, <2>3, <2>6, <1>2, <2>4 DEF Goes, Loc, StateInv, Both,
        Stepping
  <2>13. HolderInv(t)'
    BY <1>1, <1>5, <2>3, <2>6, <1>2, <2>4 DEF Goes, Loc, HolderInv, Both,
        Rest, Unresolved, Mid, Final
  <2>. QED
    BY <1>1, <2>7, <2>8, <2>10, <2>11, <2>12, <2>13, WorkKeeps DEF Loc
<1>. QED
  BY <1>4, <1>5 DEF Conclude

(***************************************************************************)
(* The keys are let go when the outcome is on the disk, and only then.     *)
(***************************************************************************)
LEMMA ConcludeFlushedKeeps ==
  ASSUME IInv, NEW t \in Tx, ConcludeFlushed(t)
  PROVE  IInv'
<1>1. /\ TypeOK /\ Loc(t) /\ pending = {}
      /\ pc[t] = "concluding" /\ pc[t] \notin Rest
  BY DEF IInv, ConcludeFlushed, At, Rest
<1>2. holder[t] \in {"command", "recovery"}
  BY <1>1 DEF Loc, HolderInv, Both, TypeOK
<1>3. CASE /\ Flushed(t) /\ holder[t] = "command" /\ Goto(t, "returning")
          /\ fences' = fences \ {t}
          /\ UNCHANGED <<holder, pending, scan, enabled>>
  <2>1. /\ StoreTyped' /\ StoreFrame(t) /\ faults' \in 0 .. MaxFaults
        /\ record' = record /\ undo'[t] = record[t] /\ disk' = record
        /\ Goes(t, "returning")
    BY <1>1, <1>3, Flushing, Going DEF Label
  <2>2. UNCHANGED <<journal, effect, parent, holder, answer, enabled>>
    BY <1>1, <1>3, <2>1 DEF ConcludeFlushed, recovery, storage, TypeOK
  <2>3. TypeOK'
    BY <1>1, <1>3, <2>1, <2>2 DEF ConcludeFlushed, storage, recovery, world,
        StoreTyped, Goes, TypeOK
  <2>4. Frame(t) /\ scan' = scan
    BY <1>1, <1>3, <2>1, <2>2 DEF ConcludeFlushed, storage, recovery, world,
        StoreTyped, Goes, TypeOK, Frame, StoreFrame
  <2>5. \A r \in {record[t], disk[t], undo[t]}' : Sound(t, r)'
    BY <1>1, <1>3, <2>1, <2>2 DEF Loc, RecordsInv, Sound, NoneStands
  <2>6. RecordsInv(t)'
    BY <1>1, <1>3, <2>1, <2>2, <2>5 DEF Goes, Loc, RecordsInv, Forward,
        Stepping, Undoing, Synced, Unstarted
  <2>7. JournalInv(t)'
    BY <1>1, <1>3, <2>1, <2>2 DEF Goes, Loc, JournalInv, AllApplied, Forward,
        Stepping
  <2>8. StateInv(t)'
    BY <1>1, <1>3, <2>1, <2>2 DEF Goes, Loc, StateInv, Both, Stepping
  <2>9. HolderInv(t)'
    BY <1>1, <1>3, <2>1, <2>2 DEF Goes, Loc, HolderInv, Both, Rest,
        Unresolved, Mid, Final
  <2>. QED
    BY <1>1, <2>3, <2>4, <2>6, <2>7, <2>8, <2>9, WorkKeeps DEF Loc
<1>4. CASE /\ Flushed(t) /\ holder[t] # "command" /\ Goto(t, "done")
          /\ ReleaseRecovery(t)
  <2>1. /\ StoreTyped' /\ StoreFrame(t) /\ faults' \in 0 .. MaxFaults
        /\ record' = record /\ undo'[t] = record[t] /\ disk' = record
        /\ Goes(t, "done")
    BY <1>1, <1>4, Flushing, Going DEF Label
  <2>2. record[t].state = "compensated" /\ ~Unresolved(record[t])
    BY <1>1, <1>4 DEF Loc, StateInv, Unresolved, Final
  <2>3. /\ UNCHANGED <<journal, effect, parent, answer, enabled>>
        /\ holder'[t] = "none"
    BY <1>1, <1>4, <2>1 DEF ConcludeFlushed, recovery, storage, TypeOK,
        ReleaseRecovery
  <2>4. TypeOK'
    BY <1>1, <1>4, <2>1, <2>3 DEF ConcludeFlushed, storage, recovery, world,
        StoreTyped, Goes, ReleaseRecovery, TypeOK
  <2>5. Frame(t) /\ scan' = scan
    BY <1>1, <1>4, <2>1, <2>3 DEF ConcludeFlushed, storage, recovery, world,
        StoreTyped, Goes, ReleaseRecovery, TypeOK, Frame, StoreFrame
  <2>6. \A r \in {record[t], disk[t], undo[t]}' : Sound(t, r)'
    BY <1>1, <1>4, <2>1, <2>3 DEF Loc, RecordsInv, Sound, NoneStands
  <2>7. RecordsInv(t)'
    BY <1>1, <1>4, <2>1, <2>3, <2>6 DEF Goes, Loc, RecordsInv, Forward,
        Stepping, Undoing, Synced, Unstarted
  <2>8. JournalInv(t)'
    BY <1>1, <1>4, <2>1, <2>3 DEF Goes, Loc, JournalInv, AllApplied, Forward,
        Stepping
  <2>9. StateInv(t)'
    BY <1>1, <1>4, <2>1, <2>3, <2>2 DEF Goes, Loc, StateInv, Both, Stepping
  <2>10. HolderInv(t)'
    BY <1>1, <1>4, <2>1, <2>3, <2>2 DEF Goes, Loc, HolderInv, Both, Rest,
        Unresolved, Mid, Final
  <2>. QED
    BY <1>1, <2>4, <2>5, <2>7, <2>8, <2>9, <2>10, WorkKeeps DEF Loc
<1>5. CASE /\ FlushFails /\ holder[t] = "command" /\ Goto(t, "marking")
          /\ record' = [record EXCEPT ![t] = undo[t]] /\ UNCHANGED recovery
  <2>1. undo[t] \in Record
    BY <1>1 DEF TypeOK
  <2>2. /\ StoreTyped' /\ StoreFrame(t) /\ faults' \in 0 .. MaxFaults
        /\ record'[t] = undo[t] /\ undo' = undo
        /\ disk' \in {disk, record}
        /\ Goes(t, "marking")
    BY <1>1, <1>5, <2>1, Failing, Going DEF ConcludeFlushed, Reverted, Label
  <2>3. UNCHANGED <<journal, effect, parent, holder, fences, answer, enabled>>
    BY <1>1, <1>5, <2>2 DEF ConcludeFlushed, recovery, storage, TypeOK
  <2>4. TypeOK'
    BY <1>1, <1>5, <2>2, <2>3 DEF ConcludeFlushed, storage, recovery, world,
        StoreTyped, Goes, TypeOK
  <2>5. Frame(t) /\ scan' = scan
    BY <1>1, <1>5, <2>2, <2>3 DEF ConcludeFlushed, storage, recovery, world,
        StoreTyped, Goes, TypeOK, Frame, StoreFrame
  <2>6. \A r \in {record[t], disk[t], undo[t]}' : Sound(t, r)'
    BY <1>1, <1>5, <2>2, <2>3 DEF Loc, RecordsInv, Sound, NoneStands
  <2>7. RecordsInv(t)'
    BY <1>1, <1>5, <2>2, <2>3, <2>6 DEF Goes, Loc, RecordsInv, Forward,
        Stepping, Undoing, Synced, Unstarted
  <2>8. JournalInv(t)'
    BY <1>1, <1>5, <2>2, <2>3 DEF Goes, Loc, JournalInv, AllApplied, Forward,
        Stepping
  <2>9. StateInv(t)'
    BY <1>1, <1>5, <2>2, <2>3 DEF Goes, Loc, StateInv, Both, Stepping
  <2>10. HolderInv(t)'
    BY <1>1, <1>5, <2>2, <2>3 DEF Goes, Loc, HolderInv, Both, Rest,
        Unresolved, Mid, Final
  <2>. QED
    BY <1>1, <2>4, <2>5, <2>7, <2>8, <2>9, <2>10, WorkKeeps DEF Loc
<1>6. CASE /\ FlushFails /\ holder[t] # "command" /\ Goto(t, "done")
          /\ record' = [record EXCEPT ![t] =
                        Moved(record[t], "needs-recovery")]
          /\ UNCHANGED recovery
  <2>1. record[t].state = "compensated"
    BY <1>1, <1>6 DEF Loc, StateInv, Both
  <2>2. record[t] \in Record
    BY <1>1 DEF TypeOK
  <2>3. /\ Moved(record[t], "needs-recovery") \in Record
        /\ Moved(record[t], "needs-recovery").state = "needs-recovery"
        /\ Unresolved(Moved(record[t], "needs-recovery"))
    BY <1>1, <2>2, <2>1, NeedsRecovery, States DEF Mid
  <2>4. Sound(t, Moved(record[t], "needs-recovery"))
    BY <1>1, <2>3, MovedSound DEF Loc, RecordsInv, TypeOK, State,
        ValidTransitions
  <2>5. /\ StoreTyped' /\ StoreFrame(t) /\ faults' \in 0 .. MaxFaults
        /\ record'[t] = Moved(record[t], "needs-recovery") /\ undo' = undo
        /\ disk' \in {disk, record}
        /\ Goes(t, "done")
    BY <1>1, <1>6, <2>3, Failing, Going DEF Label
  <2>6. UNCHANGED <<journal, effect, parent, holder, fences, answer, enabled>>
    BY <1>1, <1>6, <2>5 DEF ConcludeFlushed, recovery, storage, TypeOK
  <2>7. TypeOK'
    BY <1>1, <1>6, <2>5, <2>6, <1>2 DEF ConcludeFlushed, storage, recovery,
        world, StoreTyped, Goes, TypeOK
  <2>8. Frame(t) /\ scan' = scan
    BY <1>1, <1>6, <2>5, <2>6, <1>2 DEF ConcludeFlushed, storage, recovery,
        world, StoreTyped, Goes, TypeOK, Frame, StoreFrame
  <2>9. \A r \in {record[t], disk[t], undo[t]}' : Sound(t, r)'
    BY <1>1, <1>6, <2>5, <2>6, <1>2, <2>4 DEF Loc, RecordsInv, Sound,
        NoneStands
  <2>10. RecordsInv(t)'
    BY <1>1, <1>6, <2>5, <2>6, <2>9, <1>2 DEF Goes, Loc, RecordsInv, Forward,
        Stepping, Undoing, Synced, Unstarted
  <2>11. JournalInv(t)'
    BY <1>1, <1>6, <2>5, <2>6, <1>2 DEF Goes, Loc, JournalInv, AllApplied,
        Forward, Stepping
  <2>12. StateInv(t)'
    BY <1>1, <1>6, <2>5, <2>6, <1>2, <2>3 DEF Goes, Loc, StateInv, Both,
        Stepping
  <2>13. HolderInv(t)'
    BY <1>1, <1>6, <2>5, <2>6, <1>2, <2>3 DEF Goes, Loc, HolderInv, Both,
        Rest, Unresolved, Mid, Final
  <2>. QED
    BY <1>1, <2>7, <2>8, <2>10, <2>11, <2>12, <2>13, WorkKeeps DEF Loc
<1>. QED
  BY <1>3, <1>4, <1>5, <1>6 DEF ConcludeFlushed, CompensatorFails

(***************************************************************************)
(* The record markNeedsRecovery saves.                                     *)
(***************************************************************************)
LEMMA NotedDown ==
  ASSUME TypeOK, NEW t \in Tx
  PROVE  LET r == [WithSteps(record[t], journal[t]) EXCEPT
                     !.state = "needs-recovery"]
         IN  /\ r \in Record /\ r.state = "needs-recovery"
             /\ r.steps = journal[t] /\ r.done = record[t].done
             /\ r.reached = record[t].reached
<1>. DEFINE w == WithSteps(record[t], journal[t])
<1>1. /\ w \in Record /\ w.steps = journal[t] /\ w.done = record[t].done
      /\ w.reached = record[t].reached
  BY Noted DEF TypeOK
<1>2. "needs-recovery" \in State
  BY DEF State
<1>. HIDE DEF w
<1>3. \A r : r = [w EXCEPT !.state = "needs-recovery"] =>
        /\ r \in Record /\ r.state = "needs-recovery" /\ r.steps = w.steps
        /\ r.done = w.done /\ r.reached = w.reached
  BY <1>1, <1>2 DEF Record
<1>. QED
  BY <1>1, <1>3 DEF w

(***************************************************************************)
(* The record takes over the journal, which knows what stands.             *)
(***************************************************************************)
LEMMA MarkNeedsRecoveryKeeps ==
  ASSUME IInv, NEW t \in Tx, MarkNeedsRecovery(t)
  PROVE  IInv'
<1>1. /\ TypeOK /\ Loc(t) /\ pending = {}
      /\ pc[t] = "marking" /\ pc[t] \notin Rest
  BY DEF IInv, MarkNeedsRecovery, At, Rest
<1>2. PICK r \in Record :
        /\ r = [WithSteps(record[t], journal[t]) EXCEPT
                  !.state = "needs-recovery"]
        /\ r.state = "needs-recovery" /\ r.steps = journal[t]
        /\ r.done = record[t].done /\ r.reached = record[t].reached
  BY <1>1, NotedDown
<1>3. SaveAndFlush(t, r, "marked")
  BY <1>2 DEF MarkNeedsRecovery
<1>4. /\ StoreTyped' /\ StoreFrame(t)
      /\ Goes(t, "marked")
      /\ record'[t] = r /\ undo'[t] = record[t]
      /\ disk' = disk
  BY <1>1, <1>2, <1>3, Saving DEF Label
<1>5. r.state = "needs-recovery" /\ r.steps = journal[t] /\
        r.done = record[t].done /\ r.reached = record[t].reached
  BY <1>2
<1>6. \A s \in Step : effect[t][s] = "applied" => journal[t][s] \in Compensable
  BY <1>1 DEF Loc, JournalInv, HolderInv, Rest, Both
<1>7. UNCHANGED <<journal, effect, parent, holder, answer, enabled>>
  BY <1>1, <1>4 DEF MarkNeedsRecovery, recovery, storage, TypeOK
<1>8. TypeOK'
  BY <1>1, <1>4, <1>7 DEF MarkNeedsRecovery, storage, recovery, world,
      StoreTyped, Goes, TypeOK
<1>9. Frame(t) /\ scan' = scan
  BY <1>1, <1>4, <1>7 DEF MarkNeedsRecovery, storage, recovery, world,
      StoreTyped, Goes, TypeOK, Frame, StoreFrame
<1>10. \A q \in {record[t], disk[t], undo[t]}' : Sound(t, q)'
  BY <1>1, <1>4, <1>7, <1>5, <1>6 DEF Loc, RecordsInv, Sound, NoneStands
<1>11. RecordsInv(t)'
  BY <1>1, <1>4, <1>7, <1>10 DEF Goes, Loc, RecordsInv, Forward, Stepping,
      Undoing, Synced, Unstarted
<1>12. JournalInv(t)'
  BY <1>1, <1>4, <1>7 DEF Goes, Loc, JournalInv, AllApplied, Forward, Stepping
<1>13. StateInv(t)'
  BY <1>1, <1>4, <1>7 DEF Goes, Loc, StateInv, Both, Stepping
<1>14. HolderInv(t)'
  BY <1>1, <1>4, <1>7 DEF Goes, Loc, HolderInv, Both, Rest, Unresolved, Mid,
      Final
<1>. QED
  BY <1>1, <1>8, <1>9, <1>11, <1>12, <1>13, <1>14, WorkKeeps DEF Loc

(***************************************************************************)
(* Whatever was flushed, memory and disk are sound.                        *)
(***************************************************************************)
LEMMA MarkFlushedKeeps ==
  ASSUME IInv, NEW t \in Tx, MarkFlushed(t)
  PROVE  IInv'
<1>1. /\ TypeOK /\ Loc(t) /\ pending = {}
      /\ pc[t] = "marked" /\ pc[t] \notin Rest
  BY DEF IInv, MarkFlushed, At, Rest
<1>2. CASE Flushed(t) /\ Goto(t, "returning")
  <2>1. /\ StoreTyped' /\ StoreFrame(t) /\ faults' \in 0 .. MaxFaults
        /\ record' = record /\ undo'[t] = record[t] /\ disk' = record
        /\ Goes(t, "returning")
    BY <1>1, <1>2, Flushing, Going DEF Label
  <2>2. UNCHANGED <<journal, effect, parent, holder, fences, answer, enabled>>
    BY <1>1, <1>2, <2>1 DEF MarkFlushed, recovery, storage, TypeOK
  <2>3. TypeOK'
    BY <1>1, <1>2, <2>1, <2>2 DEF MarkFlushed, storage, recovery, world,
        StoreTyped, Goes, TypeOK
  <2>4. Frame(t) /\ scan' = scan
    BY <1>1, <1>2, <2>1, <2>2 DEF MarkFlushed, storage, recovery, world,
        StoreTyped, Goes, TypeOK, Frame, StoreFrame
  <2>5. \A r \in {record[t], disk[t], undo[t]}' : Sound(t, r)'
    BY <1>1, <1>2, <2>1, <2>2 DEF Loc, RecordsInv, Sound, NoneStands
  <2>6. RecordsInv(t)'
    BY <1>1, <1>2, <2>1, <2>2, <2>5 DEF Goes, Loc, RecordsInv, Forward,
        Stepping, Undoing, Synced, Unstarted
  <2>7. JournalInv(t)'
    BY <1>1, <1>2, <2>1, <2>2 DEF Goes, Loc, JournalInv, AllApplied, Forward,
        Stepping
  <2>8. StateInv(t)'
    BY <1>1, <1>2, <2>1, <2>2 DEF Goes, Loc, StateInv, Both, Stepping
  <2>9. HolderInv(t)'
    BY <1>1, <1>2, <2>1, <2>2 DEF Goes, Loc, HolderInv, Both, Rest,
        Unresolved, Mid, Final
  <2>. QED
    BY <1>1, <2>3, <2>4, <2>6, <2>7, <2>8, <2>9, WorkKeeps DEF Loc
<1>3. CASE /\ FlushFails /\ Goto(t, "returning")
          /\ record' = [record EXCEPT ![t] =
                        Moved(undo[t], "needs-recovery")]
  <2>1. undo[t] \in Record /\ "needs-recovery" \in State
    BY <1>1 DEF TypeOK, State
  <2>2. Moved(undo[t], "needs-recovery") \in Record
    BY <2>1, NeedsRecovery
  <2>3. Sound(t, Moved(undo[t], "needs-recovery"))
    BY <1>1, <2>1, MovedSound DEF Loc, RecordsInv, TypeOK, State,
        ValidTransitions
  <2>4. /\ StoreTyped' /\ StoreFrame(t) /\ faults' \in 0 .. MaxFaults
        /\ record'[t] = Moved(undo[t], "needs-recovery") /\ undo' = undo
        /\ disk' \in {disk, record}
        /\ Goes(t, "returning")
    BY <1>1, <1>3, <2>2, Failing, Going DEF Label
  <2>5. UNCHANGED <<journal, effect, parent, holder, fences, answer, enabled>>
    BY <1>1, <1>3, <2>4 DEF MarkFlushed, recovery, storage, TypeOK
  <2>6. TypeOK'
    BY <1>1, <1>3, <2>4, <2>5 DEF MarkFlushed, storage, recovery, world,
        StoreTyped, Goes, TypeOK
  <2>7. Frame(t) /\ scan' = scan
    BY <1>1, <1>3, <2>4, <2>5 DEF MarkFlushed, storage, recovery, world,
        StoreTyped, Goes, TypeOK, Frame, StoreFrame
  <2>8. \A r \in {record[t], disk[t], undo[t]}' : Sound(t, r)'
    BY <1>1, <1>3, <2>4, <2>5, <2>3 DEF Loc, RecordsInv, Sound, NoneStands
  <2>9. RecordsInv(t)'
    BY <1>1, <1>3, <2>4, <2>5, <2>8 DEF Goes, Loc, RecordsInv, Forward,
        Stepping, Undoing, Synced, Unstarted
  <2>10. JournalInv(t)'
    BY <1>1, <1>3, <2>4, <2>5 DEF Goes, Loc, JournalInv, AllApplied, Forward,
        Stepping
  <2>11. StateInv(t)'
    BY <1>1, <1>3, <2>4, <2>5 DEF Goes, Loc, StateInv, Both, Stepping
  <2>12. HolderInv(t)'
    BY <1>1, <1>3, <2>4, <2>5 DEF Goes, Loc, HolderInv, Both, Rest,
        Unresolved, Mid, Final
  <2>. QED
    BY <1>1, <2>6, <2>7, <2>9, <2>10, <2>11, <2>12, WorkKeeps DEF Loc
<1>. QED
  BY <1>2, <1>3 DEF MarkFlushed

(***************************************************************************)
(* The compensator turns back only where the parent is not written.        *)
(***************************************************************************)
LEMMA ReconcileKeeps ==
  ASSUME IInv, NEW t \in Tx, Reconcile(t)
  PROVE  IInv'
<1>1. /\ TypeOK /\ Loc(t) /\ pending = {}
      /\ pc[t] = "reconciling" /\ pc[t] \notin Rest
  BY DEF IInv, Reconcile, At, Rest
<1>2. /\ record[t].state = "compensating"
      /\ holder[t] = "recovery"
  BY <1>1 DEF Loc, StateInv, HolderInv
<1>3. holder[t] \in {"command", "recovery"}
  BY <1>1 DEF Loc, HolderInv, Both, TypeOK
<1>4. CASE record[t].reached /\ t \in parent
  <2>1. Moved(record[t], "committed") \in Record
    BY <1>1, MovedFacts DEF TypeOK, State, ValidTransitions
  <2>2. /\ StoreTyped' /\ StoreFrame(t)
        /\ Goes(t, "reconciled")
        /\ record'[t] = Moved(record[t], "committed") /\ undo'[t] = record[t]
        /\ disk' = disk
    BY <1>1, <2>1, <1>4, Saving DEF Reconcile, Label
  <2>3. /\ record[t] \in Record
        /\ Moved(record[t], "committed").state = "committed"
        /\ Moved(record[t], "committed").reached
    BY <1>1, <1>2, Transitions, MovedFacts DEF TypeOK, State, ValidTransitions
  <2>4. Sound(t, Moved(record[t], "committed"))
    BY <1>1, <1>4, MovedSound DEF Loc, RecordsInv, TypeOK, State,
        ValidTransitions
  <2>5. UNCHANGED <<journal, effect, parent, holder, fences, answer, enabled>>
    BY <1>1, <1>4, <2>2 DEF Reconcile, recovery, storage, TypeOK
  <2>6. TypeOK'
    BY <1>1, <1>4, <2>2, <2>5 DEF Reconcile, storage, recovery, world,
        StoreTyped, Goes, TypeOK
  <2>7. Frame(t) /\ scan' = scan
    BY <1>1, <1>4, <2>2, <2>5 DEF Reconcile, storage, recovery, world,
        StoreTyped, Goes, TypeOK, Frame, StoreFrame
  <2>8. \A r \in {record[t], disk[t], undo[t]}' : Sound(t, r)'
    BY <1>1, <1>4, <2>2, <2>5, <2>4 DEF Loc, RecordsInv, Sound, NoneStands
  <2>9. RecordsInv(t)'
    BY <1>1, <1>4, <2>2, <2>5, <2>8, <2>3 DEF Goes, Loc, RecordsInv, Forward,
        Stepping, Undoing, Synced, Unstarted
  <2>10. JournalInv(t)'
    BY <1>1, <1>4, <2>2, <2>5 DEF Goes, Loc, JournalInv, AllApplied, Forward,
        Stepping
  <2>11. StateInv(t)'
    BY <1>1, <1>4, <2>2, <2>5, <2>3 DEF Goes, Loc, StateInv, Both, Stepping
  <2>12. HolderInv(t)'
    BY <1>1, <1>4, <2>2, <2>5, <2>3 DEF Goes, Loc, HolderInv, Both, Rest,
        Unresolved, Mid, Final
  <2>. QED
    BY <1>1, <2>6, <2>7, <2>9, <2>10, <2>11, <2>12, WorkKeeps DEF Loc
<1>5. CASE ~(record[t].reached /\ t \in parent)
  <2>1. t \notin parent
    BY <1>1, <1>5 DEF Loc, RecordsInv, Sound
  <2>2. /\ UNCHANGED <<record, disk, undo>> /\ StoreTyped' /\ StoreFrame(t)
        /\ Goes(t, "compensating")
    BY <1>1, <1>5, Going DEF Reconcile, TypeOK, storage, StoreTyped,
        StoreFrame, Label
  <2>3. UNCHANGED <<journal, effect, parent, holder, fences, answer, enabled>>
    BY <1>1, <1>5, <2>2 DEF Reconcile, recovery, storage, TypeOK
  <2>4. TypeOK'
    BY <1>1, <1>5, <2>2, <2>3 DEF Reconcile, storage, recovery, world,
        StoreTyped, Goes, TypeOK
  <2>5. Frame(t) /\ scan' = scan
    BY <1>1, <1>5, <2>2, <2>3 DEF Reconcile, storage, recovery, world,
        StoreTyped, Goes, TypeOK, Frame, StoreFrame
  <2>6. \A r \in {record[t], disk[t], undo[t]}' : Sound(t, r)'
    BY <1>1, <1>5, <2>2, <2>3 DEF Loc, RecordsInv, Sound, NoneStands
  <2>7. RecordsInv(t)'
    BY <1>1, <1>5, <2>2, <2>3, <2>6, <2>1 DEF Goes, Loc, RecordsInv, Forward,
        Stepping, Undoing, Synced, Unstarted
  <2>8. JournalInv(t)'
    BY <1>1, <1>5, <2>2, <2>3 DEF Goes, Loc, JournalInv, AllApplied, Forward,
        Stepping
  <2>9. StateInv(t)'
    BY <1>1, <1>5, <2>2, <2>3, <1>2, <1>3 DEF Goes, Loc, StateInv, Both,
        Stepping
  <2>10. HolderInv(t)'
    BY <1>1, <1>5, <2>2, <2>3 DEF Goes, Loc, HolderInv, Both, Rest,
        Unresolved, Mid, Final
  <2>. QED
    BY <1>1, <2>4, <2>5, <2>7, <2>8, <2>9, <2>10, WorkKeeps DEF Loc
<1>. QED
  BY <1>4, <1>5 DEF Reconcile

(***************************************************************************)
(* A reconciled transaction lets go of its keys when it is on the disk.    *)
(***************************************************************************)
LEMMA ReconcileFlushedKeeps ==
  ASSUME IInv, NEW t \in Tx, ReconcileFlushed(t)
  PROVE  IInv'
<1>1. /\ TypeOK /\ Loc(t) /\ pending = {}
      /\ pc[t] = "reconciled" /\ pc[t] \notin Rest
  BY DEF IInv, ReconcileFlushed, At, Rest
<1>2. /\ record[t].state = "committed"
      /\ holder[t] = "recovery"
  BY <1>1 DEF Loc, StateInv, HolderInv
<1>3. CASE /\ Flushed(t) /\ ReleaseRecovery(t) /\ Goto(t, "done")
  <2>1. /\ StoreTyped' /\ StoreFrame(t) /\ faults' \in 0 .. MaxFaults
        /\ record' = record /\ undo'[t] = record[t] /\ disk' = record
        /\ Goes(t, "done")
    BY <1>1, <1>3, Flushing, Going DEF Label
  <2>2. ~Unresolved(record[t])
    BY <1>1, <1>2 DEF Unresolved, Final
  <2>3. /\ UNCHANGED <<journal, effect, parent, answer, enabled>>
        /\ holder'[t] = "none"
    BY <1>1, <1>3, <2>1 DEF ReconcileFlushed, recovery, storage, TypeOK,
        ReleaseRecovery
  <2>4. TypeOK'
    BY <1>1, <1>3, <2>1, <2>3 DEF ReconcileFlushed, storage, recovery, world,
        StoreTyped, Goes, ReleaseRecovery, TypeOK
  <2>5. Frame(t) /\ scan' = scan
    BY <1>1, <1>3, <2>1, <2>3 DEF ReconcileFlushed, storage, recovery, world,
        StoreTyped, Goes, ReleaseRecovery, TypeOK, Frame, StoreFrame
  <2>6. \A r \in {record[t], disk[t], undo[t]}' : Sound(t, r)'
    BY <1>1, <1>3, <2>1, <2>3 DEF Loc, RecordsInv, Sound, NoneStands
  <2>7. RecordsInv(t)'
    BY <1>1, <1>3, <2>1, <2>3, <2>6 DEF Goes, Loc, RecordsInv, Forward,
        Stepping, Undoing, Synced, Unstarted
  <2>8. JournalInv(t)'
    BY <1>1, <1>3, <2>1, <2>3 DEF Goes, Loc, JournalInv, AllApplied, Forward,
        Stepping
  <2>9. StateInv(t)'
    BY <1>1, <1>3, <2>1, <2>3 DEF Goes, Loc, StateInv, Both, Stepping
  <2>10. HolderInv(t)'
    BY <1>1, <1>3, <2>1, <2>3, <2>2 DEF Goes, Loc, HolderInv, Both, Rest,
        Unresolved, Mid, Final
  <2>. QED
    BY <1>1, <2>4, <2>5, <2>7, <2>8, <2>9, <2>10, WorkKeeps DEF Loc
<1>4. CASE /\ FlushFails /\ UNCHANGED recovery /\ Goto(t, "done")
          /\ record' = [record EXCEPT ![t] =
                        Moved(record[t], "needs-recovery")]
  <2>1. record[t] \in Record
    BY <1>1 DEF TypeOK
  <2>2. /\ Moved(record[t], "needs-recovery") \in Record
        /\ Moved(record[t], "needs-recovery").state = "needs-recovery"
        /\ Unresolved(Moved(record[t], "needs-recovery"))
    BY <1>1, <2>1, <1>2, NeedsRecovery, States DEF Mid
  <2>3. Sound(t, Moved(record[t], "needs-recovery"))
    BY <1>1, <2>2, MovedSound DEF Loc, RecordsInv, TypeOK, State,
        ValidTransitions
  <2>4. /\ StoreTyped' /\ StoreFrame(t) /\ faults' \in 0 .. MaxFaults
        /\ record'[t] = Moved(record[t], "needs-recovery") /\ undo' = undo
        /\ disk' \in {disk, record}
        /\ Goes(t, "done")
    BY <1>1, <1>4, <2>2, Failing, Going DEF Label
  <2>5. UNCHANGED <<journal, effect, parent, holder, fences, answer, enabled>>
    BY <1>1, <1>4, <2>4 DEF ReconcileFlushed, recovery, storage, TypeOK
  <2>6. TypeOK'
    BY <1>1, <1>4, <2>4, <2>5, <1>2 DEF ReconcileFlushed, storage, recovery,
        world, StoreTyped, Goes, TypeOK
  <2>7. Frame(t) /\ scan' = scan
    BY <1>1, <1>4, <2>4, <2>5, <1>2 DEF ReconcileFlushed, storage, recovery,
        world, StoreTyped, Goes, TypeOK, Frame, StoreFrame
  <2>8. \A r \in {record[t], disk[t], undo[t]}' : Sound(t, r)'
    BY <1>1, <1>4, <2>4, <2>5, <1>2, <2>3 DEF Loc, RecordsInv, Sound,
        NoneStands
  <2>9. RecordsInv(t)'
    BY <1>1, <1>4, <2>4, <2>5, <2>8, <1>2 DEF Goes, Loc, RecordsInv, Forward,
        Stepping, Undoing, Synced, Unstarted
  <2>10. JournalInv(t)'
    BY <1>1, <1>4, <2>4, <2>5, <1>2 DEF Goes, Loc, JournalInv, AllApplied,
        Forward, Stepping
  <2>11. StateInv(t)'
    BY <1>1, <1>4, <2>4, <2>5, <1>2, <2>2 DEF Goes, Loc, StateInv, Both,
        Stepping
  <2>12. HolderInv(t)'
    BY <1>1, <1>4, <2>4, <2>5, <1>2, <2>2 DEF Goes, Loc, HolderInv, Both,
        Rest, Unresolved, Mid, Final
  <2>. QED
    BY <1>1, <2>6, <2>7, <2>9, <2>10, <2>11, <2>12, WorkKeeps DEF Loc
<1>. QED
  BY <1>3, <1>4 DEF ReconcileFlushed

(***************************************************************************)
(* A command that is fenced off is rejected, another waits for its locks.  *)
(***************************************************************************)
LEMMA SubmitKeeps ==
  ASSUME IInv, NEW t \in Tx, Submit(t)
  PROVE  IInv'
<1>1. /\ TypeOK /\ Loc(t) /\ pending = {}
      /\ pc[t] = "idle"
  BY DEF IInv, Submit, At
<1>2. /\ record[t].state = "absent" /\ ~Unresolved(record[t])
      /\ holder[t] = "none" /\ t \notin parent
  BY <1>1 DEF Loc, RecordsInv, HolderInv, Unstarted, Unresolved
<1>3. /\ scan.phase = "off"
      /\ enabled
  BY <1>1 DEF IInv, ScanInv, Submit
<1>4. CASE Goto(t, "done") /\ Answer(t, "rejected")
  <2>1. /\ UNCHANGED <<record, disk, undo>> /\ StoreTyped' /\ StoreFrame(t)
        /\ Goes(t, "done")
    BY <1>1, <1>4, Going DEF Submit, TypeOK, storage, StoreTyped, StoreFrame,
        Label
  <2>2. /\ UNCHANGED <<journal, effect, parent, holder, fences, enabled>>
        /\ answer'[t] = "rejected"
    BY <1>1, <1>4, <2>1 DEF Submit, recovery, storage, TypeOK, Answer
  <2>3. TypeOK'
    BY <1>1, <1>4, <2>1, <2>2, <1>3 DEF Submit, storage, recovery, world,
        StoreTyped, Goes, Answer, TypeOK
  <2>4. Frame(t) /\ scan' = scan
    BY <1>1, <1>4, <2>1, <2>2, <1>3 DEF Submit, storage, recovery, world,
        StoreTyped, Goes, Answer, TypeOK, Frame, StoreFrame
  <2>5. ScanInv'
    BY <2>4, <1>3 DEF ScanInv, Frame
  <2>6. /\ holder'[t] = "none" /\ pc'[t] \in Rest
        /\ record'[t] = record[t]
    BY <1>1, <2>1, <2>2, <1>2 DEF Goes, Rest
  <2>7. \A r \in {record[t], disk[t], undo[t]}' : Sound(t, r)'
    BY <1>1, <1>4, <2>1, <2>2, <1>3 DEF Loc, RecordsInv, Sound, NoneStands
  <2>8. RecordsInv(t)'
    BY <1>1, <1>4, <2>1, <2>2, <2>7, <1>3 DEF Goes, Loc, RecordsInv, Forward,
        Stepping, Undoing, Synced, Unstarted
  <2>9. JournalInv(t)'
    BY <1>1, <1>4, <2>1, <2>2, <1>3 DEF Goes, Loc, JournalInv, AllApplied,
        Forward, Stepping
  <2>10. StateInv(t)'
    BY <1>1, <1>4, <2>1, <2>2, <1>3 DEF Goes, Loc, StateInv, Both, Stepping
  <2>11. HolderInv(t)'
    BY <1>1, <1>4, <2>1, <2>2, <1>3, <1>2 DEF Goes, Loc, HolderInv, Both,
        Rest, Unresolved, Mid, Final
  <2>. QED
    BY <1>1, <2>3, <2>4, <2>8, <2>9, <2>10, <2>11, <2>5, <2>6, TxKeeps DEF Loc
<1>5. CASE Goto(t, "waiting") /\ UNCHANGED answer
  <2>1. /\ UNCHANGED <<record, disk, undo>> /\ StoreTyped' /\ StoreFrame(t)
        /\ Goes(t, "waiting")
    BY <1>1, <1>5, Going DEF Submit, TypeOK, storage, StoreTyped, StoreFrame,
        Label
  <2>2. UNCHANGED <<journal, effect, parent, holder, fences, answer, enabled>>
    BY <1>1, <1>5, <2>1 DEF Submit, recovery, storage, TypeOK
  <2>3. TypeOK'
    BY <1>1, <1>5, <2>1, <2>2, <1>3 DEF Submit, storage, recovery, world,
        StoreTyped, Goes, TypeOK
  <2>4. Frame(t) /\ scan' = scan
    BY <1>1, <1>5, <2>1, <2>2, <1>3 DEF Submit, storage, recovery, world,
        StoreTyped, Goes, TypeOK, Frame, StoreFrame
  <2>5. ScanInv'
    BY <2>4, <1>3 DEF ScanInv, Frame
  <2>6. /\ holder'[t] = "none" /\ pc'[t] \in Rest
        /\ record'[t] = record[t]
    BY <1>1, <2>1, <2>2, <1>2 DEF Goes, Rest
  <2>7. \A r \in {record[t], disk[t], undo[t]}' : Sound(t, r)'
    BY <1>1, <1>5, <2>1, <2>2, <1>3 DEF Loc, RecordsInv, Sound, NoneStands
  <2>8. RecordsInv(t)'
    BY <1>1, <1>5, <2>1, <2>2, <2>7, <1>3 DEF Goes, Loc, RecordsInv, Forward,
        Stepping, Undoing, Synced, Unstarted
  <2>9. JournalInv(t)'
    BY <1>1, <1>5, <2>1, <2>2, <1>3 DEF Goes, Loc, JournalInv, AllApplied,
        Forward, Stepping
  <2>10. StateInv(t)'
    BY <1>1, <1>5, <2>1, <2>2, <1>3 DEF Goes, Loc, StateInv, Both, Stepping
  <2>11. HolderInv(t)'
    BY <1>1, <1>5, <2>1, <2>2, <1>3, <1>2 DEF Goes, Loc, HolderInv, Both,
        Rest, Unresolved, Mid, Final
  <2>. QED
    BY <1>1, <2>3, <2>4, <2>8, <2>9, <2>10, <2>11, <2>5, <2>6, TxKeeps DEF Loc
<1>. QED
  BY <1>4, <1>5 DEF Submit

(***************************************************************************)
(* A command that waited too long has written nothing.                     *)
(***************************************************************************)
LEMMA LockTimeoutKeeps ==
  ASSUME IInv, NEW t \in Tx, LockTimeout(t)
  PROVE  IInv'
<1>1. /\ TypeOK /\ Loc(t) /\ pending = {}
      /\ pc[t] = "waiting"
  BY DEF IInv, LockTimeout, At
<1>2. /\ record[t].state = "absent" /\ ~Unresolved(record[t])
      /\ holder[t] = "none" /\ t \notin parent
  BY <1>1 DEF Loc, RecordsInv, HolderInv, Unstarted, Unresolved
<1>3. scan.phase = "off"
  BY <1>1 DEF IInv, ScanInv, AtRest
<1>4. /\ UNCHANGED <<record, disk, undo>> /\ StoreTyped' /\ StoreFrame(t)
      /\ Goes(t, "done")
  BY <1>1, Going DEF LockTimeout, TypeOK, storage, StoreTyped, StoreFrame,
      Label
<1>5. /\ UNCHANGED <<journal, effect, parent, holder, fences, enabled>>
      /\ answer'[t] = "rejected"
  BY <1>1, <1>4 DEF LockTimeout, recovery, storage, TypeOK, Answer
<1>6. TypeOK'
  BY <1>1, <1>4, <1>5 DEF LockTimeout, storage, recovery, world, StoreTyped,
      Goes, Answer, TypeOK
<1>7. Frame(t) /\ scan' = scan
  BY <1>1, <1>4, <1>5 DEF LockTimeout, storage, recovery, world, StoreTyped,
      Goes, Answer, TypeOK, Frame, StoreFrame
<1>8. ScanInv'
  BY <1>7, <1>3 DEF ScanInv, Frame
<1>9. /\ holder'[t] = "none" /\ pc'[t] \in Rest
      /\ record'[t] = record[t]
  BY <1>1, <1>4, <1>5, <1>2 DEF Goes, Rest
<1>10. \A r \in {record[t], disk[t], undo[t]}' : Sound(t, r)'
  BY <1>1, <1>4, <1>5 DEF Loc, RecordsInv, Sound, NoneStands
<1>11. RecordsInv(t)'
  BY <1>1, <1>4, <1>5, <1>10 DEF Goes, Loc, RecordsInv, Forward, Stepping,
      Undoing, Synced, Unstarted
<1>12. JournalInv(t)'
  BY <1>1, <1>4, <1>5 DEF Goes, Loc, JournalInv, AllApplied, Forward, Stepping
<1>13. StateInv(t)'
  BY <1>1, <1>4, <1>5 DEF Goes, Loc, StateInv, Both, Stepping
<1>14. HolderInv(t)'
  BY <1>1, <1>4, <1>5, <1>2 DEF Goes, Loc, HolderInv, Both, Rest, Unresolved,
      Mid, Final
<1>. QED
  BY <1>1, <1>6, <1>7, <1>11, <1>12, <1>13, <1>14, <1>8, <1>9, TxKeeps DEF Loc

(***************************************************************************)
(* The keys are free, so nothing in the scope is unresolved: a command out *)
(* of safe mode starts alone.                                              *)
(***************************************************************************)
LEMMA GrantKeeps ==
  ASSUME IInv, NEW t \in Tx, Grant(t)
  PROVE  IInv'
<1>1. /\ TypeOK /\ Loc(t) /\ pending = {}
      /\ pc[t] = "waiting"
  BY DEF IInv, Grant, At
<1>2. /\ record[t].state = "absent" /\ ~Unresolved(record[t])
      /\ holder[t] = "none" /\ t \notin parent
  BY <1>1 DEF Loc, RecordsInv, HolderInv, Unstarted, Unresolved
<1>3. \A s \in Step : effect[t][s] # "applied"
  BY <1>1 DEF Loc, RecordsInv, Unstarted
<1>4. scan.phase = "off"
  BY <1>1 DEF IInv, ScanInv, AtRest
<1>5. enabled
  BY <1>1 DEF Loc, HolderInv
<1>6. Alone(t)
  BY <1>5 DEF IInv, Loc, HolderInv, Grant, Free, Alone, Rest, Both
<1>7. /\ UNCHANGED <<record, disk, undo>> /\ StoreTyped' /\ StoreFrame(t)
      /\ Goes(t, "planning")
  BY <1>1, Going DEF Grant, TypeOK, storage, StoreTyped, StoreFrame, Label
<1>8. /\ UNCHANGED <<journal, effect, parent, fences, answer, enabled>>
      /\ holder'[t] = "command"
  BY <1>1, <1>7 DEF Grant, recovery, storage, TypeOK
<1>9. TypeOK'
  BY <1>1, <1>7, <1>8 DEF Grant, storage, recovery, world, StoreTyped, Goes,
      TypeOK
<1>10. Frame(t) /\ scan' = scan
  BY <1>1, <1>7, <1>8 DEF Grant, storage, recovery, world, StoreTyped, Goes,
      TypeOK, Frame, StoreFrame
<1>11. ScanInv'
  BY <1>10, <1>4 DEF ScanInv, Frame
<1>12. \A r \in {record[t], disk[t], undo[t]}' : Sound(t, r)'
  BY <1>1, <1>7, <1>8 DEF Loc, RecordsInv, Sound, NoneStands
<1>13. RecordsInv(t)'
  BY <1>1, <1>7, <1>8, <1>12 DEF Goes, Loc, RecordsInv, Forward, Stepping,
      Undoing, Synced, Unstarted
<1>14. JournalInv(t)'
  BY <1>1, <1>7, <1>8, <1>3 DEF Goes, Loc, JournalInv, AllApplied, Forward,
      Stepping
<1>15. StateInv(t)'
  BY <1>1, <1>7, <1>8 DEF Goes, Loc, StateInv, Both, Stepping
<1>16. HolderInv(t)'
  BY <1>1, <1>7, <1>8, <1>2 DEF Goes, Loc, HolderInv, Both, Rest, Unresolved,
      Mid, Final
<1>. QED
  BY <1>1, <1>9, <1>10, <1>13, <1>14, <1>15, <1>16, <1>11, <1>6, TxKeeps DEF
      Loc

(***************************************************************************)
(* A recovery begins alone: two that are unresolved never conflict.        *)
(***************************************************************************)
LEMMA RecoverKeeps ==
  ASSUME IInv, NEW t \in Tx, Recover(t)
  PROVE  IInv'
<1>1. /\ TypeOK /\ Loc(t) /\ pending = {}
      /\ pc[t] = "done"
  BY DEF IInv, Recover, At
<1>2. Unresolved(record[t])
  BY DEF Recover
<1>3. enabled => t \in fences
  BY <1>1, <1>2 DEF Loc, HolderInv, TypeOK
<1>4. scan.phase = "off"
  BY DEF IInv, Recover
<1>5. /\ record[t] \in Record
      /\ Moved(record[t], "compensating") \in Record
      /\ Moved(record[t], "compensating").state = "compensating"
  BY <1>1, MovedFacts DEF Recover, TypeOK, State, ValidTransitions
<1>6. Sound(t, Moved(record[t], "compensating"))
  BY <1>1, <1>5, MovedSound DEF Loc, RecordsInv, TypeOK, State,
      ValidTransitions
<1>7. Alone(t)
  BY <1>2, Symmetric DEF IInv, ScopeInv, Exclusive, Recover, Free, Alone
<1>8. /\ record' = [record EXCEPT ![t] = Moved(record[t], "compensating")]
      /\ holder' = [holder EXCEPT ![t] = "recovery"]
      /\ UNCHANGED <<disk, undo>>
  BY DEF Recover
<1>9. /\ StoreTyped' /\ StoreFrame(t)
      /\ Goes(t, "reconciling")
      /\ record'[t] = Moved(record[t], "compensating")
      /\ UNCHANGED <<disk, undo>>
  BY <1>1, <1>5, <1>8, Going DEF Recover, TypeOK, StoreTyped, StoreFrame,
      Label
<1>10. /\ UNCHANGED <<journal, effect, parent, fences, answer, enabled>>
       /\ holder'[t] = "recovery"
  BY <1>1, <1>9 DEF Recover, recovery, storage, TypeOK
<1>11. TypeOK'
  BY <1>1, <1>9, <1>10, <1>8 DEF Recover, storage, recovery, world,
      StoreTyped, Goes, TypeOK
<1>12. Frame(t) /\ scan' = scan
  BY <1>1, <1>9, <1>10, <1>8 DEF Recover, storage, recovery, world,
      StoreTyped, Goes, TypeOK, Frame, StoreFrame
<1>13. ScanInv'
  BY <1>12, <1>4 DEF ScanInv, Frame
<1>14. \A r \in {record[t], disk[t], undo[t]}' : Sound(t, r)'
  BY <1>1, <1>9, <1>10, <1>8, <1>6 DEF Loc, RecordsInv, Sound, NoneStands
<1>15. RecordsInv(t)'
  BY <1>1, <1>9, <1>10, <1>14, <1>8 DEF Goes, Loc, RecordsInv, Forward,
      Stepping, Undoing, Synced, Unstarted
<1>16. JournalInv(t)'
  BY <1>1, <1>9, <1>10, <1>8 DEF Goes, Loc, JournalInv, AllApplied, Forward,
      Stepping
<1>17. StateInv(t)'
  BY <1>1, <1>9, <1>10, <1>8, <1>5, <1>2 DEF Goes, Loc, StateInv, Both,
      Stepping, Unresolved, Final
<1>18. HolderInv(t)'
  BY <1>1, <1>9, <1>10, <1>8, <1>5, <1>2, <1>3 DEF Goes, Loc, HolderInv, Both,
      Rest, Unresolved, Mid, Final
<1>. QED
  BY <1>1, <1>11, <1>12, <1>15, <1>16, <1>17, <1>18, <1>13, <1>7, TxKeeps DEF
      Loc

(***************************************************************************)
(* A final transaction lets go of its keys, whatever the scan is at.       *)
(***************************************************************************)
LEMMA RecoverFinalKeeps ==
  ASSUME IInv, NEW t \in Tx, RecoverFinal(t)
  PROVE  IInv'
<1>1. /\ TypeOK /\ Loc(t) /\ pending = {}
      /\ pc[t] = "done"
  BY DEF IInv, RecoverFinal, At
<1>2. UNCHANGED <<record, disk, undo, pc>> /\ StoreTyped' /\ StoreFrame(t)
  BY <1>1 DEF RecoverFinal, TypeOK, storage, StoreTyped, StoreFrame
<1>3. ~Unresolved(record[t])
  BY DEF RecoverFinal, Unresolved
<1>4. /\ UNCHANGED <<journal, effect, parent, answer, enabled>>
      /\ holder'[t] = "none"
  BY <1>1, <1>2 DEF RecoverFinal, recovery, storage, TypeOK, ReleaseRecovery
<1>5. TypeOK'
  BY <1>1, <1>2, <1>4 DEF RecoverFinal, storage, recovery, world, StoreTyped,
      Goes, ReleaseRecovery, TypeOK
<1>6. Frame(t) /\ scan' = scan
  BY <1>1, <1>2, <1>4 DEF RecoverFinal, storage, recovery, world, StoreTyped,
      Goes, ReleaseRecovery, TypeOK, Frame, StoreFrame
<1>7. ScanInv'
  BY <1>1, <1>2, <1>4, <1>6, <1>3 DEF IInv, ScanInv, Frame, AtRest, Sound,
      NoneStands, Unresolved
<1>8. /\ holder'[t] = "none" /\ pc'[t] \in Rest
      /\ record'[t] = record[t]
  BY <1>1, <1>2, <1>4 DEF Goes, Rest
<1>9. \A r \in {record[t], disk[t], undo[t]}' : Sound(t, r)'
  BY <1>1, <1>2, <1>4 DEF Loc, RecordsInv, Sound, NoneStands
<1>10. RecordsInv(t)'
  BY <1>1, <1>2, <1>4, <1>9 DEF Goes, Loc, RecordsInv, Forward, Stepping,
      Undoing, Synced, Unstarted
<1>11. JournalInv(t)'
  BY <1>1, <1>2, <1>4 DEF Goes, Loc, JournalInv, AllApplied, Forward, Stepping
<1>12. StateInv(t)'
  BY <1>1, <1>2, <1>4 DEF Goes, Loc, StateInv, Both, Stepping
<1>13. HolderInv(t)'
  BY <1>1, <1>2, <1>4, <1>3 DEF Goes, Loc, HolderInv, Both, Rest, Unresolved,
      Mid, Final
<1>. QED
  BY <1>1, <1>5, <1>6, <1>10, <1>11, <1>12, <1>13, <1>7, <1>8, TxKeeps DEF Loc

-----------------------------------------------------------------------------
(***************************************************************************)
(* Nothing is ever pending.                                                *)
(***************************************************************************)
LEMMA RetryPendingKeeps ==
  ASSUME IInv, NEW t \in Tx, RetryPending(t)
  PROVE  IInv'
BY DEF IInv, RetryPending

(***************************************************************************)
(* The snapshot catches up with the store.                                 *)
(***************************************************************************)
LEMMA PersistKeeps ==
  ASSUME IInv, Persist
  PROVE  IInv'
<1>1. /\ disk' = record
      /\ UNCHANGED <<record, undo, journal, pc, effect, parent, holder,
                     pending, fences, scan, enabled, answer, live>>
  BY DEF Persist, recovery, world
<1>2. TypeOK'
  BY <1>1 DEF IInv, TypeOK, Persist, world
<1>3. ASSUME NEW u \in Tx
      PROVE  Loc(u)'
  <2>1. Loc(u)
    BY DEF IInv
  <2>2. RecordsInv(u)'
    BY <1>1, <2>1 DEF Loc, RecordsInv, Sound, NoneStands
  <2>3. JournalInv(u)'
    BY <1>1, <2>1 DEF Loc, JournalInv, AllApplied
  <2>4. StateInv(u)'
    BY <1>1, <2>1 DEF Loc, StateInv
  <2>5. HolderInv(u)'
    BY <1>1, <2>1 DEF Loc, HolderInv, Unresolved
  <2>. QED
    BY <2>2, <2>3, <2>4, <2>5 DEF Loc
<1>4. ScopeInv'
  BY <1>1 DEF IInv, ScopeInv
<1>5. ScanInv'
  BY <1>1 DEF IInv, ScanInv, AtRest, Sound, NoneStands, Unresolved
<1>. QED
  BY <1>1, <1>2, <1>3, <1>4, <1>5 DEF IInv

(***************************************************************************)
(* After a crash the store is what the snapshot was, and nobody works.     *)
(***************************************************************************)
LEMMA CrashKeeps ==
  ASSUME IInv, Crash
  PROVE  IInv'
<1>1. /\ record' = disk /\ undo' = disk /\ disk' = disk
      /\ journal' = [t \in Tx |-> NoSteps]
      /\ pc' = [t \in Tx |-> IF pc[t] = "idle" THEN "idle" ELSE "done"]
      /\ holder' = [t \in Tx |-> "none"]
      /\ pending' = {} /\ fences' = {}
      /\ scan' = NoScan /\ enabled' = FALSE
      /\ UNCHANGED <<effect, parent, answer, live>>
  BY DEF Crash
<1>2. TypeOK'
  <2>1. crashes' \in 0 .. MaxCrashes
    BY KernelAssumption DEF IInv, TypeOK, Crash
  <2>2. scan' \in [phase : {"off", "loop", "locking", "flush"}, pass : {1, 2},
                   todo : SUBSET Tx, waitsFor : SUBSET Tx,
                   changed : SUBSET Tx, seen : [Tx -> Record]]
    BY <1>1 DEF NoScan, Absent, NoSteps, Record, State, ValidTransitions
  <2>3. /\ journal' \in
               [Tx -> [Step -> {"absent", "planned"} \cup Compensable]]
        /\ pc' \in [Tx -> Label]
    BY <1>1 DEF IInv, TypeOK, NoSteps, Label
  <2>4. /\ record' \in [Tx -> Record] /\ disk' \in [Tx -> Record]
        /\ undo' \in [Tx -> Record]
        /\ holder' \in [Tx -> {"none", "command", "recovery"}]
        /\ pending' \subseteq Tx /\ fences' \subseteq Tx
        /\ enabled' \in BOOLEAN
    BY <1>1 DEF IInv, TypeOK
  <2>5. UNCHANGED <<effect, parent, answer, live, faults>>
    BY DEF Crash
  <2>. QED
    BY <2>1, <2>2, <2>3, <2>4, <2>5 DEF IInv, TypeOK
<1>3. ASSUME NEW u \in Tx
      PROVE  Loc(u)'
  <2>1. Loc(u)
    BY DEF IInv
  <2>2. /\ record'[u] = disk[u] /\ undo'[u] = disk[u] /\ disk'[u] = disk[u]
        /\ journal'[u] = NoSteps /\ holder'[u] = "none" /\ enabled' = FALSE
        /\ pc'[u] = IF pc[u] = "idle" THEN "idle" ELSE "done"
        /\ UNCHANGED <<effect, parent, answer>>
    BY <1>1
  <2>3. RecordsInv(u)'
    BY <2>1, <2>2 DEF Loc, RecordsInv, Sound, NoneStands, Forward, Stepping,
        Undoing, Synced, Unstarted
  <2>4. JournalInv(u)'
    BY <2>1, <2>2 DEF Loc, JournalInv, AllApplied, Forward, Stepping
  <2>5. StateInv(u)'
    BY <2>1, <2>2 DEF Loc, StateInv, Both, Stepping
  <2>6. HolderInv(u)'
    BY <2>1, <2>2 DEF Loc, HolderInv, Rest, Both
  <2>. QED
    BY <2>3, <2>4, <2>5, <2>6 DEF Loc
<1>4. ScopeInv'
  BY <1>1 DEF IInv, ScopeInv, Exclusive, Conflict, Unresolved, Rest
<1>5. ScanInv'
  BY <1>1 DEF ScanInv, NoScan
<1>. QED
  BY <1>1, <1>2, <1>3, <1>4, <1>5 DEF IInv

-----------------------------------------------------------------------------
(***************************************************************************)
(* The scan, at a time where no session and no recovery is under way.      *)
(***************************************************************************)
ScanType ==
  [phase : {"off", "loop", "locking", "flush"}, pass : {1, 2},
   todo : SUBSET Tx, waitsFor : SUBSET Tx, changed : SUBSET Tx,
   seen : [Tx -> Record]]

\* A step of the scan leaves the sessions alone.
Sessions ==
  <<undo, journal, pc, effect, parent, pending, answer, live, crashes>>

(***************************************************************************)
(* A pass lists what is unresolved.                                        *)
(***************************************************************************)
LEMMA Listing ==
  ASSUME IInv, NEW n \in {1, 2}
  PROVE  /\ Listed(n) \in ScanType /\ Listed(n).phase = "loop"
         /\ Listed(n).waitsFor = {} /\ Listed(n).changed = {}
         /\ Listed(n).seen = record
         /\ \A t \in Tx : t \in Listed(n).todo <=> Unresolved(record[t])
BY DEF IInv, TypeOK, Listed, ScanType

(***************************************************************************)
(* The scan begins in safe mode, while nobody is at work.                  *)
(***************************************************************************)
LEMMA ScanStartKeeps ==
  ASSUME IInv, ScanStart
  PROVE  IInv'
<1>1. /\ AtRest /\ scan' = Listed(1) /\ enabled' = FALSE
      /\ UNCHANGED <<Sessions, record, disk, holder, fences, faults>>
      /\ enabled = FALSE
  BY DEF IInv, TypeOK, ScanStart, Sessions, storage, world
<1>2. TypeOK'
  BY <1>1, Listing DEF IInv, TypeOK, ScanType, Sessions
<1>3. \A u \in Tx : Loc(u)'
  BY <1>1 DEF IInv, Loc, RecordsInv, Sound, NoneStands, JournalInv,
      AllApplied, StateInv, HolderInv, Unresolved, Sessions
<1>4. ScopeInv'
  BY <1>1 DEF IInv, ScopeInv, Exclusive, Conflict, Unresolved, Sessions
<1>5. /\ scan'.waitsFor = {} /\ scan'.changed = {} /\ scan'.seen = record
      /\ scan'.phase = "loop"
      /\ \A t \in Tx : t \in scan'.todo <=> Unresolved(record[t])
      /\ scan'.todo \subseteq Tx
  BY <1>1, Listing DEF ScanType
<1>6. \A t \in Tx : Sound(t, record[t])'
  BY <1>3 DEF Loc, RecordsInv
<1>7. ScanInv'
  BY <1>1, <1>5, <1>6 DEF ScanInv, AtRest, Sound, NoneStands, Unresolved,
      Sessions
<1>. QED
  BY <1>1, <1>2, <1>3, <1>4, <1>7 DEF IInv, Sessions

(***************************************************************************)
(* While the scan goes on, what is unresolved has its scope to itself.     *)
(***************************************************************************)
LEMMA Scanning ==
  ASSUME IInv, scan.phase # "off", NEW t \in Tx, Unresolved(record[t])
  PROVE  /\ pc[t] = "done" /\ holder[t] \in {"none", "recovery"}
         /\ Alone(t) /\ Free(t)
<1>1. AtRest /\ ~enabled
  BY DEF IInv, ScanInv
<1>2. /\ TypeOK /\ \A u \in Tx : RecordsInv(u) /\ HolderInv(u)
      /\ Exclusive(record)
  BY DEF IInv, Loc, ScopeInv
<1>3. pc[t] = "done"
  BY <1>1, <1>2 DEF AtRest, RecordsInv, Unstarted, Unresolved
<1>4. holder[t] \in {"none", "recovery"}
  BY <1>2, <1>3 DEF TypeOK, HolderInv
<1>5. ASSUME NEW u \in Tx, Conflict(t, u)
      PROVE  holder[u] = "none" /\ pc[u] \in Rest /\ ~Unresolved(record[u])
  <2>1. ~Unresolved(record[u])
    BY <1>2, <1>5 DEF Exclusive
  <2>2. pc[u] \in {"idle", "done"}
    BY <1>1 DEF AtRest
  <2>3. holder[u] = "none"
    BY <1>2, <2>1, <2>2 DEF HolderInv, TypeOK
  <2>. QED
    BY <2>1, <2>2, <2>3 DEF Rest
<1>. QED
  BY <1>3, <1>4, <1>5 DEF Alone, Free

(***************************************************************************)
(* The scan takes over a transaction: it finds the record as it was listed,*)
(* moves it to needs-recovery, and is granted the keys at once.            *)
(***************************************************************************)
LEMMA ScanRecordKeeps ==
  ASSUME IInv, NEW t \in Tx, ScanRecord(t)
  PROVE  IInv'
<1>1. /\ TypeOK /\ Loc(t) /\ live = FALSE /\ pending = {}
      /\ scan.phase = "loop" /\ t \in scan.todo
      /\ scan.waitsFor = {} /\ ~enabled
      /\ Unresolved(record[t]) /\ scan.seen[t] = record[t]
  BY DEF IInv, ScanInv, ScanRecord
<1>2. /\ pc[t] = "done" /\ holder[t] \in {"none", "recovery"}
      /\ Alone(t) /\ Free(t)
  BY <1>1, Scanning
<1>. DEFINE changes == scan.seen[t].state # "needs-recovery"
            now == IF changes THEN Moved(record[t], "needs-recovery")
                              ELSE record[t]
            added == IF changes THEN scan.changed \cup {t} ELSE scan.changed
            noted == [scan EXCEPT !.changed = added]
            past == [noted EXCEPT !.todo = scan.todo \ {t}]
<1>3. record[t] \in Record
  BY <1>1 DEF TypeOK
<1>4. now \in Record /\ now.state = "needs-recovery" /\ Unresolved(now)
  BY <1>1, <1>3, Recoverable
<1>5. Sound(t, now)
  <2>1. "needs-recovery" \in State
    BY DEF State
  <2>. QED
    BY <1>1, <1>3, <2>1, MovedSound DEF Loc, RecordsInv
<1>6. scan \in ScanType /\ added \subseteq Tx /\ t \in Tx
  BY <1>1 DEF TypeOK, ScanType
<1>7. added \in {scan.changed, scan.changed \cup {t}}
  OBVIOUS
<1>8. /\ record' = [record EXCEPT ![t] = now]
      /\ Unresolved(now) => fences' = fences \cup {t}
      /\ \/ /\ ~Unresolved(now) \/ holder[t] = "recovery"
            /\ scan' = past /\ UNCHANGED <<holder, pending>>
         \/ /\ holder' = [holder EXCEPT ![t] = "recovery"]
            /\ pending' = pending \ {t}
            /\ scan' = [past EXCEPT !.phase = "locking"]
         \/ holder[t] = "command" \/ (holder[t] = "none" /\ ~Free(t))
      /\ UNCHANGED <<disk, undo, journal, pc, effect, parent, enabled, answer,
                     faults, live, crashes>>
  BY DEF ScanRecord, world
<1>. HIDE DEF changes, now, added
<1>9. \/ scan' = past
      \/ scan' = [past EXCEPT !.phase = "locking"]
  BY <1>2, <1>4, <1>8
<1>10. /\ scan' \in ScanType /\ scan'.phase \in {"loop", "locking"}
       /\ scan'.todo = scan.todo \ {t} /\ scan'.changed = added
       /\ scan'.waitsFor = {} /\ scan'.seen = scan.seen
  <2>1. CASE scan' = past
    BY <1>1, <1>6, <2>1 DEF ScanType
  <2>2. CASE scan' = [past EXCEPT !.phase = "locking"]
    BY <1>1, <1>6, <2>2 DEF ScanType
  <2>. QED
    BY <1>9, <2>1, <2>2
<1>11. /\ holder' \in [Tx -> {"none", "command", "recovery"}]
       /\ holder'[t] = "recovery" /\ \A u \in Tx \ {t} : holder'[u] = holder[u]
       /\ pending' = {}
  BY SMTT(20), <1>1, <1>2, <1>4, <1>8 DEF TypeOK
<1>12. fences' = fences \cup {t}
  BY <1>4, <1>8
<1>13. /\ record' \in [Tx -> Record] /\ record'[t] = now
       /\ \A u \in Tx \ {t} : record'[u] = record[u]
  BY <1>1, <1>4, <1>8 DEF TypeOK
<1>14. TypeOK'
  BY <1>1, <1>8, <1>10, <1>11, <1>12, <1>13 DEF TypeOK, ScanType
<1>15. Frame(t)
  BY <1>1, <1>8, <1>11, <1>12, <1>13 DEF Frame, StoreFrame
<1>16. Loc(t)'
  <2>1. \A r \in {record[t], disk[t], undo[t]}' : Sound(t, r)'
    BY <1>1, <1>5, <1>8, <1>13 DEF Loc, RecordsInv, Sound, NoneStands
  <2>2. RecordsInv(t)'
    BY <1>1, <1>2, <1>8, <2>1 DEF Loc, RecordsInv, Forward, Stepping,
        Undoing, Synced, Unstarted
  <2>3. JournalInv(t)'
    BY <1>1, <1>2, <1>8, <1>11 DEF Loc, JournalInv, AllApplied, Forward,
        Stepping
  <2>4. StateInv(t)'
    BY <1>1, <1>2, <1>8, <1>13 DEF Loc, StateInv, Both, Stepping, Unresolved,
        Final
  <2>5. HolderInv(t)'
    BY <1>1, <1>2, <1>4, <1>8, <1>11, <1>13 DEF HolderInv, Rest, Both
  <2>. QED
    BY <2>2, <2>3, <2>4, <2>5 DEF Loc
<1>17. ScanInv'
  <2>1. AtRest' /\ ~enabled' /\ scan'.changed \cap scan'.todo = {}
    BY <1>1, <1>7, <1>8, <1>10 DEF IInv, ScanInv, AtRest
  <2>2. \A u \in Tx : Sound(u, scan.seen[u])'
    BY <1>1, <1>8, <1>10 DEF IInv, ScanInv, Sound, NoneStands
  <2>3. \A u \in scan'.todo :
          Unresolved(record'[u]) /\ scan'.seen[u] = record'[u]
    BY <1>1, <1>10, <1>13 DEF IInv, ScanInv, TypeOK
  <2>4. \A u \in scan'.changed :
          Unresolved(record'[u]) /\ Unresolved(scan'.seen[u])
    BY <1>1, <1>4, <1>6, <1>7, <1>10, <1>13 DEF IInv, ScanInv
  <2>5. \A u \in Tx \ scan'.todo :
          Unresolved(record'[u]) => holder'[u] = "recovery" /\ u \in fences'
    BY <1>1, <1>10, <1>11, <1>12, <1>13 DEF IInv, ScanInv
  <2>. QED
    BY <1>10, <2>1, <2>2, <2>3, <2>4, <2>5 DEF ScanInv, Unresolved
<1>. QED
  BY <1>2, <1>14, <1>15, <1>16, <1>17, TxKeeps

(***************************************************************************)
(* The await of a lock is over.                                            *)
(***************************************************************************)
LEMMA ScanGrantedKeeps ==
  ASSUME IInv, ScanGranted
  PROVE  IInv'
<1>1. /\ scan \in ScanType /\ scan.phase = "locking"
      /\ scan' = [scan EXCEPT !.phase = "loop"]
      /\ UNCHANGED <<Sessions, record, disk, holder, fences, enabled, faults>>
  BY DEF IInv, TypeOK, ScanGranted, ScanType, Sessions, storage, world
<1>2. /\ scan' \in ScanType /\ scan'.phase = "loop" /\ scan'.todo = scan.todo
      /\ scan'.changed = scan.changed /\ scan'.waitsFor = scan.waitsFor
      /\ scan'.seen = scan.seen
  BY <1>1 DEF ScanType
<1>3. TypeOK'
  BY <1>1, <1>2 DEF IInv, TypeOK, ScanType, Sessions
<1>4. \A u \in Tx : Loc(u)'
  BY <1>1 DEF IInv, Loc, RecordsInv, Sound, NoneStands, JournalInv,
      AllApplied, StateInv, HolderInv, Unresolved, Sessions
<1>5. ScopeInv'
  BY <1>1 DEF IInv, ScopeInv, Exclusive, Conflict, Unresolved, Sessions
<1>6. ScanInv'
  BY <1>1, <1>2 DEF IInv, ScanInv, AtRest, Sound, NoneStands, Unresolved,
      Sessions
<1>. QED
  BY <1>1, <1>3, <1>4, <1>5, <1>6 DEF IInv, Sessions

(***************************************************************************)
(* The scan never waits for keys.                                          *)
(***************************************************************************)
LEMMA ScanWaitedKeeps ==
  ASSUME IInv, NEW t \in Tx, ScanWaited(t)
  PROVE  IInv'
BY DEF IInv, ScanInv, ScanWaited

(***************************************************************************)
(* When a scan has come through its list, what is unresolved is held and   *)
(* fenced: safe mode may end.                                              *)
(***************************************************************************)
Secured(t) == Unresolved(record[t]) => holder[t] = "recovery" /\ t \in fences

LEMMA PassEnding ==
  ASSUME IInv, TypeOK', UNCHANGED <<Sessions, record, holder, fences>>,
         disk' \in {disk, record},
         scan.phase # "off", scan.todo = {}, PassEnds
  PROVE  IInv'
<1>1. \A u \in Tx : Secured(u) /\ pc[u] \in {"idle", "done"} /\ Loc(u)
  BY DEF IInv, ScanInv, Secured, AtRest
<1>2. \A r : UNCHANGED <<Sessions, record, holder, fences>> =>
        UNCHANGED <<undo, journal, pc, effect, parent, pending, answer, live,
                    record, holder, fences>>
  BY DEF Sessions
<1>3. ASSUME NEW u \in Tx
      PROVE  Loc(u)'
  <2>1. disk'[u] \in {disk[u], record[u]}
    OBVIOUS
  <2>2. RecordsInv(u)'
    BY <1>1, <1>2, <2>1 DEF Loc, RecordsInv, Sound, NoneStands, Synced
  <2>3. JournalInv(u)'
    BY <1>1, <1>2 DEF Loc, JournalInv, AllApplied
  <2>4. StateInv(u)'
    BY <1>1, <1>2, <2>1 DEF Loc, StateInv
  <2>5. HolderInv(u)'
    BY <1>1, <1>2 DEF Loc, HolderInv, Secured, Unresolved, Rest, Both
  <2>. QED
    BY <2>2, <2>3, <2>4, <2>5 DEF Loc
<1>4. ScopeInv'
  BY <1>2 DEF IInv, ScopeInv, Exclusive, Conflict, Unresolved
<1>5. CASE scan.pass = 1
  <2>1. scan' = Listed(2) /\ enabled' = enabled
    BY <1>5 DEF PassEnds
  <2>2. /\ scan'.waitsFor = {} /\ scan'.changed = {} /\ scan'.seen = record
        /\ scan'.phase = "loop"
        /\ \A t \in Tx : t \in scan'.todo <=> Unresolved(record[t])
        /\ scan'.todo \subseteq Tx
    BY <2>1, Listing DEF ScanType
  <2>3. \A t \in Tx : Sound(t, record[t])'
    BY <1>3 DEF Loc, RecordsInv
  <2>4. AtRest /\ ~enabled
    BY DEF IInv, ScanInv
  <2>5. ScanInv'
    BY <1>2, <2>1, <2>2, <2>3, <2>4 DEF ScanInv, AtRest, Sound, NoneStands,
        Unresolved
  <2>. QED
    BY <1>2, <1>3, <1>4, <2>5 DEF IInv
<1>6. CASE scan.pass # 1
  <2>1. ScanInv'
    BY <1>6 DEF PassEnds, NoScan, ScanInv
  <2>. QED
    BY <1>2, <1>3, <1>4, <2>1 DEF IInv
<1>. QED
  BY <1>5, <1>6

(***************************************************************************)
(* The state of the scan after a pass.                                     *)
(***************************************************************************)
LEMMA PassEndsTyped ==
  ASSUME IInv, PassEnds
  PROVE  scan' \in ScanType /\ enabled' \in BOOLEAN
<1>1. NoScan \in ScanType
  BY DEF ScanType, NoScan, Absent, NoSteps, Record, State, ValidTransitions
<1>2. Listed(2) \in ScanType
  BY Listing
<1>. QED
  BY <1>1, <1>2 DEF PassEnds, IInv, TypeOK

(***************************************************************************)
(* A pass that changed nothing ends, another flushes first.                *)
(***************************************************************************)
LEMMA ScanEndsKeeps ==
  ASSUME IInv, ScanEnds
  PROVE  IInv'
<1>1. /\ scan \in ScanType /\ scan.phase = "loop" /\ scan.todo = {}
      /\ UNCHANGED <<Sessions, record, disk, holder, fences, faults>>
  BY DEF IInv, TypeOK, ScanEnds, ScanType, Sessions, storage, world
<1>2. CASE PassEnds
  <2>1. TypeOK'
    BY <1>1, <1>2, PassEndsTyped DEF IInv, TypeOK, ScanType, Sessions
  <2>. QED
    BY <1>1, <1>2, <2>1, PassEnding
<1>3. CASE scan' = [scan EXCEPT !.phase = "flush"] /\ UNCHANGED enabled
  <2>1. /\ scan' \in ScanType /\ scan'.phase = "flush"
        /\ scan'.todo = scan.todo /\ scan'.changed = scan.changed
        /\ scan'.waitsFor = scan.waitsFor /\ scan'.seen = scan.seen
    BY <1>1, <1>3 DEF ScanType
  <2>2. TypeOK'
    BY <1>1, <1>3, <2>1 DEF IInv, TypeOK, ScanType, Sessions
  <2>3. \A u \in Tx : Loc(u)'
    BY <1>1, <1>3 DEF IInv, Loc, RecordsInv, Sound, NoneStands, JournalInv,
        AllApplied, StateInv, HolderInv, Unresolved, Sessions
  <2>4. ScopeInv'
    BY <1>1 DEF IInv, ScopeInv, Exclusive, Conflict, Unresolved, Sessions
  <2>5. ScanInv'
    BY <1>1, <1>3, <2>1 DEF IInv, ScanInv, AtRest, Sound, NoneStands,
        Unresolved, Sessions
  <2>. QED
    BY <1>1, <2>2, <2>3, <2>4, <2>5 DEF IInv, Sessions
<1>. QED
  BY <1>2, <1>3 DEF ScanEnds

(***************************************************************************)
(* A flush that fails puts back the records as they were listed, which are *)
(* as unresolved as those it takes away.                                   *)
(***************************************************************************)
LEMMA ScanFlushedKeeps ==
  ASSUME IInv, ScanFlushed
  PROVE  IInv'
<1>1. /\ scan.phase = "flush" /\ scan.todo = {} /\ ~enabled
      /\ UNCHANGED <<journal, pc, effect, parent, holder, pending, fences,
                     answer, live, crashes>>
  BY DEF IInv, ScanInv, ScanFlushed, world
<1>2. CASE Written /\ UNCHANGED undo /\ PassEnds
  <2>1. /\ UNCHANGED <<Sessions, record, holder, fences, faults>>
        /\ disk' = record
    BY <1>1, <1>2 DEF Sessions, Written
  <2>2. TypeOK'
    BY <1>2, <2>1, PassEndsTyped DEF IInv, TypeOK, ScanType, Sessions
  <2>. QED
    BY <1>1, <1>2, <2>1, <2>2, PassEnding
<1>3. CASE /\ FlushFails
           /\ record' = [t \in Tx |-> IF t \in scan.changed THEN scan.seen[t]
                                                            ELSE record[t]]
           /\ scan' = NoScan
           /\ enabled' = (scan.pass = 2)
  <2>1. /\ \A u \in Tx : Secured(u) /\ Loc(u) /\ Sound(u, scan.seen[u])
        /\ \A u \in scan.changed :
             u \in Tx /\ Unresolved(record[u]) /\ Unresolved(scan.seen[u])
        /\ scan \in ScanType
    BY <1>1 DEF IInv, ScanInv, Secured, TypeOK, ScanType
  <2>2. AtRest
    BY <1>1 DEF IInv, ScanInv
  <2>3. /\ faults' \in 0 .. MaxFaults /\ undo' = undo
        /\ disk' \in {disk, record}
    BY <1>3, Faulting DEF FlushFails, IInv
  <2>4. \A u \in Tx : /\ record'[u] \in {record[u], scan.seen[u]}
                      /\ record'[u] = record[u] \/ u \in scan.changed
    BY <1>3
  <2>5. TypeOK'
    <3>1. record' \in [Tx -> Record]
      BY <1>3, <2>1 DEF IInv, TypeOK, ScanType
    <3>2. NoScan \in ScanType
      BY DEF ScanType, NoScan, Absent, NoSteps, Record, State, ValidTransitions
    <3>3. enabled' \in BOOLEAN
      BY <1>3
    <3>. QED
      BY <1>1, <1>3, <2>3, <3>1, <3>2, <3>3 DEF IInv, TypeOK, ScanType
  <2>6. ASSUME NEW u \in Tx
        PROVE  Loc(u)'
    <3>1. /\ record'[u] \in {record[u], scan.seen[u]}
          /\ \/ record'[u] = record[u]
             \/ Unresolved(record[u]) /\ Unresolved(record'[u])
          /\ disk'[u] \in {disk[u], record[u]} /\ pc[u] \in {"idle", "done"}
      BY <1>3, <2>1, <2>2, <2>3, <2>4 DEF AtRest
    <3>2. Loc(u) /\ Secured(u) /\ Sound(u, scan.seen[u])
      BY <2>1
    <3>3. \A r \in {record[u], disk[u], undo[u]}' : Sound(u, r)'
      BY <1>1, <2>3, <3>1, <3>2 DEF Loc, RecordsInv, Sound, NoneStands
    <3>4. RecordsInv(u)'
      BY <1>1, <2>3, <3>1, <3>2, <3>3 DEF Loc, RecordsInv, Forward, Stepping,
          Undoing, Synced, Unstarted, Unresolved
    <3>5. JournalInv(u)'
      BY <1>1, <3>2 DEF Loc, JournalInv, AllApplied
    <3>6. StateInv(u)'
      BY <1>1, <3>1, <3>2 DEF Loc, StateInv, Both, Stepping, Unresolved, Final
    <3>7. HolderInv(u)'
      BY <1>1, <3>1, <3>2 DEF Loc, HolderInv, Secured, Rest, Both
    <3>. QED
      BY <3>4, <3>5, <3>6, <3>7 DEF Loc
  <2>7. \A u \in Tx : Unresolved(record'[u]) <=> Unresolved(record[u])
    BY <2>1, <2>4, <1>3
  <2>8. Exclusive(record') /\ Exclusive(disk')
    BY <2>3, <2>7 DEF IInv, ScopeInv, Exclusive
  <2>9. ScopeInv'
    BY <1>1, <2>7, <2>8 DEF IInv, ScopeInv, Exclusive, Conflict, Unresolved
  <2>10. ScanInv'
    BY <1>3 DEF ScanInv, NoScan
  <2>. QED
    BY <1>1, <2>5, <2>6, <2>9, <2>10 DEF IInv
<1>. QED
  BY <1>2, <1>3 DEF ScanFlushed

-----------------------------------------------------------------------------
(***************************************************************************)
(* The invariant, of the initial state and of every step.                  *)
(***************************************************************************)
LEMMA InitHolds ==
  ASSUME LiveScan = {FALSE}, Init
  PROVE  IInv
<1>1. Absent \in Record /\ Absent.state = "absent"
  BY DEF Absent, NoSteps, Record, State, ValidTransitions
<1>2. TypeOK
  <2>1. NoScan \in ScanType
    BY <1>1 DEF ScanType, NoScan
  <2>2. faults \in 0 .. MaxFaults /\ crashes \in 0 .. MaxCrashes
    BY KernelAssumption DEF Init
  <2>. QED
    BY <1>1, <2>1, <2>2 DEF Init, TypeOK, ScanType, Label, NoSteps
<1>3. ASSUME NEW t \in Tx
      PROVE  Loc(t)
  <2>1. /\ record[t] = Absent /\ disk[t] = Absent /\ undo[t] = Absent
        /\ journal[t] = NoSteps /\ pc[t] = "idle"
        /\ effect[t] = [s \in Step |-> "none"] /\ t \notin parent
        /\ holder[t] = "none" /\ answer[t] = "none"
    BY <1>3 DEF Init
  <2>2. RecordsInv(t)
    BY <1>1, <2>1 DEF RecordsInv, Sound, NoneStands, Forward, Stepping,
        Undoing, Synced, Unstarted
  <2>3. JournalInv(t)
    BY <2>1 DEF JournalInv, Forward, Stepping
  <2>4. StateInv(t)
    BY <2>1 DEF StateInv, Both, Stepping
  <2>5. HolderInv(t)
    BY <1>1, <2>1 DEF HolderInv, Rest, Both, Unresolved
  <2>. QED
    BY <2>2, <2>3, <2>4, <2>5 DEF Loc
<1>4. ScopeInv
  BY <1>1 DEF Init, ScopeInv, Exclusive, Unresolved, Rest
<1>5. ScanInv
  BY DEF Init, ScanInv, NoScan
<1>. QED
  BY <1>2, <1>3, <1>4, <1>5 DEF Init, IInv

(***************************************************************************)
(* Nothing changes.                                                        *)
(***************************************************************************)
LEMMA StutterKeeps ==
  ASSUME IInv, UNCHANGED vars
  PROVE  IInv'
<1>1. UNCHANGED <<record, disk, undo, journal, pc, effect, parent, holder,
                  pending, fences, scan, enabled, answer, faults, live,
                  crashes>>
  BY DEF vars, storage, recovery, world
<1>2. TypeOK'
  BY <1>1 DEF IInv, TypeOK
<1>3. \A u \in Tx : Loc(u)'
  BY <1>1 DEF IInv, Loc, RecordsInv, Sound, NoneStands, JournalInv,
      AllApplied, StateInv, HolderInv, Unresolved
<1>4. ScopeInv'
  BY <1>1 DEF IInv, ScopeInv, Exclusive, Conflict, Unresolved
<1>5. ScanInv'
  BY <1>1 DEF IInv, ScanInv, AtRest, Sound, NoneStands, Unresolved
<1>. QED
  BY <1>1, <1>2, <1>3, <1>4, <1>5 DEF IInv

(***************************************************************************)
(* One action after the other.                                             *)
(***************************************************************************)
LEMMA NextKeeps ==
  ASSUME ~LateParentError, IInv, [Next]_vars
  PROVE  IInv'
<1>1. ASSUME NEW t \in Tx, Submit(t) \/ Coordinate(t)
      PROVE  IInv'
  BY <1>1, SubmitKeeps, GrantKeeps, LockTimeoutKeeps, RejectPlanKeeps,
     ReturnKeeps DEF Coordinate
<1>2. ASSUME NEW t \in Tx, Execute(t)
      PROVE  IInv'
  BY <1>2, PrepareKeeps, PrepareFlushedKeeps, StartStepKeeps,
     IntentFlushedKeeps, ApplyKeeps, StepSucceedsKeeps, StepDeclinedKeeps,
     StepUnknownKeeps, DeclinedFlushedKeeps, ReceiptFlushedKeeps,
     CheckpointFlushedKeeps DEF Execute
<1>3. ASSUME NEW t \in Tx, Commit(t)
      PROVE  IInv'
  BY <1>3, CommitPlanFailsKeeps, EnterCommittingKeeps, CommittingFlushedKeeps,
     CommitParentKeeps, CommitDurablyKeeps, CommitFlushedKeeps DEF Commit
<1>4. ASSUME NEW t \in Tx, Fail(t)
      PROVE  IInv'
  BY <1>4, FailAndCompensateKeeps, AbandonFlushedKeeps, ReverseFlushedKeeps,
     CompensateKeeps, CompensateFailsKeeps, CheckFlushedKeeps, ConcludeKeeps,
     ConcludeFlushedKeeps, MarkNeedsRecoveryKeeps, MarkFlushedKeeps DEF Fail
<1>5. ASSUME NEW t \in Tx, RecoverStep(t) \/ RetryPending(t)
      PROVE  IInv'
  BY <1>5, RecoverKeeps, RecoverFinalKeeps, ReconcileKeeps,
     ReconcileFlushedKeeps, RetryPendingKeeps DEF RecoverStep
<1>6. CASE Scan
  BY <1>6, ScanStartKeeps, ScanGrantedKeeps, ScanEndsKeeps, ScanFlushedKeeps,
     ScanRecordKeeps, ScanWaitedKeeps DEF Scan
<1>. QED
  BY <1>1, <1>2, <1>3, <1>4, <1>5, <1>6, PersistKeeps, CrashKeeps,
     StutterKeeps DEF Next

(***************************************************************************)
(* The invariant holds in every state.                                     *)
(***************************************************************************)
LEMMA Invariance ==
  ASSUME LiveScan = {FALSE}, ~LateParentError
  PROVE  Spec => []IInv
<1>1. Init => IInv
  BY InitHolds
<1>2. IInv /\ [Next]_vars => IInv'
  BY NextKeeps
<1>. QED
  BY <1>1, <1>2, PTL DEF Spec

(***************************************************************************)
(* What the invariant says of each transaction.                            *)
(***************************************************************************)
LEMMA InvImplies ==
  ASSUME IInv
  PROVE  Consistent /\ WriteAhead /\ AtomicOutcome /\ NeverUndoneUnderParent
<1>1. /\ TypeOK /\ ScopeInv
      /\ \A t \in Tx : /\ RecordsInv(t) /\ JournalInv(t) /\ StateInv(t)
                       /\ HolderInv(t)
                       /\ Sound(t, record[t]) /\ Sound(t, disk[t])
  BY DEF IInv, Loc, RecordsInv
<1>2. ExecutedIsDurable
  BY <1>1 DEF ExecutedIsDurable, StateInv
<1>3. ScopeIsolated
  <2>. SUFFICES ASSUME NEW t \in Tx, NEW u \in Tx, Conflict(t, u), Working(t)
                PROVE  ~Unresolved(record[u])
    BY DEF ScopeIsolated
  <2>1. pc[t] \notin Rest
    BY DEF Working, Rest
  <2>. QED
    BY <1>1, <2>1 DEF ScopeInv
<1>4. UnresolvedFenced
  BY <1>1 DEF UnresolvedFenced, HolderInv, TypeOK
<1>5. WriteAhead
  BY <1>1 DEF WriteAhead, Sound
<1>6. AtomicOutcome
  <2>. SUFFICES ASSUME NEW t \in Tx, NEW r \in {record[t], disk[t]}
                PROVE  /\ r.state = "committed" =>
                            /\ t \in parent
                            /\ \A s \in Step : effect[t][s] = "applied"
                       /\ r.state \in {"failed", "compensated"} =>
                            /\ t \notin parent
                            /\ \A s \in Step : effect[t][s] # "applied"
    BY DEF AtomicOutcome
  <2>1. Sound(t, r) /\ Sound(t, record[t]) /\ RecordsInv(t)
    BY <1>1
  <2>2. t \in parent => \A s \in Step : effect[t][s] = "applied"
    BY <2>1 DEF RecordsInv
  <2>3. r.state = "committed" => t \in parent
    BY <2>1 DEF Sound
  <2>4. r.state \in {"failed", "compensated"} =>
          \A s \in Step : effect[t][s] # "applied"
    BY <2>1 DEF Sound, NoneStands
  <2>5. 1 \in Step
    BY KernelAssumption DEF Step
  <2>. QED
    BY <2>2, <2>3, <2>4, <2>5
<1>7. NeverUndoneUnderParent
  BY <1>1 DEF NeverUndoneUnderParent, RecordsInv, TypeOK
<1>. QED
  BY <1>1, <1>2, <1>3, <1>4, <1>5, <1>6, <1>7 DEF Consistent

(***************************************************************************)
(* What is done and final nobody touches but a crash.                      *)
(***************************************************************************)
Outcome(t) ==
  pc[t] = "done" /\ record[t].state \in Final =>
    record'[t].state = record[t].state \/ crashes' # crashes

(***************************************************************************)
(* A session, or a recovery under way, writes no record but its own.       *)
(***************************************************************************)
LEMMA SessionKeepsOutcome ==
  ASSUME TypeOK, NEW t \in Tx, pc[t] = "done", NEW u \in Tx,
         \/ Submit(u) \/ Coordinate(u) \/ Execute(u) \/ Commit(u) \/ Fail(u)
         \/ Reconcile(u) \/ ReconcileFlushed(u)
  PROVE  record'[t] = record[t]
<1>. USE DEF At, Goto, SaveAndFlush, Flushed, Written, Reverted
<1>1. CASE Submit(u) \/ Coordinate(u)
  BY <1>1 DEF TypeOK, storage, Submit, Coordinate, Grant, LockTimeout,
     RejectPlan, Return
<1>2. CASE Execute(u)
  BY <1>2 DEF TypeOK, storage, Execute, Prepare, PrepareFlushed, StartStep,
     IntentFlushed, Apply, StepSucceeds, StepDeclined, StepUnknown,
     DeclinedFlushed, ReceiptFlushed, CheckpointFlushed, Journalled
<1>3. CASE Commit(u)
  BY <1>3 DEF TypeOK, storage, Commit, CommitPlanFails, EnterCommitting,
     CommittingFlushed, CommitParent, CommitDurably, CommitFlushed
<1>4. CASE Fail(u)
  BY ZenonT(40), <1>4 DEF TypeOK, storage, Fail, FailAndCompensate, AbandonFlushed,
     ReverseFlushed, Compensate, CompensateFails, CheckFlushed, Conclude,
     ConcludeFlushed, MarkNeedsRecovery, MarkFlushed, CompensatorFails
<1>5. CASE Reconcile(u) \/ ReconcileFlushed(u)
  BY <1>5 DEF TypeOK, storage, Reconcile, ReconcileFlushed
<1>. QED
  BY <1>1, <1>2, <1>3, <1>4, <1>5

(***************************************************************************)
(* A new recovery and the scan turn to what is unresolved.                 *)
(***************************************************************************)
LEMMA NextKeepsOutcome ==
  ASSUME IInv, [Next]_vars, NEW t \in Tx
  PROVE  Outcome(t)
<1>. SUFFICES ASSUME pc[t] = "done", record[t].state \in Final,
                     crashes' = crashes
              PROVE  record'[t].state = record[t].state
  BY DEF Outcome
<1>1. ~Unresolved(record[t])
  BY DEF Unresolved
<1>2. ASSUME NEW u \in Tx,
             \/ Submit(u) \/ Coordinate(u) \/ Execute(u) \/ Commit(u)
             \/ Fail(u) \/ RecoverStep(u) \/ RetryPending(u)
      PROVE  record'[t] = record[t]
  <2>1. CASE Recover(u)
    BY <1>1, <2>1 DEF Recover, IInv, TypeOK
  <2>2. CASE RecoverFinal(u) \/ RetryPending(u)
    BY <2>2 DEF RecoverFinal, RetryPending, storage
  <2>. QED
    BY <1>2, <2>1, <2>2, SessionKeepsOutcome DEF IInv, RecoverStep
<1>3. CASE Scan
  <2>1. CASE ScanStart \/ ScanGranted \/ ScanEnds
             \/ \E u \in Tx : ScanWaited(u)
    BY <2>1 DEF ScanStart, ScanGranted, ScanEnds, ScanWaited, storage
  <2>2. CASE ScanFlushed
    <3>1. t \notin scan.changed
      BY <1>1, <2>2 DEF IInv, ScanInv, ScanFlushed
    <3>. QED
      BY <2>2, <3>1 DEF ScanFlushed, Written
  <2>3. ASSUME NEW u \in Tx, ScanRecord(u)
        PROVE  record'[t] = record[t]
    <3>1. u # t
      BY <1>1, <2>3 DEF IInv, ScanInv, ScanRecord
    <3>. QED
      BY <2>3, <3>1 DEF ScanRecord, IInv, TypeOK
  <2>. QED
    BY <1>3, <2>1, <2>2, <2>3 DEF Scan
<1>4. CASE Persist \/ UNCHANGED vars
  BY <1>4 DEF Persist, vars, storage
<1>5. CASE Crash
  BY <1>5 DEF Crash, IInv, TypeOK
<1>. QED
  BY <1>2, <1>3, <1>4, <1>5 DEF Next

-----------------------------------------------------------------------------
(* The theorems.                                                           *)

(***************************************************************************)
(* Every state is of its type, what commitDurably answered survives a      *)
(* crash, and nobody works in the scope of a transaction that is           *)
(* unresolved: the one who left it there keeps its keys, or fences them.   *)
(***************************************************************************)
THEOREM KernelConsistent ==
  ASSUME LiveScan = {FALSE}, ~LateParentError
  PROVE  Spec => []Consistent
<1>1. IInv => Consistent
  BY InvImplies
<1>. QED
  BY <1>1, Invariance, PTL

(***************************************************************************)
(* A child effect that stands is in the durable snapshot, as one to undo.  *)
(***************************************************************************)
THEOREM KernelWriteAhead ==
  ASSUME LiveScan = {FALSE}, ~LateParentError
  PROVE  Spec => []WriteAhead
<1>1. IInv => WriteAhead
  BY InvImplies
<1>. QED
  BY <1>1, Invariance, PTL

(***************************************************************************)
(* A committed transaction has its parent and all its effects, a failed or *)
(* compensated one has none of them, in memory and in the snapshot.        *)
(***************************************************************************)
THEOREM KernelAtomicOutcome ==
  ASSUME LiveScan = {FALSE}, ~LateParentError
  PROVE  Spec => []AtomicOutcome
<1>1. IInv => AtomicOutcome
  BY InvImplies
<1>. QED
  BY <1>1, Invariance, PTL

(***************************************************************************)
(* No effect is undone under a parent document that was written.           *)
(***************************************************************************)
THEOREM KernelNeverUndone ==
  ASSUME LiveScan = {FALSE}, ~LateParentError
  PROVE  Spec => []NeverUndoneUnderParent
<1>1. IInv => NeverUndoneUnderParent
  BY InvImplies
<1>. QED
  BY <1>1, Invariance, PTL

(***************************************************************************)
(* The outcome of a transaction nobody works on stays what it is, but for  *)
(* a crash that takes back what was never flushed.                         *)
(***************************************************************************)
THEOREM KernelOutcomeIsFinal ==
  ASSUME LiveScan = {FALSE}, ~LateParentError
  PROVE  Spec => OutcomeIsFinal
<1>1. IInv /\ [Next]_vars =>
        [\A t \in Tx :
           pc[t] = "done" /\ record[t].state \in Final =>
             record'[t].state = record[t].state \/ crashes' # crashes]_vars
  BY NextKeepsOutcome DEF Outcome
<1>. QED
  BY <1>1, Invariance, PTL DEF Spec, OutcomeIsFinal
=============================================================================
