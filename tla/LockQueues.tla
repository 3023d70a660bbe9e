------------------------------ MODULE LockQueues ------------------------------
(***************************************************************************)
(* The lock manager as lock-manager.ts writes it: one queue of requests    *)
(* per key and the loop of processQueues over the heads of the queues, one *)
(* pass of the loop a step.  JavaScript runs a method to its end, so no    *)
(* caller sees the manager in the loop: the variables of LockManager are   *)
(* what the callers see, those declared here what the manager works on,    *)
(* and the two agree whenever a method returns.  Seen so, this module      *)
(* implements LockManager, which states what the whole loop grants in one  *)
(* formula.                                                                *)
(***************************************************************************)
EXTENDS LockManager, Sequences, SequencesExt

VARIABLES
  lockOwner, lockDepth, queue,   \* of each key, as the manager has them
  status,              \* where a request is for the manager
  handleId, nextId,    \* the numbers in the handle ids, and the next one
  processingQueues     \* a method is in the loop: no other method can run

table == <<lockOwner, lockDepth, status, handleId, nextId>>

queueVars == <<vars, table, queue, processingQueues>>

\* The callers see the manager as it is.
AllSeen ==
  /\ owner = lockOwner /\ depth = lockDepth /\ handle = status
  /\ seq = handleId /\ nextHandleSeq = nextId

\* The end of a method.
Return ==
  /\ processingQueues' = FALSE
  /\ owner' = lockOwner' /\ depth' = lockDepth' /\ handle' = status'
  /\ seq' = handleId' /\ nextHandleSeq' = nextId'

\* A method that may have unblocked a request first goes through the loop.
EnterLoop == processingQueues' = TRUE /\ UNCHANGED vars

GrantKeys(r) ==
  /\ lockOwner' = [k \in Key |-> IF k \in KeysOf[r] THEN OwnerOf[r] ELSE lockOwner[k]]
  /\ lockDepth' = [k \in Key |-> IF k \notin KeysOf[r] THEN lockDepth[k]
                                  ELSE IF lockOwner[k] = OwnerOf[r]
                                  THEN lockDepth[k] + 1
                                  ELSE 1]
  /\ status' = [status EXCEPT ![r] = "held"]

RemoveFromQueues(r) ==
  queue' = [k \in Key |-> IF k \in KeysOf[r] THEN RemoveFirst(queue[k], r)
                                            ELSE queue[k]]

\* Mutant: a request is granted from the middle of a queue.
GrantFromAnywhere(r) ==
  \A k \in KeysOf[r] : lockOwner[k] \in {NoOwner, OwnerOf[r]}

CanAcquireRequest(r) ==
  \A k \in KeysOf[r] :
    /\ lockOwner[k] \in {NoOwner, OwnerOf[r]}
    /\ queue[k] # <<>> => Head(queue[k]) = r

Heads == {Head(queue[k]) : k \in {k \in Key : queue[k] # <<>>}}

(***************************************************************************)
(* One pass of the loop: it grants one head that can have all its keys and *)
(* starts over.  The code tries the heads in the order in which their keys *)
(* were first locked; here every order is possible.                        *)
(***************************************************************************)
Grant(r) ==
  /\ processingQueues /\ r \in Heads /\ CanAcquireRequest(r)
  /\ RemoveFromQueues(r) /\ GrantKeys(r)
  /\ UNCHANGED <<handleId, nextId, processingQueues, vars>>

\* The pass that makes no progress ends the loop, and the method with it.
QueuesProcessed ==
  /\ processingQueues /\ \A r \in Heads : ~CanAcquireRequest(r)
  /\ UNCHANGED <<table, queue>>
  /\ Return

-----------------------------------------------------------------------------

QueueInit ==
  /\ lockOwner = [k \in Key |-> NoOwner] /\ lockDepth = [k \in Key |-> 0]
  /\ queue = [k \in Key |-> <<>>]
  /\ status = [r \in Request |-> "idle"]
  /\ handleId = [r \in Request |-> 0] /\ nextId = 1
  /\ processingQueues = FALSE /\ AllSeen

FastPath(r) ==
  \A k \in KeysOf[r] : lockOwner[k] \in {NoOwner, OwnerOf[r]} /\ queue[k] = <<>>

Enqueue(r) ==
  /\ status' = [status EXCEPT ![r] = "waiting"]
  /\ queue' = [k \in Key |-> IF k \in KeysOf[r] THEN Append(queue[k], r)
                                               ELSE queue[k]]
  /\ UNCHANGED <<lockOwner, lockDepth>>
  /\ EnterLoop

AcquireLocks(r) ==
  /\ ~processingQueues
  /\ status[r] = "idle" /\ r \notin Adopted /\ ~Dispossessed(OwnerOf[r])
  /\ handleId' = [handleId EXCEPT ![r] = nextId] /\ nextId' = nextId + 1
  /\ \/ FastPath(r) /\ GrantKeys(r) /\ UNCHANGED queue /\ Return
     \/ ~FastPath(r) /\ Enqueue(r)

Leave(r, outcome) ==
  /\ ~processingQueues
  /\ status[r] = "waiting"
  /\ status' = [status EXCEPT ![r] = outcome]
  /\ RemoveFromQueues(r)
  /\ UNCHANGED <<lockOwner, lockDepth, handleId, nextId>>
  /\ EnterLoop

TimerFires(r) == r \in Timed /\ Leave(r, "timedOut")

OnAbort(r) == r \in Signalled /\ Leave(r, "cancelled")

AcquireAborted(r) ==
  /\ ~processingQueues
  /\ status[r] = "idle" /\ r \in Signalled \ Adopted /\ KeysOf[r] # {}
  /\ status' = [status EXCEPT ![r] = "cancelled"]
  /\ UNCHANGED <<lockOwner, lockDepth, queue, handleId, nextId>>
  /\ Return

ReleaseKeys(r) ==
  LET mine == {k \in KeysOf[r] : lockOwner[k] = OwnerOf[r]}
  IN /\ ~processingQueues
     /\ status[r] \in {"held", "moved"}
     /\ lockDepth' = [k \in Key |-> IF k \in mine THEN lockDepth[k] - 1
                                                   ELSE lockDepth[k]]
     /\ lockOwner' = [k \in Key |-> IF k \in mine /\ lockDepth'[k] <= 0
                                    THEN NoOwner ELSE lockOwner[k]]
     /\ status' = [status EXCEPT ![r] = "released"]
     /\ UNCHANGED <<queue, handleId, nextId>>
     /\ EnterLoop

TransferLock(r, t) ==
  /\ ~processingQueues
  /\ status[r] = "held" /\ r \notin Adopted
  /\ status[t] = "idle" /\ t \in Adopted
  /\ KeysOf[t] = KeysOf[r] /\ OwnerOf[t] # OwnerOf[r]
  /\ ~Dispossessed(OwnerOf[t])
  /\ \A q \in Request \ {r} :
       OwnerOf[q] = OwnerOf[r] => status[q] \notin {"held", "waiting"}
  /\ \A k \in KeysOf[r] : lockOwner[k] = OwnerOf[r]
  /\ status' = [status EXCEPT ![r] = "moved", ![t] = "held"]
  /\ lockOwner' = [k \in Key |-> IF k \in KeysOf[r] THEN OwnerOf[t] ELSE lockOwner[k]]
  /\ handleId' = [handleId EXCEPT ![t] = nextId] /\ nextId' = nextId + 1
  /\ UNCHANGED <<lockDepth, queue>>
  /\ Return

QueueNext ==
  \/ \E r \in Request :
       \/ AcquireLocks(r) \/ TimerFires(r) \/ OnAbort(r) \/ AcquireAborted(r)
       \/ ReleaseKeys(r) \/ Grant(r)
  \/ \E r, t \in Request : TransferLock(r, t)
  \/ QueuesProcessed

QueueSpec == QueueInit /\ [][QueueNext]_queueVars

-----------------------------------------------------------------------------
(***************************************************************************)
(* The queue of a key holds exactly the requests that wait for it, each    *)
(* once, in the order of the handle ids: what lets LockManager do without  *)
(* the queues (enqueue, removeFromQueues, processQueues).                  *)
(***************************************************************************)
QueuesOrdered ==
  \A k \in Key :
    /\ ToSet(queue[k]) = {r \in Request : status[r] = "waiting" /\ k \in KeysOf[r]}
    /\ \A i, j \in DOMAIN queue[k] :
         i < j => handleId[queue[k][i]] < handleId[queue[k][j]]

(***************************************************************************)
(* For callers the methods over the queues do what LockManager says in one *)
(* step each, in whatever order the loop visits the heads.                 *)
(***************************************************************************)
ImplementsLockManager == Spec
=============================================================================
