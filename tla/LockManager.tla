----------------------------- MODULE LockManager -----------------------------
(***************************************************************************)
(* The central multi-key lock manager of the Primary Authority             *)
(* (src/mutations/lock-manager.ts).                                        *)
(*                                                                         *)
(* A Request is one handle of the code: either one call of acquireLocks,   *)
(* or the new handle that one call of transferLock returns (an Adopted     *)
(* request).  Requests of one owner are nested acquisitions: a command     *)
(* holds its coordinator handle and the services it calls acquire again    *)
(* under the same owner.                                                   *)
(*                                                                         *)
(* JavaScript runs each method to completion, so each method is one step;  *)
(* the loop of processQueues, which every method that can unblock a waiter *)
(* ends with, is part of that step (Settle).  A request is pushed on the   *)
(* queues of all its keys at once, so every queue is in the order of the   *)
(* sequence numbers of the handle ids: the model keeps the number of each  *)
(* request and not the queues.  Module LockQueues has the queues and the   *)
(* loop as written and implements this module.                             *)
(***************************************************************************)
EXTENDS Integers, FiniteSets

CONSTANTS
  Key,          \* lock keys, canonical (trimmed, deduplicated, sorted)
  Owner,        \* owner ids: command ids, "recovery_<transaction>"
  NoOwner,      \* currentOwnerId = null
  Request,      \* handles
  Adopted,      \* handles that only transferLock creates
  OwnerOf,      \* the owner id of a handle
  KeysOf,       \* the canonical keys of a handle
  Timed,        \* requests with timeoutMs > 0
  Signalled     \* requests with an AbortSignal

ASSUME ConstantsAssumption ==
  /\ IsFiniteSet(Request)
  /\ NoOwner \notin Owner
  /\ OwnerOf \in [Request -> Owner]
  /\ KeysOf \in [Request -> SUBSET Key]
  /\ Adopted \subseteq Request
  /\ Timed \subseteq Request
  /\ Signalled \subseteq Request

VARIABLES
  owner,         \* currentOwnerId of each key
  depth,         \* reentrantDepth of each key
  handle,        \* where each request is in its life
  seq,           \* the sequence number in each handle id, 0 before it has one
  nextHandleSeq

vars == <<owner, depth, handle, seq, nextHandleSeq>>

(***************************************************************************)
(* "moved" is a handle whose keys were transferred and whose release() was *)
(* not called yet: for the code it is a handle like any other.             *)
(***************************************************************************)
HandleState ==
  {"idle", "waiting", "held", "moved", "released", "timedOut", "cancelled"}

Holders(k) == {r \in Request : handle[r] = "held" /\ k \in KeysOf[r]}

Waiters == {r \in Request : handle[r] = "waiting"}

(***************************************************************************)
(* A caller whose handle was transferred is on its way out: it releases    *)
(* the old handle in its finally block and acquires nothing in between.    *)
(***************************************************************************)
Dispossessed(o) == \E r \in Request : OwnerOf[r] = o /\ handle[r] = "moved"

Grantable(r, own) == \A k \in KeysOf[r] : own[k] \in {NoOwner, OwnerOf[r]}

-----------------------------------------------------------------------------

Init ==
  /\ owner = [k \in Key |-> NoOwner]
  /\ depth = [k \in Key |-> 0]
  /\ handle = [r \in Request |-> "idle"]
  /\ seq = [r \in Request |-> 0]
  /\ nextHandleSeq = 1

(***************************************************************************)
(* processQueues on waiting set W, with the keys owned as own says, grants *)
(* exactly G: a waiter is granted once each of its keys is free or its     *)
(* owner's and everybody ahead of it in a queue they share is gone.  Those *)
(* ahead leave by being granted in the same loop, after which the key is   *)
(* theirs: then only a request of the same owner can follow.               *)
(***************************************************************************)
Drains(W, own, s, G) ==
  /\ G \subseteq W
  /\ \A r \in W :
       r \in G <=>
         /\ Grantable(r, own)
         /\ \A q \in W :
              (s[q] < s[r] /\ KeysOf[q] \cap KeysOf[r] # {})
                => q \in G /\ OwnerOf[q] = OwnerOf[r]

GrantedOwner(G, own) ==
  [k \in Key |-> IF \E r \in G : k \in KeysOf[r]
                 THEN OwnerOf[CHOOSE r \in G : k \in KeysOf[r]]
                 ELSE own[k]]

GrantedDepth(G, dep) ==
  [k \in Key |-> dep[k] + Cardinality({r \in G : k \in KeysOf[r]})]

(***************************************************************************)
(* The end of every method that changes a queue or frees a key: h, own and *)
(* dep are what the method itself left, s the order of the queues.         *)
(***************************************************************************)
Settle(h, own, dep, s) ==
  \E G \in SUBSET {r \in Request : h[r] = "waiting"} :
    /\ Drains({r \in Request : h[r] = "waiting"}, own, s, G)
    /\ handle' = [r \in Request |-> IF r \in G THEN "held" ELSE h[r]]
    /\ owner' = GrantedOwner(G, own)
    /\ depth' = GrantedDepth(G, dep)

\* Mutant: the fast path looks at the owners only, not at the queues.
CanAcquireIgnoringQueues(r) == Grantable(r, owner)

CanAcquireAllImmediately(r) ==
  /\ Grantable(r, owner)
  /\ \A q \in Waiters : KeysOf[q] \cap KeysOf[r] = {}

(***************************************************************************)
(* acquireLocks: the fast path grants at once, else the request is pushed  *)
(* on the queue of each of its keys and the queues are processed.          *)
(***************************************************************************)
Acquire(r) ==
  /\ handle[r] = "idle" /\ r \notin Adopted
  /\ ~Dispossessed(OwnerOf[r])
  /\ seq' = [seq EXCEPT ![r] = nextHandleSeq]
  /\ nextHandleSeq' = nextHandleSeq + 1
  /\ IF CanAcquireAllImmediately(r)
     THEN /\ handle' = [handle EXCEPT ![r] = "held"]
          /\ owner' = [k \in Key |-> IF k \in KeysOf[r] THEN OwnerOf[r]
                                                       ELSE owner[k]]
          /\ depth' = [k \in Key |->
                         IF k \notin KeysOf[r] THEN depth[k]
                         ELSE IF owner[k] = OwnerOf[r] THEN depth[k] + 1
                         ELSE 1]
     ELSE Settle([handle EXCEPT ![r] = "waiting"], owner, depth, seq')

\* Mutant: removeFromQueues does not process the queues it shortened.
TimeoutWithoutWakeup(r) ==
  /\ handle[r] = "waiting" /\ r \in Timed
  /\ handle' = [handle EXCEPT ![r] = "timedOut"]
  /\ UNCHANGED <<owner, depth, seq, nextHandleSeq>>

(***************************************************************************)
(* A waiter leaves the queues: its timer fires, or its signal aborts.      *)
(***************************************************************************)
Timeout(r) ==
  /\ handle[r] = "waiting" /\ r \in Timed
  /\ Settle([handle EXCEPT ![r] = "timedOut"], owner, depth, seq)
  /\ UNCHANGED <<seq, nextHandleSeq>>

Abort(r) ==
  /\ handle[r] = "waiting" /\ r \in Signalled
  /\ Settle([handle EXCEPT ![r] = "cancelled"], owner, depth, seq)
  /\ UNCHANGED <<seq, nextHandleSeq>>

(***************************************************************************)
(* The signal was aborted before the call: nothing is numbered or queued.  *)
(***************************************************************************)
RefuseAborted(r) ==
  /\ handle[r] = "idle" /\ r \in Signalled \ Adopted /\ KeysOf[r] # {}
  /\ handle' = [handle EXCEPT ![r] = "cancelled"]
  /\ UNCHANGED <<owner, depth, seq, nextHandleSeq>>

\* Mutant: releaseKeys does not skip the keys that somebody else owns.
ReleaseForeignKeys(r) ==
  /\ handle[r] \in {"held", "moved"}
  /\ Settle([handle EXCEPT ![r] = "released"],
            [k \in Key |-> IF k \in KeysOf[r] /\ depth[k] <= 1 THEN NoOwner
                                                             ELSE owner[k]],
            [k \in Key |-> IF k \in KeysOf[r] THEN depth[k] - 1 ELSE depth[k]],
            seq)
  /\ UNCHANGED <<seq, nextHandleSeq>>

\* Mutant: a release serves nobody.
ReleaseWithoutWakeup(r) ==
  LET mine == {k \in KeysOf[r] : owner[k] = OwnerOf[r]}
  IN /\ handle[r] \in {"held", "moved"}
     /\ handle' = [handle EXCEPT ![r] = "released"]
     /\ owner' = [k \in Key |-> IF k \in mine /\ depth[k] <= 1 THEN NoOwner
                                                             ELSE owner[k]]
     /\ depth' = [k \in Key |-> IF k \in mine THEN depth[k] - 1 ELSE depth[k]]
     /\ UNCHANGED <<seq, nextHandleSeq>>

(***************************************************************************)
(* release() of a handle, once (the closure's released flag).  A key that  *)
(* somebody else owns by now is skipped, so a moved handle frees nothing.  *)
(***************************************************************************)
Release(r) ==
  LET mine == {k \in KeysOf[r] : owner[k] = OwnerOf[r]}
  IN /\ handle[r] \in {"held", "moved"}
     /\ Settle([handle EXCEPT ![r] = "released"],
               [k \in Key |-> IF k \in mine /\ depth[k] <= 1 THEN NoOwner
                                                             ELSE owner[k]],
               [k \in Key |-> IF k \in mine THEN depth[k] - 1 ELSE depth[k]],
               seq)
     /\ UNCHANGED <<seq, nextHandleSeq>>

(***************************************************************************)
(* transferLock: the keys of handle r change owner without passing through *)
(* the queues, and t is the new handle on them.  The depth is kept, so the *)
(* one caller (RecoveryService.isolateTransaction, with the coordinator's  *)
(* handle after the nested ones are released) must own no other handle.    *)
(***************************************************************************)
Transfer(r, t) ==
  /\ handle[r] = "held" /\ r \notin Adopted
  /\ handle[t] = "idle" /\ t \in Adopted
  /\ KeysOf[t] = KeysOf[r] /\ OwnerOf[t] # OwnerOf[r]
  /\ ~Dispossessed(OwnerOf[t])
  /\ \A q \in Request \ {r} :
       OwnerOf[q] = OwnerOf[r] => handle[q] \notin {"held", "waiting"}
  /\ \A k \in KeysOf[r] : owner[k] = OwnerOf[r]
  /\ handle' = [handle EXCEPT ![r] = "moved", ![t] = "held"]
  /\ owner' = [k \in Key |-> IF k \in KeysOf[r] THEN OwnerOf[t] ELSE owner[k]]
  /\ seq' = [seq EXCEPT ![t] = nextHandleSeq]
  /\ nextHandleSeq' = nextHandleSeq + 1
  /\ UNCHANGED depth

Next ==
  \/ \E r \in Request :
       Acquire(r) \/ Timeout(r) \/ Abort(r) \/ RefuseAborted(r) \/ Release(r)
  \/ \E r, t \in Request : Transfer(r, t)

Spec == Init /\ [][Next]_vars

(***************************************************************************)
(* Callers release in a finally block, so a held handle is released; no    *)
(* waiter is promised its timeout.                                         *)
(***************************************************************************)
Fairness == \A r \in Request : WF_vars(Release(r))

FairSpec == Spec /\ Fairness

-----------------------------------------------------------------------------
(***************************************************************************)
(* Every key's bookkeeping has its type, and no depth goes below zero.     *)
(***************************************************************************)
TypeOK ==
  /\ owner \in [Key -> Owner \cup {NoOwner}]
  /\ depth \in [Key -> Nat]
  /\ handle \in [Request -> HandleState]
  /\ seq \in [Request -> Nat]
  /\ nextHandleSeq \in Nat \ {0}

(***************************************************************************)
(* Two handles that are held at the same time and share a key belong to    *)
(* one owner, whatever acquisitions, transfers, releases and timeouts      *)
(* happened in between (lock-manager.ts, canAcquire... and releaseKeys).   *)
(***************************************************************************)
MutualExclusion ==
  \A r, q \in Request :
    (handle[r] = "held" /\ handle[q] = "held" /\ KeysOf[r] \cap KeysOf[q] # {})
      => OwnerOf[r] = OwnerOf[q]

(***************************************************************************)
(* The owner and the reentrant depth of a key are those of the handles     *)
(* held on it: no release is lost, none frees another's hold, and a key    *)
(* nobody holds is free (grantKeys, releaseKeys, transferLock).            *)
(***************************************************************************)
HoldsAccounted ==
  \A k \in Key :
    /\ depth[k] = Cardinality(Holders(k))
    /\ owner[k] = NoOwner => Holders(k) = {}
    /\ \A r \in Holders(k) : owner[k] = OwnerOf[r]
    /\ owner[k] # NoOwner => Holders(k) # {}

(***************************************************************************)
(* Between two calls no waiter could be served: whoever heads all of its   *)
(* queues is blocked by a key another owner holds (processQueues runs      *)
(* wherever a queue got shorter or a key free).  The exception is a waiter *)
(* of an owner that got keys by transferLock, which processes no queues:   *)
(* it stays queued behind keys that are its own by now.                    *)
(***************************************************************************)
HeadsItsQueues(r) ==
  \A q \in Waiters : seq[q] < seq[r] => KeysOf[q] \cap KeysOf[r] = {}

NoLostWakeup ==
  \A r \in Waiters :
    HeadsItsQueues(r) /\ Grantable(r, owner)
      => \E t \in Adopted : handle[t] = "held" /\ OwnerOf[t] = OwnerOf[r]

(***************************************************************************)
(* Strict FIFO on every key: nobody is granted a key for which another     *)
(* request was and still is waiting from before, not even its holder       *)
(* (canAcquireAllImmediately, canAcquireRequest).                          *)
(***************************************************************************)
InOrder(q, r) ==
  (/\ handle[q] = "waiting" /\ handle'[q] = "waiting"
   /\ handle[r] \in {"idle", "waiting"} /\ r \notin Adopted
   /\ handle'[r] = "held"
   /\ KeysOf[q] \cap KeysOf[r] # {})
    => seq[r] # 0 /\ seq[r] < seq[q]

NoOvertaking == [][\A q, r \in Request : InOrder(q, r)]_vars

(***************************************************************************)
(* If holders release, a request that waits without a timer or a signal is *)
(* served: no deadlock on crossing key sets, and requests for one key do   *)
(* not starve one for several, whoever times out, aborts or transfers      *)
(* meanwhile.                                                              *)
(***************************************************************************)
EveryWaiterServed ==
  \A r \in Request \ (Timed \cup Signalled) :
    handle[r] = "waiting" ~> handle[r] = "held"

(***************************************************************************)
(* docs/GATE_G5_ACCEPTANCE_REPORT.md:132 of the nested acquisitions of a   *)
(* command: the holder of the keys acquires them again without waiting.    *)
(***************************************************************************)
NestedNeverWaits ==
  \A r \in Waiters : \E k \in KeysOf[r] : owner[k] # OwnerOf[r]
=============================================================================
