----------------------- MODULE PrimaryAuthorityProofs -----------------------
(***************************************************************************)
(* Proofs about PrimaryAuthority, for every set of users, Game Masters and *)
(* transactions and every bound: type correctness, the recovery barrier,   *)
(* the order of epochs and the agreement of the clients at rest.           *)
(*                                                                         *)
(* The barrier is not inductive: that a scan which ends covers the store   *)
(* needs that the running scan covers it unless another transition was     *)
(* asked for (ScanCovers), and that a client whose start-up has not        *)
(* registered the hook of users cannot become elected by an update of the  *)
(* users alone needs that it knows itself from the moment it connects and  *)
(* is never told that it left (InSession and the messages it can hear).    *)
(*                                                                         *)
(* The agreement at rest is about states with nothing under way, so it     *)
(* needs what holds meanwhile: a client's copy and the updates still in    *)
(* its inbox together tell the users and the preference of the server      *)
(* (Informed), and a client that owes no transition holds the choice of    *)
(* its own copy (Chosen).                                                  *)
(***************************************************************************)
EXTENDS PrimaryAuthority, SequenceTheorems, TLAPS

\* States of the service that occur: only an initialized one names somebody.
Known == {s \in States : s.initialized \/ s.id = NoUser}

Presences(u) == [kind : {"presence"}, user : Users \ {u}, active : BOOLEAN]

Preferences == [kind : {"preferred"}, user : GMs \cup {NoUser}]

Updates == [kind : {"state"}, state : Known, by : Users]

\* What client u can be told: that others come and go, never that it did.
Heard(u) == Presences(u) \cup Preferences \cup Updates

Copies == [view : SUBSET Users, pref : GMs \cup {NoUser}, saved : Known]

Typed ==
    /\ TypeOK
    /\ setting \in Known
    /\ pending \in [Users -> Known] /\ authority \in [Users -> Known]
    /\ local \in [Users -> Copies]

Mail ==
    /\ inbox = [u \in Users |-> inbox[u]]
    /\ \A u \in Users : inbox[u] \in Seq(Heard(u))

\* A client that runs is connected and knows it; one that has not composed
\* the runtime has no state of it.
InSession ==
    \A u \in Users :
        /\ u \in online <=> stage[u] # "offline"
        /\ stage[u] # "offline" => u \in local[u].view
        /\ stage[u] \in {"offline", "loading"} =>
               /\ ~enabled[u] /\ phase[u] = "idle" /\ running[u] = {}
               /\ authority[u].id = NoUser /\ authority[u].epoch = 0

\* A scan under way fits the epoch and the store, unless it is overtaken.
ScanCovers ==
    \A u \in Users :
        phase[u] = "scanning" /\ waiting[u] = 0 =>
            /\ scanned[u] = {authority[u].epoch}
            /\ store[u] \ running[u] \subseteq fences[u]

AuthorityInv == Typed /\ Mail /\ InSession /\ ScanCovers /\ BarrierHolds

-----------------------------------------------------------------------------
(***************************************************************************)
(* The election and the service.                                           *)
(***************************************************************************)

(***************************************************************************)
(* The election names a Game Master or nobody                              *)
(* (resolvePrimaryAuthorityUserId).                                        *)
(***************************************************************************)
LEMMA ElectType ==
  ASSUME NEW view \in SUBSET Users, NEW pref \in GMs \cup {NoUser}
  PROVE  Elect(view, pref) \in GMs \cup {NoUser}
<1>. DEFINE eligible == view \cap GMs
<1>1. CASE pref \in eligible
  BY <1>1 DEF Elect
<1>2. CASE pref \notin eligible /\ eligible = {}
  BY <1>2 DEF Elect
<1>3. CASE pref \notin eligible /\ eligible # {}
  <2>1. \E g \in eligible : \A h \in eligible : g <= h
    BY <1>3, UserAssumption
  <2>2. (CHOOSE g \in eligible : \A h \in eligible : g <= h) \in eligible
    BY <2>1
  <2>. QED
    BY <1>3, <2>2 DEF Elect
<1>. QED
  BY <1>1, <1>2, <1>3

(***************************************************************************)
(* resolve keeps the state well formed, raises the epoch when it replaces  *)
(* one identity by another and never lowers it.                            *)
(***************************************************************************)
LEMMA ResolveKnown ==
  ASSUME NEW a \in Known, NEW next \in GMs \cup {NoUser}
  PROVE  /\ Resolve(a, next) \in Known
         /\ Resolve(a, next).epoch >= a.epoch
         /\ a.id \notin {NoUser, Resolve(a, next).id}
              => Resolve(a, next).epoch > a.epoch
<1>. a \in States /\ a.epoch \in Nat /\ (a.initialized \/ a.id = NoUser)
  BY DEF Known, States
<1>. next \in Users \cup {NoUser}
  BY UserAssumption
<1>1. CASE ~a.initialized
  <2>1. Resolve(a, next) = [id |-> next, epoch |-> a.epoch, initialized |-> TRUE]
    BY <1>1 DEF Resolve, States
  <2>. QED
    BY <1>1, <2>1 DEF Known, States
<1>2. CASE a.initialized /\ next \in {NoUser, a.id}
  <2>1. Resolve(a, next) = a
    BY <1>2 DEF Resolve
  <2>. QED
    BY <2>1 DEF Known, States
<1>3. CASE a.initialized /\ next \notin {NoUser, a.id} /\ a.id = NoUser
  <2>1. Resolve(a, next) = [id |-> next, epoch |-> a.epoch, initialized |-> TRUE]
    BY <1>3 DEF Resolve, States
  <2>. QED
    BY <1>3, <2>1 DEF Known, States
<1>4. CASE a.initialized /\ next \notin {NoUser, a.id} /\ a.id # NoUser
  <2>1. Resolve(a, next) =
          [id |-> next, epoch |-> a.epoch + 1, initialized |-> TRUE]
    BY <1>4 DEF Resolve, States
  <2>. QED
    BY <1>4, <2>1 DEF Known, States
<1>. QED
  BY <1>1, <1>2, <1>3, <1>4

(***************************************************************************)
(* synchronizeState adopts a newer state, or one that names somebody where *)
(* nobody was known.                                                       *)
(***************************************************************************)
LEMMA SynchronizeKnown ==
  ASSUME NEW a \in Known, NEW s \in Known
  PROVE  /\ Synchronize(a, s) \in Known
         /\ Synchronize(a, s).epoch >= a.epoch
         /\ a.id \notin {NoUser, Synchronize(a, s).id}
              => Synchronize(a, s).epoch > a.epoch
BY DEF Synchronize, Conflict, Known, States

(***************************************************************************)
(* A new world, or one that has had an authority, satisfies the invariant. *)
(***************************************************************************)
LEMMA InvInit == Init => AuthorityInv
<1>. SUFFICES ASSUME Init PROVE AuthorityInv
  OBVIOUS
<1>1. Fresh \in Known
  BY DEF Fresh, Known, States
<1>2. setting \in Known
  <2>1. CASE setting = Fresh
    BY <1>1, <2>1
  <2>2. CASE setting \in [id : GMs, epoch : {0}, initialized : {TRUE}]
    <3>0. GMs \subseteq Users
      BY UserAssumption
    <3>1. PICK g \in GMs :
            setting = [id |-> g, epoch |-> 0, initialized |-> TRUE]
      BY <2>2
    <3>. QED
      BY <3>0, <3>1 DEF Known, States
  <2>. QED
    BY <2>1, <2>2 DEF Init
<1>3. Typed
  BY <1>1, <1>2 DEF Init, Typed, TypeOK, Known, Copies, None
<1>4. Mail
  BY DEF Init, Mail
<1>5. InSession /\ ScanCovers /\ BarrierHolds
  BY DEF Init, InSession, ScanCovers, BarrierHolds, Fresh
<1>. QED
  BY <1>3, <1>4, <1>5 DEF AuthorityInv

(***************************************************************************)
(* A message that everyone it is sent to may hear leaves the mail typed.   *)
(***************************************************************************)
LEMMA BroadcastMail ==
  ASSUME Mail, NEW S, NEW m, \A v \in Users : v \in S => m \in Heard(v),
         inbox' = Broadcast(S, m)
  PROVE  Mail'
<1>1. inbox' = [v \in Users |-> IF v \in S THEN Append(inbox[v], m) ELSE inbox[v]]
  BY DEF Broadcast
<1>2. ASSUME NEW v \in Users
      PROVE  inbox'[v] \in Seq(Heard(v))
  <2>1. inbox[v] \in Seq(Heard(v))
    BY DEF Mail
  <2>2. CASE v \in S
    <3>1. m \in Heard(v)
      BY <2>2
    <3>2. Append(inbox[v], m) \in Seq(Heard(v))
      BY <2>1, <3>1, AppendProperties
    <3>. QED
      BY <1>1, <2>2, <3>2
  <2>3. CASE v \notin S
    BY <1>1, <2>1, <2>3
  <2>. QED
    BY <2>2, <2>3
<1>. QED
  BY <1>1, <1>2 DEF Mail

Stages == {"offline", "loading", "opening", "settling", "open", "failed"}

(***************************************************************************)
(* What a transition that has reconciled does to the barrier and to the    *)
(* start-up, for the state a and the w transitions that wait.              *)
(***************************************************************************)
LEMMA AfterReconcileTypes ==
  ASSUME TypeOK, NEW u \in Users, NEW a \in Known, NEW w \in Nat,
         AfterReconcile(u, a, w)
  PROVE  /\ enabled' \in [Users -> BOOLEAN] /\ scanned' \in [Users -> SUBSET Nat]
         /\ fences' \in [Users -> SUBSET Txs]
         /\ phase' \in [Users -> {"idle", "writing", "written", "scanning"}]
         /\ due' \in [Users -> Nat] /\ stage' \in [Users -> Stages]
<1>1. a.epoch \in Nat
  BY DEF Known, States
<1>2. CASE IsCurrentUser(u, a, local[u].view)
  <2>1. /\ phase' = [phase EXCEPT ![u] = "scanning"]
        /\ scanned' = [scanned EXCEPT ![u] = {a.epoch}]
        /\ fences' = [fences EXCEPT ![u] = @ \cup store[u]]
        /\ enabled' = [enabled EXCEPT ![u] = FALSE]
        /\ UNCHANGED <<stage, due>>
    BY <1>2 DEF AfterReconcile
  <2>. QED
    BY <1>1, <2>1 DEF TypeOK, Stages
<1>3. CASE ~IsCurrentUser(u, a, local[u].view)
  <2>1. EndTransition(u, w, TRUE) /\ Awaited(u, w) /\ UNCHANGED <<scanned, fences>>
    BY <1>3 DEF AfterReconcile
  <2>2. /\ phase' \in [Users -> {"idle", "writing", "written", "scanning"}]
        /\ enabled' \in [Users -> BOOLEAN]
    BY <2>1 DEF EndTransition, TypeOK
  <2>3. due' \in [Users -> Nat] /\ stage' \in [Users -> Stages]
    BY <2>1 DEF Awaited, TypeOK, Stages
  <2>. QED
    BY <2>1, <2>2, <2>3 DEF TypeOK
<1>. QED
  BY <1>2, <1>3

(***************************************************************************)
(* A new preference only adds a message every client may hear.             *)
(***************************************************************************)
LEMMA SetPreferredKeeps ==
  ASSUME AuthorityInv, NEW p \in GMs \cup {NoUser}, SetPreferred(p)
  PROVE  AuthorityInv'
<1>1. Typed'
  BY DEF AuthorityInv, SetPreferred, Typed, TypeOK, startup, barrier, txs
<1>2. Mail'
  <2>1. [kind |-> "preferred", user |-> p] \in Preferences
    BY DEF Preferences
  <2>. QED
    BY <2>1, BroadcastMail DEF AuthorityInv, SetPreferred, Heard
<1>3. InSession'
  BY DEF AuthorityInv, SetPreferred, InSession, startup, barrier, txs
<1>4. ScanCovers'
  BY DEF AuthorityInv, SetPreferred, ScanCovers, barrier, txs
<1>5. BarrierHolds'
  BY DEF AuthorityInv, SetPreferred, BarrierHolds, Elected, barrier, txs
<1>. QED
  BY <1>1, <1>2, <1>3, <1>4, <1>5 DEF AuthorityInv

(***************************************************************************)
(* The server stores a written state, one that occurs, and tells           *)
(* everybody.                                                              *)
(***************************************************************************)
LEMMA ServerWritesKeeps ==
  ASSUME AuthorityInv, NEW u \in Users, ServerWrites(u)
  PROVE  AuthorityInv'
<1>1. Typed'
  BY DEF AuthorityInv, ServerWrites, Typed, TypeOK, startup, barrier, txs, None, Fresh,
     Known, States
<1>2. Mail'
  <2>1. pending[u] \in Known
    BY DEF AuthorityInv, Typed
  <2>2. [kind |-> "state", state |-> pending[u], by |-> u] \in Updates
    BY <2>1 DEF Updates
  <2>. QED
    BY <2>2, BroadcastMail DEF AuthorityInv, ServerWrites, Heard
<1>3. InSession'
  BY DEF AuthorityInv, ServerWrites, InSession, startup, barrier, txs
<1>4. ScanCovers'
  BY DEF AuthorityInv, ServerWrites, ScanCovers, barrier, txs
<1>5. BarrierHolds'
  BY DEF AuthorityInv, ServerWrites, BarrierHolds, Elected, barrier, txs
<1>. QED
  BY <1>1, <1>2, <1>3, <1>4, <1>5 DEF AuthorityInv

(***************************************************************************)
(* A transaction that begins is in the store and running: nothing new to   *)
(* fence.                                                                  *)
(***************************************************************************)
LEMMA BeginKeeps ==
  ASSUME AuthorityInv, NEW u \in Users, NEW t \in Txs, Begin(u, t)
  PROVE  AuthorityInv'
<1>1. Typed'
  BY DEF AuthorityInv, Begin, Typed, TypeOK, server, startup, barrier
<1>2. Mail'
  BY DEF AuthorityInv, Begin, Mail
<1>3. InSession'
  BY DEF AuthorityInv, Begin, InSession, server, startup, barrier
<1>4. ScanCovers'
  BY DEF AuthorityInv, Typed, TypeOK, Begin, ScanCovers, barrier
<1>5. BarrierHolds'
  BY DEF AuthorityInv, Typed, TypeOK, Begin, BarrierHolds, Elected, barrier
<1>. QED
  BY <1>1, <1>2, <1>3, <1>4, <1>5 DEF AuthorityInv

(***************************************************************************)
(* A transaction that ends leaves the store, the fences and those running  *)
(* together.                                                               *)
(***************************************************************************)
LEMMA EndKeeps ==
  ASSUME AuthorityInv, NEW u \in Users, NEW t \in Txs, End(u, t)
  PROVE  AuthorityInv'
<1>1. Typed'
  BY DEF AuthorityInv, End, Typed, TypeOK, server, startup
<1>2. Mail'
  BY DEF AuthorityInv, End, Mail
<1>3. InSession'
  BY DEF AuthorityInv, End, InSession, server, startup
<1>4. ScanCovers'
  BY DEF AuthorityInv, Typed, TypeOK, End, ScanCovers
<1>5. BarrierHolds'
  BY DEF AuthorityInv, Typed, TypeOK, End, BarrierHolds, Elected
<1>. QED
  BY <1>1, <1>2, <1>3, <1>4, <1>5 DEF AuthorityInv

(***************************************************************************)
(* The runtime is composed with mutations off, and a client that just      *)
(* loaded runs no transaction.                                             *)
(***************************************************************************)
LEMMA ReadyKeeps ==
  ASSUME AuthorityInv, NEW u \in Users, Ready(u)
  PROVE  AuthorityInv'
<1>1. Typed'
  <2>1. local[u].saved \in Known
    BY DEF AuthorityInv, Typed, Copies
  <2>2. Known \subseteq States
    BY DEF Known
  <2>3. authority' \in [Users -> Known] /\ authority' \in [Users -> States]
    BY <2>1, <2>2 DEF AuthorityInv, Ready, Typed
  <2>4. stage' \in [Users -> {"offline", "loading", "opening", "settling", "open", "failed"}]
    BY DEF AuthorityInv, Ready, Typed, TypeOK
  <2>5. /\ due' \in [Users -> Nat] /\ waiting' \in [Users -> Nat]
        /\ store' \in [Users -> SUBSET Txs]
        /\ \A v \in Users : running'[v] \subseteq store'[v]
    BY DEF AuthorityInv, InSession, Ready, Typed, TypeOK
  <2>. QED
    BY <2>3, <2>5 DEF AuthorityInv, Ready, Typed, TypeOK, server
<1>2. Mail'
  BY DEF AuthorityInv, Ready, Mail
<1>3. InSession'
  BY DEF AuthorityInv, Typed, TypeOK, Ready, InSession, server
<1>4. ScanCovers'
  BY DEF AuthorityInv, Typed, TypeOK, Ready, ScanCovers, InSession
<1>5. BarrierHolds'
  BY DEF AuthorityInv, Typed, TypeOK, Ready, BarrierHolds, InSession, Elected
<1>. QED
  BY <1>1, <1>2, <1>3, <1>4, <1>5 DEF AuthorityInv

(***************************************************************************)
(* A page that loads knows itself among the users, and is not told that    *)
(* it came.                                                                *)
(***************************************************************************)
LEMMA ConnectKeeps ==
  ASSUME AuthorityInv, NEW u \in Users, Connect(u)
  PROVE  AuthorityInv'
<1>1. Typed'
  BY DEF AuthorityInv, Connect, Typed, TypeOK, Copies, barrier, txs
<1>2. Mail'
  <2>1. u \notin online
    BY DEF AuthorityInv, Connect, InSession
  <2>2. \A v \in Users : v \in online =>
          [kind |-> "presence", user |-> u, active |-> TRUE] \in Heard(v)
    BY <2>1 DEF Heard, Presences
  <2>. QED
    BY <2>2, BroadcastMail DEF AuthorityInv, Connect
<1>3. InSession'
  BY DEF AuthorityInv, Typed, TypeOK, Connect, InSession, barrier, txs
<1>4. ScanCovers'
  BY DEF AuthorityInv, Connect, ScanCovers, barrier, txs
<1>5. BarrierHolds'
  BY DEF AuthorityInv, Connect, BarrierHolds, InSession, Elected, barrier, txs
<1>. QED
  BY <1>1, <1>2, <1>3, <1>4, <1>5 DEF AuthorityInv

(***************************************************************************)
(* A page that closes loses its memory; the others hear of it, and of a    *)
(* write that landed.                                                      *)
(***************************************************************************)
LEMMA LeaveKeeps ==
  ASSUME AuthorityInv, NEW u \in Users, Leave(u)
  PROVE  AuthorityInv'
<1>1. Typed'
  BY SMTT(20) DEF AuthorityInv, Leave, Typed, TypeOK, Copies, server, startup, barrier, txs,
     bounds, Fresh, None, Known, States
<1>2. Mail'
  <2>1. u \in online /\ pending[u] \in Known
    BY DEF AuthorityInv, Leave, InSession, Typed
  <2>2. PICK lands \in BOOLEAN :
          LET news == (IF lands THEN <<[kind |-> "state", state |-> pending[u], by |-> u]>>
                       ELSE <<>>)
                      \o <<[kind |-> "presence", user |-> u, active |-> FALSE]>>
          IN  inbox' = [v \in Users |-> IF v = u THEN <<>>
                                        ELSE IF v \in online' THEN inbox[v] \o news
                                        ELSE inbox[v]]
    BY DEF Leave
  <2>. DEFINE first == IF lands THEN <<[kind |-> "state", state |-> pending[u], by |-> u]>>
                       ELSE <<>>
              second == <<[kind |-> "presence", user |-> u, active |-> FALSE]>>
  <2>3. inbox' = [v \in Users |-> IF v = u THEN <<>>
                                 ELSE IF v \in online' THEN inbox[v] \o (first \o second)
                                 ELSE inbox[v]]
    BY <2>2
  <2>4. ASSUME NEW v \in Users, v # u
        PROVE  inbox[v] \o (first \o second) \in Seq(Heard(v))
    <3>1. [kind |-> "state", state |-> pending[u], by |-> u] \in Heard(v)
      BY <2>1 DEF Heard, Updates
    <3>2. first \in Seq(Heard(v))
      BY <3>1
    <3>3. [kind |-> "presence", user |-> u, active |-> FALSE] \in Heard(v)
      BY <2>4 DEF Heard, Presences
    <3>4. second \in Seq(Heard(v))
      BY <3>3
    <3>. HIDE DEF first, second
    <3>5. inbox[v] \in Seq(Heard(v))
      BY DEF AuthorityInv, Mail
    <3>. QED
      BY <3>2, <3>4, <3>5, ConcatProperties
  <2>. HIDE DEF first, second
  <2>5. ASSUME NEW v \in Users
        PROVE  inbox'[v] \in Seq(Heard(v))
    <3>1. CASE v = u
      BY <2>3, <3>1
    <3>2. CASE v # u
      <4>1. inbox[v] \in Seq(Heard(v))
        BY DEF AuthorityInv, Mail
      <4>. QED
        BY <2>3, <2>4, <3>2, <4>1
    <3>. QED
      BY <3>1, <3>2
  <2>. QED
    BY <2>3, <2>5 DEF Mail
<1>3. InSession'
  BY DEF AuthorityInv, Typed, TypeOK, Leave, InSession, Fresh
<1>4. ScanCovers'
  BY DEF AuthorityInv, Typed, TypeOK, Leave, ScanCovers
<1>5. BarrierHolds'
  BY DEF AuthorityInv, Typed, TypeOK, Copies, Leave, BarrierHolds, ScanCovers, InSession,
     Elected, IsCurrentUser, server, startup, barrier, txs, bounds, Fresh, None, Known,
     States
<1>. QED
  BY <1>1, <1>2, <1>3, <1>4, <1>5 DEF AuthorityInv

(***************************************************************************)
(* A failed write ends the transition with mutations off.                  *)
(***************************************************************************)
LEMMA WriteFailsKeeps ==
  ASSUME AuthorityInv, NEW u \in Users, WriteFails(u)
  PROVE  AuthorityInv'
<1>1. Typed'
  <2>1. Fresh \in Known
    BY DEF Fresh, Known, States
  <2>2. Known \subseteq States
    BY DEF Known
  <2>3. pending' \in [Users -> Known] /\ pending' \in [Users -> States]
    BY <2>1, <2>2 DEF AuthorityInv, WriteFails, Typed, None
  <2>4. /\ due' \in [Users -> Nat]
        /\ stage' \in [Users -> {"offline", "loading", "opening", "settling", "open", "failed"}]
    BY DEF AuthorityInv, WriteFails, Awaited, Typed, TypeOK
  <2>. QED
    BY <2>3, <2>4 DEF AuthorityInv, WriteFails, EndTransition, Typed, TypeOK, server,
       txs
<1>2. Mail'
  BY DEF AuthorityInv, WriteFails, Mail
<1>3. InSession'
  BY DEF AuthorityInv, WriteFails, InSession, server, txs, EndTransition, Awaited
<1>4. ScanCovers'
  BY DEF AuthorityInv, WriteFails, ScanCovers, txs, EndTransition
<1>5. BarrierHolds'
  BY DEF AuthorityInv, WriteFails, BarrierHolds, Elected, txs, EndTransition
<1>. QED
  BY <1>1, <1>2, <1>3, <1>4, <1>5 DEF AuthorityInv

(***************************************************************************)
(* A scan that ends enables mutations only when nothing waits, so          *)
(* ScanCovers gives the barrier.                                           *)
(***************************************************************************)
LEMMA ScanEndsKeeps ==
  ASSUME AuthorityInv, NEW u \in Users, ScanEnds(u)
  PROVE  AuthorityInv'
<1>1. Typed'
  <2>1. waiting[u] \in Nat /\ enabled' \in [Users -> BOOLEAN]
    BY DEF AuthorityInv, ScanEnds, EndTransition, Typed, TypeOK
  <2>2. /\ due' \in [Users -> Nat]
        /\ stage' \in [Users -> {"offline", "loading", "opening", "settling", "open", "failed"}]
    BY DEF AuthorityInv, ScanEnds, Awaited, Typed, TypeOK
  <2>. QED
    BY <2>2 DEF AuthorityInv, ScanEnds, EndTransition, Typed, TypeOK, server, txs
<1>2. Mail'
  BY DEF AuthorityInv, ScanEnds, Mail
<1>3. InSession'
  BY DEF AuthorityInv, ScanEnds, InSession, server, txs, EndTransition, Awaited
<1>4. ScanCovers'
  BY DEF AuthorityInv, ScanEnds, ScanCovers, txs, EndTransition
<1>5. BarrierHolds'
  BY DEF AuthorityInv, Typed, TypeOK, ScanEnds, BarrierHolds, ScanCovers, Elected, txs,
     EndTransition
<1>. QED
  BY <1>1, <1>2, <1>3, <1>4, <1>5 DEF AuthorityInv

(***************************************************************************)
(* After the acknowledged write the transition scans, or ends on a client  *)
(* that is not elected.                                                    *)
(***************************************************************************)
LEMMA WrittenKeeps ==
  ASSUME AuthorityInv, NEW u \in Users, Written(u)
  PROVE  AuthorityInv'
<1>1. Typed'
  <2>1. waiting[u] \in Nat /\ authority[u].epoch \in Nat
    BY DEF AuthorityInv, Typed, TypeOK, States
  <2>2. authority[u] \in Known
    BY DEF AuthorityInv, Typed
  <2>3. AfterReconcile(u, authority[u], waiting[u])
    BY DEF Written
  <2>. QED
    BY AfterReconcileTypes DEF AuthorityInv, Written, Stages, Typed, TypeOK, server, txs
<1>2. Mail'
  BY DEF AuthorityInv, Written, Mail
<1>3. InSession'
  BY DEF AuthorityInv, Typed, TypeOK, Written, InSession, server, txs, AfterReconcile,
     EndTransition, Awaited
<1>4. ScanCovers'
  BY DEF AuthorityInv, Typed, TypeOK, Written, ScanCovers, txs, AfterReconcile,
     EndTransition
<1>5. BarrierHolds'
  BY DEF AuthorityInv, Typed, TypeOK, Written, BarrierHolds, ScanCovers, InSession,
     Elected, txs, AfterReconcile, EndTransition, Awaited
<1>. QED
  BY <1>1, <1>2, <1>3, <1>4, <1>5 DEF AuthorityInv

(***************************************************************************)
(* A transition that takes the lock elects, then writes, scans or ends;    *)
(* an election that changed the identity of a subscribed service leaves    *)
(* another transition waiting.                                             *)
(***************************************************************************)
LEMMA ReconcileKeeps ==
  ASSUME AuthorityInv, NEW u \in Users, Reconcile(u)
  PROVE  AuthorityInv'
<1>. DEFINE next == Elect(local[u].view, local[u].pref)
            a == Resolve(authority[u], next)
            w == IF Notifies(authority[u], next) /\ Subscribed(u)
                 THEN waiting[u] ELSE waiting[u] - 1
<1>1. a \in Known
  <2>1. local[u].view \in SUBSET Users /\ local[u].pref \in GMs \cup {NoUser}
    BY DEF AuthorityInv, Typed, Copies
  <2>2. next \in GMs \cup {NoUser}
    BY <2>1, ElectType
  <2>3. authority[u] \in Known
    BY DEF AuthorityInv, Typed
  <2>. QED
    BY <2>2, <2>3, ResolveKnown
<1>2. w \in Nat
  BY DEF AuthorityInv, Typed, TypeOK, Reconcile
<1>3. /\ phase[u] = "idle" /\ waiting[u] > 0 /\ Composed(u)
      /\ authority' = [authority EXCEPT ![u] = a]
      /\ waiting' = [waiting EXCEPT ![u] = w]
      /\ missed' = [missed EXCEPT ![u] = FALSE]
      /\ UNCHANGED <<server, inbox, local, txs, bounds>>
  BY DEF Reconcile
<1>4. \/ /\ pending' = [pending EXCEPT ![u] = a]
         /\ phase' = [phase EXCEPT ![u] = "writing"]
         /\ enabled' = [enabled EXCEPT ![u] = FALSE]
         /\ UNCHANGED <<stage, due, scanned, fences>>
      \/ AfterReconcile(u, a, w) /\ UNCHANGED pending
  BY DEF Reconcile
<1>. HIDE DEF a, w
<1>5. Typed'
  <2>1. Known \subseteq States
    BY DEF Known
  <2>2. /\ enabled' \in [Users -> BOOLEAN] /\ scanned' \in [Users -> SUBSET Nat]
        /\ fences' \in [Users -> SUBSET Txs]
        /\ phase' \in [Users -> {"idle", "writing", "written", "scanning"}]
        /\ due' \in [Users -> Nat] /\ stage' \in [Users -> Stages]
        /\ pending' \in [Users -> Known]
    <3>1. CASE AfterReconcile(u, a, w) /\ UNCHANGED pending
      BY <1>1, <1>2, <3>1, AfterReconcileTypes DEF AuthorityInv, Typed
    <3>2. CASE /\ pending' = [pending EXCEPT ![u] = a]
               /\ phase' = [phase EXCEPT ![u] = "writing"]
               /\ enabled' = [enabled EXCEPT ![u] = FALSE]
               /\ UNCHANGED <<stage, due, scanned, fences>>
      BY <1>1, <3>2 DEF AuthorityInv, Typed, TypeOK, Stages
    <3>. QED
      BY <1>4, <3>1, <3>2
  <2>3. /\ authority' \in [Users -> Known] /\ authority' \in [Users -> States]
        /\ waiting' \in [Users -> Nat] /\ pending' \in [Users -> States]
        /\ missed' \in [Users -> BOOLEAN]
    BY <1>1, <1>2, <1>3, <2>1, <2>2 DEF AuthorityInv, Typed, TypeOK
  <2>. QED
    BY <1>3, <2>2, <2>3 DEF AuthorityInv, Typed, TypeOK, Stages, server, txs
<1>6. Mail'
  BY <1>3 DEF AuthorityInv, Mail
<1>7. InSession'
  BY <1>3, <1>4 DEF AuthorityInv, Typed, TypeOK, InSession, AfterReconcile, EndTransition,
     Awaited, Composed, server, txs
<1>8. ScanCovers'
  BY <1>3, <1>4 DEF AuthorityInv, Typed, TypeOK, ScanCovers, AfterReconcile,
     EndTransition, txs
<1>9. BarrierHolds'
  BY <1>3, <1>4 DEF AuthorityInv, Typed, TypeOK, BarrierHolds, Elected, AfterReconcile,
     EndTransition, txs
<1>. QED
  BY <1>5, <1>6, <1>7, <1>8, <1>9 DEF AuthorityInv

(***************************************************************************)
(* A transition asked for is counted and turns mutations off.              *)
(***************************************************************************)
LEMMA AskTypes ==
  ASSUME TypeOK, NEW u \in Users, AskTransition(u)
  PROVE  waiting' \in [Users -> Nat] /\ enabled' \in [Users -> BOOLEAN]
<1>1. waiting' \in [Users -> Nat]
  <2>1. waiting[u] + 1 \in Nat
    BY DEF TypeOK
  <2>. QED
    BY <2>1 DEF AskTransition, TypeOK
<1>2. enabled' \in [Users -> BOOLEAN]
  BY DEF AskTransition, TypeOK
<1>. QED
  BY <1>1, <1>2

(***************************************************************************)
(* An update of users, preference or state: the client that has something  *)
(* to do asks for a transition, so the barrier need not hold; the one not  *)
(* listening yet cannot become elected, for it is not told of itself.      *)
(***************************************************************************)
LEMMA DeliverKeeps ==
  ASSUME AuthorityInv, NEW u \in Users, Deliver(u)
  PROVE  AuthorityInv'
<1>. DEFINE m == Head(inbox[u])
<1>1. /\ m \in Heard(u) /\ Tail(inbox[u]) \in Seq(Heard(u))
      /\ inbox[u] # <<>> /\ stage[u] # "offline"
  BY HeadTailProperties DEF AuthorityInv, Mail, Deliver
<1>2. /\ HearPresence(u, m) \/ HearPreferred(u, m) \/ HearState(u, m)
      /\ inbox' = [inbox EXCEPT ![u] = Tail(@)]
      /\ UNCHANGED <<server, pending, stage, due, scanned, fences, txs, bounds>>
  BY DEF Deliver
<1>. HIDE DEF m
<1>3. Mail'
  BY <1>1, <1>2 DEF AuthorityInv, Mail
<1>4. CASE HearPresence(u, m)
  <2>1. m \in Presences(u)
    BY <1>1, <1>4 DEF HearPresence, Heard, Preferences, Updates
  <2>2. m.user \in Users \ {u}
    BY <2>1 DEF Presences
  <2>3. /\ local'[u].view = local[u].view \cup {m.user} \/ local'[u].view = local[u].view \ {m.user}
        /\ local' \in [Users -> Copies]
        /\ \A v \in Users \ {u} : local'[v] = local[v]
    BY <1>4, <2>2 DEF AuthorityInv, Typed, HearPresence, Copies
  <2>4. Typed'
    <3>1. CASE Listening(u)
      <4>1. AskTransition(u) /\ UNCHANGED <<missed, authority, phase>>
        BY <1>4, <3>1 DEF HearPresence
      <4>2. waiting' \in [Users -> Nat] /\ enabled' \in [Users -> BOOLEAN]
        BY <4>1, AskTypes DEF AuthorityInv, Typed
      <4>. QED
        BY <1>2, <2>3, <4>1, <4>2 DEF AuthorityInv, Typed, TypeOK, server, txs
    <3>2. CASE ~Listening(u)
      <4>1. missed' \in [Users -> BOOLEAN]
        <5>1. Composed(u) \in BOOLEAN
          BY DEF Composed
        <5>2. missed' = [missed EXCEPT ![u] = Composed(u)]
          BY <1>4, <3>2 DEF HearPresence
        <5>. QED
          BY <5>1, <5>2 DEF AuthorityInv, Typed, TypeOK
      <4>. QED
        BY <1>2, <1>4, <2>3, <3>2, <4>1 DEF AuthorityInv, Typed, TypeOK,
           HearPresence, server, txs
    <3>. QED
      BY <3>1, <3>2
  <2>5. InSession'
    BY <1>2, <1>4, <2>2 DEF AuthorityInv, Typed, TypeOK, InSession, HearPresence,
       AskTransition, server, txs
  <2>6. ScanCovers'
    BY <1>2, <1>4 DEF AuthorityInv, Typed, TypeOK, ScanCovers, HearPresence,
       AskTransition, txs
  <2>7. BarrierHolds'
    BY <1>2, <1>4, <2>2 DEF AuthorityInv, Typed, TypeOK, BarrierHolds, Elected,
       IsCurrentUser, HearPresence, AskTransition, txs
  <2>. QED
    BY <1>3, <2>4, <2>5, <2>6, <2>7 DEF AuthorityInv
<1>5. CASE HearPreferred(u, m)
  <2>1. m \in Preferences
    BY <1>1, <1>5 DEF HearPreferred, Heard, Presences, Updates
  <2>2. /\ local'[u].view = local[u].view
        /\ local' \in [Users -> Copies]
        /\ \A v \in Users \ {u} : local'[v] = local[v]
    BY SMTT(20), <1>5, <2>1 DEF AuthorityInv, Typed, HearPreferred, Copies, Preferences
  <2>4. Typed'
    <3>1. waiting' \in [Users -> Nat] /\ enabled' \in [Users -> BOOLEAN]
      <4>1. AskTransition(u) \/ UNCHANGED <<waiting, enabled>>
        BY <1>5 DEF HearPreferred
      <4>. QED
        BY <4>1, AskTypes DEF AuthorityInv, Typed, TypeOK
    <3>. QED
      BY <1>2, <1>5, <2>2, <3>1 DEF AuthorityInv, Typed, TypeOK, HearPreferred,
         server, txs
  <2>5. InSession'
    BY <1>2, <1>5 DEF AuthorityInv, Typed, TypeOK, InSession, HearPreferred,
       AskTransition, server, txs
  <2>6. ScanCovers'
    BY <1>2, <1>5 DEF AuthorityInv, Typed, TypeOK, ScanCovers, HearPreferred,
       AskTransition, txs
  <2>7. BarrierHolds'
    BY <1>2, <1>5 DEF AuthorityInv, Typed, TypeOK, BarrierHolds, Elected, HearPreferred,
       AskTransition, txs
  <2>. QED
    BY <1>3, <2>4, <2>5, <2>6, <2>7 DEF AuthorityInv
<1>6. CASE HearState(u, m)
  <2>1. m \in Updates
    BY <1>1, <1>6 DEF HearState, Heard, Presences, Preferences
  <2>2. /\ local'[u].view = local[u].view
        /\ local' \in [Users -> Copies]
        /\ \A v \in Users \ {u} : local'[v] = local[v]
    <3>1. m.state \in Known /\ local' = [local EXCEPT ![u].saved = m.state]
      BY <1>6, <2>1 DEF HearState, Updates
    <3>. QED
      BY <3>1 DEF AuthorityInv, Typed, Copies
  <2>3. Synchronize(authority[u], m.state) \in Known
    BY <2>1, SynchronizeKnown DEF AuthorityInv, Typed, Updates
  <2>4. Typed'
    <3>1. Known \subseteq States
      BY DEF Known
    <3>2. authority' \in [Users -> Known] /\ authority' \in [Users -> States]
      BY <1>6, <2>3, <3>1 DEF AuthorityInv, Typed, HearState
    <3>3. phase' \in [Users -> {"idle", "writing", "written", "scanning"}]
      BY <1>6 DEF AuthorityInv, Typed, TypeOK, HearState
    <3>4. waiting' \in [Users -> Nat] /\ enabled' \in [Users -> BOOLEAN]
      <4>1. AskTransition(u) \/ UNCHANGED <<waiting, enabled>>
        BY <1>6 DEF HearState
      <4>. QED
        BY <4>1, AskTypes DEF AuthorityInv, Typed, TypeOK
    <3>. QED
      BY <1>2, <1>6, <2>2, <3>2, <3>4 DEF AuthorityInv, Typed, TypeOK, HearState,
         server, txs
  <2>5. InSession'
    BY <1>2, <1>6 DEF AuthorityInv, Typed, TypeOK, InSession, HearState, AskTransition,
       Composed, server, txs
  <2>6. ScanCovers'
    BY <1>2, <1>6 DEF AuthorityInv, Typed, TypeOK, ScanCovers, HearState, AskTransition,
       txs
  <2>7. BarrierHolds'
    BY <1>2, <1>6 DEF AuthorityInv, Typed, TypeOK, BarrierHolds, Elected, HearState,
       AskTransition, txs
  <2>. QED
    BY <1>3, <2>4, <2>5, <2>6, <2>7 DEF AuthorityInv
<1>. QED
  BY <1>2, <1>4, <1>5, <1>6


(***************************************************************************)
(* Every step keeps the invariant.                                         *)
(***************************************************************************)
LEMMA NextKeeps ==
  ASSUME AuthorityInv, [Next]_vars
  PROVE  AuthorityInv'
<1>1. CASE UNCHANGED vars
  <2>1. UNCHANGED <<online, preferred, setting, record, inbox, pending, local, stage,
          due, authority, phase, waiting, enabled, scanned, store, fences, running,
          begun, done, missed>>
    BY <1>1 DEF vars, server, startup, barrier, txs
  <2>2. Typed' /\ Mail' /\ InSession'
    BY <2>1 DEF AuthorityInv, Typed, TypeOK, Mail, InSession
  <2>3. ScanCovers' /\ BarrierHolds'
    BY <2>1 DEF AuthorityInv, ScanCovers, BarrierHolds, Elected
  <2>. QED
    BY <2>2, <2>3 DEF AuthorityInv
<1>2. ASSUME NEW u \in Users,
             \/ Connect(u) \/ Ready(u) \/ Leave(u) \/ Deliver(u) \/ Reconcile(u)
             \/ Written(u) \/ WriteFails(u) \/ ScanEnds(u) \/ ServerWrites(u)
      PROVE  AuthorityInv'
  BY <1>2, ConnectKeeps, ReadyKeeps, LeaveKeeps, DeliverKeeps, ReconcileKeeps,
     WrittenKeeps, WriteFailsKeeps, ScanEndsKeeps, ServerWritesKeeps
<1>3. ASSUME NEW u \in Users, NEW t \in Txs, Begin(u, t) \/ End(u, t)
      PROVE  AuthorityInv'
  BY <1>3, BeginKeeps, EndKeeps
<1>4. ASSUME NEW p \in GMs \cup {NoUser}, SetPreferred(p)
      PROVE  AuthorityInv'
  BY <1>4, SetPreferredKeeps
<1>. QED
  BY <1>1, <1>2, <1>3, <1>4 DEF Next

(***************************************************************************)
(* Only election (reconcile), a received state (synchronizeState), the     *)
(* composition at `ready` and a page that closes touch the identity and    *)
(* epoch of a client: the first two go forward, the third starts from      *)
(* nothing, the last is out of the session.                                *)
(***************************************************************************)
LEMMA StepAdvances ==
  ASSUME AuthorityInv, [Next]_vars
  PROVE  \A u \in Users : stage[u] # "offline" /\ stage'[u] # "offline" =>
           /\ authority'[u].epoch >= authority[u].epoch
           /\ authority[u].id \notin {NoUser, authority'[u].id}
                => authority'[u].epoch > authority[u].epoch
<1>. SUFFICES ASSUME NEW u \in Users, stage[u] # "offline", stage'[u] # "offline"
              PROVE  /\ authority'[u].epoch >= authority[u].epoch
                     /\ authority[u].id \notin {NoUser, authority'[u].id}
                          => authority'[u].epoch > authority[u].epoch
  OBVIOUS
<1>0. /\ authority \in [Users -> Known] /\ authority[u] \in Known
      /\ authority[u].epoch \in Nat
  BY DEF AuthorityInv, Typed, Known, States
<1>1. CASE authority' = authority
  BY <1>0, <1>1
<1>2. ASSUME NEW v \in Users, Ready(v)
      PROVE  authority'[u].epoch >= authority[u].epoch
             /\ (authority[u].id \notin {NoUser, authority'[u].id}
                   => authority'[u].epoch > authority[u].epoch)
  <2>1. authority' = [authority EXCEPT ![v] = local[v].saved] /\ stage[v] = "loading"
    BY <1>2 DEF Ready
  <2>2. CASE u # v
    BY <1>0, <2>1, <2>2
  <2>3. CASE u = v
    <3>1. authority[u].id = NoUser /\ authority[u].epoch = 0
      BY <2>1, <2>3 DEF AuthorityInv, InSession
    <3>2. authority'[u].epoch \in Nat
      BY <2>1 DEF AuthorityInv, Typed, Copies, Known, States
    <3>. QED
      BY <3>1, <3>2
  <2>. QED
    BY <2>2, <2>3
<1>3. ASSUME NEW v \in Users, Leave(v)
      PROVE  authority'[u] = authority[u]
  BY <1>3 DEF Leave, AuthorityInv, Typed, TypeOK
<1>4. ASSUME NEW v \in Users, Reconcile(v)
      PROVE  authority'[u].epoch >= authority[u].epoch
             /\ (authority[u].id \notin {NoUser, authority'[u].id}
                   => authority'[u].epoch > authority[u].epoch)
  <2>. DEFINE next == Elect(local[v].view, local[v].pref)
  <2>1. next \in GMs \cup {NoUser}
    BY ElectType DEF AuthorityInv, Typed, Copies
  <2>2. authority' = [authority EXCEPT ![v] = Resolve(authority[v], next)]
    BY <1>4 DEF Reconcile
  <2>. HIDE DEF next
  <2>3. CASE u # v
    BY <1>0, <2>2, <2>3
  <2>4. CASE u = v
    BY <1>0, <2>1, <2>2, <2>4, ResolveKnown
  <2>. QED
    BY <2>3, <2>4
<1>5. ASSUME NEW v \in Users, Deliver(v)
      PROVE  authority'[u].epoch >= authority[u].epoch
             /\ (authority[u].id \notin {NoUser, authority'[u].id}
                   => authority'[u].epoch > authority[u].epoch)
  <2>. DEFINE m == Head(inbox[v])
  <2>1. m \in Heard(v)
    BY <1>5, HeadTailProperties DEF AuthorityInv, Mail, Deliver
  <2>2. HearPresence(v, m) \/ HearPreferred(v, m) \/ HearState(v, m)
    BY <1>5 DEF Deliver
  <2>. HIDE DEF m
  <2>3. \/ authority' = authority
        \/ /\ m.state \in Known
           /\ authority' = [authority EXCEPT ![v] = Synchronize(@, m.state)]
    BY <2>1, <2>2 DEF HearPresence, HearPreferred, HearState, Heard, Presences,
       Preferences, Updates
  <2>4. CASE authority' = authority
    BY <1>0, <2>4
  <2>5. CASE /\ m.state \in Known
             /\ authority' = [authority EXCEPT ![v] = Synchronize(@, m.state)]
    <3>1. CASE u # v
      BY <1>0, <2>5, <3>1
    <3>2. CASE u = v
      BY <1>0, <2>5, <3>2, SynchronizeKnown
    <3>. QED
      BY <3>1, <3>2
  <2>. QED
    BY <2>3, <2>4, <2>5
<1>6. \/ authority' = authority
      \/ \E v \in Users : Ready(v) \/ Leave(v) \/ Reconcile(v) \/ Deliver(v)
  BY DEF Next, vars, Connect, Written, WriteFails, ScanEnds, ServerWrites, Begin, End,
     SetPreferred
<1>. QED
  BY <1>0, <1>1, <1>2, <1>3, <1>4, <1>5, <1>6

-----------------------------------------------------------------------------
(***************************************************************************)
(* Every reachable state of every world satisfies the invariant.           *)
(***************************************************************************)
THEOREM AuthorityInvariant == Spec => []AuthorityInv
<1>1. Init => AuthorityInv
  BY InvInit
<1>2. AuthorityInv /\ [Next]_vars => AuthorityInv'
  BY NextKeeps
<1>. QED
  BY <1>1, <1>2, PTL DEF Spec

(***************************************************************************)
(* Type correctness, for every set of users, Game Masters and              *)
(* transactions.                                                           *)
(***************************************************************************)
THEOREM TypesHold == Spec => []TypeOK
<1>1. AuthorityInv => TypeOK
  BY DEF AuthorityInv, Typed
<1>. QED
  BY <1>1, AuthorityInvariant, PTL

(***************************************************************************)
(* The barrier of handleAuthorityTransition: mutations are enabled only    *)
(* with no transition running or waiting, and on the elected client only   *)
(* behind a scan of its own epoch that fenced its unresolved               *)
(* transactions.                                                           *)
(***************************************************************************)
THEOREM BarrierAlwaysHolds == Spec => []BarrierHolds
<1>1. AuthorityInv => BarrierHolds
  BY DEF AuthorityInv
<1>. QED
  BY <1>1, AuthorityInvariant, PTL

(***************************************************************************)
(* Within a session the epoch a client knows never falls, and rises        *)
(* whenever it replaces one authority by another, for all interleavings    *)
(* of elections and received states.                                       *)
(***************************************************************************)
THEOREM EpochsAdvance == Spec => EpochAdvances
<1>. DEFINE Advance ==
       \A u \in Users : stage[u] # "offline" /\ stage'[u] # "offline" =>
         /\ authority'[u].epoch >= authority[u].epoch
         /\ authority[u].id \notin {NoUser, authority'[u].id}
              => authority'[u].epoch > authority[u].epoch
<1>1. AuthorityInv /\ [Next]_vars => [Advance]_vars
  BY StepAdvances
<1>2. Spec => [][Advance]_vars
  <2>. HIDE DEF Advance
  <2>. QED
    BY <1>1, AuthorityInvariant, PTL DEF Spec
<1>. QED
  BY <1>2 DEF EpochAdvances
-----------------------------------------------------------------------------
(***************************************************************************)
(* The choice at rest.  A client that has heard everything knows the users *)
(* as they are: what it knows and what is in its inbox together always say *)
(* the truth (Informed).  And a client that owes no transition holds the   *)
(* choice of what it knows (Chosen).                                       *)
(***************************************************************************)

\* The updates that speak of user v, and what they say of it: that it is
\* connected, or that it is not.
PresenceOf(v) == [kind : {"presence"}, user : {v}, active : BOOLEAN]

Says(v) == [m \in PresenceOf(v) |-> IF m.active THEN {v} ELSE {}]

Prefers == [m \in Preferences |-> m.user]

\* Of the matter that the updates T are about, the last of them in the inbox q
\* says what is so `now`; when there is none, what was `known` is so.
Settles(q, T, f, known, now) ==
    /\ (\A i \in 1..Len(q) : q[i] \notin T) => known = now
    /\ \A i \in 1..Len(q) :
          q[i] \in T /\ (\A j \in 1..Len(q) : j > i => q[j] \notin T)
              => f[q[i]] = now

\* The copy c and the inbox q of client u together tell who is connected,
\* `here`, and who is preferred, `pref`.
Tells(u, q, c, here, pref) ==
    /\ \A v \in Users \ {u} :
          Settles(q, PresenceOf(v), Says(v), c.view \cap {v}, here \cap {v})
    /\ Settles(q, Preferences, Prefers, c.pref, pref)

Informed ==
    \A u \in Users :
        /\ stage[u] = "offline" => inbox[u] = <<>>
        /\ stage[u] # "offline" => Tells(u, inbox[u], local[u], online, preferred)

\* A client names the choice of what it knows, unless it owes a transition or
\* missed an update while it started.
Holds(u) == Elect(local[u].view, local[u].pref) \in {NoUser, authority[u].id}

Chosen == \A u \in Users : Subscribed(u) /\ waiting[u] = 0 /\ ~missed[u] => Holds(u)

\* Only a start-up that goes on waits for transitions.
Starting == \A u \in Users : stage[u] \in {"offline", "loading", "failed"} => due[u] = 0

ChoiceInv == Informed /\ Chosen /\ Starting

(***************************************************************************)
(* An update about something else leaves the matter as it is.              *)
(***************************************************************************)
LEMMA SettlesOther ==
  ASSUME NEW S, NEW q \in Seq(S), NEW m \in S, NEW T, NEW f, NEW known, NEW now,
         Settles(q, T, f, known, now), m \notin T
  PROVE  Settles(Append(q, m), T, f, known, now)
<1>. DEFINE r == Append(q, m)
<1>1. /\ Len(q) \in Nat /\ Len(r) = Len(q) + 1 /\ r[Len(q) + 1] = m
      /\ \A i \in 1..Len(q) : r[i] = q[i]
  BY AppendProperties, LenProperties
<1>. HIDE DEF r
<1>2. ASSUME \A i \in 1..Len(r) : r[i] \notin T PROVE known = now
  <2>1. \A i \in 1..Len(q) : q[i] \notin T
    BY <1>1, <1>2
  <2>. QED
    BY <2>1 DEF Settles
<1>3. ASSUME NEW i \in 1..Len(r), r[i] \in T,
             \A j \in 1..Len(r) : j > i => r[j] \notin T
      PROVE  f[r[i]] = now
  <2>1. i \in 1..Len(q)
    BY <1>1, <1>3
  <2>2. \A j \in 1..Len(q) : j > i => q[j] \notin T
    BY <1>1, <1>3
  <2>3. q[i] = r[i]
    BY <1>1, <2>1
  <2>. QED
    BY <1>3, <2>1, <2>2, <2>3 DEF Settles
<1>. QED
  BY <1>2, <1>3 DEF Settles, r

(***************************************************************************)
(* News settles the matter at what it says.                                *)
(***************************************************************************)
LEMMA SettlesNews ==
  ASSUME NEW S, NEW q \in Seq(S), NEW m \in S, NEW T, NEW f, NEW known,
         m \in T
  PROVE  Settles(Append(q, m), T, f, known, f[m])
<1>. DEFINE r == Append(q, m)
<1>1. /\ Len(q) \in Nat /\ Len(r) = Len(q) + 1 /\ r[Len(q) + 1] = m
  BY AppendProperties, LenProperties
<1>. HIDE DEF r
<1>2. ~ \A i \in 1..Len(r) : r[i] \notin T
  BY <1>1
<1>3. ASSUME NEW i \in 1..Len(r), r[i] \in T,
             \A j \in 1..Len(r) : j > i => r[j] \notin T
      PROVE  f[r[i]] = f[m]
  <2>1. i = Len(q) + 1
    BY <1>1, <1>3
  <2>. QED
    BY <1>1, <2>1
<1>. QED
  BY <1>2, <1>3 DEF Settles, r

(***************************************************************************)
(* What is heard becomes known.                                            *)
(***************************************************************************)
LEMMA SettlesHeard ==
  ASSUME NEW S, NEW q \in Seq(S), q # <<>>, NEW T, NEW f, NEW known, NEW now,
         Settles(q, T, f, known, now),
         NEW knows, knows = IF Head(q) \in T THEN f[Head(q)] ELSE known
  PROVE  Settles(Tail(q), T, f, knows, now)
<1>. DEFINE r == Tail(q)
<1>1. /\ Len(q) \in Nat /\ Len(q) > 0 /\ Len(r) = Len(q) - 1 /\ Head(q) = q[1]
      /\ \A i \in 1..Len(r) : r[i] = q[i + 1]
  BY HeadTailProperties, LenProperties, EmptySeq
<1>. HIDE DEF r
<1>2. ASSUME \A i \in 1..Len(r) : r[i] \notin T PROVE knows = now
  <2>1. \A i \in 1..Len(q) : i > 1 => q[i] \notin T
    <3>. SUFFICES ASSUME NEW i \in 1..Len(q), i > 1 PROVE q[i] \notin T
      OBVIOUS
    <3>1. i - 1 \in 1..Len(r) /\ (i - 1) + 1 = i
      BY <1>1
    <3>. QED
      BY <1>1, <1>2, <3>1
  <2>2. 1 \in 1..Len(q)
    BY <1>1
  <2>3. CASE q[1] \in T
    BY <1>1, <2>1, <2>2, <2>3 DEF Settles
  <2>4. CASE q[1] \notin T
    <3>1. \A i \in 1..Len(q) : q[i] \notin T
      BY <1>1, <2>1, <2>4
    <3>. QED
      BY <1>1, <2>4, <3>1 DEF Settles
  <2>. QED
    BY <2>3, <2>4
<1>3. ASSUME NEW i \in 1..Len(r), r[i] \in T,
             \A j \in 1..Len(r) : j > i => r[j] \notin T
      PROVE  f[r[i]] = now
  <2>1. i + 1 \in 1..Len(q) /\ q[i + 1] = r[i]
    BY <1>1, <1>3
  <2>2. ASSUME NEW j \in 1..Len(q), j > i + 1 PROVE q[j] \notin T
    <3>1. j - 1 \in 1..Len(r) /\ j - 1 > i /\ (j - 1) + 1 = j
      BY <1>1, <2>2
    <3>. QED
      BY <1>1, <1>3, <3>1
  <2>. QED
    BY <1>3, <2>1, <2>2 DEF Settles
<1>. QED
  BY <1>2, <1>3 DEF Settles, r

(***************************************************************************)
(* A written state is news of nobody's presence and of no preference.      *)
(***************************************************************************)
LEMMA StateTells ==
  ASSUME NEW u \in Users, NEW q \in Seq(Heard(u)), NEW m \in Updates,
         NEW c, NEW here, NEW pref, Tells(u, q, c, here, pref)
  PROVE  Tells(u, Append(q, m), c, here, pref)
<1>1. m.kind = "state" /\ m \in Heard(u)
  BY DEF Updates, Heard
<1>2. m \notin Preferences
  BY <1>1 DEF Preferences
<1>3. ASSUME NEW v \in Users PROVE m \notin PresenceOf(v)
  BY <1>1 DEF PresenceOf
<1>4. Settles(Append(q, m), Preferences, Prefers, c.pref, pref)
  BY <1>1, <1>2, SettlesOther DEF Tells
<1>5. ASSUME NEW v \in Users \ {u}
      PROVE  Settles(Append(q, m), PresenceOf(v), Says(v), c.view \cap {v}, here \cap {v})
  <2>1. Settles(q, PresenceOf(v), Says(v), c.view \cap {v}, here \cap {v})
    BY DEF Tells
  <2>. QED
    BY <1>1, <1>3, <2>1, SettlesOther
<1>. QED
  BY <1>4, <1>5 DEF Tells

(***************************************************************************)
(* A new preference is told.                                               *)
(***************************************************************************)
LEMMA PreferenceTells ==
  ASSUME NEW u \in Users, NEW q \in Seq(Heard(u)), NEW p \in GMs \cup {NoUser},
         NEW c, NEW here, NEW pref, Tells(u, q, c, here, pref)
  PROVE  Tells(u, Append(q, [kind |-> "preferred", user |-> p]), c, here, p)
<1>. DEFINE m == [kind |-> "preferred", user |-> p]
<1>1. m \in Preferences /\ m \in Heard(u) /\ Prefers[m] = p /\ m.kind = "preferred"
  BY DEF Preferences, Heard, Prefers
<1>. HIDE DEF m
<1>2. Settles(Append(q, m), Preferences, Prefers, c.pref, p)
  <2>1. Settles(Append(q, m), Preferences, Prefers, c.pref, Prefers[m])
    BY <1>1, SettlesNews
  <2>. QED
    BY <1>1, <2>1
<1>3. ASSUME NEW v \in Users \ {u}
      PROVE  Settles(Append(q, m), PresenceOf(v), Says(v), c.view \cap {v}, here \cap {v})
  <2>1. Settles(q, PresenceOf(v), Says(v), c.view \cap {v}, here \cap {v})
    BY DEF Tells
  <2>2. m \notin PresenceOf(v)
    BY <1>1 DEF PresenceOf
  <2>. QED
    BY <1>1, <2>1, <2>2, SettlesOther
<1>. QED
  BY <1>2, <1>3 DEF Tells, m

(***************************************************************************)
(* Somebody else's coming or going is told.                                *)
(***************************************************************************)
LEMMA PresenceTells ==
  ASSUME NEW u \in Users, NEW q \in Seq(Heard(u)), NEW x \in Users \ {u},
         NEW on \in BOOLEAN, NEW c, NEW here, NEW pref, Tells(u, q, c, here, pref),
         NEW now, now = IF on THEN here \cup {x} ELSE here \ {x}
  PROVE  Tells(u, Append(q, [kind |-> "presence", user |-> x, active |-> on]),
               c, now, pref)
<1>. DEFINE m == [kind |-> "presence", user |-> x, active |-> on]
<1>1. /\ m \in PresenceOf(x) /\ m \in Heard(u) /\ m.kind = "presence" /\ m.user = x
      /\ Says(x)[m] = IF on THEN {x} ELSE {}
  BY DEF PresenceOf, Heard, Presences, Says
<1>. HIDE DEF m
<1>2. Settles(Append(q, m), Preferences, Prefers, c.pref, pref)
  <2>1. m \notin Preferences
    BY <1>1 DEF Preferences
  <2>. QED
    BY <1>1, <2>1, SettlesOther DEF Tells
<1>3. ASSUME NEW v \in Users \ {u}
      PROVE  Settles(Append(q, m), PresenceOf(v), Says(v), c.view \cap {v}, now \cap {v})
  <2>1. Settles(q, PresenceOf(v), Says(v), c.view \cap {v}, here \cap {v})
    BY DEF Tells
  <2>2. CASE v = x
    <3>1. Settles(Append(q, m), PresenceOf(v), Says(v), c.view \cap {v}, Says(v)[m])
      BY <1>1, <2>2, SettlesNews
    <3>2. Says(v)[m] = now \cap {v}
      BY <1>1, <2>2
    <3>. QED
      BY <3>1, <3>2
  <2>3. CASE v # x
    <3>1. m \notin PresenceOf(v)
      BY <1>1, <2>3 DEF PresenceOf
    <3>2. Settles(Append(q, m), PresenceOf(v), Says(v), c.view \cap {v}, here \cap {v})
      BY <1>1, <2>1, <3>1, SettlesOther
    <3>3. now \cap {v} = here \cap {v}
      BY <2>3
    <3>. QED
      BY <3>2, <3>3
  <2>. QED
    BY <2>2, <2>3
<1>. QED
  BY <1>2, <1>3 DEF Tells, m

(***************************************************************************)
(* A step after which the users, the preference, the copies and the mail   *)
(* are the same, and the same clients run, leaves everybody as informed.   *)
(***************************************************************************)
LEMMA StillInformed ==
  ASSUME Informed, UNCHANGED <<online, preferred, inbox, local>>,
         \A v \in Users : stage'[v] = "offline" <=> stage[v] = "offline"
  PROVE  Informed'
BY DEF Informed

(***************************************************************************)
(* The users and the preference change by updates that everybody who runs  *)
(* is sent.                                                                *)
(***************************************************************************)
LEMMA ServerInforms ==
  ASSUME AuthorityInv, Informed,
         \/ \E u \in Users : ServerWrites(u)
         \/ \E p \in GMs \cup {NoUser} : SetPreferred(p)
  PROVE  Informed'
<1>1. UNCHANGED <<online, local, stage>>
  BY DEF ServerWrites, SetPreferred, server, startup
<1>2. SUFFICES ASSUME NEW v \in Users
               PROVE  /\ stage[v] = "offline" => inbox'[v] = <<>>
                      /\ stage[v] # "offline" =>
                           Tells(v, inbox'[v], local[v], online, preferred')
  BY <1>1 DEF Informed
<1>3. inbox[v] \in Seq(Heard(v)) /\ (v \in online <=> stage[v] # "offline")
  BY DEF AuthorityInv, Mail, InSession
<1>4. ASSUME NEW u \in Users, ServerWrites(u)
      PROVE  /\ stage[v] = "offline" => inbox'[v] = <<>>
             /\ stage[v] # "offline" =>
                  Tells(v, inbox'[v], local[v], online, preferred')
  <2>. DEFINE m == [kind |-> "state", state |-> pending[u], by |-> u]
  <2>1. m \in Updates
    BY DEF AuthorityInv, Typed, Updates
  <2>2. /\ inbox'[v] = IF v \in online THEN Append(inbox[v], m) ELSE inbox[v]
        /\ preferred' = preferred
    BY <1>4 DEF ServerWrites, Broadcast
  <2>. HIDE DEF m
  <2>. QED
    BY <1>3, <2>1, <2>2, StateTells DEF Informed
<1>5. ASSUME NEW p \in GMs \cup {NoUser}, SetPreferred(p)
      PROVE  /\ stage[v] = "offline" => inbox'[v] = <<>>
             /\ stage[v] # "offline" =>
                  Tells(v, inbox'[v], local[v], online, preferred')
  <2>. DEFINE m == [kind |-> "preferred", user |-> p]
  <2>1. /\ inbox'[v] = IF v \in online THEN Append(inbox[v], m) ELSE inbox[v]
        /\ preferred' = p
    BY <1>5 DEF SetPreferred, Broadcast
  <2>. QED
    BY <1>3, <2>1, PreferenceTells DEF Informed
<1>. QED
  BY <1>4, <1>5

(***************************************************************************)
(* A client that connects gets a true copy of the world; the others are    *)
(* told of it.                                                             *)
(***************************************************************************)
LEMMA ConnectInforms ==
  ASSUME AuthorityInv, Informed, NEW u \in Users, Connect(u)
  PROVE  Informed'
<1>. DEFINE m == [kind |-> "presence", user |-> u, active |-> TRUE]
<1>1. /\ stage[u] = "offline" /\ u \notin online /\ inbox[u] = <<>>
      /\ online' = online \cup {u} /\ preferred' = preferred
      /\ stage' = [stage EXCEPT ![u] = "loading"]
      /\ local' = [local EXCEPT ![u] =
                     [view |-> online', pref |-> preferred, saved |-> setting]]
      /\ inbox' = [v \in Users |-> IF v \in online THEN Append(inbox[v], m)
                                   ELSE inbox[v]]
  BY DEF Connect, Broadcast, AuthorityInv, InSession, Informed
<1>2. \A v \in Users : v \in online <=> stage[v] # "offline"
  BY DEF AuthorityInv, InSession
<1>3. stage \in [Users -> Stages] /\ local \in [Users -> Copies]
  BY DEF AuthorityInv, Typed, TypeOK, Stages
<1>4. ASSUME NEW v \in Users, v # u
      PROVE  /\ stage'[v] = "offline" => inbox'[v] = <<>>
             /\ stage'[v] # "offline" =>
                  Tells(v, inbox'[v], local'[v], online', preferred')
  <2>1. stage'[v] = stage[v] /\ local'[v] = local[v]
    BY <1>1, <1>3, <1>4
  <2>2. CASE stage[v] = "offline"
    BY <1>1, <1>2, <2>1, <2>2 DEF Informed
  <2>3. CASE stage[v] # "offline"
    <3>1. Tells(v, inbox[v], local[v], online, preferred)
      BY <2>3 DEF Informed
    <3>2. inbox[v] \in Seq(Heard(v)) /\ u \in Users \ {v} /\ TRUE \in BOOLEAN
      BY <1>4 DEF AuthorityInv, Mail
    <3>3. online' = IF TRUE THEN online \cup {u} ELSE online \ {u}
      BY <1>1
    <3>4. Tells(v, Append(inbox[v], m), local[v], online', preferred)
      BY <3>1, <3>2, <3>3, PresenceTells
    <3>. QED
      BY <1>1, <1>2, <2>1, <2>3, <3>4
  <2>. QED
    BY <2>2, <2>3
<1>5. Tells(u, <<>>, local'[u], online', preferred)
  <2>1. local'[u].view = online' /\ local'[u].pref = preferred
    BY <1>1, <1>3
  <2>2. Len(<<>>) = 0
    OBVIOUS
  <2>. QED
    BY <2>1, <2>2 DEF Tells, Settles
<1>6. stage'[u] # "offline" /\ inbox'[u] = <<>>
  BY <1>1, <1>3
<1>. QED
  BY <1>1, <1>4, <1>5, <1>6 DEF Informed

(***************************************************************************)
(* A client that leaves has no mail any more; the others are told of a     *)
(* state that landed, and then that it is gone.                            *)
(***************************************************************************)
LEMMA LeaveInforms ==
  ASSUME AuthorityInv, Informed, NEW u \in Users, Leave(u)
  PROVE  Informed'
<1>. DEFINE s == [kind |-> "state", state |-> pending[u], by |-> u]
            m == [kind |-> "presence", user |-> u, active |-> FALSE]
<1>1. PICK lands \in BOOLEAN :
        LET news == (IF lands THEN <<s>> ELSE <<>>) \o <<m>>
        IN  inbox' = [v \in Users |-> IF v = u THEN <<>>
                                      ELSE IF v \in online' THEN inbox[v] \o news
                                      ELSE inbox[v]]
  BY DEF Leave
<1>2. /\ online' = online \ {u} /\ preferred' = preferred
      /\ stage' = [stage EXCEPT ![u] = "offline"]
      /\ \A v \in Users \ {u} : local'[v] = local[v] /\ stage'[v] = stage[v]
      /\ stage'[u] = "offline"
  BY DEF Leave, AuthorityInv, Typed, TypeOK
<1>3. \A v \in Users : v \in online <=> stage[v] # "offline"
  BY DEF AuthorityInv, InSession
<1>4. s \in Updates
  BY DEF AuthorityInv, Typed, Updates
<1>5. ASSUME NEW v \in Users, v # u
      PROVE  /\ stage'[v] = "offline" => inbox'[v] = <<>>
             /\ stage'[v] # "offline" =>
                  Tells(v, inbox'[v], local'[v], online', preferred')
  <2>1. CASE stage[v] = "offline"
    BY <1>1, <1>2, <1>3, <1>5, <2>1 DEF Informed
  <2>2. CASE stage[v] # "offline"
    <3>. DEFINE q == IF lands THEN Append(inbox[v], s) ELSE inbox[v]
    <3>1. /\ inbox[v] \in Seq(Heard(v)) /\ s \in Heard(v) /\ m \in Heard(v)
          /\ u \in Users \ {v} /\ FALSE \in BOOLEAN
      BY <1>4, <1>5 DEF AuthorityInv, Mail, Heard, Presences
    <3>2. inbox'[v] = inbox[v] \o ((IF lands THEN <<s>> ELSE <<>>) \o <<m>>)
      BY <1>1, <1>2, <1>3, <1>5, <2>2
    <3>3. Tells(v, inbox[v], local[v], online, preferred)
      BY <2>2 DEF Informed
    <3>. HIDE DEF s, m
    <3>4. inbox'[v] = Append(q, m) /\ q \in Seq(Heard(v))
      <4>1. <<s>> \in Seq(Heard(v)) /\ <<m>> \in Seq(Heard(v))
        BY <3>1
      <4>2. CASE lands
        <5>1. inbox'[v] = (inbox[v] \o <<s>>) \o <<m>>
          BY <3>1, <3>2, <4>1, <4>2, ConcatAssociative
        <5>2. Append(inbox[v], s) = inbox[v] \o <<s>>
              /\ Append(inbox[v], s) \in Seq(Heard(v))
          BY <3>1, AppendIsConcat, AppendProperties
        <5>3. Append(Append(inbox[v], s), m) = Append(inbox[v], s) \o <<m>>
          BY <3>1, <5>2, AppendIsConcat
        <5>. QED
          BY <4>2, <5>1, <5>2, <5>3
      <4>3. CASE ~lands
        <5>1. inbox'[v] = inbox[v] \o <<m>>
          BY <3>2, <4>1, <4>3, ConcatEmptySeq
        <5>. QED
          BY <3>1, <4>3, <5>1, AppendIsConcat
      <4>. QED
        BY <4>2, <4>3
    <3>5. Tells(v, q, local[v], online, preferred)
      BY <1>4, <3>1, <3>3, StateTells
    <3>. HIDE DEF q
    <3>6. online' = IF FALSE THEN online \cup {u} ELSE online \ {u}
      BY <1>2
    <3>7. Tells(v, Append(q, m), local[v], online', preferred)
      BY <3>1, <3>4, <3>5, <3>6, PresenceTells DEF m
    <3>. QED
      BY <1>2, <1>5, <2>2, <3>4, <3>7
  <2>. QED
    BY <2>1, <2>2
<1>6. inbox'[u] = <<>>
  BY <1>1
<1>. QED
  BY <1>2, <1>5, <1>6 DEF Informed

(***************************************************************************)
(* A client that handles an update knows what it said.                     *)
(***************************************************************************)
LEMMA DeliverInforms ==
  ASSUME AuthorityInv, Informed, NEW u \in Users, Deliver(u)
  PROVE  Informed'
<1>. DEFINE m == Head(inbox[u])
<1>1. /\ m \in Heard(u) /\ inbox[u] \in Seq(Heard(u)) /\ inbox[u] # <<>>
      /\ stage[u] # "offline"
  BY HeadTailProperties DEF AuthorityInv, Mail, Deliver
<1>2. /\ HearPresence(u, m) \/ HearPreferred(u, m) \/ HearState(u, m)
      /\ inbox' = [inbox EXCEPT ![u] = Tail(@)]
      /\ UNCHANGED <<online, preferred, stage>>
  BY DEF Deliver, server
<1>3. Tells(u, inbox[u], local[u], online, preferred)
  BY <1>1 DEF Informed
<1>4. /\ local \in [Users -> Copies] /\ local[u] \in Copies
      /\ inbox = [v \in Users |-> inbox[v]]
  BY DEF AuthorityInv, Typed, Mail
<1>5. \A v \in Users \ {u} : local'[v] = local[v] /\ inbox'[v] = inbox[v]
  BY <1>2, <1>4 DEF HearPresence, HearPreferred, HearState
<1>6. inbox'[u] = Tail(inbox[u])
  BY <1>2, <1>4
<1>. HIDE DEF m
<1>7. SUFFICES Tells(u, Tail(inbox[u]), local'[u], online, preferred)
  BY <1>1, <1>2, <1>5, <1>6 DEF Informed
<1>8. local'[u].pref = IF m \in Preferences THEN Prefers[m] ELSE local[u].pref
  BY <1>1, <1>2, <1>4 DEF HearPresence, HearPreferred, HearState, Heard, Presences,
     Preferences, Updates, Prefers, Copies
<1>9. ASSUME NEW v \in Users \ {u}
      PROVE  local'[u].view \cap {v} =
               IF m \in PresenceOf(v) THEN Says(v)[m] ELSE local[u].view \cap {v}
  <2>1. CASE HearPresence(u, m)
    <3>1. m \in Presences(u)
      BY <1>1, <2>1 DEF HearPresence, Heard, Preferences, Updates
    <3>2. local'[u].view = IF m.active THEN local[u].view \cup {m.user}
                           ELSE local[u].view \ {m.user}
      BY <1>4, <2>1 DEF HearPresence, Copies
    <3>3. CASE m.user = v
      <4>1. m \in PresenceOf(v)
        BY <3>1, <3>3 DEF Presences, PresenceOf
      <4>2. Says(v)[m] = IF m.active THEN {v} ELSE {}
        BY <4>1 DEF Says
      <4>. QED
        BY <3>2, <3>3, <4>1, <4>2
    <3>4. CASE m.user # v
      <4>1. m \notin PresenceOf(v)
        BY <3>4 DEF PresenceOf
      <4>. QED
        BY <3>2, <3>4, <4>1
    <3>. QED
      BY <3>3, <3>4
  <2>2. CASE HearPreferred(u, m) \/ HearState(u, m)
    <3>1. m \notin PresenceOf(v)
      BY <2>2 DEF HearPreferred, HearState, PresenceOf
    <3>2. local'[u].view = local[u].view
      BY <1>4, <2>2 DEF HearPreferred, HearState, Copies
    <3>. QED
      BY <3>1, <3>2
  <2>. QED
    BY <1>2, <2>1, <2>2
<1>10. Settles(Tail(inbox[u]), Preferences, Prefers, local'[u].pref, preferred)
  <2>1. Settles(inbox[u], Preferences, Prefers, local[u].pref, preferred)
    BY <1>3 DEF Tells
  <2>. QED
    BY <1>1, <1>8, <2>1, SettlesHeard DEF m
<1>11. ASSUME NEW v \in Users \ {u}
       PROVE  Settles(Tail(inbox[u]), PresenceOf(v), Says(v),
                      local'[u].view \cap {v}, online \cap {v})
  <2>1. Settles(inbox[u], PresenceOf(v), Says(v), local[u].view \cap {v},
                online \cap {v})
    BY <1>3 DEF Tells
  <2>2. local'[u].view \cap {v} =
          IF Head(inbox[u]) \in PresenceOf(v) THEN Says(v)[Head(inbox[u])]
          ELSE local[u].view \cap {v}
    BY <1>9 DEF m
  <2>. QED
    BY <1>1, <2>1, <2>2, SettlesHeard
<1>. QED
  BY <1>10, <1>11 DEF Tells

(***************************************************************************)
(* Every step leaves everybody as informed.                                *)
(***************************************************************************)
LEMMA StepInforms ==
  ASSUME AuthorityInv, Informed, [Next]_vars
  PROVE  Informed'
<1>1. CASE UNCHANGED vars
  BY <1>1, StillInformed DEF vars, server, startup
<1>2. ASSUME NEW u \in Users,
             \/ Ready(u) \/ Reconcile(u) \/ Written(u) \/ WriteFails(u) \/ ScanEnds(u)
      PROVE  Informed'
  <2>1. UNCHANGED <<online, preferred, inbox, local>>
    BY <1>2 DEF Ready, Reconcile, Written, WriteFails, ScanEnds, server
  <2>2. stage[u] # "offline"
    BY <1>2 DEF AuthorityInv, InSession, Ready, Reconcile, Composed, Written, WriteFails,
       ScanEnds
  <2>3. stage'[u] # "offline" /\ \A v \in Users \ {u} : stage'[v] = stage[v]
    <3>1. CASE Ready(u)
      BY <3>1 DEF Ready, AuthorityInv, Typed, TypeOK
    <3>2. CASE UNCHANGED stage
      BY <2>2, <3>2
    <3>3. CASE \E w \in Nat : Awaited(u, w)
      BY <2>2, <3>3 DEF Awaited, AuthorityInv, Typed, TypeOK
    <3>4. CASE Reconcile(u)
      <4>. DEFINE next == Elect(local[u].view, local[u].pref)
                  a == Resolve(authority[u], next)
                  w == IF Notifies(authority[u], next) /\ Subscribed(u)
                       THEN waiting[u] ELSE waiting[u] - 1
      <4>1. w \in Nat
        BY <3>4 DEF Reconcile, AuthorityInv, Typed, TypeOK
      <4>2. UNCHANGED stage \/ AfterReconcile(u, a, w)
        BY <3>4 DEF Reconcile
      <4>. HIDE DEF a, w
      <4>3. UNCHANGED stage \/ Awaited(u, w)
        BY <4>2 DEF AfterReconcile
      <4>. QED
        BY <3>2, <3>3, <4>1, <4>3
    <3>5. CASE Written(u) \/ WriteFails(u) \/ ScanEnds(u)
      <4>1. waiting[u] \in Nat /\ 0 \in Nat
        BY DEF AuthorityInv, Typed, TypeOK
      <4>2. UNCHANGED stage \/ Awaited(u, waiting[u]) \/ Awaited(u, 0)
        BY <3>5 DEF Written, AfterReconcile, WriteFails, ScanEnds
      <4>. QED
        BY <3>2, <3>3, <4>1, <4>2
    <3>. QED
      BY <1>2, <3>1, <3>4, <3>5
  <2>. QED
    BY <2>1, <2>2, <2>3, StillInformed
<1>3. ASSUME NEW u \in Users, NEW t \in Txs, Begin(u, t) \/ End(u, t)
      PROVE  Informed'
  BY <1>3, StillInformed DEF Begin, End, server, startup
<1>. QED
  BY <1>1, <1>2, <1>3, ServerInforms, ConnectInforms, LeaveInforms, DeliverInforms DEF Next

(***************************************************************************)
(* What start-up awaits only concerns a start-up that goes on.             *)
(***************************************************************************)
LEMMA AwaitedStarts ==
  ASSUME TypeOK, Starting, NEW u \in Users, NEW w, Awaited(u, w)
  PROVE  /\ Starting'
         /\ \A v \in Users : Subscribed(v)' => Subscribed(v)
<1>1. stage' = [stage EXCEPT ![u] = IF due[u] # 1 THEN @
                                   ELSE IF @ = "opening" /\ w > 0 THEN "settling"
                                   ELSE "open"]
  BY DEF Awaited
<1>2. due' = [due EXCEPT ![u] = IF @ = 0 THEN 0
                               ELSE IF @ = 1 /\ stage[u] = "opening" THEN w
                               ELSE @ - 1]
  BY DEF Awaited
<1>3. /\ stage \in [Users -> Stages] /\ due \in [Users -> Nat]
      /\ \A v \in Users \ {u} : stage'[v] = stage[v] /\ due'[v] = due[v]
  BY <1>1, <1>2 DEF TypeOK, Stages
<1>4. CASE due[u] = 0
  BY <1>1, <1>2, <1>3, <1>4 DEF Starting, Subscribed
<1>5. CASE due[u] # 0
  <2>1. stage[u] \notin {"offline", "loading", "failed"}
    BY <1>5 DEF Starting
  <2>2. stage[u] \in {"opening", "settling", "open"}
    BY <1>3, <2>1 DEF Stages
  <2>3. stage'[u] \in {"opening", "settling", "open"}
    BY <1>1, <1>3, <2>2
  <2>. QED
    BY <1>3, <2>2, <2>3 DEF Starting, Subscribed
<1>. QED
  BY <1>4, <1>5

(***************************************************************************)
(* A transition's election is the client's choice from then on: resolve    *)
(* adopts whoever is elected.                                              *)
(***************************************************************************)
LEMMA ResolveHolds ==
  ASSUME NEW a \in Known, NEW next
  PROVE  next \in {NoUser, Resolve(a, next).id}
BY DEF Resolve, Known, States

(***************************************************************************)
(* Every step keeps what a client names its choice, and asks for a         *)
(* transition when what it knows changes.                                  *)
(***************************************************************************)
LEMMA StepChooses ==
  ASSUME AuthorityInv, Chosen, Starting, [Next]_vars
  PROVE  Chosen' /\ Starting'
<1>1. /\ TypeOK /\ authority \in [Users -> Known] /\ local \in [Users -> Copies]
      /\ stage \in [Users -> Stages] /\ due \in [Users -> Nat]
      /\ waiting \in [Users -> Nat] /\ missed \in [Users -> BOOLEAN]
  BY DEF AuthorityInv, Typed, TypeOK, Stages
<1>2. CASE UNCHANGED <<local, authority, waiting, missed, stage, due>>
  BY <1>2 DEF Chosen, Starting, Subscribed, Holds
<1>3. ASSUME NEW u \in Users, NEW w, Awaited(u, w),
             UNCHANGED <<local, authority, waiting, missed>>
      PROVE  Chosen' /\ Starting'
  <2>1. Starting' /\ \A v \in Users : Subscribed(v)' => Subscribed(v)
    BY <1>1, <1>3, AwaitedStarts
  <2>. QED
    BY <1>3, <2>1 DEF Chosen, Holds
<1>4. ASSUME NEW u \in Users, Written(u) \/ WriteFails(u) \/ ScanEnds(u)
      PROVE  Chosen' /\ Starting'
  <2>1. /\ UNCHANGED <<local, authority, waiting, missed>>
        /\ UNCHANGED <<stage, due>> \/ Awaited(u, waiting[u]) \/ Awaited(u, 0)
    BY <1>4 DEF Written, AfterReconcile, WriteFails, ScanEnds
  <2>. QED
    BY <1>2, <1>3, <2>1
<1>5. ASSUME NEW u \in Users, Connect(u) \/ Ready(u) \/ Leave(u)
      PROVE  Chosen' /\ Starting'
  <2>1. \A v \in Users \ {u} :
          /\ local'[v] = local[v] /\ authority'[v] = authority[v]
          /\ waiting'[v] = waiting[v] /\ missed'[v] = missed[v]
          /\ stage'[v] = stage[v] /\ due'[v] = due[v]
    <3>1. CASE Connect(u)
      BY <1>1, <3>1 DEF Connect, barrier
    <3>2. CASE Ready(u)
      BY <1>1, <3>2 DEF Ready
    <3>3. CASE Leave(u)
      BY <1>1, <3>3 DEF Leave
    <3>. QED
      BY <1>5, <3>1, <3>2, <3>3
  <2>2. \/ stage'[u] \in {"offline", "loading", "failed"} /\ due'[u] = 0
        \/ stage'[u] = "opening" /\ waiting'[u] = 1
    <3>1. CASE Connect(u)
      BY <1>1, <3>1 DEF Connect, Starting
    <3>2. CASE Ready(u)
      <4>1. stage[u] = "loading" /\ due[u] = 0
        BY <3>2 DEF Ready, Starting
      <4>2. \/ /\ stage' = [stage EXCEPT ![u] = "opening"]
               /\ waiting' = [waiting EXCEPT ![u] = 1]
            \/ stage' = [stage EXCEPT ![u] = "failed"] /\ due' = due
        BY <3>2 DEF Ready
      <4>. QED
        BY <1>1, <4>1, <4>2
    <3>3. CASE Leave(u)
      BY <1>1, <3>3 DEF Leave
    <3>. QED
      BY <1>5, <3>1, <3>2, <3>3
  <2>. QED
    BY <2>1, <2>2 DEF Chosen, Starting, Subscribed, Holds
<1>6. ASSUME NEW u \in Users, Reconcile(u)
      PROVE  Chosen' /\ Starting'
  <2>. DEFINE next == Elect(local[u].view, local[u].pref)
              a == Resolve(authority[u], next)
              w == IF Notifies(authority[u], next) /\ Subscribed(u)
                   THEN waiting[u] ELSE waiting[u] - 1
  <2>1. /\ authority' = [authority EXCEPT ![u] = a]
        /\ waiting' = [waiting EXCEPT ![u] = w]
        /\ missed' = [missed EXCEPT ![u] = FALSE]
        /\ UNCHANGED <<stage, due>> \/ AfterReconcile(u, a, w)
        /\ UNCHANGED local
    BY <1>6 DEF Reconcile
  <2>2. next \in {NoUser, a.id}
    BY <1>1, ResolveHolds
  <2>. HIDE DEF a, w
  <2>3. UNCHANGED <<stage, due>> \/ Awaited(u, w)
    BY <2>1 DEF AfterReconcile
  <2>4. Starting' /\ \A v \in Users : Subscribed(v)' => Subscribed(v)
    BY <1>1, <2>3, AwaitedStarts DEF Starting, Subscribed
  <2>5. /\ Holds(u)'
        /\ \A v \in Users \ {u} :
             /\ authority'[v] = authority[v] /\ waiting'[v] = waiting[v]
             /\ missed'[v] = missed[v]
    BY <1>1, <2>1, <2>2 DEF Holds
  <2>. QED
    BY <2>1, <2>4, <2>5 DEF Chosen, Holds
<1>7. ASSUME NEW u \in Users, Deliver(u)
      PROVE  Chosen' /\ Starting'
  <2>. DEFINE m == Head(inbox[u])
  <2>1. /\ HearPresence(u, m) \/ HearPreferred(u, m) \/ HearState(u, m)
        /\ UNCHANGED <<stage, due>>
    BY <1>7 DEF Deliver
  <2>. HIDE DEF m
  <2>2. Starting'
    BY <2>1 DEF Starting
  <2>3. \A v \in Users \ {u} :
          /\ local'[v] = local[v] /\ authority'[v] = authority[v]
          /\ waiting'[v] = waiting[v] /\ missed'[v] = missed[v]
    BY <1>1, <2>1 DEF HearPresence, HearPreferred, HearState, AskTransition
  <2>4. Subscribed(u) => Composed(u)
    BY DEF Subscribed, Composed
  <2>5. ASSUME Subscribed(u), waiting'[u] = 0, ~missed'[u]
        PROVE  /\ waiting[u] = 0 /\ ~missed[u] /\ authority'[u] = authority[u]
               /\ local'[u].view = local[u].view /\ local'[u].pref = local[u].pref
    <3>1. ~AskTransition(u)
      BY <1>1, <2>5 DEF AskTransition
    <3>2. CASE HearPresence(u, m)
      <4>1. missed' = [missed EXCEPT ![u] = Composed(u)]
        BY <3>1, <3>2 DEF HearPresence
      <4>2. missed'[u] = Composed(u)
        BY <1>1, <4>1
      <4>. QED
        BY <2>4, <2>5, <4>2
    <3>3. CASE HearPreferred(u, m)
      BY <2>4, <2>5, <3>1, <3>3 DEF HearPreferred
    <3>4. CASE HearState(u, m)
      <4>1. UNCHANGED <<authority, waiting, missed>>
        BY <3>1, <3>4 DEF HearState
      <4>2. local'[u].view = local[u].view /\ local'[u].pref = local[u].pref
        BY <1>1, <3>4 DEF HearState, Copies
      <4>. QED
        BY <2>5, <4>1, <4>2
    <3>. QED
      BY <2>1, <3>2, <3>3, <3>4
  <2>. QED
    BY <2>1, <2>2, <2>3, <2>5 DEF Chosen, Subscribed, Holds
<1>8. [Next]_vars => 
        \/ UNCHANGED <<local, authority, waiting, missed, stage, due>>
        \/ \E u \in Users : \/ Written(u) \/ WriteFails(u) \/ ScanEnds(u)
                            \/ Connect(u) \/ Ready(u) \/ Leave(u)
                            \/ Reconcile(u) \/ Deliver(u)
  BY ZenonT(40) DEF Next, vars, startup, barrier, ServerWrites, SetPreferred, Begin, End
<1>. QED
  BY <1>2, <1>4, <1>5, <1>6, <1>7, <1>8

(***************************************************************************)
(* Nobody runs at first, so everybody who runs is informed and has chosen. *)
(***************************************************************************)
LEMMA ChoiceInit == Init => ChoiceInv
BY DEF Init, ChoiceInv, Informed, Chosen, Starting, Subscribed

(***************************************************************************)
(* When nothing is under way, every running client that missed no update   *)
(* names the authority that the users really connected elect, whatever the *)
(* order in which updates, writes and elections met                        *)
(* (resolvePrimaryAuthorityUserId, run by each client on its own copy).    *)
(***************************************************************************)
THEOREM ChoiceIsAgreed == Spec => []ChoiceAgreed
<1>1. Init => ChoiceInv
  BY ChoiceInit
<1>2. AuthorityInv /\ ChoiceInv /\ [Next]_vars => ChoiceInv'
  BY StepInforms, StepChooses DEF ChoiceInv
<1>3. AuthorityInv /\ ChoiceInv => ChoiceAgreed
  <2>. SUFFICES ASSUME AuthorityInv, ChoiceInv, Quiet, NEW u \in Users, Listening(u),
                       ~missed[u]
                PROVE  Elect(online, preferred) \in {NoUser, authority[u].id}
    BY DEF ChoiceAgreed
  <2>1. /\ stage[u] # "offline" /\ Subscribed(u) /\ inbox[u] = <<>> /\ waiting[u] = 0
        /\ u \in online /\ u \in local[u].view
        /\ local[u].view \subseteq Users /\ online \subseteq Users
    BY DEF Listening, Subscribed, Quiet, AuthorityInv, InSession, Typed, TypeOK, Copies
  <2>2. Tells(u, <<>>, local[u], online, preferred)
    BY <2>1 DEF ChoiceInv, Informed
  <2>3. Len(<<>>) = 0
    OBVIOUS
  <2>4. local[u].pref = preferred
    BY <2>2, <2>3 DEF Tells, Settles
  <2>5. ASSUME NEW v \in Users
        PROVE  v \in local[u].view <=> v \in online
    <3>1. CASE v = u
      BY <2>1, <3>1
    <3>2. CASE v # u
      <4>1. local[u].view \cap {v} = online \cap {v}
        BY <2>2, <2>3, <3>2 DEF Tells, Settles
      <4>. QED
        BY <4>1
    <3>. QED
      BY <3>1, <3>2
  <2>6. local[u].view = online
    BY <2>1, <2>5
  <2>. QED
    BY <2>1, <2>4, <2>6 DEF ChoiceInv, Chosen, Holds
<1>. QED
  BY <1>1, <1>2, <1>3, AuthorityInvariant, PTL DEF Spec
=============================================================================
