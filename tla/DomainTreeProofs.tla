-------------------------- MODULE DomainTreeProofs --------------------------
(***************************************************************************)
(* Proofs about DomainTree, for every set of Domains, commands and         *)
(* clients: type correctness, that a write replaces the version it was     *)
(* checked against, that revisions count writes, that the authority's      *)
(* index agrees with the documents, that nothing but two moves that cross  *)
(* can close a cycle, and so that the hierarchy stays a forest through any *)
(* number of moves in flight as long as no two cross.                      *)
(*                                                                         *)
(* The revision is compared before the update is sent, so that the locks   *)
(* must keep other writes away until it lands.  The inductive invariant    *)
(* says what that takes: commands that write have targets of their own     *)
(* (Apart), and a command that still waits with a version a client read    *)
(* has the current one or one with a lower revision (Waits).               *)
(***************************************************************************)
EXTENDS DomainTree, FiniteSetTheorems, TLAPS

\* A command that has not written yet: its target was born, and the version
\* it brought, if it did, is the current one or an earlier one.
Waits(c) ==
  LET o == cmd[c]
  IN  Queued(c) /\ o.kind # "create" =>
        /\ o.target \in Domains /\ docs[o.target] # Unborn
        /\ o.kind \notin OnPayload => o.base = Unborn
        /\ o.kind \in OnPayload =>
             /\ o.base \in Documents
             /\ docs[o.target] \in Documents =>
                  \/ docs[o.target] = o.base
                  \/ docs[o.target].revision > o.base.revision

\* A command that writes: it read what it replaces.
Writes(c) ==
  LET o == cmd[c]
  IN  Writing(c) =>
        /\ o.write \in Documents
        /\ o.kind # "create" =>
             /\ o.target \in Domains /\ o.base \in Documents
             /\ docs[o.target] \in {o.base, Gone}
             /\ o.write.revision = o.base.revision + 1
             /\ o.kind # "move" => o.write.parent = o.base.parent

Apart ==
  \A c, e \in Commands :
    /\ c # e /\ Writing(c) /\ Writing(e)
    /\ cmd[c].kind # "create" /\ cmd[e].kind # "create"
    => cmd[c].target # cmd[e].target

TreeInv ==
  /\ TypeOK
  /\ \A c \in Commands : Waits(c) /\ Writes(c)
  /\ Apart
  /\ IndexAgrees

-----------------------------------------------------------------------------
(***************************************************************************)
(* A document that exists is one, and a command in flight is an order.     *)
(***************************************************************************)
LEMMA ExistingDocuments ==
  ASSUME TypeOK
  PROVE  Existing = {d \in Domains : docs[d] \in Documents}
BY DocumentAssumption DEF TypeOK, Existing

(***************************************************************************)
(* A command in flight is an order.                                        *)
(***************************************************************************)
LEMMA InFlightOrders ==
  ASSUME TypeOK, NEW c \in Commands, InFlight(c)
  PROVE  cmd[c] \in Orders
BY DEF TypeOK, InFlight, Stages, None, Done

(***************************************************************************)
(* An order that gets its base and its write, field by field.              *)
(***************************************************************************)
LEMMA OrderWritten ==
  ASSUME NEW o \in Orders, NEW b, NEW w
  PROVE  [o EXCEPT !.stage = "writing", !.base = b, !.write = w] =
           [stage |-> "writing", kind |-> o.kind, target |-> o.target,
            parent |-> o.parent, base |-> b, write |-> w]
<1>. DEFINE x == [o EXCEPT !.stage = "writing"]
            y == [x EXCEPT !.base = b]
            z == [y EXCEPT !.write = w]
<1>1. x = [stage |-> "writing", kind |-> o.kind, target |-> o.target,
           parent |-> o.parent, base |-> o.base, write |-> o.write]
  BY DEF Orders
<1>. HIDE DEF x
<1>2. y = [stage |-> "writing", kind |-> o.kind, target |-> o.target,
           parent |-> o.parent, base |-> b, write |-> o.write]
  BY <1>1
<1>. HIDE DEF y
<1>3. z = [stage |-> "writing", kind |-> o.kind, target |-> o.target,
           parent |-> o.parent, base |-> b, write |-> w]
  BY <1>2
<1>. QED
  BY <1>3 DEF x, y, z

(***************************************************************************)
(* A world of roots satisfies the invariant.                               *)
(***************************************************************************)
LEMMA TreeInit == Init => TreeInv
<1>. SUFFICES ASSUME Init PROVE TreeInv
  OBVIOUS
<1>1. TypeOK
  BY DomainTreeAssumption DEF Init, TypeOK, Documents, Parents, Lifecycles
<1>2. \A c \in Commands : ~Queued(c) /\ ~Writing(c)
  BY DEF Init, None, Queued, Writing
<1>3. IndexAgrees
  BY DEF Init, IndexAgrees
<1>. QED
  BY <1>1, <1>2, <1>3 DEF TreeInv, Waits, Writes, Apart

(***************************************************************************)
(* A command arrives: it brings the current version or none.               *)
(***************************************************************************)
LEMMA SubmitKeeps ==
  ASSUME TreeInv, NEW c \in Commands, NEW o \in Orders,
         o.stage = "queued", cmd[c] = None, cmd' = [cmd EXCEPT ![c] = o],
         o.kind # "create" =>
           /\ o.target \in Existing
           /\ o.base = IF o.kind \in OnPayload THEN docs[o.target] ELSE Unborn,
         UNCHANGED <<docs, ready, index, deletes>>
  PROVE  TreeInv'
<1>1. TypeOK'
  BY DEF TreeInv, TypeOK
<1>2. ASSUME NEW e \in Commands
      PROVE  (Waits(e) /\ Writes(e))'
  <2>1. CASE e # c
    <3>1. cmd'[e] = cmd[e]
      BY <2>1 DEF TreeInv, TypeOK
    <3>. QED
      BY <3>1 DEF TreeInv, Waits, Writes, Queued, Writing
  <2>2. CASE e = c
    <3>1. cmd'[c] = o
      BY DEF TreeInv, TypeOK
    <3>2. o.kind # "create" => docs[o.target] \in Documents
      BY ExistingDocuments DEF TreeInv
    <3>. QED
      BY <2>2, <3>1, <3>2, DocumentAssumption DEF Waits, Writes, Queued, Writing, Existing
  <2>. QED
    BY <2>1, <2>2
<1>3. Apart'
  BY DEF TreeInv, TypeOK, Apart, Writing
<1>4. IndexAgrees'
  BY DEF TreeInv, IndexAgrees, Existing
<1>. QED
  BY <1>1, <1>2, <1>3, <1>4 DEF TreeInv

(***************************************************************************)
(* save compares the revision, so that what a command is about to write is *)
(* the successor of the current version.                                   *)
(***************************************************************************)
LEMMA AcceptedRead ==
  ASSUME TreeInv, NEW c \in Commands, Queued(c), Accepted(cmd[c]),
         cmd[c].kind # "create"
  PROVE  /\ cmd[c].target \in Domains /\ docs[cmd[c].target] \in Documents
         /\ Read(cmd[c]) = docs[cmd[c].target]
         /\ cmd[c].kind \in OnPayload => cmd[c].base = docs[cmd[c].target]
         /\ cmd[c].kind \notin OnPayload => cmd[c].base = Unborn
<1>. DEFINE o == cmd[c]
<1>1. o.target \in Existing /\ Read(o).revision = docs[o.target].revision
  BY DEF Accepted
<1>2. o.target \in Domains /\ docs[o.target] \in Documents
  BY <1>1, ExistingDocuments DEF TreeInv
<1>3. Waits(c)
  BY DEF TreeInv
<1>4. CASE o.kind \notin OnPayload
  BY <1>2, <1>3, <1>4 DEF Read, Waits
<1>5. CASE o.kind \in OnPayload
  <2>1. \/ docs[o.target] = o.base
        \/ docs[o.target].revision > o.base.revision
    BY <1>2, <1>3, <1>5 DEF Waits
  <2>2. o.base \in Documents /\ o.base.revision = docs[o.target].revision
    BY <1>1, <1>3, <1>5 DEF Waits, Read
  <2>3. docs[o.target] = o.base
    BY <1>2, <2>1, <2>2 DEF Documents
  <2>. QED
    BY <1>2, <1>5, <2>3 DEF Read
<1>. QED
  BY <1>4, <1>5

(***************************************************************************)
(* The record a command writes: the next revision, and the parent it was   *)
(* asked for or the one the document has.                                  *)
(***************************************************************************)
LEMMA WrittenDocument ==
  ASSUME TreeInv, NEW c \in Commands, Queued(c), Accepted(cmd[c])
  PROVE  /\ Written(cmd[c]) \in Documents
         /\ cmd[c].kind # "create" =>
              /\ Written(cmd[c]).revision = docs[cmd[c].target].revision + 1
              /\ Written(cmd[c]).parent =
                   IF cmd[c].kind = "move" THEN cmd[c].parent
                                           ELSE docs[cmd[c].target].parent
<1>. DEFINE o == cmd[c]
<1>1. o \in Orders
  BY InFlightOrders DEF TreeInv, InFlight, Queued, Stages
<1>2. o.kind \in Kinds /\ o.parent \in Parents
  BY <1>1 DEF Orders
<1>3. CASE o.kind = "create"
  BY <1>2, <1>3 DEF Written, Documents, Lifecycles
<1>4. CASE o.kind # "create"
  <2>. DEFINE doc == docs[o.target]
  <2>1. doc \in Documents /\ Read(o) = doc
    BY <1>4, AcceptedRead
  <2>2. doc.revision \in Nat /\ doc.parent \in Parents /\ doc.lifecycle \in Lifecycles
    BY <2>1 DEF Documents
  <2>3. Written(o) =
          [revision |-> doc.revision + 1,
           parent |-> IF o.kind = "move" THEN o.parent ELSE doc.parent,
           lifecycle |-> CASE o.kind = "archive" -> "archived"
                           [] o.kind = "restore" -> "active"
                           [] OTHER -> doc.lifecycle]
    BY <1>4, <2>1 DEF Written
  <2>. DEFINE life == CASE o.kind = "archive" -> "archived"
                        [] o.kind = "restore" -> "active"
                        [] OTHER -> doc.lifecycle
  <2>4. life \in Lifecycles
    BY <2>2 DEF Lifecycles
  <2>. HIDE DEF life, doc
  <2>5. Written(o) = [revision |-> doc.revision + 1,
                      parent |-> IF o.kind = "move" THEN o.parent ELSE doc.parent,
                      lifecycle |-> life]
    BY <2>3 DEF life
  <2>. QED
    BY <1>2, <1>4, <2>2, <2>4, <2>5 DEF Documents, doc
<1>. QED
  BY <1>3, <1>4

(***************************************************************************)
(* A command starts to write: its key keeps every other writer's target    *)
(* different from its own.                                                 *)
(***************************************************************************)
LEMMA StartKeeps ==
  ASSUME TreeInv, NEW c \in Commands, Start(c)
  PROVE  TreeInv'
<1>. DEFINE o == cmd[c]
            base == IF o.base = Unborn /\ o.kind # "create" THEN docs[o.target] ELSE o.base
            new == [stage |-> "writing", kind |-> o.kind, target |-> o.target,
                    parent |-> o.parent, base |-> base, write |-> Written(o)]
<1>1. Queued(c) /\ Accepted(o) /\ o \in Orders
  BY InFlightOrders DEF Start, TreeInv, InFlight, Queued, Stages
<1>2. o = [stage |-> "queued", kind |-> o.kind, target |-> o.target,
           parent |-> o.parent, base |-> o.base, write |-> o.write]
  BY <1>1 DEF Orders, Queued
<1>3. cmd' = [cmd EXCEPT ![c] = new]
  <2>1. cmd' = [cmd EXCEPT ![c] = [o EXCEPT !.stage = "writing", !.base = base,
                                            !.write = Written(o)]]
    BY DEF Start
  <2>2. [o EXCEPT !.stage = "writing", !.base = base, !.write = Written(o)] = new
    BY <1>1, OrderWritten
  <2>. QED
    BY <2>1, <2>2
<1>4. /\ Written(o) \in Documents
      /\ o.kind # "create" =>
           /\ base \in Documents /\ base = docs[o.target] /\ o.target \in Domains
           /\ Written(o).revision = base.revision + 1
           /\ o.kind # "move" => Written(o).parent = base.parent
  BY <1>1, AcceptedRead, WrittenDocument, DocumentAssumption
<1>5. new \in Orders
  BY <1>1, <1>4 DEF Orders, Stages
<1>6. UNCHANGED <<docs, ready, index, deletes>> /\ Free(c)
  BY DEF Start
<1>. HIDE DEF base
<1>7. TypeOK'
  BY <1>3, <1>5, <1>6 DEF TreeInv, TypeOK
<1>8. ASSUME NEW e \in Commands
      PROVE  (Waits(e) /\ Writes(e))'
  <2>1. CASE e # c
    <3>1. cmd'[e] = cmd[e]
      BY <1>3, <2>1 DEF TreeInv, TypeOK
    <3>. QED
      BY <1>6, <3>1 DEF TreeInv, Waits, Writes, Queued, Writing
  <2>2. CASE e = c
    <3>1. cmd'[c] = new
      BY <1>3 DEF TreeInv, TypeOK
    <3>. QED
      BY <1>4, <1>6, <2>2, <3>1 DEF Waits, Writes, Queued, Writing
  <2>. QED
    BY <2>1, <2>2
<1>9. ASSUME NEW e \in Commands, e # c, Writing(e), o.kind # "create", cmd[e].kind # "create"
      PROVE  o.target # cmd[e].target
  BY <1>6, <1>9 DEF Free, Keys
<1>10. Apart'
  <2>1. cmd'[c] = new /\ \A e \in Commands : e # c => cmd'[e] = cmd[e]
    BY <1>3 DEF TreeInv, TypeOK
  <2>. QED
    BY <1>9, <2>1 DEF TreeInv, Apart, Writing
<1>11. IndexAgrees'
  BY <1>6 DEF TreeInv, IndexAgrees, Existing
<1>. QED
  BY <1>7, <1>8, <1>10, <1>11 DEF TreeInv

(***************************************************************************)
(* A command that ends without writing gives its keys back and leaves the  *)
(* documents alone.                                                        *)
(***************************************************************************)
LEMMA EndKeeps ==
  ASSUME TreeInv, NEW c \in Commands, cmd' = [cmd EXCEPT ![c] = Done],
         UNCHANGED <<docs, ready, deletes>>, TypeOK', IndexAgrees'
  PROVE  TreeInv'
<1>1. \A e \in Commands : cmd'[e] = Done \/ cmd'[e] = cmd[e]
  BY DEF TreeInv, TypeOK
<1>2. ASSUME NEW e \in Commands
      PROVE  (Waits(e) /\ Writes(e))'
  BY <1>1 DEF TreeInv, Waits, Writes, Queued, Writing, Done
<1>3. Apart'
  BY <1>1 DEF TreeInv, Apart, Writing, Done
<1>. QED
  BY <1>2, <1>3 DEF TreeInv

(***************************************************************************)
(* A rejected command, or one that has nothing to write and refreshes the  *)
(* index.                                                                  *)
(***************************************************************************)
LEMMA RefuseKeeps ==
  ASSUME TreeInv, NEW c \in Commands, Refuse(c)
  PROVE  TreeInv'
<1>. DEFINE d == cmd[c].target
<1>1. cmd' = [cmd EXCEPT ![c] = Done] /\ UNCHANGED <<docs, ready, deletes>>
  BY DEF Refuse
<1>2. CASE ~Accepted(cmd[c])
  <2>1. index' = index
    BY <1>2 DEF Refuse
  <2>2. TypeOK' /\ IndexAgrees'
    BY <1>1, <2>1 DEF TreeInv, TypeOK, IndexAgrees, Existing
  <2>. QED
    BY <1>1, <2>2, EndKeeps
<1>3. CASE Accepted(cmd[c])
  <2>1. cmd[c].kind = "move" /\ Upsert(d, docs[d]) /\ Queued(c)
    BY <1>3 DEF Refuse, NoOp
  <2>2. d \in Domains /\ docs[d] \in Documents
    BY <1>3, <2>1, AcceptedRead
  <2>3. Entry(docs[d]) \in Entries
    BY <2>2 DEF Entry, Entries, Documents
  <2>4. TypeOK'
    BY <1>1, <2>1, <2>2, <2>3, DomainTreeAssumption DEF TreeInv, TypeOK, Upsert
  <2>5. IndexAgrees'
    BY <1>1, <2>1, <2>2, DomainTreeAssumption
       DEF TreeInv, TypeOK, Upsert, IndexAgrees, Existing
  <2>. QED
    BY <1>1, <2>4, <2>5, EndKeeps
<1>. QED
  BY <1>2, <1>3

(***************************************************************************)
(* An update that fails changes no document.                               *)
(***************************************************************************)
LEMMA WriteFailsKeeps ==
  ASSUME TreeInv, NEW c \in Commands, WriteFails(c)
  PROVE  TreeInv'
<1>1. TypeOK' /\ IndexAgrees'
  BY DEF WriteFails, TreeInv, TypeOK, IndexAgrees, Existing
<1>. QED
  BY <1>1, EndKeeps DEF WriteFails

(***************************************************************************)
(* A write that lands replaces the version it was checked against by its   *)
(* successor, or gives birth to a document.                                *)
(***************************************************************************)
LEMMA LandReplaces ==
  ASSUME TreeInv, NEW c \in Commands, NEW d \in Domains, Land(c, d)
  PROVE  /\ cmd[c].write \in Documents
         /\ docs' = [docs EXCEPT ![d] = cmd[c].write]
         /\ \/ cmd[c].kind = "create" /\ docs[d] = Unborn
            \/ /\ cmd[c].kind # "create" /\ d = cmd[c].target
               /\ docs[d] \in Documents /\ docs[d] = cmd[c].base
               /\ cmd[c].write.revision = docs[d].revision + 1
<1>1. Writing(c) /\ Writes(c)
  BY DEF Land, TreeInv
<1>2. CASE cmd[c].kind = "create"
  BY <1>1, <1>2 DEF Land, Writes
<1>3. CASE cmd[c].kind # "create"
  <2>1. d = cmd[c].target /\ docs[d] \in Documents
    BY <1>3, ExistingDocuments DEF Land, TreeInv
  <2>. QED
    BY <1>1, <1>3, <2>1, DocumentAssumption DEF Land, Writes
<1>. QED
  BY <1>2, <1>3

(***************************************************************************)
(* The other writers keep what they replace, since their targets are       *)
(* others, and who waits with an older version now differs by the          *)
(* revision.                                                               *)
(***************************************************************************)
LEMMA LandKeeps ==
  ASSUME TreeInv, NEW c \in Commands, NEW d \in Domains, Land(c, d)
  PROVE  TreeInv'
<1>. DEFINE w == cmd[c].write
<1>1. /\ w \in Documents
      /\ docs' = [docs EXCEPT ![d] = w]
      /\ \/ cmd[c].kind = "create" /\ docs[d] = Unborn
         \/ /\ cmd[c].kind # "create" /\ d = cmd[c].target
            /\ docs[d] \in Documents /\ w.revision = docs[d].revision + 1
  BY LandReplaces
<1>2. /\ Writing(c) /\ Upsert(d, w) /\ cmd' = [cmd EXCEPT ![c] = Done]
      /\ UNCHANGED <<ready, deletes>>
  BY DEF Land
<1>. HIDE DEF w
<1>3. Entry(w) \in Entries
  BY <1>1 DEF Entry, Entries, Documents
<1>4. TypeOK'
  BY <1>1, <1>2, <1>3, DomainTreeAssumption DEF TreeInv, TypeOK, Upsert
<1>5. IndexAgrees'
  BY <1>1, <1>2, DomainTreeAssumption DEF TreeInv, TypeOK, Upsert, IndexAgrees, Existing
<1>6. cmd'[c] = Done /\ \A e \in Commands : e # c => cmd'[e] = cmd[e]
  BY <1>2 DEF TreeInv, TypeOK
<1>7. docs'[d] = w /\ \A x \in Domains : x # d => docs'[x] = docs[x]
  BY <1>1 DEF TreeInv, TypeOK
<1>8. ASSUME NEW e \in Commands
      PROVE  (Waits(e) /\ Writes(e))'
  <2>1. CASE e = c
    BY <1>6, <2>1 DEF Waits, Writes, Queued, Writing, Done
  <2>2. CASE e # c
    <3>1. cmd'[e] = cmd[e] /\ Waits(e) /\ Writes(e)
      BY <1>6, <2>2 DEF TreeInv
    <3>2. Waits(e)'
      <4>1. SUFFICES ASSUME Queued(e), cmd[e].kind # "create", cmd[e].target = d
                     PROVE  Waits(e)'
        BY <1>7, <3>1 DEF Waits, Queued
      <4>2. docs[d] # Unborn /\ (cmd[e].kind \in OnPayload => cmd[e].base \in Documents)
        BY <3>1, <4>1 DEF Waits
      <4>3. docs[d] \in Documents /\ w.revision = docs[d].revision + 1
        BY <1>1, <4>2
      <4>4. cmd[e].kind \in OnPayload => docs[d].revision >= cmd[e].base.revision
        BY <3>1, <4>1, <4>2, <4>3 DEF Waits, Documents
      <4>5. cmd[e].kind \in OnPayload => w.revision > cmd[e].base.revision
        BY <4>2, <4>3, <4>4 DEF Documents
      <4>. QED
        BY <1>1, <1>7, <3>1, <4>1, <4>5, DocumentAssumption DEF Waits, Queued
    <3>3. Writes(e)'
      <4>1. CASE Writing(e) /\ cmd[e].kind # "create"
        <5>1. cmd[e].target \in Domains /\ docs[cmd[e].target] \in {cmd[e].base, Gone}
              /\ cmd[e].base \in Documents
          BY <3>1, <4>1 DEF Writes
        <5>2. cmd[e].target # d
          <6>1. CASE cmd[c].kind = "create"
            BY <1>1, <5>1, <6>1, DocumentAssumption, DomainTreeAssumption
          <6>2. CASE cmd[c].kind # "create"
            BY <1>1, <1>2, <2>2, <4>1, <6>2 DEF TreeInv, Apart
          <6>. QED
            BY <6>1, <6>2
        <5>. QED
          BY <1>7, <3>1, <5>1, <5>2 DEF Writes, Writing
      <4>2. CASE ~Writing(e) \/ cmd[e].kind = "create"
        BY <3>1, <4>2 DEF Writes, Writing
      <4>. QED
        BY <4>1, <4>2
    <3>. QED
      BY <3>2, <3>3
  <2>. QED
    BY <2>1, <2>2
<1>9. Apart'
  BY <1>6 DEF TreeInv, Apart, Writing, Done
<1>. QED
  BY <1>4, <1>5, <1>8, <1>9 DEF TreeInv

(***************************************************************************)
(* A first query reads the documents as they are.                          *)
(***************************************************************************)
LEMMA QueryKeeps ==
  ASSUME TreeInv, NEW k \in Clients, Query(k)
  PROVE  TreeInv'
<1>1. Indexed \in [Domains -> Entries \cup {Unborn}]
  BY ExistingDocuments DEF TreeInv, Indexed, Entry, Entries, Documents
<1>2. UNCHANGED <<docs, cmd, deletes>> /\ index' = [index EXCEPT ![k] = Indexed]
      /\ ready' = ready \cup {k}
  BY DEF Query
<1>3. TypeOK'
  BY <1>1, <1>2 DEF TreeInv, TypeOK
<1>4. IndexAgrees'
  BY <1>2, DomainTreeAssumption DEF TreeInv, TypeOK, IndexAgrees, Existing, Indexed
<1>. QED
  BY <1>2, <1>3, <1>4 DEF TreeInv, Waits, Writes, Apart, Queued, Writing

(***************************************************************************)
(* A deletion in the sidebar: whoever is about to write finds nothing.     *)
(***************************************************************************)
LEMMA DeleteKeeps ==
  ASSUME TreeInv, NEW d \in Domains, Delete(d)
  PROVE  TreeInv'
<1>1. /\ docs' = [docs EXCEPT ![d] = Gone] /\ deletes' = deletes + 1
      /\ deletes < MaxDeletes /\ UNCHANGED <<cmd, ready, index>>
  BY DEF Delete
<1>2. TypeOK'
  BY <1>1, DomainTreeAssumption DEF TreeInv, TypeOK
<1>3. \A x \in Domains : docs'[x] = docs[x] \/ docs'[x] = Gone
  BY <1>1 DEF TreeInv, TypeOK
<1>4. ASSUME NEW e \in Commands
      PROVE  (Waits(e) /\ Writes(e))'
  <2>1. Waits(e) /\ Writes(e) /\ cmd'[e] = cmd[e]
    BY <1>1 DEF TreeInv
  <2>. QED
    BY <1>3, <2>1, DocumentAssumption, DomainTreeAssumption
       DEF Waits, Writes, Queued, Writing
<1>5. Apart' /\ IndexAgrees'
  BY <1>1, <1>3 DEF TreeInv, Apart, Writing, IndexAgrees, Existing
<1>. QED
  BY <1>2, <1>4, <1>5 DEF TreeInv

(***************************************************************************)
(* The two ways a command arrives.                                         *)
(***************************************************************************)
LEMMA SubmitsKeep ==
  ASSUME TreeInv, NEW c \in Commands, NEW p \in Parents,
         \/ SubmitCreate(c, p)
         \/ \E k \in Kinds, d \in Domains : Submit(c, k, d, p)
  PROVE  TreeInv'
<1>1. CASE SubmitCreate(c, p)
  <2>. DEFINE o == [stage |-> "queued", kind |-> "create", target |-> Unborn,
                    parent |-> p, base |-> Unborn, write |-> Unborn]
  <2>1. o \in Orders
    BY DEF Orders, Stages, Kinds
  <2>2. /\ cmd[c] = None /\ cmd' = [cmd EXCEPT ![c] = o]
        /\ UNCHANGED <<docs, ready, index, deletes>>
    BY <1>1 DEF SubmitCreate
  <2>3. o.stage = "queued" /\ o.kind = "create"
    OBVIOUS
  <2>. HIDE DEF o
  <2>. QED
    BY <2>1, <2>2, <2>3, SubmitKeeps
<1>2. ASSUME NEW k \in Kinds, NEW d \in Domains, Submit(c, k, d, p)
      PROVE  TreeInv'
  <2>. DEFINE b == IF k \in OnPayload THEN docs[d] ELSE Unborn
              o == [stage |-> "queued", kind |-> k, target |-> d, parent |-> p,
                    base |-> b, write |-> Unborn]
  <2>1. d \in Existing /\ docs[d] \in Documents
    BY <1>2, ExistingDocuments DEF Submit, TreeInv
  <2>2. o \in Orders
    BY <2>1 DEF Orders, Stages
  <2>3. /\ cmd[c] = None /\ cmd' = [cmd EXCEPT ![c] = o]
        /\ UNCHANGED <<docs, ready, index, deletes>>
    BY <1>2 DEF Submit
  <2>4. o.stage = "queued" /\ o.target \in Existing
        /\ o.base = IF o.kind \in OnPayload THEN docs[o.target] ELSE Unborn
    BY <2>1
  <2>. HIDE DEF o
  <2>. QED
    BY <2>2, <2>3, <2>4, SubmitKeeps
<1>. QED
  BY <1>1, <1>2

(***************************************************************************)
(* Every step keeps the invariant.                                         *)
(***************************************************************************)
LEMMA NextKeeps ==
  ASSUME TreeInv, [Next]_vars
  PROVE  TreeInv'
<1>1. CASE UNCHANGED vars
  <2>1. UNCHANGED <<docs, cmd, ready, index, deletes>>
    BY <1>1 DEF vars
  <2>. QED
    BY <2>1 DEF TreeInv, TypeOK, Waits, Writes, Apart, Queued, Writing, IndexAgrees,
       Existing
<1>2. CASE Next
  BY <1>2, SubmitsKeep, StartKeeps, RefuseKeeps, LandKeeps, WriteFailsKeeps, QueryKeeps,
     DeleteKeeps DEF Next
<1>. QED
  BY <1>1, <1>2

-----------------------------------------------------------------------------
(***************************************************************************)
(* Every reachable state satisfies the inductive invariant.                *)
(***************************************************************************)
THEOREM TreeInvariant == Spec => []TreeInv
<1>1. Init => TreeInv
  BY TreeInit
<1>2. TreeInv /\ [Next]_vars => TreeInv'
  BY NextKeeps
<1>. QED
  BY <1>1, <1>2, PTL DEF Spec

(***************************************************************************)
(* Type correctness for every set of Domains, commands and clients.        *)
(***************************************************************************)
THEOREM TypesHold == Spec => []TypeOK
<1>1. TreeInv => TypeOK
  BY DEF TreeInv
<1>. QED
  BY <1>1, TreeInvariant, PTL

(***************************************************************************)
(* save compares revisions before it sends the update, and the update      *)
(* still replaces the version that was compared: the keys commands lock    *)
(* keep it so.                                                             *)
(***************************************************************************)
THEOREM WritesAreCurrent == Spec => []WritesCurrent
<1>1. TreeInv => WritesCurrent
  BY DEF TreeInv, WritesCurrent, Writes
<1>. QED
  BY <1>1, TreeInvariant, PTL

(***************************************************************************)
(* The index of the authority, told of every write of its own, agrees      *)
(* with the documents in parents and lifecycles.                           *)
(***************************************************************************)
THEOREM IndexStaysInAgreement == Spec => []IndexAgrees
<1>1. TreeInv => IndexAgrees
  BY DEF TreeInv
<1>. QED
  BY <1>1, TreeInvariant, PTL

(***************************************************************************)
(* Every change of a document raises its revision by one: no write         *)
(* overwrites one its author has not seen.                                 *)
(***************************************************************************)
THEOREM RevisionsCountWrites == Spec => RevisionsCount
<1>. DEFINE Counts ==
       \A d \in Existing :
         docs'[d] # docs[d] /\ docs'[d] # Gone => docs'[d].revision = docs[d].revision + 1
<1>1. TreeInv /\ [Next]_vars => [Counts]_vars
  <2>. SUFFICES ASSUME TreeInv, Next, NEW d \in Existing,
                       docs'[d] # docs[d], docs'[d] # Gone
                PROVE  docs'[d].revision = docs[d].revision + 1
    OBVIOUS
  <2>1. d \in Domains /\ docs[d] # Unborn
    BY DEF Existing
  <2>2. ASSUME NEW c \in Commands, NEW e \in Domains, Land(c, e)
        PROVE  docs'[d].revision = docs[d].revision + 1
    <3>1. docs' = [docs EXCEPT ![e] = cmd[c].write]
      BY <2>2, LandReplaces
    <3>2. e = d /\ docs'[d] = cmd[c].write
      BY <2>1, <3>1 DEF TreeInv, TypeOK
    <3>. QED
      BY <2>1, <2>2, <3>2, LandReplaces
  <2>3. CASE \E e \in Domains : Delete(e)
    BY <2>1, <2>3 DEF Delete, TreeInv, TypeOK
  <2>. QED
    BY <2>2, <2>3 DEF Next, SubmitCreate, Submit, Start, Refuse, WriteFails, Query
<1>2. Spec => [][Counts]_vars
  <2>. HIDE DEF Counts
  <2>. QED
    BY <1>1, TreeInvariant, PTL DEF Spec
<1>. QED
  BY <1>2 DEF RevisionsCount

-----------------------------------------------------------------------------
(***************************************************************************)
(* The forest.  A move that was accepted stays acceptable until it lands:  *)
(* what else lands meanwhile leaves parents alone, adds a Domain that      *)
(* nobody can name as a parent yet, or is a move it does not cross.        *)
(***************************************************************************)

\* The parents of documents, and those that commands carry, were born.
Born(p) == p \in Domains => docs[p] # Unborn

ParentsBorn ==
  /\ \A d \in Domains : docs[d] \in Documents => Born(docs[d].parent)
  /\ \A c \in Commands : InFlight(c) =>
       /\ Born(cmd[c].parent)
       /\ cmd[c].base \in Documents => Born(cmd[c].base.parent)
       /\ cmd[c].write \in Documents => Born(cmd[c].write.parent)

(***************************************************************************)
(* Fewer nodes with the same parents have no new cycle.                    *)
(***************************************************************************)
LEMMA CycleInFewer ==
  ASSUME NEW N, NEW M, M \subseteq N, NEW p, NEW q, \A x \in M : q[x] = p[x],
         HasCycle(M, q)
  PROVE  HasCycle(N, p)
<1>1. PICK S \in SUBSET M : S # {} /\ \A x \in S : q[x] \in S
  BY DEF HasCycle
<1>. QED
  BY <1>1 DEF HasCycle

(***************************************************************************)
(* A node that is nobody's parent closes no cycle.                         *)
(***************************************************************************)
LEMMA CycleWithLeaf ==
  ASSUME NEW N, NEW d, NEW p, NEW q,
         \A x \in N : q[x] = p[x] /\ p[x] # d, q[d] # d,
         HasCycle(N \cup {d}, q)
  PROVE  HasCycle(N, p)
<1>1. PICK S \in SUBSET (N \cup {d}) : S # {} /\ \A x \in S : q[x] \in S
  BY DEF HasCycle
<1>. DEFINE T == S \cap N
<1>2. CASE d \in N
  BY <1>1, <1>2 DEF HasCycle
<1>3. CASE d \notin N
  <2>1. \A x \in T : p[x] \in T
    BY <1>1
  <2>2. T # {}
    BY <1>1
  <2>. QED
    BY <2>1, <2>2 DEF HasCycle
<1>. QED
  BY <1>2, <1>3

(***************************************************************************)
(* What is not below a Domain is outside a set that has the Domain and,    *)
(* with a parent, its children.                                            *)
(***************************************************************************)
LEMMA NotBelow ==
  ASSUME NEW b \in Existing, NEW x, x \notin Below(b)
  PROVE  \E D : /\ b \in D /\ x \notin D
               /\ \A z \in Existing : ParentOf[z] \in D => z \in D
<1>1. \A z \in Existing : ParentOf[z] = docs[z].parent
  BY DEF ParentOf
<1>2. CASE x \notin Existing
  BY <1>2
<1>3. CASE x \in Existing
  BY <1>1, <1>3 DEF Below
<1>. QED
  BY <1>2, <1>3

\* The parents after a change of a's parent, and after one of b's as well.
Moved(a, x) == [z \in Existing |-> IF z = a THEN x ELSE ParentOf[z]]

BothMoved(a, x, b, y) ==
  [z \in Existing |-> IF z = b THEN y ELSE IF z = a THEN x ELSE ParentOf[z]]

(***************************************************************************)
(* Two moves, each of which closes no cycle by itself, close none together *)
(* when one does not go below what the other one moves: the nodes of a     *)
(* cycle of both, without those below, are a cycle of the first alone.     *)
(***************************************************************************)
LEMMA TwoMoves ==
  ASSUME NEW a \in Existing, NEW b \in Existing, a # b, NEW x, NEW y,
         x \notin Below(b),
         ~HasCycle(Existing, Moved(a, x)), ~HasCycle(Existing, Moved(b, y))
  PROVE  ~HasCycle(Existing, BothMoved(a, x, b, y))
<1>. DEFINE f == Moved(a, x)
            g == Moved(b, y)
            h == BothMoved(a, x, b, y)
<1>3. \A z \in Existing :
       /\ f[z] = IF z = a THEN x ELSE ParentOf[z]
       /\ g[z] = IF z = b THEN y ELSE ParentOf[z]
       /\ h[z] = IF z = b THEN y ELSE IF z = a THEN x ELSE ParentOf[z]
  BY DEF Moved, BothMoved
<1>4. ~HasCycle(Existing, f) /\ ~HasCycle(Existing, g)
  OBVIOUS
<1>. HIDE DEF f, g, h
<1>. DEFINE N == Existing
            p == ParentOf
<1>0. PICK D : b \in D /\ x \notin D /\ \A z \in N : p[z] \in D => z \in D
  BY NotBelow
<1>. HIDE DEF N, p
<1>. SUFFICES ASSUME NEW S \in SUBSET N, S # {}, \A z \in S : h[z] \in S
              PROVE  FALSE
  BY DEF HasCycle, N, h
<1>1. CASE a \notin S
  <2>1. \A z \in S : g[z] \in S
    BY <1>3, <1>1 DEF N
  <2>. QED
    BY <1>4, <2>1 DEF HasCycle, N
<1>2. CASE a \in S
  <2>. DEFINE T == S \ D
  <2>1. x \in T
    BY <1>0, <1>3, <1>2 DEF N
  <2>2. ASSUME NEW z \in T PROVE f[z] \in T
    <3>1. z \in N /\ z # b /\ h[z] \in S /\ f[z] = h[z]
      BY <1>0, <1>3 DEF N
    <3>2. h[z] \notin D
      BY <1>0, <1>3, <3>1 DEF N, p
    <3>. QED
      BY <3>1, <3>2
  <2>3. T \in SUBSET N /\ T # {}
    BY <2>1
  <2>. QED
    BY <1>4, <2>2, <2>3 DEF HasCycle, N
<1>. QED
  BY <1>1, <1>2

(***************************************************************************)
(* A world of roots is a forest.                                           *)
(***************************************************************************)
LEMMA ForestInit == Init => ParentsBorn /\ Sound
<1>. SUFFICES ASSUME Init PROVE ParentsBorn /\ Sound
  OBVIOUS
<1>1. \A c \in Commands : ~InFlight(c) /\ ~Writing(c)
  BY DEF Init, None, InFlight, Stages, Writing
<1>2. \A d \in Existing : docs[d].parent = Null
  BY DEF Init, Existing
<1>3. Acyclic
  <2>1. \A x \in Existing : ParentOf[x] = Null
    BY <1>2 DEF ParentOf
  <2>2. Existing \subseteq Domains
    BY DEF Existing
  <2>3. ~HasCycle(Existing, ParentOf)
    BY <2>1, <2>2, DomainTreeAssumption DEF HasCycle
  <2>. QED
    BY <2>3 DEF Acyclic, Loads
<1>4. ParentsBorn
  <2>1. \A d \in Domains : docs[d] \in Documents => docs[d].parent = Null
    BY <1>2, DocumentAssumption DEF Existing
  <2>. QED
    BY <1>1, <2>1, DomainTreeAssumption DEF ParentsBorn, Born
<1>. QED
  BY <1>1, <1>3, <1>4 DEF Sound, MovesUnderWay

(***************************************************************************)
(* Steps that change no document and only end commands.                    *)
(***************************************************************************)
LEMMA ForestUntouched ==
  ASSUME ParentsBorn, UNCHANGED docs,
         \A e \in Commands : cmd'[e] = cmd[e] \/ cmd'[e] = Done
  PROVE  ParentsBorn' /\ (Sound => Sound')
<1>1. \A e \in Commands : InFlight(e)' => cmd'[e] = cmd[e] /\ InFlight(e)
  BY DEF InFlight, Done, Stages
<1>2. ParentsBorn'
  BY <1>1 DEF ParentsBorn, Born
<1>. SUFFICES ASSUME Sound PROVE Sound'
  BY <1>2
<1>4. \A e \in MovesUnderWay' : ~HasCycle(Existing', Landed(e)')
  <2>1. ASSUME NEW e \in Commands, Writing(e)', cmd'[e].kind = "move"
        PROVE  ~HasCycle(Existing, Landed(e))'
    <3>1. cmd'[e] = cmd[e] /\ Writing(e)
      BY <1>1, <2>1 DEF Writing, InFlight, Stages
    <3>2. Existing' = Existing /\ Landed(e)' = Landed(e)
      BY <3>1 DEF Existing, Landed
    <3>. QED
      BY <2>1, <3>1, <3>2 DEF Sound, MovesUnderWay, HasCycle
  <2>. QED
    BY <2>1 DEF MovesUnderWay
<1>5. Acyclic'
  BY DEF Sound, Acyclic, Loads, HasCycle, ParentOf, Existing
<1>. QED
  BY <1>4, <1>5 DEF Sound

(***************************************************************************)
(* A command arrives: it names a parent that is there.                     *)
(***************************************************************************)
LEMMA ForestSubmit ==
  ASSUME TreeInv, ParentsBorn, NEW c \in Commands, NEW p \in Parents,
         \/ SubmitCreate(c, p)
         \/ \E k \in Kinds, d \in Domains : Submit(c, k, d, p)
  PROVE  ParentsBorn' /\ (Sound => Sound')
<1>. DEFINE o == cmd'[c]
<1>1. /\ o.stage = "queued" /\ UNCHANGED docs /\ p \in Existing \cup {Null}
      /\ o.parent = p /\ o.write = Unborn
      /\ o.base \in Documents => \E d \in Domains : o.base = docs[d]
      /\ \A e \in Commands : e # c => cmd'[e] = cmd[e]
  BY DocumentAssumption DEF TreeInv, TypeOK, SubmitCreate, Submit
<1>. HIDE DEF o
<1>2. Born(p)
  BY <1>1, DomainTreeAssumption DEF Born, Existing
<1>3. ParentsBorn'
  BY <1>1, <1>2, DocumentAssumption DEF ParentsBorn, Born, InFlight, o
<1>. SUFFICES ASSUME Sound PROVE Sound'
  BY <1>3
<1>5. \A e \in MovesUnderWay' : ~HasCycle(Existing', Landed(e)')
  <2>1. ASSUME NEW e \in Commands, Writing(e)', cmd'[e].kind = "move"
        PROVE  ~HasCycle(Existing, Landed(e))'
    <3>1. cmd'[e] = cmd[e] /\ Writing(e)
      BY <1>1, <2>1 DEF Writing, o
    <3>2. Existing' = Existing /\ Landed(e)' = Landed(e)
      BY <1>1, <3>1 DEF Existing, Landed
    <3>. QED
      BY <2>1, <3>1, <3>2 DEF Sound, MovesUnderWay, HasCycle
  <2>. QED
    BY <2>1 DEF MovesUnderWay
<1>6. Acyclic'
  BY <1>1 DEF Sound, Acyclic, Loads, HasCycle, ParentOf, Existing
<1>. QED
  BY <1>5, <1>6 DEF Sound

(***************************************************************************)
(* validateParentChange looks at the hierarchy the move will leave.        *)
(***************************************************************************)
LEMMA ForestStart ==
  ASSUME TreeInv, ParentsBorn, NEW c \in Commands, Start(c)
  PROVE  ParentsBorn' /\ (Sound => Sound')
<1>. DEFINE o == cmd[c]
<1>1. Queued(c) /\ Accepted(o) /\ ~NoOp(o) /\ UNCHANGED docs /\ o \in Orders
  BY InFlightOrders DEF Start, TreeInv, InFlight, Queued, Stages
<1>2. /\ cmd'[c].kind = o.kind /\ cmd'[c].target = o.target
      /\ cmd'[c].parent = o.parent /\ cmd'[c].stage = "writing"
      /\ cmd'[c].write = Written(o)
      /\ cmd'[c].base = o.base \/ (o.kind # "create" /\ cmd'[c].base = docs[o.target])
      /\ \A e \in Commands : e # c => cmd'[e] = cmd[e]
  <2>. DEFINE b == IF o.base = Unborn /\ o.kind # "create" THEN docs[o.target] ELSE o.base
  <2>1. cmd' = [cmd EXCEPT ![c] = [o EXCEPT !.stage = "writing", !.base = b,
                                            !.write = Written(o)]]
    BY DEF Start
  <2>2. cmd'[c] = [stage |-> "writing", kind |-> o.kind, target |-> o.target,
                   parent |-> o.parent, base |-> b, write |-> Written(o)]
    BY <1>1, <2>1, OrderWritten DEF TreeInv, TypeOK
  <2>. QED
    BY <2>1, <2>2 DEF TreeInv, TypeOK
<1>3. ParentsBorn'
  <2>1. Born(Written(o).parent)
    <3>1. CASE o.kind = "create"
      BY <1>1, <3>1 DEF ParentsBorn, Written, InFlight, Queued, Stages
    <3>2. CASE o.kind # "create"
      BY <1>1, <3>2, AcceptedRead, WrittenDocument
         DEF ParentsBorn, InFlight, Queued, Stages
    <3>. QED
      BY <3>1, <3>2
  <2>2. Born(o.parent) /\ (o.base \in Documents => Born(o.base.parent))
    BY <1>1 DEF ParentsBorn, InFlight, Queued, Stages
  <2>3. o.kind # "create" => o.target \in Domains
    BY <1>1, AcceptedRead
  <2>4. \A p : Born(p)' <=> Born(p)
    BY <1>1 DEF Born
  <2>5. ASSUME NEW e \in Commands, InFlight(e)'
        PROVE  /\ Born(cmd'[e].parent)
               /\ cmd'[e].base \in Documents => Born(cmd'[e].base.parent)
               /\ cmd'[e].write \in Documents => Born(cmd'[e].write.parent)
    <3>1. CASE e = c
      BY <1>2, <2>1, <2>2, <2>3, <3>1 DEF ParentsBorn
    <3>2. CASE e # c
      BY <1>2, <2>5, <3>2 DEF ParentsBorn, InFlight
    <3>. QED
      BY <3>1, <3>2
  <2>. QED
    BY <1>1, <2>4, <2>5 DEF ParentsBorn
<1>. SUFFICES ASSUME Sound PROVE Sound'
  BY <1>3
<1>5. \A e \in MovesUnderWay' : ~HasCycle(Existing', Landed(e)')
  <2>0. Existing' = Existing
    BY <1>1 DEF Existing
  <2>1. ASSUME NEW e \in Commands, Writing(e)', cmd'[e].kind = "move"
        PROVE  ~HasCycle(Existing, Landed(e)')
    <3>1. CASE e # c
      <4>1. cmd'[e] = cmd[e] /\ Writing(e)
        BY <1>2, <2>1, <3>1 DEF Writing
      <4>2. Landed(e)' = Landed(e)
        BY <1>1, <4>1 DEF Existing, Landed
      <4>. QED
        BY <2>1, <4>1, <4>2 DEF Sound, MovesUnderWay
    <3>2. CASE e = c
      <4>1. o.kind = "move" /\ o.parent # docs[o.target].parent
        BY <1>1, <1>2, <2>1, <3>2 DEF NoOp
      <4>2. MoveAccepted(o.target, o.parent) /\ Written(o).parent = o.parent
        BY <1>1, <4>1, WrittenDocument DEF Accepted
      <4>3. ~HasCycle(Existing, [ParentOf EXCEPT ![o.target] = o.parent])
        BY <4>2 DEF MoveAccepted
      <4>4. \A x \in Existing :
              Landed(c)'[x] = [ParentOf EXCEPT ![o.target] = o.parent][x]
        BY <1>1, <1>2, <4>2 DEF Landed, ParentOf, Existing
      <4>. DEFINE q == Landed(c)'
                  p == [ParentOf EXCEPT ![o.target] = o.parent]
      <4>5. ~HasCycle(Existing, p) /\ \A x \in Existing : q[x] = p[x]
        BY <4>3, <4>4
      <4>. HIDE DEF p, q
      <4>6. ~HasCycle(Existing, q)
        BY <4>5, CycleInFewer
      <4>. QED
        BY <3>2, <4>6 DEF q
    <3>. QED
      BY <3>1, <3>2
  <2>. QED
    BY <2>0, <2>1 DEF MovesUnderWay, HasCycle
<1>6. Acyclic'
  BY <1>1 DEF Sound, Acyclic, Loads, HasCycle, ParentOf, Existing
<1>. QED
  BY <1>5, <1>6 DEF Sound

(***************************************************************************)
(* Deleting a document takes a node out of the forest.                     *)
(***************************************************************************)
LEMMA ForestDelete ==
  ASSUME TreeInv, ParentsBorn, NEW d \in Domains, Delete(d)
  PROVE  ParentsBorn' /\ (Sound => Sound')
<1>1. /\ docs' = [docs EXCEPT ![d] = Gone] /\ UNCHANGED cmd
  BY DEF Delete
<1>2. /\ Existing' \subseteq Existing
      /\ \A x \in Existing' : docs'[x] = docs[x]
      /\ \A x \in Domains : docs'[x] = docs[x] \/ docs'[x] = Gone
  BY <1>1 DEF Existing, TreeInv, TypeOK
<1>3. \A p : Born(p) => Born(p)'
  BY <1>2, DomainTreeAssumption DEF Born
<1>4. ParentsBorn'
  BY <1>1, <1>2, <1>3, DocumentAssumption DEF ParentsBorn, InFlight
<1>. SUFFICES ASSUME Sound PROVE Sound'
  BY <1>4
<1>6. \A e \in MovesUnderWay' : ~HasCycle(Existing', Landed(e)')
  <2>1. ASSUME NEW e \in Commands, Writing(e), cmd[e].kind = "move"
        PROVE  ~HasCycle(Existing', Landed(e)')
    <3>1. ~HasCycle(Existing, Landed(e))
      BY <2>1 DEF Sound, MovesUnderWay
    <3>2. \A x \in Existing' : Landed(e)'[x] = Landed(e)[x]
      BY <1>1, <1>2 DEF Landed
    <3>. QED
      BY <1>2, <3>1, <3>2, CycleInFewer
  <2>. QED
    BY <1>1, <2>1 DEF MovesUnderWay, Writing, HasCycle
<1>7. Acyclic'
  <2>1. \A x \in Existing' : ParentOf'[x] = ParentOf[x]
    BY <1>2 DEF ParentOf
  <2>2. ~HasCycle(Existing, ParentOf)
    BY DEF Sound, Acyclic, Loads
  <2>3. ~HasCycle(Existing', ParentOf')
    BY <1>2, <2>1, <2>2, CycleInFewer
  <2>. QED
    BY <2>3 DEF Acyclic, Loads, HasCycle
<1>. QED
  BY <1>6, <1>7 DEF Sound

(***************************************************************************)
(* A write lands: an accepted move, a new leaf, or a document that keeps   *)
(* its parent; a move that still waits stays acceptable in the last two,   *)
(* and in the first because the two do not cross.                          *)
(***************************************************************************)
LEMMA ForestLand ==
  ASSUME TreeInv, ParentsBorn,
         NEW c \in Commands, NEW d \in Domains, Land(c, d)
  PROVE  ParentsBorn' /\ (Sound /\ NoneCross => Sound')
<1>. DEFINE w == cmd[c].write
<1>1. /\ w \in Documents
      /\ docs' = [docs EXCEPT ![d] = w]
      /\ \/ cmd[c].kind = "create" /\ docs[d] = Unborn
         \/ /\ cmd[c].kind # "create" /\ d = cmd[c].target
            /\ docs[d] \in Documents /\ docs[d] = cmd[c].base
  BY LandReplaces
<1>2. /\ Writing(c) /\ cmd'[c] = Done /\ \A e \in Commands : e # c => cmd'[e] = cmd[e]
  BY DEF Land, TreeInv, TypeOK
<1>. HIDE DEF w
<1>3. /\ docs'[d] = w /\ \A x \in Domains : x # d => docs'[x] = docs[x]
      /\ Existing' = Existing \cup {d}
  BY <1>1, DocumentAssumption DEF Existing, TreeInv, TypeOK
<1>4. \A e \in Commands : InFlight(e)' => e # c /\ cmd'[e] = cmd[e] /\ InFlight(e)
  BY <1>2 DEF InFlight, Done, Stages
<1>5. Born(w.parent)
  BY <1>1, <1>2 DEF ParentsBorn, InFlight, Writing, Stages, w
<1>6. \A p : Born(p) => Born(p)'
  BY <1>1, <1>3, DocumentAssumption DEF Born
<1>7. ParentsBorn'
  BY <1>3, <1>4, <1>5, <1>6 DEF ParentsBorn
<1>. SUFFICES ASSUME Sound, NoneCross PROVE Sound'
  BY <1>7
<1>9. w.parent # d \/ docs[d] # Unborn
  BY <1>5 DEF Born
<1>10. \A x \in Existing : docs[x].parent # d \/ docs[d] # Unborn
  BY ExistingDocuments DEF TreeInv, ParentsBorn, Born
<1>11. ASSUME NEW e \in Commands, Writing(e), cmd[e].kind = "move", e # c
       PROVE  ~HasCycle(Existing', Landed(e)')
  <2>1. ~HasCycle(Existing, Landed(e)) /\ cmd'[e] = cmd[e]
    BY <1>2, <1>11 DEF Sound, MovesUnderWay
  <2>2. /\ cmd[e].target \in Domains /\ docs[cmd[e].target] # Unborn
        /\ cmd[e].write \in Documents
    BY <1>11, DocumentAssumption, DomainTreeAssumption DEF TreeInv, Writes
  <2>3. cmd[e].target # d
    <3>1. CASE cmd[c].kind = "create"
      BY <1>1, <2>2, <3>1
    <3>2. CASE cmd[c].kind # "create"
      BY <1>1, <1>2, <1>11, <3>2 DEF TreeInv, Apart
    <3>. QED
      BY <3>1, <3>2
  <2>4. Born(cmd[e].write.parent)
    BY <1>11, <2>2 DEF ParentsBorn, InFlight, Writing, Stages
  <2>5. CASE cmd[c].kind = "create"
    <3>1. docs[d] = Unborn /\ d \notin Existing
      BY <1>1, <2>5, DocumentAssumption DEF Existing
    <3>2. \A x \in Existing : Landed(e)'[x] = Landed(e)[x] /\ Landed(e)[x] # d
      BY <1>3, <1>10, <2>1, <2>4, <3>1 DEF Landed, Born, Existing
    <3>3. Landed(e)'[d] = w.parent
      BY <1>3, <2>1, <2>3 DEF Landed
    <3>4. ~HasCycle(Existing \cup {d}, Landed(e)')
      <4>. DEFINE p == Landed(e)
                  q == Landed(e)'
      <4>1. /\ ~HasCycle(Existing, p) /\ q[d] # d
            /\ \A x \in Existing : q[x] = p[x] /\ p[x] # d
        BY <1>9, <2>1, <3>1, <3>2, <3>3
      <4>. HIDE DEF p, q
      <4>2. ~HasCycle(Existing \cup {d}, q)
        BY <4>1, CycleWithLeaf
      <4>. QED
        BY <4>2 DEF q
    <3>. QED
      BY <1>3, <3>4
  <2>6. CASE cmd[c].kind \notin {"create", "move"}
    <3>1. w.parent = docs[d].parent
      BY <1>1, <1>2, <2>6 DEF TreeInv, Writes, w
    <3>2. Existing' = Existing
      BY <1>1, <1>3, <2>6, DocumentAssumption DEF Existing
    <3>3. \A x \in Existing : Landed(e)'[x] = Landed(e)[x]
      BY <1>3, <2>1, <2>3, <3>1, <3>2 DEF Landed, Existing
    <3>. QED
      BY <2>1, <3>2, <3>3, CycleInFewer
  <2>7. CASE cmd[c].kind = "move"
    <3>. DEFINE b == cmd[e].target
                x == w.parent
                y == cmd[e].write.parent
                f == Landed(c)
                g == Landed(e)
                h == Landed(e)'
    <3>1. d \in Existing /\ d = cmd[c].target /\ Existing' = Existing
      BY <1>1, <1>3, <2>7, DocumentAssumption DEF Existing
    <3>2. \A z \in Existing :
            /\ f[z] = IF z = d THEN x ELSE ParentOf[z]
            /\ g[z] = IF z = b THEN y ELSE ParentOf[z]
            /\ h[z] = IF z = b THEN y ELSE IF z = d THEN x ELSE ParentOf[z]
      BY <1>3, <2>1, <3>1 DEF Landed, ParentOf, Existing, w
    <3>3. ~HasCycle(Existing, f)
      BY <1>2, <2>7 DEF Sound, MovesUnderWay
    <3>4. ~HasCycle(Existing, g)
      BY <2>1
    <3>5. x \notin Below(b) \/ y \notin Below(d)
      BY <1>2, <1>11, <2>7, <3>1 DEF NoneCross, MovesUnderWay, GoesBelow, w
    <3>6. b # d
      BY <2>3
    <3>. HIDE DEF b, x, y, f, g, h
    <3>7. CASE b \notin Existing
      <4>1. \A z \in Existing : h[z] = f[z]
        BY <3>2, <3>7
      <4>2. ~HasCycle(Existing, h)
        BY <3>3, <4>1, CycleInFewer
      <4>. QED
        BY <3>1, <4>2 DEF h
    <3>8. CASE b \in Existing
      <4>1. ~HasCycle(Existing, h)
        <5>0. ~HasCycle(Existing, Moved(d, x)) /\ ~HasCycle(Existing, Moved(b, y))
          <6>1. \A z \in Existing : f[z] = Moved(d, x)[z] /\ g[z] = Moved(b, y)[z]
            BY <3>2 DEF Moved
          <6>. QED
            BY <3>3, <3>4, <6>1, CycleInFewer
        <5>1. CASE x \notin Below(b)
          <6>1. \A z \in Existing : h[z] = BothMoved(d, x, b, y)[z]
            BY <3>2 DEF BothMoved
          <6>2. ~HasCycle(Existing, BothMoved(d, x, b, y))
            BY <3>1, <3>6, <3>8, <5>0, <5>1, TwoMoves
          <6>. QED
            BY <6>1, <6>2, CycleInFewer
        <5>2. CASE y \notin Below(d)
          <6>1. \A z \in Existing : h[z] = BothMoved(b, y, d, x)[z]
            BY <3>2, <3>6 DEF BothMoved
          <6>2. ~HasCycle(Existing, BothMoved(b, y, d, x))
            BY <3>1, <3>6, <3>8, <5>0, <5>2, TwoMoves
          <6>. QED
            BY <6>1, <6>2, CycleInFewer
        <5>. QED
          BY <3>5, <5>1, <5>2
      <4>. QED
        BY <3>1, <4>1 DEF h
    <3>. QED
      BY <3>7, <3>8
  <2>. QED
    BY <2>5, <2>6, <2>7
<1>12. \A e \in MovesUnderWay' : ~HasCycle(Existing', Landed(e)')
  BY <1>4, <1>11 DEF MovesUnderWay, Writing, InFlight, Stages, HasCycle
<1>13. ~HasCycle(Existing', ParentOf')
  <2>0. ~HasCycle(Existing, ParentOf)
    BY DEF Sound, Acyclic, Loads
  <2>1. CASE cmd[c].kind = "create"
    <3>1. docs[d] = Unborn /\ d \notin Existing
      BY <1>1, <2>1, DocumentAssumption DEF Existing
    <3>2. \A x \in Existing : ParentOf'[x] = ParentOf[x] /\ ParentOf[x] # d
      BY <1>3, <1>10, <3>1 DEF ParentOf, Existing
    <3>3. ParentOf'[d] = w.parent
      BY <1>3 DEF ParentOf
    <3>4. ~HasCycle(Existing \cup {d}, ParentOf')
      <4>. DEFINE p == ParentOf
                  q == ParentOf'
      <4>1. /\ ~HasCycle(Existing, p) /\ q[d] # d
            /\ \A x \in Existing : q[x] = p[x] /\ p[x] # d
        BY <1>9, <2>0, <3>1, <3>2, <3>3
      <4>. HIDE DEF p, q
      <4>2. ~HasCycle(Existing \cup {d}, q)
        BY <4>1, CycleWithLeaf
      <4>. QED
        BY <4>2 DEF q
    <3>. QED
      BY <1>3, <3>4
  <2>2. CASE cmd[c].kind # "create"
    <3>1. d \in Existing /\ d = cmd[c].target /\ Existing' = Existing
      BY <1>1, <1>3, <2>2, DocumentAssumption DEF Existing
    <3>2. CASE cmd[c].kind = "move"
      <4>1. \A x \in Existing : ParentOf'[x] = Landed(c)[x]
        BY <1>3, <3>1 DEF ParentOf, Landed, Existing, w
      <4>2. ~HasCycle(Existing, Landed(c))
        BY <1>2, <3>2 DEF Sound, MovesUnderWay
      <4>. QED
        BY <3>1, <4>1, <4>2, CycleInFewer
    <3>3. CASE cmd[c].kind # "move"
      <4>1. w.parent = docs[d].parent
        BY <1>1, <1>2, <2>2, <3>3 DEF TreeInv, Writes, w
      <4>2. \A x \in Existing : ParentOf'[x] = ParentOf[x]
        BY <1>3, <3>1, <4>1 DEF ParentOf, Existing
      <4>. QED
        BY <2>0, <3>1, <4>2, CycleInFewer
    <3>. QED
      BY <3>2, <3>3
  <2>. QED
    BY <2>1, <2>2
<1>. QED
  BY <1>12, <1>13 DEF Sound, Acyclic, Loads, HasCycle

(***************************************************************************)
(* Every step keeps the forest where no two moves cross.                   *)
(***************************************************************************)
LEMMA NextKeepsForest ==
  ASSUME TreeInv, ParentsBorn, [Next]_vars
  PROVE  ParentsBorn' /\ (Sound /\ NoneCross => Sound')
<1>1. CASE \/ UNCHANGED vars
           \/ \E c \in Commands : Refuse(c) \/ WriteFails(c)
           \/ \E k \in Clients : Query(k)
  <2>1. UNCHANGED docs /\ \A e \in Commands : cmd'[e] = cmd[e] \/ cmd'[e] = Done
    BY <1>1 DEF vars, Refuse, WriteFails, Query, TreeInv, TypeOK
  <2>. QED
    BY <2>1, ForestUntouched
<1>. QED
  BY <1>1, ForestSubmit, ForestStart, ForestLand, ForestDelete DEF Next

LEMMA BornAlways == Spec => []ParentsBorn
BY TreeInvariant, ForestInit, NextKeepsForest, PTL DEF Spec

(***************************************************************************)
(* However many moves are under way, the checks of the hierarchy validator *)
(* before each write leave one way to close a cycle: two moves, each to a  *)
(* place below what the other one moves (validateParentChange compares     *)
(* with what has landed; the keys are those of the Domains moved).  Where  *)
(* no two cross, every step leaves a forest that each move under way may   *)
(* change by itself.                                                       *)
(***************************************************************************)
THEOREM CyclesTakeCrossingMoves == Spec => OnlyCrossingMovesClose
<1>1. TreeInv /\ ParentsBorn /\ [Next]_vars => [Sound /\ NoneCross => Sound']_vars
  BY NextKeepsForest
<1>2. Spec => [][Sound /\ NoneCross => Sound']_vars
  BY <1>1, TreeInvariant, BornAlways, PTL DEF Spec
<1>. QED
  BY <1>2 DEF OnlyCrossingMovesClose

(***************************************************************************)
(* So a world of roots stays a forest through any number of moves, checked *)
(* and written at the same time, as long as no two of them cross.  That    *)
(* they do is what no key keeps from happening (TreeCycle).                *)
(***************************************************************************)
THEOREM HierarchyIsAForest == Spec /\ []NoneCross => []Acyclic
<1>1. Init => Sound
  BY ForestInit
<1>2. TreeInv /\ ParentsBorn /\ NoneCross /\ Sound /\ [Next]_vars => Sound'
  BY NextKeepsForest
<1>3. Sound => Acyclic
  BY DEF Sound
<1>. QED
  BY <1>1, <1>2, <1>3, TreeInvariant, BornAlways, PTL DEF Spec
=============================================================================
