----------------------------- MODULE DomainTree -----------------------------
(***************************************************************************)
(* The Domains of a world: DomainRepository over Foundry's journal         *)
(* entries, its derived DomainIndex, the hierarchy validator, and the      *)
(* domain:* commands that reach them through the MutationCoordinator.      *)
(*                                                                         *)
(* A document is changed by an asynchronous update: the repository checks  *)
(* revision and hierarchy against the documents it sees, sends the write,  *)
(* and goes on when the server has acknowledged it.  What keeps the checks *)
(* valid meanwhile is the set of lock keys the command holds.  Every       *)
(* client has an index, built by its first query; the writes all happen on *)
(* the authority's client, and Foundry replicates the documents.           *)
(***************************************************************************)
EXTENDS Naturals, FiniteSets

CONSTANTS Domains,      \* ids of journal entries; the uuid is "JournalEntry." + id
          Commands,     \* ids of commands
          Clients,      \* clients that query Domains
          Authority,    \* the client that executes commands
          Unborn,       \* the id is not in use yet
          Gone,         \* the journal entry was deleted
          Null,         \* parentDomainUuid = null
          MaxMoves,     \* bound: changes of parent in flight at a time
          MaxDeletes    \* bound: journal entries deleted in Foundry's sidebar

ASSUME DomainTreeAssumption ==
  /\ Authority \in Clients
  /\ Unborn \notin Domains /\ Gone \notin Domains /\ Null \notin Domains
  /\ Unborn # Gone
  /\ IsFiniteSet(Commands)
  /\ MaxMoves \in Nat /\ MaxDeletes \in Nat

VARIABLES docs,      \* the documents, as every client's replica shows them
          cmd,       \* the commands
          ready,     \* clients whose index is built (indexReady)
          index,     \* per client, the entries of its index
          deletes    \* deletions so far

vars == <<docs, cmd, ready, index, deletes>>

-----------------------------------------------------------------------------
(* Documents and entries.                                                  *)

Parents == Domains \cup {Null}
Lifecycles == {"active", "archived"}
Documents == [revision : Nat, parent : Parents, lifecycle : Lifecycles]
Entries == [parent : Parents, lifecycle : Lifecycles]

ASSUME DocumentAssumption == Unborn \notin Documents /\ Gone \notin Documents

Entry(doc) == [parent |-> doc.parent, lifecycle |-> doc.lifecycle]

Existing == {d \in Domains : docs[d] \notin {Unborn, Gone}}

\* What toEntry gives for every document that is listed.
Indexed == [d \in Domains |-> IF d \in Existing THEN Entry(docs[d]) ELSE Unborn]

\* A hierarchy, as the parent of each member of a set of nodes, has a cycle
\* when some of its nodes all have their parent among themselves: walking up
\* from one of them never leaves them.
HasCycle(nodes, parent) ==
  \E S \in SUBSET nodes : S # {} /\ \A d \in S : parent[d] \in S

ParentOf == [d \in Existing |-> docs[d].parent]

\* loadAllDocuments succeeds.
Loads == ~HasCycle(Existing, ParentOf)

-----------------------------------------------------------------------------
(* Commands.  A rename or a move carries the document its client had read; *)
(* archive, restore and the saves of the other services (edit) read it     *)
(* after they have their locks.                                            *)

Kinds == {"create", "rename", "move", "archive", "restore", "edit"}
OnPayload == {"rename", "move"}

None == [stage |-> "new"]
Stages == {"queued", "writing"}
Orders == [stage : Stages, kind : Kinds, target : Domains \cup {Unborn},
           parent : Parents, base : Documents \cup {Unborn},
           write : Documents \cup {Unborn}]
Done == [stage |-> "done"]

Queued(c) == cmd[c].stage = "queued"
Writing(c) == cmd[c].stage = "writing"
InFlight(c) == cmd[c].stage \in Stages

\* Mutant: Archive and restore lock the uuid, as create does for the parent.
KeysUuid(o) ==
  IF o.kind = "create"
  THEN {<<"root">>} \cup (IF o.parent = Null THEN {} ELSE {<<"uuid", o.parent>>})
  ELSE {<<IF o.kind \in {"archive", "restore"} THEN "uuid" ELSE "id", o.target>>}

\* A parent is locked by its uuid, a document by its id.
Keys(o) ==
  IF o.kind = "create"
  THEN {<<"root">>} \cup (IF o.parent = Null THEN {} ELSE {<<"uuid", o.parent>>})
  ELSE {<<"id", o.target>>}

Free(c) == \A e \in Commands \ {c} : Writing(e) => Keys(cmd[c]) \cap Keys(cmd[e]) = {}

\* validateCreateParent: the new parent exists and is not archived.
ParentAccepts(p) ==
  p # Null => Loads /\ p \in Existing /\ docs[p].lifecycle = "active"

\* Mutant: Only the direct parent is looked at.
MoveAcceptedDirect(d, p) ==
  /\ Loads
  /\ p # Null => p \in Existing /\ p # d /\ docs[p].lifecycle = "active"
                 /\ docs[p].parent # d

\* validateParentChange: moving d under p leaves a forest.
MoveAccepted(d, p) ==
  /\ Loads
  /\ p # Null => p \in Existing /\ p # d /\ docs[p].lifecycle = "active"
  /\ ~HasCycle(Existing, [ParentOf EXCEPT ![d] = p])

\* The document a command saves is the one it read, or the one it was sent.
Read(o) == IF o.kind \in OnPayload THEN o.base ELSE docs[o.target]

\* save's checks: there is such a document, at the revision the caller read,
\* and a change of parent is a legal one.
Accepted(o) ==
  IF o.kind = "create" THEN ParentAccepts(o.parent)
  ELSE /\ o.target \in Existing
       /\ Read(o).revision = docs[o.target].revision
       /\ o.kind = "restore" => docs[o.target].lifecycle = "archived"
       /\ o.kind = "move" /\ o.parent # docs[o.target].parent
            => MoveAccepted(o.target, o.parent)

\* Nothing to write: the same parent again.
NoOp(o) == o.kind = "move" /\ o.parent = docs[o.target].parent

\* Mutant: A restored Domain is left inactive, a lifecycle of the schema no code expects.
WrittenInactive(o) ==
  IF o.kind = "create"
  THEN [revision |-> 0, parent |-> o.parent, lifecycle |-> "active"]
  ELSE [revision |-> docs[o.target].revision + 1,
        parent |-> IF o.kind = "move" THEN o.parent ELSE Read(o).parent,
        lifecycle |-> CASE o.kind = "archive" -> "archived"
                        [] o.kind = "restore" -> "inactive"
                        [] OTHER -> Read(o).lifecycle]

\* The record that is written.
Written(o) ==
  IF o.kind = "create"
  THEN [revision |-> 0, parent |-> o.parent, lifecycle |-> "active"]
  ELSE [revision |-> docs[o.target].revision + 1,
        parent |-> IF o.kind = "move" THEN o.parent ELSE Read(o).parent,
        lifecycle |-> CASE o.kind = "archive" -> "archived"
                        [] o.kind = "restore" -> "active"
                        [] OTHER -> Read(o).lifecycle]

\* Mutant: The index is only told of Domains it knows.
UpsertKnown(d, doc) ==
  index' = IF Authority \in ready /\ index[Authority][d] # Unborn
           THEN [index EXCEPT ![Authority][d] = Entry(doc)]
           ELSE index

\* DomainIndex.upsert, on a client whose index is built.
Upsert(d, doc) ==
  index' = IF Authority \in ready
           THEN [index EXCEPT ![Authority][d] = Entry(doc)]
           ELSE index

-----------------------------------------------------------------------------

TypeOK ==
  /\ docs \in [Domains -> Documents \cup {Unborn, Gone}]
  /\ cmd \in [Commands -> Orders \cup {None, Done}]
  /\ ready \subseteq Clients
  /\ index \in [Clients -> [Domains -> Entries \cup {Unborn}]]
  /\ deletes \in 0..MaxDeletes

\* A world with some Domains at its roots.
Init ==
  /\ \E S \in SUBSET Domains :
       docs = [d \in Domains |->
                 IF d \in S
                 THEN [revision |-> 0, parent |-> Null, lifecycle |-> "active"]
                 ELSE Unborn]
  /\ cmd = [c \in Commands |-> None]
  /\ ready = {}
  /\ index = [k \in Clients |-> [d \in Domains |-> Unborn]]
  /\ deletes = 0

Moving == {c \in Commands : InFlight(c) /\ cmd[c].kind = "move"}

\* domain:create reaches the queue of the authority.
SubmitCreate(c, p) ==
  /\ cmd[c] = None
  /\ p \in Existing \cup {Null}
  /\ cmd' = [cmd EXCEPT ![c] = [stage |-> "queued", kind |-> "create", target |-> Unborn,
                                parent |-> p, base |-> Unborn, write |-> Unborn]]
  /\ UNCHANGED <<docs, ready, index, deletes>>

\* Any other command on document d; p is the new parent of a move.
Submit(c, k, d, p) ==
  /\ cmd[c] = None
  /\ k # "create" /\ d \in Existing /\ p \in Existing \cup {Null}
  /\ IF k = "move" THEN Cardinality(Moving) < MaxMoves ELSE p = docs[d].parent
  /\ cmd' = [cmd EXCEPT ![c] = [stage |-> "queued", kind |-> k, target |-> d, parent |-> p,
                                base |-> IF k \in OnPayload THEN docs[d] ELSE Unborn,
                                write |-> Unborn]]
  /\ UNCHANGED <<docs, ready, index, deletes>>

\* The command has its locks, reads, checks and sends its write; the awaits
\* in between give way only to commands that hold other keys.
Start(c) ==
  /\ Queued(c) /\ Free(c)
  /\ Accepted(cmd[c]) /\ ~NoOp(cmd[c])
  /\ cmd' = [cmd EXCEPT ![c].stage = "writing",
                        ![c].base = IF @ = Unborn /\ cmd[c].kind # "create"
                                    THEN docs[cmd[c].target] ELSE @,
                        ![c].write = Written(cmd[c])]
  /\ UNCHANGED <<docs, ready, index, deletes>>

\* It is rejected, or there is nothing to write: the finally gives the locks
\* back.  A save with nothing to write still refreshes the index.
Refuse(c) ==
  /\ Queued(c) /\ Free(c)
  /\ Accepted(cmd[c]) => NoOp(cmd[c])
  /\ cmd' = [cmd EXCEPT ![c] = Done]
  /\ IF Accepted(cmd[c]) THEN Upsert(cmd[c].target, docs[cmd[c].target])
                         ELSE UNCHANGED index
  /\ UNCHANGED <<docs, ready, deletes>>

\* The server acknowledges: the replicas have the document, the index has
\* its entry, and the locks are given back.
Land(c, d) ==
  /\ Writing(c)
  /\ IF cmd[c].kind = "create" THEN docs[d] = Unborn
                               ELSE d = cmd[c].target /\ d \in Existing
  /\ docs' = [docs EXCEPT ![d] = cmd[c].write]
  /\ Upsert(d, cmd[c].write)
  /\ cmd' = [cmd EXCEPT ![c] = Done]
  /\ UNCHANGED <<ready, deletes>>

\* The update fails, or its document is gone: DM_DOMAIN_STORAGE_ERROR.
WriteFails(c) ==
  /\ Writing(c)
  /\ cmd' = [cmd EXCEPT ![c] = Done]
  /\ UNCHANGED <<docs, ready, index, deletes>>

\* A first query on client k builds its index, unless the hierarchy has a
\* cycle; later ones use it as it is.
Query(k) ==
  /\ k \notin ready /\ Loads
  /\ ready' = ready \cup {k}
  /\ index' = [index EXCEPT ![k] = Indexed]
  /\ UNCHANGED <<docs, cmd, deletes>>

\* A Game Master deletes a journal entry in Foundry's sidebar.
Delete(d) ==
  /\ deletes < MaxDeletes /\ d \in Existing
  /\ docs' = [docs EXCEPT ![d] = Gone]
  /\ deletes' = deletes + 1
  /\ UNCHANGED <<cmd, ready, index>>

Next ==
  \/ \E c \in Commands :
       \/ \E p \in Parents : SubmitCreate(c, p)
       \/ \E k \in Kinds, d \in Domains, p \in Parents : Submit(c, k, d, p)
       \/ Start(c)
       \/ Refuse(c)
       \/ \E d \in Domains : Land(c, d)
       \/ WriteFails(c)
  \/ \E k \in Clients : Query(k)
  \/ \E d \in Domains : Delete(d)

Spec == Init /\ [][Next]_vars

-----------------------------------------------------------------------------
(* Properties.                                                             *)

\* A write replaces the very version it was checked against: the locks keep
\* a document as it was while a command waits for the server.
WritesCurrent ==
  \A c \in Commands :
    Writing(c) /\ cmd[c].kind # "create" => docs[cmd[c].target] \in {cmd[c].base, Gone}

\* Two versions of a document with the same revision are the same version,
\* and revisions count writes: nobody's change is lost unnoticed.
RevisionsCount ==
  [][\A d \in Existing :
       docs'[d] # docs[d] /\ docs'[d] # Gone => docs'[d].revision = docs[d].revision + 1]_vars

\* The hierarchy is a forest.
Acyclic == Loads

\* Moves that were checked, and whose write is with the server.
MovesUnderWay == {c \in Commands : Writing(c) /\ cmd[c].kind = "move"}

\* The parents when the write of c has landed.
Landed(c) ==
  [d \in Existing |-> IF d = cmd[c].target THEN cmd[c].write.parent ELSE docs[d].parent]

\* The hierarchy is a forest, and stays one whichever move lands first.
Sound == Acyclic /\ \A c \in MovesUnderWay : ~HasCycle(Existing, Landed(c))

\* The Domains at and below d: those in every set that has d and, with a
\* parent, its children.
Below(d) ==
  {x \in Existing :
     \A S \in SUBSET Domains :
       d \in S /\ (\A y \in Existing : docs[y].parent \in S => y \in S) => x \in S}

GoesBelow(c, e) == cmd[c].write.parent \in Below(cmd[e].target)

\* No two moves under way go each below what the other one moves.
NoneCross ==
  \A c, e \in MovesUnderWay : c # e => ~(GoesBelow(c, e) /\ GoesBelow(e, c))

\* Moves are checked one by one, under keys that do not keep other moves
\* away: however many are under way, nothing but two that cross, in the
\* hierarchy as it then is, can close a cycle, neither a third move nor what
\* is created, written or deleted meanwhile.
OnlyCrossingMovesClose == [][Sound /\ NoneCross => Sound']_vars

\* The authority's index has the parent and the lifecycle each document has.
IndexAgrees ==
  Authority \in ready => \A d \in Existing : index[Authority][d] = Entry(docs[d])

\* A Domain is created or moved under a parent that is not archived when the
\* write lands (DM_DOMAIN_PARENT_ARCHIVED).
NewParentActive ==
  [][\A d \in Domains :
       LET was == IF d \in Existing THEN docs[d].parent ELSE Null
           is == IF docs'[d] \in {Unborn, Gone} THEN Null ELSE docs'[d].parent
       IN is # was /\ is \in Existing => docs[is].lifecycle = "active"]_vars

\* A Domain can always be detached from its parent by who knows its current
\* version: this is how a broken hierarchy is repaired.
DetachAccepted ==
  [][\A c \in Commands :
       Queued(c) /\ cmd'[c] = Done /\ cmd[c].kind = "move" /\ cmd[c].parent = Null
                 /\ cmd[c].base = docs[cmd[c].target]
         => NoOp(cmd[c])]_vars

\* The children of a Domain a client finds by its index.
Children(k, p) == {d \in Domains : index[k][d] # Unborn /\ index[k][d].parent = p}

\* A query for children finds them all and fails on none, on every client.
SeesAllChildren ==
  \A k \in ready, p \in Domains :
    Children(k, p) = {d \in Existing : docs[d].parent = p}
=============================================================================
