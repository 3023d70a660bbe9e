---------------------- MODULE ProviderAccountsProofs ----------------------
(***************************************************************************)
(* ProviderAccounts is of its types and books nothing twice, for any       *)
(* accounts, commands and steps of parents and any number of failures and  *)
(* restarts; and, as long as no restart loses a compensation or comes half *)
(* way through a recovery, the journal tells the truth and the provider    *)
(* agrees with the ledger.                                                 *)
(*                                                                         *)
(* A command appends an entry without looking whether it is there.  It is  *)
(* not: a command runs once, no two that run work for the same reference,  *)
(* and what a recovery appends it finds missing first, except for the      *)
(* entry that compensates what it has just reverted: it rebuilt the        *)
(* original itself, and where the original is not no compensation is.      *)
(*                                                                         *)
(* Truth says what a record, a parent and the place a command has come to  *)
(* tell of four facts: whether the operation and its compensation are done *)
(* at the provider and are in the ledger.  Money says that balances and    *)
(* books are made of those operations, each with the account and amount of *)
(* its record or step.  Together they give the balance of an account at    *)
(* rest, whose operations are done and booked alike.                       *)
(***************************************************************************)
EXTENDS ProviderAccounts, FiniteSetTheorems, WellFoundedInduction, TLAPS

AllRefs == Ref \cup {Undo(k) : k \in Ref}

ProvT == [bal : [Acct -> Int], done : SUBSET AllRefs]

EntryT == [acct : Acct, n : Int, tx : Op, ref : AllRefs]

TxT == [state : Final \cup Unresolved, a : Acct \cup {0}, n : Int]

Undoes == {"undo", "rebuild", "undo flush", "undo book"}

Appends == {"journal", "mutate", "append"}

Works == Appends \cup Undoes \cup {"book", "flush provider", "close"}

\* Where a recovery stands whose entry that compensates is appended.
Reverses == {"unbook", "reverted", "failed", "compensated"}

Recovers == Reverses \cup {"revert"}

OpT == [pc : Works \cup Recovers \cup {"idle", "done"},
        ref : Ref \cup {0}, a : Acct \cup {0}, n : Int]

Refs(book) == {book[i].ref : i \in DOMAIN book}

Once(book) == \A i, j \in DOMAIN book : book[i].ref = book[j].ref => i = j

TypeInv ==
  /\ prov \in ProvT /\ provSaved \in ProvT
  /\ ledger \in Seq(EntryT) /\ saved \in Seq(EntryT)
  /\ tx \in [Op -> TxT] /\ txSaved \in [Op -> TxT]
  /\ parent \in [DOMAIN Step -> {"none", "open", "closed"}]
  /\ op \in [Op -> OpT] /\ todo \subseteq Op /\ isolated \subseteq Op

\* A command that works does so for its own reference or a parent's, and
\* while nothing is recovered.
WorkInv ==
  \A o \in Op :
    /\ op[o].pc \in Works =>
         /\ todo = {} /\ op[o].ref \in Ref /\ op[o].a \in Acct
         /\ op[o].ref \in DOMAIN Step => op[o].a = Step[op[o].ref].acct
         /\ op[o].ref \notin DOMAIN Step => Own(o) /\ tx[o].state # "none"
    /\ op[o].pc \in Undoes => op[o].ref \in DOMAIN Step
    /\ op[o].pc \in Recovers => o \in todo

\* A record names an account, and only unresolved ones are recovered.
RecordInv ==
  \A o \in Op :
    /\ tx[o].state # "none" => tx[o].a \in Acct
    /\ txSaved[o].state # "none" => txSaved[o].a \in Acct
    /\ o \in todo => tx[o].state = "needs-recovery"

\* No two commands work for the same reference.
Exclusive ==
  \A o, p \in Op :
    op[o].pc \in Works /\ op[p].pc \in Works /\ op[o].ref = op[p].ref => o = p

\* What is saved is what was in memory, and nothing is there twice.
SavedInv ==
  /\ Once(ledger) /\ Once(saved)
  /\ Refs(saved) \subseteq Refs(ledger)
  /\ provSaved.done \subseteq prov.done

\* Where an entry is appended unseen, it is not there.
FreshInv ==
  \A o \in Op :
    /\ op[o].pc = "idle" => o \notin Refs(ledger)
    /\ op[o].pc \in Appends => op[o].ref \notin Refs(ledger)
    /\ op[o].pc = "revert" => o \in Refs(ledger) /\ o \in prov.done

\* An entry that compensates an adjustment of its own is beside the original,
\* and no command or recovery is under way that would append it again unseen.
UndoneInv ==
  \A o \in Op :
    /\ Undo(o) \in Refs(saved) => o \in Refs(saved)
    /\ Undo(o) \in Refs(ledger) =>
         o \in Refs(ledger) /\ op[o].pc \in Reverses \cup {"done"}

IInv ==
  /\ TypeInv /\ WorkInv /\ RecordInv /\ Exclusive
  /\ SavedInv /\ FreshInv /\ UndoneInv

-----------------------------------------------------------------------------
(***************************************************************************)
(* The references of commands, of steps and of compensations are distinct. *)
(***************************************************************************)
LEMMA Distinct ==
  /\ Op \subseteq Ref /\ DOMAIN Step \subseteq Ref
  /\ Op \cap DOMAIN Step = {} /\ Ref = Op \cup DOMAIN Step
  /\ \A r \in Ref : r \in AllRefs /\ Undo(r) \in AllRefs /\ Undo(r) \notin Ref
  /\ \A r, s \in Ref : Undo(r) = Undo(s) => r = s
<1>1. Ref \subseteq Nat \ {0}
  BY ProviderAssumption DEF Ref, Op
<1>. QED
  BY <1>1, ProviderAssumption DEF Ref, AllRefs, Undo

(***************************************************************************)
(* A book with an entry more.                                              *)
(***************************************************************************)
LEMMA BookGrows ==
  ASSUME NEW book \in Seq(EntryT),
         NEW a \in Acct, NEW n \in Int, NEW o \in Op, NEW ref \in AllRefs
  PROVE  LET b == book \o Entry(a, n, o, ref)
         IN  /\ b \in Seq(EntryT)
             /\ Refs(b) = Refs(book) \cup {ref}
             /\ Once(book) /\ ref \notin Refs(book) => Once(b)
<1>. DEFINE b == book \o Entry(a, n, o, ref)
            e == [acct |-> a, n |-> n, tx |-> o, ref |-> ref]
<1>1. b = book \o <<e>>
  BY DEF Entry
<1>2. e \in EntryT /\ e.ref = ref
  BY DEF EntryT
<1>. HIDE DEF e, b
<1>3. b \in Seq(EntryT)
  BY <1>1, <1>2
<1>4. Len(b) = Len(book) + 1 /\ b[Len(book) + 1] = e
  BY <1>1, <1>2
<1>5. \A i \in 1 .. Len(book) : b[i] = book[i]
  BY <1>1, <1>2
<1>6. DOMAIN book = 1 .. Len(book) /\ DOMAIN b = 1 .. Len(book) + 1
      /\ Len(book) \in Nat
  BY <1>3, <1>4
<1>7. Refs(b) = Refs(book) \cup {ref}
  BY <1>2, <1>4, <1>5, <1>6 DEF Refs
<1>8. Once(book) /\ ref \notin Refs(book) => Once(b)
  BY <1>2, <1>4, <1>5, <1>6 DEF Refs, Once
<1>. QED
  BY <1>3, <1>7, <1>8 DEF b

(***************************************************************************)
(* A call of the provider records its reference.                           *)
(***************************************************************************)
LEMMA ProviderGrows ==
  ASSUME prov \in ProvT, NEW a \in Acct, NEW n \in Int, NEW ref \in AllRefs,
         Mutate(a, n, ref)
  PROVE  prov' \in ProvT /\ prov'.done = prov.done \cup {ref}
<1>1. CASE Written(ref)
  BY <1>1 DEF Mutate, Written
<1>2. CASE ~Written(ref)
  BY <1>2 DEF Mutate, Written, ProvT
<1>. QED
  BY <1>1, <1>2

(***************************************************************************)
(* What is found in the ledger.                                            *)
(***************************************************************************)
LEMMA Found == \A ref : Present(ref) <=> ref \in Refs(ledger)
BY DEF Present, EntriesBy, Refs

(***************************************************************************)
(* A command goes on to one of pcs, for the same reference, or ends.       *)
(***************************************************************************)
Moved(o, pcs) ==
  /\ op' \in [Op -> OpT] /\ \A p \in Op \ {o} : op'[p] = op[p]
  /\ \/ op'[o].pc = "done"
     \/ /\ op'[o].pc \in pcs
        /\ op'[o].ref = op[o].ref /\ op'[o].a = op[o].a

(***************************************************************************)
(* How commands go on and end.                                             *)
(***************************************************************************)
LEMMA Going ==
  ASSUME op \in [Op -> OpT], NEW o \in Op, NEW pc \in Works \cup Recovers,
         Goto(o, pc)
  PROVE  Moved(o, {pc})
BY DEF Goto, OpT, Moved

(***************************************************************************)
(* A command that ends goes nowhere.                                       *)
(***************************************************************************)
LEMMA Ending ==
  ASSUME op \in [Op -> OpT], NEW o \in Op, End(o)
  PROVE  Moved(o, {})
BY DEF End, Idle, OpT, Moved

(***************************************************************************)
(* A command that has no record of its own works for a parent, so that an  *)
(* error sends it to close its record or to compensate the step.           *)
(***************************************************************************)
LEMMA AfterAnError ==
  ASSUME op \in [Op -> OpT], NEW o \in Op, AfterError(o)
  PROVE  Moved(o, {"close"}) \/ (~Own(o) /\ Moved(o, {"undo"}))
<1>1. {"close", "undo"} \subseteq Works \cup Recovers
  BY DEF Works, Undoes
<1>2. End(o) => Moved(o, {"close"}) /\ Moved(o, {"undo"})
  BY Ending DEF Moved
<1>3. Goto(o, "close") => Moved(o, {"close"})
  BY <1>1, Going
<1>4. Goto(o, "undo") => Moved(o, {"undo"})
  BY <1>1, Going
<1>5. CASE Own(o)
  BY <1>3, <1>5 DEF AfterError
<1>6. CASE ~Own(o)
  BY <1>2, <1>4, <1>6 DEF AfterError
<1>. QED
  BY <1>5, <1>6

(***************************************************************************)
(* A command that works, whatever it moves on to, keeps its reference for  *)
(* itself.                                                                 *)
(***************************************************************************)
LEMMA WorkKept ==
  ASSUME WorkInv, Exclusive, NEW o \in Op, op[o].pc \in Works,
         NEW pc \in Works, Moved(o, {pc}),
         pc \in Undoes => op[o].ref \in DOMAIN Step,
         todo' = todo,
         \A p \in Op : tx[p].state # "none" => tx'[p].state # "none"
  PROVE  WorkInv' /\ Exclusive'
<1>. USE DEF Own
<1>1. "done" \notin Works /\ "done" \notin Undoes /\ "done" \notin Recovers
      /\ Works \cap Recovers = {}
  BY DEF Works, Appends, Undoes, Recovers, Reverses
<1>2. \A p \in Op : \/ op'[p].pc = "done"
                     \/ op'[p] = op[p]
                     \/ /\ p = o /\ op'[p].pc = pc
                        /\ op'[p].ref = op[p].ref /\ op'[p].a = op[p].a
  BY DEF Moved
<1>3. ASSUME NEW p \in Op, op'[p].pc # "done"
      PROVE  op'[p].ref = op[p].ref /\ op'[p].a = op[p].a
             /\ (op'[p].pc \in Works => op[p].pc \in Works)
  BY <1>2, <1>3
<1>4. ASSUME NEW p \in Op, op'[p].pc # "done"
      PROVE  /\ op'[p].pc \in Undoes => op'[p].ref \in DOMAIN Step
             /\ op'[p].pc \in Recovers => op[p].pc \in Recovers
  BY <1>1, <1>2, <1>4 DEF WorkInv
<1>5. WorkInv'
  BY <1>1, <1>3, <1>4 DEF WorkInv
<1>6. Exclusive'
  BY <1>1, <1>3 DEF Exclusive
<1>. QED
  BY <1>5, <1>6

(***************************************************************************)
(* What a command that works may do to the record: its own, if it has one. *)
(***************************************************************************)
LEMMA Record ==
  ASSUME tx \in [Op -> TxT], RecordInv, WorkInv, NEW o \in Op,
         op[o].pc \in Works,
         NEW state \in (Final \cup Unresolved) \ {"none"}, Becomes(o, state)
  PROVE  /\ tx' \in [Op -> TxT] /\ \A p \in Op \ {o} : tx'[p] = tx[p]
         /\ tx'[o].a = tx[o].a
         /\ \/ tx'[o] = tx[o]
            \/ tx[o].state # "none" /\ tx'[o].state = state
<1>1. CASE Own(o)
  <2>1. tx[o].state # "none"
    BY Distinct, <1>1 DEF WorkInv, Own
  <2>. QED
    BY <1>1, <2>1 DEF Becomes, TxT
<1>2. CASE ~Own(o)
  BY <1>2 DEF Becomes
<1>. QED
  BY <1>1, <1>2

(***************************************************************************)
(* The record is in the journal.                                           *)
(***************************************************************************)
LEMMA JournalledKeeps ==
  ASSUME IInv, NEW o \in Op, Journalled(o)
  PROVE  IInv'
<1>. USE DEF IInv, provider, books, journal
<1>1. op[o].pc \in Works /\ "mutate" \in Works
  BY DEF Journalled, Works, Appends, Undoes, Recovers, Reverses
<1>2. Moved(o, {"mutate"})
  BY <1>1, Going DEF Journalled, TypeInv
<1>3. TypeInv'
  BY <1>1, <1>2 DEF Journalled, TypeInv, Moved
<1>4. WorkInv' /\ Exclusive'
  BY <1>1, <1>2, WorkKept DEF Journalled, WorkInv, Undoes
<1>5. RecordInv'
  BY <1>1, <1>2 DEF Journalled, RecordInv, WorkInv
<1>6. SavedInv'
  BY <1>1, <1>2 DEF Journalled, SavedInv
<1>7. FreshInv'
  BY <1>1, <1>2
     DEF Journalled, FreshInv, Moved, SavedInv, WorkInv, Works, Appends,
         Undoes, Recovers, Reverses
<1>8. UndoneInv'
  BY <1>1, <1>2
     DEF Journalled, UndoneInv, Moved, SavedInv, Works, Appends, Undoes,
         Recovers, Reverses
<1>. QED
  BY <1>3, <1>4, <1>5, <1>6, <1>7, <1>8

(***************************************************************************)
(* The ledger is flushed.                                                  *)
(***************************************************************************)
LEMMA BookKeeps ==
  ASSUME IInv, NEW o \in Op, Book(o)
  PROVE  IInv'
<1>. USE DEF IInv, provider, books, journal
<1>1. op[o].pc \in Works /\ "flush provider" \in Works
  BY DEF Book, Works, Appends, Undoes, Recovers, Reverses
<1>2. Moved(o, {"flush provider"})
  BY <1>1, Going DEF Book, TypeInv
<1>3. TypeInv'
  BY <1>1, <1>2 DEF Book, FlushLedger, TypeInv, Moved
<1>4. WorkInv' /\ Exclusive'
  BY <1>1, <1>2, WorkKept DEF Book, FlushLedger, WorkInv, Undoes
<1>5. RecordInv'
  BY <1>1, <1>2 DEF Book, FlushLedger, RecordInv, WorkInv
<1>6. SavedInv'
  BY <1>1, <1>2 DEF Book, FlushLedger, SavedInv
<1>7. FreshInv'
  BY <1>1, <1>2
     DEF Book, FlushLedger, FreshInv, Moved, SavedInv, WorkInv, Works,
         Appends, Undoes, Recovers, Reverses
<1>8. UndoneInv'
  BY <1>1, <1>2
     DEF Book, FlushLedger, UndoneInv, Moved, SavedInv, Works, Appends,
         Undoes, Recovers, Reverses
<1>. QED
  BY <1>3, <1>4, <1>5, <1>6, <1>7, <1>8

(***************************************************************************)
(* The original entry that was missing is flushed.                         *)
(***************************************************************************)
LEMMA RebuiltKeeps ==
  ASSUME IInv, NEW o \in Op, Rebuilt(o)
  PROVE  IInv'
<1>. USE DEF IInv, provider, books, journal
<1>1. op[o].pc \in Works /\ "undo" \in Works
  BY DEF Rebuilt, Works, Appends, Undoes, Recovers, Reverses
<1>2. Moved(o, {"undo"})
  BY <1>1, Going DEF Rebuilt, TypeInv
<1>3. TypeInv'
  BY <1>1, <1>2 DEF Rebuilt, FlushLedger, TypeInv, Moved
<1>4. WorkInv' /\ Exclusive'
  BY <1>1, <1>2, WorkKept DEF Rebuilt, FlushLedger, WorkInv, Undoes
<1>5. RecordInv'
  BY <1>1, <1>2 DEF Rebuilt, FlushLedger, RecordInv, WorkInv
<1>6. SavedInv'
  BY <1>1, <1>2 DEF Rebuilt, FlushLedger, SavedInv
<1>7. FreshInv'
  BY <1>1, <1>2
     DEF Rebuilt, FlushLedger, FreshInv, Moved, SavedInv, WorkInv, Works,
         Appends, Undoes, Recovers, Reverses
<1>8. UndoneInv'
  BY <1>1, <1>2
     DEF Rebuilt, FlushLedger, UndoneInv, Moved, SavedInv, Works, Appends,
         Undoes, Recovers, Reverses
<1>. QED
  BY <1>3, <1>4, <1>5, <1>6, <1>7, <1>8

(***************************************************************************)
(* The provider saved that it compensated.                                 *)
(***************************************************************************)
LEMMA UndoFlushedKeeps ==
  ASSUME IInv, NEW o \in Op, UndoFlushed(o)
  PROVE  IInv'
<1>. USE DEF IInv, provider, books, journal
<1>1. op[o].pc \in Works /\ "undo" \in Works
  BY DEF UndoFlushed, Works, Appends, Undoes, Recovers, Reverses
<1>2. Moved(o, {"undo"})
  BY <1>1, Going DEF UndoFlushed, TypeInv
<1>3. TypeInv'
  BY <1>1, <1>2 DEF UndoFlushed, FlushProvider, TypeInv, Moved
<1>4. WorkInv' /\ Exclusive'
  BY <1>1, <1>2, WorkKept DEF UndoFlushed, FlushProvider, WorkInv, Undoes
<1>5. RecordInv'
  BY <1>1, <1>2 DEF UndoFlushed, FlushProvider, RecordInv, WorkInv
<1>6. SavedInv'
  BY <1>1, <1>2 DEF UndoFlushed, FlushProvider, SavedInv
<1>7. FreshInv'
  BY <1>1, <1>2
     DEF UndoFlushed, FlushProvider, FreshInv, Moved, SavedInv, WorkInv,
         Works, Appends, Undoes, Recovers, Reverses
<1>8. UndoneInv'
  BY <1>1, <1>2
     DEF UndoFlushed, FlushProvider, UndoneInv, Moved, SavedInv, Works,
         Appends, Undoes, Recovers, Reverses
<1>. QED
  BY <1>3, <1>4, <1>5, <1>6, <1>7, <1>8

(***************************************************************************)
(* The record is flushed as it ended.                                      *)
(***************************************************************************)
LEMMA CloseKeeps ==
  ASSUME IInv, NEW o \in Op, Close(o)
  PROVE  IInv'
<1>. USE DEF IInv, provider, books, journal
<1>1. op[o].pc \in Works /\ "close" \in Works
  BY DEF Close, Works, Appends, Undoes, Recovers, Reverses
<1>2. Moved(o, {"close"})
  BY <1>1, Ending DEF Close, TypeInv, Moved
<1>3. TypeInv'
  BY <1>1, <1>2 DEF Close, TypeInv, Moved
<1>4. WorkInv' /\ Exclusive'
  BY <1>1, <1>2, WorkKept DEF Close, WorkInv, Undoes
<1>5. RecordInv'
  BY <1>1, <1>2 DEF Close, RecordInv, WorkInv
<1>6. SavedInv'
  BY <1>1, <1>2 DEF Close, SavedInv
<1>7. FreshInv'
  BY <1>1, <1>2
     DEF Close, FreshInv, Moved, SavedInv, WorkInv, Works, Appends, Undoes,
         Recovers, Reverses
<1>8. UndoneInv'
  BY <1>1, <1>2
     DEF Close, UndoneInv, Moved, SavedInv, Works, Appends, Undoes, Recovers,
         Reverses
<1>. QED
  BY <1>3, <1>4, <1>5, <1>6, <1>7, <1>8

(***************************************************************************)
(* Nothing was applied and nothing is left to compensate.                  *)
(***************************************************************************)
LEMMA UndoNothingKeeps ==
  ASSUME IInv, NEW o \in Op, UndoNothing(o)
  PROVE  IInv'
<1>. USE DEF IInv, provider, books, journal
<1>1. op[o].pc \in Works /\ "undo" \in Works
  BY DEF UndoNothing, Works, Appends, Undoes, Recovers, Reverses
<1>2. Moved(o, {"undo"})
  BY <1>1, Ending DEF UndoNothing, TypeInv, Moved
<1>3. TypeInv'
  BY <1>1, <1>2 DEF UndoNothing, Settle, TypeInv, Moved
<1>4. WorkInv' /\ Exclusive'
  BY <1>1, <1>2, WorkKept DEF UndoNothing, Settle, WorkInv, Undoes
<1>5. RecordInv'
  BY <1>1, <1>2 DEF UndoNothing, Settle, RecordInv, WorkInv
<1>6. SavedInv'
  BY <1>1, <1>2 DEF UndoNothing, Settle, SavedInv
<1>7. FreshInv'
  BY <1>1, <1>2
     DEF UndoNothing, Settle, FreshInv, Moved, SavedInv, WorkInv, Works,
         Appends, Undoes, Recovers, Reverses
<1>8. UndoneInv'
  BY <1>1, <1>2
     DEF UndoNothing, Settle, UndoneInv, Moved, SavedInv, Works, Appends,
         Undoes, Recovers, Reverses
<1>. QED
  BY <1>3, <1>4, <1>5, <1>6, <1>7, <1>8

(***************************************************************************)
(* The entry of a command: nobody else works for its reference.            *)
(***************************************************************************)
LEMMA AppendEntryKeeps ==
  ASSUME IInv, NEW o \in Op, AppendEntry(o)
  PROVE  IInv'
<1>. USE DEF IInv, provider, books, journal
<1>1. op[o].pc \in Works /\ "book" \in Works
  BY DEF AppendEntry, Works, Appends, Undoes, Recovers, Reverses
<1>2. Moved(o, {"book"})
  BY <1>1, Going DEF AppendEntry, TypeInv
<1>3. \A p \in Op \ {o} : /\ op[p].pc \in Works => op[p].ref # op[o].ref
                        /\ op[o].ref # p
  BY <1>1, Distinct DEF Exclusive, WorkInv, Own
<1>4. \A p \in Op : Undo(p) # op[o].ref
  BY <1>1, Distinct DEF WorkInv
<1>5. op[o].a \in Acct /\ op[o].n \in Int /\ op[o].ref \in Ref
      /\ op[o].ref \in AllRefs /\ op[o].ref \notin Refs(ledger)
  BY <1>1, Distinct
     DEF AppendEntry, WorkInv, TypeInv, OpT, FreshInv, Appends, Outcome
<1>6. /\ ledger' \in Seq(EntryT)
      /\ Refs(ledger') = Refs(ledger) \cup {op[o].ref}
      /\ Once(ledger) => Once(ledger')
  BY <1>5, BookGrows, SMTT(30) DEF AppendEntry, TypeInv
<1>7. TypeInv'
  BY <1>1, <1>2, <1>6, <1>5, <1>3, <1>4 DEF AppendEntry, TypeInv, Moved
<1>8. WorkInv' /\ Exclusive'
  BY <1>1, <1>2, <1>6, <1>5, <1>3, <1>4, WorkKept
     DEF AppendEntry, WorkInv, Undoes
<1>9. RecordInv'
  BY <1>1, <1>2, <1>6, <1>5, <1>3, <1>4 DEF AppendEntry, RecordInv, WorkInv
<1>10. SavedInv'
  BY <1>1, <1>2, <1>6, <1>5, <1>3, <1>4 DEF AppendEntry, SavedInv
<1>11. FreshInv'
  <2>1. \A p \in Op : op'[p].pc \in Appends \cup {"idle", "revert"} =>
                      p # o /\ op'[p] = op[p]
    BY <1>2 DEF Moved, Appends
  <2>2. Refs(ledger) \subseteq Refs(ledger') /\ prov' = prov
    BY <1>6 DEF AppendEntry, provider
  <2>. QED
    BY <2>1, <2>2, <1>6, <1>3 DEF FreshInv, Works
<1>12. UndoneInv'
  BY <1>1, <1>2, <1>6, <1>5, <1>3, <1>4
     DEF AppendEntry, UndoneInv, Moved, SavedInv, Works, Appends, Undoes,
         Recovers, Reverses
<1>. QED
  BY <1>7, <1>8, <1>9, <1>10, <1>11, <1>12

(***************************************************************************)
(* The original entry, which the ledger was found to miss.                 *)
(***************************************************************************)
LEMMA UndoRebuildKeeps ==
  ASSUME IInv, NEW o \in Op, UndoRebuild(o)
  PROVE  IInv'
<1>. USE DEF IInv, provider, books, journal
<1>1. op[o].pc \in Works /\ "rebuild" \in Works
  BY DEF UndoRebuild, Works, Appends, Undoes, Recovers, Reverses
<1>2. Moved(o, {"rebuild"})
  BY <1>1, Going DEF UndoRebuild, TypeInv
<1>3. \A p \in Op \ {o} : /\ op[p].pc \in Works => op[p].ref # op[o].ref
                        /\ op[o].ref # p
  BY <1>1, Distinct DEF Exclusive, WorkInv, Own
<1>4. \A p \in Op : Undo(p) # op[o].ref
  BY <1>1, Distinct DEF WorkInv
<1>5. op[o].a \in Acct /\ op[o].n \in Int /\ op[o].ref \in Ref
      /\ op[o].ref \in AllRefs /\ op[o].ref \notin Refs(ledger)
  BY <1>1, Distinct, Found
     DEF UndoRebuild, WorkInv, TypeInv, OpT, FreshInv, Appends, Outcome
<1>6. /\ ledger' \in Seq(EntryT)
      /\ Refs(ledger') = Refs(ledger) \cup {op[o].ref}
      /\ Once(ledger) => Once(ledger')
  BY <1>5, BookGrows DEF UndoRebuild, TypeInv
<1>7. TypeInv'
  BY <1>1, <1>2, <1>6, <1>5, <1>3, <1>4 DEF UndoRebuild, TypeInv, Moved
<1>8. WorkInv' /\ Exclusive'
  BY <1>1, <1>2, <1>6, <1>5, <1>3, <1>4, WorkKept
     DEF UndoRebuild, WorkInv, Undoes
<1>9. RecordInv'
  BY <1>1, <1>2, <1>6, <1>5, <1>3, <1>4 DEF UndoRebuild, RecordInv, WorkInv
<1>10. SavedInv'
  BY <1>1, <1>2, <1>6, <1>5, <1>3, <1>4 DEF UndoRebuild, SavedInv
<1>11. FreshInv'
  <2>1. \A p \in Op : op'[p].pc \in Appends \cup {"idle", "revert"} =>
                      p # o /\ op'[p] = op[p]
    BY <1>2 DEF Moved, Appends
  <2>2. Refs(ledger) \subseteq Refs(ledger') /\ prov' = prov
    BY <1>6 DEF UndoRebuild, provider
  <2>. QED
    BY <2>1, <2>2, <1>6, <1>3 DEF FreshInv, Works
<1>12. UndoneInv'
  BY <1>1, <1>2, <1>6, <1>5, <1>3, <1>4
     DEF UndoRebuild, UndoneInv, Moved, SavedInv, Works, Appends, Undoes,
         Recovers, Reverses
<1>. QED
  BY <1>7, <1>8, <1>9, <1>10, <1>11, <1>12

(***************************************************************************)
(* The call of the provider.                                               *)
(***************************************************************************)
LEMMA MutateBalanceKeeps ==
  ASSUME IInv, NEW o \in Op, MutateBalance(o)
  PROVE  IInv'
<1>. USE DEF IInv, provider, books, journal
<1>1. op[o].pc \in Works /\ "append" \in Works
  BY DEF MutateBalance, Works, Appends, Undoes, Recovers, Reverses
<1>2. Moved(o, {"append"})
  BY <1>1, Going DEF MutateBalance, TypeInv
<1>3. op[o].a \in Acct /\ op[o].n \in Int /\ op[o].ref \in AllRefs
  BY <1>1, Distinct DEF WorkInv, TypeInv, OpT
<1>4. prov' \in ProvT /\ prov'.done = prov.done \cup {op[o].ref}
  BY <1>3, ProviderGrows DEF MutateBalance, TypeInv
<1>5. TypeInv'
  BY <1>1, <1>2, <1>4 DEF MutateBalance, TypeInv, Moved
<1>6. WorkInv' /\ Exclusive'
  BY <1>1, <1>2, <1>4, WorkKept
     DEF MutateBalance, provider, books, journal, WorkInv, Undoes
<1>7. RecordInv'
  BY <1>1, <1>2, <1>4 DEF MutateBalance, RecordInv, WorkInv
<1>8. SavedInv'
  BY <1>1, <1>2, <1>4 DEF MutateBalance, SavedInv
<1>9. FreshInv'
  BY <1>1, <1>2, <1>4
     DEF MutateBalance, FreshInv, Moved, SavedInv, WorkInv, Works, Appends,
         Undoes, Recovers, Reverses
<1>10. UndoneInv'
  BY <1>1, <1>2, <1>4
     DEF MutateBalance, UndoneInv, Moved, SavedInv, Works, Appends, Undoes,
         Recovers, Reverses
<1>. QED
  BY <1>5, <1>6, <1>7, <1>8, <1>9, <1>10

(***************************************************************************)
(* The call of the provider that compensates.                              *)
(***************************************************************************)
LEMMA UndoMutateKeeps ==
  ASSUME IInv, NEW o \in Op, UndoMutate(o)
  PROVE  IInv'
<1>. USE DEF IInv, provider, books, journal
<1>1. op[o].pc \in Works /\ "undo flush" \in Works
  BY DEF UndoMutate, UndoMutates, Works, Appends, Undoes, Recovers, Reverses
<1>2. Moved(o, {"undo flush"})
  BY <1>1, Going DEF UndoMutate, TypeInv
<1>3. op[o].n \in Int
  BY DEF TypeInv, OpT
<1>4. -op[o].n \in Int
  BY <1>3
<1>5. op[o].a \in Acct /\ Undo(op[o].ref) \in AllRefs
  BY <1>1, Distinct DEF WorkInv
<1>6. prov' \in ProvT /\ prov'.done = prov.done \cup {Undo(op[o].ref)}
  BY <1>5, <1>4, ProviderGrows DEF UndoMutate, TypeInv
<1>7. TypeInv'
  BY <1>1, <1>2, <1>6 DEF UndoMutate, UndoMutates, TypeInv, Moved
<1>8. WorkInv' /\ Exclusive'
  BY <1>1, <1>2, <1>6, WorkKept DEF UndoMutate, UndoMutates, WorkInv, Undoes
<1>9. RecordInv'
  BY <1>1, <1>2, <1>6 DEF UndoMutate, UndoMutates, RecordInv, WorkInv
<1>10. SavedInv'
  BY <1>1, <1>2, <1>6 DEF UndoMutate, UndoMutates, SavedInv
<1>11. FreshInv'
  BY <1>1, <1>2, <1>6
     DEF UndoMutate, UndoMutates, FreshInv, Moved, SavedInv, WorkInv, Works,
         Appends, Undoes, Recovers, Reverses
<1>12. UndoneInv'
  BY <1>1, <1>2, <1>6
     DEF UndoMutate, UndoMutates, UndoneInv, Moved, SavedInv, Works, Appends,
         Undoes, Recovers, Reverses
<1>. QED
  BY <1>7, <1>8, <1>9, <1>10, <1>11, <1>12

(***************************************************************************)
(* The entry that compensates, which the ledger was found to miss.         *)
(***************************************************************************)
LEMMA UndoAppendKeeps ==
  ASSUME IInv, NEW o \in Op, UndoAppend(o)
  PROVE  IInv'
<1>. USE DEF IInv, provider, books, journal
<1>1. op[o].pc \in Works /\ "undo book" \in Works
  BY DEF UndoAppend, CompensationDue, Works, Appends, Undoes, Recovers,
         Reverses
<1>2. Moved(o, {"undo book"})
  BY <1>1, Going DEF UndoAppend, TypeInv
<1>3. op[o].n \in Int
  BY DEF TypeInv, OpT
<1>4. -op[o].n \in Int
  BY <1>3
<1>5. op[o].a \in Acct /\ op[o].ref \in DOMAIN Step
      /\ Undo(op[o].ref) \in AllRefs /\ Undo(op[o].ref) \notin Refs(ledger)
  BY <1>1, Distinct, Found DEF UndoAppend, CompensationDue, WorkInv, Undoes
<1>6. /\ \A p \in Op : Undo(p) # Undo(op[o].ref) /\ p # Undo(op[o].ref)
      /\ \A p \in Op : op[p].pc \in Works => op[p].ref # Undo(op[o].ref)
  BY <1>5, Distinct DEF WorkInv
<1>7. ledger \in Seq(EntryT)
      /\ ledger' = ledger \o Entry(op[o].a, -op[o].n, o, Undo(op[o].ref))
  BY DEF UndoAppend, TypeInv
<1>8. /\ ledger' \in Seq(EntryT)
      /\ Refs(ledger') = Refs(ledger) \cup {Undo(op[o].ref)}
      /\ Once(ledger) => Once(ledger')
  BY <1>5, <1>4, <1>7, BookGrows
<1>9. TypeInv'
  BY <1>1, <1>2, <1>8, <1>5, <1>6
     DEF UndoAppend, CompensationDue, TypeInv, Moved
<1>10. WorkInv' /\ Exclusive'
  BY <1>1, <1>2, <1>8, <1>5, <1>6, WorkKept
     DEF UndoAppend, provider, books, journal, CompensationDue, WorkInv,
         Undoes
<1>11. RecordInv'
  BY <1>1, <1>2, <1>8, <1>5, <1>6
     DEF UndoAppend, CompensationDue, RecordInv, WorkInv
<1>12. SavedInv'
  BY <1>1, <1>2, <1>8, <1>5, <1>6 DEF UndoAppend, CompensationDue, SavedInv
<1>13. FreshInv'
  <2>1. \A p \in Op : op'[p].pc \in Appends \cup {"idle", "revert"} =>
                      p # o /\ op'[p] = op[p]
    BY <1>2 DEF Moved, Appends
  <2>2. Refs(ledger) \subseteq Refs(ledger') /\ prov' = prov
    BY <1>8 DEF UndoAppend, provider
  <2>. QED
    BY <2>1, <2>2, <1>8, <1>6 DEF FreshInv, Works
<1>14. UndoneInv'
  BY <1>1, <1>2, <1>8, <1>5, <1>6
     DEF UndoAppend, CompensationDue, UndoneInv, Moved, SavedInv, Works,
         Appends, Undoes, Recovers, Reverses
<1>. QED
  BY <1>9, <1>10, <1>11, <1>12, <1>13, <1>14

(***************************************************************************)
(* The entry that compensates is flushed.                                  *)
(***************************************************************************)
LEMMA UndoBookedKeeps ==
  ASSUME IInv, NEW o \in Op, UndoBooked(o)
  PROVE  IInv'
<1>. USE DEF IInv, provider, books, journal
<1>1. op[o].pc \in Works /\ "undo" \in Works
  BY DEF UndoBooked, CompensationDue, Works, Appends, Undoes, Recovers,
         Reverses
<1>2. Moved(o, {"undo"})
  BY <1>1, Ending DEF UndoBooked, TypeInv, Moved
<1>3. TypeInv'
  BY <1>1, <1>2
     DEF UndoBooked, CompensationDue, Settle, FlushLedger, TypeInv, Moved
<1>4. WorkInv' /\ Exclusive'
  BY <1>1, <1>2, WorkKept
     DEF UndoBooked, CompensationDue, Settle, FlushLedger, WorkInv, Undoes
<1>5. RecordInv'
  BY <1>1, <1>2
     DEF UndoBooked, CompensationDue, Settle, FlushLedger, RecordInv, WorkInv
<1>6. SavedInv'
  BY <1>1, <1>2 DEF UndoBooked, CompensationDue, Settle, FlushLedger, SavedInv
<1>7. FreshInv'
  BY <1>1, <1>2
     DEF UndoBooked, CompensationDue, Settle, FlushLedger, FreshInv, Moved,
         SavedInv, WorkInv, Works, Appends, Undoes, Recovers, Reverses
<1>8. UndoneInv'
  BY <1>1, <1>2
     DEF UndoBooked, CompensationDue, Settle, FlushLedger, UndoneInv, Moved,
         SavedInv, Works, Appends, Undoes, Recovers, Reverses
<1>. QED
  BY <1>3, <1>4, <1>5, <1>6, <1>7, <1>8

(***************************************************************************)
(* A compensation the provider refused, or answered too late.              *)
(***************************************************************************)
LEMMA UndoRefusedKeeps ==
  ASSUME IInv, NEW o \in Op, UndoRefused(o)
  PROVE  IInv'
<1>. USE DEF IInv, provider, books, journal
<1>1. op[o].pc \in Works /\ "undo" \in Works
  BY DEF UndoRefused, UndoMutates, Works, Appends, Undoes, Recovers, Reverses
<1>2. Moved(o, {"undo"})
  BY <1>1, Ending DEF UndoRefused, TypeInv, Moved
<1>3. op[o].n \in Int
  BY DEF TypeInv, OpT
<1>4. -op[o].n \in Int
  BY <1>3
<1>5. op[o].a \in Acct /\ Undo(op[o].ref) \in AllRefs
  BY <1>1, Distinct DEF WorkInv
<1>6. /\ prov' \in ProvT
      /\ prov'.done \in {prov.done, prov.done \cup {Undo(op[o].ref)}}
  BY <1>5, <1>4, ProviderGrows DEF UndoRefused, TypeInv
<1>7. TypeInv'
  BY <1>1, <1>2, <1>6 DEF UndoRefused, UndoMutates, Fails, TypeInv, Moved
<1>8. WorkInv' /\ Exclusive'
  BY <1>1, <1>2, <1>6, WorkKept
     DEF UndoRefused, UndoMutates, Fails, WorkInv, Undoes
<1>9. RecordInv'
  BY <1>1, <1>2, <1>6 DEF UndoRefused, UndoMutates, Fails, RecordInv, WorkInv
<1>10. SavedInv'
  BY <1>1, <1>2, <1>6 DEF UndoRefused, UndoMutates, Fails, SavedInv
<1>11. FreshInv'
  BY <1>1, <1>2, <1>6
     DEF UndoRefused, UndoMutates, Fails, FreshInv, Moved, SavedInv, WorkInv,
         Works, Appends, Undoes, Recovers, Reverses
<1>12. UndoneInv'
  BY <1>1, <1>2, <1>6
     DEF UndoRefused, UndoMutates, Fails, UndoneInv, Moved, SavedInv, Works,
         Appends, Undoes, Recovers, Reverses
<1>. QED
  BY <1>7, <1>8, <1>9, <1>10, <1>11, <1>12

(***************************************************************************)
(* A compensation whose flush failed.                                      *)
(***************************************************************************)
LEMMA UndoFlushFailsKeeps ==
  ASSUME IInv, NEW o \in Op, UndoFlushFails(o)
  PROVE  IInv'
<1>. USE DEF IInv, provider, books, journal
<1>1. op[o].pc \in Works /\ "undo" \in Works
  BY DEF UndoFlushFails, Works, Appends, Undoes, Recovers, Reverses
<1>2. Moved(o, {"undo"})
  BY <1>1, Ending DEF UndoFlushFails, TypeInv, Moved
<1>3. TypeInv'
  BY <1>1, <1>2 DEF UndoFlushFails, TypeInv, Moved
<1>4. WorkInv' /\ Exclusive'
  BY <1>1, <1>2, WorkKept DEF UndoFlushFails, WorkInv, Undoes
<1>5. RecordInv'
  BY <1>1, <1>2 DEF UndoFlushFails, RecordInv, WorkInv
<1>6. SavedInv'
  BY <1>1, <1>2 DEF UndoFlushFails, SavedInv
<1>7. FreshInv'
  BY <1>1, <1>2
     DEF UndoFlushFails, FreshInv, Moved, SavedInv, WorkInv, Works, Appends,
         Undoes, Recovers, Reverses
<1>8. UndoneInv'
  BY <1>1, <1>2
     DEF UndoFlushFails, UndoneInv, Moved, SavedInv, Works, Appends, Undoes,
         Recovers, Reverses
<1>. QED
  BY <1>3, <1>4, <1>5, <1>6, <1>7, <1>8

(***************************************************************************)
(* The journal could not be written.                                       *)
(***************************************************************************)
LEMMA JournalFailsKeeps ==
  ASSUME IInv, NEW o \in Op, JournalFails(o)
  PROVE  IInv'
<1>. USE DEF IInv, provider, books, journal
<1>1. op[o].pc \in Works /\ "close" \in Works
  BY DEF JournalFails, Works, Appends, Undoes, Recovers, Reverses
<1>2. Moved(o, {"close"})
  BY <1>1, Ending DEF JournalFails, TypeInv, Moved
<1>3. TypeInv'
  BY <1>1, <1>2 DEF JournalFails, TypeInv, Moved
<1>4. WorkInv' /\ Exclusive'
  BY <1>1, <1>2, WorkKept DEF JournalFails, WorkInv, Undoes
<1>5. RecordInv'
  BY <1>1, <1>2 DEF JournalFails, RecordInv, WorkInv
<1>6. SavedInv'
  BY <1>1, <1>2 DEF JournalFails, SavedInv
<1>7. FreshInv'
  BY <1>1, <1>2
     DEF JournalFails, FreshInv, Moved, SavedInv, WorkInv, Works, Appends,
         Undoes, Recovers, Reverses
<1>8. UndoneInv'
  BY <1>1, <1>2
     DEF JournalFails, UndoneInv, Moved, SavedInv, Works, Appends, Undoes,
         Recovers, Reverses
<1>. QED
  BY <1>3, <1>4, <1>5, <1>6, <1>7, <1>8

(***************************************************************************)
(* A call of the provider or a flush that failed, whatever it left.        *)
(***************************************************************************)
LEMMA ErrorKeeps ==
  ASSUME IInv, NEW o \in Op, op[o].pc \in Works,
         NEW state \in {"failed", "needs-recovery"},
         Becomes(o, state), AfterError(o),
         prov' \in ProvT, prov.done \subseteq prov'.done,
         provSaved' \in {provSaved, prov}, saved' \in {saved, ledger},
         UNCHANGED <<ledger, txSaved, parent, todo, isolated>>
  PROVE  IInv'
<1>. USE DEF IInv
<1>1. PICK pc \in {"close", "undo"} :
        Moved(o, {pc}) /\ (pc = "undo" => ~Own(o))
  BY AfterAnError DEF TypeInv
<1>2. pc \in Works /\ pc \notin Appends /\ pc \notin Recovers /\ pc # "idle"
      /\ (pc \in Undoes => op[o].ref \in DOMAIN Step)
  BY <1>1 DEF WorkInv, Works, Appends, Undoes, Recovers, Reverses
<1>3. /\ tx' \in [Op -> TxT] /\ \A p \in Op \ {o} : tx'[p] = tx[p]
      /\ tx'[o].a = tx[o].a
      /\ \/ tx'[o] = tx[o]
         \/ tx[o].state # "none" /\ tx'[o].state = state
  BY Record DEF TypeInv, Final, Unresolved
<1>4. TypeInv'
  BY <1>1, <1>3 DEF TypeInv, Moved
<1>5. WorkInv' /\ Exclusive'
  BY <1>1, <1>2, <1>3, WorkKept
<1>6. RecordInv'
  BY <1>3 DEF RecordInv, WorkInv
<1>7. SavedInv'
  BY DEF SavedInv
<1>8. FreshInv'
  BY <1>1, <1>2 DEF FreshInv, Moved, Recovers, Reverses, Appends
<1>9. UndoneInv'
  <2>1. \A p \in Op : op[p].pc \in Reverses \cup {"done"} =>
                        p # o /\ op'[p] = op[p] /\ tx'[p] = tx[p]
    BY <1>1, <1>3 DEF Moved, Works, Appends, Undoes, Reverses
  <2>. QED
    BY <2>1 DEF UndoneInv, SavedInv
<1>. QED
  BY <1>4, <1>5, <1>6, <1>7, <1>8, <1>9

(***************************************************************************)
(* The four errors a command may meet.                                     *)
(***************************************************************************)
LEMMA ErrorsKeep ==
  ASSUME IInv, NEW o \in Op,
         MutateRefused(o) \/ MutateUnknown(o) \/ BookFails(o)
           \/ ProviderFlushFails(o)
  PROVE  IInv'
<1>. USE DEF IInv, provider, books, journal
<1>1. op[o].pc \in Works
  BY
     DEF MutateRefused, MutateUnknown, BookFails, ProviderFlushFails, Works,
         Appends
<1>2. CASE MutateRefused(o)
  BY <1>1, <1>2, ErrorKeeps DEF MutateRefused, TypeInv
<1>3. CASE MutateUnknown(o)
  <2>1. op[o].a \in Acct /\ op[o].n \in Int /\ op[o].ref \in AllRefs
    BY <1>1, Distinct DEF WorkInv, TypeInv, OpT
  <2>2. prov' \in ProvT /\ prov.done \subseteq prov'.done
    BY <1>3, <2>1, ProviderGrows DEF MutateUnknown, TypeInv
  <2>. QED
    BY <1>1, <1>3, <2>2, ErrorKeeps DEF MutateUnknown
<1>4. CASE BookFails(o)
  BY <1>1, <1>4, ErrorKeeps DEF BookFails, TypeInv
<1>5. CASE ProviderFlushFails(o)
  BY <1>1, <1>5, ErrorKeeps DEF ProviderFlushFails, TypeInv
<1>. QED
  BY <1>2, <1>3, <1>4, <1>5

(***************************************************************************)
(* The provider saved what it wrote: the adjustment is done.               *)
(***************************************************************************)
LEMMA ProviderFlushedKeeps ==
  ASSUME IInv, NEW o \in Op, ProviderFlushed(o)
  PROVE  IInv'
<1>. USE DEF IInv, provider, books, journal
<1>1. op[o].pc \in Works /\ {"close", "undo"} \subseteq Works
  BY DEF ProviderFlushed, Works, Undoes
<1>2. PICK pc \in {"close", "undo"} :
        Moved(o, {pc}) /\ (pc = "undo" => ~Own(o))
  <2>1. CASE Own(o)
    BY <1>1, <2>1, Going DEF ProviderFlushed, TypeInv
  <2>2. CASE ~Own(o)
    BY <1>1, <2>2, Going, Ending DEF ProviderFlushed, TypeInv, Moved
  <2>. QED
    BY <2>1, <2>2
<1>3. pc \in Works /\ pc \notin Appends /\ pc \notin Recovers /\ pc # "idle"
      /\ (pc \in Undoes => op[o].ref \in DOMAIN Step)
  BY <1>1, <1>2 DEF WorkInv, Works, Appends, Undoes, Recovers, Reverses
<1>4. /\ tx' \in [Op -> TxT] /\ \A p \in Op \ {o} : tx'[p] = tx[p]
      /\ tx'[o].a = tx[o].a
      /\ \/ tx'[o] = tx[o]
         \/ tx[o].state # "none" /\ tx'[o].state = "committed"
  BY <1>1, Record DEF ProviderFlushed, TypeInv, Final, Unresolved
<1>5. TypeInv'
  BY <1>2, <1>4 DEF ProviderFlushed, FlushProvider, TypeInv, Moved
<1>6. WorkInv' /\ Exclusive'
  BY <1>1, <1>2, <1>3, <1>4, WorkKept DEF ProviderFlushed
<1>7. RecordInv'
  BY ZenonT(40), <1>1, <1>4 DEF ProviderFlushed, RecordInv, WorkInv
<1>8. SavedInv'
  BY DEF ProviderFlushed, FlushProvider, SavedInv
<1>9. FreshInv'
  BY <1>2, <1>3 DEF ProviderFlushed, FreshInv, Moved, Recovers,
         Reverses, Appends
<1>10. UndoneInv'
  <2>1. \A p \in Op : op[p].pc \in Reverses \cup {"done"} =>
                        p # o /\ op'[p] = op[p] /\ tx'[p] = tx[p]
    BY <1>2, <1>3, <1>4 DEF ProviderFlushed, Moved, Recovers, Works, Appends,
       Undoes, Reverses
  <2>. QED
    BY <2>1 DEF ProviderFlushed, FlushProvider, UndoneInv, SavedInv
<1>. QED
  BY <1>5, <1>6, <1>7, <1>8, <1>9, <1>10

-----------------------------------------------------------------------------
(***************************************************************************)
(* A command that starts, with the key of its Domain.                      *)
(***************************************************************************)
LEMMA StartKeeps ==
  ASSUME IInv, NEW o \in Op, NEW pc \in Works, NEW ref \in Ref,
         NEW a \in Acct, NEW n \in Int, Start(o, pc, ref, a, n),
         ref \in DOMAIN Step => a = Step[ref].acct,
         ref \notin DOMAIN Step => ref = o /\ tx'[o].state # "none",
         pc \in Undoes => ref \in DOMAIN Step,
         pc \in Appends => ref \notin Refs(ledger),
         tx' \in [Op -> TxT], \A p \in Op \ {o} : tx'[p] = tx[p],
         tx'[o].state # "none" => tx'[o].a \in Acct,
         parent' \in [DOMAIN Step -> {"none", "open", "closed"}]
  PROVE  IInv'
<1>. USE DEF IInv, provider, books
<1>1. /\ op[o].pc = "idle" /\ todo = {}
      /\ UNCHANGED <<provider, books, txSaved, todo, isolated>>
  BY DEF Start
<1>2. /\ op' \in [Op -> OpT] /\ \A p \in Op \ {o} : op'[p] = op[p]
      /\ op'[o] = [pc |-> pc, ref |-> ref, a |-> a, n |-> n]
  BY DEF Start, TypeInv, OpT
<1>3. \A p \in Op : op[p].pc \in Works => op[p].a # a
  BY DEF Start, Free, Busy, Works, Appends, Undoes
<1>4. "idle" \notin Works \cup Recovers /\ "done" \notin Works
      /\ Works \cap Recovers = {}
  BY DEF Works, Appends, Undoes, Recovers, Reverses
<1>5. TypeInv'
  BY <1>1, <1>2 DEF TypeInv
<1>6. WorkInv'
  BY <1>1, <1>2, <1>4 DEF WorkInv, Own
<1>7. Exclusive'
  <2>1. \A p \in Op : op[p].pc \in Works => op[p].ref # ref \/ p = o
    BY <1>3, Distinct DEF WorkInv, Own
  <2>. QED
    BY <1>2, <2>1 DEF Exclusive
<1>8. RecordInv'
  BY <1>1 DEF RecordInv
<1>9. SavedInv'
  BY <1>1 DEF SavedInv
<1>10. FreshInv'
  BY <1>1, <1>2, <1>4 DEF FreshInv, Recovers, Reverses
<1>11. UndoneInv'
  BY <1>1, <1>2 DEF UndoneInv, Reverses
<1>. QED
  BY <1>5, <1>6, <1>7, <1>8, <1>9, <1>10, <1>11

(***************************************************************************)
(* The three kinds of commands that start.                                 *)
(***************************************************************************)
LEMMA StartsKeep ==
  ASSUME IInv, NEW o \in Op, StartAdjust(o) \/ StartStep(o) \/ StartUndo(o)
  PROVE  IInv'
<1>. USE DEF IInv
<1>1. CASE StartAdjust(o)
  <2>1. PICK a \in Acct, n \in Delta :
          /\ Start(o, "journal", o, a, n)
          /\ tx' = [tx EXCEPT ![o] =
                       [state |-> "committing", a |-> a, n |-> n]]
          /\ parent' = parent
    BY <1>1 DEF StartAdjust
  <2>2. n \in Int /\ "journal" \in Works /\ "journal" \notin Undoes
    BY ProviderAssumption DEF Works, Appends, Undoes
  <2>3. o \in Ref /\ o \notin DOMAIN Step /\ o \notin Refs(ledger)
    BY <2>1, Distinct DEF Start, FreshInv
  <2>4. /\ tx' \in [Op -> TxT] /\ \A p \in Op \ {o} : tx'[p] = tx[p]
        /\ tx'[o].state # "none" /\ tx'[o].a \in Acct
    BY <2>1, <2>2 DEF TypeInv, TxT, Unresolved
  <2>. QED
    BY <2>1, <2>2, <2>3, <2>4, StartKeeps DEF TypeInv
<1>2. CASE StartStep(o)
  <2>1. PICK k \in DOMAIN Step :
          /\ ~Present(k) /\ tx' = tx
          /\ Start(o, "mutate", k, Step[k].acct, Step[k].n)
          /\ parent' = [parent EXCEPT ![k] = "open"]
    BY <1>2 DEF StartStep
  <2>2. Step[k].acct \in Acct /\ Step[k].n \in Int
    BY ProviderAssumption
  <2>3. "mutate" \in Works /\ k \in Ref /\ k \notin Refs(ledger)
    BY <2>1, Distinct, Found DEF Works, Appends
  <2>. QED
    BY <2>1, <2>2, <2>3, StartKeeps DEF TypeInv, RecordInv
<1>3. CASE StartUndo(o)
  <2>1. PICK k \in DOMAIN Step :
          /\ Start(o, "undo", k, Step[k].acct, Step[k].n)
          /\ UNCHANGED <<tx, parent>>
    BY <1>3 DEF StartUndo
  <2>2. Step[k].acct \in Acct /\ Step[k].n \in Int
    BY ProviderAssumption
  <2>3. "undo" \in Works /\ "undo" \notin Appends /\ k \in Ref
    BY Distinct DEF Works, Appends, Undoes
  <2>. QED
    BY <2>1, <2>2, <2>3, StartKeeps DEF TypeInv, RecordInv
<1>. QED
  BY <1>1, <1>2, <1>3

-----------------------------------------------------------------------------
(***************************************************************************)
(* While a transaction is recovered no command works.                      *)
(***************************************************************************)
LEMMA NobodyWorks ==
  ASSUME WorkInv, NEW o \in todo
  PROVE  \A p \in Op : op[p].pc \notin Works
BY DEF WorkInv

(***************************************************************************)
(* A record that is closed, in memory and in the journal.                  *)
(***************************************************************************)
LEMMA Resolving ==
  ASSUME TypeInv, RecordInv, NEW o \in todo,
         NEW state \in {"committed", "failed", "compensated"},
         Resolved(o, state)
  PROVE  /\ tx' \in [Op -> TxT] /\ txSaved' = tx'
         /\ \A p \in Op \ {o} : tx'[p] = tx[p]
         /\ tx'[o].state = state /\ tx'[o].a = tx[o].a
         /\ todo' = todo \ {o} /\ isolated' = isolated
BY DEF Resolved, TypeInv, TxT, Final

(***************************************************************************)
(* A transaction that is closed leaves nothing to do.                      *)
(***************************************************************************)
LEMMA ResolvedKeeps ==
  ASSUME IInv, NEW o \in todo, op[o].pc \in Reverses \cup {"done"},
         NEW state \in {"committed", "failed", "compensated"},
         Resolved(o, state),
         op' \in [Op -> OpT], op'[o].pc = "done",
         \A p \in Op \ {o} : op'[p] = op[p],
         UNCHANGED <<prov, provSaved, parent, ledger, saved>>
  PROVE  IInv'
<1>. USE DEF IInv
<1>1. /\ tx' \in [Op -> TxT] /\ txSaved' = tx'
      /\ \A p \in Op \ {o} : tx'[p] = tx[p]
      /\ tx'[o].state = state /\ tx'[o].a = tx[o].a
      /\ todo' = todo \ {o} /\ isolated' = isolated
  BY Resolving
<1>2. \A p \in Op : op[p].pc \notin Works
  BY NobodyWorks
<1>3. o \in Op /\ tx[o].a \in Acct /\ state \in Final /\ "done" \notin Works
      /\ "done" \notin Appends \cup Undoes \cup Recovers
      /\ Appends \subseteq Works /\ Undoes \subseteq Works
  BY DEF RecordInv, TypeInv, Final, Works, Appends, Undoes, Recovers, Reverses
<1>4. TypeInv'
  BY <1>1 DEF TypeInv
<1>5. WorkInv' /\ Exclusive'
  BY <1>1, <1>2, <1>3 DEF WorkInv, Exclusive
<1>6. RecordInv'
  BY <1>1, <1>3 DEF RecordInv
<1>7. SavedInv'
  BY DEF SavedInv
<1>8. \A p \in Op : p # Undo(o) /\ (p # o => Undo(p) # Undo(o))
  BY <1>3, Distinct
<1>9. FreshInv'
  BY <1>2, <1>3, <1>8 DEF FreshInv
<1>10. UndoneInv'
  BY <1>1, <1>3, <1>8 DEF UndoneInv, SavedInv
<1>. QED
  BY <1>4, <1>5, <1>6, <1>7, <1>9, <1>10

(***************************************************************************)
(* The compensator of a transaction whose command is over.                 *)
(***************************************************************************)
LEMMA RecoverPresentKeeps ==
  ASSUME IInv, NEW o \in Op, RecoverPresent(o)
  PROVE  IInv'
BY ResolvedKeeps DEF IInv, RecoverPresent, provider, books, TypeInv

(***************************************************************************)
(* The ledger has what the provider never wrote: the entry that            *)
(* compensates is appended only where there is none.                       *)
(***************************************************************************)
LEMMA RecoverUnwrittenKeeps ==
  ASSUME IInv, NEW o \in Op, RecoverUnwritten(o)
  PROVE  IInv'
<1>. USE DEF IInv, provider, books, journal
<1>1. /\ o \in todo /\ op[o].pc = "done" /\ o \in Refs(ledger)
      /\ UNCHANGED <<prov, provSaved, saved, tx, txSaved, parent, todo, isolated>>
  BY Found DEF RecoverUnwritten
<1>2. /\ op' \in [Op -> OpT] /\ \A p \in Op \ {o} : op'[p] = op[p]
      /\ op'[o].pc \in Reverses
  <2>1. PICK pc \in Reverses : Goto(o, pc)
    BY DEF RecoverUnwritten, Reverses
  <2>. QED
    BY <2>1 DEF Goto, TypeInv, OpT, Recovers
<1>3. \A p \in Op : op[p].pc \notin Works
  BY <1>1, NobodyWorks
<1>4. /\ tx[o].a \in Acct /\ tx[o].n \in Int /\ Undo(o) \in AllRefs
      /\ \A p \in Op : p # Undo(o) /\ (p # o => Undo(p) # Undo(o))
  BY <1>1, Distinct DEF RecordInv, TypeInv, TxT
<1>5. -tx[o].n \in Int
  BY <1>4
<1>6. \/ UNCHANGED ledger
      \/ /\ Undo(o) \notin Refs(ledger)
         /\ ledger' = ledger \o Entry(tx[o].a, -tx[o].n, o, Undo(o))
  BY Found DEF RecoverUnwritten
<1>7. /\ ledger' \in Seq(EntryT)
      /\ Refs(ledger) \subseteq Refs(ledger')
      /\ Refs(ledger') \subseteq Refs(ledger) \cup {Undo(o)}
      /\ Once(ledger) => Once(ledger')
  <2>1. ledger \in Seq(EntryT)
    BY DEF TypeInv
  <2>2. CASE UNCHANGED ledger
    BY <2>1, <2>2
  <2>3. CASE /\ Undo(o) \notin Refs(ledger)
             /\ ledger' = ledger \o Entry(tx[o].a, -tx[o].n, o, Undo(o))
    <3>. HIDE DEF IInv, provider, books, journal
    <3>. QED
      BY SMTT(20), <1>4, <1>5, <2>1, <2>3, BookGrows
  <2>. QED
    BY <1>6, <2>2, <2>3
<1>8. /\ Reverses \cap (Works \cup Appends \cup Undoes \cup {"idle", "revert"}) = {}
      /\ Appends \subseteq Works /\ Undoes \subseteq Works
  BY DEF Works, Appends, Undoes, Reverses
<1>9. TypeInv'
  BY <1>1, <1>2, <1>7 DEF TypeInv
<1>10. WorkInv' /\ Exclusive'
  BY <1>1, <1>2, <1>3, <1>8 DEF WorkInv, Exclusive
<1>11. RecordInv'
  BY <1>1 DEF RecordInv
<1>12. SavedInv'
  BY <1>1, <1>7 DEF SavedInv
<1>13. FreshInv'
  BY <1>1, <1>2, <1>3, <1>4, <1>7, <1>8 DEF FreshInv
<1>14. UndoneInv'
  BY <1>1, <1>2, <1>4, <1>7 DEF UndoneInv, SavedInv
<1>. QED
  BY <1>9, <1>10, <1>11, <1>12, <1>13, <1>14

(***************************************************************************)
(* Neither provider nor ledger know the transaction.                       *)
(***************************************************************************)
LEMMA RecoverAbsentKeeps ==
  ASSUME IInv, NEW o \in Op, RecoverAbsent(o)
  PROVE  IInv'
BY ResolvedKeeps DEF IInv, RecoverAbsent, provider, books, TypeInv

(***************************************************************************)
(* The entry that compensates is flushed.                                  *)
(***************************************************************************)
LEMMA ReversalBookedKeeps ==
  ASSUME IInv, NEW o \in Op, ReversalBooked(o)
  PROVE  IInv'
<1>. USE DEF IInv, provider, books, journal
<1>1. /\ op[o].pc \in Reverses /\ o \in todo /\ saved' = ledger
      /\ UNCHANGED <<prov, provSaved, ledger, tx, txSaved, parent, todo, isolated>>
  BY DEF ReversalBooked, FlushLedger, WorkInv, Recovers, Reverses
<1>2. /\ op' \in [Op -> OpT] /\ \A p \in Op \ {o} : op'[p] = op[p]
      /\ op'[o].pc \in Reverses
  BY DEF ReversalBooked, Goto, TypeInv, OpT, Recovers, Reverses
<1>3. \A p \in Op : op[p].pc \notin Works
  BY <1>1, NobodyWorks
<1>4. /\ Reverses \cap (Works \cup Appends \cup Undoes \cup {"idle", "revert"}) = {}
      /\ Appends \subseteq Works /\ Undoes \subseteq Works
  BY DEF Works, Appends, Undoes, Reverses
<1>5. TypeInv'
  BY <1>1, <1>2 DEF TypeInv
<1>6. WorkInv' /\ Exclusive'
  BY <1>1, <1>2, <1>3, <1>4 DEF WorkInv, Exclusive
<1>7. RecordInv' /\ SavedInv'
  BY <1>1 DEF RecordInv, SavedInv
<1>8. FreshInv'
  BY <1>1, <1>2, <1>3, <1>4 DEF FreshInv
<1>9. UndoneInv'
  BY <1>1, <1>2 DEF UndoneInv, SavedInv
<1>. QED
  BY <1>5, <1>6, <1>7, <1>8, <1>9

(***************************************************************************)
(* A recovery whose entry is booked closes the transaction.                *)
(***************************************************************************)
LEMMA RecoveryEndsKeeps ==
  ASSUME IInv, NEW o \in Op, RecoveryEnds(o)
  PROVE  IInv'
<1>. USE DEF IInv, provider, books
<1>1. op[o].pc \in Reverses /\ o \in todo
  BY DEF RecoveryEnds, WorkInv, Recovers, Reverses
<1>2. /\ op' \in [Op -> OpT] /\ op'[o].pc = "done"
      /\ \A p \in Op \ {o} : op'[p] = op[p]
  BY DEF RecoveryEnds, Goto, TypeInv, OpT
<1>. QED
  BY <1>1, <1>2, ResolvedKeeps DEF RecoveryEnds

(***************************************************************************)
(* The provider wrote and nothing is booked: the recovery does both, and   *)
(* takes both back.                                                        *)
(***************************************************************************)
LEMMA RecoverRevertKeeps ==
  ASSUME IInv, NEW o \in Op, RecoverRevert(o)
  PROVE  IInv'
<1>. USE DEF IInv, provider, books, journal
<1>1. /\ o \in todo /\ op[o].pc = "done"
      /\ o \notin Refs(ledger) /\ o \in prov.done
      /\ UNCHANGED <<provSaved, saved, tx, txSaved, parent, todo, isolated>>
  BY Found DEF RecoverRevert, Written
<1>2. /\ op' \in [Op -> OpT] /\ \A p \in Op \ {o} : op'[p] = op[p]
      /\ op'[o].pc = "revert"
  BY DEF RecoverRevert, Goto, TypeInv, OpT, Recovers, Reverses
<1>3. \A p \in Op : op[p].pc \notin Works
  BY <1>1, NobodyWorks
<1>4. /\ tx[o].a \in Acct /\ tx[o].n \in Int
      /\ o \in AllRefs /\ Undo(o) \in AllRefs
      /\ \A p \in Op : Undo(p) # o
  BY <1>1, Distinct DEF RecordInv, TypeInv, TxT
<1>5. -tx[o].n \in Int
  BY <1>4
<1>6. /\ ledger' \in Seq(EntryT) /\ Refs(ledger') = Refs(ledger) \cup {o}
      /\ Once(ledger) => Once(ledger')
  <2>1. ledger \in Seq(EntryT)
        /\ ledger' = ledger \o Entry(tx[o].a, tx[o].n, o, o)
    BY DEF RecoverRevert, TypeInv
  <2>2. tx[o].a \in Acct /\ tx[o].n \in Int /\ o \in AllRefs
        /\ o \notin Refs(ledger)
    BY <1>1, <1>4
  <2>. QED
    BY <2>1, <2>2, BookGrows
<1>7. prov' \in ProvT /\ prov'.done = prov.done \cup {Undo(o)}
  <2>1. prov \in ProvT /\ Mutate(tx[o].a, -tx[o].n, Undo(o))
    BY DEF RecoverRevert, TypeInv
  <2>. QED
    BY <1>4, <1>5, <2>1, ProviderGrows
<1>8. "revert" \notin Works \cup Appends \cup Undoes
      /\ Appends \subseteq Works /\ Undoes \subseteq Works
  BY DEF Works, Appends, Undoes
<1>9. TypeInv'
  BY <1>1, <1>2, <1>6, <1>7 DEF TypeInv
<1>10. WorkInv' /\ Exclusive'
  BY <1>1, <1>2, <1>3, <1>8 DEF WorkInv, Exclusive
<1>11. RecordInv'
  BY <1>1 DEF RecordInv
<1>12. SavedInv'
  BY <1>1, <1>6, <1>7 DEF SavedInv
<1>13. FreshInv'
  BY <1>1, <1>2, <1>3, <1>6, <1>7, <1>8 DEF FreshInv
<1>14. UndoneInv'
  BY <1>1, <1>2, <1>4, <1>6 DEF UndoneInv, SavedInv
<1>. QED
  BY <1>9, <1>10, <1>11, <1>12, <1>13, <1>14

(***************************************************************************)
(* The provider has saved both calls of the recovery; the entry follows.   *)
(***************************************************************************)
LEMMA RevertFlushedKeeps ==
  ASSUME IInv, NEW o \in Op, RevertFlushed(o)
  PROVE  IInv'
<1>. USE DEF IInv, provider, books, journal
<1>1. /\ op[o].pc = "revert" /\ o \in todo
      /\ o \in Refs(ledger) /\ o \in prov.done /\ Undo(o) \notin Refs(ledger)
      /\ provSaved' = prov
      /\ UNCHANGED <<prov, saved, tx, txSaved, parent, todo, isolated>>
  BY DEF RevertFlushed, FlushProvider, WorkInv, FreshInv, UndoneInv, Recovers,
         Reverses,
         Reverses
<1>2. /\ op' \in [Op -> OpT] /\ \A p \in Op \ {o} : op'[p] = op[p]
      /\ op'[o].pc = "reverted"
  BY DEF RevertFlushed, Goto, TypeInv, OpT, Recovers, Reverses
<1>3. \A p \in Op : op[p].pc \notin Works
  BY <1>1, NobodyWorks
<1>4. /\ tx[o].a \in Acct /\ tx[o].n \in Int /\ Undo(o) \in AllRefs
      /\ \A p \in Op : p # Undo(o) /\ (p # o => Undo(p) # Undo(o))
  BY <1>1, Distinct DEF RecordInv, TypeInv, TxT
<1>5. -tx[o].n \in Int
  BY <1>4
<1>6. /\ ledger' \in Seq(EntryT) /\ Refs(ledger') = Refs(ledger) \cup {Undo(o)}
      /\ Once(ledger) => Once(ledger')
  <2>1. ledger \in Seq(EntryT)
        /\ ledger' = ledger \o Entry(tx[o].a, -tx[o].n, o, Undo(o))
    BY DEF RevertFlushed, TypeInv
  <2>2. tx[o].a \in Acct /\ -tx[o].n \in Int /\ Undo(o) \in AllRefs
        /\ Undo(o) \notin Refs(ledger)
    BY <1>1, <1>4, <1>5
  <2>. QED
    BY <2>1, <2>2, BookGrows
<1>7. "reverted" \notin Works \cup Appends \cup Undoes
      /\ Appends \subseteq Works /\ Undoes \subseteq Works
  BY DEF Works, Appends, Undoes
<1>8. TypeInv'
  BY <1>1, <1>2, <1>6 DEF TypeInv
<1>9. WorkInv' /\ Exclusive'
  BY <1>1, <1>2, <1>3, <1>7 DEF WorkInv, Exclusive
<1>10. RecordInv'
  BY <1>1 DEF RecordInv
<1>11. SavedInv'
  BY <1>1, <1>6 DEF SavedInv
<1>12. FreshInv'
  BY <1>1, <1>2, <1>3, <1>4, <1>6, <1>7 DEF FreshInv
<1>13. UndoneInv'
  BY <1>1, <1>2, <1>4, <1>6 DEF UndoneInv, SavedInv, Reverses
<1>. QED
  BY <1>8, <1>9, <1>10, <1>11, <1>12, <1>13

(***************************************************************************)
(* A recovery that fails leaves its transaction for the next one.          *)
(***************************************************************************)
LEMMA RecoverFailsKeeps ==
  ASSUME IInv, NEW o \in Op, RecoverFails(o)
  PROVE  IInv'
<1>. USE DEF IInv, provider, books, journal
<1>1. /\ o \in todo /\ todo' = todo \ {o} /\ isolated' = isolated \cup {o}
      /\ provSaved' \in {provSaved, prov} /\ saved' \in {saved, ledger}
      /\ UNCHANGED <<prov, ledger, tx, txSaved, parent>>
  BY DEF RecoverFails
<1>2. /\ op' \in [Op -> OpT] /\ \A p \in Op \ {o} : op'[p] = op[p]
      /\ op'[o].pc = "done"
  BY DEF RecoverFails, Goto, TypeInv, OpT
<1>3. \A p \in Op : op[p].pc \notin Works
  BY <1>1, NobodyWorks
<1>4. "done" \notin Works \cup Appends \cup Undoes \cup Recovers
      /\ Appends \subseteq Works /\ Undoes \subseteq Works
  BY DEF Works, Appends, Undoes, Recovers, Reverses
<1>5. TypeInv'
  BY <1>1, <1>2 DEF TypeInv
<1>6. WorkInv' /\ Exclusive'
  BY <1>1, <1>2, <1>3, <1>4 DEF WorkInv, Exclusive
<1>7. RecordInv'
  BY <1>1 DEF RecordInv
<1>8. SavedInv'
  BY <1>1 DEF SavedInv
<1>9. FreshInv'
  BY <1>1, <1>2, <1>4 DEF FreshInv
<1>10. UndoneInv'
  BY <1>1, <1>2 DEF UndoneInv, SavedInv
<1>. QED
  BY <1>5, <1>6, <1>7, <1>8, <1>9, <1>10

-----------------------------------------------------------------------------
(***************************************************************************)
(* A snapshot in the background, and a restart from what was saved.        *)
(***************************************************************************)
LEMMA PersistKeeps ==
  ASSUME IInv, Persist
  PROVE  IInv'
<1>. USE DEF IInv, Persist, FlushProvider, FlushLedger
<1>1. TypeInv'
  BY DEF TypeInv
<1>2. WorkInv' /\ Exclusive'
  BY DEF WorkInv, Exclusive, Own
<1>3. RecordInv'
  BY DEF RecordInv
<1>4. SavedInv'
  BY DEF SavedInv
<1>5. FreshInv'
  BY DEF FreshInv
<1>6. UndoneInv'
  BY DEF UndoneInv, SavedInv
<1>. QED
  BY <1>1, <1>2, <1>3, <1>4, <1>5, <1>6

(***************************************************************************)
(* A restart: memory is what was saved, and no command goes on.            *)
(***************************************************************************)
LEMMA CrashKeeps ==
  ASSUME IInv, Crash
  PROVE  IInv'
<1>. USE DEF IInv
<1>1. /\ prov' = provSaved /\ ledger' = saved /\ isolated' = {}
      /\ UNCHANGED <<provSaved, saved, txSaved, parent>>
  BY DEF Crash
<1>2. /\ op' \in [Op -> OpT]
      /\ \A o \in Op : \/ op[o].pc = "idle" /\ op'[o] = op[o]
                       \/ op[o].pc # "idle" /\ op'[o].pc = "done"
  BY DEF Crash, Idle, TypeInv, OpT
<1>3. /\ tx' \in [Op -> TxT]
      /\ \A o \in Op : /\ tx'[o].a = txSaved[o].a
                       /\ \/ tx'[o].state = txSaved[o].state
                          \/ txSaved[o].state \in Unresolved
      /\ todo' = {o \in Op : tx'[o].state = "needs-recovery"}
  BY ZenonT(40) DEF Crash, TypeInv, TxT, Unresolved
<1>4. /\ {"idle", "done"} \cap (Works \cup Recovers) = {}
      /\ Appends \subseteq Works /\ Undoes \subseteq Works
      /\ "none" \notin Unresolved /\ Final \cap Unresolved = {}
  BY DEF Works, Appends, Undoes, Recovers, Reverses, Final, Unresolved
<1>5. TypeInv'
  BY <1>1, <1>2, <1>3 DEF TypeInv
<1>6. WorkInv' /\ Exclusive'
  BY <1>2, <1>4 DEF WorkInv, Exclusive
<1>7. RecordInv'
  BY <1>1, <1>3, <1>4 DEF RecordInv
<1>8. SavedInv'
  BY <1>1 DEF SavedInv
<1>9. FreshInv'
  BY <1>1, <1>2, <1>4 DEF FreshInv, SavedInv
<1>10. UndoneInv'
  BY <1>1, <1>2, <1>3, <1>4 DEF UndoneInv, SavedInv
<1>. QED
  BY <1>5, <1>6, <1>7, <1>8, <1>9, <1>10

-----------------------------------------------------------------------------
(***************************************************************************)
(* At first nothing was done and nothing is booked.                        *)
(***************************************************************************)
LEMMA InitEstablishes == Init => IInv
<1>. SUFFICES ASSUME Init
              PROVE  IInv
  OBVIOUS
<1>1. /\ prov \in ProvT /\ provSaved = prov /\ prov.done = {}
      /\ ledger = <<>> /\ saved = <<>> /\ todo = {} /\ isolated = {}
      /\ tx \in [Op -> TxT] /\ txSaved = tx
      /\ \A o \in Op : tx[o].state = "none"
      /\ parent \in [DOMAIN Step -> {"none", "open", "closed"}]
      /\ op \in [Op -> OpT] /\ \A o \in Op : op[o].pc = "idle"
  BY ProviderAssumption DEF Init, Idle, ProvT, TxT, OpT, Final
<1>2. Refs(<<>>) = {} /\ Once(<<>>) /\ <<>> \in Seq(EntryT)
  BY DEF Refs, Once
<1>3. "idle" \notin Works \cup Appends \cup Undoes \cup Recovers
  BY DEF Works, Appends, Undoes, Recovers, Reverses
<1>. QED
  BY <1>1, <1>2, <1>3
     DEF IInv, TypeInv, WorkInv, RecordInv, Exclusive, SavedInv, FreshInv,
         UndoneInv

(***************************************************************************)
(* Every step keeps the invariant.                                         *)
(***************************************************************************)
LEMMA NextKeeps == IInv /\ [Next]_vars => IInv'
<1>. SUFFICES ASSUME IInv, [Next]_vars
              PROVE  IInv'
  OBVIOUS
<1>1. ASSUME NEW o \in Op, Adjusting(o)
      PROVE  IInv'
  BY <1>1, StartsKeep, JournalledKeeps, JournalFailsKeeps, MutateBalanceKeeps,
     ErrorsKeep, AppendEntryKeeps, BookKeeps, ProviderFlushedKeeps, CloseKeeps
     DEF Adjusting
<1>2. ASSUME NEW o \in Op, Undoing(o)
      PROVE  IInv'
  BY <1>2, StartsKeep, UndoNothingKeeps, UndoRebuildKeeps, RebuiltKeeps,
     UndoMutateKeeps, UndoRefusedKeeps, UndoFlushedKeeps, UndoAppendKeeps,
     UndoBookedKeeps, UndoFlushFailsKeeps
     DEF Undoing
<1>3. ASSUME NEW o \in Op, Recovering(o)
      PROVE  IInv'
  BY <1>3, RecoverPresentKeeps, RecoverUnwrittenKeeps, RecoverAbsentKeeps,
     RecoverRevertKeeps, RevertFlushedKeeps, ReversalBookedKeeps,
     RecoveryEndsKeeps, RecoverFailsKeeps
     DEF Recovering
<1>4. CASE UNCHANGED vars
  <2>1. UNCHANGED <<prov, provSaved, ledger, saved, tx, txSaved, parent, op,
                    todo, isolated>>
    BY <1>4 DEF vars, provider, books, journal
  <2>. QED
    BY <2>1
       DEF IInv, TypeInv, WorkInv, RecordInv, Exclusive, SavedInv, FreshInv,
           UndoneInv, Own
<1>. QED
  BY <1>1, <1>2, <1>3, <1>4, PersistKeeps, CrashKeeps DEF Next

(***************************************************************************)
(* Provider, ledger and journal are of their types, and no reference is    *)
(* booked twice.                                                           *)
(***************************************************************************)
LEMMA InvImplies == IInv => Consistent
<1>. SUFFICES ASSUME IInv
              PROVE  Consistent
  OBVIOUS
<1>. USE DEF IInv
<1>1. TypeOK
  <2>1. \A o \in Op : Busy(o) => op[o].pc \in Works \/ o \in todo
    BY DEF TypeInv, OpT, Busy, WorkInv
  <2>2. todo # {} => \A o \in Op : Busy(o) => o \in todo
    BY <2>1, NobodyWorks
  <2>3. \A p \in {prov, provSaved} :
          /\ p.bal \in [Acct -> Int]
          /\ p.done \subseteq Ref \cup {Undo(k) : k \in Ref}
    BY DEF TypeInv, ProvT, AllRefs
  <2>4. \A t \in {tx, txSaved} : \A o \in Op :
          t[o].state \in Final \cup Unresolved
    BY DEF TypeInv, TxT
  <2>. QED
    BY <2>2, <2>3, <2>4 DEF TypeOK, TypeInv, EntryT, AllRefs
<1>2. BookedOnce
  <2>1. SUFFICES ASSUME NEW ref \in Ref \cup {Undo(k) : k \in Ref}
                 PROVE  Cardinality(EntriesBy(ledger, ref)) <= 1
    BY DEF BookedOnce
  <2>2. CASE EntriesBy(ledger, ref) = {}
    BY <2>2, FS_EmptySet
  <2>3. CASE EntriesBy(ledger, ref) # {}
    <3>1. PICK i : i \in EntriesBy(ledger, ref)
      BY <2>3
    <3>2. EntriesBy(ledger, ref) = {i}
      BY <3>1 DEF EntriesBy, SavedInv, Once
    <3>3. Cardinality({i}) = 1
      BY FS_Singleton
    <3>. QED
      BY <3>2, <3>3
  <2>. QED
    BY <2>2, <2>3
<1>. QED
  BY <1>1, <1>2 DEF Consistent

(***************************************************************************)
(* In every behaviour, whatever fails and however often the client         *)
(* restarts, no operation of a provider account is booked twice.           *)
(***************************************************************************)
THEOREM ProviderConsistent == Spec => []Consistent
BY InitEstablishes, NextKeeps, InvImplies, PTL DEF Spec

-----------------------------------------------------------------------------
(***************************************************************************)
(* What the journal and the parents say of an operation is so: of itself   *)
(* and of its compensation, at the provider and in the ledger.             *)
(***************************************************************************)
Untouched(k) ==
  /\ k \notin prov.done /\ Undo(k) \notin prov.done
  /\ k \notin Refs(ledger) /\ Undo(k) \notin Refs(ledger)

Stands(k) ==
  /\ k \in prov.done /\ Undo(k) \notin prov.done
  /\ k \in Refs(ledger) /\ Undo(k) \notin Refs(ledger)

\* The snapshots have all of it that memory has.
Kept(k) ==
  /\ k \in prov.done => k \in provSaved.done
  /\ Undo(k) \in prov.done => Undo(k) \in provSaved.done
  /\ k \in Refs(ledger) => k \in Refs(saved)
  /\ Undo(k) \in Refs(ledger) => Undo(k) \in Refs(saved)

\* Nothing is compensated that was not there.
UndoneAfter ==
  \A k \in Ref :
    /\ Undo(k) \in prov.done => k \in prov.done
    /\ Undo(k) \in provSaved.done => k \in provSaved.done
    /\ Undo(k) \in Refs(ledger) => k \in Refs(ledger)
    /\ Undo(k) \in Refs(saved) => k \in Refs(saved)

RecordTrue(o) ==
  /\ op[o].pc = "idle" => tx[o].state = "none"
  /\ tx[o].state = "none" => txSaved[o].state = "none"
  /\ txSaved[o].state = "none" => Untouched(o)
  /\ txSaved[o].state # "none" =>
       txSaved[o].a = tx[o].a /\ txSaved[o].n = tx[o].n
  /\ txSaved[o].state \in Final => txSaved[o].state \in {"none", tx[o].state}
  /\ tx[o].state \in Final => Kept(o)
  /\ tx[o].state = "committed" => Stands(o)
  /\ tx[o].state = "failed" =>
       o \notin prov.done /\ (o \in Refs(ledger) => Undo(o) \in Refs(ledger))
  /\ tx[o].state = "compensated" =>
       Undo(o) \in prov.done /\ Undo(o) \in Refs(ledger)
  /\ tx[o].state \in Unresolved /\ Undo(o) \in Refs(ledger) =>
       Undo(o) \in provSaved.done \/ o \notin prov.done
  /\ o \in todo /\ op[o].pc = "done" =>
       Kept(o) /\ ~(Undo(o) \in prov.done /\ o \in Refs(ledger))

StepTrue(k) ==
  /\ parent[k] = "none" => Untouched(k)
  /\ parent[k] = "closed" =>
       \/ Stands(k) /\ Kept(k)
       \/ /\ k \in prov.done => Undo(k) \in prov.done
          /\ k \in Refs(ledger) => Undo(k) \in Refs(ledger)

\* How far a command has come.
WorkTrue(o, pc, r) ==
  /\ pc \in Works /\ r \in DOMAIN Step =>
       parent[r] = "open" /\ op[o].n = Step[r].n
  /\ pc \in Works \ {"close"} /\ r \notin DOMAIN Step =>
       tx[o].state = "committing" /\ op[o].a = tx[o].a /\ op[o].n = tx[o].n
  /\ pc \in {"journal", "mutate"} => Untouched(r)
  /\ pc = "mutate" /\ r \notin DOMAIN Step => txSaved[o].state # "none"
  /\ pc = "append" =>
       /\ r \in prov.done /\ Undo(r) \notin prov.done
       /\ r \notin Refs(ledger) /\ Undo(r) \notin Refs(ledger)
  /\ pc \in {"book", "flush provider"} => Stands(r)
  /\ pc = "flush provider" => r \in Refs(saved)
  /\ pc = "undo book" =>
       Undo(r) \in Refs(ledger) /\ (r \in prov.done => Undo(r) \in prov.done)
  /\ pc = "revert" =>
       /\ Undo(o) \in prov.done
       /\ o \in Refs(ledger) /\ Undo(o) \notin Refs(ledger)
  /\ pc = "reverted" =>
       /\ o \in provSaved.done /\ Undo(o) \in provSaved.done
       /\ Undo(o) \in Refs(ledger)
  /\ pc = "unbook" => o \notin prov.done /\ Undo(o) \in Refs(ledger)
  /\ pc = "failed" => o \notin prov.done /\ Undo(o) \in Refs(saved)
  /\ pc = "compensated" =>
       /\ o \in provSaved.done /\ Undo(o) \in provSaved.done
       /\ Undo(o) \in Refs(saved)

Truth ==
  /\ UndoneAfter
  /\ \A o \in Op : RecordTrue(o) /\ WorkTrue(o, op[o].pc, op[o].ref)
  /\ \A k \in DOMAIN Step : StepTrue(k)

-----------------------------------------------------------------------------
(***************************************************************************)
(* A step that touches one reference leaves the others alone, or saves     *)
(* what memory has of them.                                                *)
(***************************************************************************)
Same(S, T, k) ==
  (k \in S <=> k \in T) /\ (Undo(k) \in S <=> Undo(k) \in T)

Spared(k) ==
  /\ Same(prov'.done, prov.done, k) /\ Same(Refs(ledger'), Refs(ledger), k)
  /\ \/ Same(provSaved'.done, provSaved.done, k)
     \/ Same(provSaved'.done, prov.done, k)
  /\ \/ Same(Refs(saved'), Refs(saved), k)
     \/ Same(Refs(saved'), Refs(ledger), k)

Touches(r) ==
  /\ prov'.done \in {prov.done, prov.done \cup {r}, prov.done \cup {Undo(r)}}
  /\ Refs(ledger') \in {Refs(ledger), Refs(ledger) \cup {r},
                        Refs(ledger) \cup {Undo(r)}}
  /\ provSaved'.done \in {provSaved.done, prov'.done}
  /\ Refs(saved') \in {Refs(saved), Refs(ledger')}

(***************************************************************************)
(* Every reference but the one that is touched is spared.                  *)
(***************************************************************************)
LEMMA OthersSpared ==
  ASSUME NEW r \in Ref, Touches(r)
  PROVE  \A k \in Ref \ {r} : Spared(k)
<1>. SUFFICES ASSUME NEW k \in Ref, k # r
              PROVE  Spared(k)
  OBVIOUS
<1>1. {k, Undo(k)} \cap {r, Undo(r)} = {}
  BY Distinct
<1>2. /\ Same(prov'.done, prov.done, k) /\ Same(Refs(ledger'), Refs(ledger), k)
  BY <1>1 DEF Touches, Same
<1>. QED
  BY <1>2 DEF Touches, Same, Spared

(***************************************************************************)
(* A record stays true whose adjustment is spared.                         *)
(***************************************************************************)
LEMMA RecordElsewhere ==
  ASSUME SavedInv, NEW p \in Op, RecordTrue(p), Spared(p),
         tx'[p] = tx[p], txSaved'[p] \in {txSaved[p], tx[p]},
         op'[p].pc = "idle" => op[p].pc = "idle",
         p \in todo' /\ op'[p].pc = "done" => p \in todo /\ op[p].pc = "done"
  PROVE  RecordTrue(p)'
<1>1. Undo(p)' = Undo(p)
  BY DEF Undo
<1>2. Kept(p) => Kept(p)'
  BY <1>1 DEF Kept, Spared, Same, SavedInv
<1>3. Untouched(p) => Untouched(p)'
  BY <1>1 DEF Untouched, Spared, Same
<1>4. Stands(p) => Stands(p)'
  BY <1>1 DEF Stands, Spared, Same
<1>5. Undo(p) \in provSaved.done => Undo(p) \in provSaved'.done
  BY DEF Spared, Same, SavedInv
<1>6. tx[p].state = "none" => Untouched(p)
  BY DEF RecordTrue
<1>. QED
  BY <1>1, <1>2, <1>3, <1>4, <1>5, <1>6 DEF RecordTrue, Spared, Same

(***************************************************************************)
(* What a parent says of its step stays true where the step is spared.     *)
(***************************************************************************)
LEMMA StepElsewhere ==
  ASSUME SavedInv, NEW k \in DOMAIN Step, StepTrue(k), Spared(k),
         parent'[k] \in {"open", parent[k]}
  PROVE  StepTrue(k)'
<1>1. Kept(k) => Kept(k)'
  BY DEF Kept, Spared, Same, SavedInv, Undo
<1>2. Untouched(k) => Untouched(k)'
  BY DEF Untouched, Spared, Same, Undo
<1>3. Stands(k) => Stands(k)'
  BY DEF Stands, Spared, Same, Undo
<1>. QED
  BY <1>1, <1>2, <1>3 DEF StepTrue, Spared, Same, Undo

(***************************************************************************)
(* How far a command has come stays true where its reference is spared.    *)
(***************************************************************************)
LEMMA WorkElsewhere ==
  ASSUME SavedInv, NEW p \in Op, WorkTrue(p, op[p].pc, op[p].ref),
         op'[p] = op[p], Spared(p), op[p].pc \in Works => Spared(op[p].ref),
         op[p].pc \in Works => tx'[p] = tx[p],
         txSaved'[p] \in {txSaved[p], tx[p]},
         \A k \in DOMAIN Step : op[p].pc \in Works /\ op[p].ref = k =>
           parent'[k] = parent[k]
  PROVE  WorkTrue(p, op[p].pc, op[p].ref)'
<1>1. PICK r : r = op[p].ref
  OBVIOUS
<1>2. PICK pc : pc = op[p].pc
  OBVIOUS
<1>3. {"journal", "mutate", "append", "book", "flush provider", "undo book"}
        \subseteq Works
  BY DEF Works, Appends, Undoes
<1>4. pc \in Works => (Untouched(r) => Untouched(r)') /\ (Stands(r) => Stands(r)')
  BY <1>1, <1>2 DEF Untouched, Stands, Spared, Same, Undo
<1>5. WorkTrue(p, pc, r)
  BY <1>1, <1>2
<1>6. op'[p].pc = pc /\ op'[p].ref = r
  BY <1>1, <1>2
<1>. SUFFICES WorkTrue(p, pc, r)'
  BY <1>6
<1>. QED
  BY <1>1, <1>2, <1>3, <1>4, <1>5, ZenonT(60) DEF WorkTrue, Spared, Same, SavedInv, Undo

(***************************************************************************)
(* Nothing is compensated that is not there, if that is so of the one      *)
(* reference that is touched.                                              *)
(***************************************************************************)
LEMMA AfterKept ==
  ASSUME UndoneAfter, NEW r \in Ref, Touches(r),
         Undo(r) \in prov'.done => r \in prov'.done,
         Undo(r) \in Refs(ledger') => r \in Refs(ledger')
  PROVE  UndoneAfter'
<1>1. \A k \in Ref \ {r} : Spared(k)
  BY OthersSpared
<1>2. \A k \in Ref : Undo(k)' = Undo(k)
  BY DEF Undo
<1>3. \A k \in Ref \ {r} :
        /\ Undo(k) \in prov'.done => k \in prov'.done
        /\ Undo(k) \in provSaved'.done => k \in provSaved'.done
        /\ Undo(k) \in Refs(ledger') => k \in Refs(ledger')
        /\ Undo(k) \in Refs(saved') => k \in Refs(saved')
  BY <1>1 DEF Spared, Same, UndoneAfter
<1>4. /\ Undo(r) \in provSaved'.done => r \in provSaved'.done
      /\ Undo(r) \in Refs(saved') => r \in Refs(saved')
  BY DEF Touches, UndoneAfter
<1>. QED
  BY <1>2, <1>3, <1>4 DEF UndoneAfter

(***************************************************************************)
(* A command that works touches one reference.  What remains to show is    *)
(* what is said of that one, and of the command.                           *)
(***************************************************************************)
LEMMA WorkTells ==
  ASSUME IInv, Truth, NEW o \in Op, op[o].pc \in Works,
         NEW r \in Ref, r = op[o].ref, Touches(r), todo' = todo,
         \A p \in Op \ {o} : op'[p] = op[p] /\ tx'[p] = tx[p],
         \A p \in Op : txSaved'[p] \in {txSaved[p], tx[p]},
         \A k \in DOMAIN Step \ {r} : parent'[k] = parent[k],
         op'[o].pc # "idle",
         r \in DOMAIN Step => tx'[o] = tx[o] /\ StepTrue(r)',
         r \notin DOMAIN Step => RecordTrue(o)',
         WorkTrue(o, op[o].pc, op[o].ref)',
         Undo(r) \in prov'.done => r \in prov'.done,
         Undo(r) \in Refs(ledger') => r \in Refs(ledger')
  PROVE  Truth'
<1>. USE DEF IInv
<1>6. UndoneAfter'
  BY AfterKept DEF Truth
<1>1. \A k \in Ref \ {r} : Spared(k)
  BY OthersSpared
<1>2. todo = {} /\ (r \notin DOMAIN Step => r = o)
  BY DEF WorkInv, Own
<1>3. ASSUME NEW p \in Op
      PROVE  RecordTrue(p)'
  <2>1. CASE p = r
    BY <1>2, <1>3, <2>1, Distinct
  <2>2. CASE p # r
    <3>1. Spared(p) /\ RecordTrue(p) /\ SavedInv
      BY <1>1, <1>3, <2>2, Distinct DEF Truth
    <3>2. tx'[p] = tx[p]
      BY <1>2, <1>3, <2>2
    <3>3. op'[p].pc = "idle" => op[p].pc = "idle"
      BY <1>3
    <3>. QED
      BY <1>2, <1>3, <3>1, <3>2, <3>3, RecordElsewhere
  <2>. QED
    BY <2>1, <2>2
<1>4. ASSUME NEW p \in Op
      PROVE  WorkTrue(p, op[p].pc, op[p].ref)'
  <2>1. CASE p = o
    BY <1>4, <2>1
  <2>2. CASE p # o
    <3>1. op'[p] = op[p] /\ tx'[p] = tx[p]
      BY <1>4, <2>2
    <3>2. op[p].pc \in Works => op[p].ref \in Ref /\ op[p].ref # r
      BY <1>4, <2>2 DEF Exclusive, WorkInv
    <3>3. op[p].pc \in Works => Spared(op[p].ref)
      BY <1>1, <3>2
    <3>4. CASE p # r
      <4>1. Spared(p)
        BY <1>1, <1>4, <3>4, Distinct
      <4>2. \A k \in DOMAIN Step : op[p].pc \in Works /\ op[p].ref = k =>
              parent'[k] = parent[k]
        BY <3>2
      <4>3. WorkTrue(p, op[p].pc, op[p].ref) /\ SavedInv
        BY <1>4 DEF Truth
      <4>. QED
        BY <1>4, <3>1, <3>3, <4>1, <4>2, <4>3, WorkElsewhere
    <3>5. CASE p = r
      BY <1>2, <1>4, <2>2, <3>5, Distinct
    <3>. QED
      BY <3>4, <3>5
  <2>. QED
    BY <2>1, <2>2
<1>5. ASSUME NEW k \in DOMAIN Step
      PROVE  StepTrue(k)'
  <2>1. CASE k = r
    BY <1>5, <2>1
  <2>2. CASE k # r
    <3>1. Spared(k) /\ StepTrue(k) /\ parent'[k] = parent[k] /\ SavedInv
      BY <1>1, <1>5, <2>2, Distinct DEF Truth
    <3>. QED
      BY <1>5, <3>1, StepElsewhere
  <2>. QED
    BY <2>1, <2>2
<1>. QED
  BY <1>3, <1>4, <1>5, <1>6 DEF Truth

(***************************************************************************)
(* What is said of the reference a command works for.                      *)
(***************************************************************************)
Told(o, r) ==
  /\ r \in Ref /\ r # Undo(r) /\ WorkTrue(o, op[o].pc, r) /\ todo = {}
  /\ r \in DOMAIN Step => parent[r] = "open" /\ ~Own(o)
  /\ r \notin DOMAIN Step =>
       r = o /\ Own(o) /\ RecordTrue(o) /\ tx[o].state # "none"
  /\ Undo(r) \in prov.done => r \in prov.done
  /\ Undo(r) \in Refs(ledger) => r \in Refs(ledger)
  /\ provSaved.done \subseteq prov.done /\ Refs(saved) \subseteq Refs(ledger)

(***************************************************************************)
(* A command that works is told this of its reference.                     *)
(***************************************************************************)
LEMMA ToldOf ==
  ASSUME IInv, Truth, NEW o \in Op, op[o].pc \in Works,
         NEW r, r = op[o].ref
  PROVE  Told(o, r)
<1>1. r \in Ref /\ WorkTrue(o, op[o].pc, r) /\ todo = {}
  BY DEF Truth, IInv, WorkInv
<1>2. r \in DOMAIN Step => parent[r] = "open" /\ ~Own(o)
  <2>1. Op \cap DOMAIN Step = {}
    BY Distinct
  <2>. QED
    BY <1>1, <2>1 DEF WorkTrue, Own
<1>3. r \notin DOMAIN Step =>
              r = o /\ Own(o) /\ RecordTrue(o) /\ tx[o].state # "none"
  BY DEF Truth, IInv, WorkInv, Own
<1>4. r # Undo(r)
  BY <1>1, Distinct
<1>5. /\ Undo(r) \in prov.done => r \in prov.done
      /\ Undo(r) \in Refs(ledger) => r \in Refs(ledger)
  BY <1>1 DEF Truth, UndoneAfter
<1>6. provSaved.done \subseteq prov.done /\ Refs(saved) \subseteq Refs(ledger)
  BY DEF IInv, SavedInv
<1>. QED
  BY <1>1, <1>2, <1>3, <1>4, <1>5, <1>6 DEF Told

(***************************************************************************)
(* How a command goes on, and how it ends.                                 *)
(***************************************************************************)
GoesOn(o, pc) ==
  /\ \A p \in Op \ {o} : op'[p] = op[p]
  /\ op'[o].pc = pc /\ op'[o].ref = op[o].ref
  /\ op'[o].a = op[o].a /\ op'[o].n = op[o].n

Stops(o) == (\A p \in Op \ {o} : op'[p] = op[p]) /\ op'[o].pc = "done"

(***************************************************************************)
(* Goto goes on with the same operation, End stops, and an error does one  *)
(* of the two.                                                             *)
(***************************************************************************)
LEMMA GoingOn ==
  ASSUME IInv, NEW o \in Op
  PROVE  /\ \A pc : Goto(o, pc) => GoesOn(o, pc)
         /\ End(o) => Stops(o)
         /\ AfterError(o) =>
              \/ Own(o) /\ GoesOn(o, "close")
              \/ ~Own(o) /\ (GoesOn(o, "undo") \/ Stops(o))
<1>1. op \in [Op -> OpT]
  BY DEF IInv, TypeInv
<1>2. \A pc : Goto(o, pc) => GoesOn(o, pc)
  BY <1>1 DEF Goto, GoesOn, OpT
<1>3. End(o) => Stops(o)
  BY <1>1 DEF End, Stops, Idle
<1>. QED
  BY <1>2, <1>3 DEF AfterError

(***************************************************************************)
(* Of a command that has stopped nothing is said.                          *)
(***************************************************************************)
LEMMA StoppedTrue ==
  ASSUME NEW o \in Op, op'[o].pc = "done"
  PROVE  WorkTrue(o, op[o].pc, op[o].ref)'
BY DEF WorkTrue, Works, Appends, Undoes

(***************************************************************************)
(* A step that only saves what is in memory.                               *)
(***************************************************************************)
LEMMA SavingTells ==
  ASSUME IInv, Truth, NEW o \in Op, op[o].pc \in Works,
         UNCHANGED <<prov, ledger, tx, parent, todo>>,
         provSaved' \in {provSaved, prov}, saved' \in {saved, ledger},
         txSaved' \in {txSaved, tx},
         \A p \in Op \ {o} : op'[p] = op[p], op'[o].pc # "idle",
         WorkTrue(o, op[o].pc, op[o].ref)'
  PROVE  Truth'
<1>1. PICK r : r = op[o].ref
  OBVIOUS
<1>2. Told(o, r)
  BY <1>1, ToldOf
<1>3. Touches(r) /\ Spared(r)
  BY DEF Touches, Spared, Same
<1>4. r \notin DOMAIN Step => RecordTrue(o)'
  <2>. SUFFICES ASSUME r \notin DOMAIN Step
                PROVE  RecordTrue(o)'
    OBVIOUS
  <2>1. SavedInv /\ RecordTrue(o) /\ Spared(o) /\ todo' = {} /\ tx' = tx
    BY <1>2, <1>3 DEF Told, IInv
  <2>2. tx'[o] = tx[o] /\ txSaved'[o] \in {txSaved[o], tx[o]}
    OBVIOUS
  <2>3. o \notin todo'
    BY <2>1
  <2>. QED
    BY <2>1, <2>2, <2>3, RecordElsewhere
<1>5. r \in DOMAIN Step => StepTrue(r)'
  BY <1>2 DEF Told, StepTrue
<1>6. r \in DOMAIN Step => tx'[o] = tx[o]
  OBVIOUS
<1>7. \A p \in Op : txSaved'[p] \in {txSaved[p], tx[p]}
  OBVIOUS
<1>8. r \in Ref /\ todo' = todo
      /\ (Undo(r) \in prov'.done => r \in prov'.done)
      /\ (Undo(r) \in Refs(ledger') => r \in Refs(ledger'))
  BY <1>2 DEF Told
<1>9. /\ \A p \in Op \ {o} : op'[p] = op[p] /\ tx'[p] = tx[p]
      /\ \A k \in DOMAIN Step \ {r} : parent'[k] = parent[k]
  OBVIOUS
<1>. QED
  BY <1>1, <1>3, <1>4, <1>5, <1>6, <1>7, <1>8, <1>9, WorkTells

(***************************************************************************)
(* The flushes of commands and of their compensations.                     *)
(***************************************************************************)
LEMMA FlushesTell ==
  ASSUME IInv, Truth, NEW o \in Op,
         \/ Journalled(o) \/ JournalFails(o) \/ Book(o) \/ Close(o)
         \/ Rebuilt(o) \/ UndoFlushed(o) \/ UndoFlushFails(o)
  PROVE  Truth'
<1>. USE DEF provider, books, faults, FlushLedger, FlushProvider
<1>1. PICK r : r = op[o].ref
  OBVIOUS
<1>2. CASE Journalled(o)
  <2>1. op[o].pc = "journal" /\ op[o].pc \in Works
    BY <1>2 DEF Journalled, Works, Appends
  <2>2. Told(o, r)
    BY <1>1, <2>1, ToldOf
  <2>3. GoesOn(o, "mutate")
    BY <1>2, GoingOn DEF Journalled
  <2>4. /\ UNCHANGED <<prov, provSaved, ledger, saved, tx, parent, todo>>
        /\ txSaved' = tx
    BY <1>2 DEF Journalled
  <2>5. WorkTrue(o, op[o].pc, op[o].ref)'
    BY <1>1, <2>1, <2>2, <2>3, <2>4
       DEF Told, WorkTrue, Untouched, GoesOn, Works, Appends, Own
  <2>. QED
    BY <2>1, <2>3, <2>4, <2>5, SavingTells DEF GoesOn
<1>3. CASE JournalFails(o)
  <2>1. op[o].pc \in Works /\ Stops(o)
    BY <1>3, GoingOn DEF JournalFails, Works, Appends
  <2>2. /\ UNCHANGED <<prov, provSaved, ledger, saved, tx, parent, todo>>
        /\ txSaved' \in {txSaved, tx}
    BY <1>3 DEF JournalFails
  <2>. QED
    BY <2>1, <2>2, StoppedTrue, SavingTells DEF Stops
<1>4. CASE Book(o)
  <2>1. op[o].pc = "book" /\ op[o].pc \in Works
    BY <1>4 DEF Book, Works
  <2>2. Told(o, r)
    BY <1>1, <2>1, ToldOf
  <2>3. GoesOn(o, "flush provider")
    BY <1>4, GoingOn DEF Book
  <2>4. /\ UNCHANGED <<prov, provSaved, ledger, tx, txSaved, parent, todo>>
        /\ saved' = ledger
    BY <1>4 DEF Book, journal
  <2>5. WorkTrue(o, op[o].pc, op[o].ref)'
    BY <1>1, <2>1, <2>2, <2>3, <2>4
       DEF Told, WorkTrue, Stands, GoesOn, Works, Own
  <2>. QED
    BY <2>1, <2>3, <2>4, <2>5, SavingTells DEF GoesOn
<1>5. CASE Close(o)
  <2>1. op[o].pc \in Works /\ Stops(o)
    BY <1>5, GoingOn DEF Close, Works
  <2>2. /\ UNCHANGED <<prov, provSaved, ledger, saved, tx, parent, todo>>
        /\ txSaved' = tx
    BY <1>5 DEF Close
  <2>. QED
    BY <2>1, <2>2, StoppedTrue, SavingTells DEF Stops
<1>6. CASE Rebuilt(o) \/ UndoFlushed(o)
  <2>1. op[o].pc \in Undoes /\ op[o].pc \in Works
    BY <1>6 DEF Rebuilt, UndoFlushed, Works, Undoes
  <2>2. Told(o, r) /\ r \in DOMAIN Step
    BY <1>1, <2>1, ToldOf DEF IInv, WorkInv
  <2>3. GoesOn(o, "undo")
    BY <1>6, GoingOn DEF Rebuilt, UndoFlushed
  <2>4. /\ UNCHANGED <<prov, ledger, tx, txSaved, parent, todo>>
        /\ saved' \in {saved, ledger} /\ provSaved' \in {provSaved, prov}
    BY <1>6 DEF Rebuilt, UndoFlushed, journal
  <2>5. WorkTrue(o, op[o].pc, op[o].ref)'
    BY <1>1, <2>1, <2>2, <2>3, <2>4 DEF Told, WorkTrue, GoesOn
  <2>. QED
    BY <2>1, <2>3, <2>4, <2>5, SavingTells DEF GoesOn
<1>7. CASE UndoFlushFails(o)
  <2>1. op[o].pc \in Works /\ Stops(o)
    BY <1>7, GoingOn DEF UndoFlushFails, Works, Undoes
  <2>2. /\ UNCHANGED <<prov, ledger, tx, txSaved, parent, todo>>
        /\ saved' \in {saved, ledger} /\ provSaved' \in {provSaved, prov}
    BY <1>7 DEF UndoFlushFails, journal
  <2>. QED
    BY <2>1, <2>2, StoppedTrue, SavingTells DEF Stops
<1>. QED
  BY <1>2, <1>3, <1>4, <1>5, <1>6, <1>7

(***************************************************************************)
(* The call of the provider and the entry of a command.                    *)
(***************************************************************************)
LEMMA WritesTell ==
  ASSUME IInv, Truth, NEW o \in Op, MutateBalance(o) \/ AppendEntry(o)
  PROVE  Truth'
<1>. USE DEF provider, books, journal, faults
<1>1. PICK r : r = op[o].ref
  OBVIOUS
<1>2. op[o].pc \in {"mutate", "append"} /\ op[o].pc \in Works
  BY DEF MutateBalance, AppendEntry, Works, Appends
<1>3. Told(o, r)
  BY <1>1, <1>2, ToldOf
<1>4. /\ op[o].a \in Acct /\ op[o].n \in Int /\ r \in AllRefs /\ r \in Ref
      /\ prov \in ProvT /\ ledger \in Seq(EntryT)
  BY <1>1, <1>2, Distinct DEF IInv, WorkInv, TypeInv, OpT
<1>5. UNCHANGED <<provSaved, saved, tx, txSaved, parent, todo>>
  BY DEF MutateBalance, AppendEntry
<1>6. \/ /\ op[o].pc = "mutate" /\ GoesOn(o, "append")
         /\ prov'.done = prov.done \cup {r} /\ Refs(ledger') = Refs(ledger)
      \/ /\ op[o].pc = "append" /\ GoesOn(o, "book")
         /\ prov'.done = prov.done /\ Refs(ledger') = Refs(ledger) \cup {r}
  <2>1. CASE MutateBalance(o)
    <3>1. prov'.done = prov.done \cup {r}
      BY <1>1, <1>4, <2>1, ProviderGrows DEF MutateBalance
    <3>. QED
      BY <2>1, <3>1, GoingOn DEF MutateBalance
  <2>2. CASE AppendEntry(o)
    <3>1. ledger' = ledger \o Entry(op[o].a, op[o].n, o, r)
      BY <1>1, <2>2 DEF AppendEntry
    <3>2. Refs(ledger') = Refs(ledger) \cup {r}
      BY <1>4, <3>1, BookGrows
    <3>. QED
      BY <2>2, <3>2, GoingOn DEF AppendEntry
  <2>. QED
    BY <2>1, <2>2
<1>7. Touches(r)
  BY <1>5, <1>6 DEF Touches
<1>8. r \in DOMAIN Step => tx'[o] = tx[o] /\ StepTrue(r)'
  BY <1>3, <1>5 DEF Told, StepTrue
<1>9. WorkTrue(o, op[o].pc, op[o].ref)'
  BY <1>1, <1>3, <1>5, <1>6
     DEF Told, WorkTrue, Untouched, Stands, GoesOn, Works, Appends, Own
<1>10. r \notin DOMAIN Step => RecordTrue(o)'
  <2>. SUFFICES ASSUME r \notin DOMAIN Step
                PROVE  RecordTrue(o)'
    OBVIOUS
  <2>1. /\ r = o /\ RecordTrue(o) /\ todo' = {}
        /\ tx'[o] = tx[o] /\ txSaved'[o] = txSaved[o]
    BY <1>3, <1>5 DEF Told
  <2>2. tx[o].state = "committing" /\ tx[o].state \notin Final
    BY <1>2, <1>3 DEF Told, WorkTrue, Final, Appends
  <2>3. txSaved[o].state # "none" /\ Undo(o) \notin Refs(ledger')
    BY <1>3, <1>6, <2>1 DEF Told, WorkTrue, RecordTrue, Untouched
  <2>4. op'[o].pc # "idle"
    BY <1>6 DEF GoesOn
  <2>. QED
    BY <2>1, <2>2, <2>3, <2>4 DEF RecordTrue, Undo
<1>11. /\ Undo(r) \in prov'.done => r \in prov'.done
       /\ Undo(r) \in Refs(ledger') => r \in Refs(ledger')
  BY <1>3, <1>6 DEF Told
<1>12. /\ \A p \in Op \ {o} : op'[p] = op[p] /\ tx'[p] = tx[p]
       /\ op'[o].pc # "idle"
       /\ \A p \in Op : txSaved'[p] \in {txSaved[p], tx[p]}
       /\ \A k \in DOMAIN Step \ {r} : parent'[k] = parent[k]
       /\ todo' = todo
  BY <1>5, <1>6 DEF GoesOn
<1>. QED
  BY <1>1, <1>2, <1>4, <1>7, <1>8, <1>9, <1>10, <1>11, <1>12, WorkTells

(***************************************************************************)
(* A call or a flush that fails.  A refused call left nothing; whatever    *)
(* another left, the record says that it needs recovery.                   *)
(***************************************************************************)
LEMMA ErrorTells ==
  ASSUME IInv, Truth, NEW o \in Op, op[o].pc \in Works \ {"close"},
         NEW r, r = op[o].ref,
         NEW state \in {"failed", "needs-recovery"},
         Becomes(o, state), AfterError(o),
         state = "failed" => op[o].pc = "mutate" /\ prov' = prov,
         prov'.done \in {prov.done, prov.done \cup {r}},
         op[o].pc \in {"mutate", "book", "flush provider"},
         provSaved' \in {provSaved, prov}, prov' = prov \/ provSaved' = provSaved,
         saved' \in {saved, ledger},
         UNCHANGED <<ledger, txSaved, parent, todo>>
  PROVE  Truth'
<1>1. Told(o, r)
  BY ToldOf
<1>2. Touches(r)
  BY DEF Touches
<1>3. \/ r \notin DOMAIN Step /\ GoesOn(o, "close")
      \/ r \in DOMAIN Step /\ (GoesOn(o, "undo") \/ Stops(o))
  <2>1. \/ Own(o) /\ GoesOn(o, "close")
        \/ ~Own(o) /\ (GoesOn(o, "undo") \/ Stops(o))
    BY GoingOn
  <2>2. Own(o) <=> r \notin DOMAIN Step
    BY <1>1 DEF Told
  <2>. QED
    BY <2>1, <2>2
<1>4. WorkTrue(o, op[o].pc, op[o].ref)'
  <2>1. CASE Stops(o)
    BY <2>1, StoppedTrue DEF Stops
  <2>2. CASE r \notin DOMAIN Step /\ GoesOn(o, "close")
    BY <2>2 DEF WorkTrue, GoesOn
  <2>3. CASE r \in DOMAIN Step /\ GoesOn(o, "undo")
    <3>1. parent[r] = "open" /\ op[o].n = Step[r].n
      BY <1>1, <2>3 DEF Told, WorkTrue
    <3>. QED
      BY <2>3, <3>1 DEF WorkTrue, GoesOn
  <2>. QED
    BY <1>3, <2>1, <2>2, <2>3
<1>5. r \in DOMAIN Step => tx' = tx /\ StepTrue(r)'
  BY <1>1 DEF Told, StepTrue, Becomes
<1>6. r \notin DOMAIN Step => RecordTrue(o)'
  <2>. SUFFICES ASSUME r \notin DOMAIN Step
                PROVE  RecordTrue(o)'
    OBVIOUS
  <2>1. /\ r = o /\ Own(o) /\ RecordTrue(o) /\ todo' = {} /\ r # Undo(r)
        /\ WorkTrue(o, op[o].pc, r)
    BY <1>1 DEF Told
  <2>2. /\ tx'[o].state = state /\ tx'[o].a = tx[o].a /\ tx'[o].n = tx[o].n
    <3>1. tx' = [tx EXCEPT ![o].state = state]
      BY <2>1 DEF Becomes
    <3>2. tx \in [Op -> TxT]
      BY DEF IInv, TypeInv
    <3>. QED
      BY <3>1, <3>2 DEF TxT
  <2>3. op'[o].pc # "idle"
    BY <1>3 DEF GoesOn, Stops
  <2>4. tx[o].state = "committing" /\ Undo(o) \notin Refs(ledger)
        /\ Undo(o) \notin prov.done
    BY <2>1, Found DEF WorkTrue, Stands, Untouched, UndoneInv, IInv
  <2>5. txSaved[o].state = "none" => Untouched(o)'
    BY <2>1, <2>4 DEF WorkTrue, RecordTrue, Stands, Untouched, Undo
  <2>6. txSaved[o].state \in Final => txSaved[o].state = "none"
    BY <2>1, <2>4 DEF RecordTrue, Final
  <2>7. state = "failed" => Untouched(o)
    BY <2>1 DEF WorkTrue
  <2>8. state = "failed" => Kept(o)' /\ Untouched(o)'
    BY <2>7 DEF Kept, Untouched, Undo
  <2>9. txSaved'[o] = txSaved[o] /\ Undo(o)' = Undo(o)
        /\ (txSaved[o].state # "none" => 
              txSaved[o].a = tx[o].a /\ txSaved[o].n = tx[o].n)
    BY <2>1 DEF Undo, RecordTrue
  <2>. QED
    BY <2>1, <2>2, <2>3, <2>4, <2>5, <2>6, <2>8, <2>9
       DEF RecordTrue, Untouched, Final, Unresolved
<1>7. /\ Undo(r) \in prov'.done => r \in prov'.done
      /\ Undo(r) \in Refs(ledger') => r \in Refs(ledger')
  BY <1>1 DEF Told
<1>8. /\ \A p \in Op \ {o} : op'[p] = op[p] /\ tx'[p] = tx[p]
      /\ op'[o].pc # "idle" /\ r \in Ref
      /\ \A p \in Op : txSaved'[p] \in {txSaved[p], tx[p]}
      /\ \A k \in DOMAIN Step \ {r} : parent'[k] = parent[k]
  BY <1>1, <1>3 DEF GoesOn, Stops, Becomes, Told, IInv, TypeInv
<1>. QED
  BY <1>2, <1>4, <1>5, <1>6, <1>7, <1>8, WorkTells

(***************************************************************************)
(* The calls and flushes of an adjustment that fail.                       *)
(***************************************************************************)
LEMMA ErrorsTell ==
  ASSUME IInv, Truth, NEW o \in Op,
         MutateRefused(o) \/ MutateUnknown(o) \/ BookFails(o)
           \/ ProviderFlushFails(o)
  PROVE  Truth'
<1>. USE DEF provider, books, journal
<1>1. PICK r : r = op[o].ref
  OBVIOUS
<1>2. op[o].pc \in Works \ {"close"}
      /\ op[o].pc \in {"mutate", "book", "flush provider"}
  BY DEF MutateRefused, MutateUnknown, BookFails, ProviderFlushFails, Works,
         Appends
<1>3. CASE MutateRefused(o)
  BY <1>1, <1>2, <1>3, ErrorTells DEF MutateRefused
<1>4. CASE MutateUnknown(o)
  <2>1. op[o].a \in Acct /\ op[o].n \in Int /\ r \in AllRefs /\ prov \in ProvT
    BY <1>1, <1>2, Distinct DEF IInv, WorkInv, TypeInv, OpT
  <2>2. prov'.done \in {prov.done, prov.done \cup {r}}
    BY <1>1, <1>4, <2>1, ProviderGrows DEF MutateUnknown
  <2>. QED
    BY <1>1, <1>2, <1>4, <2>2, ErrorTells DEF MutateUnknown
<1>5. CASE BookFails(o)
  BY <1>1, <1>2, <1>5, ErrorTells DEF BookFails
<1>6. CASE ProviderFlushFails(o)
  BY <1>1, <1>2, <1>6, ErrorTells DEF ProviderFlushFails
<1>. QED
  BY <1>3, <1>4, <1>5, <1>6

(***************************************************************************)
(* A compensation writes for a step whose parent is open.                  *)
(***************************************************************************)
LEMMA UndoTells ==
  ASSUME IInv, Truth, NEW o \in Op, op[o].pc \in Undoes,
         NEW r, r = op[o].ref, Touches(r),
         UNCHANGED <<tx, txSaved, parent, todo>>,
         \/ Stops(o) \/ GoesOn(o, "rebuild") \/ GoesOn(o, "undo flush")
         \/ /\ GoesOn(o, "undo book") /\ Undo(r) \in Refs(ledger')
            /\ r \in prov'.done => Undo(r) \in prov'.done,
         Undo(r) \in prov'.done => r \in prov'.done,
         Undo(r) \in Refs(ledger') => r \in Refs(ledger')
  PROVE  Truth'
<1>1. Told(o, r) /\ r \in DOMAIN Step /\ op[o].pc \in Works
  BY ToldOf DEF IInv, WorkInv, Works
<1>2. WorkTrue(o, op[o].pc, op[o].ref)'
  BY <1>1, StoppedTrue DEF Told, WorkTrue, GoesOn, Stops, Undo
<1>3. tx'[o] = tx[o] /\ StepTrue(r)'
  BY <1>1 DEF Told, StepTrue
<1>4. /\ \A p \in Op \ {o} : op'[p] = op[p] /\ tx'[p] = tx[p]
      /\ op'[o].pc # "idle" /\ r \in Ref
      /\ \A p \in Op : txSaved'[p] \in {txSaved[p], tx[p]}
      /\ \A k \in DOMAIN Step \ {r} : parent'[k] = parent[k]
  BY <1>1 DEF GoesOn, Stops, Told
<1>. QED
  BY <1>1, <1>2, <1>3, <1>4, WorkTells

(***************************************************************************)
(* What a compensation writes and appends.                                 *)
(***************************************************************************)
LEMMA UndoesTell ==
  ASSUME IInv, Truth, NEW o \in Op,
         UndoRebuild(o) \/ UndoMutate(o) \/ UndoRefused(o) \/ UndoAppend(o)
  PROVE  Truth'
<1>. USE DEF provider, books, journal, faults
<1>1. PICK r : r = op[o].ref
  OBVIOUS
<1>2. op[o].pc \in Undoes /\ op[o].pc \in Works
  BY DEF UndoRebuild, UndoMutate, UndoMutates, UndoRefused, UndoAppend,
         CompensationDue, Undoes, Works
<1>3. Told(o, r)
  BY <1>1, <1>2, ToldOf
<1>4. /\ op[o].a \in Acct /\ op[o].n \in Int /\ r \in AllRefs /\ r \in Ref
      /\ Undo(r) \in AllRefs /\ prov \in ProvT
  BY <1>1, <1>2, Distinct DEF IInv, WorkInv, TypeInv, OpT
<1>5. -op[o].n \in Int
  BY <1>4
<1>6. UNCHANGED <<provSaved, saved, tx, txSaved, parent, todo>>
  BY DEF UndoRebuild, UndoMutate, UndoRefused, UndoAppend
<1>7. CASE UndoRebuild(o)
  <2>1. ledger' = ledger \o Entry(op[o].a, op[o].n, o, r) /\ prov' = prov
    BY <1>1, <1>7 DEF UndoRebuild
  <2>2. Refs(ledger') = Refs(ledger) \cup {r}
    <3>1. /\ ledger \in Seq(EntryT)
          /\ ledger' = ledger \o Entry(op[o].a, op[o].n, o, r)
      BY <2>1 DEF IInv, TypeInv
    <3>2. op[o].a \in Acct /\ op[o].n \in Int /\ r \in AllRefs
      BY <1>4
    <3>. QED
      BY <3>1, <3>2, BookGrows
  <2>3. GoesOn(o, "rebuild")
    BY <1>7, GoingOn DEF UndoRebuild
  <2>4. Touches(r)
    BY <1>6, <2>1, <2>2 DEF Touches
  <2>. QED
    BY <1>1, <1>2, <1>3, <1>6, <2>1, <2>2, <2>3, <2>4, UndoTells DEF Told
<1>8. CASE UndoMutate(o) \/ UndoRefused(o)
  <2>1. r \in prov.done
    BY <1>1, <1>8
       DEF UndoMutate, UndoRefused, UndoMutates, Outcome, Written
  <2>2. /\ prov'.done \in {prov.done, prov.done \cup {Undo(r)}}
        /\ ledger' = ledger
    BY <1>1, <1>4, <1>5, <1>8, ProviderGrows DEF UndoMutate, UndoRefused
  <2>3. GoesOn(o, "undo flush") \/ Stops(o)
    BY <1>8, GoingOn DEF UndoMutate, UndoRefused
  <2>4. Touches(r)
    BY <1>6, <2>2 DEF Touches
  <2>. QED
    BY <1>1, <1>2, <1>3, <1>6, <2>1, <2>2, <2>3, <2>4, UndoTells DEF Told
<1>9. CASE UndoAppend(o)
  <2>1. /\ r \in Refs(ledger)
        /\ r \in prov.done => Undo(r) \in prov.done
    BY <1>1, <1>9, Found
       DEF UndoAppend, CompensationDue, Outcome, Written
  <2>2. ledger' = ledger \o Entry(op[o].a, -op[o].n, o, Undo(r))
        /\ prov' = prov
    BY <1>1, <1>9 DEF UndoAppend
  <2>3. Refs(ledger') = Refs(ledger) \cup {Undo(r)}
    <3>1. /\ ledger \in Seq(EntryT)
          /\ ledger' = ledger \o Entry(op[o].a, -op[o].n, o, Undo(r))
      BY <2>2 DEF IInv, TypeInv
    <3>2. op[o].a \in Acct /\ -op[o].n \in Int /\ Undo(r) \in AllRefs
      BY <1>4, <1>5
    <3>. QED
      BY <3>1, <3>2, BookGrows
  <2>4. GoesOn(o, "undo book")
    BY <1>9, GoingOn DEF UndoAppend
  <2>5. Touches(r)
    BY <1>6, <2>2, <2>3 DEF Touches
  <2>. QED
    BY <1>1, <1>2, <1>3, <1>6, <2>1, <2>2, <2>3, <2>4, <2>5, UndoTells DEF Told
<1>. QED
  BY <1>7, <1>8, <1>9

(***************************************************************************)
(* An adjustment the provider saved: the record says committed, or the     *)
(* parent of a step goes on.                                               *)
(***************************************************************************)
LEMMA ProviderFlushedTells ==
  ASSUME IInv, Truth, NEW o \in Op, ProviderFlushed(o)
  PROVE  Truth'
<1>. USE DEF provider, books, faults, FlushProvider
<1>1. PICK r : r = op[o].ref
  OBVIOUS
<1>2. op[o].pc = "flush provider" /\ op[o].pc \in Works
  BY DEF ProviderFlushed, Works
<1>3. Told(o, r)
  BY <1>1, <1>2, ToldOf
<1>4. /\ UNCHANGED <<prov, ledger, saved, txSaved, todo>>
      /\ provSaved' = prov /\ Becomes(o, "committed")
  BY DEF ProviderFlushed
<1>5. Stands(r) /\ r \in Refs(saved)
  BY <1>2, <1>3 DEF WorkTrue, Told
<1>6. Stands(r)' /\ Kept(r)'
  BY <1>4, <1>5 DEF Stands, Kept, Undo
<1>7. \/ r \notin DOMAIN Step /\ GoesOn(o, "close") /\ parent' = parent
      \/ r \in DOMAIN Step /\ GoesOn(o, "undo") /\ parent' = parent
      \/ r \in DOMAIN Step /\ Stops(o) /\ parent' = [parent EXCEPT ![r] = "closed"]
  <2>1. Own(o) <=> r \notin DOMAIN Step
    BY <1>3 DEF Told
  <2>2. CASE Own(o)
    BY <2>1, <2>2, GoingOn DEF ProviderFlushed
  <2>3. CASE ~Own(o)
    BY <1>1, <2>1, <2>3, GoingOn DEF ProviderFlushed
  <2>. QED
    BY <2>2, <2>3
<1>8. WorkTrue(o, op[o].pc, op[o].ref)'
  <2>1. CASE Stops(o)
    BY <2>1, StoppedTrue DEF Stops
  <2>2. CASE r \notin DOMAIN Step /\ GoesOn(o, "close")
    BY <1>1, <2>2 DEF WorkTrue, GoesOn
  <2>3. CASE r \in DOMAIN Step /\ GoesOn(o, "undo") /\ parent' = parent
    <3>1. parent[r] = "open" /\ op[o].n = Step[r].n
      BY <1>1, <1>2, <1>3, <2>3 DEF Told, WorkTrue
    <3>. QED
      BY <1>1, <2>3, <3>1 DEF WorkTrue, GoesOn
  <2>. QED
    BY <1>7, <2>1, <2>2, <2>3
<1>9. r \in DOMAIN Step => tx' = tx /\ StepTrue(r)'
  <2>. SUFFICES ASSUME r \in DOMAIN Step
                PROVE  tx' = tx /\ StepTrue(r)'
    OBVIOUS
  <2>1. tx' = tx /\ parent[r] = "open"
    BY <1>3, <1>4 DEF Told, Becomes
  <2>2. parent'[r] # "none"
    BY <1>7, <2>1 DEF IInv, TypeInv
  <2>. QED
    BY <1>6, <2>1, <2>2 DEF StepTrue
<1>10. r \notin DOMAIN Step => RecordTrue(o)'
  <2>. SUFFICES ASSUME r \notin DOMAIN Step
                PROVE  RecordTrue(o)'
    OBVIOUS
  <2>1. r = o /\ Own(o) /\ RecordTrue(o) /\ todo' = {}
        /\ WorkTrue(o, op[o].pc, r)
    BY <1>3, <1>4 DEF Told
  <2>2. /\ tx'[o].state = "committed" /\ tx'[o].a = tx[o].a
        /\ tx'[o].n = tx[o].n
    <3>1. tx' = [tx EXCEPT ![o].state = "committed"]
      BY <1>4, <2>1 DEF Becomes
    <3>2. tx \in [Op -> TxT]
      BY DEF IInv, TypeInv
    <3>. QED
      BY <3>1, <3>2 DEF TxT
  <2>3. tx[o].state = "committing"
    BY <1>2, <2>1 DEF WorkTrue
  <2>4. txSaved[o].state \notin Final
    <3>1. txSaved[o].state # "none"
      BY <1>5, <2>1 DEF RecordTrue, Untouched, Stands
    <3>. QED
      BY <2>1, <2>3, <3>1 DEF RecordTrue, Final
  <2>5. op'[o].pc # "idle"
    BY <1>7 DEF GoesOn, Stops
  <2>6. txSaved'[o] = txSaved[o] /\ txSaved[o].state # "none"
        /\ txSaved[o].a = tx[o].a /\ txSaved[o].n = tx[o].n
    BY <1>4, <2>1, <2>4 DEF RecordTrue, Final
  <2>. QED
    BY <1>6, <2>1, <2>2, <2>4, <2>5, <2>6
       DEF RecordTrue, Unresolved
<1>11. Touches(r)
  BY <1>4 DEF Touches
<1>12. /\ Undo(r) \in prov'.done => r \in prov'.done
       /\ Undo(r) \in Refs(ledger') => r \in Refs(ledger')
  BY <1>3, <1>4 DEF Told
<1>13. /\ \A p \in Op \ {o} : op'[p] = op[p] /\ tx'[p] = tx[p]
       /\ op'[o].pc # "idle" /\ r \in Ref
       /\ \A p \in Op : txSaved'[p] \in {txSaved[p], tx[p]}
       /\ \A k \in DOMAIN Step \ {r} : parent'[k] = parent[k]
  BY <1>3, <1>4, <1>7 DEF GoesOn, Stops, Becomes, Told, IInv, TypeInv
<1>. QED
  BY <1>1, <1>2, <1>4, <1>8, <1>9, <1>10, <1>11, <1>12, <1>13, WorkTells

(***************************************************************************)
(* A compensation that finds nothing to do, or is done.                    *)
(***************************************************************************)
LEMMA SettlesTell ==
  ASSUME IInv, Truth, NEW o \in Op, UndoNothing(o) \/ UndoBooked(o)
  PROVE  Truth'
<1>. USE DEF provider, books, journal, faults, FlushLedger
<1>1. PICK r : r = op[o].ref
  OBVIOUS
<1>2. op[o].pc \in Undoes /\ op[o].pc \in Works
  BY DEF UndoNothing, UndoBooked, CompensationDue, Undoes, Works
<1>3. Told(o, r) /\ r \in DOMAIN Step
  BY <1>1, <1>2, ToldOf DEF IInv, WorkInv
<1>4. /\ UNCHANGED <<prov, provSaved, ledger, tx, txSaved, todo>>
      /\ saved' \in {saved, ledger} /\ Stops(o)
      /\ parent' = [parent EXCEPT ![r] = "closed"]
  BY <1>1, GoingOn DEF UndoNothing, UndoBooked, Settle
<1>5. /\ r \in prov.done => Undo(r) \in prov.done
      /\ r \in Refs(ledger) => Undo(r) \in Refs(ledger)
  <2>1. CASE UndoNothing(o)
    BY <1>1, <2>1, Found DEF UndoNothing, Outcome, Written
  <2>2. CASE op[o].pc = "undo book"
    BY <1>3, <2>2 DEF Told, WorkTrue
  <2>3. CASE CompensationDue(o) /\ Present(Undo(op[o].ref))
    BY <1>1, <2>3, Found DEF CompensationDue, Outcome, Written
  <2>. QED
    BY <2>1, <2>2, <2>3 DEF UndoBooked
<1>6. StepTrue(r)'
  <2>1. parent'[r] = "closed"
    BY <1>3, <1>4 DEF IInv, TypeInv
  <2>. QED
    BY <1>4, <1>5, <2>1 DEF StepTrue, Undo
<1>7. WorkTrue(o, op[o].pc, op[o].ref)'
  BY <1>4, StoppedTrue DEF Stops
<1>8. Touches(r)
  BY <1>4 DEF Touches
<1>9. /\ Undo(r) \in prov'.done => r \in prov'.done
      /\ Undo(r) \in Refs(ledger') => r \in Refs(ledger')
  BY <1>3, <1>4 DEF Told
<1>10. /\ \A p \in Op \ {o} : op'[p] = op[p] /\ tx'[p] = tx[p]
       /\ op'[o].pc # "idle" /\ r \in Ref
       /\ \A p \in Op : txSaved'[p] \in {txSaved[p], tx[p]}
       /\ \A k \in DOMAIN Step \ {r} : parent'[k] = parent[k]
  BY <1>3, <1>4 DEF Stops, Told, IInv, TypeInv
<1>. QED
  BY <1>1, <1>2, <1>3, <1>4, <1>6, <1>7, <1>8, <1>9, <1>10, WorkTells

(***************************************************************************)
(* A command that starts changes nothing but what is known of it.          *)
(***************************************************************************)
LEMMA StartTells ==
  ASSUME IInv, Truth, NEW o \in Op, op[o].pc = "idle",
         UNCHANGED <<prov, provSaved, ledger, saved, txSaved, todo>>,
         todo = {}, op'[o].pc # "idle",
         \A p \in Op \ {o} : op'[p] = op[p] /\ tx'[p] = tx[p],
         \A k \in DOMAIN Step :
           \/ parent'[k] = parent[k]
           \/ parent[k] = "none" /\ parent'[k] = "open",
         RecordTrue(o)', WorkTrue(o, op[o].pc, op[o].ref)'
  PROVE  Truth'
<1>1. \A k : Spared(k)
  BY DEF Spared, Same
<1>2. UndoneAfter'
  BY DEF Truth, UndoneAfter, Undo
<1>3. ASSUME NEW p \in Op \ {o}
      PROVE  RecordTrue(p)' /\ WorkTrue(p, op[p].pc, op[p].ref)'
  <2>1. /\ op'[p] = op[p] /\ tx'[p] = tx[p] /\ txSaved'[p] = txSaved[p]
        /\ RecordTrue(p) /\ WorkTrue(p, op[p].pc, op[p].ref) /\ SavedInv
    BY DEF Truth, IInv
  <2>2. p \notin todo'
    OBVIOUS
  <2>3. \A k \in DOMAIN Step : op[p].pc \in Works /\ op[p].ref = k =>
          parent'[k] = parent[k]
    BY <2>1 DEF WorkTrue
  <2>4. RecordTrue(p)'
    BY <1>1, <2>1, <2>2, RecordElsewhere
  <2>5. WorkTrue(p, op[p].pc, op[p].ref)'
    BY <1>1, <2>1, <2>3, WorkElsewhere
  <2>. QED
    BY <2>4, <2>5
<1>4. ASSUME NEW k \in DOMAIN Step
      PROVE  StepTrue(k)'
  BY <1>1, StepElsewhere DEF Truth, IInv
<1>. QED
  BY <1>2, <1>3, <1>4 DEF Truth

(***************************************************************************)
(* An adjustment, a step of a parent and a compensation are begun.         *)
(***************************************************************************)
LEMMA StartsTell ==
  ASSUME IInv, Truth, NEW o \in Op,
         StartAdjust(o) \/ StartStep(o) \/ StartUndo(o)
  PROVE  Truth'
<1>. USE DEF provider, books, faults
<1>1. /\ op[o].pc = "idle" /\ todo = {} /\ op \in [Op -> OpT]
      /\ UNCHANGED <<prov, provSaved, ledger, saved, txSaved, todo>>
  BY DEF StartAdjust, StartStep, StartUndo, Start, IInv, TypeInv
<1>2. RecordTrue(o) /\ tx[o].state = "none"
  BY <1>1 DEF Truth, RecordTrue
<1>3. CASE StartAdjust(o)
  <2>1. PICK a \in Acct, n \in Delta :
          /\ op' = [op EXCEPT ![o] =
                      [pc |-> "journal", ref |-> o, a |-> a, n |-> n]]
          /\ tx' = [tx EXCEPT ![o] =
                       [state |-> "committing", a |-> a, n |-> n]]
          /\ parent' = parent
    BY <1>3 DEF StartAdjust, Start
  <2>2. /\ op'[o] = [pc |-> "journal", ref |-> o, a |-> a, n |-> n]
        /\ tx'[o] = [state |-> "committing", a |-> a, n |-> n]
        /\ \A p \in Op \ {o} : op'[p] = op[p] /\ tx'[p] = tx[p]
    BY <1>1, <2>1 DEF IInv, TypeInv
  <2>3. txSaved'[o].state = "none" /\ Untouched(o) /\ Untouched(o)'
    BY <1>1, <1>2 DEF RecordTrue, Untouched, Undo
  <2>4. RecordTrue(o)'
    BY <1>1, <2>2, <2>3 DEF RecordTrue, Untouched, Final
  <2>5. WorkTrue(o, op[o].pc, op[o].ref)'
    BY <2>2, <2>3, Distinct DEF WorkTrue
  <2>6. \A k \in DOMAIN Step : parent'[k] = parent[k]
    BY <2>1
  <2>. QED
    BY <1>1, <2>2, <2>4, <2>5, <2>6, StartTells
<1>4. CASE StartStep(o) \/ StartUndo(o)
  <2>1. PICK k \in DOMAIN Step, pc \in {"mutate", "undo"} :
          /\ op' = [op EXCEPT ![o] = [pc |-> pc, ref |-> k,
                                      a |-> Step[k].acct, n |-> Step[k].n]]
          /\ tx' = tx
          /\ \/ /\ pc = "mutate" /\ parent[k] = "none"
                /\ parent' = [parent EXCEPT ![k] = "open"]
             \/ pc = "undo" /\ parent[k] = "open" /\ parent' = parent
    BY <1>4 DEF StartStep, StartUndo, Start
  <2>2. /\ op'[o] = [pc |-> pc, ref |-> k,
                     a |-> Step[k].acct, n |-> Step[k].n]
        /\ \A p \in Op \ {o} : op'[p] = op[p] /\ tx'[p] = tx[p]
        /\ op'[o].pc # "idle" /\ tx'[o] = tx[o]
    BY <1>1, <2>1
  <2>3. parent'[k] = "open"
    BY <2>1 DEF IInv, TypeInv
  <2>4. pc = "mutate" => Untouched(k)'
    <3>1. pc = "mutate" => Untouched(k)
      BY <2>1 DEF Truth, StepTrue
    <3>. QED
      BY <1>1, <3>1 DEF Untouched, Undo
  <2>5. WorkTrue(o, op[o].pc, op[o].ref)'
    <3>2. CASE pc = "mutate"
      BY <2>2, <2>3, <2>4, <3>2 DEF WorkTrue
    <3>3. CASE pc = "undo"
      BY <2>2, <2>3, <3>3 DEF WorkTrue
    <3>. QED
      BY <3>2, <3>3
  <2>6. RecordTrue(o)'
    <3>1. Spared(o) /\ SavedInv /\ o \notin todo'
          /\ txSaved'[o] \in {txSaved[o], tx[o]}
      BY <1>1 DEF Spared, Same, IInv
    <3>. QED
      BY <1>2, <2>2, <3>1, RecordElsewhere
  <2>7. \A j \in DOMAIN Step :
           \/ parent'[j] = parent[j]
           \/ parent[j] = "none" /\ parent'[j] = "open"
    <3>1. ASSUME NEW j \in DOMAIN Step \ {k}
          PROVE  parent'[j] = parent[j]
      BY <2>1, <3>1 DEF IInv, TypeInv
    <3>2. parent'[k] = parent[k] \/ (parent[k] = "none" /\ parent'[k] = "open")
      BY <2>1, <2>3
    <3>. QED
      BY <3>1, <3>2
  <2>. QED
    BY <1>1, <2>2, <2>5, <2>6, <2>7, StartTells
<1>. QED
  BY <1>3, <1>4

-----------------------------------------------------------------------------
(***************************************************************************)
(* A recovery touches what its transaction is about.                       *)
(***************************************************************************)
LEMMA RecoverTells ==
  ASSUME IInv, Truth, NEW o \in todo, Touches(o),
         todo' \subseteq todo, parent' = parent,
         \A p \in Op \ {o} : op'[p] = op[p] /\ tx'[p] = tx[p]
                             /\ txSaved'[p] \in {txSaved[p], tx[p]},
         RecordTrue(o)', WorkTrue(o, op[o].pc, op[o].ref)',
         Undo(o) \in prov'.done => o \in prov'.done,
         Undo(o) \in Refs(ledger') => o \in Refs(ledger')
  PROVE  Truth'
<1>1. o \in Op /\ o \in Ref /\ \A p \in Op : op[p].pc \notin Works
  BY NobodyWorks, Distinct DEF IInv, TypeInv
<1>2. \A k \in Ref \ {o} : Spared(k)
  BY <1>1, OthersSpared
<1>3. UndoneAfter'
  BY <1>1, AfterKept DEF Truth
<1>4. ASSUME NEW p \in Op \ {o}
      PROVE  RecordTrue(p)' /\ WorkTrue(p, op[p].pc, op[p].ref)'
  <2>1. /\ op'[p] = op[p] /\ tx'[p] = tx[p]
        /\ txSaved'[p] \in {txSaved[p], tx[p]}
        /\ RecordTrue(p) /\ WorkTrue(p, op[p].pc, op[p].ref) /\ SavedInv
    BY DEF Truth, IInv
  <2>2. Spared(p) /\ op[p].pc \notin Works
    BY <1>1, <1>2, Distinct
  <2>3. /\ op'[p].pc = "idle" => op[p].pc = "idle"
        /\ p \in todo' /\ op'[p].pc = "done" => p \in todo /\ op[p].pc = "done"
    BY <2>1
  <2>4. RecordTrue(p)'
    BY <2>1, <2>2, <2>3, RecordElsewhere
  <2>5. WorkTrue(p, op[p].pc, op[p].ref)'
    BY <2>1, <2>2, WorkElsewhere
  <2>. QED
    BY <2>4, <2>5
<1>5. ASSUME NEW k \in DOMAIN Step
      PROVE  StepTrue(k)'
  <2>1. Spared(k) /\ StepTrue(k) /\ SavedInv
    BY <1>1, <1>2, Distinct DEF Truth, IInv
  <2>. QED
    BY <2>1, StepElsewhere
<1>. QED
  BY <1>1, <1>3, <1>4, <1>5 DEF Truth

(***************************************************************************)
(* A transaction that is closed: the record says what became of it.        *)
(***************************************************************************)
Ended(o, state) ==
  /\ state = "committed" => Stands(o)
  /\ state = "failed" =>
       o \notin prov.done /\ (o \in Refs(ledger) => Undo(o) \in Refs(ledger))
  /\ state = "compensated" =>
       Undo(o) \in prov.done /\ Undo(o) \in Refs(ledger)

(***************************************************************************)
(* A recovery that closes its transaction as what became of it.            *)
(***************************************************************************)
LEMMA ResolvedTells ==
  ASSUME IInv, Truth, NEW o \in todo,
         NEW state \in {"committed", "failed", "compensated"},
         Resolved(o, state), Touches(o), parent' = parent,
         \A p \in Op \ {o} : op'[p] = op[p], op'[o].pc = "done",
         Kept(o)', Ended(o, state)',
         Undo(o) \in prov'.done => o \in prov'.done,
         Undo(o) \in Refs(ledger') => o \in Refs(ledger')
  PROVE  Truth'
<1>1. /\ txSaved' = tx' /\ \A p \in Op \ {o} : tx'[p] = tx[p]
      /\ tx'[o].state = state /\ todo' = todo \ {o} /\ o \in Op
  BY Resolving DEF IInv, TypeInv
<1>2. state \notin Unresolved /\ state # "none"
  BY DEF Unresolved
<1>3. RecordTrue(o)'
  BY <1>1, <1>2 DEF RecordTrue, Ended
<1>4. WorkTrue(o, op[o].pc, op[o].ref)'
  BY <1>1, StoppedTrue
<1>5. /\ todo' \subseteq todo
      /\ \A p \in Op \ {o} : op'[p] = op[p] /\ tx'[p] = tx[p]
                             /\ txSaved'[p] \in {txSaved[p], tx[p]}
  BY <1>1
<1>. QED
  BY <1>3, <1>4, <1>5, RecoverTells

(***************************************************************************)
(* What a recovery finds: memory is what was saved, and where the          *)
(* compensation stands beside the entry the provider never wrote.          *)
(***************************************************************************)
LEMMA ToRecover ==
  ASSUME IInv, Truth, NEW o \in todo, op[o].pc = "done"
  PROVE  /\ o \in Op /\ o \in Ref /\ Undo(o) # o /\ Kept(o)
         /\ ~(Undo(o) \in prov.done /\ o \in Refs(ledger))
         /\ Undo(o) \in Refs(ledger) => o \in Refs(ledger) /\ o \notin prov.done
         /\ Undo(o) \in prov.done => o \in prov.done
         /\ tx[o].state = "needs-recovery" /\ RecordTrue(o)
         /\ provSaved.done \subseteq prov.done /\ Refs(saved) \subseteq Refs(ledger)
<1>1. o \in Op /\ o \in Ref /\ Undo(o) # o
  BY Distinct DEF IInv, TypeInv
<1>2. tx[o].state = "needs-recovery" /\ RecordTrue(o)
  BY <1>1 DEF IInv, RecordInv, Truth
<1>3. Kept(o) /\ ~(Undo(o) \in prov.done /\ o \in Refs(ledger))
  BY <1>2 DEF RecordTrue
<1>4. /\ Undo(o) \in prov.done => o \in prov.done
      /\ Undo(o) \in Refs(ledger) => o \in Refs(ledger)
  BY <1>1 DEF Truth, UndoneAfter
<1>5. provSaved.done \subseteq prov.done /\ Refs(saved) \subseteq Refs(ledger)
  BY DEF IInv, SavedInv
<1>6. Undo(o) \in Refs(ledger) => o \notin prov.done
  BY <1>2, <1>3, <1>4, <1>5 DEF RecordTrue, Unresolved
<1>. QED
  BY <1>1, <1>2, <1>3, <1>4, <1>5, <1>6

(***************************************************************************)
(* The recovery of an adjustment that ledger and provider have.            *)
(***************************************************************************)
LEMMA RecoverPresentTells ==
  ASSUME IInv, Truth, NEW o \in Op, RecoverPresent(o)
  PROVE  Truth'
<1>. USE DEF provider, books, faults
<1>1. /\ o \in todo /\ op[o].pc = "done" /\ o \in Refs(ledger)
      /\ o \in prov.done /\ Resolved(o, "committed")
      /\ UNCHANGED <<prov, provSaved, ledger, saved, parent, op>>
  BY Found DEF RecoverPresent, Written
<1>2. /\ o \in Ref /\ Undo(o) # o /\ Kept(o) /\ Undo(o) \notin prov.done
      /\ Undo(o) \notin Refs(ledger)
  BY <1>1, ToRecover
<1>3. Kept(o)' /\ Ended(o, "committed")' /\ Touches(o)
  BY <1>1, <1>2 DEF Kept, Ended, Stands, Touches, Undo
<1>. QED
  BY <1>1, <1>2, <1>3, ResolvedTells

(***************************************************************************)
(* The recovery of an adjustment that only the ledger has.                 *)
(***************************************************************************)
LEMMA RecoverUnwrittenTells ==
  ASSUME IInv, Truth, NEW o \in Op, RecoverUnwritten(o)
  PROVE  Truth'
<1>. USE DEF provider, books, journal, faults
<1>1. /\ o \in todo /\ op[o].pc = "done" /\ o \in Refs(ledger)
      /\ o \notin prov.done
      /\ UNCHANGED <<prov, provSaved, saved, tx, txSaved, parent, todo>>
  BY Found DEF RecoverUnwritten, Written
<1>2. /\ o \in Ref /\ Undo(o) # o /\ Kept(o) /\ Undo(o) \notin prov.done
      /\ RecordTrue(o) /\ tx[o].state = "needs-recovery"
  BY <1>1, ToRecover
<1>3. \/ /\ Undo(o) \in Refs(ledger) /\ GoesOn(o, "failed")
         /\ UNCHANGED ledger
      \/ /\ GoesOn(o, "unbook")
         /\ ledger' = ledger \o Entry(tx[o].a, -tx[o].n, o, Undo(o))
  BY Found, GoingOn DEF RecoverUnwritten, IInv, Recovers, Reverses
<1>4. Refs(ledger') = Refs(ledger) \cup {Undo(o)}
  <2>1. tx[o].a \in Acct /\ tx[o].n \in Int /\ Undo(o) \in AllRefs
    BY <1>1, Distinct DEF IInv, RecordInv, TypeInv, TxT
  <2>2. -tx[o].n \in Int
    BY <2>1
  <2>3. ledger \in Seq(EntryT)
    BY DEF IInv, TypeInv
  <2>4. CASE Undo(o) \in Refs(ledger) /\ UNCHANGED ledger
    BY <2>4
  <2>5. CASE ledger' = ledger \o Entry(tx[o].a, -tx[o].n, o, Undo(o))
    BY <2>1, <2>2, <2>3, <2>5, BookGrows, SMTT(30)
  <2>. QED
    BY <1>3, <2>4, <2>5
<1>5. Touches(o)
  BY <1>1, <1>4 DEF Touches
<1>6. WorkTrue(o, op[o].pc, op[o].ref)'
  <2>1. CASE Undo(o) \in Refs(ledger) /\ GoesOn(o, "failed")
    <3>1. op'[o].pc = "failed" /\ o \notin prov'.done /\ Undo(o) \in Refs(saved')
      BY <1>1, <1>2, <2>1 DEF Kept, GoesOn
    <3>. QED
      BY <3>1 DEF WorkTrue, Works, Appends, Undoes, Undo
  <2>2. CASE GoesOn(o, "unbook")
    <3>1. op'[o].pc = "unbook" /\ o \notin prov'.done /\ Undo(o) \in Refs(ledger')
      BY <1>1, <1>4, <2>2 DEF GoesOn
    <3>. QED
      BY <3>1 DEF WorkTrue, Works, Appends, Undoes, Undo
  <2>. QED
    BY <1>3, <2>1, <2>2
<1>7. RecordTrue(o)'
  <2>1. txSaved[o].state # "none"
    BY <1>1, <1>2 DEF RecordTrue, Untouched
  <2>2. tx[o].state \notin Final /\ op'[o].pc \in {"failed", "unbook"}
    BY <1>2, <1>3 DEF Final, GoesOn
  <2>. QED
    BY <1>1, <1>2, <2>1, <2>2 DEF RecordTrue, Undo
<1>8. \A p \in Op \ {o} : op'[p] = op[p] /\ tx'[p] = tx[p]
                          /\ txSaved'[p] \in {txSaved[p], tx[p]}
  BY <1>1, <1>3 DEF GoesOn
<1>. QED
  BY <1>1, <1>2, <1>4, <1>5, <1>6, <1>7, <1>8, RecoverTells

(***************************************************************************)
(* The recovery of an adjustment neither side has.                         *)
(***************************************************************************)
LEMMA RecoverAbsentTells ==
  ASSUME IInv, Truth, NEW o \in Op, RecoverAbsent(o)
  PROVE  Truth'
<1>. USE DEF provider, books, faults
<1>1. /\ o \in todo /\ op[o].pc = "done" /\ o \notin Refs(ledger)
      /\ o \notin prov.done /\ Resolved(o, "failed")
      /\ UNCHANGED <<prov, provSaved, ledger, saved, parent, op>>
  BY Found DEF RecoverAbsent, Written
<1>2. /\ Undo(o) \notin prov.done /\ Undo(o) \notin Refs(ledger)
  BY <1>1, ToRecover
<1>3. Kept(o)' /\ Ended(o, "failed")' /\ Touches(o)
  BY <1>1, <1>2 DEF Kept, Ended, Touches, Undo
<1>. QED
  BY <1>1, <1>2, <1>3, ResolvedTells

(***************************************************************************)
(* The entry that compensates is saved.                                    *)
(***************************************************************************)
LEMMA ReversalBookedTells ==
  ASSUME IInv, Truth, NEW o \in Op, ReversalBooked(o)
  PROVE  Truth'
<1>. USE DEF provider, books, journal, faults, FlushLedger
<1>1. /\ o \in todo /\ saved' = ledger
      /\ UNCHANGED <<prov, provSaved, ledger, tx, txSaved, parent, todo>>
  BY DEF ReversalBooked, IInv, WorkInv, Recovers, Reverses
<1>2. \/ op[o].pc = "unbook" /\ GoesOn(o, "failed")
      \/ op[o].pc = "reverted" /\ GoesOn(o, "compensated")
  BY GoingOn DEF ReversalBooked, IInv, Recovers, Reverses
<1>3. /\ RecordTrue(o) /\ WorkTrue(o, op[o].pc, op[o].ref)
      /\ tx[o].state = "needs-recovery" /\ o \in Ref
  BY <1>1, Distinct DEF Truth, IInv, RecordInv
<1>4. Touches(o) /\ Spared(o)
  BY <1>1 DEF Touches, Spared, Same
<1>5. WorkTrue(o, op[o].pc, op[o].ref)'
  BY <1>1, <1>2, <1>3 DEF WorkTrue, GoesOn, Works, Appends, Undoes, Undo
<1>6. RecordTrue(o)'
  <2>1. /\ SavedInv /\ tx'[o] = tx[o] /\ txSaved'[o] \in {txSaved[o], tx[o]}
        /\ op'[o].pc \notin {"idle", "done"}
    BY <1>1, <1>2 DEF IInv, GoesOn
  <2>. QED
    BY <1>3, <1>4, <2>1, RecordElsewhere
<1>7. /\ Undo(o) \in prov'.done => o \in prov'.done
      /\ Undo(o) \in Refs(ledger') => o \in Refs(ledger')
  BY <1>1, <1>3 DEF Truth, UndoneAfter
<1>8. \A p \in Op \ {o} : op'[p] = op[p] /\ tx'[p] = tx[p]
                          /\ txSaved'[p] \in {txSaved[p], tx[p]}
  BY <1>1, <1>2 DEF GoesOn
<1>. QED
  BY <1>1, <1>4, <1>5, <1>6, <1>7, <1>8, RecoverTells

(***************************************************************************)
(* A recovery whose compensating entry is saved.                           *)
(***************************************************************************)
LEMMA RecoveryEndsTells ==
  ASSUME IInv, Truth, NEW o \in Op, RecoveryEnds(o)
  PROVE  Truth'
<1>. USE DEF provider, books, faults
<1>1. /\ op[o].pc \in {"failed", "compensated"} /\ o \in todo
      /\ Resolved(o, op[o].pc) /\ GoesOn(o, "done")
      /\ UNCHANGED <<prov, provSaved, ledger, saved, parent>>
  BY GoingOn DEF RecoveryEnds, IInv, WorkInv, Recovers, Reverses
<1>2. /\ WorkTrue(o, op[o].pc, op[o].ref) /\ o \in Ref
      /\ provSaved.done \subseteq prov.done /\ Refs(saved) \subseteq Refs(ledger)
  BY Distinct DEF Truth, IInv, SavedInv
<1>. PICK state \in {"failed", "compensated"} : state = op[o].pc
  BY <1>1
<1>3. /\ Undo(o) \in Refs(saved)
      /\ \/ state = "failed" /\ o \notin prov.done
         \/ /\ state = "compensated"
            /\ o \in provSaved.done /\ Undo(o) \in provSaved.done
  BY <1>1, <1>2 DEF WorkTrue
<1>4. /\ Undo(o) \in prov.done => o \in prov.done
      /\ o \in Refs(saved) /\ o \in Refs(ledger) /\ Undo(o) \in Refs(ledger)
  BY <1>2, <1>3 DEF Truth, UndoneAfter
<1>5. Kept(o)'
  BY <1>1, <1>2, <1>3, <1>4 DEF Kept, Undo
<1>6. Ended(o, state)' /\ Touches(o)
  BY <1>1, <1>2, <1>3, <1>4 DEF Ended, Touches, Undo
<1>. QED
  BY <1>1, <1>4, <1>5, <1>6, ResolvedTells DEF GoesOn

(***************************************************************************)
(* The recovery takes back what the provider wrote, in three steps.        *)
(***************************************************************************)
LEMMA RecoverRevertTells ==
  ASSUME IInv, Truth, NEW o \in Op, RecoverRevert(o)
  PROVE  Truth'
<1>. USE DEF provider, books, journal, faults
<1>1. /\ o \in todo /\ op[o].pc = "done" /\ o \notin Refs(ledger)
      /\ o \in prov.done /\ GoesOn(o, "revert")
      /\ UNCHANGED <<provSaved, saved, tx, txSaved, parent, todo>>
  BY Found, GoingOn DEF RecoverRevert, Written
<1>2. /\ o \in Ref /\ Undo(o) # o /\ Kept(o) /\ Undo(o) \notin Refs(ledger)
      /\ RecordTrue(o) /\ tx[o].state = "needs-recovery"
  BY <1>1, ToRecover
<1>3. /\ tx[o].a \in Acct /\ -tx[o].n \in Int /\ tx[o].n \in Int
      /\ o \in AllRefs /\ Undo(o) \in AllRefs
  <2>1. /\ tx[o].a \in Acct /\ tx[o].n \in Int
        /\ o \in AllRefs /\ Undo(o) \in AllRefs
    BY <1>1, Distinct DEF IInv, RecordInv, TypeInv, TxT
  <2>. QED
    BY <2>1
<1>4. Refs(ledger') = Refs(ledger) \cup {o}
  <2>1. /\ ledger \in Seq(EntryT)
        /\ ledger' = ledger \o Entry(tx[o].a, tx[o].n, o, o)
    BY DEF RecoverRevert, IInv, TypeInv
  <2>2. tx[o].a \in Acct /\ tx[o].n \in Int /\ o \in AllRefs
    BY <1>3
  <2>. QED
    BY <2>1, <2>2, BookGrows
<1>5. prov'.done = prov.done \cup {Undo(o)}
  <2>1. prov \in ProvT /\ Mutate(tx[o].a, -tx[o].n, Undo(o))
    BY DEF RecoverRevert, IInv, TypeInv
  <2>2. tx[o].a \in Acct /\ -tx[o].n \in Int /\ Undo(o) \in AllRefs
    BY <1>3
  <2>. QED
    BY <2>1, <2>2, ProviderGrows
<1>6. Touches(o)
  BY <1>1, <1>4, <1>5 DEF Touches
<1>7. WorkTrue(o, op[o].pc, op[o].ref)'
  BY <1>1, <1>2, <1>4, <1>5
     DEF WorkTrue, GoesOn, Works, Appends, Undoes, Undo
<1>8. RecordTrue(o)'
  <2>1. txSaved[o].state # "none"
    BY <1>1, <1>2 DEF RecordTrue, Untouched
  <2>2. Undo(o) \notin Refs(ledger')
    BY <1>2, <1>4
  <2>3. tx[o].state \notin Final /\ op'[o].pc = "revert"
    BY <1>1, <1>2 DEF Final, GoesOn
  <2>. QED
    BY <1>1, <1>2, <2>1, <2>2, <2>3 DEF RecordTrue, Undo
<1>9. \A p \in Op \ {o} : op'[p] = op[p] /\ tx'[p] = tx[p]
                          /\ txSaved'[p] \in {txSaved[p], tx[p]}
  BY <1>1 DEF GoesOn
<1>. QED
  BY <1>1, <1>4, <1>5, <1>6, <1>7, <1>8, <1>9, RecoverTells

(***************************************************************************)
(* A recovery appends the entry that compensates.                          *)
(***************************************************************************)
LEMMA RevertFlushedTells ==
  ASSUME IInv, Truth, NEW o \in Op, RevertFlushed(o)
  PROVE  Truth'
<1>. USE DEF provider, books, journal, faults, FlushProvider
<1>1. /\ o \in todo /\ op[o].pc = "revert" /\ GoesOn(o, "reverted")
      /\ provSaved' = prov
      /\ UNCHANGED <<prov, saved, tx, txSaved, parent, todo>>
  BY GoingOn DEF RevertFlushed, IInv, WorkInv, Recovers, Reverses
<1>2. /\ o \in Ref /\ Undo(o) # o
      /\ RecordTrue(o) /\ tx[o].state = "needs-recovery"
      /\ Undo(o) \in prov.done /\ o \in Refs(ledger)
  <2>1. o \in Ref /\ Undo(o) # o
    BY Distinct
  <2>2. RecordTrue(o) /\ WorkTrue(o, op[o].pc, op[o].ref)
    BY DEF Truth
  <2>3. tx[o].state = "needs-recovery"
    BY <1>1 DEF IInv, RecordInv
  <2>. QED
    BY <1>1, <2>1, <2>2, <2>3 DEF WorkTrue
<1>3. o \in prov.done
  BY <1>2 DEF Truth, UndoneAfter
<1>4. Refs(ledger') = Refs(ledger) \cup {Undo(o)}
  <2>1. tx[o].a \in Acct /\ tx[o].n \in Int /\ Undo(o) \in AllRefs
    BY <1>1, Distinct DEF IInv, RecordInv, TypeInv, TxT
  <2>2. -tx[o].n \in Int
    BY <2>1
  <2>3. /\ ledger \in Seq(EntryT)
        /\ ledger' = ledger \o Entry(tx[o].a, -tx[o].n, o, Undo(o))
    BY DEF RevertFlushed, IInv, TypeInv
  <2>. QED
    BY <2>1, <2>2, <2>3, BookGrows, SMTT(30)
<1>5. Touches(o)
  BY <1>1, <1>4 DEF Touches
<1>6. WorkTrue(o, op[o].pc, op[o].ref)'
  <2>1. /\ op'[o].pc = "reverted" /\ o \in provSaved'.done
        /\ Undo(o) \in provSaved'.done /\ Undo(o) \in Refs(ledger')
    BY <1>1, <1>2, <1>3, <1>4 DEF GoesOn
  <2>. QED
    BY <2>1 DEF WorkTrue, Works, Appends, Undoes, Undo
<1>7. RecordTrue(o)'
  <2>1. txSaved[o].state # "none"
    BY <1>2 DEF RecordTrue, Untouched
  <2>2. tx[o].state \notin Final /\ op'[o].pc = "reverted"
    BY <1>1, <1>2 DEF Final, GoesOn
  <2>. QED
    BY <1>1, <1>2, <2>1, <2>2 DEF RecordTrue, Undo
<1>8. \A p \in Op \ {o} : op'[p] = op[p] /\ tx'[p] = tx[p]
                          /\ txSaved'[p] \in {txSaved[p], tx[p]}
  BY <1>1 DEF GoesOn
<1>. QED
  BY <1>1, <1>2, <1>3, <1>4, <1>5, <1>6, <1>7, <1>8, RecoverTells

(***************************************************************************)
(* A recovery that fails is isolated: it is not tried again before the     *)
(* next restart.                                                           *)
(***************************************************************************)
LEMMA RecoverFailsTells ==
  ASSUME IInv, Truth, NEW o \in Op, RecoverFails(o)
  PROVE  Truth'
<1>. USE DEF journal
<1>1. /\ o \in todo /\ todo' = todo \ {o} /\ GoesOn(o, "done")
      /\ provSaved' \in {provSaved, prov} /\ saved' \in {saved, ledger}
      /\ UNCHANGED <<prov, ledger, tx, txSaved, parent>>
  BY GoingOn DEF RecoverFails
<1>2. Touches(o) /\ Spared(o)
  BY <1>1 DEF Touches, Spared, Same
<1>3. WorkTrue(o, op[o].pc, op[o].ref)'
  BY <1>1, StoppedTrue DEF GoesOn
<1>4. RecordTrue(o)'
  <2>1. /\ SavedInv /\ RecordTrue(o) /\ tx'[o] = tx[o] /\ o \notin todo'
        /\ txSaved'[o] \in {txSaved[o], tx[o]} /\ op'[o].pc # "idle"
    BY <1>1 DEF IInv, Truth, GoesOn
  <2>. QED
    BY <1>2, <2>1, RecordElsewhere
<1>5. /\ Undo(o) \in prov'.done => o \in prov'.done
      /\ Undo(o) \in Refs(ledger') => o \in Refs(ledger')
  BY <1>1, Distinct DEF Truth, UndoneAfter
<1>6. /\ \A p \in Op \ {o} : op'[p] = op[p] /\ tx'[p] = tx[p]
                             /\ txSaved'[p] \in {txSaved[p], tx[p]}
      /\ todo' \subseteq todo
  BY <1>1 DEF GoesOn
<1>. QED
  BY <1>1, <1>2, <1>3, <1>4, <1>5, <1>6, RecoverTells

-----------------------------------------------------------------------------
(***************************************************************************)
(* Snapshots in the background.                                            *)
(***************************************************************************)
LEMMA PersistTells ==
  ASSUME IInv, Truth, Persist
  PROVE  Truth'
<1>1. /\ provSaved' \in {provSaved, prov} /\ saved' \in {saved, ledger}
      /\ txSaved' \in {txSaved, tx}
      /\ UNCHANGED <<prov, ledger, tx, parent, op, todo>>
  BY DEF Persist, FlushProvider, FlushLedger
<1>2. \A k : Spared(k)
  BY <1>1 DEF Spared, Same
<1>3. UndoneAfter'
  BY <1>1 DEF Truth, UndoneAfter, Undo
<1>4. ASSUME NEW p \in Op
      PROVE  RecordTrue(p)' /\ WorkTrue(p, op[p].pc, op[p].ref)'
  <2>1. /\ op'[p] = op[p] /\ tx'[p] = tx[p]
        /\ txSaved'[p] \in {txSaved[p], tx[p]}
        /\ RecordTrue(p) /\ WorkTrue(p, op[p].pc, op[p].ref) /\ SavedInv
    BY <1>1 DEF Truth, IInv
  <2>2. /\ op'[p].pc = "idle" => op[p].pc = "idle"
        /\ p \in todo' /\ op'[p].pc = "done" => p \in todo /\ op[p].pc = "done"
    BY <1>1
  <2>3. RecordTrue(p)'
    BY <1>2, <2>1, <2>2, RecordElsewhere
  <2>4. WorkTrue(p, op[p].pc, op[p].ref)'
    BY <1>1, <1>2, <2>1, WorkElsewhere
  <2>. QED
    BY <2>3, <2>4
<1>5. ASSUME NEW k \in DOMAIN Step
      PROVE  StepTrue(k)'
  BY <1>1, <1>2, StepElsewhere DEF Truth, IInv
<1>. QED
  BY <1>3, <1>4, <1>5 DEF Truth

(***************************************************************************)
(* A restart in the middle of a recovery: the provider has saved that it   *)
(* compensated an adjustment, the ledger has its entry, and the journal    *)
(* does not know.                                                          *)
(***************************************************************************)
HalfReverted ==
  \E o \in Op :
    /\ Undo(o) \in provSaved.done /\ o \in Refs(saved)
    /\ txSaved[o].state \in Unresolved

(***************************************************************************)
(* After a restart memory is what was saved, and every record true of it,  *)
(* unless a recovery was half way.                                         *)
(***************************************************************************)
LEMMA CrashTells ==
  ASSUME IInv, Truth, Crash, ~HalfReverted, ~StrayCrash
  PROVE  Truth'
<1>1. /\ prov' = provSaved /\ ledger' = saved
      /\ UNCHANGED <<provSaved, saved, txSaved, parent>> /\ ~Stray
  BY DEF Crash
<1>2. \A o \in Op : \/ op[o].pc = "idle" /\ op'[o].pc = "idle"
                    \/ op'[o].pc = "done"
  BY DEF Crash, Idle, IInv, TypeInv
<1>3. \A o \in Op : /\ tx'[o].a = txSaved[o].a /\ tx'[o].n = txSaved[o].n
                    /\ \/ /\ tx'[o].state = txSaved[o].state
                          /\ txSaved[o].state \in Final
                          /\ o \notin todo'
                       \/ /\ txSaved[o].state \in Unresolved
                          /\ tx'[o].state = "needs-recovery"
  BY ZenonT(40) DEF Crash, IInv, TypeInv, TxT, Unresolved, Final
<1>4. provSaved.done \subseteq prov.done /\ Refs(saved) \subseteq Refs(ledger)
  BY DEF IInv, SavedInv
<1>5. UndoneAfter'
  BY <1>1 DEF Truth, UndoneAfter, Undo
<1>6. ASSUME NEW o \in Op
      PROVE  WorkTrue(o, op[o].pc, op[o].ref)'
  <2>1. op'[o].pc \in {"idle", "done"}
    BY <1>2
  <2>. QED
    BY <2>1 DEF WorkTrue, Works, Appends, Undoes
<1>7. ASSUME NEW o \in Op
      PROVE  RecordTrue(o)'
  <2>1. RecordTrue(o)
    BY DEF Truth
  <2>2. Kept(o)'
    BY <1>1 DEF Kept
  <2>3. CASE txSaved[o].state \in Final
    <3>1. tx'[o].state = txSaved[o].state /\ o \notin todo'
      BY <1>3, <2>3 DEF Final, Unresolved
    <3>2. txSaved[o].state \in {"none", tx[o].state}
      BY <2>1, <2>3 DEF RecordTrue
    <3>3. CASE txSaved[o].state = "none"
      <4>1. Untouched(o)'
        BY <1>1, <1>4, <2>1, <3>3 DEF RecordTrue, Untouched, Undo
      <4>. QED
        BY <1>1, <2>2, <3>1, <3>3, <4>1 DEF RecordTrue, Unresolved
    <3>4. CASE txSaved[o].state # "none"
      <4>1. tx[o].state = txSaved[o].state /\ Kept(o)
        BY <2>1, <2>3, <3>2, <3>4 DEF RecordTrue
      <4>2. /\ o \in prov'.done <=> o \in prov.done
            /\ Undo(o) \in prov'.done <=> Undo(o) \in prov.done
            /\ o \in Refs(ledger') <=> o \in Refs(ledger)
            /\ Undo(o) \in Refs(ledger') <=> Undo(o) \in Refs(ledger)
        BY <1>1, <1>4, <4>1 DEF Kept
      <4>3. Stands(o) => Stands(o)'
        BY <4>2 DEF Stands, Undo
      <4>4. op'[o].pc # "idle"
        BY <1>2, <2>1, <3>4, <4>1 DEF RecordTrue
      <4>5. tx'[o].a = txSaved[o].a /\ tx'[o].n = txSaved[o].n
            /\ txSaved' = txSaved /\ tx[o].state \notin Unresolved
        BY <1>1, <1>3, <2>3, <4>1 DEF Final, Unresolved
      <4>. QED
        BY <2>1, <2>2, <3>1, <3>4, <4>1, <4>2, <4>3, <4>4, <4>5
           DEF RecordTrue, Undo
    <3>. QED
      BY <3>3, <3>4
  <2>4. CASE txSaved[o].state \in Unresolved
    <3>1. /\ tx'[o].state = "needs-recovery" /\ txSaved[o].state # "none"
          /\ txSaved[o].state \notin Final
      BY <1>3, <2>4 DEF Final, Unresolved
    <3>2. ~(Undo(o) \in provSaved.done /\ o \in Refs(saved))
      BY <2>4 DEF HalfReverted
    <3>3. Undo(o) \in Refs(saved) => o \notin provSaved.done
      <4>. SUFFICES ASSUME Undo(o) \in Refs(saved), o \in provSaved.done
                    PROVE  FALSE
        OBVIOUS
      <4>1. /\ o \in Refs(saved) /\ Undo(o) \in Refs(ledger)
            /\ o \in prov.done
        BY <1>4, Distinct DEF Truth, UndoneAfter
      <4>2. Undo(o) \notin provSaved.done
        BY <3>2, <4>1
      <4>3. tx[o].state \in {"failed", "none"}
        BY <2>1, <4>1, <4>2
           DEF RecordTrue, IInv, TypeInv, TxT, Final, Unresolved, Kept, Stands
      <4>. QED
        BY <2>1, <3>1, <4>1, <4>3 DEF RecordTrue
    <3>4. op'[o].pc # "idle"
      BY <1>2, <2>1, <3>1 DEF RecordTrue
    <3>5. tx'[o].a = txSaved[o].a /\ tx'[o].n = txSaved[o].n
          /\ tx'[o].state \notin Final
      BY <1>3, <3>1 DEF Final
    <3>. QED
      BY <1>1, <2>2, <3>1, <3>2, <3>3, <3>4, <3>5 DEF RecordTrue, Undo
  <2>. QED
    BY <1>3, <2>3, <2>4
<1>8. ASSUME NEW k \in DOMAIN Step
      PROVE  StepTrue(k)'
  <2>1. StepTrue(k) /\ k \in Ref
    BY Distinct DEF Truth
  <2>2. CASE parent[k] = "none"
    BY <1>1, <1>4, <2>1, <2>2 DEF StepTrue, Untouched, Undo
  <2>3. CASE parent[k] = "closed" /\ Stands(k) /\ Kept(k)
    <3>1. Stands(k)' /\ Kept(k)'
      BY <1>1, <1>4, <2>3 DEF Stands, Kept, Undo
    <3>. QED
      BY <1>1, <2>3, <3>1 DEF StepTrue
  <2>4. CASE /\ parent[k] = "closed"
             /\ k \in prov.done => Undo(k) \in prov.done
             /\ k \in Refs(ledger) => Undo(k) \in Refs(ledger)
    <3>1. /\ Undo(k) \in prov.done => Undo(k) \in provSaved.done
          /\ Undo(k) \in Refs(ledger) => Undo(k) \in Refs(saved)
      BY <1>1, <2>4, Found DEF Stray, Written, EntriesBy, Refs
    <3>. QED
      BY <1>1, <1>4, <2>4, <3>1 DEF StepTrue, Undo
  <2>5. CASE parent[k] = "open"
    BY <1>1, <2>5 DEF StepTrue
  <2>. QED
    BY <2>1, <2>2, <2>3, <2>4, <2>5 DEF StepTrue, IInv, TypeInv
<1>. QED
  BY <1>5, <1>6, <1>7, <1>8 DEF Truth

-----------------------------------------------------------------------------
(***************************************************************************)
(* At first nothing is touched.                                            *)
(***************************************************************************)
LEMMA InitTells == Init => Truth
<1>. SUFFICES ASSUME Init
              PROVE  Truth
  OBVIOUS
<1>1. /\ prov.done = {} /\ provSaved.done = {} /\ todo = {}
      /\ Refs(ledger) = {} /\ Refs(saved) = {}
      /\ \A o \in Op : tx[o].state = "none" /\ txSaved[o].state = "none"
                       /\ op[o].pc = "idle"
      /\ \A k \in DOMAIN Step : parent[k] = "none"
  BY DEF Init, Idle, Refs
<1>2. UndoneAfter /\ \A k : Untouched(k) /\ Kept(k)
  BY <1>1 DEF UndoneAfter, Untouched, Kept
<1>3. \A o \in Op : RecordTrue(o)
  BY <1>1, <1>2 DEF RecordTrue, Unresolved
<1>4. \A o \in Op : WorkTrue(o, op[o].pc, op[o].ref)
  BY <1>1 DEF WorkTrue, Works, Appends, Undoes
<1>. QED
  BY <1>1, <1>2, <1>3, <1>4 DEF Truth, StepTrue

(***************************************************************************)
(* Every step keeps what the journal and the parents say true, as long as  *)
(* no restart comes half way through a recovery.                           *)
(***************************************************************************)
LEMMA NextTells ==
  ASSUME IInv, Truth, [Next]_vars, [Crash => ~HalfReverted]_vars, ~StrayCrash
  PROVE  Truth'
<1>1. ASSUME NEW o \in Op, Adjusting(o)
      PROVE  Truth'
  BY <1>1, StartsTell, FlushesTell, WritesTell, ErrorsTell,
     ProviderFlushedTells
     DEF Adjusting
<1>2. ASSUME NEW o \in Op, Undoing(o)
      PROVE  Truth'
  BY <1>2, StartsTell, FlushesTell, UndoesTell, SettlesTell DEF Undoing
<1>3. ASSUME NEW o \in Op, Recovering(o)
      PROVE  Truth'
  BY <1>3, RecoverPresentTells, RecoverUnwrittenTells, RecoverAbsentTells,
     RecoverRevertTells, RevertFlushedTells, ReversalBookedTells,
     RecoveryEndsTells, RecoverFailsTells
     DEF Recovering
<1>4. CASE UNCHANGED vars
  <2>1. UNCHANGED <<prov, provSaved, ledger, saved, tx, txSaved, parent, op,
                    todo>>
    BY <1>4 DEF vars, provider, books, journal
  <2>2. \A k : /\ Untouched(k)' <=> Untouched(k)
               /\ Stands(k)' <=> Stands(k)
               /\ Kept(k)' <=> Kept(k)
    BY <2>1 DEF Untouched, Stands, Kept, Undo
  <2>3. UndoneAfter'
    BY <2>1 DEF Truth, UndoneAfter, Undo
  <2>4. ASSUME NEW o \in Op
        PROVE  RecordTrue(o)' /\ WorkTrue(o, op[o].pc, op[o].ref)'
    BY <2>1, <2>2, ZenonT(60) DEF Truth, RecordTrue, WorkTrue, Undo
  <2>5. \A k \in DOMAIN Step : StepTrue(k)'
    BY <2>1, <2>2 DEF Truth, StepTrue, Undo
  <2>. QED
    BY <2>3, <2>4, <2>5 DEF Truth
<1>5. ASSUME Crash
      PROVE  Truth'
  BY <1>4, <1>5, CrashTells
<1>. QED
  BY <1>1, <1>2, <1>3, <1>4, <1>5, PersistTells DEF Next

-----------------------------------------------------------------------------
\* Finite sums.

\* Induction over the subsets of a finite set, without an operator parameter:
\* C holds what is shown, and has every set whose proper subsets it has.
LEMMA SubsetInduction ==
  ASSUME NEW D, IsFiniteSet(D), NEW C \in SUBSET (SUBSET D),
         \A T \in SUBSET D : (\A U \in SUBSET T : U # T => U \in C) => T \in C
  PROVE  C = SUBSET D
<1>. DEFINE B == (SUBSET D) \ C
<1>1. SUFFICES ASSUME B # {} PROVE FALSE
  OBVIOUS
<1>2. IsWellFoundedOn(StrictSubsetOrdering(D), SUBSET D)
  BY FS_StrictSubsetOrderingWellFounded, FS_FiniteSubsetsOfFinite
<1>3. B \subseteq SUBSET D
  OBVIOUS
<1>. HIDE DEF B
<1>4. PICK T \in B : \A U \in B : ~ (<<U, T>> \in StrictSubsetOrdering(D))
  BY <1>1, <1>2, <1>3, WFMin
<1>5. \A U \in SUBSET T : U # T => U \in C
  BY <1>4 DEF StrictSubsetOrdering, B
<1>. QED
  BY <1>4, <1>5 DEF B

Pick(s) == CHOOSE x \in s : TRUE

SumStep(g, f, s) == IF s = {} THEN 0 ELSE f[Pick(s)] + g[s \ {Pick(s)}]

\* What SumFunctionOnSet chooses: it adds up f on every subset of T.
AddsUp(g, f, T) == g = [s \in SUBSET T |-> SumStep(g, f, s)]

Total(f, T) == (CHOOSE g : AddsUp(g, f, T))[T]

\* The sum of the library, with its choice of a function made visible.
LEMMA SumIsTotal ==
  ASSUME NEW f, NEW T
  PROVE  SumFunctionOnSet(f, T) = Total(f, T)
  BY DEF SumFunctionOnSet, FoldFunctionOnSet, MapThenFoldSet, AddsUp, SumStep, Pick, Total

\* Any two functions that add up f agree: the choice does not matter.
LEMMA AddsUpOnce ==
  ASSUME NEW f, NEW T, NEW U, NEW g, NEW h, AddsUp(g, f, T), AddsUp(h, f, U),
         NEW S, IsFiniteSet(S), S \subseteq T, S \subseteq U
  PROVE  g[S] = h[S]
<1>. DEFINE C == {s \in SUBSET S : g[s] = h[s]}
<1>1. ASSUME NEW s \in SUBSET S, \A u \in SUBSET s : u # s => u \in C
      PROVE  s \in C
  <2>1. g[s] = SumStep(g, f, s) /\ h[s] = SumStep(h, f, s)
    BY DEF AddsUp
  <2>2. CASE s = {}
    BY <2>1, <2>2 DEF SumStep
  <2>3. CASE s # {}
    <3>1. Pick(s) \in s
      BY <2>3 DEF Pick
    <3>2. s \ {Pick(s)} \in C
      BY <1>1, <3>1
    <3>. QED
      BY <2>1, <2>3, <3>2 DEF SumStep
  <2>. QED
    BY <2>2, <2>3
<1>2. C \in SUBSET SUBSET S
  OBVIOUS
<1>. HIDE DEF C
<1>3. C = SUBSET S
  BY <1>1, <1>2, SubsetInduction
<1>. QED
  BY <1>3 DEF C

\* There is one.
LEMMA TotalAddsUp ==
  ASSUME NEW f, NEW T, IsFiniteSet(T)
  PROVE  \E g : AddsUp(g, f, T)
<1>. DEFINE C == {s \in SUBSET T : \E g : AddsUp(g, f, s)}
<1>1. ASSUME NEW s \in SUBSET T, \A u \in SUBSET s : u # s => u \in C
      PROVE  s \in C
  <2>. DEFINE A == [u \in SUBSET s |-> Total(f, u)]
              g == [u \in SUBSET s |-> SumStep(A, f, u)]
  <2>1. ASSUME NEW u \in SUBSET s, u # s
        PROVE  A[u] = g[u]
    <3>. DEFINE gu == CHOOSE h : AddsUp(h, f, u)
    <3>1. AddsUp(gu, f, u)
      BY <1>1, <2>1
    <3>2. A[u] = gu[u]
      BY DEF Total
    <3>3. gu[u] = SumStep(gu, f, u)
      BY <3>1 DEF AddsUp
    <3>4. CASE u = {}
      BY <3>2, <3>3, <3>4 DEF SumStep
    <3>5. CASE u # {}
      <4>. DEFINE v == u \ {Pick(u)}
                  gv == CHOOSE h : AddsUp(h, f, v)
      <4>1. Pick(u) \in u
        BY <3>5 DEF Pick
      <4>2. v \in SUBSET s /\ v # s /\ v \subseteq u
        BY <4>1, <2>1
      <4>3. AddsUp(gv, f, v)
        BY <1>1, <4>2
      <4>4. IsFiniteSet(v)
        BY <4>2, FS_Subset
      <4>5. gu[v] = gv[v]
        <5>. HIDE DEF gu, gv, v
        <5>. QED
          BY <3>1, <4>2, <4>3, <4>4, AddsUpOnce
      <4>6. A[v] = gv[v]
        BY <4>2 DEF Total
      <4>. QED
        BY <3>2, <3>3, <3>5, <4>5, <4>6 DEF SumStep
    <3>. QED
      BY <3>4, <3>5
  <2>2. \A u \in SUBSET s : SumStep(A, f, u) = SumStep(g, f, u)
    <3>. SUFFICES ASSUME NEW u \in SUBSET s PROVE SumStep(A, f, u) = SumStep(g, f, u)
      OBVIOUS
    <3>1. CASE u = {}
      BY <3>1 DEF SumStep
    <3>2. CASE u # {}
      <4>1. u \ {Pick(u)} \in SUBSET s /\ u \ {Pick(u)} # s
        BY <3>2 DEF Pick
      <4>2. A[u \ {Pick(u)}] = g[u \ {Pick(u)}]
        BY <4>1, <2>1
      <4>. HIDE DEF A, g
      <4>. QED
        BY <4>2 DEF SumStep
    <3>. QED
      BY <3>1, <3>2
  <2>3. AddsUp(g, f, s)
    BY <2>2 DEF AddsUp
  <2>. QED
    BY <2>3
<1>2. C \in SUBSET SUBSET T
  OBVIOUS
<1>. HIDE DEF C
<1>3. C = SUBSET T
  BY <1>1, <1>2, SubsetInduction
<1>. QED
  BY <1>3 DEF C

\* A sum is its picked element and the sum of the others.
LEMMA TotalStep ==
  ASSUME NEW f, NEW T, IsFiniteSet(T)
  PROVE  Total(f, T) = IF T = {} THEN 0 ELSE f[Pick(T)] + Total(f, T \ {Pick(T)})
<1>. DEFINE g == CHOOSE h : AddsUp(h, f, T)
            v == T \ {Pick(T)}
            gv == CHOOSE h : AddsUp(h, f, v)
<1>1. AddsUp(g, f, T) /\ AddsUp(gv, f, v)
  BY TotalAddsUp, FS_Subset
<1>2. g[T] = SumStep(g, f, T)
  BY <1>1 DEF AddsUp
<1>3. g[v] = gv[v]
  <2>1. IsFiniteSet(v)
    BY FS_Subset
  <2>. HIDE DEF g, gv
  <2>. QED
    BY <1>1, <2>1, AddsUpOnce
<1>. QED
  BY <1>2, <1>3 DEF Total, SumStep

\* Sums of integers are integers.
LEMMA TotalType ==
  ASSUME NEW f, NEW T, IsFiniteSet(T), \A x \in T : f[x] \in Int
  PROVE  Total(f, T) \in Int
<1>. DEFINE C == {s \in SUBSET T : Total(f, s) \in Int}
<1>1. ASSUME NEW s \in SUBSET T, \A u \in SUBSET s : u # s => u \in C
      PROVE  s \in C
  <2>1. IsFiniteSet(s)
    BY FS_Subset
  <2>2. Total(f, s) = IF s = {} THEN 0 ELSE f[Pick(s)] + Total(f, s \ {Pick(s)})
    BY <2>1, TotalStep
  <2>3. CASE s # {}
    <3>1. Pick(s) \in s
      BY <2>3 DEF Pick
    <3>2. s \ {Pick(s)} \in C
      BY <1>1, <3>1
    <3>. QED
      BY <2>2, <2>3, <3>1, <3>2
  <2>. QED
    BY <2>2, <2>3
<1>2. C \in SUBSET SUBSET T
  OBVIOUS
<1>. HIDE DEF C
<1>3. C = SUBSET T
  BY <1>1, <1>2, SubsetInduction
<1>. QED
  BY <1>3 DEF C

\* Any element may be taken first.
LEMMA TotalWith ==
  ASSUME NEW f, NEW T, IsFiniteSet(T), \A x \in T : f[x] \in Int, NEW x \in T
  PROVE  Total(f, T) = f[x] + Total(f, T \ {x})
<1>. DEFINE C == {s \in SUBSET T : \A y \in s : Total(f, s) = f[y] + Total(f, s \ {y})}
<1>1. ASSUME NEW s \in SUBSET T, \A u \in SUBSET s : u # s => u \in C
      PROVE  s \in C
  <2>. SUFFICES ASSUME NEW y \in s
                PROVE  Total(f, s) = f[y] + Total(f, s \ {y})
    OBVIOUS
  <2>. DEFINE p == Pick(s)
  <2>1. p \in s
    BY DEF Pick
  <2>. HIDE DEF p
  <2>2. IsFiniteSet(s) /\ IsFiniteSet(s \ {p}) /\ IsFiniteSet(s \ {y}) /\ IsFiniteSet(s \ {p, y})
    BY FS_Subset
  <2>3. Total(f, s) = f[p] + Total(f, s \ {p})
    BY <2>2, TotalStep DEF p
  <2>4. CASE p # y
    <3>1. s \ {p} \in C /\ s \ {y} \in C
      BY <1>1, <2>1
    <3>2. Total(f, s \ {p}) = f[y] + Total(f, (s \ {p}) \ {y})
      BY <3>1, <2>4
    <3>3. Total(f, s \ {y}) = f[p] + Total(f, (s \ {y}) \ {p})
      BY <3>1, <2>1, <2>4
    <3>4. (s \ {p}) \ {y} = s \ {p, y} /\ (s \ {y}) \ {p} = s \ {p, y}
      OBVIOUS
    <3>5. Total(f, s \ {p, y}) \in Int /\ f[p] \in Int /\ f[y] \in Int
      BY <2>1, <2>2, TotalType
    <3>. QED
      BY <2>3, <3>2, <3>3, <3>4, <3>5, SMTT(20)
  <2>. QED
    BY <2>3, <2>4
<1>2. C \in SUBSET SUBSET T
  OBVIOUS
<1>. HIDE DEF C
<1>3. C = SUBSET T
  BY <1>1, <1>2, SubsetInduction
<1>4. T \in C
  BY <1>3
<1>. QED
  BY <1>4 DEF C

\* A sum depends on the values that it adds only.
LEMMA TotalSame ==
  ASSUME NEW f, NEW g, NEW T, IsFiniteSet(T), \A x \in T : f[x] = g[x]
  PROVE  Total(f, T) = Total(g, T)
<1>. DEFINE C == {s \in SUBSET T : Total(f, s) = Total(g, s)}
<1>1. ASSUME NEW s \in SUBSET T, \A u \in SUBSET s : u # s => u \in C
      PROVE  s \in C
  <2>1. IsFiniteSet(s)
    BY FS_Subset
  <2>2. /\ Total(f, s) = IF s = {} THEN 0 ELSE f[Pick(s)] + Total(f, s \ {Pick(s)})
        /\ Total(g, s) = IF s = {} THEN 0 ELSE g[Pick(s)] + Total(g, s \ {Pick(s)})
    BY <2>1, TotalStep
  <2>3. CASE s # {}
    <3>1. Pick(s) \in s
      BY <2>3 DEF Pick
    <3>2. s \ {Pick(s)} \in C
      BY <1>1, <3>1
    <3>. QED
      BY <2>2, <2>3, <3>1, <3>2
  <2>. QED
    BY <2>2, <2>3
<1>2. C \in SUBSET SUBSET T
  OBVIOUS
<1>. HIDE DEF C
<1>3. C = SUBSET T
  BY <1>1, <1>2, SubsetInduction
<1>4. T \in C
  BY <1>3
<1>. QED
  BY <1>4 DEF C

\* SumFunction in terms of Total.
LEMMA SumIs ==
  ASSUME NEW S, NEW f \in [S -> Int], IsFiniteSet(S)
  PROVE  SumFunction(f) = Total(f, S) /\ SumFunction(f) \in Int
<1>1. SumFunction(f) = Total(f, S)
  BY SumIsTotal DEF SumFunction
<1>. QED
  BY <1>1, TotalType

\* Any element can be taken out of a sum.
LEMMA SumRemoved ==
  ASSUME NEW S, NEW f \in [S -> Int], IsFiniteSet(S), NEW x \in S
  PROVE  SumFunction(f) = f[x] + SumFunction([y \in S \ {x} |-> f[y]])
<1>. DEFINE g == [y \in S \ {x} |-> f[y]]
<1>1. IsFiniteSet(S \ {x})
  BY FS_Subset
<1>2. g \in [S \ {x} -> Int] /\ \A y \in S \ {x} : g[y] = f[y]
  OBVIOUS
<1>. HIDE DEF g
<1>3. Total(g, S \ {x}) = Total(f, S \ {x})
  BY <1>1, <1>2, TotalSame
<1>4. SumFunction(f) = Total(f, S) /\ SumFunction(g) = Total(g, S \ {x})
  BY <1>1, <1>2, SumIs
<1>5. \A y \in S : f[y] \in Int
  OBVIOUS
<1>6. Total(f, S) = f[x] + Total(f, S \ {x})
  BY <1>5, TotalWith
<1>. QED
  BY <1>3, <1>4, <1>6 DEF g

\* A sum moves with the one value that changes.
LEMMA SumChanged ==
  ASSUME NEW S, NEW f \in [S -> Int], NEW g \in [S -> Int], IsFiniteSet(S),
         NEW x \in S, \A y \in S \ {x} : g[y] = f[y]
  PROVE  SumFunction(g) = SumFunction(f) + g[x] - f[x]
<1>. DEFINE h == [y \in S \ {x} |-> f[y]]
<1>1. h = [y \in S \ {x} |-> g[y]]
  OBVIOUS
<1>2. SumFunction(f) = f[x] + SumFunction(h)
  BY SumRemoved
<1>3. SumFunction(g) = g[x] + SumFunction(h)
  <2>1. SumFunction(g) = g[x] + SumFunction([y \in S \ {x} |-> g[y]])
    BY SumRemoved
  <2>. QED
    BY <1>1, <2>1
<1>4. IsFiniteSet(S \ {x}) /\ h \in [S \ {x} -> Int]
  BY FS_Subset
<1>5. SumFunction(h) \in Int
  BY <1>4, SumIs
<1>. QED
  BY <1>2, <1>3, <1>5

\* Zeros add up to zero.
LEMMA SumOfZeros ==
  ASSUME NEW S, NEW f, f = [x \in S |-> 0], IsFiniteSet(S)
  PROVE  SumFunction(f) = 0
<1>. DEFINE g == [x \in S |-> 0]
<1>. DEFINE C == {s \in SUBSET S : Total(f, s) = 0}
<1>1. ASSUME NEW s \in SUBSET S, \A u \in SUBSET s : u # s => u \in C
      PROVE  s \in C
  <2>1. Total(f, s) = IF s = {} THEN 0 ELSE f[Pick(s)] + Total(f, s \ {Pick(s)})
    BY FS_Subset, TotalStep
  <2>2. CASE s # {}
    <3>1. Pick(s) \in s
      BY <2>2 DEF Pick
    <3>2. s \ {Pick(s)} \in C /\ f[Pick(s)] = 0
      BY <1>1, <3>1
    <3>. QED
      BY <2>1, <2>2, <3>1, <3>2
  <2>. QED
    BY <2>1, <2>2
<1>2. C \in SUBSET SUBSET S
  OBVIOUS
<1>. HIDE DEF C
<1>3. C = SUBSET S
  BY <1>1, <1>2, SubsetInduction
<1>4. Total(f, S) = 0
  BY <1>3 DEF C
<1>5. f \in [S -> Int]
  OBVIOUS
<1>. QED
  BY <1>4, <1>5, SumIs

-----------------------------------------------------------------------------
(***************************************************************************)
(* The account and the amount of an operation: by its record, or as the    *)
(* parent's step says.                                                     *)
(***************************************************************************)
Accounts == [k \in Ref |-> IF k \in Op THEN tx[k].a ELSE Step[k].acct]

Amounts == [k \in Ref |-> IF k \in Op THEN tx[k].n ELSE Step[k].n]

\* What is left of an amount where the operations S are done.
Left(S, k, n) ==
  (IF k \in S THEN n ELSE 0) - (IF Undo(k) \in S THEN n ELSE 0)

\* What the operations S do to an account.
Effects(S, a, A, N) ==
  [k \in Ref |-> IF A[k] = a THEN Left(S, k, N[k]) ELSE 0]

Effect(S, a, A, N) == SumFunction(Effects(S, a, A, N))

\* The entries of a book are of these accounts and amounts.
Right(book, A, N) ==
  \A i \in DOMAIN book : \A k \in Ref :
    /\ book[i].ref = k => book[i].acct = A[k] /\ book[i].n = N[k]
    /\ book[i].ref = Undo(k) => book[i].acct = A[k] /\ book[i].n = -N[k]

Agrees(p, A, N) ==
  \A a \in Acct : p.bal[a] = Opening[a] + Effect(p.done, a, A, N)

Money ==
  /\ Right(ledger, Accounts, Amounts) /\ Right(saved, Accounts, Amounts)
  /\ Agrees(prov, Accounts, Amounts) /\ Agrees(provSaved, Accounts, Amounts)

(***************************************************************************)
(* There are finitely many references.                                     *)
(***************************************************************************)
LEMMA FinitelyMany == IsFiniteSet(Ref)
<1>1. IsFiniteSet(Op)
  BY FS_Interval, ProviderAssumption DEF Op
<1>. QED
  BY <1>1, FS_Union, ProviderAssumption DEF Ref

(***************************************************************************)
(* What operations do to an account is an integer.                         *)
(***************************************************************************)
LEMMA EffectType ==
  ASSUME NEW S, NEW a, NEW A, NEW N \in [Ref -> Int]
  PROVE  Effects(S, a, A, N) \in [Ref -> Int] /\ Effect(S, a, A, N) \in Int
<1>1. \A k \in Ref : Left(S, k, N[k]) \in Int
  BY DEF Left
<1>2. Effects(S, a, A, N) \in [Ref -> Int]
  BY <1>1 DEF Effects
<1>. QED
  BY <1>2, FinitelyMany, SumIs DEF Effect

(***************************************************************************)
(* One operation, or its compensation, more.                               *)
(***************************************************************************)
LEMMA EffectStep ==
  ASSUME NEW S, NEW T, NEW a, NEW A, NEW N \in [Ref -> Int], NEW r \in Ref,
         NEW d \in Int, Left(T, r, N[r]) = Left(S, r, N[r]) + d,
         \A k \in Ref \ {r} : Left(T, k, N[k]) = Left(S, k, N[k])
  PROVE  Effect(T, a, A, N)
           = Effect(S, a, A, N) + (IF A[r] = a THEN d ELSE 0)
<1>1. PICK f : f = Effects(S, a, A, N)
  OBVIOUS
<1>2. PICK g : g = Effects(T, a, A, N)
  OBVIOUS
<1>3. f \in [Ref -> Int] /\ g \in [Ref -> Int]
  BY <1>1, <1>2, EffectType
<1>4. \A k \in Ref \ {r} : g[k] = f[k]
  BY <1>1, <1>2 DEF Effects
<1>5. Left(T, r, N[r]) \in Int /\ Left(S, r, N[r]) \in Int
  BY DEF Left
<1>6. g[r] = f[r] + (IF A[r] = a THEN d ELSE 0)
  BY <1>1, <1>2, <1>5 DEF Effects
<1>7. SumFunction(g) = SumFunction(f) + g[r] - f[r]
  BY <1>3, <1>4, FinitelyMany, SumChanged
<1>8. SumFunction(f) \in Int /\ f[r] \in Int /\ g[r] \in Int
  BY <1>3, FinitelyMany, SumIs
<1>. QED
  BY <1>1, <1>2, <1>6, <1>7, <1>8 DEF Effect

(***************************************************************************)
(* An operation more, and a compensation more.                             *)
(***************************************************************************)
LEMMA EffectGrows ==
  ASSUME NEW S, NEW a, NEW A, NEW N \in [Ref -> Int], NEW r \in Ref,
         NEW T
  PROVE  /\ T = S \cup {r} /\ r \notin S =>
              Effect(T, a, A, N)
                = Effect(S, a, A, N) + (IF A[r] = a THEN N[r] ELSE 0)
         /\ T = S \cup {Undo(r)} /\ Undo(r) \notin S =>
              Effect(T, a, A, N)
                = Effect(S, a, A, N) + (IF A[r] = a THEN -N[r] ELSE 0)
<1>1. N[r] \in Int /\ -N[r] \in Int
  OBVIOUS
<1>2. ASSUME r \notin S, T = S \cup {r}
      PROVE  Effect(T, a, A, N)
                = Effect(S, a, A, N) + (IF A[r] = a THEN N[r] ELSE 0)
  <2>1. T = S \cup {r}
    BY <1>2
  <2>2. PICK d \in Int : d = N[r]
    BY <1>1
  <2>3. \A k \in Ref \ {r} : Left(T, k, N[k]) = Left(S, k, N[k])
    BY <2>1, Distinct DEF Left
  <2>4. Left(T, r, N[r]) = Left(S, r, N[r]) + d
    BY <1>1, <1>2, <2>1, <2>2, Distinct DEF Left
  <2>5. Effect(T, a, A, N) = Effect(S, a, A, N) + (IF A[r] = a THEN d ELSE 0)
    BY <2>3, <2>4, EffectStep
  <2>. QED
    BY <2>1, <2>2, <2>5
<1>3. ASSUME Undo(r) \notin S, T = S \cup {Undo(r)}
      PROVE  Effect(T, a, A, N)
                = Effect(S, a, A, N) + (IF A[r] = a THEN -N[r] ELSE 0)
  <2>1. T = S \cup {Undo(r)}
    BY <1>3
  <2>2. PICK d \in Int : d = -N[r]
    BY <1>1
  <2>3. \A k \in Ref \ {r} : Left(T, k, N[k]) = Left(S, k, N[k])
    BY <2>1, Distinct DEF Left
  <2>4. Left(T, r, N[r]) = Left(S, r, N[r]) + d
    BY <1>1, <1>3, <2>1, <2>2, Distinct DEF Left
  <2>5. Effect(T, a, A, N) = Effect(S, a, A, N) + (IF A[r] = a THEN d ELSE 0)
    BY <2>3, <2>4, EffectStep
  <2>. QED
    BY <2>1, <2>2, <2>5
<1>. QED
  BY <1>2, <1>3

(***************************************************************************)
(* The entries of an account at the positions T of a book.                 *)
(***************************************************************************)
On(book, T, a) == {i \in T : book[i].acct = a}

Sums(book, T, a) == SumFunction([i \in On(book, T, a) |-> book[i].n])

RefsAt(book, T) == {book[i].ref : i \in T}

(***************************************************************************)
(* An entry more.                                                          *)
(***************************************************************************)
LEMMA SumsGrow ==
  ASSUME NEW book \in Seq(EntryT), NEW T \in SUBSET DOMAIN book, NEW x \in T,
         NEW a
  PROVE  Sums(book, T, a) = Sums(book, T \ {x}, a)
                              + (IF book[x].acct = a THEN book[x].n ELSE 0)
<1>. DEFINE U == T \ {x}
<1>1. IsFiniteSet(On(book, U, a))
  <2>1. DOMAIN book = 1 .. Len(book) /\ Len(book) \in Nat
    OBVIOUS
  <2>2. IsFiniteSet(DOMAIN book)
    BY <2>1, FS_Interval
  <2>. QED
    BY <2>2, FS_Subset DEF On
<1>2. \A i \in DOMAIN book : book[i].n \in Int
  <2>1. \A i \in DOMAIN book : book[i] \in EntryT
    OBVIOUS
  <2>. QED
    BY <2>1 DEF EntryT
<1>3. PICK f : f = [i \in On(book, U, a) |-> book[i].n]
  OBVIOUS
<1>4. f \in [On(book, U, a) -> Int] /\ Sums(book, U, a) = SumFunction(f)
  BY <1>2, <1>3 DEF On, Sums
<1>5. CASE book[x].acct = a
  <2>1. PICK S1 : S1 = On(book, T, a)
    OBVIOUS
  <2>2. PICK g : g = [i \in S1 |-> book[i].n]
    OBVIOUS
  <2>3. S1 = On(book, U, a) \cup {x} /\ S1 \ {x} = On(book, U, a) /\ x \in S1
    BY <1>5, <2>1 DEF On
  <2>4. g \in [S1 -> Int] /\ g[x] = book[x].n
    BY <1>2, <2>1, <2>2, <2>3 DEF On
  <2>5. IsFiniteSet(S1)
    BY <1>1, <2>3, FS_AddElement
  <2>6. SumFunction(g) = g[x] + SumFunction([y \in S1 \ {x} |-> g[y]])
    <3>1. g \in [S1 -> Int]
      BY <2>4
    <3>2. x \in S1
      BY <2>3
    <3>. QED
      BY <2>5, <3>1, <3>2, SumRemoved, ZenonT(60)
  <2>7. [y \in S1 \ {x} |-> g[y]] = f
    BY <1>3, <2>2, <2>3
  <2>8. SumFunction(f) \in Int /\ book[x].n \in Int
    BY <1>1, <1>2, <1>4, SumIs
  <2>9. SumFunction(g) = SumFunction(f) + book[x].n
    BY <2>4, <2>6, <2>7, <2>8
  <2>10. Sums(book, T, a) = SumFunction(g)
    BY <2>1, <2>2 DEF Sums
  <2>. QED
    BY <1>4, <1>5, <2>9, <2>10
<1>6. CASE book[x].acct # a
  <2>1. On(book, T, a) = On(book, U, a)
    BY <1>6 DEF On
  <2>2. SumFunction(f) \in Int
    BY <1>1, <1>4, SumIs
  <2>. QED
    BY <1>4, <1>6, <2>1, <2>2 DEF Sums
<1>. QED
  BY <1>5, <1>6

(***************************************************************************)
(* The entries of an account add up to the effect of what is booked.       *)
(***************************************************************************)
LEMMA BookAddsUp ==
  ASSUME NEW A, NEW N \in [Ref -> Int],
         NEW book \in Seq(EntryT), Once(book), Right(book, A, N), NEW a
  PROVE  Sums(book, DOMAIN book, a) = Effect(Refs(book), a, A, N)
<1>. DEFINE C == {T \in SUBSET DOMAIN book :
                    Sums(book, T, a) = Effect(RefsAt(book, T), a, A, N)}
<1>1. IsFiniteSet(DOMAIN book)
  <2>1. DOMAIN book = 1 .. Len(book) /\ Len(book) \in Nat
    OBVIOUS
  <2>. QED
    BY <2>1, FS_Interval
<1>2. \A i \in DOMAIN book : book[i].n \in Int /\ book[i].ref \in AllRefs
  <2>1. \A i \in DOMAIN book : book[i] \in EntryT
    OBVIOUS
  <2>. QED
    BY <2>1 DEF EntryT
<1>3. ASSUME NEW T \in SUBSET DOMAIN book, \A U \in SUBSET T : U # T => U \in C
      PROVE  T \in C
  <2>1. CASE T = {}
    <3>1. Sums(book, T, a) = 0
      <4>1. [i \in On(book, T, a) |-> book[i].n] = [i \in {} |-> 0]
        BY <2>1 DEF On
      <4>. QED
        BY <4>1, FS_EmptySet, SumOfZeros DEF Sums
    <3>2. Effect(RefsAt(book, T), a, A, N) = 0
      <4>1. RefsAt(book, T) = {}
        BY <2>1 DEF RefsAt
      <4>2. \A k \in Ref : Left({}, k, N[k]) = 0
        BY DEF Left
      <4>3. Effects({}, a, A, N) = [k \in Ref |-> 0]
        BY <4>2 DEF Effects
      <4>. QED
        BY <4>1, <4>3, FinitelyMany, SumOfZeros DEF Effect
    <3>. QED
      BY <3>1, <3>2
  <2>2. CASE T # {}
    <3>1. PICK x \in T : TRUE
      BY <2>2
    <3>2. PICK U : U = T \ {x}
      OBVIOUS
    <3>3. U \in C
      BY <1>3, <3>1, <3>2
    <3>4. RefsAt(book, T) = RefsAt(book, U) \cup {book[x].ref}
          /\ book[x].ref \notin RefsAt(book, U)
      BY <3>1, <3>2 DEF Once, RefsAt
    <3>5. Sums(book, T, a) = Sums(book, U, a)
            + (IF book[x].acct = a THEN book[x].n ELSE 0)
      <4>1. Sums(book, T, a) = Sums(book, T \ {x}, a)
              + (IF book[x].acct = a THEN book[x].n ELSE 0)
        BY <3>1, SumsGrow, ZenonT(60)
      <4>. QED
        BY <3>2, <4>1
    <3>6. Effect(RefsAt(book, T), a, A, N)
            = Effect(RefsAt(book, U), a, A, N)
                + (IF book[x].acct = a THEN book[x].n ELSE 0)
      <4>1. PICK k \in Ref : book[x].ref \in {k, Undo(k)}
        BY <1>2, <3>1 DEF AllRefs
      <4>5. PICK S0 : S0 = RefsAt(book, U)
        OBVIOUS
      <4>6. PICK S1 : S1 = RefsAt(book, T)
        OBVIOUS
      <4>2. /\ book[x].ref = k => book[x].acct = A[k] /\ book[x].n = N[k]
            /\ book[x].ref = Undo(k) =>
                 book[x].acct = A[k] /\ book[x].n = -N[k]
        BY <3>1 DEF Right
      <4>3. CASE book[x].ref = k
        <5>1. k \notin S0 /\ S1 = S0 \cup {k}
          BY <3>4, <4>3, <4>5, <4>6
        <5>2. Effect(S1, a, A, N)
                = Effect(S0, a, A, N)
                    + (IF A[k] = a THEN N[k] ELSE 0)
          BY <5>1, EffectGrows
        <5>. QED
          BY <4>2, <4>3, <4>5, <4>6, <5>2
      <4>4. CASE book[x].ref = Undo(k)
        <5>1. Undo(k) \notin S0 /\ S1 = S0 \cup {Undo(k)}
          BY <3>4, <4>4, <4>5, <4>6
        <5>2. Effect(S1, a, A, N)
                = Effect(S0, a, A, N)
                    + (IF A[k] = a THEN -N[k] ELSE 0)
          BY <5>1, EffectGrows
        <5>. QED
          BY <4>2, <4>4, <4>5, <4>6, <5>2
      <4>. QED
        BY <4>1, <4>3, <4>4
    <3>7. Sums(book, U, a) = Effect(RefsAt(book, U), a, A, N)
      BY <3>3
    <3>. QED
      BY <3>5, <3>6, <3>7
  <2>. QED
    BY <2>1, <2>2
<1>4. C \in SUBSET SUBSET DOMAIN book
  OBVIOUS
<1>. HIDE DEF C
<1>5. C = SUBSET DOMAIN book
  BY <1>1, <1>3, <1>4, SubsetInduction
<1>6. DOMAIN book \in C
  BY <1>5
<1>7. RefsAt(book, DOMAIN book) = Refs(book)
  BY DEF Refs, RefsAt
<1>. QED
  BY <1>6, <1>7 DEF C

(***************************************************************************)
(* Memory and snapshots are of these accounts and amounts.                 *)
(***************************************************************************)
MoneyOf(A, N) ==
  /\ Right(ledger, A, N) /\ Right(saved, A, N)
  /\ Agrees(prov, A, N) /\ Agrees(provSaved, A, N)

(***************************************************************************)
(* Amounts are integers, and those of the records and of the steps.        *)
(***************************************************************************)
LEMMA AmountsAre ==
  ASSUME TypeInv
  PROVE  /\ Amounts \in [Ref -> Int]
         /\ \A k \in Op : Accounts[k] = tx[k].a /\ Amounts[k] = tx[k].n
         /\ \A k \in DOMAIN Step :
              Accounts[k] = Step[k].acct /\ Amounts[k] = Step[k].n
<1>1. \A k \in Op : tx[k].n \in Int
  BY DEF TypeInv, TxT
<1>2. \A k \in DOMAIN Step : Step[k].n \in Int
  BY ProviderAssumption
<1>. QED
  BY <1>1, <1>2, Distinct DEF Amounts, Accounts

(***************************************************************************)
(* What an operation that was not done would do does not matter.           *)
(***************************************************************************)
LEMMA EffectSame ==
  ASSUME NEW S, NEW A, NEW N, NEW B, NEW M, NEW a,
         N \in [Ref -> Int], M \in [Ref -> Int],
         \A k \in Ref : k \in S \/ Undo(k) \in S => A[k] = B[k] /\ N[k] = M[k]
  PROVE  Effect(S, a, A, N) = Effect(S, a, B, M)
<1>1. ASSUME NEW k \in Ref
      PROVE  (IF A[k] = a THEN Left(S, k, N[k]) ELSE 0)
               = (IF B[k] = a THEN Left(S, k, M[k]) ELSE 0)
  <2>1. CASE k \in S \/ Undo(k) \in S
    BY <2>1
  <2>2. CASE ~(k \in S \/ Undo(k) \in S)
    BY <2>2 DEF Left
  <2>. QED
    BY <2>1, <2>2
<1>2. Effects(S, a, A, N) = Effects(S, a, B, M)
  BY <1>1 DEF Effects
<1>. QED
  BY <1>2 DEF Effect

(***************************************************************************)
(* A record may be given another account and amount while nothing of its   *)
(* adjustment is done or booked.                                           *)
(***************************************************************************)
LEMMA MoneyRenamed ==
  ASSUME SavedInv, NEW A, NEW N \in [Ref -> Int], NEW B, NEW M \in [Ref -> Int],
         MoneyOf(A, N),
         \A k \in Ref : Untouched(k) \/ (A[k] = B[k] /\ N[k] = M[k])
  PROVE  MoneyOf(B, M)
<1>1. ASSUME NEW p, p \in {prov, provSaved}
      PROVE  Agrees(p, B, M)
  <2>1. \A k \in Ref :
          k \in p.done \/ Undo(k) \in p.done => A[k] = B[k] /\ N[k] = M[k]
    BY <1>1 DEF Untouched, SavedInv
  <2>2. PICK S : S = p.done
    OBVIOUS
  <2>3. \A a : Effect(S, a, A, N) = Effect(S, a, B, M)
    BY <2>1, <2>2, EffectSame
  <2>4. Agrees(p, A, N)
    BY <1>1 DEF MoneyOf
  <2>. QED
    BY <2>2, <2>3, <2>4 DEF Agrees
<1>2. ASSUME NEW book, book \in {ledger, saved}
      PROVE  Right(book, B, M)
  <2>1. Right(book, A, N)
    BY <1>2 DEF MoneyOf
  <2>2. \A k \in Ref : k \in Refs(book) \/ Undo(k) \in Refs(book) =>
          A[k] = B[k] /\ N[k] = M[k]
    BY <1>2 DEF Untouched, SavedInv
  <2>3. \A i \in DOMAIN book : book[i].ref \in Refs(book)
    BY DEF Refs
  <2>. QED
    BY <2>1, <2>2, <2>3 DEF Right
<1>. QED
  BY <1>1, <1>2 DEF MoneyOf

(***************************************************************************)
(* A call of the provider for an operation or its compensation.            *)
(***************************************************************************)
LEMMA ProviderAgreed ==
  ASSUME prov \in ProvT, NEW A, NEW N \in [Ref -> Int], NEW k \in Ref,
         A[k] \in Acct, Agrees(prov, A, N),
         Mutate(A[k], N[k], k) \/ Mutate(A[k], -N[k], Undo(k))
  PROVE  Agrees(prov', A, N)
<1>1. PICK S : S = prov.done
  OBVIOUS
<1>2. PICK b : b = prov.bal
  OBVIOUS
<1>3. b \in [Acct -> Int]
  BY <1>2 DEF ProvT
<1>4. \A a \in Acct : b[a] = Opening[a] + Effect(S, a, A, N)
  BY <1>1, <1>2 DEF Agrees
<1>5. \A a \in Acct : Effect(S, a, A, N) \in Int /\ Opening[a] \in Int
  BY EffectType, ProviderAssumption
<1>6. N[k] \in Int
  OBVIOUS
<1>7. ASSUME prov'.done = S, prov'.bal = b
      PROVE  Agrees(prov', A, N)
  BY <1>4, <1>7 DEF Agrees
<1>8. ASSUME NEW r, NEW d \in Int, r \notin S,
             \/ r = k /\ d = N[k]
             \/ r = Undo(k) /\ d = -N[k],
             prov'.done = S \cup {r},
             prov'.bal = [b EXCEPT ![A[k]] = @ + d]
      PROVE  Agrees(prov', A, N)
  <2>1. PICK T : T = S \cup {r}
    OBVIOUS
  <2>2. \A a : Effect(T, a, A, N)
                 = Effect(S, a, A, N) + (IF A[k] = a THEN d ELSE 0)
    BY <1>8, <2>1, EffectGrows
  <2>3. ASSUME NEW a \in Acct
        PROVE  prov'.bal[a] = Opening[a] + Effect(T, a, A, N)
    <3>1. Effect(T, a, A, N) = Effect(S, a, A, N) + (IF A[k] = a THEN d ELSE 0)
      BY <2>2
    <3>2. prov'.bal[a] = b[a] + (IF A[k] = a THEN d ELSE 0)
      BY <1>3, <1>8
    <3>3. b[a] = Opening[a] + Effect(S, a, A, N)
      BY <1>4
    <3>4. Effect(S, a, A, N) \in Int /\ Opening[a] \in Int
      BY <1>5
    <3>. QED
      BY <3>1, <3>2, <3>3, <3>4, <1>8
  <2>. QED
    BY <1>8, <2>1, <2>3 DEF Agrees
<1>9. CASE Mutate(A[k], N[k], k)
  <2>1. CASE k \in S
    BY <1>1, <1>2, <1>7, <1>9, <2>1 DEF Mutate, Written
  <2>2. CASE k \notin S
    <3>1. PICK d \in Int : d = N[k]
      BY <1>6
    <3>2. prov'.done = S \cup {k} /\ prov'.bal = [b EXCEPT ![A[k]] = @ + d]
      BY <1>1, <1>2, <1>9, <2>2, <3>1 DEF Mutate, Written
    <3>3. PICK r : r = k
      OBVIOUS
    <3>4. r \notin S /\ prov'.done = S \cup {r}
      BY <2>2, <3>2, <3>3
    <3>6. \/ r = k /\ d = N[k]
          \/ r = Undo(k) /\ d = -N[k]
      BY <3>1, <3>3
    <3>5. prov'.bal = [b EXCEPT ![A[k]] = @ + d]
      BY <3>2
    <3>. QED
      BY <1>8, <3>4, <3>5, <3>6
  <2>. QED
    BY <2>1, <2>2
<1>10. CASE Mutate(A[k], -N[k], Undo(k))
  <2>1. CASE Undo(k) \in S
    BY <1>1, <1>2, <1>7, <1>10, <2>1 DEF Mutate, Written
  <2>2. CASE Undo(k) \notin S
    <3>1. PICK r : r = Undo(k)
      OBVIOUS
    <3>2. PICK d \in Int : d = -N[k]
      BY <1>6
    <3>3. prov'.done = S \cup {r} /\ prov'.bal = [b EXCEPT ![A[k]] = @ + d]
      BY <1>1, <1>2, <1>10, <2>2, <3>1, <3>2 DEF Mutate, Written
    <3>. QED
      BY <1>8, <2>2, <3>1, <3>2, <3>3
  <2>. QED
    BY <2>1, <2>2
<1>. QED
  BY <1>9, <1>10

(***************************************************************************)
(* An entry for an operation or its compensation.                          *)
(***************************************************************************)
LEMMA BookRight ==
  ASSUME NEW book \in Seq(EntryT), NEW A, NEW N \in [Ref -> Int], NEW k \in Ref,
         A[k] \in Acct, Right(book, A, N), NEW o \in Op, NEW b,
         \/ b = book \o Entry(A[k], N[k], o, k)
         \/ b = book \o Entry(A[k], -N[k], o, Undo(k))
  PROVE  Right(b, A, N)
<1>1. N[k] \in Int /\ -N[k] \in Int
  OBVIOUS
<1>2. PICK e : /\ b = book \o <<e>> /\ e \in EntryT
               /\ \/ e.ref = k /\ e.acct = A[k] /\ e.n = N[k]
                  \/ e.ref = Undo(k) /\ e.acct = A[k] /\ e.n = -N[k]
  <2>1. CASE b = book \o Entry(A[k], N[k], o, k)
    <3>1. PICK e : e = [acct |-> A[k], n |-> N[k], tx |-> o, ref |-> k]
      OBVIOUS
    <3>2. b = book \o <<e>>
      BY <2>1, <3>1 DEF Entry
    <3>3. e \in EntryT /\ e.ref = k /\ e.acct = A[k] /\ e.n = N[k]
      BY <1>1, <3>1, Distinct DEF EntryT
    <3>. QED
      BY <3>2, <3>3
  <2>2. CASE b = book \o Entry(A[k], -N[k], o, Undo(k))
    <3>1. PICK e : e = [acct |-> A[k], n |-> -N[k], tx |-> o, ref |-> Undo(k)]
      OBVIOUS
    <3>2. b = book \o <<e>>
      BY <2>2, <3>1 DEF Entry
    <3>3. e \in EntryT /\ e.ref = Undo(k) /\ e.acct = A[k] /\ e.n = -N[k]
      BY <1>1, <3>1, Distinct DEF EntryT
    <3>. QED
      BY <3>2, <3>3
  <2>. QED
    BY <2>1, <2>2
<1>3. \A i \in DOMAIN b : (i \in DOMAIN book /\ b[i] = book[i]) \/ b[i] = e
  <2>1. b = book \o <<e>>
    BY <1>2
  <2>2. e \in EntryT
    BY <1>2
  <2>6. b \in Seq(EntryT)
    BY <2>1, <2>2
  <2>3. Len(b) = Len(book) + 1 /\ b[Len(book) + 1] = e
    BY <2>1, <2>2
  <2>4. \A i \in 1 .. Len(book) : b[i] = book[i]
    BY <2>1, <2>2
  <2>5. DOMAIN book = 1 .. Len(book) /\ DOMAIN b = 1 .. Len(book) + 1
        /\ Len(book) \in Nat
    BY <2>3, <2>6
  <2>. QED
    BY <2>3, <2>4, <2>5
<1>4. ASSUME NEW i \in DOMAIN b, NEW j \in Ref, b[i] = e
      PROVE  /\ e.ref = j => e.acct = A[j] /\ e.n = N[j]
             /\ e.ref = Undo(j) => e.acct = A[j] /\ e.n = -N[j]
  <2>1. Undo(j) \notin Ref /\ Undo(k) \notin Ref /\ (Undo(j) = Undo(k) => j = k)
    BY Distinct
  <2>. QED
    BY <1>2, <2>1
<1>5. PICK D : D = DOMAIN book
  OBVIOUS
<1>. QED
  BY <1>3, <1>4, <1>5 DEF Right

(***************************************************************************)
(* What a step may do about money: call the provider and book, for an      *)
(* operation or its compensation, and save.                                *)
(***************************************************************************)
SameNames == \A p \in Op : tx'[p].a = tx[p].a /\ tx'[p].n = tx[p].n

Pays(k) ==
  /\ k \in Ref /\ Accounts[k] \in Acct
  /\ \/ Mutate(Accounts[k], Amounts[k], k)
     \/ Mutate(Accounts[k], -Amounts[k], Undo(k))

Books(k, o) ==
  /\ k \in Ref /\ Accounts[k] \in Acct /\ o \in Op
  /\ \/ ledger' = ledger \o Entry(Accounts[k], Amounts[k], o, k)
     \/ ledger' = ledger \o Entry(Accounts[k], -Amounts[k], o, Undo(k))

Moves ==
  /\ SameNames
  /\ prov' = prov \/ \E k : Pays(k)
  /\ ledger' = ledger \/ \E k, o : Books(k, o)
  /\ provSaved' \in {provSaved, prov, prov'}
  /\ saved' \in {saved, ledger, ledger'}

(***************************************************************************)
(* Calls, entries and flushes that carry the accounts and amounts of their *)
(* operations keep the balances and the books right.                       *)
(***************************************************************************)
LEMMA MovesKeep ==
  ASSUME TypeInv, Money, Moves
  PROVE  Money'
<1>1. PICK A : A = Accounts
  OBVIOUS
<1>2. PICK N \in [Ref -> Int] : N = Amounts
  BY AmountsAre
<1>3. Accounts' = A /\ Amounts' = N
  BY <1>1, <1>2, Distinct DEF Moves, SameNames, Accounts, Amounts
<1>4. prov \in ProvT
  BY DEF TypeInv
<1>5. ledger \in Seq(EntryT)
  BY DEF TypeInv
<1>6. /\ Right(ledger, A, N) /\ Right(saved, A, N)
      /\ Agrees(prov, A, N) /\ Agrees(provSaved, A, N)
  BY <1>1, <1>2 DEF Money
<1>7. Agrees(prov', A, N)
  <2>1. CASE prov' = prov
    BY <1>6, <2>1
  <2>2. ASSUME NEW k, Pays(k)
        PROVE  Agrees(prov', A, N)
    <3>1. k \in Ref
      BY <2>2 DEF Pays
    <3>2. A[k] \in Acct
      BY <1>1, <2>2 DEF Pays
    <3>3. Mutate(A[k], N[k], k) \/ Mutate(A[k], -N[k], Undo(k))
      BY <1>1, <1>2, <2>2 DEF Pays
    <3>4. Agrees(prov, A, N)
      BY <1>6
    <3>. QED
      BY <1>4, <3>1, <3>2, <3>3, <3>4, ProviderAgreed
  <2>. QED
    BY <2>1, <2>2 DEF Moves
<1>8. Right(ledger', A, N)
  <2>1. CASE ledger' = ledger
    BY <1>6, <2>1
  <2>2. ASSUME NEW k, NEW o, Books(k, o)
        PROVE  Right(ledger', A, N)
    <3>1. k \in Ref /\ o \in Op
      BY <2>2 DEF Books
    <3>2. A[k] \in Acct
      BY <1>1, <2>2 DEF Books
    <3>3. PICK b : b = ledger'
      OBVIOUS
    <3>4. PICK book \in Seq(EntryT) : book = ledger
      BY <1>5
    <3>5. \/ b = book \o Entry(A[k], N[k], o, k)
          \/ b = book \o Entry(A[k], -N[k], o, Undo(k))
      BY <1>1, <1>2, <2>2, <3>3, <3>4 DEF Books
    <3>6. Right(book, A, N)
      BY <1>6, <3>4
    <3>7. Right(b, A, N)
      BY <3>1, <3>2, <3>5, <3>6, BookRight
    <3>. QED
      BY <3>3, <3>7
  <2>. QED
    BY <2>1, <2>2 DEF Moves
<1>9. /\ provSaved' = provSaved \/ provSaved' = prov \/ provSaved' = prov'
      /\ saved' = saved \/ saved' = ledger \/ saved' = ledger'
  BY DEF Moves
<1>10. Agrees(provSaved', A, N) /\ Right(saved', A, N)
  BY <1>6, <1>7, <1>8, <1>9
<1>. QED
  BY <1>3, <1>7, <1>8, <1>10 DEF Money

(***************************************************************************)
(* No record changes its account or its amount but when it is begun.       *)
(***************************************************************************)
LEMMA NamesStay ==
  ASSUME TypeInv, NEW o \in Op
  PROVE  /\ tx' = tx => SameNames
         /\ \A state : Becomes(o, state) => SameNames
         /\ \A state : Resolved(o, state) => SameNames
<1>1. tx \in [Op -> TxT]
  BY DEF TypeInv
<1>2. ASSUME NEW state, tx' = [tx EXCEPT ![o].state = state]
      PROVE  SameNames
  BY <1>1, <1>2 DEF TxT, SameNames
<1>3. tx' = tx => SameNames
  BY DEF SameNames
<1>. QED
  BY <1>2, <1>3 DEF Becomes, Resolved

(***************************************************************************)
(* A command that works has the account and the amount of its operation.   *)
(***************************************************************************)
LEMMA Carries ==
  ASSUME IInv, Truth, NEW o \in Op, op[o].pc \in Works \ {"close"}
  PROVE  /\ op[o].ref \in Ref /\ op[o].a \in Acct
         /\ op[o].a = Accounts[op[o].ref] /\ op[o].n = Amounts[op[o].ref]
<1>1. /\ op[o].ref \in Ref /\ op[o].a \in Acct
      /\ op[o].ref \in DOMAIN Step => op[o].a = Step[op[o].ref].acct
      /\ op[o].ref \notin DOMAIN Step => op[o].ref = o
  BY DEF IInv, WorkInv, Own
<1>2. WorkTrue(o, op[o].pc, op[o].ref)
  BY DEF Truth
<1>3. TypeInv
  BY DEF IInv
<1>. QED
  BY <1>1, <1>2, <1>3, AmountsAre DEF WorkTrue

-----------------------------------------------------------------------------
(***************************************************************************)
(* Steps that call no provider and book nothing.                           *)
(***************************************************************************)
LEMMA RestMoves ==
  ASSUME IInv, SameNames, prov' = prov, ledger' = ledger,
         provSaved' = provSaved \/ provSaved' = prov,
         saved' = saved \/ saved' = ledger
  PROVE  Moves
BY DEF Moves

(***************************************************************************)
(* The steps of commands and recoveries that only save, or only change     *)
(* records.                                                                *)
(***************************************************************************)
LEMMA QuietMoves ==
  ASSUME IInv, NEW o \in Op,
         \/ StartStep(o) \/ StartUndo(o) \/ Journalled(o) \/ JournalFails(o)
         \/ MutateRefused(o) \/ Book(o) \/ BookFails(o) \/ ProviderFlushed(o)
         \/ ProviderFlushFails(o) \/ Close(o) \/ UndoNothing(o) \/ Rebuilt(o)
         \/ UndoFlushed(o) \/ UndoBooked(o) \/ UndoFlushFails(o)
         \/ RecoverPresent(o) \/ RecoverAbsent(o) \/ ReversalBooked(o)
         \/ RecoveryEnds(o) \/ RecoverFails(o)
  PROVE  Moves
<1>. USE DEF provider, books, journal
<1>1. TypeInv
  BY DEF IInv
<1>2. tx' = tx \/ (\E state : Becomes(o, state)) \/ (\E state : Resolved(o, state))
      => SameNames
  BY <1>1, NamesStay
<1>3. CASE StartStep(o) \/ StartUndo(o)
  BY <1>2, <1>3, RestMoves DEF StartStep, StartUndo, Start
<1>4. CASE Journalled(o) \/ JournalFails(o) \/ Close(o)
  BY <1>2, <1>4, RestMoves DEF Journalled, JournalFails, Close
<1>5. CASE MutateRefused(o) \/ Book(o) \/ BookFails(o)
  BY <1>2, <1>5, RestMoves DEF MutateRefused, Book, FlushLedger, BookFails
<1>6. CASE ProviderFlushed(o) \/ ProviderFlushFails(o)
  BY <1>2, <1>6, RestMoves DEF ProviderFlushed, FlushProvider, ProviderFlushFails
<1>7. CASE UndoNothing(o) \/ Rebuilt(o) \/ UndoFlushed(o) \/ UndoBooked(o)
  BY <1>2, <1>7, RestMoves
     DEF UndoNothing, Rebuilt, FlushLedger, UndoFlushed, FlushProvider, UndoBooked
<1>8. CASE UndoFlushFails(o)
  BY <1>2, <1>8, RestMoves DEF UndoFlushFails
<1>9. CASE RecoverPresent(o) \/ RecoverAbsent(o) \/ RecoveryEnds(o)
  BY <1>2, <1>9, RestMoves DEF RecoverPresent, RecoverAbsent, RecoveryEnds
<1>10. CASE ReversalBooked(o)
  BY <1>2, <1>10, RestMoves DEF ReversalBooked, FlushLedger
<1>11. CASE RecoverFails(o)
  BY <1>2, <1>11, RestMoves DEF RecoverFails
<1>. QED
  BY <1>3, <1>4, <1>5, <1>6, <1>7, <1>8, <1>9, <1>10, <1>11

(***************************************************************************)
(* A command, or a compensation, calls the provider.                       *)
(***************************************************************************)
LEMMA CallMoves ==
  ASSUME IInv, Truth, NEW o \in Op,
         \/ MutateBalance(o) \/ MutateUnknown(o)
         \/ UndoMutate(o) \/ UndoRefused(o)
  PROVE  Moves
<1>. USE DEF provider, books, journal
<1>1. TypeInv
  BY DEF IInv
<1>2. SameNames
  BY <1>1, NamesStay DEF MutateBalance, MutateUnknown, UndoMutate, UndoRefused
<1>3. op[o].pc \in Works \ {"close"}
  BY DEF MutateBalance, MutateUnknown, UndoMutate, UndoRefused, UndoMutates,
         Works, Appends, Undoes
<1>4. /\ op[o].ref \in Ref /\ op[o].a \in Acct
      /\ op[o].a = Accounts[op[o].ref] /\ op[o].n = Amounts[op[o].ref]
  BY <1>3, Carries
<1>5. /\ UNCHANGED <<provSaved, ledger, saved>>
      /\ \/ prov' = prov
         \/ Mutate(op[o].a, op[o].n, op[o].ref)
         \/ Mutate(op[o].a, -op[o].n, Undo(op[o].ref))
  BY DEF MutateBalance, MutateUnknown, UndoMutate, UndoRefused
<1>. QED
  BY <1>2, <1>4, <1>5 DEF Moves, Pays

(***************************************************************************)
(* A command, or a compensation, appends its entry.                        *)
(***************************************************************************)
LEMMA EntryMoves ==
  ASSUME IInv, Truth, NEW o \in Op,
         AppendEntry(o) \/ UndoRebuild(o) \/ UndoAppend(o)
  PROVE  Moves
<1>. USE DEF provider, books, journal
<1>1. TypeInv
  BY DEF IInv
<1>2. SameNames
  BY <1>1, NamesStay DEF AppendEntry, UndoRebuild, UndoAppend
<1>3. op[o].pc \in Works \ {"close"}
  BY DEF AppendEntry, UndoRebuild, UndoAppend, CompensationDue, Works, Appends,
         Undoes
<1>4. /\ op[o].ref \in Ref /\ op[o].a \in Acct
      /\ op[o].a = Accounts[op[o].ref] /\ op[o].n = Amounts[op[o].ref]
  BY <1>3, Carries, SMTT(30)
<1>5. /\ UNCHANGED <<prov, provSaved, saved>>
      /\ \/ ledger' = ledger \o Entry(op[o].a, op[o].n, o, op[o].ref)
         \/ ledger' = ledger \o Entry(op[o].a, -op[o].n, o, Undo(op[o].ref))
  BY DEF AppendEntry, UndoRebuild, UndoAppend
<1>. QED
  BY <1>2, <1>4, <1>5 DEF Moves, Books

(***************************************************************************)
(* The recovery appends what is missing and compensates what was written.  *)
(***************************************************************************)
LEMMA RecoverMoves ==
  ASSUME IInv, NEW o \in Op,
         RecoverUnwritten(o) \/ RecoverRevert(o) \/ RevertFlushed(o)
  PROVE  Moves
<1>. USE DEF provider, books, journal
<1>1. TypeInv
  BY DEF IInv
<1>2. SameNames
  BY <1>1, NamesStay DEF RecoverUnwritten, RecoverRevert, RevertFlushed
<1>3. o \in todo
  BY DEF IInv, WorkInv, Recovers,
         Reverses, RecoverUnwritten, RecoverRevert, RevertFlushed
<1>4. tx[o].a \in Acct /\ tx[o].state = "needs-recovery"
  BY <1>3 DEF IInv, RecordInv
<1>5. o \in Ref /\ Accounts[o] = tx[o].a /\ Amounts[o] = tx[o].n
  BY <1>1, AmountsAre, Distinct
<1>6. CASE RecoverUnwritten(o)
  <2>1. /\ prov' = prov /\ provSaved' = provSaved
        /\ saved' = saved
        /\ \/ ledger' = ledger
           \/ ledger' = ledger \o Entry(tx[o].a, -tx[o].n, o, Undo(o))
    BY <1>6 DEF RecoverUnwritten
  <2>. QED
    BY <1>2, <1>4, <1>5, <2>1 DEF Moves, Books
<1>7. CASE RecoverRevert(o)
  <2>1. /\ ledger' = ledger \o Entry(tx[o].a, tx[o].n, o, o)
        /\ Mutate(tx[o].a, -tx[o].n, Undo(o))
        /\ provSaved' = provSaved /\ saved' = saved
    BY <1>7 DEF RecoverRevert
  <2>. QED
    BY <1>2, <1>4, <1>5, <2>1 DEF Moves, Books, Pays
<1>8. CASE RevertFlushed(o)
  <2>1. /\ ledger' = ledger \o Entry(tx[o].a, -tx[o].n, o, Undo(o))
        /\ prov' = prov /\ provSaved' = prov /\ saved' = saved
    BY <1>8 DEF RevertFlushed, FlushProvider
  <2>. QED
    BY <1>2, <1>4, <1>5, <2>1 DEF Moves, Books
<1>. QED
  BY <1>6, <1>7, <1>8

(***************************************************************************)
(* A record is begun: nothing of its adjustment is done yet.               *)
(***************************************************************************)
LEMMA StartAdjustPays ==
  ASSUME IInv, IInv', Truth, Money, NEW o \in Op, StartAdjust(o)
  PROVE  Money'
<1>1. PICK A : A = Accounts
  OBVIOUS
<1>2. PICK N \in [Ref -> Int] : N = Amounts
  BY AmountsAre DEF IInv
<1>3. PICK B : B = Accounts'
  OBVIOUS
<1>4. PICK M \in [Ref -> Int] : M = Amounts'
  <2>1. Amounts' \in [Ref -> Int]
    <3>1. \A k \in Op : tx'[k].n \in Int
      BY DEF IInv, TypeInv, TxT
    <3>2. \A k \in DOMAIN Step : Step[k].n \in Int
      BY ProviderAssumption
    <3>. QED
      BY <3>1, <3>2, Distinct DEF Amounts
  <2>. QED
    BY <2>1
<1>5. op[o].pc = "idle" /\ \A p \in Op \ {o} : tx'[p] = tx[p]
  BY DEF StartAdjust, Start, IInv, TypeInv
<1>6. Untouched(o)
  BY <1>5 DEF Truth, RecordTrue
<1>7. \A k \in Ref : Untouched(k) \/ (A[k] = B[k] /\ N[k] = M[k])
  BY <1>1, <1>2, <1>3, <1>4, <1>5, <1>6, Distinct DEF Accounts, Amounts
<1>8. MoneyOf(A, N) /\ SavedInv
  BY <1>1, <1>2 DEF Money, MoneyOf, IInv
<1>9. MoneyOf(B, M)
  BY <1>7, <1>8, MoneyRenamed
<1>10. UNCHANGED <<prov, provSaved, ledger, saved>>
  BY DEF StartAdjust, Start, provider, books
<1>. QED
  BY <1>3, <1>4, <1>9, <1>10 DEF Money, MoneyOf

(***************************************************************************)
(* A record the journal lost was of an adjustment nothing of which is      *)
(* done.                                                                   *)
(***************************************************************************)
LEMMA CrashPays ==
  ASSUME IInv, IInv', Truth, Money, Crash
  PROVE  Money'
<1>1. PICK A : A = Accounts
  OBVIOUS
<1>2. PICK N \in [Ref -> Int] : N = Amounts
  BY AmountsAre DEF IInv
<1>3. PICK B : B = Accounts'
  OBVIOUS
<1>4. PICK M \in [Ref -> Int] : M = Amounts'
  <2>1. Amounts' \in [Ref -> Int]
    <3>1. \A k \in Op : tx'[k].n \in Int
      BY DEF IInv, TypeInv, TxT
    <3>2. \A k \in DOMAIN Step : Step[k].n \in Int
      BY ProviderAssumption
    <3>. QED
      BY <3>1, <3>2, Distinct DEF Amounts
  <2>. QED
    BY <2>1
<1>5. \A p \in Op : tx'[p].a = txSaved[p].a /\ tx'[p].n = txSaved[p].n
  <2>. SUFFICES ASSUME NEW p \in Op
                PROVE  tx'[p].a = txSaved[p].a /\ tx'[p].n = txSaved[p].n
    OBVIOUS
  <2>1. txSaved[p] \in TxT
    BY DEF IInv, TypeInv
  <2>2. tx'[p] = txSaved[p]
        \/ tx'[p] = [txSaved[p] EXCEPT !.state = "needs-recovery"]
    BY DEF Crash
  <2>. QED
    BY <2>1, <2>2 DEF TxT
<1>6. \A p \in Op :
        Untouched(p) \/ (tx'[p].a = tx[p].a /\ tx'[p].n = tx[p].n)
  BY <1>5 DEF Truth, RecordTrue
<1>7. \A k \in Ref : Untouched(k) \/ (A[k] = B[k] /\ N[k] = M[k])
  BY <1>1, <1>2, <1>3, <1>4, <1>6, Distinct DEF Accounts, Amounts
<1>8. MoneyOf(A, N) /\ SavedInv
  BY <1>1, <1>2 DEF Money, MoneyOf, IInv
<1>9. MoneyOf(B, M)
  BY <1>7, <1>8, MoneyRenamed
<1>10. /\ prov' = provSaved /\ ledger' = saved
       /\ UNCHANGED <<provSaved, saved>>
  BY DEF Crash
<1>. QED
  BY <1>3, <1>4, <1>9, <1>10 DEF Money, MoneyOf

(***************************************************************************)
(* Snapshots written in the background.                                    *)
(***************************************************************************)
LEMMA PersistMoves ==
  ASSUME IInv, Persist
  PROVE  Moves
<1>1. /\ UNCHANGED <<prov, ledger, tx>>
      /\ provSaved' = provSaved \/ provSaved' = prov
      /\ saved' = saved \/ saved' = ledger
  BY DEF Persist, FlushProvider, FlushLedger
<1>2. SameNames
  BY <1>1 DEF SameNames
<1>. QED
  BY <1>1, <1>2, RestMoves

(***************************************************************************)
(* At first balances are the opening balances and the books are empty.     *)
(***************************************************************************)
LEMMA InitPays == Init => Money
<1>. SUFFICES ASSUME Init
              PROVE  Money
  OBVIOUS
<1>1. PICK A : A = Accounts
  OBVIOUS
<1>2. PICK N : N = Amounts
  OBVIOUS
<1>3. \A a : Effect({}, a, A, N) = 0
  <2>1. SUFFICES ASSUME NEW a
                 PROVE  Effect({}, a, A, N) = 0
    OBVIOUS
  <2>2. \A k \in Ref : Left({}, k, N[k]) = 0
    BY DEF Left
  <2>3. Effects({}, a, A, N) = [k \in Ref |-> 0]
    BY <2>2 DEF Effects
  <2>. QED
    BY <2>3, FinitelyMany, SumOfZeros DEF Effect
<1>4. /\ prov.bal = Opening /\ prov.done = {} /\ provSaved = prov
      /\ ledger = <<>> /\ saved = <<>>
  BY DEF Init
<1>5. Agrees(prov, A, N) /\ Agrees(provSaved, A, N)
  <2>1. \A a \in Acct : Opening[a] = Opening[a] + 0
    BY ProviderAssumption
  <2>2. \A a \in Acct : prov.bal[a] = Opening[a] + Effect(prov.done, a, A, N)
    BY <1>3, <1>4, <2>1
  <2>. QED
    BY <1>4, <2>2 DEF Agrees
<1>6. Right(ledger, A, N) /\ Right(saved, A, N)
  BY <1>4 DEF Right
<1>. QED
  BY <1>1, <1>2, <1>5, <1>6 DEF Money

(***************************************************************************)
(* Every step keeps the balances and the books right.                      *)
(***************************************************************************)
LEMMA NextPays ==
  ASSUME IInv, IInv', Truth, Money, [Next]_vars
  PROVE  Money'
<1>1. TypeInv
  BY DEF IInv
<1>2. Moves => Money'
  BY <1>1, MovesKeep
<1>3. ASSUME NEW o \in Op, Adjusting(o)
      PROVE  Money'
  BY <1>2, <1>3, StartAdjustPays, QuietMoves, CallMoves, EntryMoves
     DEF Adjusting
<1>4. ASSUME NEW o \in Op, Undoing(o)
      PROVE  Money'
  BY <1>2, <1>4, QuietMoves, CallMoves, EntryMoves DEF Undoing
<1>5. ASSUME NEW o \in Op, Recovering(o)
      PROVE  Money'
  BY <1>2, <1>5, QuietMoves, RecoverMoves DEF Recovering
<1>6. CASE UNCHANGED vars
  <2>1. UNCHANGED <<prov, provSaved, ledger, saved, tx>>
    BY <1>6 DEF vars, provider, books, journal
  <2>2. SameNames
    BY <2>1 DEF SameNames
  <2>. QED
    BY <1>2, <2>1, <2>2, RestMoves
<1>. QED
  BY <1>2, <1>3, <1>4, <1>5, <1>6, PersistMoves, CrashPays DEF Next

-----------------------------------------------------------------------------
(***************************************************************************)
(* What no, one and two entries add up to.                                 *)
(***************************************************************************)
LEMMA NetOf ==
  ASSUME ledger \in Seq(EntryT), NEW I \in SUBSET DOMAIN ledger
  PROVE  /\ I = {} => Net(I) = 0
         /\ \A i \in I : I = {i} => Net(I) = ledger[i].n
         /\ \A i, j \in I :
              I = {i, j} /\ i # j => Net(I) = ledger[i].n + ledger[j].n
<1>1. \A i \in DOMAIN ledger : ledger[i].n \in Int
  <2>1. \A i \in DOMAIN ledger : ledger[i] \in EntryT
    OBVIOUS
  <2>. QED
    BY <2>1 DEF EntryT
<1>2. Net({}) = 0
  <2>1. [i \in {} |-> ledger[i].n] = [i \in {} |-> 0]
    OBVIOUS
  <2>. QED
    BY <2>1, FS_EmptySet, SumOfZeros DEF Net
<1>3. ASSUME NEW J \in SUBSET DOMAIN ledger, IsFiniteSet(J), NEW i \in J
      PROVE  Net(J) = ledger[i].n + Net(J \ {i})
  <2>1. PICK f : f = [k \in J |-> ledger[k].n]
    OBVIOUS
  <2>2. f \in [J -> Int]
    BY <1>1, <2>1
  <2>3. SumFunction(f) = f[i] + SumFunction([y \in J \ {i} |-> f[y]])
    BY <1>3, <2>2, SumRemoved, ZenonT(60)
  <2>4. [y \in J \ {i} |-> f[y]] = [y \in J \ {i} |-> ledger[y].n]
    BY <2>1
  <2>5. f[i] = ledger[i].n
    BY <2>1
  <2>. QED
    BY <2>1, <2>3, <2>4, <2>5 DEF Net
<1>4. ASSUME NEW i \in DOMAIN ledger
      PROVE  Net({i}) = ledger[i].n
  <2>1. {i} \ {i} = {} /\ i \in {i} /\ {i} \in SUBSET DOMAIN ledger
    OBVIOUS
  <2>2. IsFiniteSet({i})
    BY FS_Singleton
  <2>3. PICK J \in SUBSET DOMAIN ledger : J = {i}
    BY <2>1
  <2>4. Net(J) = ledger[i].n + Net(J \ {i})
    BY <1>3, <2>2, <2>3
  <2>5. Net(J \ {i}) = 0
    BY <1>2, <2>1, <2>3
  <2>6. ledger[i].n \in Int
    BY <1>1
  <2>7. Net(J) = ledger[i].n
    BY <2>4, <2>5, <2>6
  <2>. QED
    BY <2>3, <2>7
<1>5. ASSUME NEW i \in DOMAIN ledger, NEW j \in DOMAIN ledger, i # j
      PROVE  Net({i, j}) = ledger[i].n + ledger[j].n
  <2>1. PICK J \in SUBSET DOMAIN ledger : J = {i, j}
    OBVIOUS
  <2>4. IsFiniteSet(J)
    <3>1. IsFiniteSet({j})
      BY FS_Singleton
    <3>2. IsFiniteSet({j} \cup {i})
      BY <3>1, FS_AddElement
    <3>3. J = {j} \cup {i}
      BY <2>1
    <3>. QED
      BY <3>2, <3>3
  <2>2. IsFiniteSet(J) /\ i \in J /\ J \ {i} = {j}
    BY <1>5, <2>1, <2>4
  <2>3. Net(J) = ledger[i].n + Net(J \ {i})
    BY <1>3, <2>2
  <2>. QED
    BY <1>4, <2>1, <2>2, <2>3
<1>. QED
  BY <1>2, <1>4, <1>5

(***************************************************************************)
(* What a record that is closed says of the entries of its adjustment.     *)
(***************************************************************************)
LEMMA NetIs ==
  ASSUME IInv, Truth, Money, NEW o \in Op
  PROVE  /\ o \in Refs(ledger) /\ Undo(o) \notin Refs(ledger) =>
              NetBy(o) = tx[o].n
         /\ (o \in Refs(ledger) <=> Undo(o) \in Refs(ledger)) =>
              NetBy(o) = 0
<1>1. ledger \in Seq(EntryT)
  BY DEF IInv, TypeInv
<1>2. o \in Ref /\ o # Undo(o) /\ tx[o].n \in Int
      /\ Amounts[o] = tx[o].n /\ Once(ledger) /\ Right(ledger, Accounts, Amounts)
  BY Distinct, AmountsAre DEF IInv, TypeInv, SavedInv, Money, TxT
<1>3. \A i \in DOMAIN ledger :
        /\ ledger[i].ref = o => ledger[i].n = tx[o].n
        /\ ledger[i].ref = Undo(o) => ledger[i].n = -tx[o].n
  BY <1>2 DEF Right
<1>4. ASSUME NEW r
      PROVE  /\ r \in Refs(ledger) =>
                  \E i \in DOMAIN ledger :
                    ledger[i].ref = r /\ EntriesBy(ledger, r) = {i}
             /\ r \notin Refs(ledger) => EntriesBy(ledger, r) = {}
  BY <1>2 DEF Refs, Once, EntriesBy
<1>5. PICK I : I = EntriesBy(ledger, o) \cup EntriesBy(ledger, Undo(o))
  OBVIOUS
<1>6. I \in SUBSET DOMAIN ledger /\ NetBy(o) = Net(I)
  BY <1>5 DEF NetBy, EntriesBy
<1>7. CASE o \notin Refs(ledger) /\ Undo(o) \notin Refs(ledger)
  <2>1. I = {}
    BY <1>4, <1>5, <1>7
  <2>2. Net(I) = 0
    BY <1>1, <1>6, <2>1, NetOf
  <2>. QED
    BY <1>6, <1>7, <2>2
<1>8. CASE o \in Refs(ledger) /\ Undo(o) \notin Refs(ledger)
  <2>1. PICK i \in DOMAIN ledger : ledger[i].ref = o /\ I = {i}
    BY <1>4, <1>5, <1>8
  <2>2. Net(I) = ledger[i].n
    BY <1>1, <1>6, <2>1, NetOf
  <2>. QED
    BY <1>3, <1>6, <1>8, <2>1, <2>2
<1>9. CASE o \in Refs(ledger) /\ Undo(o) \in Refs(ledger)
  <2>1. PICK i \in DOMAIN ledger, j \in DOMAIN ledger :
          ledger[i].ref = o /\ ledger[j].ref = Undo(o) /\ I = {i, j}
    BY <1>4, <1>5, <1>9
  <2>2. i # j /\ i \in I /\ j \in I
    BY <1>2, <2>1
  <2>3. Net(I) = ledger[i].n + ledger[j].n
    BY <1>1, <1>6, <2>1, <2>2, NetOf
  <2>4. ledger[i].n = tx[o].n /\ ledger[j].n = -tx[o].n
    BY <1>3, <2>1
  <2>. QED
    BY <1>2, <1>6, <1>9, <2>3, <2>4
<1>. QED
  BY <1>7, <1>8, <1>9

(***************************************************************************)
(* True records and right books: the journal tells the truth about the     *)
(* provider and the ledger.                                                *)
(***************************************************************************)
LEMMA ImpliesResolved ==
  ASSUME IInv, Truth, Money
  PROVE  AdjustResolved
<1>. SUFFICES ASSUME NEW o \in Op
              PROVE  /\ tx[o].state = "committed" =>
                          /\ Written(o) /\ ~Written(Undo(o))
                          /\ NetBy(o) = tx[o].n
                     /\ tx[o].state \in {"failed", "compensated"} =>
                          (Written(o) => Written(Undo(o))) /\ NetBy(o) = 0
  BY DEF AdjustResolved
<1>1. RecordTrue(o)
  BY DEF Truth
<1>2. Undo(o) \in Refs(ledger) => o \in Refs(ledger)
  BY Distinct DEF Truth, UndoneAfter
<1>3. CASE tx[o].state = "committed"
  <2>1. Stands(o)
    BY <1>1, <1>3 DEF RecordTrue
  <2>. QED
    BY <1>3, <2>1, NetIs DEF Stands, Written
<1>4. CASE tx[o].state \in {"failed", "compensated"}
  <2>1. /\ o \in prov.done => Undo(o) \in prov.done
        /\ o \in Refs(ledger) => Undo(o) \in Refs(ledger)
    BY <1>1, <1>4 DEF RecordTrue
  <2>2. NetBy(o) = 0
    BY <1>2, <2>1, NetIs
  <2>. QED
    BY <1>4, <2>1, <2>2 DEF Written
<1>. QED
  BY <1>3, <1>4

(***************************************************************************)
(* Of an operation on an account at rest the provider and the ledger have  *)
(* the same left.                                                          *)
(***************************************************************************)
LEMMA LeftAlike ==
  ASSUME IInv, Truth, NEW a \in Acct, Quiet(a), NEW k \in Ref, Accounts[k] = a,
         NEW n \in Int
  PROVE  Left(prov.done, k, n) = Left(Refs(ledger), k, n)
<1>1. /\ Undo(k) \in prov.done => k \in prov.done
      /\ Undo(k) \in Refs(ledger) => k \in Refs(ledger)
  BY DEF Truth, UndoneAfter
<1>2. \/ Untouched(k) \/ Stands(k)
      \/ /\ k \in prov.done => Undo(k) \in prov.done
         /\ k \in Refs(ledger) => Undo(k) \in Refs(ledger)
  <2>1. CASE k \in Op
    <3>1. tx[k].a = a
      BY <2>1, AmountsAre DEF IInv
    <3>2. tx[k].state \in Final
      BY <2>1, <3>1 DEF Quiet, IInv, TypeInv, TxT
    <3>3. RecordTrue(k)
      BY <2>1 DEF Truth
    <3>. QED
      BY <3>2, <3>3 DEF RecordTrue, Final
  <2>2. CASE k \in DOMAIN Step
    <3>1. Step[k].acct = a
      BY <2>2, AmountsAre DEF IInv
    <3>2. parent[k] \in {"none", "closed"}
      BY <2>2, <3>1 DEF Quiet, IInv, TypeInv
    <3>3. StepTrue(k)
      BY <2>2 DEF Truth
    <3>. QED
      BY <3>2, <3>3 DEF StepTrue
  <2>. QED
    BY <2>1, <2>2, Distinct
<1>. QED
  BY <1>1, <1>2 DEF Untouched, Stands, Left

(***************************************************************************)
(* On an account at rest the provider did what the ledger has, and both    *)
(* add up.                                                                 *)
(***************************************************************************)
LEMMA ImpliesAgrees ==
  ASSUME IInv, Truth, Money
  PROVE  ProviderAgrees
<1>. SUFFICES ASSUME NEW a \in Acct, Quiet(a)
              PROVE  prov.bal[a] = Opening[a] + Booked(a)
  BY DEF ProviderAgrees
<1>1. PICK A : A = Accounts
  OBVIOUS
<1>2. PICK N \in [Ref -> Int] : N = Amounts
  BY AmountsAre DEF IInv
<1>3. prov.bal[a] = Opening[a] + Effect(prov.done, a, A, N)
  BY <1>1, <1>2 DEF Money, Agrees
<1>4. Effect(prov.done, a, A, N) = Effect(Refs(ledger), a, A, N)
  <2>1. \A k \in Ref : A[k] = a =>
          Left(prov.done, k, N[k]) = Left(Refs(ledger), k, N[k])
    BY <1>1, <1>2, LeftAlike
  <2>2. Effects(prov.done, a, A, N) = Effects(Refs(ledger), a, A, N)
    BY <2>1 DEF Effects
  <2>. QED
    BY <2>2 DEF Effect
<1>5. PICK book \in Seq(EntryT) : book = ledger
  BY DEF IInv, TypeInv
<1>6. Once(book) /\ Right(book, A, N)
  BY <1>1, <1>2, <1>5 DEF IInv, SavedInv, Money
<1>7. Sums(book, DOMAIN book, a) = Effect(Refs(book), a, A, N)
  BY <1>6, BookAddsUp
<1>8. Booked(a) = Sums(book, DOMAIN book, a)
  BY <1>5 DEF Booked, Net, Sums, On
<1>. QED
  BY <1>3, <1>4, <1>5, <1>7, <1>8

-----------------------------------------------------------------------------
(***************************************************************************)
(* The strengthening is an invariant.                                      *)
(***************************************************************************)
LEMMA ProviderInvariance ==
  ASSUME ~StrayCrash
  PROVE  Spec /\ [][Crash => ~HalfReverted]_vars => [](IInv /\ Truth /\ Money)
<1>1. Init => IInv /\ Truth /\ Money
  BY InitEstablishes, InitTells, InitPays
<1>2. IInv /\ Truth /\ Money /\ [Next]_vars /\ [Crash => ~HalfReverted]_vars
        => (IInv /\ Truth /\ Money)'
  <2>. SUFFICES ASSUME IInv, Truth, Money, [Next]_vars,
                       [Crash => ~HalfReverted]_vars
                PROVE  (IInv /\ Truth /\ Money)'
    OBVIOUS
  <2>1. IInv'
    BY NextKeeps
  <2>2. Truth'
    BY NextTells
  <2>3. Money'
    BY <2>1, NextPays
  <2>. QED
    BY <2>1, <2>2, <2>3
<1>. QED
  BY <1>1, <1>2, PTL DEF Spec

(***************************************************************************)
(* A committed adjustment is written by the provider, was not compensated  *)
(* and is booked once with its amount, and any other end left nothing of   *)
(* it, for any accounts and commands and any number of failures and        *)
(* restarts: as long as no restart comes after a compensation that         *)
(* succeeded without a flush, or half way through a recovery that reverts. *)
(***************************************************************************)
THEOREM ProviderResolved ==
  ASSUME ~StrayCrash
  PROVE  Spec /\ [][Crash => ~HalfReverted]_vars => []AdjustResolved
BY ImpliesResolved, ProviderInvariance, PTL

(***************************************************************************)
(* The balance the provider reports for an account at rest is its opening  *)
(* balance and the entries of the ledger, under the same two conditions.   *)
(***************************************************************************)
THEOREM ProviderReconciled ==
  ASSUME ~StrayCrash
  PROVE  Spec /\ [][Crash => ~HalfReverted]_vars => []ProviderAgrees
BY ImpliesAgrees, ProviderInvariance, PTL
=============================================================================
