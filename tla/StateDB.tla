------------------------------ MODULE StateDB -------------------------------
(***************************************************************************)
(* The state of the accounts while a block is processed                    *)
(* (core/state/statedb.go, state_object.go, journal.go).                   *)
(*                                                                         *)
(* A StateDB is three layers: the trie, the objects loaded from it, and in *)
(* each object the storage read (origin) and written (dirty).  Changes go  *)
(* to the objects and are recorded in a journal that can be undone; the    *)
(* journal also counts which accounts are dirty, and only those are ever   *)
(* written to the trie.                                                    *)
(*                                                                         *)
(* The StateDB is one record; each method is an operator from the StateDB  *)
(* it finds to the one it leaves.  A storage root stands for the storage   *)
(* it is the hash of, a code hash for the code.                            *)
(***************************************************************************)
EXTENDS Integers, FiniteSets, SequencesExt

CONSTANTS
  Accounts,
  Ripemd,          \* the account whose touch survives a revert
  Keys, Values,    \* storage keys, and values other than zero
  Codes,           \* code other than none
  Preimages,
  Blocks,          \* the blocks: records of the rule on empty accounts, the
                   \* accounts changed and what these are before the block
  MaxBalance, MaxNonce, MaxJournal, MaxRevision, MaxTx,  \* bounds
  MaxOther         \* bound on touched accounts, refund, logs and preimages

VARIABLES
  db,              \* the StateDB; its history field ripemdTouched says that the
                   \* transaction touched Ripemd, whether or not that was undone
  deleteEmpty,     \* whether empty accounts are deleted: a rule of the block
  touched          \* the accounts the block changes

vars == <<db, deleteEmpty, touched>>

Zero == 0

NoCode == 0

None == [none |-> TRUE]       \* nil

Storage == [Keys -> Values \cup {Zero}]

EmptyStorage == [k \in Keys |-> Zero]

NotCached == -1

NoCache == [k \in Keys |-> NotCached]

-----------------------------------------------------------------------------
(* State objects.                                                          *)

Account == [balance : 0 .. MaxBalance, nonce : 0 .. MaxNonce,
            root : Storage, code : Codes \cup {NoCode}]

NewAccount == [balance |-> 0, nonce |-> 0, root |-> EmptyStorage, code |-> NoCode]

newObject(data) ==
  [data |-> data, origin |-> NoCache, dirty |-> NoCache,
   dirtyCode |-> FALSE, suicided |-> FALSE, deleted |-> FALSE]

empty(data) == data.nonce = 0 /\ data.balance = 0 /\ data.code = NoCode

GetCommittedState(o, k) == IF o.origin[k] # NotCached THEN o.origin[k] ELSE o.data.root[k]

ObjState(o, k) == IF o.dirty[k] # NotCached THEN o.dirty[k] ELSE GetCommittedState(o, k)

\* A read of the committed value caches it.
Cached(o, k) == [o EXCEPT !.origin[k] = GetCommittedState(o, k)]

\* As updateTrie keeping what is written as the value to compare with later.
updateTrie_origin(o) ==
  LET origin(k)  == IF o.origin[k] = NotCached THEN Zero ELSE o.origin[k]
      changed(k) == o.dirty[k] # NotCached /\ o.dirty[k] # origin(k)
  IN  [o EXCEPT !.dirty = NoCache,
                !.data.root = [k \in Keys |-> IF changed(k) THEN o.dirty[k] ELSE @[k]]]

\* The dirty storage goes to the storage trie; what did not change is skipped.
updateTrie(o) ==
  LET origin(k)  == IF o.origin[k] = NotCached THEN Zero ELSE o.origin[k]
      changed(k) == o.dirty[k] # NotCached /\ o.dirty[k] # origin(k)
  IN  [o EXCEPT !.dirty = NoCache,
                !.origin = [k \in Keys |-> IF changed(k) THEN o.dirty[k] ELSE @[k]],
                !.data.root = [k \in Keys |-> IF changed(k) THEN o.dirty[k] ELSE @[k]]]

-----------------------------------------------------------------------------
(* The journal.                                                            *)

\* The entries that name an account make it dirty; a reset does not.
Dirties(e) == e.ch \in {"create", "suicide", "touch", "balance", "nonce", "storage", "code"}

Journaled(d, e) ==
  LET q == [d EXCEPT !.journal = Append(@, e)]
  IN  IF Dirties(e) THEN [q EXCEPT !.dirties[e.a] = @ + 1] ELSE q

\* What the undoing of one entry does.
revert(d, e) ==
  CASE e.ch = "create"   -> [d EXCEPT !.objects[e.a] = None, !.stateObjectsDirty = @ \ {e.a}]
    [] e.ch = "reset"    -> [d EXCEPT !.objects[e.a] = e.prev]
    [] e.ch = "suicide"  -> [d EXCEPT !.objects[e.a].suicided = e.prev,
                                      !.objects[e.a].data.balance = e.prevbalance]
    [] e.ch = "balance"  -> [d EXCEPT !.objects[e.a].data.balance = e.prev]
    [] e.ch = "nonce"    -> [d EXCEPT !.objects[e.a].data.nonce = e.prev]
    [] e.ch = "code"     -> [d EXCEPT !.objects[e.a].data.code = e.prev,
                                      !.objects[e.a].dirtyCode = TRUE]
    [] e.ch = "storage"  -> [d EXCEPT !.objects[e.a].dirty[e.key] = e.prev]
    [] e.ch = "refund"   -> [d EXCEPT !.refund = e.prev]
    [] e.ch = "log"      -> [d EXCEPT !.logs = @ - 1]
    [] e.ch = "preimage" -> [d EXCEPT !.preimages = @ \ {e.hash}]
    [] e.ch = "touch"    -> d

\* The journal is undone from its end down to the snapshot.
RevertJournal(d, snapshot) ==
  LET undone[n \in snapshot .. Len(d.journal)] ==    \* the entries after n are undone
        IF n = Len(d.journal) THEN d
        ELSE LET e == d.journal[n + 1]
                 q == revert(undone[n + 1], e)
             IN  IF Dirties(e) THEN [q EXCEPT !.dirties[e.a] = @ - 1] ELSE q
  IN  [undone[snapshot] EXCEPT !.journal = SubSeq(@, 1, snapshot)]

\* As clearJournalAndRefund leaving the revisions.
clearJournalAndRefund_revisions(d) ==
  [d EXCEPT !.journal = <<>>, !.dirties = [a \in Accounts |-> 0], !.refund = 0,
            !.ripemdTouched = FALSE]

clearJournalAndRefund(d) ==
  [d EXCEPT !.journal = <<>>, !.dirties = [a \in Accounts |-> 0],
            !.revisions = <<>>, !.refund = 0, !.ripemdTouched = FALSE]

DirtyAccounts(d) == {a \in Accounts : d.dirties[a] > 0}

-----------------------------------------------------------------------------
(* Objects of the StateDB.                                                 *)

\* The object getStateObject returns: a live one, or the one of the trie.
getStateObject(d, a) ==
  CASE d.objects[a] # None /\ d.objects[a].deleted -> None
    [] d.objects[a] # None /\ ~d.objects[a].deleted -> d.objects[a]
    [] d.objects[a] = None /\ d.trie[a] # None -> newObject(d.trie[a])
    [] OTHER -> None

Exist(d, a) == getStateObject(d, a) # None

\* getStateObject as an operation: what the trie holds is kept.
Load(d, a) == IF Exist(d, a) THEN [d EXCEPT !.objects[a] = getStateObject(d, a)] ELSE d

createObject(d, a) ==
  LET prev  == getStateObject(d, a)
      entry == IF prev = None THEN [ch |-> "create", a |-> a]
               ELSE [ch |-> "reset", a |-> a, prev |-> prev]
  IN  [Journaled(d, entry) EXCEPT !.objects[a] = newObject(NewAccount)]

GetOrNewStateObject(d, a) == IF Exist(d, a) THEN Load(d, a) ELSE createObject(d, a)

\* As deleteStateObject leaving the object to be read.
deleteStateObject_kept(d, a) == [d EXCEPT !.trie[a] = None]

deleteStateObject(d, a) == [d EXCEPT !.objects[a].deleted = TRUE, !.trie[a] = None]

updateStateObject(d, a) == [d EXCEPT !.trie[a] = d.objects[a].data]

-----------------------------------------------------------------------------
(* Changing an account.                                                    *)

\* As touch not marking Ripemd a second time.
touch_once(d, a) ==
  LET q == Journaled(d, [ch |-> "touch", a |-> a])
  IN  IF a = Ripemd THEN [q EXCEPT !.ripemdTouched = TRUE] ELSE q

\* The second mark of Ripemd is not in the journal and outlives a revert.
touch(d, a) ==
  LET q == Journaled(d, [ch |-> "touch", a |-> a])
  IN  IF a = Ripemd THEN [q EXCEPT !.dirties[a] = @ + 1, !.ripemdTouched = TRUE] ELSE q

ObjSetBalance(d, a, v) ==
  [Journaled(d, [ch |-> "balance", a |-> a, prev |-> d.objects[a].data.balance])
     EXCEPT !.objects[a].data.balance = v]

AddBalance(d, a, amount) ==
  LET q == GetOrNewStateObject(d, a)
      data == q.objects[a].data
  IN  IF amount # 0 THEN ObjSetBalance(q, a, data.balance + amount)
      ELSE IF empty(data) THEN touch(q, a)
      ELSE q

SubBalance(d, a, amount) ==
  LET q == GetOrNewStateObject(d, a)
  IN  IF amount = 0 THEN q
      ELSE ObjSetBalance(q, a, q.objects[a].data.balance - amount)

SetNonce(d, a, n) ==
  LET q == GetOrNewStateObject(d, a)
  IN  [Journaled(q, [ch |-> "nonce", a |-> a, prev |-> q.objects[a].data.nonce])
         EXCEPT !.objects[a].data.nonce = n]

\* As SetCode not marking the code to be written.
SetCode_clean(d, a, c) ==
  LET q == GetOrNewStateObject(d, a)
  IN  [Journaled(q, [ch |-> "code", a |-> a, prev |-> q.objects[a].data.code])
         EXCEPT !.objects[a].data.code = c]

SetCode(d, a, c) ==
  LET q == GetOrNewStateObject(d, a)
  IN  [Journaled(q, [ch |-> "code", a |-> a, prev |-> q.objects[a].data.code])
         EXCEPT !.objects[a].data.code = c, !.objects[a].dirtyCode = TRUE]

SetState(d, a, k, v) ==
  LET q    == GetOrNewStateObject(d, a)
      prev == ObjState(q.objects[a], k)
      r    == [q EXCEPT !.objects[a] = Cached(@, k)]
  IN  IF prev = v THEN r
      ELSE [Journaled(r, [ch |-> "storage", a |-> a, key |-> k, prev |-> prev])
              EXCEPT !.objects[a].dirty[k] = v]

\* As Suicide not recorded in the journal.
Suicide_unjournaled(d, a) ==
  LET q == Load(d, a)
  IN  IF ~Exist(d, a) THEN d
      ELSE [q EXCEPT !.objects[a].suicided = TRUE, !.objects[a].data.balance = 0]

Suicide(d, a) ==
  LET q == Load(d, a)
      o == q.objects[a]
  IN  IF ~Exist(d, a) THEN d
      ELSE [Journaled(q, [ch |-> "suicide", a |-> a, prev |-> o.suicided,
                          prevbalance |-> o.data.balance])
              EXCEPT !.objects[a].suicided = TRUE, !.objects[a].data.balance = 0]

CreateAccount(d, a) ==
  LET q == createObject(d, a)
  IN  IF Exist(d, a)
      THEN [q EXCEPT !.objects[a].data.balance = getStateObject(d, a).data.balance]
      ELSE q

-----------------------------------------------------------------------------
(* Writing to the trie.                                                    *)

\* As Finalise writing empty accounts back.
Finalise_empty(d, del) ==
  LET one(q, a) ==
        LET o == q.objects[a]
            r == [q EXCEPT !.stateObjectsDirty = @ \cup {a}]
        IN  IF o = None THEN q
            ELSE IF o.suicided THEN deleteStateObject(r, a)
            ELSE updateStateObject([r EXCEPT !.objects[a] = updateTrie(@)], a)
  IN  clearJournalAndRefund(FoldLeft(one, d, SetToSeq(DirtyAccounts(d))))

Finalise(d, del) ==
  LET one(q, a) ==
        LET o == q.objects[a]
            r == [q EXCEPT !.stateObjectsDirty = @ \cup {a}]
        IN  IF o = None THEN q
            ELSE IF o.suicided \/ (del /\ empty(o.data)) THEN deleteStateObject(r, a)
            ELSE updateStateObject([r EXCEPT !.objects[a] = updateTrie(@)], a)
  IN  clearJournalAndRefund(FoldLeft(one, d, SetToSeq(DirtyAccounts(d))))

\* The code and the storage of an object go to the trie database.
CommitObject(d, a) ==
  LET o == updateTrie(d.objects[a])
  IN  updateStateObject(
        [d EXCEPT !.objects[a] = [o EXCEPT !.dirtyCode = FALSE],
                  !.blobs = IF o.dirtyCode /\ o.data.code # NoCode
                            THEN @ \cup {o.data.code} ELSE @,
                  !.stores = @ \cup {o.data.root}], a)

Commit(d, del) ==
  LET dirty == d.stateObjectsDirty \cup DirtyAccounts(d)
      live  == {a \in Accounts : d.objects[a] # None}
      one(q, a) ==
        LET o == q.objects[a]
        IN  IF o.suicided \/ (a \in dirty /\ del /\ empty(o.data)) THEN deleteStateObject(q, a)
            ELSE IF a \in dirty THEN CommitObject(q, a)
            ELSE q
      q == FoldLeft(one, d, SetToSeq(live))
  IN  clearJournalAndRefund([q EXCEPT !.stateObjectsDirty = dirty \ live, !.disk = q.trie,
                                       !.committed = TRUE])

\* A StateDB over the trie last committed.
New(d) ==
  [trie |-> d.disk, objects |-> [a \in Accounts |-> None], stateObjectsDirty |-> {},
   journal |-> <<>>, dirties |-> [a \in Accounts |-> 0], revisions |-> <<>>,
   nextRevisionId |-> 0, refund |-> 0, logs |-> 0, preimages |-> {}, txs |-> 0,
   ripemdTouched |-> FALSE,
   disk |-> d.disk, blobs |-> d.blobs, stores |-> d.stores, committed |-> FALSE]

\* As Copy taking only the accounts of the journal.
Copy_journal(d) ==
  [New(d) EXCEPT
     !.trie = d.trie, !.txs = d.txs, !.refund = d.refund, !.logs = d.logs, !.preimages = d.preimages,
     !.objects = [a \in Accounts |-> IF a \in DirtyAccounts(d) THEN d.objects[a] ELSE None],
     !.stateObjectsDirty = {a \in DirtyAccounts(d) : d.objects[a] # None}]

Copy(d) ==
  LET dirty == {a \in DirtyAccounts(d) : d.objects[a] # None} \cup d.stateObjectsDirty
  IN  [New(d) EXCEPT
         !.trie = d.trie, !.txs = d.txs, !.refund = d.refund, !.logs = d.logs, !.preimages = d.preimages,
         !.objects = [a \in Accounts |-> IF a \in dirty THEN d.objects[a] ELSE None],
         !.stateObjectsDirty = dirty]

-----------------------------------------------------------------------------
(* What can be read.                                                       *)

View(d) ==
  [accounts |-> [a \in Accounts |->
     LET o == getStateObject(d, a)
     IN  IF o = None THEN None
         ELSE [balance |-> o.data.balance, nonce |-> o.data.nonce, code |-> o.data.code,
               storage |-> [k \in Keys |-> ObjState(o, k)], suicided |-> o.suicided]],
   refund |-> d.refund, logs |-> d.logs, preimages |-> d.preimages]

-----------------------------------------------------------------------------
(* The operations.                                                         *)

\* A block starts over a trie whose code and storage are in the database.
Init ==
  \E b \in Blocks :
    LET data == {b.before} \ {None}
    IN  /\ deleteEmpty = b.deleteEmpty
        /\ touched = b.touched
        /\ db = New([disk |-> [a \in Accounts |-> IF a \in b.touched THEN b.before ELSE None],
                     blobs |-> {d.code : d \in data} \ {NoCode},
                     stores |-> {d.root : d \in data}])

Other(d) == Cardinality(touched) + d.refund + d.logs + Cardinality(d.preimages)

Step(d) ==
  /\ ~db.committed
  /\ db' = d
  /\ Len(d.journal) <= MaxJournal /\ Other(d) <= MaxOther
  /\ UNCHANGED <<deleteEmpty, touched>>

DoAddBalance ==
  \E a \in touched, x \in {0, 1} :
    /\ Exist(db, a) => getStateObject(db, a).data.balance + x <= MaxBalance
    /\ Step(AddBalance(db, a, x))

DoSubBalance ==
  \E a \in touched, x \in {0, 1} :
    /\ x > 0 => Exist(db, a) /\ getStateObject(db, a).data.balance >= x
    /\ Step(SubBalance(db, a, x))

DoSetBalance ==
  \E a \in touched, v \in 0 .. MaxBalance : Step(ObjSetBalance(GetOrNewStateObject(db, a), a, v))

DoSetNonce == \E a \in touched, n \in 1 .. MaxNonce : Step(SetNonce(db, a, n))

DoSetCode == \E a \in touched, c \in Codes : Step(SetCode(db, a, c))

DoSetState ==
  \E a \in touched, k \in Keys, v \in Values \cup {Zero} :
    Exist(db, a) /\ Step(SetState(db, a, k, v))

\* A read keeps what it loaded.
DoGetState ==
  \E a \in touched, k \in Keys :
    /\ Exist(db, a)
    /\ Step([Load(db, a) EXCEPT !.objects[a] = IF @.dirty[k] = NotCached THEN Cached(@, k) ELSE @])

DoSuicide == \E a \in touched : Step(Suicide(db, a))

\* The virtual machine creates an account over another one only when that
\* has no nonce and no code, and so no storage.
DoCreateAccount ==
  \E a \in touched :
    /\ Exist(db, a) => LET v == View(db).accounts[a]
                       IN  v.nonce = 0 /\ v.code = NoCode /\ v.storage = EmptyStorage
    /\ Step(CreateAccount(db, a))

AddRefund ==
  Step([Journaled(db, [ch |-> "refund", prev |-> db.refund]) EXCEPT !.refund = @ + 1])

SubRefund ==
  /\ db.refund > 0
  /\ Step([Journaled(db, [ch |-> "refund", prev |-> db.refund]) EXCEPT !.refund = @ - 1])

AddLog ==
  Step([Journaled(db, [ch |-> "log"]) EXCEPT !.logs = @ + 1])

AddPreimage ==
  \E h \in Preimages \ db.preimages :
    Step([Journaled(db, [ch |-> "preimage", hash |-> h]) EXCEPT !.preimages = @ \cup {h}])

Snapshot ==
  /\ db.nextRevisionId < MaxRevision
  /\ Step([db EXCEPT !.revisions = Append(@, [id |-> db.nextRevisionId,
                                             journalIndex |-> Len(db.journal)]),
                     !.nextRevisionId = @ + 1])

RevertToSnapshot ==
  \E i \in DOMAIN db.revisions :
    Step([RevertJournal(db, db.revisions[i].journalIndex)
            EXCEPT !.revisions = SubSeq(@, 1, i - 1)])

\* The end of a transaction, and the Prepare of the next.
DoFinalise ==
  db.txs < MaxTx /\ Step([Finalise(db, deleteEmpty) EXCEPT !.txs = @ + 1])

\* The callers finalise first, which drops the mark of a touched Ripemd that
\* is not there any more.
DoCommit ==
  /\ \A a \in DirtyAccounts(db) : db.objects[a] # None
  /\ Step(Commit(db, deleteEmpty))

\* The callers copy between transactions.
DoCopy == db.journal = <<>> /\ Step(Copy(db))

\* A committed state is given up: the next block opens another.
Done == db.committed /\ UNCHANGED vars

Next ==
  \/ DoAddBalance \/ DoSubBalance \/ DoSetBalance \/ DoSetNonce \/ DoSetCode \/ DoSetState \/ DoGetState
  \/ DoSuicide \/ DoCreateAccount
  \/ AddRefund \/ SubRefund \/ AddLog \/ AddPreimage
  \/ Snapshot \/ RevertToSnapshot \/ DoFinalise \/ DoCommit \/ DoCopy \/ Done

Spec == Init /\ [][Next]_vars

-----------------------------------------------------------------------------
(* Properties.                                                             *)

Object ==
  [data : Account, origin : [Keys -> Values \cup {Zero, NotCached}],
   dirty : [Keys -> Values \cup {Zero, NotCached}],
   dirtyCode : BOOLEAN, suicided : BOOLEAN, deleted : BOOLEAN]

\* The fields hold what their types say, the revisions are ordered, and the
\* objects marked dirty are there: Copy would dereference nil otherwise.
TypeOK ==
  /\ db.trie \in [Accounts -> Account \cup {None}]
  /\ db.objects \in [Accounts -> Object \cup {None}]
  /\ \A a \in db.stateObjectsDirty : db.objects[a] # None
  /\ db.dirties \in [Accounts -> Nat]
  /\ \A i, j \in DOMAIN db.revisions : i < j =>
       /\ db.revisions[i].id < db.revisions[j].id
       /\ db.revisions[i].journalIndex <= db.revisions[j].journalIndex
  /\ \A i \in DOMAIN db.revisions : db.revisions[i].journalIndex <= Len(db.journal)
  /\ db.refund \in Nat /\ db.logs \in Nat /\ db.preimages \subseteq Preimages

\* While there is nothing to undo the trie holds exactly what can be read:
\* every change that was kept made its account dirty, and was written
\* (journal.dirties, Finalise, Commit).
TrieIsView ==
  db.journal = <<>> =>
    \A a \in Accounts :
      LET o == getStateObject(db, a)
      IN  IF o = None THEN db.trie[a] = None
          ELSE db.trie[a] = [o.data EXCEPT !.root = [k \in Keys |-> ObjState(o, k)]]

\* Objects, dirty marks and trie agree (Finalise, Commit, createObject).
TrieExact == TypeOK /\ TrieIsView

\* The code and the storage of every committed account are in the trie
\* database (Commit, CommitTrie).
CommitComplete ==
  \A a \in Accounts :
    db.disk[a] # None =>
      /\ db.disk[a].root \in db.stores
      /\ db.disk[a].code \in db.blobs \cup {NoCode}

\* The accounts a transaction changed or touched: those with an entry that was
\* not undone, and Ripemd after any touch.
Changed(d, a) ==
  \/ \E i \in DOMAIN d.journal : Dirties(d.journal[i]) /\ d.journal[i].a = a
  \/ a = Ripemd /\ d.ripemdTouched

\* The end of a transaction takes away the suicided accounts and, where the
\* rules say so, the empty ones that it changed or touched, Ripemd also when
\* the touch was undone; the commit also takes the empty ones changed before,
\* as Copy passes them on.  The rest of what can be read stays as it is
\* (Finalise, Commit, touch).
FinaliseKeeps ==
  [][db'.txs > db.txs \/ db'.committed =>
       \A a \in Accounts :
         LET v       == View(db).accounts[a]
             changed == Changed(db, a) \/ (db'.committed /\ a \in db.stateObjectsDirty)
             gone    == v # None /\ (v.suicided \/ (deleteEmpty /\ empty(v) /\ changed))
         IN  View(db)'.accounts[a] = IF gone THEN None ELSE v]_vars

\* A copy reads the same, and commits to the same state with the same code
\* and storage in the trie database (Copy, deepCopy).
CopySame ==
  LET written(d) == LET c == Commit(d, deleteEmpty) IN <<c.disk, c.blobs, c.stores>>
  IN  /\ View(Copy(db)) = View(db)
      /\ (\A a \in DirtyAccounts(db) : db.objects[a] # None) =>
           written(Copy(db)) = written(db)

ViewType ==
  [accounts : [Accounts -> {None} \cup
      [balance : 0 .. MaxBalance, nonce : 0 .. MaxNonce, code : Codes \cup {NoCode},
       storage : Storage, suicided : BOOLEAN]],
   refund : 0 .. MaxOther, logs : 0 .. MaxOther, preimages : SUBSET Preimages]

\* Undoing the journal down to a revision gives the copy that the revision
\* stands for (the singleton has TLC undo it once).
Copies ==
  [i \in DOMAIN db.revisions |->
     [id |-> db.revisions[i].id,
      copy |-> CHOOSE v \in {View(d) : d \in {RevertJournal(db, db.revisions[i].journalIndex)}} : TRUE]]

Stack == INSTANCE StateStack WITH States <- ViewType, now <- View(db), copies <- Copies

\* The journal implements a stack of copies: a revert brings back exactly what
\* could be read at the snapshot, whatever was created, reset, written or
\* destroyed since (RevertToSnapshot, journal.revert).
SnapshotsAreCopies == Stack!Spec

=============================================================================
