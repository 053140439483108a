----------------------------- MODULE TrieDatabase -----------------------------
(***************************************************************************)
(* The trie nodes kept in memory and on disk (trie/database.go).           *)
(*                                                                         *)
(* A node is written to memory first, where nodes are counted by the nodes *)
(* that refer to them.  A state root is referred to by the meta root for   *)
(* as long as the chain wants it; when that ends, what only it needs is    *)
(* dropped.  Nodes also go to disk: oldest first when memory is short      *)
(* (Cap), or a whole trie (Commit).  Disk is never cleaned, and its nodes  *)
(* are not counted: a node may be on disk only, in memory only, or both.   *)
(*                                                                         *)
(* Database is one record; each method is an operator from the Database it *)
(* finds to the one it leaves.  A hash stands for the node that has it, so *)
(* what a node contains never changes.                                     *)
(***************************************************************************)
EXTENDS Naturals, FiniteSets, SequencesExt

CONSTANTS
  Nodes,           \* hashes of trie nodes and of code
  Encoded,         \* Encoded[n]: the hashes in node n, in order
  Accounts,        \* Accounts[n]: storage roots and code of the accounts in n
  Roots,           \* the state roots
  NoHash,          \* the zero hash: the meta root, and the end of the list
  MaxReferences    \* bound on the references held by the meta root

VARIABLES
  db,              \* the Database
  disk,            \* nodes on disk
  op               \* the Cap or Commit under way, if any

vars == <<db, disk, op>>

Below(n) == ToSet(Encoded[n]) \cup Accounts[n]

\* Everything a node needs, itself included.
RECURSIVE Trie(_)
Trie(n) == {n} \cup UNION {Trie(m) : m \in Below(n)}

Cached(d) == DOMAIN d.dirties

NewDatabase ==
  [dirties |-> <<>>, roots |-> [n \in Nodes |-> 0],
   oldest |-> NoHash, newest |-> NoHash, dirtiesSize |-> 0]

-----------------------------------------------------------------------------
(* Nodes and references.                                                   *)

\* As childs without the storage and the code of accounts.
childs_encoded(d, n) == Encoded[n]

childs(d, n) == SetToSeq(d.dirties[n].children) \o Encoded[n]

\* As Times counting a child once.
Times_once(seq, n) == IF Contains(seq, n) THEN 1 ELSE 0

Times(seq, n) == Cardinality({i \in DOMAIN seq : seq[i] = n})

\* The children that are in memory are counted; the node goes to the end of
\* the flush list.
insert(d, n) ==
  IF n \in Cached(d) THEN d
  ELSE LET entry(m) ==
             IF m = n
             THEN [parents |-> 0, children |-> {}, flushPrev |-> d.newest, flushNext |-> NoHash]
             ELSE [d.dirties[m] EXCEPT
                     !.parents = @ + Times(Encoded[n], m),
                     !.flushNext = IF d.oldest # NoHash /\ m = d.newest THEN n ELSE @]
       IN  [d EXCEPT !.dirties = [m \in Cached(d) \cup {n} |-> entry(m)],
                     !.oldest = IF @ = NoHash THEN n ELSE @,
                     !.newest = n, !.dirtiesSize = @ + 1]

\* A reference to a node that is on disk only is not kept; the meta root may
\* refer to a node several times.
reference(d, child, parent) ==
  IF \/ child \notin Cached(d)
     \/ parent # NoHash /\ child \in d.dirties[parent].children
  THEN d
  ELSE LET q == [d EXCEPT !.dirties[child].parents = @ + 1]
       IN  IF parent = NoHash THEN [q EXCEPT !.roots[child] = @ + 1]
           ELSE [q EXCEPT !.dirties[parent].children = @ \cup {child}]

SetPrev(d, n, h) == IF n = NoHash THEN d ELSE [d EXCEPT !.dirties[n].flushPrev = h]

SetNext(d, n, h) == IF n = NoHash THEN d ELSE [d EXCEPT !.dirties[n].flushNext = h]

\* As Unlink leaving the end of the list where it was.
Unlink_newest(d, n) ==
  LET node == d.dirties[n]
  IN  IF n = d.oldest
      THEN SetPrev([d EXCEPT !.oldest = node.flushNext], node.flushNext, NoHash)
      ELSE SetPrev(SetNext(d, node.flushPrev, node.flushNext), node.flushNext, node.flushPrev)

\* A node is taken out of the flush list.
Unlink(d, n) ==
  LET node == d.dirties[n]
  IN  CASE n = d.oldest ->
             SetPrev([d EXCEPT !.oldest = node.flushNext], node.flushNext, NoHash)
        [] n # d.oldest /\ n = d.newest ->
             SetNext([d EXCEPT !.newest = node.flushPrev], node.flushPrev, NoHash)
        [] OTHER ->
             SetPrev(SetNext(d, node.flushPrev, node.flushNext), node.flushNext, node.flushPrev)

\* As Delete without the size.
Delete_size(d, n) == [d EXCEPT !.dirties = Restrict(@, DOMAIN @ \ {n})]

Delete(d, n) ==
  [d EXCEPT !.dirties = Restrict(@, DOMAIN @ \ {n}), !.dirtiesSize = @ - 1]

\* What the loss of a reference leaves of the referrer's side.
Unreferenced(d, child, parent) ==
  IF parent = NoHash
  THEN [d EXCEPT !.roots[child] = IF @ > 0 THEN @ - 1 ELSE 0]
  ELSE [d EXCEPT !.dirties[parent].children = @ \ {child}]

\* A node without references is dropped, and its own references with it.
RECURSIVE dereference(_, _, _)
dereference(d, child, parent) ==
  LET q == Unreferenced(d, child, parent)
      r == [q EXCEPT !.dirties[child].parents = IF @ > 0 THEN @ - 1 ELSE 0]
      drop(s, k) == dereference(s, k, child)
  IN  IF child \notin Cached(d) THEN q
      ELSE IF r.dirties[child].parents > 0 THEN r
      ELSE Delete(FoldLeft(drop, Unlink(r, child), childs(r, child)), child)

\* What is on disk leaves memory, children included.
RECURSIVE uncache(_, _)
uncache(d, n) ==
  IF n \notin Cached(d) THEN d
  ELSE Delete(FoldLeft(uncache, Unlink(d, n), childs(d, n)), n)

\* The nodes in the order of the flush list, oldest first.
FlushList(d) ==
  LET at[i \in 1 .. Cardinality(Cached(d))] ==
        IF i = 1 THEN d.oldest
        ELSE IF at[i - 1] \in Cached(d) THEN d.dirties[at[i - 1]].flushNext
        ELSE NoHash
  IN  at

-----------------------------------------------------------------------------
(* The state of a block is written: Commit of StateDB, which inserts the   *)
(* nodes its tries changed, children first, storage and code before the    *)
(* accounts, and then refers to the root.                                  *)

\* What the hasher may store for root r over the state p: all that p does not
\* have, and what was changed and changed back.
Stored(p, r) ==
  {s \in SUBSET Trie(r) :
     /\ r \in s
     /\ Trie(r) \ Trie(p) \subseteq s
     /\ \A n \in s \ {r} : \E m \in s : n \in Below(m)}

RECURSIVE InsertTrie(_, _, _)
InsertTrie(d, n, stored) ==
  LET insertChild(q, m) == InsertTrie(q, m, stored)
      refer(q, c) == reference(q, c, n)
      q == insert(FoldLeft(insertChild, d, Encoded[n]), n)
  IN  IF n \notin stored THEN d
      ELSE FoldLeft(refer, q, SetToSeq(Accounts[n]))

WriteState(d, r, stored) ==
  LET outside == UNION {Accounts[n] : n \in stored} \cap stored
      insertOutside(q, n) == InsertTrie(q, n, stored)
  IN  reference(InsertTrie(FoldLeft(insertOutside, d, SetToSeq(outside)), r, stored), r, NoHash)

-----------------------------------------------------------------------------
(* Steps.  The chain calls one method at a time; Cap and Commit write in   *)
(* batches and drop from memory once everything is written, and the node   *)
(* may die or a write fail in between.                                     *)

Idle == [kind |-> "idle"]

Init == db = NewDatabase /\ disk = {} /\ op = Idle

\* A state that can be opened, or the empty one.
Parents == {p \in Roots : p \in Cached(db) \cup disk}

Held(d) == SumFunction(d.roots)

Block ==
  /\ op = Idle
  /\ Held(db) < MaxReferences
  /\ \E r \in Roots :
       \E s \in UNION {Stored(p, r) : p \in Parents} \cup {Trie(r)} :
         db' = WriteState(db, r, s)
  /\ UNCHANGED <<disk, op>>

Dereference ==
  /\ op = Idle
  /\ \E r \in Roots :
       db.roots[r] > 0 /\ db' = dereference(db, r, NoHash)
  /\ UNCHANGED <<disk, op>>

\* The nodes Cap writes to get below its limit.
Cap ==
  /\ op = Idle
  /\ \E k \in 1 .. Cardinality(Cached(db)) :
       LET nodes == SubSeq(FlushList(db), 1, k)
       IN  op' = [kind |-> "cap", todo |-> nodes, nodes |-> nodes]
  /\ UNCHANGED <<db, disk>>

\* As commit writing a node before its children.
RECURSIVE commit_first(_, _)
commit_first(d, n) ==
  LET child(s, m) == s \o commit_first(d, m)
  IN  IF n \notin Cached(d) THEN <<>> ELSE FoldLeft(child, <<n>>, childs(d, n))

\* The nodes Commit writes: what is in memory of a trie, children first.
RECURSIVE commit(_, _)
commit(d, n) ==
  LET child(s, m) == s \o commit(d, m)
  IN  IF n \notin Cached(d) THEN <<>> ELSE Append(FoldLeft(child, <<>>, childs(d, n)), n)

Commit ==
  /\ op = Idle
  /\ \E r \in Roots :
       /\ db.roots[r] > 0
       /\ op' = [kind |-> "commit", todo |-> commit(db, r), root |-> r]
  /\ UNCHANGED <<db, disk>>

\* As WriteBatch leaving the last node of a batch out.
WriteBatch_short ==
  /\ op # Idle
  /\ \E k \in 1 .. Len(op.todo) :
       /\ disk' = disk \cup ToSet(SubSeq(op.todo, 1, k - 1))
       /\ op' = [op EXCEPT !.todo = SubSeq(@, k + 1, Len(@))]
  /\ UNCHANGED db

\* A batch reaches its size, or is the last.
WriteBatch ==
  /\ op # Idle
  /\ \E k \in 1 .. Len(op.todo) :
       /\ disk' = disk \cup ToSet(SubSeq(op.todo, 1, k))
       /\ op' = [op EXCEPT !.todo = SubSeq(@, k + 1, Len(@))]
  /\ UNCHANGED db

WriteFails == op # Idle /\ op.todo # <<>> /\ op' = Idle /\ UNCHANGED <<db, disk>>

\* What was written is dropped from memory.
Flushed(d, nodes) ==
  LET drop(q, n) == Delete([q EXCEPT !.oldest = q.dirties[n].flushNext], n)
      q == FoldLeft(drop, d, nodes)
  IN  SetPrev(q, q.oldest, NoHash)

Drop ==
  /\ op # Idle
  /\ op.todo = <<>>
  /\ db' = IF op.kind = "cap" THEN Flushed(db, op.nodes) ELSE uncache(db, op.root)
  /\ op' = Idle
  /\ UNCHANGED disk

\* The node dies and starts again: memory is lost.
Crash == db' = NewDatabase /\ op' = Idle /\ UNCHANGED disk

Next == Block \/ Dereference \/ Cap \/ Commit \/ WriteBatch \/ WriteFails \/ Drop \/ Crash

Spec == Init /\ [][Next]_vars

-----------------------------------------------------------------------------
(* Properties.                                                             *)

\* The fields hold what their types say, and the size that decides when Cap
\* runs is that of the nodes in memory.
TypeOK ==
  /\ Cached(db) \subseteq Nodes /\ disk \subseteq Nodes
  /\ db.dirties \in [Cached(db) -> [parents : Nat, children : SUBSET Nodes,
                                    flushPrev : Nodes \cup {NoHash},
                                    flushNext : Nodes \cup {NoHash}]]
  /\ db.roots \in [Nodes -> Nat]
  /\ db.dirtiesSize = Cardinality(Cached(db))

\* The flush list goes through every node in memory, both ways, whatever was
\* dropped from its ends or its middle (insert, dereference, uncache, Cap).
FlushListExact ==
  LET list == FlushList(db)
      n    == Len(list)
  IN  /\ ToSet(list) = Cached(db)
      /\ n = 0 => db.oldest = NoHash
      /\ n > 0 => db.newest = list[n] /\ db.dirties[list[n]].flushNext = NoHash
      /\ \A i \in 2 .. n : db.dirties[list[i]].flushPrev = list[i - 1]

\* The cache, its size and its list agree (insert, dereference, uncache, Cap).
ListExact == TypeOK /\ FlushListExact

\* The references to n that there are in memory.
Referrers(n) ==
  db.roots[n]
  + SumFunction([m \in Cached(db) |->
      Cardinality({i \in DOMAIN Encoded[m] : Encoded[m][i] = n}) + (IF n \in db.dirties[m].children THEN 1 ELSE 0)])

\* A node that is only in memory is counted exactly; one that is on disk as
\* well may be counted too seldom or too often (insert, reference, dereference).
CountsExact ==
  \A n \in Cached(db) \ disk : db.dirties[n].parents = Referrers(n)

\* Every node of a state that is referred to can be read at every moment, also
\* between the write and the drop of Cap and Commit (dereference, uncache).
Available ==
  \A r \in Roots : db.roots[r] > 0 => Trie(r) \subseteq Cached(db) \cup disk

\* What a node on disk needs is on disk too, in the middle of a write and after
\* a crash: a root on disk is enough to take the state as complete (HasState).
DiskClosed == \A n \in disk : Trie(n) \subseteq disk

\* A node that no state referred to needs stays in memory only when it is on
\* disk as well, where nothing is lost (dereference, verifyIntegrity).
NoLeak ==
  \A n \in Cached(db) \ disk : \E r \in Roots : db.roots[r] > 0 /\ n \in Trie(r)

\* Nodes that are only in memory are counted right, and go with the last state
\* that needs them (reference, dereference).
ReferencesExact == CountsExact /\ NoLeak

=============================================================================
