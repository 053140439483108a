------------------------- MODULE BlockFetcherProofs -------------------------
(***************************************************************************)
(* For every set of peers and blocks and every limit: no block is imported  *)
(* twice at once, no block is in two stages of retrieval at once, nothing   *)
(* waits without a timer, and an honest peer is never dropped.              *)
(*                                                                         *)
(* The inductive invariant says, block by block, what its entries in the    *)
(* maps may be together (NoteInv), relates the queue with the imports       *)
(* (QueueInv), and records what the packet being worked on guarantees       *)
(* (BatchInv).  Every trace of a block vouches for it: if it comes from an  *)
(* honest peer the block is valid and has the number announced.             *)
(***************************************************************************)
EXTENDS BlockFetcher, FiniteSetTheorems, TLAPS

Vouch(b, a) == a.origin \in Honest => b \in Valid /\ a.number = Number[b]

GoodSeq(b, s) == s \in Seq(announce) /\ \A i \in DOMAIN s : Vouch(b, s[i])

GoodOne(b, a) == a = None \/ (a \in announce /\ Vouch(b, a))

NoteOK(b, an, fg, fd, co) ==
  /\ GoodSeq(b, an) /\ GoodOne(b, fg) /\ GoodSeq(b, fd) /\ GoodOne(b, co)
  /\ an # << >> => fg = None /\ fd = << >> /\ co = None
  /\ co # None => co.header /\ fd = << >>
  /\ fd # << >> => fg # None
  /\ \A i \in DOMAIN fd : fd[i].header

NoteType ==
  /\ announced \in [Blocks -> Seq(announce)] /\ fetched \in [Blocks -> Seq(announce)]
  /\ fetching \in [Blocks -> announce \cup {None}]
  /\ completing \in [Blocks -> announce \cup {None}]

NoteInv ==
  NoteType /\ \A b \in Blocks : NoteOK(b, announced[b], fetching[b], fetched[b], completing[b])

BatchInv ==
  /\ batch \subseteq Nat \X Blocks
  /\ pc = "reply" => \A b \in Blocks : (\E e \in batch : e[2] = b) =>
                       completing[b] # None \/ (fetching[b] # None /\ fetching[b].header)

QueueType ==
  /\ queue \subseteq Blocks /\ queued \in [Blocks -> inject \cup {None}]
  /\ queues \in [Peers -> Int] /\ imports \subseteq import

HonestQueue ==
  /\ \A b \in Blocks : queued[b] # None => (queued[b].origin \in Honest => b \in Valid)
  /\ \A r \in imports : r.origin \in Honest => r.hash \in Valid

QueuedOf(p) == {b \in Blocks : queued[b] # None /\ queued[b].origin = p}

Allowance ==
  \A p \in Peers : queues[p] = Cardinality(QueuedOf(p)) /\ queues[p] <= blockLimit

QueueInv == QueueType /\ ImportedOnce /\ HonestQueue /\ Allowance

IInv == NoteInv /\ BatchInv /\ QueueInv /\ TimersArmed /\ HonestKept

-----------------------------------------------------------------------------
(* A block with no entry in any map satisfies the condition on its entries. *)
LEMMA NoNote ==
  ASSUME NEW b \in Blocks
  PROVE  NoteOK(b, << >>, None, << >>, None)
<1>1. GoodSeq(b, << >>)
  BY DEF GoodSeq
<1>2. GoodOne(b, None)
  BY Zenon DEF GoodOne
<1> QED
  BY <1>1, <1>2 DEF NoteOK

(***************************************************************************)
(* A step that takes some blocks out of every map and leaves the others     *)
(* alone preserves the note invariant and lets nothing new wait.            *)
(***************************************************************************)
LEMMA ForgetInv ==
  ASSUME NoteInv, NEW H \in SUBSET Blocks, forgetHash(H)
  PROVE  /\ NoteInv'
         /\ Pending(announced') \subseteq Pending(announced)
         /\ Pending(fetched') \subseteq Pending(fetched)
         /\ \A b \in Blocks \ H : fetching'[b] = fetching[b] /\ completing'[b] = completing[b]
<1>1. \A b \in Blocks : b \in H =>
        announced'[b] = << >> /\ fetching'[b] = None /\ fetched'[b] = << >> /\ completing'[b] = None
  BY DEF forgetHash, Clear
<1>2. \A b \in Blocks : b \notin H =>
        /\ announced'[b] = announced[b] /\ fetching'[b] = fetching[b]
        /\ fetched'[b] = fetched[b] /\ completing'[b] = completing[b]
  BY DEF forgetHash, Clear
<1>3. NoteType'
  <2>1. announced' \in [Blocks -> Seq(announce)]
    BY DEF NoteInv, NoteType, forgetHash, Clear
  <2>2. fetched' \in [Blocks -> Seq(announce)]
    BY DEF NoteInv, NoteType, forgetHash, Clear
  <2>3. fetching' \in [Blocks -> announce \cup {None}]
    BY DEF NoteInv, NoteType, forgetHash, Clear
  <2>4. completing' \in [Blocks -> announce \cup {None}]
    BY DEF NoteInv, NoteType, forgetHash, Clear
  <2> QED
    BY <2>1, <2>2, <2>3, <2>4, Zenon DEF NoteType
<1>4. ASSUME NEW b \in Blocks
      PROVE  NoteOK(b, announced'[b], fetching'[b], fetched'[b], completing'[b])
  <2>1. CASE b \in H
    BY <2>1, <1>1, NoNote, Zenon
  <2>2. CASE b \notin H
    BY <2>2, <1>2, Zenon DEF NoteInv
  <2> QED
    BY <2>1, <2>2
<1>5. NoteInv'
  BY <1>3, <1>4, Zenon DEF NoteInv
<1>6. Pending(announced') \subseteq Pending(announced) /\ Pending(fetched') \subseteq Pending(fetched)
  BY <1>1, <1>2, Zenon DEF Pending
<1> QED
  BY <1>2, <1>5, <1>6, Zenon

(* Removing entries keeps what waits on its timer. *)
LEMMA FewerWait ==
  ASSUME TimersArmed, UNCHANGED timerVars,
         Pending(announced') \subseteq Pending(announced),
         Pending(fetched') \subseteq Pending(fetched)
  PROVE  TimersArmed'
BY Zenon DEF TimersArmed, timerVars, Pending

(* Nothing about the notes changes when their variables do not. *)
LEMMA NotesKept ==
  ASSUME NoteInv, UNCHANGED noteVars
  PROVE  /\ NoteInv'
         /\ Pending(announced') \subseteq Pending(announced)
         /\ Pending(fetched') \subseteq Pending(fetched)
         /\ fetching' = fetching /\ completing' = completing
BY Zenon DEF NoteInv, NoteType, noteVars

(* Nothing about the queue changes when its variables and the imports do not. *)
LEMMA QueueKept ==
  ASSUME QueueInv, UNCHANGED <<queueVars, imports>>
  PROVE  QueueInv'
<1>1. queue' = queue /\ queued' = queued /\ queues' = queues /\ imports' = imports
  BY Zenon DEF queueVars
<1>2. QueueType' /\ ImportedOnce' /\ HonestQueue'
  BY <1>1, Zenon DEF QueueInv, QueueType, ImportedOnce, HonestQueue
<1>3. \A p \in Peers : QueuedOf(p)' = QueuedOf(p)
  BY <1>1, Zenon DEF QueuedOf
<1>4. Allowance'
  BY <1>1, <1>3, Zenon DEF QueueInv, Allowance
<1> QED
  BY <1>2, <1>4, Zenon DEF QueueInv

(***************************************************************************)
(* enqueue keeps both invariants, if the block may come from that peer.     *)
(***************************************************************************)
LEMMA EnqueueInv ==
  ASSUME NoteInv, QueueInv, NEW p \in Peers, NEW b \in Blocks, NEW good \in BOOLEAN,
         p \in Honest => b \in Valid,
         UNCHANGED imports, enqueue(p, b, good)
  PROVE  /\ NoteInv' /\ QueueInv'
         /\ Pending(announced') \subseteq Pending(announced)
         /\ Pending(fetched') \subseteq Pending(fetched)
<1>1. CASE forgetHash({b}) /\ UNCHANGED queueVars
  BY <1>1, ForgetInv, QueueKept, Zenon
<1>2. CASE UNCHANGED noteVars /\ UNCHANGED queueVars
  BY <1>2, NotesKept, QueueKept, Zenon
<1>3. CASE /\ UNCHANGED noteVars /\ queued[b] = None /\ ~(queues[p] + 1 > blockLimit)
           /\ queues' = [queues EXCEPT ![p] = @ + 1]
           /\ queued' = [queued EXCEPT ![b] = [origin |-> p, good |-> good]]
           /\ queue' = queue \cup {b}
  <2> DEFINE new == [origin |-> p, good |-> good]
  <2>1. new \in inject /\ new.origin = p
    BY DEF inject
  <2>2. new # None
    BY <2>1, NoneAssumption, Zenon
  <2>3. QueueType'
    <3>1. queues' \in [Peers -> Int]
      BY <1>3 DEF QueueInv, QueueType
    <3>2. queued' \in [Blocks -> inject \cup {None}]
      BY <1>3, <2>1 DEF QueueInv, QueueType
    <3> QED
      BY <1>3, <3>1, <3>2, Zenon DEF QueueInv, QueueType
  <2> HIDE DEF new
  <2>4. \A c \in Blocks : queued'[c] = IF c = b THEN new ELSE queued[c]
    BY <1>3 DEF QueueInv, QueueType, new
  <2>5. b \notin queue /\ \A r \in imports : r.hash # b
    BY <1>3, Zenon DEF QueueInv, ImportedOnce
  <2>6. ImportedOnce'
    <3>1. ASSUME NEW c \in Blocks
          PROVE  queued'[c] # None <=> (c \in queue' \/ \E r \in imports' : r.hash = c)
      <4>1. CASE c = b
        BY <4>1, <2>4, <2>2, <1>3, Zenon
      <4>2. CASE c # b
        BY <4>2, <2>4, <1>3, Zenon DEF QueueInv, ImportedOnce
      <4> QED
        BY <4>1, <4>2
    <3>2. \A r \in imports' : r.hash \notin queue'
      BY <1>3, <2>5, Zenon DEF QueueInv, ImportedOnce
    <3>3. \A r, s \in imports' : r.hash = s.hash => r = s
      BY Zenon DEF QueueInv, ImportedOnce
    <3> QED
      BY <3>1, <3>2, <3>3, Zenon DEF ImportedOnce
  <2>7. HonestQueue'
    BY <2>1, <2>4, Zenon DEF QueueInv, HonestQueue
  <2>8. queues[p] + 1 <= blockLimit
    <3>1. queues[p] \in Int /\ blockLimit \in Int
      BY FetcherAssumption DEF QueueInv, QueueType
    <3> QED
      BY <1>3, <3>1
  <2>9. Allowance'
    <3> SUFFICES ASSUME NEW q \in Peers
                 PROVE  queues'[q] = Cardinality(QueuedOf(q)') /\ queues'[q] <= blockLimit
      BY Zenon DEF Allowance
    <3>1. queues[q] = Cardinality(QueuedOf(q)) /\ queues[q] <= blockLimit /\ queues[q] \in Int
      BY DEF QueueInv, Allowance, QueueType
    <3>2. CASE q # p
      <4>1. QueuedOf(q)' = QueuedOf(q)
        BY <3>2, <1>3, <2>1, <2>4, Zenon DEF QueuedOf
      <4>2. queues'[q] = queues[q]
        BY <3>2, <1>3 DEF QueueInv, QueueType
      <4> QED
        BY <3>1, <4>1, <4>2, Zenon
    <3>3. CASE q = p
      <4>1. QueuedOf(q)' = QueuedOf(q) \cup {b}
        BY <3>3, <1>3, <2>1, <2>2, <2>4, Zenon DEF QueuedOf
      <4>2. b \notin QueuedOf(q) /\ IsFiniteSet(QueuedOf(q))
        BY <1>3, FetcherAssumption, FS_Subset, Zenon DEF QueuedOf
      <4>3. Cardinality(QueuedOf(q)') = Cardinality(QueuedOf(q)) + 1
        BY <4>1, <4>2, FS_AddElement, Zenon
      <4>4. queues'[q] = queues[q] + 1
        BY <3>3, <1>3 DEF QueueInv, QueueType
      <4> QED
        BY <3>1, <3>3, <4>3, <4>4, <2>8, Zenon
    <3> QED
      BY <3>2, <3>3
  <2> QED
    BY <1>3, <2>3, <2>6, <2>7, <2>9, NotesKept, Zenon DEF QueueInv
<1> QED
  BY <1>1, <1>2, <1>3, Zenon DEF enqueue

(***************************************************************************)
(* forgetBlock after the block has left the queue and its import.           *)
(***************************************************************************)
LEMMA ForgetBlockInv ==
  ASSUME QueueInv, NEW b \in Blocks, forgetBlock(b),
         queue' = queue \ {b}, imports' = {r \in imports : r.hash # b}
  PROVE  QueueInv'
<1>1. \A c \in Blocks : queued'[c] = IF c = b THEN None ELSE queued[c]
  BY DEF QueueInv, QueueType, forgetBlock
<1>2. queued' \in [Blocks -> inject \cup {None}]
  BY DEF QueueInv, QueueType, forgetBlock
<1>3. queues' \in [Peers -> Int]
  <2>1. CASE queued[b] = None
    BY <2>1 DEF QueueInv, QueueType, forgetBlock
  <2>2. CASE queued[b] # None
    <3>1. queued[b] \in inject
      BY <2>2 DEF QueueInv, QueueType
    <3>2. queued[b].origin \in Peers
      BY <3>1 DEF inject
    <3>3. queues' = [queues EXCEPT ![queued[b].origin] = @ - 1]
      BY <2>2, Zenon DEF forgetBlock
    <3> QED
      BY <3>2, <3>3 DEF QueueInv, QueueType
  <2> QED
    BY <2>1, <2>2
<1>7. QueueType'
  BY <1>2, <1>3, Zenon DEF QueueInv, QueueType
<1>4. ASSUME NEW c \in Blocks
      PROVE  queued'[c] # None <=> (c \in queue' \/ \E r \in imports' : r.hash = c)
  <2>1. CASE c = b
    BY <2>1, <1>1, Zenon
  <2>2. CASE c # b
    <3>1. queued'[c] = queued[c] /\ (c \in queue' <=> c \in queue)
      BY <2>2, <1>1, Zenon
    <3>2. (\E r \in imports' : r.hash = c) <=> (\E r \in imports : r.hash = c)
      BY <2>2, Zenon
    <3> QED
      BY <3>1, <3>2, Zenon DEF QueueInv, ImportedOnce
  <2> QED
    BY <2>1, <2>2
<1>5. ImportedOnce'
  BY <1>4, Zenon DEF QueueInv, ImportedOnce
<1>6. HonestQueue'
  BY <1>1, Zenon DEF QueueInv, HonestQueue
<1>8. Allowance'
  <2> SUFFICES ASSUME NEW q \in Peers
               PROVE  queues'[q] = Cardinality(QueuedOf(q)') /\ queues'[q] <= blockLimit
    BY Zenon DEF Allowance
  <2>1. queues[q] = Cardinality(QueuedOf(q)) /\ queues[q] <= blockLimit /\ queues[q] \in Int
    BY DEF QueueInv, Allowance, QueueType
  <2>2. CASE b \notin QueuedOf(q)
    <3>1. QueuedOf(q)' = QueuedOf(q)
      BY <2>2, <1>1, Zenon DEF QueuedOf
    <3>2. queues'[q] = queues[q]
      BY <2>2 DEF QueueInv, QueueType, forgetBlock, QueuedOf
    <3> QED
      BY <2>1, <3>1, <3>2, Zenon
  <2>3. CASE b \in QueuedOf(q)
    <3>1. QueuedOf(q)' = QueuedOf(q) \ {b}
      BY <2>3, <1>1, Zenon DEF QueuedOf
    <3>2. IsFiniteSet(QueuedOf(q))
      BY FetcherAssumption, FS_Subset, Zenon DEF QueuedOf
    <3>3. Cardinality(QueuedOf(q)') = Cardinality(QueuedOf(q)) - 1
      BY <3>1, <3>2, <2>3, FS_RemoveElement, Zenon
    <3>4. queues'[q] = queues[q] - 1
      BY <2>3 DEF QueueInv, QueueType, forgetBlock, QueuedOf
    <3>5. blockLimit \in Int
      BY FetcherAssumption
    <3>6. queues[q] - 1 <= blockLimit
      BY <2>1, <3>5
    <3> QED
      BY <2>1, <3>3, <3>4, <3>6, Zenon
  <2> QED
    BY <2>2, <2>3
<1> QED
  BY <1>5, <1>6, <1>7, <1>8, Zenon DEF QueueInv

(* An import that moves to its next stage stays the import of its block. *)
LEMMA AdvanceInv ==
  ASSUME QueueInv, NEW r \in imports, NEW st \in {"parent", "verify", "insert", "done"},
         Advance(r, st), UNCHANGED queueVars
  PROVE  QueueInv'
<1> DEFINE n == [r EXCEPT !.stage = st]
<1>1. r \in import
  BY Zenon DEF QueueInv, QueueType
<1>2. n \in import /\ n.hash = r.hash /\ n.origin = r.origin
  BY <1>1 DEF import
<1> HIDE DEF n
<1>3. imports' = (imports \ {r}) \cup {n}
  BY Zenon DEF Advance, n
<1>4. queue' = queue /\ queued' = queued /\ queues' = queues
  BY Zenon DEF queueVars
<1>5. QueueType' /\ HonestQueue'
  BY <1>2, <1>3, <1>4, Zenon DEF QueueInv, QueueType, HonestQueue
<1>6. ImportedOnce'
  <2>1. \A b \in Blocks : (\E q \in imports' : q.hash = b) <=> (\E q \in imports : q.hash = b)
    BY <1>2, <1>3, Zenon
  <2>2. \A b \in Blocks : queued'[b] # None <=> (b \in queue' \/ \E q \in imports' : q.hash = b)
    BY <2>1, <1>4, Zenon DEF QueueInv, ImportedOnce
  <2>3. \A q \in imports' : q.hash \notin queue'
    BY <1>2, <1>3, <1>4, Zenon DEF QueueInv, ImportedOnce
  <2>4. \A q, t \in imports' : q.hash = t.hash => q = t
    <3> SUFFICES ASSUME NEW q \in imports', NEW t \in imports', q.hash = t.hash
                 PROVE  q = t
      BY Zenon
    <3>1. CASE q \in imports \ {r} /\ t \in imports \ {r}
      BY <3>1, Zenon DEF QueueInv, ImportedOnce
    <3>2. CASE q = n /\ t = n
      BY <3>2, Zenon
    <3>3. CASE q = n /\ t \in imports \ {r}
      BY <3>3, <1>2, Zenon DEF QueueInv, ImportedOnce
    <3>4. CASE t = n /\ q \in imports \ {r}
      BY <3>4, <1>2, Zenon DEF QueueInv, ImportedOnce
    <3> QED
      BY <1>3, <3>1, <3>2, <3>3, <3>4, Zenon
  <2> QED
    BY <2>2, <2>3, <2>4, Zenon DEF ImportedOnce
<1>7. \A p \in Peers : QueuedOf(p)' = QueuedOf(p)
  BY <1>4, Zenon DEF QueuedOf
<1>8. Allowance'
  BY <1>4, <1>7, Zenon DEF QueueInv, Allowance
<1> QED
  BY <1>5, <1>6, <1>8, Zenon DEF QueueInv

(* The condition on the packet binds only while the answer is handed back. *)
LEMMA BatchKept ==
  ASSUME BatchInv, batch' \subseteq batch,
         pc' # "reply" \/ UNCHANGED <<pc, fetching, completing>>
  PROVE  BatchInv'
<1>1. batch' \subseteq Nat \X Blocks
  BY Zenon DEF BatchInv
<1>2. CASE pc' # "reply"
  BY <1>1, <1>2, Zenon DEF BatchInv
<1>3. CASE UNCHANGED <<pc, fetching, completing>>
  BY <1>1, <1>3, Zenon DEF BatchInv
<1> QED
  BY <1>2, <1>3

-----------------------------------------------------------------------------
(* The steps of the loop, one lemma each: every one preserves the invariant. *)
LEMMA TopInv ==
  ASSUME IInv, NEW E \in SUBSET Blocks, Top(E)
  PROVE  IInv'
<1>1. forgetHash(E) /\ pc' # "reply" /\ batch' = batch /\ dropped' = dropped
  BY DEF Top
<1>2. UNCHANGED timerVars /\ UNCHANGED <<queueVars, imports>>
  BY Zenon DEF Top
<1>3. BatchInv'
  BY <1>1, BatchKept, Zenon DEF IInv
<1> QED
  BY <1>1, <1>2, <1>3, ForgetInv, FewerWait, QueueKept, Zenon DEF IInv, HonestKept

(* The loop leaves the queue alone. *)
LEMMA ImportWaitInv ==
  ASSUME IInv, ImportWait
  PROVE  IInv'
<1>1. pc' # "reply" /\ batch' = batch /\ dropped' = dropped
  BY DEF ImportWait
<1>2. UNCHANGED noteVars /\ UNCHANGED timerVars /\ UNCHANGED <<queueVars, imports>>
  BY Zenon DEF ImportWait
<1>3. BatchInv'
  BY <1>1, BatchKept, Zenon DEF IInv
<1> QED
  BY <1>1, <1>2, <1>3, NotesKept, FewerWait, QueueKept, Zenon DEF IInv, HonestKept

(* A popped block is forgotten or becomes the one import of it. *)
LEMMA ImportPopInv ==
  ASSUME IInv, NEW b \in Blocks, ImportPop(b)
  PROVE  IInv'
<1>1. UNCHANGED noteVars /\ UNCHANGED timerVars /\ pc' = pc /\ batch' = batch /\ dropped' = dropped
  BY Zenon DEF ImportPop
<1>2. b \in queue /\ queue' = queue \ {b}
  BY Zenon DEF ImportPop, Lowest
<1>3. queued[b] # None /\ \A r \in imports : r.hash # b
  BY <1>2, Zenon DEF IInv, QueueInv, ImportedOnce
<1>4. QueueInv'
  <2>1. CASE forgetBlock(b) /\ imports' = imports
    <3>1. imports' = {r \in imports : r.hash # b}
      BY <2>1, <1>3, Zenon
    <3> QED
      BY <2>1, <3>1, <1>2, ForgetBlockInv, Zenon DEF IInv
  <2>2. CASE /\ imports' = imports \cup {[hash |-> b, origin |-> queued[b].origin,
                                          good |-> queued[b].good, stage |-> "parent"]}
             /\ UNCHANGED <<queued, queues>>
    <3> DEFINE n == [hash |-> b, origin |-> queued[b].origin,
                     good |-> queued[b].good, stage |-> "parent"]
    <3>1. queued[b] \in inject
      BY <1>3, Zenon DEF IInv, QueueInv, QueueType
    <3>2. n \in import /\ n.hash = b /\ n.origin = queued[b].origin
      BY <3>1 DEF inject, import
    <3>3. imports' = imports \cup {n}
      BY <2>2, Zenon
    <3> HIDE DEF n
    <3>4. QueueType' /\ HonestQueue'
      BY <1>2, <1>3, <2>2, <3>2, <3>3, Zenon DEF IInv, QueueInv, QueueType, HonestQueue
    <3>5. ASSUME NEW c \in Blocks
          PROVE  queued'[c] # None <=> (c \in queue' \/ \E r \in imports' : r.hash = c)
      <4>1. CASE c = b
        BY <4>1, <1>3, <2>2, <3>2, <3>3, Zenon
      <4>2. CASE c # b
        BY <4>2, <1>2, <2>2, <3>2, <3>3, Zenon DEF IInv, QueueInv, ImportedOnce
      <4> QED
        BY <4>1, <4>2
    <3>6. \A r \in imports' : r.hash \notin queue'
      BY <1>2, <3>2, <3>3, Zenon DEF IInv, QueueInv, ImportedOnce
    <3>7. \A r, t \in imports' : r.hash = t.hash => r = t
      BY <1>3, <3>2, <3>3, Zenon DEF IInv, QueueInv, ImportedOnce
    <3>8. ImportedOnce'
      BY <3>5, <3>6, <3>7, Zenon DEF ImportedOnce
    <3>9. \A p \in Peers : QueuedOf(p)' = QueuedOf(p)
      BY <2>2, Zenon DEF QueuedOf
    <3>10. Allowance'
      BY <2>2, <3>9, Zenon DEF IInv, QueueInv, Allowance
    <3> QED
      BY <3>4, <3>8, <3>10, Zenon DEF QueueInv
  <2> QED
    BY <2>1, <2>2, Zenon DEF ImportPop
<1>5. BatchInv'
  BY <1>1, BatchKept, Zenon DEF IInv, noteVars
<1> QED
  BY <1>1, <1>4, <1>5, NotesKept, FewerWait, Zenon DEF IInv, HonestKept

(* A new announcement waits on a timer, and only if the block is not fetched. *)
LEMMA NotifyInv ==
  ASSUME IInv, NEW p \in Peers, NEW b \in Blocks, NEW k \in Nat, Notify(p, b, k)
  PROVE  IInv'
<1>1. pc' # "reply" /\ batch' = batch /\ dropped' = dropped
  BY DEF Notify
<1>2. UNCHANGED <<queueVars, imports>>
  BY Zenon DEF Notify
<1>3. BatchInv' /\ QueueInv' /\ HonestKept'
  BY <1>1, <1>2, BatchKept, QueueKept, Zenon DEF IInv, HonestKept
<1>4. CASE UNCHANGED noteVars /\ UNCHANGED timerVars
  BY <1>3, <1>4, NotesKept, FewerWait, Zenon DEF IInv
<1>5. CASE /\ fetching[b] = None /\ completing[b] = None
           /\ announced' = [announced EXCEPT ![b] =
                 Append(@, [origin |-> p, number |-> k, header |-> FALSE])]
           /\ fetchArmed' = (fetchArmed \/ \A c \in Blocks \ {b} : announced[c] = << >>)
           /\ UNCHANGED <<fetching, fetched, completing, completeArmed>>
  <2> DEFINE n == [origin |-> p, number |-> k, header |-> FALSE]
  <2>1. n \in announce /\ n.origin = p /\ n.number = k
    BY DEF announce
  <2>2. Vouch(b, n)
    BY <2>1, Zenon DEF Vouch, Notify
  <2> HIDE DEF n
  <2>3. announced[b] \in Seq(announce) /\ fetched[b] \in Seq(announce)
    BY Zenon DEF IInv, NoteInv, NoteType
  <2>4. announced' = [announced EXCEPT ![b] = Append(announced[b], n)]
    BY <1>5, Zenon DEF n
  <2>5. Append(announced[b], n) \in Seq(announce) /\ Append(announced[b], n) # << >>
    BY <2>1, <2>3
  <2>6. announced' \in [Blocks -> Seq(announce)]
    BY <2>4, <2>5, Zenon DEF IInv, NoteInv, NoteType
  <2>7. \A c \in Blocks : announced'[c] = IF c = b THEN Append(announced[b], n) ELSE announced[c]
    BY <2>4 DEF IInv, NoteInv, NoteType
  <2>8. GoodSeq(b, Append(announced[b], n))
    <3>1. \A i \in DOMAIN announced[b] : Vouch(b, announced[b][i])
      BY Zenon DEF IInv, NoteInv, NoteOK, GoodSeq
    <3>2. \A i \in DOMAIN Append(announced[b], n) :
            \/ Append(announced[b], n)[i] = n
            \/ i \in DOMAIN announced[b] /\ Append(announced[b], n)[i] = announced[b][i]
      BY <2>1, <2>3
    <3> QED
      BY <2>2, <2>5, <3>1, <3>2, Zenon DEF GoodSeq
  <2>9. fetched[b] = << >>
    BY <1>5, Zenon DEF IInv, NoteInv, NoteOK
  <2>10. NoteType'
    BY <1>5, <2>6, Zenon DEF IInv, NoteInv, NoteType
  <2>11. ASSUME NEW c \in Blocks
         PROVE  NoteOK(c, announced'[c], fetching'[c], fetched'[c], completing'[c])
    <3>1. NoteOK(c, announced[c], fetching[c], fetched[c], completing[c])
      BY Zenon DEF IInv, NoteInv
    <3>2. fetching' = fetching /\ fetched' = fetched /\ completing' = completing
      BY <1>5, Zenon
    <3>3. CASE c # b
      BY <3>1, <3>2, <3>3, <2>7, Zenon
    <3>4. CASE c = b
      BY <3>1, <3>2, <3>4, <2>7, <2>8, <2>9, <1>5, Zenon DEF NoteOK
    <3> QED
      BY <3>3, <3>4
  <2>12. TimersArmed'
    <3>1. Pending(announced') # {} => fetchArmed'
      <4>1. CASE \E c \in Blocks \ {b} : announced[c] # << >>
        BY <4>1, <1>5, Zenon DEF IInv, TimersArmed, Pending
      <4>2. CASE \A c \in Blocks \ {b} : announced[c] = << >>
        BY <4>2, <1>5, Zenon
      <4> QED
        BY <4>1, <4>2, Zenon
    <3> QED
      BY <3>1, <1>5, Zenon DEF IInv, TimersArmed
  <2> QED
    BY <1>3, <2>10, <2>11, <2>12, Zenon DEF IInv, NoteInv
<1> QED
  BY <1>4, <1>5, Zenon DEF Notify

(* A block that was sent is enqueued or forgotten. *)
LEMMA InjectInv ==
  ASSUME IInv, NEW p \in Peers, NEW b \in Blocks, NEW good \in BOOLEAN, Inject(p, b, good)
  PROVE  IInv'
<1>1. pc' # "reply" /\ batch' = batch /\ dropped' = dropped
  BY DEF Inject
<1>2. enqueue(p, b, good) /\ UNCHANGED imports /\ UNCHANGED timerVars /\ (p \in Honest => b \in Valid)
  BY Zenon DEF Inject
<1>3. BatchInv' /\ HonestKept'
  BY <1>1, BatchKept, Zenon DEF IInv, HonestKept
<1> QED
  BY <1>2, <1>3, EnqueueInv, FewerWait, Zenon DEF IInv

(* An import that ended is forgotten in every map. *)
LEMMA DoneInv ==
  ASSUME IInv, NEW r \in imports, Done(r)
  PROVE  IInv'
<1>1. pc' # "reply" /\ batch' = batch /\ dropped' = dropped
  BY DEF Done
<1>2. /\ forgetHash({r.hash}) /\ forgetBlock(r.hash) /\ UNCHANGED timerVars
      /\ queue' = queue /\ imports' = imports \ {r}
  BY Zenon DEF Done
<1>3. r.hash \in Blocks
  BY DEF IInv, QueueInv, QueueType, import
<1>4. queue' = queue \ {r.hash}
  BY <1>2, Zenon DEF IInv, QueueInv, ImportedOnce
<1>5. imports' = {t \in imports : t.hash # r.hash}
  BY <1>2, Zenon DEF IInv, QueueInv, ImportedOnce
<1>6. QueueInv'
  BY <1>2, <1>3, <1>4, <1>5, ForgetBlockInv, Zenon DEF IInv
<1>7. BatchInv' /\ HonestKept'
  BY <1>1, BatchKept, Zenon DEF IInv, HonestKept
<1> QED
  BY <1>2, <1>3, <1>6, <1>7, ForgetInv, FewerWait, Zenon DEF IInv

(* The fetch timer moves announcements that are due from announced to fetching. *)
LEMMA FetchTimerInv ==
  ASSUME IInv, NEW D \in SUBSET Pending(announced), NEW pick \in Choices(announced, D),
         FetchTimer(D, pick)
  PROVE  IInv'
<1>1. pc' # "reply" /\ batch' = batch /\ dropped' = dropped
  BY DEF FetchTimer
<1>2. UNCHANGED <<queueVars, imports>>
  BY Zenon DEF FetchTimer
<1>3. BatchInv' /\ QueueInv' /\ HonestKept'
  BY <1>1, <1>2, BatchKept, QueueKept, Zenon DEF IInv, HonestKept
<1>4. \A b \in D : GoodOne(b, pick[b]) /\ pick[b] \in announce
  <2> SUFFICES ASSUME NEW b \in D PROVE Vouch(b, pick[b]) /\ pick[b] \in announce
    BY Zenon DEF GoodOne
  <2>1. b \in Blocks
    BY Zenon DEF Pending
  <2>2. pick[b] \in Entries(announced[b])
    BY Zenon DEF Choices
  <2>3. PICK i \in DOMAIN announced[b] : pick[b] = announced[b][i]
    BY <2>2, Zenon DEF Entries
  <2>4. announced[b] \in Seq(announce) /\ Vouch(b, announced[b][i])
    BY <2>1, Zenon DEF IInv, NoteInv, NoteOK, GoodSeq
  <2> QED
    BY <2>3, <2>4
<1>5. /\ \A b \in Blocks : announced'[b] = IF b \in D THEN << >> ELSE announced[b]
      /\ \A b \in Blocks : fetched'[b] = IF b \in D THEN << >> ELSE fetched[b]
      /\ \A b \in Blocks : completing'[b] = IF b \in D THEN None ELSE completing[b]
      /\ \A b \in Blocks : fetching'[b] = IF b \in D \ known THEN pick[b]
                                          ELSE IF b \in D THEN None ELSE fetching[b]
  BY DEF FetchTimer, Clear
<1>6. NoteType'
  <2>1. announced' \in [Blocks -> Seq(announce)] /\ fetched' \in [Blocks -> Seq(announce)]
    BY DEF IInv, NoteInv, NoteType, FetchTimer, Clear
  <2>2. completing' \in [Blocks -> announce \cup {None}]
    BY DEF IInv, NoteInv, NoteType, FetchTimer, Clear
  <2>3. fetching' \in [Blocks -> announce \cup {None}]
    BY <1>4 DEF IInv, NoteInv, NoteType, FetchTimer
  <2> QED
    BY <2>1, <2>2, <2>3, Zenon DEF NoteType
<1>7. ASSUME NEW b \in Blocks
      PROVE  NoteOK(b, announced'[b], fetching'[b], fetched'[b], completing'[b])
  <2>1. CASE b \notin D
    BY <2>1, <1>5, Zenon DEF IInv, NoteInv
  <2>2. CASE b \in D
    <3>1. announced'[b] = << >> /\ fetched'[b] = << >> /\ completing'[b] = None
      BY <2>2, <1>5, Zenon
    <3>2. GoodOne(b, fetching'[b])
      BY <2>2, <1>4, <1>5, Zenon DEF GoodOne
    <3>3. NoteOK(b, << >>, None, << >>, None)
      BY NoNote, Zenon
    <3> QED
      BY <3>1, <3>2, <3>3, Zenon DEF NoteOK
  <2> QED
    BY <2>1, <2>2
<1>8. TimersArmed'
  <2>1. fetchArmed' = (Pending(announced) # D) /\ completeArmed' = completeArmed
    BY Zenon DEF FetchTimer
  <2>2. Pending(announced') = Pending(announced) \ D /\ Pending(fetched') \subseteq Pending(fetched)
    BY <1>5, Zenon DEF Pending
  <2> QED
    BY <2>1, <2>2, Zenon DEF IInv, TimersArmed
<1> QED
  BY <1>3, <1>6, <1>7, <1>8, Zenon DEF IInv, NoteInv

(* The complete timer moves every fetched header to completing. *)
LEMMA CompleteTimerInv ==
  ASSUME IInv, NEW pick \in Choices(fetched, Pending(fetched)), CompleteTimer(pick)
  PROVE  IInv'
<1> DEFINE D == Pending(fetched)
<1>1. pc' # "reply" /\ batch' = batch /\ dropped' = dropped /\ fetchArmed' = fetchArmed
  BY DEF CompleteTimer
<1>2. UNCHANGED <<queueVars, imports>>
  BY Zenon DEF CompleteTimer
<1>3. BatchInv' /\ QueueInv' /\ HonestKept'
  BY <1>1, <1>2, BatchKept, QueueKept, Zenon DEF IInv, HonestKept
<1>4. \A b \in D : GoodOne(b, pick[b]) /\ pick[b] \in announce /\ pick[b].header
  <2> SUFFICES ASSUME NEW b \in D PROVE Vouch(b, pick[b]) /\ pick[b] \in announce /\ pick[b].header
    BY Zenon DEF GoodOne
  <2>1. b \in Blocks
    BY Zenon DEF Pending
  <2>2. pick[b] \in Entries(fetched[b])
    BY Zenon DEF Choices
  <2>3. PICK i \in DOMAIN fetched[b] : pick[b] = fetched[b][i]
    BY <2>2, Zenon DEF Entries
  <2>4. fetched[b] \in Seq(announce) /\ Vouch(b, fetched[b][i]) /\ fetched[b][i].header
    BY <2>1, Zenon DEF IInv, NoteInv, NoteOK, GoodSeq
  <2> QED
    BY <2>3, <2>4
<1>5. /\ \A b \in Blocks : announced'[b] = IF b \in D THEN << >> ELSE announced[b]
      /\ \A b \in Blocks : fetched'[b] = IF b \in D THEN << >> ELSE fetched[b]
      /\ \A b \in Blocks : fetching'[b] = IF b \in D THEN None ELSE fetching[b]
      /\ \A b \in Blocks : completing'[b] = IF b \in D \ known THEN pick[b]
                                            ELSE IF b \in D THEN None ELSE completing[b]
  BY DEF CompleteTimer, Clear
<1>6. NoteType'
  <2>1. announced' \in [Blocks -> Seq(announce)] /\ fetched' \in [Blocks -> Seq(announce)]
    BY DEF IInv, NoteInv, NoteType, CompleteTimer, Clear
  <2>2. fetching' \in [Blocks -> announce \cup {None}]
    BY DEF IInv, NoteInv, NoteType, CompleteTimer, Clear
  <2>3. completing' \in [Blocks -> announce \cup {None}]
    BY <1>4 DEF IInv, NoteInv, NoteType, CompleteTimer
  <2> QED
    BY <2>1, <2>2, <2>3, Zenon DEF NoteType
<1> HIDE DEF D
<1>7. ASSUME NEW b \in Blocks
      PROVE  NoteOK(b, announced'[b], fetching'[b], fetched'[b], completing'[b])
  <2>1. CASE b \notin D
    BY <2>1, <1>5, Zenon DEF IInv, NoteInv
  <2>2. CASE b \in D
    <3>1. announced'[b] = << >> /\ fetched'[b] = << >> /\ fetching'[b] = None
      BY <2>2, <1>5, Zenon
    <3>2. GoodOne(b, completing'[b]) /\ (completing'[b] # None => completing'[b].header)
      BY <2>2, <1>4, <1>5, Zenon DEF GoodOne
    <3>3. NoteOK(b, << >>, None, << >>, None)
      BY NoNote, Zenon
    <3> QED
      BY <3>1, <3>2, <3>3, Zenon DEF NoteOK
  <2> QED
    BY <2>1, <2>2
<1>8. TimersArmed'
  <2>1. Pending(announced') \subseteq Pending(announced)
    BY <1>5, Zenon DEF Pending
  <2>2. Pending(fetched') = {}
    BY <1>5, Zenon DEF Pending, D
  <2> QED
    BY <2>1, <2>2, <1>1, Zenon DEF IInv, TimersArmed
<1> QED
  BY <1>3, <1>6, <1>7, <1>8, Zenon DEF IInv, NoteInv

(***************************************************************************)
(* A header that was asked for is kept with its announcement; one with a    *)
(* wrong number cannot have been announced by an honest peer.               *)
(***************************************************************************)
LEMMA HeaderFilterInv ==
  ASSUME IInv, NEW p \in Peers, NEW b \in Blocks, HeaderFilter(p, b)
  PROVE  IInv'
<1>1. UNCHANGED timerVars /\ UNCHANGED <<queueVars, imports>>
  BY Zenon DEF HeaderFilter
<1>2. QueueInv'
  BY <1>1, QueueKept, Zenon DEF IInv
<1>3. CASE UNCHANGED noteVars /\ dropped' = dropped /\ batch' = {}
  <2>1. BatchInv'
    BY <1>3 DEF BatchInv
  <2> QED
    BY <1>1, <1>2, <1>3, <2>1, NotesKept, FewerWait, Zenon DEF IInv, HonestKept
<1>4. CASE /\ Wanted(p, b) /\ forgetHash({b}) /\ batch' = {}
           /\ dropped' = IF Number[b] # fetching[b].number THEN dropped \cup {fetching[b].origin}
                         ELSE dropped
  <2>1. BatchInv'
    BY <1>4 DEF BatchInv
  <2>2. fetching[b] # None /\ GoodOne(b, fetching[b])
    BY <1>4, Zenon DEF Wanted, IInv, NoteInv, NoteOK
  <2>3. HonestKept'
    <3>1. CASE Number[b] # fetching[b].number
      BY <1>4, <2>2, <3>1, Zenon DEF GoodOne, Vouch, IInv, HonestKept
    <3>2. CASE Number[b] = fetching[b].number
      BY <1>4, <3>2, Zenon DEF IInv, HonestKept
    <3> QED
      BY <3>1, <3>2
  <2> QED
    BY <1>1, <1>2, <1>4, <2>1, <2>3, ForgetInv, FewerWait, Zenon DEF IInv
<1>5. CASE /\ Wanted(p, b)
           /\ fetching' = [fetching EXCEPT ![b] = WithHeader(@)]
           /\ completing' = IF Body[b] = EmptyBody
                              THEN [completing EXCEPT ![b] = WithHeader(fetching[b])]
                              ELSE completing
           /\ batch' = {<<1, b>>}
           /\ UNCHANGED <<announces, announced, fetched, dropped>>
  <2> DEFINE n == WithHeader(fetching[b])
  <2>1. fetching[b] # None /\ fetched[b] = << >> /\ completing[b] = None
    BY <1>5, Zenon DEF Wanted
  <2>2. fetching[b] \in announce /\ Vouch(b, fetching[b]) /\ announced[b] = << >>
    BY <2>1, Zenon DEF IInv, NoteInv, NoteOK, GoodOne
  <2>3. n \in announce /\ n.header /\ n.origin = fetching[b].origin /\ n.number = fetching[b].number
    BY <2>2 DEF WithHeader, announce
  <2>4. Vouch(b, n)
    BY <2>2, <2>3, Zenon DEF Vouch
  <2>5. n # None
    BY <2>3, NoneAssumption, Zenon
  <2>6. fetching' = [fetching EXCEPT ![b] = n] /\ (completing' = completing \/ completing' = [completing EXCEPT ![b] = n])
    BY <1>5, Zenon
  <2> HIDE DEF n
  <2>7. NoteType'
    <3>1. fetching' \in [Blocks -> announce \cup {None}]
      BY <2>3, <2>6 DEF IInv, NoteInv, NoteType
    <3>2. completing' \in [Blocks -> announce \cup {None}]
      BY <2>3, <2>6 DEF IInv, NoteInv, NoteType
    <3> QED
      BY <1>5, <3>1, <3>2, Zenon DEF IInv, NoteInv, NoteType
  <2>8. /\ \A c \in Blocks \ {b} : fetching'[c] = fetching[c] /\ completing'[c] = completing[c]
        /\ fetching'[b] = n /\ (completing'[b] = None \/ completing'[b] = n)
    BY <2>1, <2>6 DEF IInv, NoteInv, NoteType
  <2>9. ASSUME NEW c \in Blocks
        PROVE  NoteOK(c, announced'[c], fetching'[c], fetched'[c], completing'[c])
    <3>1. NoteOK(c, announced[c], fetching[c], fetched[c], completing[c])
      BY Zenon DEF IInv, NoteInv
    <3>2. CASE c # b
      BY <1>5, <2>8, <3>1, <3>2, Zenon
    <3>3. CASE c = b
      <4>1. announced'[b] = << >> /\ fetched'[b] = << >>
        BY <1>5, <2>1, <2>2, Zenon
      <4>2. GoodOne(b, fetching'[b]) /\ GoodOne(b, completing'[b])
        BY <2>3, <2>4, <2>8, Zenon DEF GoodOne
      <4>3. NoteOK(b, << >>, None, << >>, None)
        BY NoNote, Zenon
      <4> QED
        BY <2>3, <2>8, <3>3, <4>1, <4>2, <4>3, Zenon DEF NoteOK
    <3> QED
      BY <3>2, <3>3
  <2>10. BatchInv'
    <3>1. batch' \subseteq Nat \X Blocks /\ \A e \in batch' : e[2] = b
      BY <1>5
    <3> QED
      BY <2>3, <2>5, <2>8, <3>1, Zenon DEF BatchInv
  <2>11. TimersArmed'
    BY <1>1, <1>5, Zenon DEF IInv, TimersArmed, timerVars
  <2> QED
    BY <1>2, <1>5, <2>7, <2>9, <2>10, <2>11, Zenon DEF IInv, NoteInv, HonestKept
<1> QED
  BY <1>3, <1>4, <1>5, Zenon DEF HeaderFilter

(* A packet of bodies only forgets blocks and names blocks in completing. *)
LEMMA BodyFilterInv ==
  ASSUME IInv, NEW p \in Peers, NEW B \in BodyLists, BodyFilter(p, B)
  PROVE  IInv'
<1> DEFINE C == Completes(p, B)
           H == {e[2] : e \in C} \cap known
<1>1. /\ forgetHash(H) /\ UNCHANGED timerVars /\ UNCHANGED <<queueVars, imports>>
      /\ dropped' = dropped /\ batch' = {e \in C : e[2] \notin known}
  BY Zenon DEF BodyFilter
<1>2. C \subseteq Nat \X Blocks /\ \A e \in C : e[2] \in Blocks /\ completing[e[2]] # None
  BY DEF Completes
<1>3. H \in SUBSET Blocks
  BY <1>2, Zenon
<1> HIDE DEF C
<1>4. batch' \subseteq Nat \X Blocks
  BY <1>1, <1>2, Zenon
<1>5. \A b \in Blocks \ H : completing'[b] = completing[b]
  BY <1>1, <1>3, ForgetInv, Zenon DEF IInv
<1>6. \A e \in batch' : e[2] \in Blocks \ H /\ completing[e[2]] # None
  BY <1>1, <1>2, Zenon
<1>7. BatchInv'
  BY <1>4, <1>5, <1>6, Zenon DEF BatchInv
<1> HIDE DEF H
<1> QED
  BY <1>1, <1>3, <1>7, ForgetInv, FewerWait, QueueKept, Zenon DEF IInv, HonestKept

(* A header without its body waits for the complete timer, which is set. *)
LEMMA ReplyInv ==
  ASSUME IInv, Reply
  PROVE  IInv'
<1> DEFINE I == {b \in Blocks : completing[b] = None /\ \E e \in batch : e[2] = b}
<1>1. /\ pc = "reply" /\ pc' # "reply" /\ dropped' = dropped /\ fetchArmed' = fetchArmed
      /\ announced' = announced /\ fetching' = fetching /\ completing' = completing
  BY DEF Reply
<1>2. UNCHANGED <<queueVars, imports>>
  BY Zenon DEF Reply
<1>3. batch' \subseteq batch
  BY Zenon DEF Reply
<1>4. BatchInv' /\ QueueInv' /\ HonestKept'
  BY <1>1, <1>2, <1>3, BatchKept, QueueKept, Zenon DEF IInv, HonestKept
<1>5. \A b \in I : fetching[b] # None /\ fetching[b].header /\ completing[b] = None
  BY <1>1, Zenon DEF IInv, BatchInv
<1>6. /\ fetched' = [b \in Blocks |-> IF b \in I THEN Append(fetched[b], fetching[b]) ELSE fetched[b]]
      /\ completeArmed' = (completeArmed \/ (Pending(fetched) = {} /\ I # {}))
  BY Zenon DEF Reply
<1> HIDE DEF I
<1>7. ASSUME NEW b \in Blocks
      PROVE  /\ NoteOK(b, announced'[b], fetching'[b], fetched'[b], completing'[b])
             /\ fetched'[b] \in Seq(announce)
  <2>1. NoteOK(b, announced[b], fetching[b], fetched[b], completing[b])
    BY Zenon DEF IInv, NoteInv
  <2>2. fetched'[b] = IF b \in I THEN Append(fetched[b], fetching[b]) ELSE fetched[b]
    BY <1>6, Zenon
  <2>3. CASE b \notin I
    BY <1>1, <2>1, <2>2, <2>3, Zenon DEF NoteOK, GoodSeq
  <2>4. CASE b \in I
    <3> DEFINE a == fetching[b]
               s == fetched[b]
    <3>1. a \in announce /\ Vouch(b, a) /\ a.header /\ a # None /\ completing[b] = None
      BY <1>5, <2>1, <2>4, Zenon DEF NoteOK, GoodOne
    <3>2. s \in Seq(announce) /\ \A i \in DOMAIN s : Vouch(b, s[i]) /\ s[i].header
      BY <2>1, Zenon DEF NoteOK, GoodSeq
    <3>3. announced[b] = << >>
      BY <2>1, <3>1, Zenon DEF NoteOK
    <3>4. fetched'[b] = Append(s, a)
      BY <2>2, <2>4, Zenon
    <3> HIDE DEF a, s
    <3>5. /\ Append(s, a) \in Seq(announce)
          /\ \A i \in DOMAIN Append(s, a) :
               Append(s, a)[i] = a \/ (i \in DOMAIN s /\ Append(s, a)[i] = s[i])
      BY <3>1, <3>2
    <3>6. GoodSeq(b, Append(s, a)) /\ \A i \in DOMAIN Append(s, a) : Append(s, a)[i].header
      BY <3>1, <3>2, <3>5, Zenon DEF GoodSeq
    <3> QED
      BY <1>1, <2>1, <3>1, <3>3, <3>4, <3>5, <3>6, Zenon DEF NoteOK, a
  <2> QED
    BY <2>3, <2>4
<1>8. fetched' \in [Blocks -> Seq(announce)]
  <2>1. fetched' = [b \in Blocks |-> fetched'[b]]
    BY <1>6, Zenon
  <2> QED
    BY <2>1, <1>7, Zenon
<1>9. NoteInv'
  BY <1>1, <1>7, <1>8, Zenon DEF IInv, NoteInv, NoteType
<1>10. TimersArmed'
  <2>1. Pending(fetched') # {} => completeArmed'
    <3>1. CASE I = {}
      BY <1>6, <3>1, Zenon DEF IInv, TimersArmed, Pending
    <3>2. CASE I # {}
      BY <1>6, <3>2, Zenon DEF IInv, TimersArmed
    <3> QED
      BY <3>1, <3>2
  <2> QED
    BY <1>1, <2>1, Zenon DEF IInv, TimersArmed
<1> QED
  BY <1>4, <1>9, <1>10, Zenon DEF IInv

(* A completed block is enqueued for the peer that announced it. *)
LEMMA EnqueueNextInv ==
  ASSUME IInv, NEW b \in Blocks, EnqueueNext(b)
  PROVE  IInv'
<1>1. pc' # "reply" /\ dropped' = dropped /\ UNCHANGED timerVars /\ UNCHANGED imports
  BY DEF EnqueueNext
<1>2. batch' \subseteq batch
  BY Zenon DEF EnqueueNext
<1>3. BatchInv' /\ HonestKept'
  BY <1>1, <1>2, BatchKept, Zenon DEF IInv, HonestKept
<1>4. CASE completing[b] # None /\ enqueue(completing[b].origin, b, TRUE)
  <2>1. completing[b] \in announce /\ Vouch(b, completing[b])
    BY <1>4, Zenon DEF IInv, NoteInv, NoteOK, GoodOne
  <2>2. completing[b].origin \in Peers
    BY <2>1 DEF announce
  <2>3. completing[b].origin \in Honest => b \in Valid
    BY <2>1, Zenon DEF Vouch
  <2> QED
    BY <1>1, <1>3, <1>4, <2>2, <2>3, EnqueueInv, FewerWait, Zenon DEF IInv
<1>5. CASE UNCHANGED <<noteVars, queueVars>>
  BY <1>1, <1>3, <1>5, NotesKept, QueueKept, FewerWait, Zenon DEF IInv
<1> QED
  BY <1>4, <1>5, Zenon DEF EnqueueNext

(* A step of the chain, of an import or of quit leaves the notes alone. *)
LEMMA ImportStepInv ==
  ASSUME IInv, ImportStep
  PROVE  IInv'
<1>1. PICK r \in imports : \/ ImportParent(r) \/ ImportVerify(r)
                           \/ \E h \in Heights : ImportInsert(r, h)
  BY Zenon DEF ImportStep
<1>2. /\ UNCHANGED noteVars /\ UNCHANGED timerVars /\ UNCHANGED queueVars
      /\ pc' = pc /\ batch' = batch
  BY <1>1, Zenon DEF ImportParent, ImportVerify, ImportInsert
<1>3. \E st \in {"parent", "verify", "insert", "done"} : Advance(r, st)
  BY <1>1 DEF ImportParent, ImportVerify, ImportInsert
<1>4. QueueInv'
  BY <1>2, <1>3, AdvanceInv, Zenon DEF IInv
<1>5. HonestKept'
  <2>1. CASE dropped' = dropped
    BY <2>1, Zenon DEF IInv, HonestKept
  <2>2. CASE r.hash \notin Valid /\ dropped' = dropped \cup {r.origin}
    BY <2>2, Zenon DEF IInv, HonestKept, QueueInv, HonestQueue
  <2> QED
    BY <1>1, <2>1, <2>2, Zenon DEF ImportParent, ImportVerify, ImportInsert
<1>6. BatchInv'
  BY <1>2, BatchKept, Zenon DEF IInv, noteVars
<1> QED
  BY <1>2, <1>4, <1>5, <1>6, NotesKept, FewerWait, Zenon DEF IInv

(* Nor does one of the chain, of quit, or a stuttering step. *)
LEMMA IdleInv ==
  ASSUME IInv, Quit \/ (\E b \in Blocks, h \in Heights : ChainGrows(b, h)) \/ UNCHANGED vars
  PROVE  IInv'
<1>1. /\ UNCHANGED noteVars /\ UNCHANGED timerVars /\ UNCHANGED <<queueVars, imports>>
      /\ batch' = batch /\ dropped' = dropped
  BY Zenon DEF Quit, ChainGrows, vars
<1>2. pc' = "stopped" \/ pc' = pc
  BY Zenon DEF Quit, ChainGrows, vars
<1>3. BatchInv'
  BY <1>1, <1>2, BatchKept DEF IInv, noteVars
<1> QED
  BY <1>1, <1>3, NotesKept, QueueKept, FewerWait, Zenon DEF IInv, HonestKept

-----------------------------------------------------------------------------
(* The fetcher starts with every map empty and both timers set. *)
LEMMA InitInv == Init => IInv
<1> SUFFICES ASSUME Init PROVE IInv
  OBVIOUS
<1>1. NoteType
  BY DEF Init, NoteType
<1>2. \A b \in Blocks : announced[b] = << >> /\ fetching[b] = None /\ fetched[b] = << >>
                        /\ completing[b] = None /\ queued[b] = None
  BY DEF Init
<1>3. NoteInv
  BY <1>1, <1>2, NoNote, Zenon DEF NoteInv
<1>4. QueueType
  BY DEF Init, QueueType
<1>5. BatchInv /\ HonestQueue /\ ImportedOnce /\ TimersArmed /\ HonestKept
  BY <1>2 DEF Init, BatchInv, HonestQueue, ImportedOnce, TimersArmed, HonestKept
<1>6. Allowance
  <2>1. \A p \in Peers : QueuedOf(p) = {}
    BY <1>2, Zenon DEF QueuedOf
  <2>2. \A p \in Peers : queues[p] = 0
    BY DEF Init
  <2> QED
    BY <2>1, <2>2, FS_EmptySet, FetcherAssumption DEF Allowance
<1> QED
  BY <1>3, <1>4, <1>5, <1>6, Zenon DEF IInv, QueueInv

(* Every step of the fetcher, its imports and the chain keeps the invariant. *)
LEMMA NextInv == IInv /\ [Next]_vars => IInv'
<1> SUFFICES ASSUME IInv, [Next]_vars PROVE IInv'
  OBVIOUS
<1>1. Claims \subseteq Nat
  BY FetcherAssumption DEF Claims
<1>2. CASE LoopStep
  BY <1>2, TopInv, ImportWaitInv, ImportPopInv, EnqueueNextInv, DoneInv, FetchTimerInv,
     CompleteTimerInv, ReplyInv, Zenon DEF LoopStep
<1>3. CASE InputStep
  BY <1>1, <1>3, NotifyInv, InjectInv, HeaderFilterInv, BodyFilterInv, IdleInv, Zenon DEF InputStep
<1>4. CASE ImportStep
  BY <1>4, ImportStepInv, Zenon
<1>5. CASE \E b \in Blocks, h \in Heights : ChainGrows(b, h)
  BY <1>5, IdleInv, Zenon
<1>6. CASE UNCHANGED vars
  BY <1>6, IdleInv, Zenon
<1> QED
  BY <1>2, <1>3, <1>4, <1>5, <1>6, Zenon DEF Next

(***************************************************************************)
(* The fetcher keeps its inductive invariant, for every set of peers and    *)
(* blocks and every limit.                                                  *)
(***************************************************************************)
THEOREM FetcherInvariance == Spec => []IInv
BY InitInv, NextInv, PTL DEF Spec

(***************************************************************************)
(* A block never has two import goroutines, and is never queued while one   *)
(* runs (enqueue, the top of loop, insert, done).                           *)
(***************************************************************************)
THEOREM NeverImportedTwice == Spec => []ImportedOnce
<1>1. IInv => ImportedOnce
  BY Zenon DEF IInv, QueueInv
<1> QED
  BY <1>1, FetcherInvariance, PTL

(***************************************************************************)
(* The counters of enqueue and forgetBlock are exact: a peer's allowance is *)
(* what it has queued or being imported.                                    *)
(***************************************************************************)
THEOREM AllowanceExact == Spec => []QueueAllowance
<1>1. IInv => QueueAllowance
  BY Zenon DEF IInv, QueueInv, Allowance, QueuedOf, QueueAllowance
<1> QED
  BY <1>1, FetcherInvariance, PTL

(***************************************************************************)
(* No block is announced and fetched at once, and bodies are matched only   *)
(* with announcements that carry their header.                              *)
(***************************************************************************)
THEOREM StagesDisjoint == Spec => []OneStage
<1>1. IInv => OneStage
  BY Zenon DEF IInv, NoteInv, NoteOK, OneStage
<1> QED
  BY <1>1, FetcherInvariance, PTL

(***************************************************************************)
(* rescheduleFetch and rescheduleComplete are called often enough: whatever *)
(* waits for a timer has one.                                               *)
(***************************************************************************)
THEOREM TimersSet == Spec => []TimersArmed
<1>1. IInv => TimersArmed
  BY Zenon DEF IInv
<1> QED
  BY <1>1, FetcherInvariance, PTL

(***************************************************************************)
(* dropPeer is never called for a peer that announces and sends only valid  *)
(* blocks with their numbers, whatever the other peers do.                  *)
(***************************************************************************)
THEOREM HonestPeersKept == Spec => []HonestKept
<1>1. IInv => HonestKept
  BY Zenon DEF IInv
<1> QED
  BY <1>1, FetcherInvariance, PTL
-----------------------------------------------------------------------------
(***************************************************************************)
(* The variables that the invariant leaves out.                             *)
(***************************************************************************)
RestType ==
  /\ announces \in [Peers -> Int]
  /\ fetchArmed \in BOOLEAN /\ completeArmed \in BOOLEAN
  /\ pc \in {"top", "import", "select", "reply", "enqueue", "stopped"}
  /\ top \in Nat /\ height \in Nat /\ inputs \in Nat
  /\ known \subseteq Blocks \cup {Genesis} /\ dropped \subseteq Peers

(* The traces of finitely many blocks can be counted (forgetHash). *)
LEMMA UncountType ==
  ASSUME NoteType, announces \in [Peers -> Int], NEW H \in SUBSET Blocks
  PROVE  Uncount(H) \in [Peers -> Int]
<1>1. ASSUME NEW p \in Peers
      PROVE  Cardinality(TracesOf(p, H)) \in Int
  <2> DEFINE At(b) == {j \in DOMAIN Traces(b) : Traces(b)[j].origin = p}
             Mine(b) == {<<b, i>> : i \in At(b)}
  <2>1. ASSUME NEW b \in H
        PROVE  IsFiniteSet(Mine(b))
    <3>1. Traces(b) \in Seq(announce)
      BY DEF NoteType, Traces, One
    <3>2. IsFiniteSet(DOMAIN Traces(b))
      BY <3>1, FS_Interval
    <3>3. IsFiniteSet(At(b))
      BY <3>2, FS_Subset, Zenon
    <3> DEFINE f == [i \in At(b) |-> <<b, i>>]
    <3>4. f \in Surjection(At(b), Mine(b))
      BY Zenon DEF Surjection
    <3> HIDE DEF f, At, Mine
    <3> QED
      BY <3>3, <3>4, FS_Surjection, Zenon
  <2>2. IsFiniteSet(H)
    BY FetcherAssumption, FS_Subset, Zenon
  <2>3. IsFiniteSet({Mine(b) : b \in H})
    <3> HIDE DEF Mine
    <3> DEFINE f == [b \in H |-> Mine(b)]
    <3>1. f \in Surjection(H, {Mine(b) : b \in H})
      BY DEF Surjection
    <3> HIDE DEF f
    <3> QED
      BY <2>2, <3>1, FS_Surjection, Zenon
  <2>4. IsFiniteSet(TracesOf(p, H))
    BY <2>1, <2>3, FS_UNION, Zenon DEF TracesOf
  <2> QED
    BY <2>4, FS_CardinalityType
<1> QED
  BY <1>1 DEF Uncount

(* Nothing but a step of the loop that forgets, or an announcement, touches *)
(* the counters.                                                            *)
LEMMA CountersKept ==
  ASSUME IInv, announces \in [Peers -> Int], [Next]_vars
  PROVE  announces' \in [Peers -> Int]
<1>1. \A H \in SUBSET Blocks : Uncount(H) \in [Peers -> Int]
  BY UncountType, Zenon DEF IInv, NoteInv
<1>2. ASSUME NEW H \in SUBSET Blocks, forgetHash(H)
      PROVE  announces' \in [Peers -> Int]
  BY <1>1, <1>2, Zenon DEF forgetHash
<1>3. ASSUME NEW p, NEW b \in Blocks, NEW good, enqueue(p, b, good)
      PROVE  announces' \in [Peers -> Int]
  <2>1. {b} \in SUBSET Blocks
    OBVIOUS
  <2> QED
    BY <1>2, <1>3, <2>1, Zenon DEF enqueue, noteVars
<1>4. CASE LoopStep
  <2>1. ASSUME NEW E \in SUBSET Blocks, Top(E) PROVE announces' \in [Peers -> Int]
    BY <1>2, <2>1, Zenon DEF Top
  <2>2. ASSUME ImportWait \/ Reply PROVE announces' = announces
    BY <2>2, Zenon DEF ImportWait, Reply, noteVars
  <2>3. ASSUME NEW b \in Blocks, ImportPop(b) PROVE announces' = announces
    BY <2>3, Zenon DEF ImportPop, noteVars
  <2>4. ASSUME NEW b \in Blocks, EnqueueNext(b) PROVE announces' \in [Peers -> Int]
    BY <1>3, <2>4, Zenon DEF EnqueueNext, noteVars
  <2>5. ASSUME NEW r \in imports, Done(r) PROVE announces' \in [Peers -> Int]
    <3>1. {r.hash} \in SUBSET Blocks
      BY DEF IInv, QueueInv, QueueType, import
    <3> QED
      BY <1>2, <2>5, <3>1, Zenon DEF Done
  <2>6. ASSUME NEW D \in SUBSET Pending(announced), NEW pick, FetchTimer(D, pick)
        PROVE  announces' \in [Peers -> Int]
    BY <1>1, <2>6, Zenon DEF FetchTimer, Pending
  <2>7. ASSUME NEW pick, CompleteTimer(pick) PROVE announces' \in [Peers -> Int]
    BY <1>1, <2>7, Zenon DEF CompleteTimer, Pending
  <2> QED
    BY <1>4, <2>1, <2>2, <2>3, <2>4, <2>5, <2>6, <2>7, Zenon DEF LoopStep
<1>5. CASE InputStep
  <2>1. ASSUME NEW p \in Peers, NEW b \in Blocks, NEW n \in Claims, Notify(p, b, n)
        PROVE  announces' \in [Peers -> Int]
    BY <2>1 DEF Notify, noteVars
  <2>2. ASSUME NEW p \in Peers, NEW b \in Blocks, NEW good \in BOOLEAN, Inject(p, b, good)
        PROVE  announces' \in [Peers -> Int]
    BY <1>3, <2>2, Zenon DEF Inject
  <2>3. ASSUME NEW p \in Peers, NEW b \in Blocks, HeaderFilter(p, b)
        PROVE  announces' \in [Peers -> Int]
    <3>1. {b} \in SUBSET Blocks
      OBVIOUS
    <3> QED
      BY <1>2, <2>3, <3>1, Zenon DEF HeaderFilter, noteVars
  <2>4. ASSUME NEW p \in Peers, NEW B \in BodyLists, BodyFilter(p, B)
        PROVE  announces' \in [Peers -> Int]
    <3>1. {e[2] : e \in Completes(p, B)} \cap known \in SUBSET Blocks
      BY DEF Completes
    <3> QED
      BY <1>2, <2>4, <3>1, Zenon DEF BodyFilter
  <2>5. ASSUME Quit PROVE announces' = announces
    BY <2>5, Zenon DEF Quit, noteVars
  <2> QED
    BY <1>5, <2>1, <2>2, <2>3, <2>4, <2>5, Zenon DEF InputStep
<1>6. CASE ImportStep
  BY <1>6, Zenon DEF ImportStep, ImportParent, ImportVerify, ImportInsert, noteVars
<1>7. CASE (\E b \in Blocks, h \in Heights : ChainGrows(b, h)) \/ UNCHANGED vars
  BY <1>7, Zenon DEF ChainGrows, vars, noteVars
<1> QED
  BY <1>4, <1>5, <1>6, <1>7, Zenon DEF Next

(* The other variables of RestType are set from values of their types. *)
LEMMA RestNext == IInv /\ RestType /\ [Next]_vars => RestType'
<1> SUFFICES ASSUME IInv, RestType, [Next]_vars PROVE RestType'
  OBVIOUS
<1> DEFINE Pcs == {"top", "import", "select", "reply", "enqueue", "stopped"}
           Flags == fetchArmed' \in BOOLEAN /\ completeArmed' \in BOOLEAN /\ pc' \in Pcs
           Numbers == top' \in Nat /\ height' \in Nat /\ inputs' \in Nat
           Sets == known' \subseteq Blocks \cup {Genesis} /\ dropped' \subseteq Peers
<1>1. fetchArmed \in BOOLEAN /\ completeArmed \in BOOLEAN /\ pc \in Pcs
      /\ top \in Nat /\ height \in Nat /\ inputs \in Nat
      /\ known \subseteq Blocks \cup {Genesis} /\ dropped \subseteq Peers
  BY Zenon DEF RestType
<1>2. announces' \in [Peers -> Int]
  BY CountersKept, Zenon DEF RestType
<1>3. Heights \subseteq Nat /\ Valid \subseteq Blocks
  BY FetcherAssumption DEF Heights
<1>4. \A r \in imports : r.hash \in Blocks /\ r.origin \in Peers
  BY DEF IInv, QueueInv, QueueType, import
<1>5. \A b \in Blocks : fetching[b] # None => fetching[b].origin \in Peers
  BY DEF IInv, NoteInv, NoteType, announce
<1>6. CASE LoopStep
  <2>1. Flags
    BY <1>1, <1>6, Zenon DEF LoopStep, Top, ImportWait, Reply, ImportPop, EnqueueNext, Done,
       FetchTimer, CompleteTimer, timerVars
  <2>2. (top' = top \/ top' = height) /\ height' = height /\ inputs' = inputs
        /\ known' = known /\ dropped' = dropped
    BY <1>6, Zenon DEF LoopStep, Top, ImportWait, Reply, ImportPop, EnqueueNext, Done,
       FetchTimer, CompleteTimer, chainVars
  <2> QED
    BY <1>1, <1>2, <2>1, <2>2, Zenon DEF RestType
<1>7. CASE InputStep
  <2>1. Flags
    BY <1>1, <1>7, Zenon DEF InputStep, Notify, Inject, HeaderFilter, BodyFilter, Quit, timerVars
  <2>2. top' = top /\ height' = height /\ known' = known /\ (inputs' = inputs \/ inputs' = inputs + 1)
    BY <1>7, Zenon DEF InputStep, Notify, Inject, HeaderFilter, BodyFilter, Quit, chainVars
  <2>3. inputs' \in Nat
    BY <1>1, <2>2
  <2>4. dropped' \subseteq Peers
    BY <1>1, <1>5, <1>7, Zenon DEF InputStep, Notify, Inject, HeaderFilter, BodyFilter, Quit, Wanted
  <2> QED
    BY <1>1, <1>2, <2>1, <2>2, <2>3, <2>4, Zenon DEF RestType
<1>8. CASE ImportStep
  <2>1. UNCHANGED timerVars /\ pc' = pc /\ top' = top /\ inputs' = inputs
    BY <1>8, Zenon DEF ImportStep, ImportParent, ImportVerify, ImportInsert
  <2>2. Sets
    BY <1>1, <1>4, <1>8, Zenon DEF ImportStep, ImportParent, ImportVerify, ImportInsert, chainVars
  <2>3. height' = height \/ height' \in Heights
    BY <1>8, Zenon DEF ImportStep, ImportParent, ImportVerify, ImportInsert, chainVars
  <2> QED
    BY <1>1, <1>2, <1>3, <2>1, <2>2, <2>3, Zenon DEF RestType, timerVars
<1>9. CASE (\E b \in Blocks, h \in Heights : ChainGrows(b, h)) \/ UNCHANGED vars
  <2>1. UNCHANGED timerVars /\ pc' = pc /\ top' = top /\ inputs' = inputs /\ dropped' = dropped
    BY <1>9, Zenon DEF ChainGrows, vars
  <2>2. known' \subseteq Blocks \cup {Genesis} /\ (height' = height \/ height' \in Heights)
    BY <1>1, <1>9, Zenon DEF ChainGrows, vars, chainVars
  <2> QED
    BY <1>1, <1>2, <1>3, <2>1, <2>2, Zenon DEF RestType, timerVars
<1> QED
  BY <1>6, <1>7, <1>8, <1>9, Zenon DEF Next

(***************************************************************************)
(* Every variable of the loop keeps its type.  Of the counters only queues  *)
(* stays between 0 and its limit; announces is an integer, since forgetHash *)
(* counts a fetch down when its timer fires and again when it ends.         *)
(***************************************************************************)
THEOREM FetcherTypes == Spec => []TypeOK
<1>1. Init => RestType
  BY DEF Init, RestType
<1>2. IInv /\ RestType => TypeOK
  <2> SUFFICES ASSUME IInv, RestType PROVE TypeOK
    OBVIOUS
  <2>1. \A p \in Peers : queues[p] \in 0..blockLimit
    <3> TAKE p \in Peers
    <3>1. IsFiniteSet(QueuedOf(p))
      BY FetcherAssumption, FS_Subset, Zenon DEF QueuedOf
    <3>2. Cardinality(QueuedOf(p)) \in Nat
      BY <3>1, FS_CardinalityType, Zenon
    <3>3. queues[p] = Cardinality(QueuedOf(p)) /\ queues[p] <= blockLimit
      BY Zenon DEF IInv, QueueInv, Allowance
    <3> QED
      BY <3>2, <3>3, FetcherAssumption
  <2>2. queues \in [Peers -> Int]
    BY Zenon DEF IInv, QueueInv, QueueType
  <2>3. queues \in [Peers -> 0..blockLimit]
    BY <2>1, <2>2
  <2> QED
    BY <2>3, Zenon DEF IInv, NoteInv, NoteType, BatchInv, QueueInv, QueueType, RestType, TypeOK
<1> QED
  BY <1>1, <1>2, RestNext, FetcherInvariance, PTL DEF Spec
=============================================================================
