------------------------------- MODULE TxPool -------------------------------
(***************************************************************************)
(* The transaction pool (core/tx_pool.go, core/tx_list.go,                 *)
(* core/tx_journal.go).                                                    *)
(*                                                                         *)
(* Every public operation holds pool.mu from its first read to its last    *)
(* write, so each is one step.  What is hard is what a sequence of them    *)
(* leaves behind: the same transaction is known to five structures         *)
(* (pending, queue, the lookup table, the price heap and the journal), and *)
(* the operations nest: a reset re-adds, an add discards, a discard        *)
(* demotes, a demotion queues.                                             *)
(*                                                                         *)
(* The pool is one record; each method of the code is an operator from the *)
(* pool it finds to the pool it leaves.  A list of an account is the set   *)
(* of the account's transactions.  The cost and the gas of a transaction   *)
(* are held against a limit in the same way; Cost stands for both.         *)
(***************************************************************************)
EXTENDS Integers, FiniteSets, SequencesExt

CONSTANTS
  Accounts,      \* senders
  Txs,           \* transactions
  Sender, Nonce, Price, Cost,      \* attributes of a transaction: functions
  Blocks, Genesis,                 \* blocks the head may move to
  Parent, Body,                    \* parent and transactions of a block
  Balance,                         \* balance of an account at a block
  PriceLimit,    \* the configured minimum price
  GasPrices,     \* values SetGasPrice is called with, and PriceLimit
  Submitters,    \* accounts whose transactions reach AddLocal
  Batches,       \* transactions that peers send together: sequences
  AccountSlots, GlobalSlots, AccountQueue, GlobalQueue, PriceBump,
  MaxJournal     \* bound of the model: length of the journal file

VARIABLE
  pool           \* the TxPool object, see TypeOK; its history fields are
                 \*   refused: a reset could not take back a transaction
                 \*   reentered: a transaction came back to the price heap
                 \*     beside its own stale entry

vars == <<pool>>

-----------------------------------------------------------------------------
(* The chain.                                                              *)

Chain[b \in Blocks] ==
  IF b = Genesis THEN <<b>> ELSE Append(Chain[Parent[b]], b)

StateNonce == [b \in Blocks |-> [a \in Accounts |->
  Cardinality({t \in Txs : Sender[t] = a
                 /\ \E c \in ToSet(Chain[b]) : t \in ToSet(Body[c])})]]

\* The orders a Go map of accounts may be walked in.
Orders == SetToSeqs(Accounts)

Before(o, a, b) == \E i, j \in DOMAIN o : i < j /\ o[i] = a /\ o[j] = b

-----------------------------------------------------------------------------
(* Lists of an account.                                                    *)

Of(S, a) == {t \in S : Sender[t] = a}

Slot(S, t) == {u \in Of(S, Sender[t]) : Nonce[u] = Nonce[t]}

Ascending(S) == SetToSortSeq(S, LAMBDA t, u : Nonce[t] < Nonce[u])

Descending(S) == Reverse(Ascending(S))

Highest(S, n) == ToSet(SubSeq(Descending(S), 1, n))

Better(t, old) ==
  /\ Price[t] > Price[old]
  /\ Price[t] >= (Price[old] * (100 + PriceBump)) \div 100

\* What txList.Add answers: the slot is free, or t outbids its holder.
Inserts(S, t) == \A old \in Slot(S, t) : Better(t, old)

\* The transactions that follow each other from the lowest nonce, when that
\* one is due.
Ready(S, start) ==
  {t \in S : \E f \in S :
     /\ \A u \in S : Nonce[f] <= Nonce[u]
     /\ Nonce[f] <= start
     /\ \A n \in Nonce[f] .. Nonce[t] : \E u \in S : Nonce[u] = n}

-----------------------------------------------------------------------------
(* The price heap: a bag of transactions and the count of its stale        *)
(* entries.                                                                *)

Heap(p) == {t \in Txs : p.items[t] > 0}

HeapLen(p) == SumFunction(p.items)

Cheaper(o, t, u) ==
  \/ Price[t] < Price[u]
  \/ Price[t] = Price[u] /\ Nonce[t] > Nonce[u]
  \/ Price[t] = Price[u] /\ Nonce[t] = Nonce[u] /\ Before(o, Sender[t], Sender[u])

Cheapest(p, o) == CHOOSE t \in Heap(p) : \A u \in Heap(p) : ~Cheaper(o, u, t)

\* Discarding a stale entry.
Unstale(p, t) == [p EXCEPT !.items[t] = @ - 1, !.stales = @ - 1]

Put(p, t) == [p EXCEPT !.items[t] = @ + 1, !.reentered = @ \/ p.items[t] > 0]

\* As Removed without the reset of the stale counter after a reheap.
Removed_keepcount(p) ==
  IF p.stales + 1 <= HeapLen(p) \div 4
  THEN [p EXCEPT !.stales = @ + 1]
  ELSE [p EXCEPT !.stales = @ + 1,
                 !.items = [t \in Txs |-> IF t \in p.all THEN 1 ELSE 0]]

Removed(p) ==
  IF p.stales + 1 <= HeapLen(p) \div 4
  THEN [p EXCEPT !.stales = @ + 1]
  ELSE [p EXCEPT !.stales = 0,
                 !.items = [t \in Txs |-> IF t \in p.all THEN 1 ELSE 0]]

RECURSIVE DropStale(_, _)
DropStale(p, o) ==
  IF Heap(p) # {} /\ Cheapest(p, o) \notin p.all
  THEN DropStale(Unstale(p, Cheapest(p, o)), o)
  ELSE p

\* Pops the heap until count transactions are dropped or the price reaches
\* the floor; the local ones go back.  Cap and Discard are this loop.
RECURSIVE Drain(_, _, _, _, _, _)
Drain(p, o, count, floor, drop, save) ==
  LET t == Cheapest(p, o)
      q == [p EXCEPT !.items[t] = @ - 1]
  IN  IF Heap(p) = {} \/ count = 0 \/ (t \in p.all /\ Price[t] >= floor)
      THEN [pool |-> FoldLeft(Put, p, save), drop |-> drop]
      ELSE IF t \notin p.all THEN Drain(Unstale(p, t), o, count, floor, drop, save)
      ELSE IF Sender[t] \in p.locals
           THEN Drain(q, o, count, floor, drop, Append(save, t))
           ELSE Drain(q, o, count - 1, floor, Append(drop, t), save)

\* Prices and counts no instance reaches.
Unlimited == 1000000

Cap(p, o, threshold) == Drain(p, o, Unlimited, threshold, <<>>, <<>>)

Discard(p, o, count) == Drain(p, o, count, Unlimited, <<>>, <<>>)

-----------------------------------------------------------------------------
(* Moving a transaction.                                                   *)

\* all.Remove and priced.Removed, which the code always calls together for a
\* transaction that leaves a list for good.
Forget(p, t) == Removed([p EXCEPT !.all = @ \ {t}])

ForgetSeq(p, ts) == FoldLeft(Forget, p, ts)

Know(p, t) == IF t \in p.all THEN p ELSE Put([p EXCEPT !.all = @ \cup {t}], t)

\* A list that became empty is deleted, and its cost cap with it.
TrimQueue(p, a) == IF Of(p.queue, a) = {} THEN [p EXCEPT !.qcap[a] = 0] ELSE p

TrimPending(p, a) ==
  IF Of(p.pending, a) = {}
  THEN [p EXCEPT !.pcap[a] = 0, !.beats = SelectSeq(@, LAMBDA b : b # a)]
  ELSE p

\* As enqueueTx without raising the cost cap of the list.
enqueueTx_cap(p, t) ==
  IF ~Inserts(p.queue, t) THEN p
  ELSE LET old == Slot(p.queue, t)
           q   == [p EXCEPT !.queue = (@ \ old) \cup {t}]
       IN  Know(ForgetSeq(q, SetToSeq(old)), t)

\* As enqueueTx forgetting to drop the old transaction from the table.
enqueueTx_keepold(p, t) ==
  IF ~Inserts(p.queue, t) THEN p
  ELSE LET old == Slot(p.queue, t)
           q   == [p EXCEPT !.queue = (@ \ old) \cup {t},
                            !.qcap[Sender[t]] = Max({@, Cost[t]})]
       IN  Know(q, t)

enqueueTx(p, t) ==
  IF ~Inserts(p.queue, t) THEN p
  ELSE LET old == Slot(p.queue, t)
           q   == [p EXCEPT !.queue = (@ \ old) \cup {t},
                            !.qcap[Sender[t]] = Max({@, Cost[t]})]
       IN  Know(ForgetSeq(q, SetToSeq(old)), t)

\* txList.Add on the pending list, and the forgetting of what it replaces.
AddPending(p, t) ==
  LET old == Slot(p.pending, t)
      q   == [p EXCEPT !.pending = (@ \ old) \cup {t},
                       !.pcap[Sender[t]] = Max({@, Cost[t]})]
  IN  Know(ForgetSeq(q, SetToSeq(old)), t)

promoteTx(p, t) ==
  LET a == Sender[t]
  IN  IF ~Inserts(p.pending, t) THEN Forget(p, t)
      ELSE [AddPending(p, t) EXCEPT
              !.beats = Append(SelectSeq(@, LAMBDA b : b # a), a),
              !.nonces[a] = Nonce[t] + 1]

\* As LowerNonce going one below the nonce that left.
LowerNonce_off(p, t) ==
  [p EXCEPT !.nonces[Sender[t]] = Min({@, Nonce[t] - 1})]

\* The pending nonce of the sender of a transaction that left pending.
LowerNonce(p, t) ==
  [p EXCEPT !.nonces[Sender[t]] = Min({@, Nonce[t]})]

\* As Unlist leaving the later transactions of the account in pending.
Unlist_strict(p, t) ==
  IF Slot(p.pending, t) # {}
  THEN LowerNonce(TrimPending([p EXCEPT !.pending = @ \ Slot(@, t)], Sender[t]), t)
  ELSE TrimQueue([p EXCEPT !.queue = @ \ Slot(@, t)], Sender[t])

\* A transaction leaves its list; those behind it in pending are queued.
Unlist(p, t) ==
  LET later == {u \in Of(p.pending, Sender[t]) : Nonce[u] > Nonce[t]}
      cut   == [p EXCEPT !.pending = @ \ (Slot(@, t) \cup later)]
  IN  IF Slot(p.pending, t) # {}
      THEN LowerNonce(FoldLeft(enqueueTx, TrimPending(cut, Sender[t]), Ascending(later)), t)
      ELSE TrimQueue([p EXCEPT !.queue = @ \ Slot(@, t)], Sender[t])

removeTx(p, t, outofbound) ==
  IF t \notin p.all THEN p
  ELSE Unlist(IF outofbound THEN Forget(p, t) ELSE [p EXCEPT !.all = @ \ {t}], t)

RemoveSeq(p, ts, outofbound) ==
  FoldLeft(LAMBDA q, t : removeTx(q, t, outofbound), p, ts)

-----------------------------------------------------------------------------
(* promoteExecutables.                                                     *)

\* What txList.Filter drops: nothing when the cached cap is within the limit.
Unpayable(S, cap, limit) ==
  IF cap <= limit THEN {} ELSE {t \in S : Cost[t] > limit}

\* The steps of promoteExecutables for one account: what is mined goes, what
\* cannot be paid goes, what is due is promoted, what is too much goes.
ForwardQueue(p, a) ==
  LET old == {t \in Of(p.queue, a) : Nonce[t] < StateNonce[p.head][a]}
  IN  ForgetSeq([p EXCEPT !.queue = @ \ old], Ascending(old))

FilterQueue(p, a) ==
  LET limit == Balance[p.head][a]
      drops == Unpayable(Of(p.queue, a), p.qcap[a], limit)
  IN  ForgetSeq([p EXCEPT !.queue = @ \ drops, !.qcap[a] = Min({@, limit})], Ascending(drops))

PromoteReady(p, a) ==
  LET ready == Ready(Of(p.queue, a), p.nonces[a])
  IN  FoldLeft(promoteTx, [p EXCEPT !.queue = @ \ ready], Ascending(ready))

CapAccount(p, a) ==
  LET over == IF a \in p.locals THEN {}
              ELSE Highest(Of(p.queue, a), Cardinality(Of(p.queue, a)) - AccountQueue)
  IN  ForgetSeq([p EXCEPT !.queue = @ \ over], Descending(over))

PromoteAccount(p, a) ==
  IF Of(p.queue, a) = {} THEN p
  ELSE TrimQueue(CapAccount(PromoteReady(FilterQueue(ForwardQueue(p, a), a), a), a), a)

PendingLen(p, a) == Cardinality(Of(p.pending, a))

\* One transaction, the highest, of each of these accounts leaves pending.
CapOne(p, as) ==
  LET cap(q, a) ==
        LET t == Descending(Of(q.pending, a))[1]
        IN  LowerNonce(Forget([q EXCEPT !.pending = @ \ {t}], t), t)
  IN  FoldLeft(cap, p, as)

\* Caps the accounts until the global limit is met or the last of them is
\* down to the threshold.
RECURSIVE CapDown(_, _, _, _)
CapDown(p, as, last, threshold) ==
  IF Cardinality(p.pending) > GlobalSlots /\ PendingLen(p, last) > threshold
  THEN CapDown(CapOne(p, as), as, last, threshold)
  ELSE p

\* Spammers are met from the largest down; the ones met before are cut to the
\* size of the next.
RECURSIVE Equalise(_, _, _)
Equalise(p, offenders, spammers) ==
  IF Cardinality(p.pending) > GlobalSlots /\ spammers # <<>>
  THEN LET o == Head(spammers)
           q == IF offenders = <<>> THEN p
                ELSE CapDown(p, offenders, Last(offenders), PendingLen(p, o))
       IN  Equalise(q, Append(offenders, o), Tail(spammers))
  ELSE IF offenders = <<>> THEN p
  ELSE CapDown(p, offenders, Last(offenders), AccountSlots)

CapPending(p, o) ==
  LET spammers == {a \in Accounts \ p.locals : PendingLen(p, a) > AccountSlots}
  IN  Equalise(p, <<>>, SetToSortSeq(spammers, LAMBDA a, b :
        \/ PendingLen(p, a) > PendingLen(p, b)
        \/ PendingLen(p, a) = PendingLen(p, b) /\ Before(o, a, b)))

\* The accounts by their last promotion, the latest first; one that is in no
\* beat comes last.
ByHeartbeat(p, o, as) ==
  SetToSortSeq(as, LAMBDA a, b :
    \/ Before(p.beats, b, a)
    \/ Contains(p.beats, a) /\ ~Contains(p.beats, b)
    \/ ~Contains(p.beats, a) /\ ~Contains(p.beats, b) /\ Before(o, a, b))

\* As CapQueue never cutting.
CapQueue_never(p, o) == p

CapQueue(p, o) ==
  LET addresses == {a \in Accounts \ p.locals : Of(p.queue, a) # {}}
      cut(s, a) ==
        LET size == Cardinality(Of(s.pool.queue, a))
            gone == Highest(Of(s.pool.queue, a), Min({size, s.drop}))
        IN  [pool |-> RemoveSeq(s.pool, IF size <= s.drop THEN Ascending(gone)
                                                         ELSE Descending(gone), TRUE),
             drop |-> s.drop - Cardinality(gone)]
  IN  IF Cardinality(p.queue) <= GlobalQueue THEN p
      ELSE FoldLeft(cut, [pool |-> p, drop |-> Cardinality(p.queue) - GlobalQueue],
                    ByHeartbeat(p, o, addresses)).pool

promoteExecutables(p, o, as) ==
  CapQueue(CapPending(
    FoldLeft(PromoteAccount, p, SelectSeq(o, LAMBDA a : a \in as)), o), o)

-----------------------------------------------------------------------------
(* demoteUnexecutables.                                                    *)

ForwardPending(p, a) ==
  LET old == {t \in Of(p.pending, a) : Nonce[t] < StateNonce[p.head][a]}
  IN  ForgetSeq([p EXCEPT !.pending = @ \ old], Ascending(old))

FilterPending(p, a) ==
  LET limit == Balance[p.head][a]
      drops == Unpayable(Of(p.pending, a), p.pcap[a], limit)
      later == {t \in Of(p.pending, a) \ drops : \E u \in drops : Nonce[u] < Nonce[t]}
      q     == [p EXCEPT !.pending = @ \ (drops \cup later), !.pcap[a] = Min({@, limit})]
  IN  FoldLeft(enqueueTx, ForgetSeq(q, Ascending(drops)), Ascending(later))

\* A list that does not begin with the nonce of the account is queued as it is.
DemoteGap(p, a) ==
  LET gap == IF \E t \in Of(p.pending, a) : Nonce[t] = StateNonce[p.head][a] THEN {}
             ELSE Of(p.pending, a)
  IN  FoldLeft(enqueueTx, [p EXCEPT !.pending = @ \ gap], Descending(gap))

DemoteAccount(p, a) ==
  IF Of(p.pending, a) = {} THEN p
  ELSE TrimPending(DemoteGap(FilterPending(ForwardPending(p, a), a), a), a)

demoteUnexecutables(p, o) == FoldLeft(DemoteAccount, p, o)

-----------------------------------------------------------------------------
(* Adding.                                                                 *)

validateTx(p, t, local) ==
  /\ local \/ Sender[t] \in p.locals \/ Price[t] >= p.gasPrice
  /\ Nonce[t] >= StateNonce[p.head][Sender[t]]
  /\ Cost[t] <= Balance[p.head][Sender[t]]

Limit == GlobalSlots + GlobalQueue

journalTx(p, t) ==
  IF Sender[t] \in p.locals /\ p.writing
  THEN [p EXCEPT !.journal = Append(@, t)]
  ELSE p

Refuse(p) == [pool |-> p, err |-> TRUE, replace |-> FALSE]

Accept(p, replace) == [pool |-> p, err |-> FALSE, replace |-> replace]

\* The part of add that comes after room was made.
Insert(p, t, local) ==
  LET a == Sender[t]
      q == enqueueTx(p, t)
  IN  CASE Slot(p.pending, t) # {} /\ ~Inserts(p.pending, t) -> Refuse(p)
        [] Slot(p.pending, t) # {} /\ Inserts(p.pending, t) ->
             Accept(journalTx(AddPending(p, t), t), TRUE)
        [] Slot(p.pending, t) = {} /\ ~Inserts(p.queue, t) -> Refuse(p)
        [] OTHER ->
             Accept(journalTx([q EXCEPT !.locals = IF local THEN @ \cup {a} ELSE @], t),
                    Slot(p.queue, t) # {})

\* What Cap and Discard took from the heap is removed from the pool.
RemoveDrained(d) == RemoveSeq(d.pool, d.drop, FALSE)

\* As MakeRoom discarding one transaction less than it has to.
MakeRoom_one(p, o) == RemoveDrained(Discard(p, o, Cardinality(p.all) - Limit))

MakeRoom(p, o) == RemoveDrained(Discard(p, o, Cardinality(p.all) - (Limit - 1)))

Full(p) == Cardinality(p.all) >= Limit

\* Underpriced looks at the heap, and cleans its top, only for these.
Asks(p, t, local) == Full(p) /\ ~local /\ Sender[t] \notin p.locals

Underpriced(p, o, t) == Heap(p) # {} /\ Price[Cheapest(p, o)] >= Price[t]

\* The part of add after the heap was cleaned.
Outbid(p, o, t, local) ==
  IF Asks(p, t, local) /\ Underpriced(p, o, t) THEN Refuse(p)
  ELSE Insert(IF Full(p) THEN MakeRoom(p, o) ELSE p, t, local)

add(p, o, t, local) ==
  IF t \in p.all \/ ~validateTx(p, t, local) THEN Refuse(p)
  ELSE Outbid(IF Asks(p, t, local) THEN DropStale(p, o) ELSE p, o, t, local)

\* The accounts that got a new transaction are promoted, when add is done.
Promoted(s, o) ==
  [s EXCEPT !.pool = IF s.dirty = {} THEN @ ELSE promoteExecutables(@, o, s.dirty)]

\* What add answered for t is noted beside the pool.
Noted(s, t, r) ==
  [pool  |-> r.pool,
   dirty |-> IF r.err \/ r.replace THEN s.dirty ELSE s.dirty \cup {Sender[t]},
   errs  |-> s.errs \/ r.err]

addTxsLocked(p, o, ts, local) ==
  Promoted(FoldLeft(LAMBDA s, t : Noted(s, t, add(s.pool, o, t, local)),
                    [pool |-> p, dirty |-> {}, errs |-> FALSE], ts), o)

\* A new transaction, unless it replaces one, lets its sender's promote.
Followed(r, o, t) ==
  IF r.err \/ r.replace THEN r.pool ELSE promoteExecutables(r.pool, o, {Sender[t]})

addTx(p, o, t, local) == Followed(add(p, o, t, local), o, t)

-----------------------------------------------------------------------------
(* A new head.                                                             *)

\* The transactions of the blocks of b's chain that are not of c's, tip first.
Abandoned(b, c) ==
  FlattenSeq([i \in 1 .. Len(Chain[b]) |->
    LET d == Reverse(Chain[b])[i]
    IN  IF d \in ToSet(Chain[c]) THEN <<>> ELSE Body[d]])

Reinject(old, new) ==
  IF Parent[new] = old THEN <<>>
  ELSE SelectSeq(Abandoned(old, new), LAMBDA t : t \notin ToSet(Abandoned(new, old)))

\* A pending nonce is the one after the last pending transaction.
SetNonces(p) ==
  [p EXCEPT !.nonces = [a \in Accounts |->
     IF Of(p.pending, a) = {} THEN @[a] ELSE 1 + Max({Nonce[t] : t \in Of(p.pending, a)})]]

\* The end of reset, after the transactions r were taken back.
Settle(r, o) ==
  promoteExecutables(
    SetNonces(demoteUnexecutables([r.pool EXCEPT !.refused = @ \/ r.errs], o)), o, Accounts)

reset(p, o, old, new) ==
  LET fresh == [p EXCEPT !.head = new,
                         !.nonces = [a \in Accounts |-> StateNonce[new][a]]]
  IN  Settle(addTxsLocked(fresh, o, Reinject(old, new), FALSE), o)

-----------------------------------------------------------------------------
(* The journal.                                                            *)

\* What local() returns, in the order rotate writes it.
Rotated(p, o) ==
  FlattenSeq([i \in 1 .. Len(o) |->
    IF o[i] \in p.locals
    THEN Ascending(Of(p.pending, o[i])) \o Ascending(Of(p.queue, o[i]))
    ELSE <<>>])

rotate(p, o) == [p EXCEPT !.journal = Rotated(p, o)]

EmptyPool(h, file) ==
  [head |-> h, gasPrice |-> PriceLimit, journal |-> file, writing |-> FALSE,
   pending |-> {}, queue |-> {}, all |-> {}, locals |-> {}, beats |-> <<>>,
   pcap |-> [a \in Accounts |-> 0], qcap |-> [a \in Accounts |-> 0],
   nonces |-> [a \in Accounts |-> StateNonce[h][a]],
   items |-> [t \in Txs |-> 0], stales |-> 0,
   refused |-> FALSE, reentered |-> FALSE]

\* As NewTxPool rotating the journal before it is loaded.
NewTxPool_order(o, h, file) ==
  [rotate(EmptyPool(h, file), o) EXCEPT !.writing = TRUE]

NewTxPool(o, h, file) ==
  [rotate(addTxsLocked(EmptyPool(h, file), o, file, TRUE).pool, o)
     EXCEPT !.writing = TRUE]

-----------------------------------------------------------------------------
(* The operations.                                                         *)

Init == pool = NewTxPool(SetToSeq(Accounts), Genesis, <<>>)

Bounded == Len(pool'.journal) <= MaxJournal

AddRemote == \E t \in Txs, o \in Orders : pool' = addTx(pool, o, t, FALSE) /\ Bounded

\* A message of a peer; its transactions are promoted only after the last one.
AddRemotes ==
  \E ts \in Batches, o \in Orders :
    pool' = addTxsLocked(pool, o, ts, FALSE).pool /\ Bounded

AddLocal ==
  \E t \in Txs, o \in Orders :
    Sender[t] \in Submitters /\ pool' = addTx(pool, o, t, TRUE) /\ Bounded

NewHead ==
  \E h \in Blocks \ {pool.head}, o \in Orders :
    pool' = reset(pool, o, pool.head, h) /\ Bounded

SetGasPrice ==
  \E gp \in GasPrices, o \in Orders :
    pool' = RemoveDrained(Cap([pool EXCEPT !.gasPrice = gp], o, gp))

\* The eviction tick: an account without a beat has the zero time and is
\* always out of its lifetime, another one may be.
Evict ==
  \E S \in SUBSET ToSet(pool.beats), o \in Orders :
    LET out(a) == a \notin pool.locals /\ (a \in S \/ ~Contains(pool.beats, a))
        evict(p, a) == RemoveSeq(p, Ascending(Of(p.queue, a)), TRUE)
    IN  pool' = FoldLeft(evict, pool, SelectSeq(o, out))

RotateJournal == \E o \in Orders : pool' = rotate(pool, o)

\* The node stops, or dies, and comes back; the chain may have another head.
Restart ==
  \E o \in Orders, h \in Blocks : pool' = NewTxPool(o, h, pool.journal)

Next == AddRemote \/ AddRemotes \/ AddLocal \/ NewHead \/ SetGasPrice \/ Evict \/ RotateJournal \/ Restart

Spec == Init /\ [][Next]_vars

-----------------------------------------------------------------------------
(* Properties.                                                             *)

\* The fields of the pool hold what their types say.
TypeOK ==
  /\ pool.pending \subseteq Txs /\ pool.queue \subseteq Txs /\ pool.all \subseteq Txs
  /\ pool.locals \subseteq Accounts /\ ToSet(pool.beats) \subseteq Accounts
  /\ pool.items \in [Txs -> Nat] /\ pool.stales \in Int
  /\ pool.nonces \in [Accounts -> Nat]
  /\ pool.pcap \in [Accounts -> Nat] /\ pool.qcap \in [Accounts -> Nat]
  /\ pool.head \in Blocks /\ pool.gasPrice \in GasPrices
  /\ ToSet(pool.journal) \subseteq Txs
  /\ pool.refused \in BOOLEAN /\ pool.reentered \in BOOLEAN /\ pool.writing

\* The lookup table holds exactly the transactions of the two lists, and an
\* account has at most one transaction of a nonce, in one of the lists
\* (validateTxPoolInternals of the tests, over any sequence of operations).
OnePlace ==
  /\ pool.all = pool.pending \cup pool.queue
  /\ \A t, u \in pool.all : Sender[t] = Sender[u] /\ Nonce[t] = Nonce[u] => t = u
  /\ pool.pending \cap pool.queue = {}

\* The live entries of the price heap are as many as the transactions, so
\* long as no transaction came back beside its own stale entry
\* (txPricedList, validateTxPoolInternals).
PricedExact == ~pool.reentered => HeapLen(pool) - pool.stales = Cardinality(pool.all)

\* The lists, the lookup table and the price heap agree, after any sequence of
\* operations that nest in each other (add, removeTx, enqueueTx, promoteTx).
IndexesAgree == TypeOK /\ OnePlace /\ PricedExact

\* Every transaction of the pool could still be executed at the head: its
\* nonce is not used and the sender can pay it, whatever the cached cost caps
\* let Filter skip (txList.Filter).
Payable ==
  \A t \in pool.all :
    /\ Nonce[t] >= StateNonce[pool.head][Sender[t]]
    /\ Cost[t] <= Balance[pool.head][Sender[t]]

\* The pending transactions of an account follow each other from the nonce of
\* the account, and the pending nonce is the one after the last, unless a
\* reorganisation could not take back a transaction (pool.pendingState).
PendingFollows ==
  \A a \in Accounts :
    LET ns == {Nonce[t] : t \in Of(pool.pending, a)}
    IN  /\ ns # {} => Min(ns) = StateNonce[pool.head][a]
        /\ ~pool.refused => ns = StateNonce[pool.head][a] .. pool.nonces[a] - 1

\* Every transaction can be executed at the head, and the pending ones in the
\* order of their nonces (demoteUnexecutables, promoteExecutables).
Executable == Payable /\ PendingFollows

\* The pool holds no more than its two global limits, but for transactions of
\* local accounts and one of a remote that came when only those were left, also
\* when a transaction is in the price heap twice (add, txPricedList.Discard).
PoolBound ==
  \/ Cardinality(pool.all) <= Limit
  \/ Cardinality({t \in pool.all : Sender[t] \notin pool.locals}) <= 1

\* A new head leaves no list of a remote account over its limit while the
\* global limit is passed (reset ends in promoteExecutables).
HeadEnforcesLimits ==
  [][pool'.head # pool.head =>
       \A a \in Accounts \ pool'.locals :
         /\ Cardinality(Of(pool'.queue, a)) <= AccountQueue
         /\ Cardinality(pool'.queue) > GlobalQueue => Of(pool'.queue, a) = {}
         /\ Cardinality(pool'.pending) > GlobalSlots
              => PendingLen(pool', a) <= AccountSlots]_vars

\* A transaction of a local account leaves the pool only when it is executed,
\* cannot be paid any more, is outbid by its sender, or the node restarts
\* without having journaled it (AddLocal's promise).
LocalsKept ==
  [][\A t \in pool.all \ pool'.all : Sender[t] \in pool.locals =>
       \/ Nonce[t] < StateNonce[pool'.head][Sender[t]]
       \/ Cost[t] > Balance[pool'.head][Sender[t]]
       \/ \E u \in pool'.all : u \in Slot(Txs, t) /\ Better(u, t)
       \/ ~Contains(pool.journal, t) /\ Restart]_vars

\* As the tests have it (validateTxPoolInternals): the pending nonce of an
\* account with pending transactions is the one after the last of them.
NonceMatches ==
  \A a \in Accounts :
    Of(pool.pending, a) # {} =>
      pool.nonces[a] = 1 + Max({Nonce[t] : t \in Of(pool.pending, a)})

=============================================================================
