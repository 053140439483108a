--------------------------- MODULE DownloadQueue ---------------------------
(***************************************************************************)
(* The download scheduler of a chain synchronisation                        *)
(* (eth/downloader/queue.go), from the moment the header processor hands it *)
(* verified headers to the moment the content processor takes assembled     *)
(* results out of it.  Every method of the code runs under one mutex, so    *)
(* every method is one action.                                              *)
(*                                                                         *)
(* A header stands for its own hash.  The body and the receipt pools of the *)
(* code have the same shape and share their code (reserveHeaders, deliver,  *)
(* expire), so every pool is a function of the kind of data.  The priority  *)
(* queues, ordered by block number, are sets read in number order; a set is *)
(* exact as long as no header is pushed twice, which is what                *)
(* ExactlyOnePlace says.                                                    *)
(***************************************************************************)
EXTENDS Integers, FiniteSets, Sequences

CONSTANTS
  Peers,          \* the peers data can be requested from
  Headers,        \* every header some peer may offer
  Number,         \* Number[h]: the block number of h
  Parent,         \* Parent[h]: the parent hash of h
  Noop,           \* Noop[k]: the headers whose data of kind k is empty
  NoHeader,       \* the zero hash (common.Hash{})
  Nil,            \* an unallocated slot of the result cache
  CacheItems,     \* blockCacheItems: the slots of the result cache
  MaxResults,     \* maxResultsProcess: most results taken by one call
  MaxLacking,     \* maxLackingHashes: most hashes remembered per peer
  MaxQueued,      \* maxQueuedHeaders: pending tasks that stall scheduling
  MaxChunk,       \* longest batch of headers scheduled at once
  MaxCount        \* largest capacity estimate of a peer

Kinds == {"body", "receipt"}
Modes == {"FullSync", "FastSync"}

ASSUME CountAssumption ==
  /\ CacheItems \in Nat \ {0} /\ MaxResults \in Nat \ {0}
  /\ MaxLacking \in Nat \ {0} /\ MaxQueued \in Nat \ {0}
  /\ MaxChunk \in Nat \ {0} /\ MaxCount \in Nat \ {0}

ASSUME HeaderAssumption ==
  /\ IsFiniteSet(Headers) /\ IsFiniteSet(Peers)
  /\ Number \in [Headers -> Nat \ {0}]
  /\ Parent \in [Headers -> Headers \cup {NoHeader}]
  /\ Noop \in [Kinds -> SUBSET Headers]
  /\ NoHeader \notin Headers

(***************************************************************************)
(* A slot of the result cache: the header, the number of components still   *)
(* to come, and the components a peer has supplied.                         *)
(***************************************************************************)
fetchResult == [hash : Headers, pending : Int, parts : SUBSET Kinds]

ASSUME NilAssumption == Nil \notin fetchResult

VARIABLES
  mode,           \* the strategy of this synchronisation
  origin,         \* the header processor's next block number (processHeaders)
  headerHead,     \* hash of the last scheduled header
  taskPool,       \* taskPool[k]: the headers whose data of kind k is owed
  taskQueue,      \* taskQueue[k]: those of them waiting for a peer
  pendPool,       \* pendPool[k][p]: those of them requested from p
  donePool,       \* donePool[k]: the headers whose data of kind k is complete
  resultCache,    \* the results being assembled, by index
  resultOffset,   \* block number of resultCache[0]
  limit,          \* slots the memory allowance leaves (from resultSize)
  lacking,        \* lacking[p]: hashes p is known not to have
  consumer,       \* the content processor: in or out of active.Wait(), or gone
  closed,         \* the queue has been closed
  err,            \* first error a goroutine of the synchronisation returned
  scheduled,      \* history: the headers accepted by Schedule
  delivered       \* history: the results handed out by Results

poolVars == <<taskPool, taskQueue, pendPool, donePool>>
cacheVars == <<resultCache, resultOffset, limit>>
headVars == <<mode, origin, headerHead, scheduled>>
vars == <<headVars, poolVars, cacheVars, lacking, consumer, closed, err, delivered>>

(***************************************************************************)
(* The kinds of data a result is assembled from.                            *)
(***************************************************************************)
Needed(m) == IF m = "FastSync" THEN Kinds ELSE {"body"}

Indices == 0 .. CacheItems - 1

Index(h) == Number[h] - resultOffset
Allocated(h) == Index(h) \in Indices /\ resultCache[Index(h)] # Nil

\* As resultSlots would be if it did not count the requests in flight.
resultSlots_noPending(k) ==
  limit - Cardinality({i \in 0 .. limit - 1 : /\ \A j \in 0 .. i : resultCache[j] # Nil
                                             /\ resultCache[i].hash \in donePool[k]})

(***************************************************************************)
(* Slots free for requests of kind k, under both the item and the memory    *)
(* allowance.  The finished ones are counted up to the first hole.          *)
(***************************************************************************)
resultSlots(k) ==
  LET finished == {i \in 0 .. limit - 1 :
                     /\ \A j \in 0 .. i : resultCache[j] # Nil
                     /\ resultCache[i].hash \in donePool[k]}
      pending  == {r \in Peers \X Headers :
                     /\ r[2] \in pendPool[k][r[1]]
                     /\ Number[r[2]] < resultOffset + limit}
  IN limit - Cardinality(finished) - Cardinality(pending)

(***************************************************************************)
(* countProcessableItems() = n: the leading results every component of      *)
(* which has arrived.                                                       *)
(***************************************************************************)
Complete(i) == resultCache[i] # Nil /\ resultCache[i].pending <= 0

countProcessableItems(n) ==
  /\ n \in 0 .. CacheItems
  /\ \A i \in 0 .. n - 1 : Complete(i)
  /\ n < CacheItems => ~Complete(n)

Smaller(a, b) == IF a < b THEN a ELSE b

(***************************************************************************)
(* active.Signal and active.Broadcast: the blocked content processor runs   *)
(* again.                                                                   *)
(***************************************************************************)
Wake == IF consumer = "wait" THEN "run" ELSE consumer

-----------------------------------------------------------------------------
(***************************************************************************)
(* synchronise: Reset, peers.Reset, then Prepare(o, m).  The memory         *)
(* estimate, hence limit, survives a Reset.                                 *)
(***************************************************************************)
Origins == {Number[h] : h \in Headers}

Init ==
  /\ mode \in Modes
  /\ origin \in Origins
  /\ headerHead = NoHeader
  /\ scheduled = {}
  /\ taskPool  = [k \in Kinds |-> {}]
  /\ taskQueue = [k \in Kinds |-> {}]
  /\ pendPool  = [k \in Kinds |-> [p \in Peers |-> {}]]
  /\ donePool  = [k \in Kinds |-> {}]
  /\ resultCache = [i \in Indices |-> Nil]
  /\ resultOffset = origin
  /\ limit = CacheItems
  /\ lacking = [p \in Peers |-> {}]
  /\ consumer = "run"
  /\ closed = FALSE
  /\ err = "none"
  /\ delivered = << >>

NewSync(o, m) ==
  /\ closed /\ consumer = "done"
  /\ mode' = m
  /\ origin' = o
  /\ headerHead' = NoHeader
  /\ scheduled' = {}
  /\ taskPool'  = [k \in Kinds |-> {}]
  /\ taskQueue' = [k \in Kinds |-> {}]
  /\ pendPool'  = [k \in Kinds |-> [p \in Peers |-> {}]]
  /\ donePool'  = [k \in Kinds |-> {}]
  /\ resultCache' = [i \in Indices |-> Nil]
  /\ resultOffset' = o
  /\ lacking' = [p \in Peers |-> {}]
  /\ consumer' = "run"
  /\ closed' = FALSE
  /\ err' = "none"
  /\ delivered' = << >>
  /\ UNCHANGED limit

\* As Close would be without active.Broadcast.
Close_silent ==
  /\ ~closed
  /\ closed' = TRUE
  /\ UNCHANGED <<headVars, poolVars, cacheVars, lacking, consumer, err, delivered>>

(***************************************************************************)
(* spawnSync closes the queue when a goroutine failed, when the             *)
(* synchronisation is cancelled and when all fetchers have returned.        *)
(***************************************************************************)
Close ==
  /\ ~closed
  /\ closed' = TRUE
  /\ consumer' = Wake
  /\ UNCHANGED <<headVars, poolVars, cacheVars, lacking, err, delivered>>

-----------------------------------------------------------------------------
\* As the loop of Schedule would be without its test of the number, or of the parent.
Links_anyNumber(chunk, i) ==
  LET head == IF i = 1 THEN headerHead ELSE chunk[i - 1]
  IN head = NoHeader \/ Parent[chunk[i]] = head

(***************************************************************************)
(* One iteration of Schedule accepts chunk[i] when its number is the next   *)
(* one, its parent is the last scheduled header and no pool holds it.  The  *)
(* loop leaves at the first header that breaks the order or the ancestry.   *)
(* A header already in a pool is passed over instead, but its number is     *)
(* below origin, so the number test has left the loop before.               *)
(***************************************************************************)
Links(chunk, i) ==
  LET head == IF i = 1 THEN headerHead ELSE chunk[i - 1]
  IN /\ Number[chunk[i]] = origin + i - 1
     /\ head = NoHeader \/ Parent[chunk[i]] = head
     /\ \A k \in Kinds : chunk[i] \notin taskPool[k]

Inserts(chunk, n) ==
  /\ n \in 0 .. Len(chunk)
  /\ \A i \in 1 .. n : Links(chunk, i)
  /\ n < Len(chunk) => ~Links(chunk, n + 1)

(***************************************************************************)
(* processHeaders hands Schedule one chunk of the headers a peer sent,      *)
(* unless enough tasks are pending; a chunk that is not accepted whole ends *)
(* the synchronisation.                                                     *)
(***************************************************************************)
Schedule(chunk) ==
  /\ err = "none"
  /\ \A k \in Kinds : Cardinality(taskQueue[k]) < MaxQueued
  /\ \E n \in 0 .. Len(chunk) :
       LET new == {chunk[i] : i \in 1 .. n}
       IN /\ Inserts(chunk, n)
          /\ taskPool'  = [k \in Kinds |-> IF k \in Needed(mode)
                             THEN taskPool[k] \cup new ELSE taskPool[k]]
          /\ taskQueue' = [k \in Kinds |-> IF k \in Needed(mode)
                             THEN taskQueue[k] \cup new ELSE taskQueue[k]]
          /\ headerHead' = IF n = 0 THEN headerHead ELSE chunk[n]
          /\ scheduled' = scheduled \cup new
          /\ origin' = origin + n
          /\ err' = IF n = Len(chunk) THEN err ELSE "errBadPeer"
  /\ UNCHANGED <<mode, pendPool, donePool, cacheVars, lacking, consumer, closed, delivered>>

Chunks == UNION {[1 .. n -> Headers] : n \in 1 .. MaxChunk}

-----------------------------------------------------------------------------
(***************************************************************************)
(* The loop of reserveHeaders pops tasks in number order until it has       *)
(* processed as many as there are free slots, has c headers to send, or the *)
(* queue is empty: it takes the shortest prefix at which one of these       *)
(* holds.  An empty block takes a slot but no turn of the loop              *)
(* (space-1, proc-1), which leaves the sum of both unchanged.               *)
(***************************************************************************)
Prefixes(S) == {{h \in S : Number[h] < n} : n \in {Number[h] : h \in S}} \cup {S}

Sendable(k, p, S) == S \ (Noop[k] \cup lacking[p])

ReserveStops(k, p, c, T) ==
  \/ T = taskQueue[k]
  \/ Cardinality(T) >= resultSlots(k)
  \/ Cardinality(Sendable(k, p, T)) >= c

Reservation(k, p, c, T) ==
  /\ T \in Prefixes(taskQueue[k])
  /\ ReserveStops(k, p, c, T)
  /\ \A U \in Prefixes(taskQueue[k]) : ReserveStops(k, p, c, U) => T \subseteq U

(***************************************************************************)
(* The slot of header h after its first reservation: a fresh one, or the    *)
(* one another kind of data has already allocated.                          *)
(***************************************************************************)
SlotOf(h) ==
  IF resultCache[Index(h)] = Nil
    THEN [hash |-> h, pending |-> Cardinality(Needed(mode)), parts |-> {}]
    ELSE resultCache[Index(h)]

Reserved(r, noop) ==
  [hash |-> r.hash, parts |-> r.parts,
   pending |-> IF noop THEN r.pending - 1 ELSE r.pending]

HeaderAt(S, i) == CHOOSE h \in S : Index(h) = i
Occupies(S, i) == \E h \in S : Index(h) = i

(***************************************************************************)
(* ReserveBodies, ReserveReceipts: allocate a slot for every popped header, *)
(* complete the empty ones at once, put back the ones p is known to lack,   *)
(* request the others from p.  A popped header outside of the cache is      *)
(* reported as errInvalidChain: what was popped by then is lost.            *)
(***************************************************************************)
Reserve(k, p, c) ==
  /\ taskQueue[k] # {}
  /\ pendPool[k][p] = {}
  /\ \E T \in Prefixes(taskQueue[k]) :
       LET popped == {h \in T : \A g \in T : Number[g] < Number[h] => Index(g) \in Indices}
           good   == {h \in popped : Index(h) \in Indices}
           ok     == good = T
           noop   == good \cap Noop[k]
           skip   == (good \ noop) \cap lacking[p]
           send   == Sendable(k, p, good)
       IN /\ Reservation(k, p, c, T)
          /\ resultCache' = [i \in Indices |->
               IF Occupies(good, i)
                 THEN Reserved(SlotOf(HeaderAt(good, i)), HeaderAt(good, i) \in noop)
                 ELSE resultCache[i]]
          /\ donePool' = [donePool EXCEPT ![k] = @ \cup noop]
          /\ taskPool' = [taskPool EXCEPT ![k] = @ \ noop]
          /\ taskQueue' = [taskQueue EXCEPT ![k] =
               IF ok THEN (@ \ T) \cup skip ELSE @ \ popped]
          /\ pendPool' = [pendPool EXCEPT ![k][p] = IF ok THEN send ELSE @]
          /\ consumer' = IF ok /\ noop # {} THEN Wake ELSE consumer
          /\ err' = IF ok \/ err # "none" THEN err ELSE "errInvalidChain"
  /\ UNCHANGED <<headVars, resultOffset, limit, lacking, closed, delivered>>

(***************************************************************************)
(* Requests of the peers in P that are taken back: their headers return to  *)
(* the task queue.                                                          *)
(***************************************************************************)
Requested(k, P) == UNION {pendPool[k][p] : p \in P}

(***************************************************************************)
(* ExpireBodies, ExpireReceipts: the requests of some peers have timed out. *)
(***************************************************************************)
Expire(k, P) ==
  /\ \A p \in P : pendPool[k][p] # {}
  /\ taskQueue' = [taskQueue EXCEPT ![k] = @ \cup Requested(k, P)]
  /\ pendPool' = [pendPool EXCEPT ![k] = [p \in Peers |-> IF p \in P THEN {} ELSE @[p]]]
  /\ UNCHANGED <<headVars, taskPool, donePool, cacheVars, lacking, consumer, closed, err, delivered>>

\* As Revoke would be without delete(pendPool, peerID).
Revoke_keepsRequest(p) ==
  /\ taskQueue' = [k \in Kinds |-> taskQueue[k] \cup pendPool[k][p]]
  /\ UNCHANGED <<headVars, taskPool, pendPool, donePool, cacheVars, lacking, consumer, closed, err, delivered>>

(***************************************************************************)
(* Revoke: peer p has been unregistered.                                    *)
(***************************************************************************)
Revoke(p) ==
  /\ taskQueue' = [k \in Kinds |-> taskQueue[k] \cup pendPool[k][p]]
  /\ pendPool' = [k \in Kinds |-> [pendPool[k] EXCEPT ![p] = {}]]
  /\ UNCHANGED <<headVars, taskPool, donePool, cacheVars, lacking, consumer, closed, err, delivered>>

(***************************************************************************)
(* MarkLacking for every header of S: at its limit the set drops arbitrary  *)
(* members first.                                                           *)
(***************************************************************************)
MarkLacking(old, S, new) ==
  /\ new \subseteq old \cup S
  /\ Cardinality(new) <= MaxLacking
  /\ Cardinality(old \cup S) < MaxLacking => new = old \cup S

Supplied(r, k) ==
  [hash |-> r.hash, pending |-> r.pending - 1, parts |-> r.parts \cup {k}]

(***************************************************************************)
(* DeliverBodies, DeliverReceipts: p answers its request of kind k.  The    *)
(* headers are matched in request order; match is the leading part of the   *)
(* request whose data the answer holds, empty says the answer had no items. *)
(* What was not matched returns to the task queue.  A header without a slot *)
(* stops the loop with errInvalidChain.                                     *)
(***************************************************************************)
Deliver(k, p, match, empty) ==
  /\ pendPool[k][p] # {}
  /\ match \in Prefixes(pendPool[k][p])
  /\ empty => match = {}
  /\ LET good == {h \in match : \A g \in match : Number[g] <= Number[h] => Allocated(g)}
     IN /\ resultCache' = [i \in Indices |->
             IF Occupies(good, i)
               THEN Supplied(resultCache[i], k)
               ELSE resultCache[i]]
        /\ donePool' = [donePool EXCEPT ![k] = @ \cup good]
        /\ taskPool' = [taskPool EXCEPT ![k] = @ \ good]
        /\ taskQueue' = [taskQueue EXCEPT ![k] = @ \cup (pendPool[k][p] \ good)]
        /\ consumer' = IF good # {} THEN Wake ELSE consumer
        /\ err' = IF good = match \/ err # "none" THEN err ELSE "errInvalidChain"
  /\ pendPool' = [pendPool EXCEPT ![k][p] = {}]
  /\ \E new \in SUBSET Headers :
       /\ IF empty THEN MarkLacking(lacking[p], pendPool[k][p], new) ELSE new = lacking[p]
       /\ lacking' = [lacking EXCEPT ![p] = new]
  /\ UNCHANGED <<headVars, resultOffset, limit, closed, delivered>>

-----------------------------------------------------------------------------
(***************************************************************************)
(* Results(true) blocks while nothing is complete and the queue is open.    *)
(***************************************************************************)
ResultsWait ==
  /\ consumer = "run"
  /\ countProcessableItems(0) /\ ~closed
  /\ consumer' = "wait"
  /\ UNCHANGED <<headVars, poolVars, cacheVars, lacking, closed, err, delivered>>

(***************************************************************************)
(* The slots the memory allowance leaves, for any size of a result: the     *)
(* quotient is rounded up, so at least one.                                 *)
(***************************************************************************)
Allowances == 1 .. CacheItems

\* As it would be if the offset moved past all complete results.
ResultsTake_offset ==
  /\ consumer = "run"
  /\ \E n \in 1 .. CacheItems, l \in Allowances :
       LET nproc == Smaller(n, MaxResults)
           taken == {resultCache[i].hash : i \in 0 .. nproc - 1}
       IN /\ countProcessableItems(n)
          /\ delivered' = delivered \o [i \in 1 .. nproc |-> resultCache[i - 1]]
          /\ donePool' = [k \in Kinds |-> donePool[k] \ taken]
          /\ resultCache' = [i \in Indices |->
               IF i + nproc \in Indices THEN resultCache[i + nproc] ELSE Nil]
          /\ resultOffset' = resultOffset + n
          /\ limit' = l
  /\ UNCHANGED <<headVars, taskPool, taskQueue, pendPool, lacking, consumer, closed, err>>

(***************************************************************************)
(* Results hands out the complete leading results, at most MaxResults, and  *)
(* shifts the cache.  The new estimate of a result's size may change the    *)
(* memory allowance.                                                        *)
(***************************************************************************)
ResultsTake ==
  /\ consumer = "run"
  /\ \E n \in 1 .. CacheItems, l \in Allowances :
       LET nproc == Smaller(n, MaxResults)
           taken == {resultCache[i].hash : i \in 0 .. nproc - 1}
       IN /\ countProcessableItems(n)
          /\ delivered' = delivered \o [i \in 1 .. nproc |-> resultCache[i - 1]]
          /\ donePool' = [k \in Kinds |-> donePool[k] \ taken]
          /\ resultCache' = [i \in Indices |->
               IF i + nproc \in Indices THEN resultCache[i + nproc] ELSE Nil]
          /\ resultOffset' = resultOffset + nproc
          /\ limit' = l
  /\ UNCHANGED <<headVars, taskPool, taskQueue, pendPool, lacking, consumer, closed, err>>

(***************************************************************************)
(* Results returns no result once the queue is closed and drained: the      *)
(* content processor ends.                                                  *)
(***************************************************************************)
ResultsEmpty ==
  /\ consumer = "run"
  /\ countProcessableItems(0) /\ closed
  /\ consumer' = "done"
  /\ UNCHANGED <<headVars, poolVars, cacheVars, lacking, closed, err, delivered>>

Next ==
  \/ \E o \in Origins, m \in Modes : NewSync(o, m)
  \/ Close
  \/ \E chunk \in Chunks : Schedule(chunk)
  \/ \E k \in Kinds, p \in Peers, c \in 1 .. MaxCount : Reserve(k, p, c)
  \/ \E k \in Kinds, P \in SUBSET Peers : Expire(k, P)
  \/ \E p \in Peers : Revoke(p)
  \/ \E k \in Kinds, p \in Peers, empty \in BOOLEAN :
       \E match \in Prefixes(pendPool[k][p]) : Deliver(k, p, match, empty)
  \/ ResultsWait
  \/ ResultsTake
  \/ ResultsEmpty

Spec == Init /\ [][Next]_vars

-----------------------------------------------------------------------------
(***************************************************************************)
(* Every variable of the queue stays within its type.                       *)
(***************************************************************************)
TypeOK ==
  /\ mode \in Modes
  /\ origin \in Nat
  /\ headerHead \in Headers \cup {NoHeader}
  /\ scheduled \subseteq Headers
  /\ taskPool \in [Kinds -> SUBSET Headers]
  /\ taskQueue \in [Kinds -> SUBSET Headers]
  /\ pendPool \in [Kinds -> [Peers -> SUBSET Headers]]
  /\ donePool \in [Kinds -> SUBSET Headers]
  /\ resultCache \in [Indices -> fetchResult \cup {Nil}]
  /\ resultOffset \in Nat
  /\ limit \in 1 .. CacheItems
  /\ lacking \in [Peers -> SUBSET Headers]
  /\ consumer \in {"run", "wait", "done"}
  /\ closed \in BOOLEAN
  /\ err \in {"none", "errBadPeer", "errInvalidChain"}
  /\ delivered \in Seq(fetchResult)

(***************************************************************************)
(* A header whose data is owed (taskPool) waits in the task queue or is     *)
(* requested from one peer, never both, never from two peers, and never     *)
(* after its data is complete: no expiry, revocation, partial answer or     *)
(* reservation loses a task or assigns it twice.                            *)
(***************************************************************************)
ExactlyOnePlace ==
  \A k \in Kinds :
    /\ taskPool[k] = taskQueue[k] \cup Requested(k, Peers)
    /\ \A p \in Peers : pendPool[k][p] \cap taskQueue[k] = {}
    /\ \A p, q \in Peers : p # q => pendPool[k][p] \cap pendPool[k][q] = {}
    /\ donePool[k] \cap taskPool[k] = {}

(***************************************************************************)
(* Of every scheduled header that was not handed out yet, each needed kind  *)
(* of data is either owed or complete; of one that was handed out, nothing  *)
(* is left in a pool.                                                       *)
(***************************************************************************)
NothingForgotten ==
  \A k \in Kinds :
    taskPool[k] \cup donePool[k] =
      IF k \in Needed(mode) THEN {h \in scheduled : Number[h] >= resultOffset} ELSE {}

Owed(h) == {k \in Needed(mode) : h \notin donePool[k]}

(***************************************************************************)
(* The Pending counter of a slot is the number of kinds of data that are    *)
(* not complete, and the slot belongs to the block its index says.          *)
(***************************************************************************)
PendingIsOwed ==
  \A i \in Indices : resultCache[i] # Nil =>
    LET r == resultCache[i]
    IN /\ Index(r.hash) = i
       /\ r.pending = Cardinality(Owed(r.hash))

(***************************************************************************)
(* "index allocation went beyond available resultCache space" is never      *)
(* reported, and no answer meets a missing slot: the free-slot count of     *)
(* resultSlots is never more than what fits into the cache.                 *)
(***************************************************************************)
NoIndexOverflow == err # "errInvalidChain"

(***************************************************************************)
(* Results come out complete and as one chain: consecutive numbers, each    *)
(* the child of the one before, with the data of every needed kind supplied *)
(* by a peer or known to be empty.                                          *)
(***************************************************************************)
DeliveredInOrder ==
  \A i \in DOMAIN delivered :
    LET r == delivered[i]
    IN /\ Number[r.hash] = resultOffset - Len(delivered) + i - 1
       /\ i > 1 => Parent[r.hash] = delivered[i - 1].hash
       /\ \A k \in Needed(mode) : k \in r.parts \/ r.hash \in Noop[k]

(***************************************************************************)
(* The content processor never sleeps on complete results or on a closed    *)
(* queue: every step that completes a result signals it.                    *)
(***************************************************************************)
NoLostWakeup == consumer = "wait" => countProcessableItems(0) /\ ~closed

-----------------------------------------------------------------------------
(***************************************************************************)
(* The blocks that are scheduled and not handed out, by number, and those   *)
(* handed out: what the scheduler's pools, caches and requests amount to.   *)
(***************************************************************************)
Awaited == [i \in 1 .. origin - resultOffset |->
              CHOOSE h \in scheduled : Number[h] = resultOffset + i - 1]
HandedOut == [i \in 1 .. Len(delivered) |-> delivered[i].hash]

Delivery == INSTANCE OrderedDelivery
              WITH Blocks <- Headers, todo <- Awaited, out <- HandedOut

(***************************************************************************)
(* Between Schedule and Results the scheduler is a first-in, first-out      *)
(* channel of one chain of blocks: no request, timeout, partial answer,     *)
(* departure of a peer, empty block or full cache reorders, drops or        *)
(* repeats a block.                                                         *)
(***************************************************************************)
DeliversInOrder == Delivery!Spec

=============================================================================
