------------------------ MODULE DownloadQueueProofs ------------------------
(***************************************************************************)
(* Proofs about the download scheduler, for every set of peers and headers  *)
(* and every size of the caches.                                            *)
(***************************************************************************)
EXTENDS DownloadQueue, FiniteSetTheorems, TLAPS

(***************************************************************************)
(* The scheduled headers are one chain that ends just below origin, and     *)
(* cover every number from resultOffset on.                                 *)
(***************************************************************************)
ScheduledChain ==
  /\ resultOffset <= origin
  /\ \A h \in scheduled : Number[h] < origin
  /\ \A g, h \in scheduled : Number[g] = Number[h] => g = h
  /\ \A n \in resultOffset .. origin - 1 : \E h \in scheduled : Number[h] = n
  /\ \A g, h \in scheduled : Number[h] = Number[g] + 1 => Parent[h] = g
  /\ scheduled = {} => headerHead = NoHeader
  /\ scheduled # {} => headerHead \in scheduled /\ Number[headerHead] = origin - 1

(***************************************************************************)
(* Slots are allocated without holes, each for a scheduled header, and a    *)
(* header that is requested or complete has one.                            *)
(***************************************************************************)
Slots ==
  /\ \A i \in Indices : resultCache[i] # Nil => resultCache[i].hash \in scheduled
  /\ \A i \in Indices : resultCache[i] # Nil =>
       \A j \in 0 .. i : resultCache[j] # Nil
  /\ \A k \in Kinds : \A h \in donePool[k] \cup Requested(k, Peers) : Allocated(h)

(***************************************************************************)
(* What is complete was supplied or is empty.                               *)
(***************************************************************************)
PartsSupplied ==
  \A i \in Indices : resultCache[i] # Nil =>
    \A k \in Kinds : resultCache[i].hash \in donePool[k] =>
      k \in resultCache[i].parts \/ resultCache[i].hash \in Noop[k]

(***************************************************************************)
(* The results handed out are scheduled headers and end below resultOffset. *)
(***************************************************************************)
DeliveredScheduled ==
  \A i \in DOMAIN delivered : delivered[i].hash \in scheduled

IndInv ==
  /\ TypeOK
  /\ ScheduledChain
  /\ ExactlyOnePlace
  /\ NothingForgotten
  /\ Slots
  /\ PendingIsOwed
  /\ PartsSupplied
  /\ DeliveredScheduled
  /\ DeliveredInOrder
  /\ NoIndexOverflow
  /\ NoLostWakeup

-----------------------------------------------------------------------------
(***************************************************************************)
(* Kinds of data and their number.                                          *)
(***************************************************************************)
LEMMA KindFacts ==
  /\ IsFiniteSet(Kinds) /\ Cardinality(Kinds) = 2
  /\ \A m \in Modes : Needed(m) \subseteq Kinds /\ "body" \in Needed(m)
  /\ \A S \in SUBSET Kinds : IsFiniteSet(S) /\ Cardinality(S) \in Nat
<1>1. IsFiniteSet({"body"}) /\ Cardinality({"body"}) = 1
  BY FS_Singleton
<1>2. Kinds = {"body"} \cup {"receipt"} /\ "receipt" \notin {"body"}
  BY DEF Kinds
<1>3. IsFiniteSet(Kinds) /\ Cardinality(Kinds) = 2
  BY <1>1, <1>2, FS_AddElement
<1>4. \A S \in SUBSET Kinds : IsFiniteSet(S) /\ Cardinality(S) \in Nat
  BY <1>3, FS_Subset, FS_CardinalityType
<1>. QED
  BY <1>3, <1>4 DEF Modes, Needed, Kinds

(***************************************************************************)
(* Taking an element out of a set of kinds leaves one fewer.                *)
(***************************************************************************)
LEMMA OneFewer ==
  ASSUME NEW S \in SUBSET Kinds, NEW k \in S
  PROVE  Cardinality(S \ {k}) = Cardinality(S) - 1
BY KindFacts, FS_RemoveElement

(***************************************************************************)
(* The image of a finite set under a function is no larger.                 *)
(***************************************************************************)
LEMMA ImageBound ==
  ASSUME NEW S, IsFiniteSet(S), NEW f, f = [x \in S |-> f[x]]
  PROVE  /\ IsFiniteSet({f[x] : x \in S})
         /\ Cardinality({f[x] : x \in S}) <= Cardinality(S)
<1>. DEFINE T == {f[x] : x \in S}
<1>1. f \in Surjection(S, T)
  BY DEF Surjection
<1>. QED
  BY <1>1, FS_Surjection

(***************************************************************************)
(* A union is no larger than its parts together, an interval from 0 has as  *)
(* many members as its length.                                              *)
(***************************************************************************)
LEMMA UnionBound ==
  ASSUME NEW S, IsFiniteSet(S), NEW T, IsFiniteSet(T)
  PROVE  /\ IsFiniteSet(S \cup T)
         /\ Cardinality(S \cup T) <= Cardinality(S) + Cardinality(T)
<1>1. /\ IsFiniteSet(S \cup T)
      /\ Cardinality(S \cup T) = Cardinality(S) + Cardinality(T) - Cardinality(S \cap T)
  BY FS_Union
<1>2. IsFiniteSet(S \cap T)
  BY FS_Intersection
<1>3. Cardinality(S) \in Nat /\ Cardinality(T) \in Nat /\ Cardinality(S \cap T) \in Nat
  BY <1>2, FS_CardinalityType
<1>. QED
  BY <1>1, <1>3

(***************************************************************************)
(* The cache of n slots, numbered from 0, has n of them: resultSlots counts *)
(* against this number.                                                     *)
(***************************************************************************)
LEMMA IntervalFacts ==
  ASSUME NEW n \in Nat
  PROVE  IsFiniteSet(0 .. n - 1) /\ Cardinality(0 .. n - 1) = n
<1>1. 0 \in Int /\ n - 1 \in Int
  OBVIOUS
<1>2. /\ IsFiniteSet(0 .. n - 1)
      /\ Cardinality(0 .. n - 1) = IF 0 > n - 1 THEN 0 ELSE n - 1 - 0 + 1
  BY <1>1, FS_Interval
<1>. QED
  BY <1>2

(***************************************************************************)
(* reserveHeaders never pops a header that has no slot: were h popped from  *)
(* beyond the allowance, every one of the limit numbers below would belong  *)
(* to a queued header popped before h, to a requested one or to a finished  *)
(* one, so resultSlots would have stopped the loop before h.                *)
(***************************************************************************)
LEMMA ReservationFits ==
  ASSUME IndInv, NEW k \in Kinds, NEW p \in Peers, NEW c \in Nat,
         NEW T, Reservation(k, p, c, T), NEW h \in T
  PROVE  Index(h) \in 0 .. limit - 1
<1>. DEFINE U == {g \in taskQueue[k] : Number[g] < Number[h]}
            F == {i \in 0 .. limit - 1 :
                     /\ \A j \in 0 .. i : resultCache[j] # Nil
                     /\ resultCache[i].hash \in donePool[k]}
            P == {r \in Peers \X Headers :
                     /\ r[2] \in pendPool[k][r[1]]
                     /\ Number[r[2]] < resultOffset + limit}
            A == {Number[g] - resultOffset : g \in U}
            B == {Number[r[2]] - resultOffset : r \in P}
<1>1. /\ T \subseteq taskQueue[k] /\ taskQueue[k] \subseteq Headers
      /\ h \in taskQueue[k] /\ Number[h] \in Nat
      /\ limit \in 1 .. CacheItems /\ CacheItems \in Nat /\ resultOffset \in Nat
      /\ Number \in [Headers -> Nat]
  BY CountAssumption, HeaderAssumption DEF IndInv, TypeOK, Reservation, Prefixes
<1>2. h \in scheduled /\ Number[h] >= resultOffset
  BY <1>1 DEF IndInv, ExactlyOnePlace, NothingForgotten
<1>3. SUFFICES ASSUME Number[h] >= resultOffset + limit PROVE FALSE
  BY <1>1, <1>2 DEF Index
<1>4. U \in Prefixes(taskQueue[k]) /\ h \notin U
  BY <1>1 DEF Prefixes
<1>5. ~(Cardinality(U) >= resultSlots(k))
  BY <1>4 DEF Reservation, ReserveStops
<1>6. IsFiniteSet(U) /\ IsFiniteSet(F) /\ IsFiniteSet(P)
  <2>1. IsFiniteSet(U)
    BY <1>1, HeaderAssumption, FS_Subset
  <2>2. IsFiniteSet(F)
    <3>1. limit \in Nat
      BY <1>1
    <3>. QED BY <3>1, IntervalFacts, FS_Subset
  <2>3. IsFiniteSet(P)
    BY Zenon, HeaderAssumption, FS_Product, FS_Subset
  <2>. QED BY <2>1, <2>2, <2>3
<1>7. IsFiniteSet(A) /\ Cardinality(A) <= Cardinality(U)
  <2>. DEFINE f == [g \in U |-> Number[g] - resultOffset]
  <2>1. A = {f[g] : g \in U}
    BY Zenon
  <2>. HIDE DEF A, U
  <2>2. f = [g \in U |-> f[g]]
    OBVIOUS
  <2>. HIDE DEF f
  <2>. QED BY <1>6, <2>1, <2>2, ImageBound
<1>8. IsFiniteSet(B) /\ Cardinality(B) <= Cardinality(P)
  <2>. DEFINE f == [r \in P |-> Number[r[2]] - resultOffset]
  <2>1. B = {f[r] : r \in P}
    OBVIOUS
  <2>. HIDE DEF B, P
  <2>2. f = [r \in P |-> f[r]]
    OBVIOUS
  <2>. HIDE DEF f
  <2>. QED BY <1>6, <2>1, <2>2, ImageBound
<1>9. 0 .. limit - 1 \subseteq A \cup B \cup F
  <2>. SUFFICES ASSUME NEW i \in 0 .. limit - 1 PROVE i \in A \cup B \cup F
    OBVIOUS
  <2>1. PICK g \in scheduled : Number[g] = resultOffset + i
    BY <1>1, <1>2, <1>3 DEF IndInv, ScheduledChain, TypeOK
  <2>2. k \in Needed(mode)
    BY <1>1 DEF IndInv, ExactlyOnePlace, NothingForgotten
  <2>3. g \in taskPool[k] \cup donePool[k]
    BY <1>1, <2>1, <2>2 DEF IndInv, NothingForgotten
  <2>4. CASE g \in taskQueue[k]
    <3>1. g \in U
      BY <1>1, <1>3, <2>1, <2>4
    <3>. QED BY <1>1, <2>1, <3>1
  <2>5. CASE g \in Requested(k, Peers)
    <3>1. PICK q \in Peers : g \in pendPool[k][q]
      BY <2>5 DEF Requested
    <3>2. <<q, g>> \in P
      BY <1>1, <2>1, <3>1 DEF IndInv, TypeOK
    <3>3. Number[<<q, g>>[2]] - resultOffset = i
      BY <1>1, <2>1
    <3>. QED BY <3>2, <3>3
  <2>6. CASE g \in donePool[k]
    <3>1. Index(g) = i /\ i \in Indices /\ resultCache[i] # Nil
      BY <1>1, <2>1, <2>6 DEF IndInv, Slots, Allocated, Index, Indices
    <3>2. /\ resultCache[i].hash \in scheduled
          /\ resultCache[i].hash \in Headers
          /\ Number[resultCache[i].hash] - resultOffset = i
      BY <3>1 DEF IndInv, Slots, PendingIsOwed, Index, TypeOK
    <3>3. Number[resultCache[i].hash] = Number[g]
      BY <1>1, <2>1, <3>2
    <3>4. resultCache[i].hash = g
      BY <3>2, <3>3 DEF IndInv, ScheduledChain
    <3>. QED BY <2>6, <3>1, <3>4 DEF IndInv, Slots
  <2>. QED BY <2>3, <2>4, <2>5, <2>6 DEF IndInv, ExactlyOnePlace
<1>10. limit <= Cardinality(A) + Cardinality(B) + Cardinality(F)
  <2>1. IsFiniteSet(0 .. limit - 1) /\ Cardinality(0 .. limit - 1) = limit
    <3>1. limit \in Nat
      BY <1>1
    <3>. QED BY <3>1, IntervalFacts
  <2>. HIDE DEF A, B, F
  <2>2. /\ IsFiniteSet(A \cup B)
        /\ Cardinality(A \cup B) <= Cardinality(A) + Cardinality(B)
    BY Zenon, <1>7, <1>8, UnionBound
  <2>3. /\ IsFiniteSet(A \cup B \cup F)
        /\ Cardinality(A \cup B \cup F) <= Cardinality(A \cup B) + Cardinality(F)
    BY Zenon, <1>6, <2>2, UnionBound
  <2>4. limit <= Cardinality(A \cup B \cup F)
    <3>1. 0 .. limit - 1 \in SUBSET (A \cup B \cup F)
      BY <1>9
    <3>2. Cardinality(0 .. limit - 1) <= Cardinality(A \cup B \cup F)
      BY Zenon, <2>3, <3>1, FS_Subset
    <3>. QED BY <2>1, <3>2
  <2>5. /\ Cardinality(A) \in Nat /\ Cardinality(B) \in Nat /\ Cardinality(F) \in Nat
        /\ Cardinality(A \cup B) \in Nat /\ Cardinality(A \cup B \cup F) \in Nat
    BY <1>6, <1>7, <1>8, <2>2, <2>3, FS_CardinalityType
  <2>. QED
    BY <1>1, <2>2, <2>3, <2>4, <2>5
<1>11. resultSlots(k) = limit - Cardinality(F) - Cardinality(P)
  BY DEF resultSlots
<1>. HIDE DEF A, B, F, P, U
<1>12. /\ Cardinality(U) \in Nat /\ Cardinality(F) \in Nat /\ Cardinality(P) \in Nat
       /\ Cardinality(A) \in Nat /\ Cardinality(B) \in Nat
  BY <1>6, <1>7, <1>8, FS_CardinalityType
<1>. QED
  BY <1>1, <1>5, <1>7, <1>8, <1>10, <1>11, <1>12

-----------------------------------------------------------------------------
(***************************************************************************)
(* A synchronisation starts in a state that satisfies the invariant.        *)
(***************************************************************************)
LEMMA InitInv == Init => IndInv
<1>. SUFFICES ASSUME Init PROVE IndInv
  OBVIOUS
<1>. USE CountAssumption, HeaderAssumption
<1>0. Origins \subseteq Nat /\ << >> \in Seq(fetchResult) /\ CacheItems \in 1 .. CacheItems
  BY DEF Origins
<1>1. TypeOK
  BY Zenon, <1>0 DEF Init, TypeOK
<1>2. \A k \in Kinds : Requested(k, Peers) = {}
  BY Zenon DEF Init, Requested
<1>3. ScheduledChain /\ Slots /\ PendingIsOwed /\ PartsSupplied
  BY <1>1, <1>2 DEF Init, TypeOK, ScheduledChain, Slots, PendingIsOwed, PartsSupplied
<1>4. ExactlyOnePlace /\ NothingForgotten
  BY Zenon, <1>2 DEF Init, ExactlyOnePlace, NothingForgotten, Needed
<1>5. DeliveredScheduled /\ DeliveredInOrder /\ NoIndexOverflow /\ NoLostWakeup
  BY DEF Init, DeliveredScheduled, DeliveredInOrder, NoIndexOverflow, NoLostWakeup
<1>. QED
  BY <1>1, <1>3, <1>4, <1>5 DEF IndInv

(***************************************************************************)
(* Reset and Prepare at the start of a synchronisation: every pool is empty,*)
(* nothing is scheduled, and the invariant holds of the new offset.         *)
(***************************************************************************)
LEMMA NewSyncInv ==
  ASSUME NEW o \in Origins, NEW m \in Modes, IndInv, NewSync(o, m)
  PROVE  IndInv'
<1>. USE CountAssumption, HeaderAssumption
<1>0. Origins \subseteq Nat /\ << >> \in Seq(fetchResult)
  BY DEF Origins
<1>1. TypeOK'
  BY Zenon, <1>0 DEF IndInv, NewSync, TypeOK
<1>2. \A k \in Kinds : Requested(k, Peers)' = {}
  BY Zenon DEF NewSync, Requested
<1>3. ScheduledChain' /\ Slots' /\ PendingIsOwed' /\ PartsSupplied'
  BY <1>1, <1>2 DEF NewSync, TypeOK, ScheduledChain, Slots, PendingIsOwed, PartsSupplied
<1>4. ExactlyOnePlace' /\ NothingForgotten'
  BY <1>2 DEF NewSync, ExactlyOnePlace, NothingForgotten, Needed
<1>5. DeliveredScheduled' /\ DeliveredInOrder' /\ NoIndexOverflow' /\ NoLostWakeup'
  BY DEF NewSync, DeliveredScheduled, DeliveredInOrder, NoIndexOverflow, NoLostWakeup
<1>. QED
  BY <1>1, <1>3, <1>4, <1>5 DEF IndInv

(***************************************************************************)
(* Steps that leave the pools, the cache and the history alone.             *)
(***************************************************************************)
LEMMA FrameInv ==
  ASSUME IndInv, UNCHANGED <<headVars, poolVars, cacheVars, lacking, err, delivered>>,
         consumer' \in {"run", "wait", "done"}, closed' \in BOOLEAN, NoLostWakeup'
  PROVE  IndInv'
<1>. USE DEF headVars, poolVars, cacheVars
<1>1. TypeOK'
  BY Zenon DEF IndInv, TypeOK
<1>2. ScheduledChain' /\ PendingIsOwed' /\ PartsSupplied'
  BY DEF IndInv, ScheduledChain, PendingIsOwed, PartsSupplied, Index, Owed
<1>3. Slots' /\ ExactlyOnePlace' /\ NothingForgotten'
  BY DEF IndInv, Slots, ExactlyOnePlace, NothingForgotten, Requested, Allocated, Index
<1>4. DeliveredScheduled' /\ DeliveredInOrder' /\ NoIndexOverflow'
  BY DEF IndInv, DeliveredScheduled, DeliveredInOrder, NoIndexOverflow
<1>. QED
  BY Zenon, <1>1, <1>2, <1>3, <1>4 DEF IndInv

(***************************************************************************)
(* Close, and the two ways Results goes without a result, change only the   *)
(* state of the content processor and the closed flag.                      *)
(***************************************************************************)
LEMMA ConsumerInv ==
  ASSUME IndInv, Close \/ ResultsWait \/ ResultsEmpty
  PROVE  IndInv'
<1>1. /\ UNCHANGED <<headVars, poolVars, cacheVars, lacking, err, delivered>>
      /\ consumer' \in {"run", "wait", "done"} /\ closed' \in BOOLEAN
  BY Zenon DEF IndInv, TypeOK, Close, ResultsWait, ResultsEmpty, Wake
<1>2. NoLostWakeup'
  <2>1. CASE Close
    BY <2>1 DEF Close, Wake, NoLostWakeup
  <2>2. CASE ResultsWait
    BY <2>2 DEF ResultsWait, NoLostWakeup, countProcessableItems, Complete, cacheVars
  <2>3. CASE ResultsEmpty
    BY <2>3 DEF ResultsEmpty, NoLostWakeup
  <2>. QED BY <2>1, <2>2, <2>3
<1>. QED
  BY <1>1, <1>2, FrameInv

(***************************************************************************)
(* A header taken back from a peer returns to the task queue and to nowhere *)
(* else.                                                                    *)
(***************************************************************************)
LEMMA TakeBackInv ==
  ASSUME IndInv,
         taskQueue' \in [Kinds -> SUBSET Headers],
         pendPool' \in [Kinds -> [Peers -> SUBSET Headers]],
         \A k \in Kinds, p \in Peers : pendPool'[k][p] \in {pendPool[k][p], {}},
         \A k \in Kinds : taskQueue'[k] =
           taskQueue[k] \cup UNION {pendPool[k][p] \ pendPool'[k][p] : p \in Peers},
         UNCHANGED <<headVars, taskPool, donePool, cacheVars, lacking, consumer, closed, err, delivered>>
  PROVE  IndInv'
<1>. USE DEF headVars, cacheVars
<1>1. TypeOK'
  BY DEF IndInv, TypeOK
<1>2. ScheduledChain' /\ PendingIsOwed' /\ PartsSupplied'
  BY DEF IndInv, ScheduledChain, PendingIsOwed, PartsSupplied, Index, Owed
<1>3. Slots'
  <2>1. \A k \in Kinds : Requested(k, Peers)' \subseteq Requested(k, Peers)
    BY DEF Requested
  <2>. QED BY <2>1 DEF IndInv, Slots, Allocated, Index
<1>4. ExactlyOnePlace'
  <2>. SUFFICES ASSUME NEW k \in Kinds
                PROVE  /\ taskPool[k] = taskQueue'[k] \cup Requested(k, Peers)'
                       /\ \A p \in Peers : pendPool'[k][p] \cap taskQueue'[k] = {}
                       /\ \A p, q \in Peers : p # q => pendPool'[k][p] \cap pendPool'[k][q] = {}
                       /\ donePool[k] \cap taskPool[k] = {}
    BY DEF ExactlyOnePlace
  <2>1. taskPool[k] = taskQueue'[k] \cup Requested(k, Peers)'
    BY DEF IndInv, ExactlyOnePlace, Requested
  <2>2. \A p \in Peers : pendPool'[k][p] \cap taskQueue'[k] = {}
    BY DEF IndInv, ExactlyOnePlace
  <2>3. \A p, q \in Peers : p # q => pendPool'[k][p] \cap pendPool'[k][q] = {}
    BY DEF IndInv, ExactlyOnePlace
  <2>4. donePool[k] \cap taskPool[k] = {}
    BY DEF IndInv, ExactlyOnePlace
  <2>. QED BY Zenon, <2>1, <2>2, <2>3, <2>4
<1>5. NothingForgotten'
  BY Zenon DEF IndInv, NothingForgotten
<1>6. DeliveredScheduled' /\ DeliveredInOrder' /\ NoIndexOverflow' /\ NoLostWakeup'
  BY DEF IndInv, DeliveredScheduled, DeliveredInOrder, NoIndexOverflow, NoLostWakeup,
         countProcessableItems, Complete
<1>. QED
  BY Zenon, <1>1, <1>2, <1>3, <1>4, <1>5, <1>6 DEF IndInv

(***************************************************************************)
(* expire puts the headers of the timed-out requests back in the queue they *)
(* were taken from.                                                         *)
(***************************************************************************)
LEMMA ExpireInv ==
  ASSUME NEW k \in Kinds, NEW P \in SUBSET Peers, IndInv, Expire(k, P)
  PROVE  IndInv'
<1>1. /\ taskQueue' \in [Kinds -> SUBSET Headers]
      /\ pendPool' \in [Kinds -> [Peers -> SUBSET Headers]]
  BY DEF IndInv, TypeOK, Expire, Requested
<1>2. \A j \in Kinds, p \in Peers :
        pendPool'[j][p] = IF j = k /\ p \in P THEN {} ELSE pendPool[j][p]
  BY Zenon DEF IndInv, TypeOK, Expire
<1>3. \A j \in Kinds : taskQueue'[j] =
        taskQueue[j] \cup UNION {pendPool[j][p] \ pendPool'[j][p] : p \in Peers}
  <2>. TAKE j \in Kinds
  <2>1. taskQueue'[j] = IF j = k THEN taskQueue[j] \cup Requested(k, P) ELSE taskQueue[j]
    BY Zenon DEF IndInv, TypeOK, Expire
  <2>2. UNION {pendPool[j][p] \ pendPool'[j][p] : p \in Peers} =
          IF j = k THEN Requested(k, P) ELSE {}
    BY <1>2 DEF Requested
  <2>. QED BY <2>1, <2>2
<1>. QED
  BY <1>1, <1>2, <1>3, TakeBackInv DEF Expire

(***************************************************************************)
(* Revoke does the same for the body and the receipt request of one peer.   *)
(***************************************************************************)
LEMMA RevokeInv ==
  ASSUME NEW q \in Peers, IndInv, Revoke(q)
  PROVE  IndInv'
<1>1. /\ taskQueue' \in [Kinds -> SUBSET Headers]
      /\ pendPool' \in [Kinds -> [Peers -> SUBSET Headers]]
  BY DEF IndInv, TypeOK, Revoke
<1>2. \A j \in Kinds, p \in Peers :
        pendPool'[j][p] = IF p = q THEN {} ELSE pendPool[j][p]
  BY Zenon DEF IndInv, TypeOK, Revoke
<1>3. \A j \in Kinds : taskQueue'[j] =
        taskQueue[j] \cup UNION {pendPool[j][p] \ pendPool'[j][p] : p \in Peers}
  <2>. TAKE j \in Kinds
  <2>1. UNION {pendPool[j][p] \ pendPool'[j][p] : p \in Peers} = pendPool[j][q]
    BY <1>2
  <2>. QED BY Zenon, <2>1 DEF Revoke
<1>. QED
  BY Zenon, <1>1, <1>2, <1>3, TakeBackInv DEF Revoke

-----------------------------------------------------------------------------
(***************************************************************************)
(* What the pools hold is scheduled and not handed out.                     *)
(***************************************************************************)
LEMMA PoolFacts ==
  ASSUME IndInv, NEW k \in Kinds, NEW h
  PROVE  /\ h \in taskPool[k] \cup donePool[k] \cup taskQueue[k] \cup Requested(k, Peers) =>
              /\ h \in scheduled /\ h \in Headers
              /\ Number[h] \in Nat /\ Number[h] >= resultOffset
              /\ k \in Needed(mode)
         /\ h \in taskQueue[k] \cup Requested(k, Peers) => h \in taskPool[k]
         /\ h \in taskPool[k] => h \notin donePool[k]
         /\ \A p \in Peers : h \in pendPool[k][p] => h \in Requested(k, Peers)
<1>1. Number \in [Headers -> Nat] /\ scheduled \subseteq Headers
  BY Zenon, HeaderAssumption DEF IndInv, TypeOK
<1>. QED
  BY <1>1 DEF IndInv, ExactlyOnePlace, NothingForgotten, Requested

(***************************************************************************)
(* The slot with the index of a scheduled header is that header's.          *)
(***************************************************************************)
LEMMA SlotFacts ==
  ASSUME IndInv, NEW h \in scheduled, Index(h) \in Indices
  PROVE  resultCache[Index(h)] # Nil =>
           /\ resultCache[Index(h)] \in fetchResult
           /\ resultCache[Index(h)].hash = h
<1>1. SUFFICES ASSUME resultCache[Index(h)] # Nil
               PROVE  /\ resultCache[Index(h)] \in fetchResult
                      /\ resultCache[Index(h)].hash = h
  BY Zenon
<1>. DEFINE g == resultCache[Index(h)].hash
<1>2. /\ resultCache[Index(h)] \in fetchResult
      /\ g \in scheduled /\ Index(g) = Index(h)
  BY Zenon, <1>1 DEF IndInv, TypeOK, Slots, PendingIsOwed
<1>3. Number[g] \in Nat /\ Number[h] \in Nat /\ resultOffset \in Nat
  BY Zenon, <1>2, HeaderAssumption DEF IndInv, TypeOK
<1>4. Number[g] = Number[h]
  BY <1>2, <1>3 DEF Index
<1>. QED
  BY <1>2, <1>4 DEF IndInv, ScheduledChain

(***************************************************************************)
(* Schedule: the accepted headers extend the chain, and no pool knew them.  *)
(***************************************************************************)
LEMMA ScheduleInv ==
  ASSUME NEW chunk \in Chunks, IndInv, Schedule(chunk)
  PROVE  IndInv'
<1>1. PICK l \in 1 .. MaxChunk : chunk \in [1 .. l -> Headers]
  BY DEF Chunks
<1>2. chunk \in Seq(Headers) /\ Len(chunk) = l /\ l \in Nat
  BY <1>1, CountAssumption
<1>. DEFINE New(n) == {chunk[i] : i \in 1 .. n}
<1>3. PICK n \in 0 .. Len(chunk) :
          /\ Inserts(chunk, n)
          /\ taskPool'  = [k \in Kinds |-> IF k \in Needed(mode)
                             THEN taskPool[k] \cup New(n) ELSE taskPool[k]]
          /\ taskQueue' = [k \in Kinds |-> IF k \in Needed(mode)
                             THEN taskQueue[k] \cup New(n) ELSE taskQueue[k]]
          /\ headerHead' = IF n = 0 THEN headerHead ELSE chunk[n]
          /\ scheduled' = scheduled \cup New(n)
          /\ origin' = origin + n
          /\ err' = IF n = Len(chunk) THEN err ELSE "errBadPeer"
  BY Zenon DEF Schedule
<1>. DEFINE new == New(n)
<1>4. UNCHANGED <<mode, pendPool, donePool, resultCache, resultOffset, limit, lacking,
                  consumer, closed, delivered>>
  BY ZenonT(20) DEF Schedule, cacheVars
<1>5. /\ n \in Nat /\ origin \in Nat /\ resultOffset \in Nat
      /\ Number \in [Headers -> Nat] /\ scheduled \subseteq Headers
      /\ NoHeader \notin Headers
  BY <1>2, <1>3, HeaderAssumption DEF IndInv, TypeOK
<1>6. \A i \in 1 .. n : chunk[i] \in Headers
  BY <1>1, <1>2, <1>3
<1>7. \A i \in 1 .. n : Number[chunk[i]] = origin + i - 1
  BY Zenon, <1>3 DEF Inserts, Links
<1>8. new \subseteq Headers /\ \A h \in new : Number[h] >= origin /\ Number[h] < origin + n
  BY <1>5, <1>6, <1>7
<1>9. new \cap scheduled = {}
  BY <1>5, <1>8 DEF IndInv, ScheduledChain
<1>10. \A k \in Kinds : new \cap (taskPool[k] \cup donePool[k] \cup taskQueue[k] \cup Requested(k, Peers)) = {}
  BY <1>9, PoolFacts
<1>11. TypeOK'
  <2>1. headerHead' \in Headers \cup {NoHeader}
    BY <1>3, <1>5, <1>6 DEF IndInv, TypeOK
  <2>2. origin' \in Nat
    BY <1>3, <1>5
  <2>3. err' \in {"none", "errBadPeer", "errInvalidChain"}
    BY Zenon, <1>3 DEF IndInv, TypeOK
  <2>4. /\ taskPool' \in [Kinds -> SUBSET Headers]
        /\ taskQueue' \in [Kinds -> SUBSET Headers]
        /\ scheduled' \subseteq Headers
    BY Zenon, <1>3, <1>8 DEF IndInv, TypeOK
  <2>. QED BY ZenonT(20), <1>4, <2>1, <2>2, <2>3, <2>4 DEF IndInv, TypeOK
<1>12. ScheduledChain'
  <2>1. resultOffset' <= origin'
    BY <1>3, <1>4, <1>5 DEF IndInv, ScheduledChain
  <2>2. \A h \in scheduled' : Number[h] < origin'
    BY <1>3, <1>5, <1>8 DEF IndInv, ScheduledChain
  <2>3. \A g, h \in scheduled' : Number[g] = Number[h] => g = h
    <3>. SUFFICES ASSUME NEW g \in scheduled', NEW h \in scheduled', Number[g] = Number[h]
                  PROVE  g = h
      BY Zenon
    <3>1. CASE g \in scheduled /\ h \in scheduled
      BY <3>1 DEF IndInv, ScheduledChain
    <3>2. CASE g \in new /\ h \in new
      BY <1>5, <1>7, <3>2
    <3>3. g \in scheduled <=> h \in scheduled
      BY <1>3, <1>5, <1>8 DEF IndInv, ScheduledChain
    <3>. QED BY <1>3, <3>1, <3>2, <3>3
  <2>4. \A m \in resultOffset' .. origin' - 1 : \E h \in scheduled' : Number[h] = m
    <3>. SUFFICES ASSUME NEW m \in resultOffset' .. origin' - 1
                  PROVE  \E h \in scheduled' : Number[h] = m
      BY Zenon
    <3>1. CASE m < origin
      <4>1. m \in resultOffset .. origin - 1
        BY <1>4, <1>5, <3>1
      <4>. QED BY Zenon, <1>3, <4>1 DEF IndInv, ScheduledChain
    <3>2. CASE m >= origin
      <4>1. m - origin + 1 \in 1 .. n
        BY <1>3, <1>4, <1>5, <3>2
      <4>2. Number[chunk[m - origin + 1]] = m
        BY <1>4, <1>5, <1>7, <4>1
      <4>. QED BY Zenon, <1>3, <4>1, <4>2
    <3>. QED BY <1>4, <1>5, <3>1, <3>2
  <2>5. \A g, h \in scheduled' : Number[h] = Number[g] + 1 => Parent[h] = g
    <3>. SUFFICES ASSUME NEW g \in scheduled', NEW h \in scheduled', Number[h] = Number[g] + 1
                  PROVE  Parent[h] = g
      BY ZenonT(20)
    <3>1. CASE h \in scheduled
      <4>1. g \in scheduled
        BY <1>3, <1>5, <1>8, <3>1 DEF IndInv, ScheduledChain
      <4>. QED BY Zenon, <3>1, <4>1 DEF IndInv, ScheduledChain
    <3>2. CASE h \in new
      <4>1. PICK i \in 1 .. n : h = chunk[i]
        BY Zenon, <3>2
      <4>2. Links(chunk, i) /\ Number[h] = origin + i - 1
        BY Zenon, <1>3, <1>7, <4>1 DEF Inserts
      <4>3. CASE i = 1
        <5>1. g \in scheduled
          BY <1>3, <1>5, <1>8, <4>2, <4>3
        <5>2. Number[g] = origin - 1
          BY <1>5, <4>2, <4>3, <5>1
        <5>3. g = headerHead
          BY <5>1, <5>2 DEF IndInv, ScheduledChain
        <5>. QED BY Zenon, <1>5, <4>1, <4>2, <4>3, <5>1, <5>3 DEF Links
      <4>4. CASE i # 1
        <5>1. g \notin scheduled
          BY <1>5, <4>2, <4>4 DEF IndInv, ScheduledChain
        <5>2. PICK j \in 1 .. n : g = chunk[j]
          BY Zenon, <1>3, <5>1
        <5>3. j = i - 1
          BY <1>5, <1>7, <4>2, <5>2
        <5>. QED BY Zenon, <1>5, <1>6, <4>1, <4>2, <4>4, <5>2, <5>3 DEF Links
      <4>. QED BY <4>3, <4>4
    <3>. QED BY <1>3, <3>1, <3>2
  <2>6. scheduled' = {} => headerHead' = NoHeader
    BY <1>3 DEF IndInv, ScheduledChain
  <2>7. scheduled' # {} => headerHead' \in scheduled' /\ Number[headerHead'] = origin' - 1
    <3>1. CASE n = 0
      BY <1>3, <1>5, <3>1 DEF IndInv, ScheduledChain
    <3>2. CASE n # 0
      <4>1. n \in 1 .. n
        BY <1>5, <3>2
      <4>. QED BY <1>3, <1>5, <1>7, <3>2, <4>1
    <3>. QED BY Zenon, <3>1, <3>2
  <2>. QED BY Zenon, <2>1, <2>2, <2>3, <2>4, <2>5, <2>6, <2>7 DEF ScheduledChain
<1>13. \A k \in Kinds : Requested(k, Peers)' = Requested(k, Peers)
  BY <1>4 DEF Requested
<1>14. ExactlyOnePlace'
  <2>. SUFFICES ASSUME NEW k \in Kinds
                PROVE  /\ taskPool'[k] = taskQueue'[k] \cup Requested(k, Peers)
                       /\ \A p \in Peers : pendPool[k][p] \cap taskQueue'[k] = {}
                       /\ donePool[k] \cap taskPool'[k] = {}
    BY Zenon, <1>4, <1>13 DEF IndInv, ExactlyOnePlace
  <2>1. \A p \in Peers : pendPool[k][p] \subseteq Requested(k, Peers)
    BY DEF Requested
  <2>2. /\ taskPool'[k] = taskPool[k] \cup (IF k \in Needed(mode) THEN new ELSE {})
        /\ taskQueue'[k] = taskQueue[k] \cup (IF k \in Needed(mode) THEN new ELSE {})
    BY Zenon, <1>3
  <2>. HIDE DEF New
  <2>. QED BY ZenonT(20), <1>10, <2>1, <2>2 DEF IndInv, ExactlyOnePlace
<1>15. NothingForgotten'
  <2>. SUFFICES ASSUME NEW k \in Kinds
                PROVE  taskPool'[k] \cup donePool[k] =
                         IF k \in Needed(mode)
                           THEN {h \in scheduled' : Number[h] >= resultOffset} ELSE {}
    BY Zenon, <1>4 DEF NothingForgotten
  <2>1. taskPool'[k] = taskPool[k] \cup (IF k \in Needed(mode) THEN new ELSE {})
    BY Zenon, <1>3
  <2>2. \A h \in new : Number[h] >= resultOffset
    BY <1>5, <1>8 DEF IndInv, ScheduledChain
  <2>3. scheduled' = scheduled \cup new
    BY ZenonT(20), <1>3
  <2>. HIDE DEF New
  <2>. QED BY Zenon, <2>1, <2>2, <2>3 DEF IndInv, NothingForgotten
<1>16. Slots'
  BY ZenonT(20), <1>3, <1>4, <1>13 DEF IndInv, Slots, Allocated, Index
<1>17. PendingIsOwed' /\ PartsSupplied' /\ DeliveredInOrder'
  BY ZenonT(20), <1>4 DEF IndInv, PendingIsOwed, PartsSupplied, DeliveredInOrder, Index, Owed
<1>18. DeliveredScheduled' /\ NoIndexOverflow' /\ NoLostWakeup'
  BY Zenon, <1>3, <1>4 DEF IndInv, DeliveredScheduled, NoIndexOverflow, NoLostWakeup,
         countProcessableItems, Complete
<1>. QED
  BY Zenon, <1>11, <1>12, <1>14, <1>15, <1>16, <1>17, <1>18 DEF IndInv

(***************************************************************************)
(* A slot after one more component of it has been supplied.                 *)
(***************************************************************************)
LEMMA SupplyFacts ==
  ASSUME NEW r \in fetchResult, NEW k \in Kinds
  PROVE  /\ Supplied(r, k) \in fetchResult
         /\ Supplied(r, k).hash = r.hash
         /\ Supplied(r, k).pending = r.pending - 1
         /\ Supplied(r, k).parts = r.parts \cup {k}
BY DEF fetchResult, Supplied

(***************************************************************************)
(* Deliver: every header of the request has a slot, so the matched ones are *)
(* completed and the others return to the task queue.                       *)
(***************************************************************************)
LEMMA DeliverInv ==
  ASSUME NEW k \in Kinds, NEW p \in Peers, NEW empty \in BOOLEAN,
         NEW match \in Prefixes(pendPool[k][p]), IndInv, Deliver(k, p, match, empty)
  PROVE  IndInv'
<1>. DEFINE rest == pendPool[k][p] \ match
<1>1. match \subseteq pendPool[k][p] /\ pendPool[k][p] \subseteq Headers
  BY DEF IndInv, TypeOK, Prefixes
<1>2. \A h \in match : /\ h \in Requested(k, Peers) /\ h \in taskPool[k]
                       /\ h \in scheduled /\ h \notin donePool[k] /\ Allocated(h)
  BY Zenon, <1>1, PoolFacts DEF IndInv, Slots
<1>3. match = {h \in match : \A g \in match : Number[g] <= Number[h] => Allocated(g)}
  BY ZenonT(30), <1>2
<1>4. /\ resultCache' = [i \in Indices |->
             IF Occupies(match, i)
               THEN Supplied(resultCache[i], k)
               ELSE resultCache[i]]
      /\ donePool' = [donePool EXCEPT ![k] = @ \cup match]
      /\ taskPool' = [taskPool EXCEPT ![k] = @ \ match]
      /\ taskQueue' = [taskQueue EXCEPT ![k] = @ \cup rest]
      /\ consumer' = IF match # {} THEN Wake ELSE consumer
      /\ err' = err
  BY Zenon, <1>3 DEF Deliver
<1>4a. \A j \in Kinds :
          /\ taskPool'[j] = IF j = k THEN taskPool[k] \ match ELSE taskPool[j]
          /\ taskQueue'[j] = IF j = k THEN taskQueue[k] \cup rest ELSE taskQueue[j]
          /\ donePool'[j] = IF j = k THEN donePool[k] \cup match ELSE donePool[j]
  BY <1>4 DEF IndInv, TypeOK
<1>5. /\ pendPool' = [pendPool EXCEPT ![k][p] = {}]
      /\ \E new \in SUBSET Headers : lacking' = [lacking EXCEPT ![p] = new]
      /\ UNCHANGED <<mode, origin, headerHead, scheduled, resultOffset, limit, closed, delivered>>
  BY Zenon DEF Deliver, headVars
<1>6. \A i \in Indices : Occupies(match, i) =>
        /\ resultCache[i] # Nil /\ resultCache[i] \in fetchResult
        /\ resultCache[i].hash \in match
  BY ZenonT(20), <1>2, SlotFacts DEF Occupies, Allocated
<1>7. \A i \in Indices : resultCache[i] # Nil /\ resultCache[i].hash \in match => Occupies(match, i)
  BY ZenonT(20) DEF IndInv, PendingIsOwed, Occupies
<1>8. TypeOK'
  <2>1. resultCache' \in [Indices -> fetchResult \cup {Nil}]
    <3>. SUFFICES ASSUME NEW i \in Indices
                  PROVE  (IF Occupies(match, i)
                            THEN Supplied(resultCache[i], k)
                            ELSE resultCache[i]) \in fetchResult \cup {Nil}
      BY ZenonT(20), <1>4
    <3>1. CASE Occupies(match, i)
      BY Zenon, <1>6, <3>1, SupplyFacts
    <3>2. CASE ~Occupies(match, i)
      BY ZenonT(20), <3>2 DEF IndInv, TypeOK
    <3>. QED BY Zenon, <3>1, <3>2
  <2>2. /\ taskPool' \in [Kinds -> SUBSET Headers]
        /\ taskQueue' \in [Kinds -> SUBSET Headers]
        /\ donePool' \in [Kinds -> SUBSET Headers]
        /\ pendPool' \in [Kinds -> [Peers -> SUBSET Headers]]
    BY Zenon, <1>1, <1>4, <1>5 DEF IndInv, TypeOK
  <2>3. lacking' \in [Peers -> SUBSET Headers]
    BY Zenon, <1>5 DEF IndInv, TypeOK
  <2>4. consumer' \in {"run", "wait", "done"}
    BY Zenon, <1>4 DEF IndInv, TypeOK, Wake
  <2>. QED BY Zenon, <1>4, <1>5, <2>1, <2>2, <2>3, <2>4 DEF IndInv, TypeOK
<1>9. ScheduledChain'
  BY Zenon, <1>5 DEF IndInv, ScheduledChain
<1>10. \A j \in Kinds : Requested(j, Peers)' =
         IF j = k THEN Requested(k, Peers) \ pendPool[k][p] ELSE Requested(j, Peers)
  <2>1. \A j \in Kinds, q \in Peers :
          pendPool'[j][q] = IF j = k /\ q = p THEN {} ELSE pendPool[j][q]
    BY <1>5 DEF IndInv, TypeOK
  <2>. QED BY <2>1 DEF IndInv, ExactlyOnePlace, Requested
<1>11. ExactlyOnePlace'
  <2>1. \A j \in Kinds, q \in Peers :
          pendPool'[j][q] = IF j = k /\ q = p THEN {} ELSE pendPool[j][q]
    BY <1>5 DEF IndInv, TypeOK
  <2>. SUFFICES ASSUME NEW j \in Kinds
                PROVE  /\ taskPool'[j] = taskQueue'[j] \cup Requested(j, Peers)'
                       /\ \A q \in Peers : pendPool'[j][q] \cap taskQueue'[j] = {}
                       /\ \A q, r \in Peers : q # r => pendPool'[j][q] \cap pendPool'[j][r] = {}
                       /\ donePool'[j] \cap taskPool'[j] = {}
    BY ZenonT(20) DEF ExactlyOnePlace
  <2>3. taskPool'[j] = taskQueue'[j] \cup Requested(j, Peers)'
    <3>1. CASE j = k
      <4>1. /\ taskPool[k] = taskQueue[k] \cup Requested(k, Peers)
            /\ pendPool[k][p] \subseteq Requested(k, Peers)
            /\ pendPool[k][p] \cap taskQueue[k] = {}
        <5>1. taskPool[k] = taskQueue[k] \cup Requested(k, Peers) /\ pendPool[k][p] \cap taskQueue[k] = {}
          BY ZenonT(20) DEF IndInv, ExactlyOnePlace
        <5>2. pendPool[k][p] \subseteq Requested(k, Peers)
          BY Zenon DEF Requested
        <5>. QED BY Zenon, <5>1, <5>2
      <4>. QED BY Zenon, <1>1, <1>10, <1>4a, <3>1, <4>1
    <3>2. CASE j # k
      BY ZenonT(20), <1>10, <1>4a, <3>2 DEF IndInv, ExactlyOnePlace
    <3>. QED BY ZenonT(20), <3>1, <3>2
  <2>4. \A q \in Peers : pendPool'[j][q] \cap taskQueue'[j] = {}
    <3>. TAKE q \in Peers
    <3>1. pendPool[j][q] \cap taskQueue[j] = {}
      BY ZenonT(20) DEF IndInv, ExactlyOnePlace
    <3>2. CASE j # k
      BY ZenonT(20), <2>1, <1>4a, <3>1, <3>2
    <3>3. CASE j = k /\ q = p
      BY ZenonT(20), <2>1, <3>3
    <3>4. CASE j = k /\ q # p
      <4>1. pendPool[k][p] \cap pendPool[k][q] = {}
        BY ZenonT(20), <3>4 DEF IndInv, ExactlyOnePlace
      <4>2. pendPool'[j][q] = pendPool[k][q] /\ taskQueue'[j] = taskQueue[k] \cup rest
        BY ZenonT(20), <2>1, <1>4a, <3>4
      <4>3. rest \subseteq pendPool[k][p]
        BY Zenon, <1>1
      <4>. HIDE DEF rest
      <4>. QED BY Zenon, <3>1, <3>4, <4>1, <4>2, <4>3
    <3>. QED BY Zenon, <3>2, <3>3, <3>4
  <2>5. \A q, r \in Peers : q # r => pendPool'[j][q] \cap pendPool'[j][r] = {}
    <3>1. \A q \in Peers : pendPool'[j][q] \subseteq pendPool[j][q]
      BY Zenon, <2>1
    <3>2. \A q, r \in Peers : q # r => pendPool[j][q] \cap pendPool[j][r] = {}
      BY Zenon DEF IndInv, ExactlyOnePlace
    <3>. QED BY ZenonT(30), <3>1, <3>2
  <2>6. donePool'[j] \cap taskPool'[j] = {}
    BY ZenonT(20), <1>4a DEF IndInv, ExactlyOnePlace
  <2>. QED BY ZenonT(30), <2>3, <2>4, <2>5, <2>6
<1>12. NothingForgotten'
  <2>1. \A j \in Kinds : taskPool'[j] \cup donePool'[j] = taskPool[j] \cup donePool[j]
    BY ZenonT(20), <1>2, <1>4 DEF IndInv, TypeOK
  <2>. QED BY ZenonT(20), <1>5, <2>1 DEF IndInv, NothingForgotten
<1>13. \A i \in Indices : (resultCache'[i] = Nil) <=> (resultCache[i] = Nil)
  <2>. TAKE i \in Indices
  <2>1. CASE Occupies(match, i)
    <3>1. resultCache'[i] \in fetchResult /\ resultCache'[i] = Supplied(resultCache[i], k)
      BY Zenon, <1>4, <1>6, <2>1, SupplyFacts
    <3>2. resultCache[i] # Nil
      BY ZenonT(20), <1>6, <2>1
    <3>. QED BY ZenonT(20), <3>1, <3>2, NilAssumption
  <2>2. CASE ~Occupies(match, i)
    BY <1>4, <2>2
  <2>. QED BY Zenon, <2>1, <2>2
<1>14. \A i \in Indices : resultCache[i] # Nil =>
         /\ resultCache'[i].hash = resultCache[i].hash
         /\ resultCache'[i].pending = IF resultCache[i].hash \in match
              THEN resultCache[i].pending - 1 ELSE resultCache[i].pending
         /\ resultCache'[i].parts = IF resultCache[i].hash \in match
              THEN resultCache[i].parts \cup {k} ELSE resultCache[i].parts
  <2>. SUFFICES ASSUME NEW i \in Indices, resultCache[i] # Nil
                PROVE  /\ resultCache'[i].hash = resultCache[i].hash
                       /\ resultCache'[i].pending = IF resultCache[i].hash \in match
                            THEN resultCache[i].pending - 1 ELSE resultCache[i].pending
                       /\ resultCache'[i].parts = IF resultCache[i].hash \in match
                            THEN resultCache[i].parts \cup {k} ELSE resultCache[i].parts
    OBVIOUS
  <2>1. CASE Occupies(match, i)
    BY Zenon, <1>4, <1>6, <2>1, SupplyFacts
  <2>2. CASE ~Occupies(match, i)
    BY ZenonT(30), <1>4, <1>7, <2>2
  <2>. QED BY ZenonT(30), <2>1, <2>2
<1>15. Slots'
  <2>1. \A j \in Kinds : donePool'[j] \cup Requested(j, Peers)' \subseteq donePool[j] \cup Requested(j, Peers)
    BY ZenonT(20), <1>2, <1>4, <1>10 DEF IndInv, TypeOK
  <2>2. \A i \in Indices : 0 .. i \subseteq Indices
    BY CountAssumption DEF Indices
  <2>. QED BY Zenon, <1>5, <1>13, <1>14, <2>1, <2>2 DEF IndInv, Slots, Allocated, Index
<1>16. PendingIsOwed'
  <2>. SUFFICES ASSUME NEW i \in Indices, resultCache'[i] # Nil,
                       NEW h, h = resultCache'[i].hash
                PROVE  /\ Number[h] - resultOffset' = i
                       /\ resultCache'[i].pending = Cardinality(Owed(h)')
    BY ZenonT(30) DEF PendingIsOwed, Index, Owed
  <2>1. /\ resultCache[i] # Nil /\ h = resultCache[i].hash
        /\ Number[h] - resultOffset = i
        /\ resultCache[i].pending = Cardinality(Owed(h))
    BY Zenon, <1>13, <1>14 DEF IndInv, PendingIsOwed, Index
  <2>2. Needed(mode) \subseteq Kinds /\ mode' = mode
    BY <1>5, KindFacts DEF IndInv, TypeOK
  <2>3. CASE h \in match
    <3>1. k \in Owed(h)
      BY Zenon, <1>2, <2>3, PoolFacts DEF Owed
    <3>2. Owed(h)' = Owed(h) \ {k}
      BY ZenonT(30), <1>4a, <2>2, <2>3 DEF Owed
    <3>3. Cardinality(Owed(h)') = Cardinality(Owed(h)) - 1
      BY ZenonT(20), <2>2, <3>1, <3>2, OneFewer DEF Owed
    <3>. QED BY ZenonT(30), <1>5, <1>14, <2>1, <2>3, <3>3
  <2>4. CASE h \notin match
    <3>1. Owed(h)' = Owed(h)
      BY Zenon, <1>4a, <2>2, <2>4 DEF Owed
    <3>. QED BY Zenon, <1>5, <1>14, <2>1, <2>4, <3>1
  <2>. QED BY Zenon, <2>3, <2>4
<1>17. PartsSupplied'
  <2>. SUFFICES ASSUME NEW i \in Indices, resultCache'[i] # Nil,
                       NEW j \in Kinds, resultCache'[i].hash \in donePool'[j]
                PROVE  j \in resultCache'[i].parts \/ resultCache'[i].hash \in Noop[j]
    BY ZenonT(30) DEF PartsSupplied
  <2>1. resultCache[i] # Nil /\ resultCache'[i].hash = resultCache[i].hash
    BY Zenon, <1>13, <1>14
  <2>2. CASE resultCache[i].hash \in donePool[j]
    BY Zenon, <1>14, <2>1, <2>2 DEF IndInv, PartsSupplied
  <2>3. CASE resultCache[i].hash \notin donePool[j]
    <3>1. j = k /\ resultCache[i].hash \in match
      BY ZenonT(30), <1>4a, <2>1, <2>3
    <3>. QED BY Zenon, <1>14, <2>1, <3>1
  <2>. QED BY Zenon, <2>2, <2>3
<1>18. DeliveredScheduled' /\ DeliveredInOrder' /\ NoIndexOverflow'
  BY <1>4, <1>5 DEF IndInv, DeliveredScheduled, DeliveredInOrder, NoIndexOverflow
<1>19. NoLostWakeup'
  <2>1. CASE match # {}
    BY ZenonT(30), <1>4, <2>1 DEF NoLostWakeup, Wake
  <2>2. CASE match = {}
    <3>1. resultCache' = resultCache
      BY Zenon, <1>4, <2>2 DEF Occupies, IndInv, TypeOK
    <3>. QED BY Zenon, <1>4, <1>5, <2>2, <3>1 DEF IndInv, NoLostWakeup, countProcessableItems, Complete
  <2>. QED BY <2>1, <2>2
<1>. QED
  BY Zenon, <1>8, <1>9, <1>11, <1>12, <1>15, <1>16, <1>17, <1>18, <1>19 DEF IndInv

(***************************************************************************)
(* The slot a reservation leaves for header h: it is h's, and what it owes  *)
(* is what the pools say.                                                   *)
(***************************************************************************)
LEMMA ReservedSlot ==
  ASSUME IndInv, NEW h \in scheduled, Index(h) \in Indices
  PROVE  /\ SlotOf(h) \in fetchResult
         /\ SlotOf(h).hash = h
         /\ SlotOf(h).pending = Cardinality(Owed(h))
         /\ resultCache[Index(h)] # Nil => SlotOf(h) = resultCache[Index(h)]
<1>1. CASE resultCache[Index(h)] = Nil
  <2>1. \A j \in Kinds : h \notin donePool[j]
    BY Zenon, <1>1 DEF IndInv, Slots, Allocated
  <2>2. Needed(mode) \subseteq Kinds /\ Cardinality(Needed(mode)) \in Nat
    BY Zenon, KindFacts DEF IndInv, TypeOK
  <2>3. Owed(h) = Needed(mode)
    BY ZenonT(20), <2>1, <2>2 DEF Owed
  <2>4. SlotOf(h) = [hash |-> h, pending |-> Cardinality(Needed(mode)), parts |-> {}]
    BY Zenon, <1>1 DEF SlotOf
  <2>5. h \in Headers
    BY DEF IndInv, TypeOK
  <2>. QED BY <1>1, <2>2, <2>3, <2>4, <2>5 DEF fetchResult
<1>2. CASE resultCache[Index(h)] # Nil
  BY Zenon, <1>2, SlotFacts DEF SlotOf, IndInv, PendingIsOwed
<1>. QED BY ZenonT(20), <1>1, <1>2

(***************************************************************************)
(* A header that needs no fetch loses one pending part in reserveHeaders and*)
(* keeps its hash and its parts.                                            *)
(***************************************************************************)
LEMMA DropFacts ==
  ASSUME NEW r \in fetchResult, NEW b \in BOOLEAN
  PROVE  LET u == Reserved(r, b)
         IN /\ u \in fetchResult /\ u.hash = r.hash /\ u.parts = r.parts
            /\ u.pending = IF b THEN r.pending - 1 ELSE r.pending
BY DEF fetchResult, Reserved

(***************************************************************************)
(* Reserve: the popped headers fit into the cache; the empty ones are       *)
(* complete, the lacking ones return, the others are requested from p.      *)
(***************************************************************************)
LEMMA ReserveInv ==
  ASSUME NEW k \in Kinds, NEW p \in Peers, NEW c \in 1 .. MaxCount, IndInv, Reserve(k, p, c)
  PROVE  IndInv'
<1>1. PICK T \in Prefixes(taskQueue[k]) :
       LET popped == {h \in T : \A g \in T : Number[g] < Number[h] => Index(g) \in Indices}
           good   == {h \in popped : Index(h) \in Indices}
           ok     == good = T
           noop   == good \cap Noop[k]
           skip   == (good \ noop) \cap lacking[p]
           send   == Sendable(k, p, good)
       IN /\ Reservation(k, p, c, T)
          /\ resultCache' = [i \in Indices |->
               IF Occupies(good, i)
                 THEN Reserved(SlotOf(HeaderAt(good, i)), HeaderAt(good, i) \in noop)
                 ELSE resultCache[i]]
          /\ donePool' = [donePool EXCEPT ![k] = @ \cup noop]
          /\ taskPool' = [taskPool EXCEPT ![k] = @ \ noop]
          /\ taskQueue' = [taskQueue EXCEPT ![k] =
               IF ok THEN (@ \ T) \cup skip ELSE @ \ popped]
          /\ pendPool' = [pendPool EXCEPT ![k][p] = IF ok THEN send ELSE @]
          /\ consumer' = IF ok /\ noop # {} THEN Wake ELSE consumer
          /\ err' = IF ok \/ err # "none" THEN err ELSE "errInvalidChain"
  BY Zenon DEF Reserve
<1>. DEFINE noop == T \cap Noop[k]
            skip == (T \ noop) \cap lacking[p]
            send == (T \ noop) \ lacking[p]
<1>2. c \in Nat /\ 0 .. limit - 1 \subseteq Indices
  BY CountAssumption DEF IndInv, TypeOK, Indices
<1>3. T \subseteq taskQueue[k] /\ T \subseteq Headers
  BY DEF IndInv, TypeOK, Prefixes
<1>4. \A h \in T : Index(h) \in Indices
  BY Zenon, <1>1, <1>2, ReservationFits
<1>5. T = {h \in {h \in T : \A g \in T : Number[g] < Number[h] => Index(g) \in Indices} :
             Index(h) \in Indices}
  BY <1>4
<1>6. /\ resultCache' = [i \in Indices |->
               IF Occupies(T, i)
                 THEN Reserved(SlotOf(HeaderAt(T, i)), HeaderAt(T, i) \in noop)
                 ELSE resultCache[i]]
      /\ donePool' = [donePool EXCEPT ![k] = @ \cup noop]
      /\ taskPool' = [taskPool EXCEPT ![k] = @ \ noop]
      /\ taskQueue' = [taskQueue EXCEPT ![k] = (@ \ T) \cup skip]
      /\ pendPool' = [pendPool EXCEPT ![k][p] = send]
      /\ consumer' = IF noop # {} THEN Wake ELSE consumer
      /\ err' = err
  <2>1. Sendable(k, p, T) = send
    BY DEF Sendable
  <2>. QED BY Zenon, <1>1, <1>5, <2>1
<1>7. /\ UNCHANGED <<mode, origin, headerHead, scheduled, resultOffset, limit, lacking, closed, delivered>>
      /\ pendPool[k][p] = {}
  BY ZenonT(30) DEF Reserve, headVars
<1>8. \A h \in T : h \in scheduled /\ h \in taskPool[k] /\ h \notin donePool[k] /\ k \in Needed(mode)
  BY <1>3, PoolFacts
<1>9. \A j \in Kinds :
          /\ taskPool'[j] = IF j = k THEN taskPool[k] \ noop ELSE taskPool[j]
          /\ taskQueue'[j] = IF j = k THEN (taskQueue[k] \ T) \cup skip ELSE taskQueue[j]
          /\ donePool'[j] = IF j = k THEN donePool[k] \cup noop ELSE donePool[j]
  BY Zenon, <1>6 DEF IndInv, TypeOK
<1>10. \A j \in Kinds, q \in Peers :
         pendPool'[j][q] = IF j = k /\ q = p THEN send ELSE pendPool[j][q]
  BY Zenon, <1>6 DEF IndInv, TypeOK
<1>11. \A j \in Kinds : Requested(j, Peers)' =
         IF j = k THEN Requested(k, Peers) \cup send ELSE Requested(j, Peers)
  <2>. TAKE j \in Kinds
  <2>. HIDE DEF send
  <2>1. CASE j = k
    <3>1. \A x : x \in Requested(j, Peers)' <=> \E q \in Peers : x \in pendPool'[j][q]
      BY Zenon DEF Requested
    <3>2. \A x : x \in Requested(k, Peers) <=> \E q \in Peers : x \in pendPool[k][q]
      BY Zenon DEF Requested
    <3>3. pendPool'[j][p] = send /\ pendPool[k][p] = {}
      BY Zenon, <1>7, <1>10, <2>1
    <3>4. \A q \in Peers : q # p => pendPool'[j][q] = pendPool[k][q]
      BY Zenon, <1>10, <2>1
    <3>5. ASSUME NEW x PROVE x \in Requested(j, Peers)' <=> x \in Requested(k, Peers) \cup send
      BY ZenonT(20), <3>1, <3>2, <3>3, <3>4
    <3>. QED BY Zenon, <2>1, <3>5
  <2>2. CASE j # k
    BY ZenonT(30), <1>10, <2>2 DEF Requested
  <2>. QED BY Zenon, <2>1, <2>2
<1>12. ASSUME NEW i \in Indices, Occupies(T, i)
       PROVE  \E h \in T : /\ Index(h) = i
                           /\ resultCache'[i] \in fetchResult
                           /\ resultCache'[i].hash = h
                           /\ resultCache'[i].pending = IF h \in noop
                                THEN Cardinality(Owed(h)) - 1 ELSE Cardinality(Owed(h))
                           /\ resultCache[i] # Nil => /\ resultCache[i].hash = h
                                                      /\ resultCache'[i].parts = resultCache[i].parts
  <2>. DEFINE h == HeaderAt(T, i)
  <2>1. h \in T /\ Index(h) = i
    <3>1. \E x \in T : Index(x) = i
      BY Zenon, <1>12 DEF Occupies
    <3>. QED BY Zenon, <3>1 DEF HeaderAt
  <2>2. h \in scheduled /\ (h \in noop) \in BOOLEAN
    BY <1>8, <2>1
  <2>3. resultCache'[i] = Reserved(SlotOf(h), h \in noop)
    BY Zenon, <1>6, <1>12
  <2>. HIDE DEF h, noop
  <2>4. /\ SlotOf(h) \in fetchResult
        /\ SlotOf(h).hash = h
        /\ SlotOf(h).pending = Cardinality(Owed(h))
        /\ resultCache[i] # Nil => SlotOf(h) = resultCache[i]
    BY <2>1, <2>2, ReservedSlot
  <2>5. /\ resultCache'[i] \in fetchResult
        /\ resultCache'[i].hash = SlotOf(h).hash
        /\ resultCache'[i].parts = SlotOf(h).parts
        /\ resultCache'[i].pending = IF h \in noop THEN SlotOf(h).pending - 1 ELSE SlotOf(h).pending
    <3>. DEFINE b == h \in noop
                u == Reserved(SlotOf(h), b)
    <3>1. /\ u \in fetchResult /\ u.hash = SlotOf(h).hash /\ u.parts = SlotOf(h).parts
          /\ u.pending = IF b THEN SlotOf(h).pending - 1 ELSE SlotOf(h).pending
      <4>1. b \in BOOLEAN /\ SlotOf(h) \in fetchResult
        BY Zenon, <2>2, <2>4
      <4>. HIDE DEF b
      <4>. QED BY Zenon, <4>1, DropFacts
    <3>2. resultCache'[i] = u
      BY Zenon, <2>3
    <3>. HIDE DEF u
    <3>. QED BY Zenon, <3>1, <3>2
  <2>. QED BY Zenon, <2>1, <2>4, <2>5
<1>13. ASSUME NEW i \in Indices, ~Occupies(T, i)
       PROVE  resultCache'[i] = resultCache[i]
  BY <1>6, <1>13
<1>14. TypeOK'
  <2>1. resultCache' \in [Indices -> fetchResult \cup {Nil}]
    <3>1. \A i \in Indices : resultCache'[i] \in fetchResult \cup {Nil}
      BY Zenon, <1>12, <1>13 DEF IndInv, TypeOK
    <3>2. resultCache' = [i \in Indices |-> resultCache'[i]]
      BY Zenon, <1>6
    <3>. QED BY <3>1, <3>2
  <2>2. /\ taskPool' \in [Kinds -> SUBSET Headers]
        /\ taskQueue' \in [Kinds -> SUBSET Headers]
        /\ donePool' \in [Kinds -> SUBSET Headers]
        /\ pendPool' \in [Kinds -> [Peers -> SUBSET Headers]]
    <3>1. noop \subseteq Headers /\ skip \subseteq Headers /\ send \in SUBSET Headers
      BY ZenonT(20), <1>3
    <3>. HIDE DEF noop, skip, send
    <3>2. /\ taskPool' \in [Kinds -> SUBSET Headers]
          /\ taskQueue' \in [Kinds -> SUBSET Headers]
          /\ donePool' \in [Kinds -> SUBSET Headers]
      BY ZenonT(20), <1>6, <3>1 DEF IndInv, TypeOK
    <3>3. pendPool' \in [Kinds -> [Peers -> SUBSET Headers]]
      BY <1>6, <3>1 DEF IndInv, TypeOK
    <3>. QED BY Zenon, <3>2, <3>3
  <2>3. consumer' \in {"run", "wait", "done"}
    BY ZenonT(30), <1>6 DEF IndInv, TypeOK, Wake
  <2>. QED BY Zenon, <1>6, <1>7, <2>1, <2>2, <2>3 DEF IndInv, TypeOK
<1>15. ScheduledChain'
  BY <1>7 DEF IndInv, ScheduledChain
<1>16. ExactlyOnePlace'
  <2>. SUFFICES ASSUME NEW j \in Kinds
                PROVE  /\ taskPool'[j] = taskQueue'[j] \cup Requested(j, Peers)'
                       /\ \A q \in Peers : pendPool'[j][q] \cap taskQueue'[j] = {}
                       /\ \A q, r \in Peers : q # r => pendPool'[j][q] \cap pendPool'[j][r] = {}
                       /\ donePool'[j] \cap taskPool'[j] = {}
    BY ZenonT(20) DEF ExactlyOnePlace
  <2>1. \A x \in T : \A q \in Peers : x \notin pendPool[k][q]
    BY ZenonT(20), <1>3 DEF IndInv, ExactlyOnePlace
  <2>2. taskPool'[j] = taskQueue'[j] \cup Requested(j, Peers)'
    <3>1. CASE j = k
      <4>1. /\ taskPool[k] = taskQueue[k] \cup Requested(k, Peers)
            /\ T \cap Requested(k, Peers) = {}
        BY <2>1 DEF IndInv, ExactlyOnePlace, Requested
      <4>. QED BY ZenonT(30), <1>3, <1>9, <1>11, <3>1, <4>1
    <3>2. CASE j # k
      BY ZenonT(30), <1>9, <1>11, <3>2 DEF IndInv, ExactlyOnePlace
    <3>. QED BY <3>1, <3>2
  <2>3. \A q \in Peers : pendPool'[j][q] \cap taskQueue'[j] = {}
    <3>. TAKE q \in Peers
    <3>1. pendPool[j][q] \cap taskQueue[j] = {}
      BY Zenon DEF IndInv, ExactlyOnePlace
    <3>2. CASE j # k
      BY Zenon, <1>9, <1>10, <3>1, <3>2
    <3>3. CASE j = k
      <4>1. send \subseteq T /\ skip \subseteq T /\ send \cap skip = {}
        OBVIOUS
      <4>. HIDE DEF send, skip
      <4>2. taskQueue'[j] = (taskQueue[k] \ T) \cup skip
        BY Zenon, <1>9, <3>3
      <4>3. CASE q = p
        <5>1. pendPool'[j][q] = send
          BY Zenon, <1>10, <3>3, <4>3
        <5>. QED BY <4>1, <4>2, <5>1
      <4>4. CASE q # p
        <5>1. pendPool'[j][q] = pendPool[k][q] /\ pendPool[k][q] \cap T = {}
          BY Zenon, <1>10, <2>1, <3>3, <4>4
        <5>. QED BY <3>1, <3>3, <4>1, <4>2, <5>1
      <4>. QED BY Zenon, <4>3, <4>4
    <3>. QED BY Zenon, <3>2, <3>3
  <2>4. \A q, r \in Peers : q # r => pendPool'[j][q] \cap pendPool'[j][r] = {}
    <3>1. \A q, r \in Peers : q # r => pendPool[j][q] \cap pendPool[j][r] = {}
      BY Zenon DEF IndInv, ExactlyOnePlace
    <3>2. CASE j # k
      BY ZenonT(30), <1>10, <3>1, <3>2
    <3>3. CASE j = k
      <4>1. send \subseteq T
        OBVIOUS
      <4>. HIDE DEF send
      <4>2. \A q \in Peers : q # p => pendPool'[j][q] = pendPool[k][q] /\ pendPool[k][q] \cap send = {}
        BY ZenonT(30), <1>10, <2>1, <3>3, <4>1
      <4>3. pendPool'[j][p] = send
        BY Zenon, <1>10, <3>3
      <4>. SUFFICES ASSUME NEW q \in Peers, NEW r \in Peers, q # r
                    PROVE  pendPool'[j][q] \cap pendPool'[j][r] = {}
        BY Zenon
      <4>4. CASE q = p
        BY ZenonT(20), <4>2, <4>3, <4>4
      <4>5. CASE r = p
        BY ZenonT(20), <4>2, <4>3, <4>5
      <4>6. CASE q # p /\ r # p
        BY ZenonT(20), <3>1, <3>3, <4>2, <4>6
      <4>. QED BY Zenon, <4>4, <4>5, <4>6
    <3>. QED BY Zenon, <3>2, <3>3
  <2>5. donePool'[j] \cap taskPool'[j] = {}
    BY ZenonT(20), <1>9 DEF IndInv, ExactlyOnePlace
  <2>. QED BY ZenonT(30), <2>2, <2>3, <2>4, <2>5
<1>17. NothingForgotten'
  <2>1. \A j \in Kinds : taskPool'[j] \cup donePool'[j] = taskPool[j] \cup donePool[j]
    BY ZenonT(20), <1>8, <1>9
  <2>. QED BY Zenon, <1>7, <2>1 DEF IndInv, NothingForgotten
<1>18. \A i \in Indices : resultCache[i] # Nil => resultCache'[i] # Nil
  BY ZenonT(20), <1>12, <1>13, NilAssumption
<1>19. \A i \in Indices : Occupies(T, i) => resultCache'[i] # Nil
  BY Zenon, <1>12, NilAssumption
<1>20. Slots'
  <2>1. \A i \in Indices : resultCache'[i] # Nil => resultCache'[i].hash \in scheduled'
    BY Zenon, <1>7, <1>8, <1>12, <1>13 DEF IndInv, Slots
  <2>2. ASSUME NEW i \in Indices, resultCache'[i] # Nil, NEW j \in 0 .. i
        PROVE  resultCache'[j] # Nil
    <3>1. j \in Indices /\ i \in Nat /\ j \in Nat /\ j <= i /\ resultOffset \in Nat
          /\ Number \in [Headers -> Nat] /\ scheduled \subseteq Headers
      BY CountAssumption, HeaderAssumption DEF Indices, IndInv, TypeOK
    <3>2. CASE resultCache[i] # Nil
      BY ZenonT(30), <1>18, <3>1, <3>2 DEF IndInv, Slots
    <3>3. CASE resultCache[i] = Nil
      <4>1. PICK h \in T : Index(h) = i
        BY Zenon, <1>13, <2>2, <3>3 DEF Occupies
      <4>2. h \in scheduled /\ Number[h] = resultOffset + i
        BY <1>8, <3>1, <4>1 DEF Index
      <4>2a. resultOffset + i < origin
        BY ZenonT(20), <4>2 DEF IndInv, ScheduledChain
      <4>2b. resultOffset + j \in resultOffset .. origin - 1
        <5>1. origin \in Nat
          BY Zenon DEF IndInv, TypeOK
        <5>. QED BY <3>1, <4>2a, <5>1
      <4>3. PICK g \in scheduled : Number[g] = resultOffset + j
        BY Zenon, <4>2b DEF IndInv, ScheduledChain
      <4>4. Index(g) = j /\ (g = h \/ Number[g] < Number[h])
        <5>1. Index(g) = j /\ Number[g] <= Number[h]
          BY <3>1, <4>2, <4>3 DEF Index
        <5>2. Number[g] = Number[h] => g = h
          BY Zenon, <4>2, <4>3 DEF IndInv, ScheduledChain
        <5>3. Number[g] \in Nat /\ Number[h] \in Nat
          BY <3>1, <4>2, <4>3
        <5>. QED BY <5>1, <5>2, <5>3
      <4>5. g \in taskPool[k] \cup donePool[k]
        BY <1>8, <3>1, <4>3 DEF IndInv, NothingForgotten
      <4>6. CASE g \in taskQueue[k]
        <5>1. g \in T
          <6>1. CASE T = taskQueue[k]
            BY ZenonT(20), <4>6, <6>1
          <6>2. CASE T # taskQueue[k]
            <7>1. PICK x \in taskQueue[k] : T = {y \in taskQueue[k] : Number[y] < Number[x]}
              BY ZenonT(30), <1>1, <6>2 DEF Prefixes
            <7>2. Number[x] \in Nat /\ Number[g] \in Nat /\ Number[h] \in Nat
              BY ZenonT(20), <3>1, <4>2, <4>3, <7>1 DEF IndInv, TypeOK
            <7>3. Number[g] < Number[x]
              BY <4>1, <4>4, <7>1, <7>2
            <7>. QED BY ZenonT(20), <4>6, <7>1, <7>3
          <6>. QED BY Zenon, <6>1, <6>2
        <5>. QED BY Zenon, <1>19, <3>1, <4>4, <5>1 DEF Occupies
      <4>7. CASE g \in donePool[k] \cup Requested(k, Peers)
        BY Zenon, <1>18, <4>4, <4>7 DEF IndInv, Slots, Allocated
      <4>. QED BY Zenon, <4>5, <4>6, <4>7 DEF IndInv, ExactlyOnePlace
    <3>. QED BY Zenon, <3>2, <3>3
  <2>3. ASSUME NEW j \in Kinds, NEW h \in donePool'[j] \cup Requested(j, Peers)'
        PROVE  Allocated(h)'
    <3>1. CASE h \in T
      <4>1. Index(h) \in Indices /\ Occupies(T, Index(h))
        BY ZenonT(30), <1>4, <3>1 DEF Occupies
      <4>. QED BY Zenon, <1>7, <1>19, <4>1 DEF Allocated, Index
    <3>2. CASE h \notin T
      <4>1. h \in donePool[j] \cup Requested(j, Peers)
        BY ZenonT(30), <1>9, <1>11, <2>3, <3>2
      <4>. QED BY Zenon, <1>7, <1>18, <4>1 DEF IndInv, Slots, Allocated, Index
    <3>. QED BY Zenon, <3>1, <3>2
  <2>. QED BY <2>1, <2>2, <2>3 DEF Slots
<1>21. PendingIsOwed'
  <2>. SUFFICES ASSUME NEW i \in Indices, resultCache'[i] # Nil,
                       NEW h, h = resultCache'[i].hash
                PROVE  /\ Number[h] - resultOffset' = i
                       /\ resultCache'[i].pending = Cardinality(Owed(h)')
    BY ZenonT(30) DEF PendingIsOwed, Index, Owed
  <2>1. Needed(mode) \subseteq Kinds /\ mode' = mode
    BY <1>7, KindFacts DEF IndInv, TypeOK
  <2>2. CASE h \in noop
    <3>1. Occupies(T, i)
      <4>1. SUFFICES ASSUME ~Occupies(T, i) PROVE FALSE
        BY ZenonT(20)
      <4>2. resultCache[i] # Nil /\ resultCache[i].hash = h
        BY Zenon, <1>13, <4>1
      <4>. QED BY Zenon, <2>2, <4>1, <4>2 DEF IndInv, PendingIsOwed, Occupies
    <3>2. Index(h) = i /\ resultCache'[i].pending = Cardinality(Owed(h)) - 1
      BY ZenonT(30), <1>12, <2>2, <3>1
    <3>3. k \in Owed(h)
      BY <1>8, <2>2 DEF Owed
    <3>4. Owed(h)' = Owed(h) \ {k}
      BY ZenonT(30), <1>9, <2>1, <2>2 DEF Owed
    <3>5. Cardinality(Owed(h)') = Cardinality(Owed(h)) - 1
      BY ZenonT(20), <2>1, <3>3, <3>4, OneFewer DEF Owed
    <3>. QED BY Zenon, <1>7, <3>2, <3>5 DEF Index
  <2>3. CASE h \notin noop
    <3>1. Owed(h)' = Owed(h)
      BY Zenon, <1>9, <2>1, <2>3 DEF Owed
    <3>2. Index(h) = i /\ resultCache'[i].pending = Cardinality(Owed(h))
      BY Zenon, <1>12, <1>13, <2>3 DEF IndInv, PendingIsOwed
    <3>. QED BY Zenon, <1>7, <3>1, <3>2 DEF Index
  <2>. QED BY ZenonT(20), <2>2, <2>3
<1>22. PartsSupplied'
  <2>. SUFFICES ASSUME NEW i \in Indices, resultCache'[i] # Nil,
                       NEW j \in Kinds, resultCache'[i].hash \in donePool'[j]
                PROVE  j \in resultCache'[i].parts \/ resultCache'[i].hash \in Noop[j]
    BY ZenonT(30) DEF PartsSupplied
  <2>1. CASE resultCache'[i].hash \in donePool[j]
    <3>1. resultCache[i] # Nil
      <4>1. Index(resultCache'[i].hash) = i
        BY Zenon, <1>12, <1>13 DEF IndInv, PendingIsOwed
      <4>. QED BY ZenonT(20), <2>1, <4>1 DEF IndInv, Slots, Allocated
    <3>2. resultCache'[i].hash = resultCache[i].hash /\ resultCache'[i].parts = resultCache[i].parts
      BY Zenon, <1>12, <1>13, <3>1
    <3>. QED BY ZenonT(20), <2>1, <3>1, <3>2 DEF IndInv, PartsSupplied
  <2>2. CASE resultCache'[i].hash \notin donePool[j]
    BY ZenonT(30), <1>9, <2>2
  <2>. QED BY Zenon, <2>1, <2>2
<1>23. DeliveredScheduled' /\ DeliveredInOrder' /\ NoIndexOverflow'
  BY ZenonT(20), <1>6, <1>7 DEF IndInv, DeliveredScheduled, DeliveredInOrder, NoIndexOverflow
<1>24. NoLostWakeup'
  <2>. SUFFICES ASSUME consumer' = "wait" PROVE countProcessableItems(0)' /\ ~closed'
    BY Zenon DEF NoLostWakeup
  <2>1. noop = {} /\ consumer = "wait"
    BY Zenon, <1>6 DEF Wake
  <2>2. countProcessableItems(0) /\ ~closed
    BY Zenon, <2>1 DEF IndInv, NoLostWakeup
  <2>3. 0 \in Indices /\ CacheItems \in Nat /\ 0 < CacheItems
    BY CountAssumption DEF Indices
  <2>4. ~(Complete(0)')
    <3>1. CASE Occupies(T, 0)
      <4>1. PICK h \in T : /\ Index(h) = 0
                           /\ resultCache'[0].pending = Cardinality(Owed(h))
        BY Zenon, <1>12, <2>1, <2>3, <3>1
      <4>2. k \in Owed(h) /\ Owed(h) \in SUBSET Kinds
        BY Zenon, <1>8, KindFacts DEF Owed, IndInv, TypeOK
      <4>3. Cardinality(Owed(h)) \in Nat /\ Cardinality(Owed(h)) # 0
        BY Zenon, <4>2, KindFacts, FS_EmptySet
      <4>4. \A n \in Nat : n # 0 => ~(n <= 0)
        OBVIOUS
      <4>. QED BY Zenon, <4>1, <4>3, <4>4 DEF Complete
    <3>2. CASE ~Occupies(T, 0)
      BY Zenon, <1>13, <2>2, <2>3, <3>2 DEF countProcessableItems, Complete
    <3>. QED BY <3>1, <3>2
  <2>5. \A n \in 0 .. 0 - 1 : FALSE
    OBVIOUS
  <2>. QED BY ZenonT(20), <1>7, <2>2, <2>3, <2>4, <2>5 DEF countProcessableItems
<1>. QED
  BY Zenon, <1>14, <1>15, <1>16, <1>17, <1>20, <1>21, <1>22, <1>23, <1>24 DEF IndInv

(***************************************************************************)
(* Results: the headers taken are exactly the scheduled ones below the new  *)
(* offset, and no pool keeps them.                                          *)
(***************************************************************************)
LEMMA ResultsTakeInv ==
  ASSUME IndInv, ResultsTake
  PROVE  IndInv'
<1>. DEFINE Nproc(n) == Smaller(n, MaxResults)
            Taken(r) == {resultCache[i].hash : i \in 0 .. r - 1}
<1>1. PICK n \in 1 .. CacheItems, l \in 1 .. CacheItems :
          /\ countProcessableItems(n)
          /\ delivered' = delivered \o [i \in 1 .. Nproc(n) |-> resultCache[i - 1]]
          /\ donePool' = [k \in Kinds |-> donePool[k] \ Taken(Nproc(n))]
          /\ resultCache' = [i \in Indices |->
               IF i + Nproc(n) \in Indices THEN resultCache[i + Nproc(n)] ELSE Nil]
          /\ resultOffset' = resultOffset + Nproc(n)
          /\ limit' = l
  BY Zenon DEF ResultsTake, Allowances
<1>2. /\ UNCHANGED <<mode, origin, headerHead, scheduled, taskPool, taskQueue, pendPool, lacking,
                     consumer, closed, err>>
      /\ consumer = "run"
  BY ZenonT(20) DEF ResultsTake, headVars
<1>. DEFINE r == Nproc(n)
            taken == Taken(r)
<1>3. r \in 1 .. CacheItems /\ r <= n /\ r \in Nat /\ CacheItems \in Nat
  BY CountAssumption DEF Smaller
<1>3a. resultOffset' = resultOffset + r /\ limit' \in 1 .. CacheItems
  BY Zenon, <1>1
<1>4. /\ resultOffset \in Nat /\ origin \in Nat /\ Number \in [Headers -> Nat]
      /\ scheduled \subseteq Headers
  BY ZenonT(20), HeaderAssumption DEF IndInv, TypeOK
<1>5. \A i \in 0 .. r - 1 : i \in Indices /\ i \in Nat /\ resultCache[i] # Nil /\ resultCache[i].pending <= 0
  BY <1>1, <1>3 DEF countProcessableItems, Complete, Indices
<1>6. \A i \in Indices : resultCache[i] # Nil =>
        /\ resultCache[i] \in fetchResult
        /\ resultCache[i].hash \in scheduled
        /\ Number[resultCache[i].hash] = resultOffset + i
  <2>. SUFFICES ASSUME NEW i \in Indices, resultCache[i] # Nil
                PROVE  /\ resultCache[i] \in fetchResult
                       /\ resultCache[i].hash \in scheduled
                       /\ Number[resultCache[i].hash] = resultOffset + i
    OBVIOUS
  <2>1. /\ resultCache[i] \in fetchResult /\ resultCache[i].hash \in scheduled
        /\ Number[resultCache[i].hash] - resultOffset = i
    BY Zenon DEF IndInv, TypeOK, Slots, PendingIsOwed, Index
  <2>. QED BY <1>4, <2>1
<1>. HIDE DEF Nproc
<1>7. \A i \in 0 .. r - 1 : \A k \in Needed(mode) : resultCache[i].hash \in donePool[k]
  <2>. SUFFICES ASSUME NEW i \in 0 .. r - 1, NEW h, h = resultCache[i].hash
                PROVE  Owed(h) = {}
    BY Zenon DEF Owed
  <2>1. Cardinality(Owed(h)) <= 0
    BY Zenon, <1>5 DEF IndInv, PendingIsOwed
  <2>2. Owed(h) \in SUBSET Kinds
    BY Zenon, KindFacts DEF Owed, IndInv, TypeOK
  <2>. QED BY <2>1, <2>2, KindFacts, FS_EmptySet
<1>8. \A h \in taken : h \in scheduled /\ Number[h] >= resultOffset /\ Number[h] < resultOffset + r
  BY <1>3, <1>4, <1>5, <1>6
<1>9. ASSUME NEW h \in scheduled, Number[h] >= resultOffset, Number[h] < resultOffset + r
      PROVE  h \in taken
  <2>1. Number[h] - resultOffset \in 0 .. r - 1
    BY <1>3, <1>4, <1>9
  <2>2. resultCache[Number[h] - resultOffset].hash = h
    BY Zenon, <1>5, <2>1, SlotFacts DEF Index
  <2>. QED BY Zenon, <2>1, <2>2
<1>10. \A k \in Kinds : taken \cap taskPool[k] = {}
  <2>. SUFFICES ASSUME NEW k \in Kinds, NEW i \in 0 .. r - 1, resultCache[i].hash \in taskPool[k]
                PROVE  FALSE
    BY ZenonT(20)
  <2>1. k \in Needed(mode) /\ resultCache[i].hash \notin donePool[k]
    BY ZenonT(20), PoolFacts
  <2>. QED BY Zenon, <1>7, <2>1
<1>. HIDE DEF Taken
<1>11. TypeOK'
  <2>1. resultCache' \in [Indices -> fetchResult \cup {Nil}]
    BY Zenon, <1>1 DEF IndInv, TypeOK
  <2>2. delivered' \in Seq(fetchResult)
    <3>1. [i \in 1 .. r |-> resultCache[i - 1]] \in Seq(fetchResult)
      <4>1. \A i \in 1 .. r : resultCache[i - 1] \in fetchResult
        BY <1>3, <1>5, <1>6
      <4>. QED BY <1>3, <4>1
    <3>. QED BY <1>1, <3>1 DEF IndInv, TypeOK
  <2>3. donePool' \in [Kinds -> SUBSET Headers]
    BY <1>1 DEF IndInv, TypeOK
  <2>4. resultOffset' \in Nat
    BY <1>3, <1>3a, <1>4
  <2>. QED BY ZenonT(30), <1>2, <1>3a, <2>1, <2>2, <2>3, <2>4 DEF IndInv, TypeOK
<1>12. ScheduledChain'
  <2>1. resultOffset' <= origin'
    <3>1. r - 1 \in 0 .. r - 1 /\ r - 1 \in Indices
      BY <1>3, <1>5
    <3>2. resultCache[r - 1].hash \in scheduled /\ Number[resultCache[r - 1].hash] = resultOffset + (r - 1)
      BY ZenonT(20), <1>5, <1>6, <3>1
    <3>3. resultOffset + (r - 1) < origin
      BY ZenonT(20), <3>2 DEF IndInv, ScheduledChain
    <3>. QED BY <1>2, <1>3, <1>3a, <1>4, <3>3
  <2>2. \A m \in resultOffset' .. origin' - 1 : m \in resultOffset .. origin - 1
    BY <1>2, <1>3, <1>3a, <1>4
  <2>. QED BY Zenon, <1>2, <2>1, <2>2 DEF IndInv, ScheduledChain
<1>13. \A k \in Kinds : Requested(k, Peers)' = Requested(k, Peers)
  BY ZenonT(20), <1>2 DEF Requested
<1>14. \A k \in Kinds : donePool'[k] = donePool[k] \ taken
  BY ZenonT(20), <1>1
<1>15. ExactlyOnePlace'
  BY ZenonT(20), <1>2, <1>13, <1>14 DEF IndInv, ExactlyOnePlace
<1>16. NothingForgotten'
  <2>. SUFFICES ASSUME NEW k \in Kinds
                PROVE  taskPool[k] \cup donePool'[k] =
                         IF k \in Needed(mode)
                           THEN {h \in scheduled : Number[h] >= resultOffset + r} ELSE {}
    BY Zenon, <1>1, <1>2 DEF NothingForgotten
  <2>1. taskPool[k] \cup donePool'[k] = (taskPool[k] \cup donePool[k]) \ taken
    BY ZenonT(20), <1>10, <1>14
  <2>2. CASE k \in Needed(mode)
    <3>1. taskPool[k] \cup donePool[k] = {h \in scheduled : Number[h] >= resultOffset}
      BY Zenon, <2>2 DEF IndInv, NothingForgotten
    <3>2. {h \in scheduled : Number[h] >= resultOffset} \ taken =
            {h \in scheduled : Number[h] >= resultOffset + r}
      BY <1>3, <1>4, <1>8, <1>9
    <3>. QED BY Zenon, <2>1, <2>2, <3>1, <3>2
  <2>3. CASE k \notin Needed(mode)
    BY Zenon, <2>1, <2>3 DEF IndInv, NothingForgotten
  <2>. QED BY ZenonT(20), <2>2, <2>3
<1>17. \A i \in Indices : resultCache'[i] # Nil =>
         i + r \in Indices /\ resultCache'[i] = resultCache[i + r]
  BY Zenon, <1>1
<1>18. \A i \in Indices : i + r \in Indices => resultCache'[i] = resultCache[i + r]
  BY ZenonT(20), <1>1
<1>19. Slots'
  <2>1. \A i \in Indices : resultCache'[i] # Nil => resultCache'[i].hash \in scheduled'
    BY Zenon, <1>2, <1>6, <1>17
  <2>2. ASSUME NEW i \in Indices, resultCache'[i] # Nil, NEW j \in 0 .. i
        PROVE  resultCache'[j] # Nil
    <3>1. j \in Indices /\ j + r \in 0 .. i + r /\ j + r \in Indices
      BY <1>3, <1>17, <2>2 DEF Indices
    <3>2. resultCache[j + r] # Nil
      BY ZenonT(30), <1>17, <2>2, <3>1 DEF IndInv, Slots
    <3>. QED BY Zenon, <1>18, <3>1, <3>2
  <2>3. ASSUME NEW k \in Kinds, NEW h \in donePool'[k] \cup Requested(k, Peers)'
        PROVE  Allocated(h)'
    <3>1. h \in donePool[k] \cup Requested(k, Peers)
      BY ZenonT(20), <1>13, <1>14, <2>3
    <3>2. h \in taskPool[k] \cup donePool'[k]
      BY Zenon, <1>13, <2>3, PoolFacts
    <3>3. h \in scheduled /\ Number[h] >= resultOffset + r
      BY ZenonT(30), <1>1, <1>2, <1>16, <3>2 DEF NothingForgotten
    <3>4. Allocated(h)
      BY ZenonT(20), <3>1 DEF IndInv, Slots
    <3>5. /\ Number[h] - resultOffset' \in Indices
          /\ (Number[h] - resultOffset') + r = Number[h] - resultOffset
      BY <1>3, <1>3a, <1>4, <3>3, <3>4 DEF Allocated, Index, Indices
    <3>. QED BY ZenonT(20), <1>18, <3>4, <3>5 DEF Allocated, Index
  <2>. QED BY Zenon, <2>1, <2>2, <2>3 DEF Slots
<1>20. \A i \in Indices : resultCache'[i] # Nil => resultCache'[i].hash \notin taken
  <2>. SUFFICES ASSUME NEW i \in Indices, resultCache'[i] # Nil PROVE resultCache'[i].hash \notin taken
    BY Zenon
  <2>1. i \in Nat /\ Number[resultCache'[i].hash] = resultOffset + (i + r)
    BY <1>6, <1>17 DEF Indices
  <2>. QED BY <1>3, <1>4, <1>8, <2>1
<1>21. PendingIsOwed'
  <2>. SUFFICES ASSUME NEW i \in Indices, resultCache'[i] # Nil,
                       NEW h, h = resultCache'[i].hash
                PROVE  /\ Number[h] - resultOffset' = i
                       /\ resultCache'[i].pending = Cardinality(Owed(h)')
    BY Zenon DEF PendingIsOwed, Index, Owed
  <2>1. /\ i + r \in Indices /\ resultCache[i + r] # Nil /\ h = resultCache[i + r].hash
        /\ resultCache'[i].pending = resultCache[i + r].pending
    BY ZenonT(20), <1>17
  <2>2. Number[h] = resultOffset + (i + r) /\ resultCache[i + r].pending = Cardinality(Owed(h))
    BY ZenonT(20), <1>6, <2>1 DEF IndInv, PendingIsOwed
  <2>3. Needed(mode) \subseteq Kinds /\ mode' = mode
    BY ZenonT(20), <1>2, KindFacts DEF IndInv, TypeOK
  <2>4. Owed(h)' = Owed(h)
    BY ZenonT(20), <1>14, <1>20, <2>3 DEF Owed
  <2>5. Number[h] - resultOffset' = i
    BY <1>3, <1>3a, <1>4, <2>2 DEF Indices
  <2>. QED BY ZenonT(20), <2>1, <2>2, <2>4, <2>5
<1>22. PartsSupplied'
  BY Zenon, <1>14, <1>17 DEF IndInv, PartsSupplied
<1>. DEFINE d == Len(delivered)
            more == [i \in 1 .. r |-> resultCache[i - 1]]
<1>23. /\ d \in Nat /\ Len(delivered') = d + r
       /\ DOMAIN delivered' = 1 .. d + r
       /\ \A i \in 1 .. d : i \in DOMAIN delivered /\ delivered'[i] = delivered[i]
       /\ \A i \in 1 .. d + r : i > d => i - d - 1 \in 0 .. r - 1 /\ delivered'[i] = resultCache[i - d - 1]
  <2>1. delivered \in Seq(fetchResult) /\ more \in Seq(fetchResult) /\ Len(more) = r
    <3>1. \A i \in 1 .. r : resultCache[i - 1] \in fetchResult
      BY <1>3, <1>5, <1>6
    <3>2. more \in Seq(fetchResult) /\ Len(more) = r
      BY <1>3, <3>1
    <3>. QED BY Zenon, <3>2 DEF IndInv, TypeOK
  <2>2. delivered' = delivered \o more
    BY Zenon, <1>1
  <2>3. d \in Nat /\ Len(delivered') = d + r /\ DOMAIN delivered' = 1 .. d + r
    BY <1>3, <2>1, <2>2
  <2>4. \A i \in 1 .. d : i \in DOMAIN delivered /\ delivered'[i] = delivered[i]
    BY <1>3, <2>1, <2>2
  <2>5. ASSUME NEW i \in 1 .. d + r, i > d
        PROVE  i - d - 1 \in 0 .. r - 1 /\ delivered'[i] = resultCache[i - d - 1]
    <3>1. delivered'[i] = more[i - d]
      BY <1>3, <2>1, <2>2, <2>3, <2>5
    <3>2. i - d \in 1 .. r /\ (i - d) - 1 = i - d - 1
      BY <1>3, <2>3, <2>5
    <3>. QED BY <1>3, <2>3, <2>5, <3>1, <3>2
  <2>. QED BY <2>3, <2>4, <2>5
<1>23a. d \in Nat /\ Len(delivered') = d + r
  BY Zenon, <1>23
<1>24. DeliveredScheduled'
  <2>. SUFFICES ASSUME NEW i \in 1 .. d + r PROVE delivered'[i].hash \in scheduled
    BY Zenon, <1>2, <1>23 DEF DeliveredScheduled
  <2>1. CASE i <= d
    <3>1. i \in 1 .. d
      BY <1>3, <1>23a, <2>1
    <3>. QED BY ZenonT(20), <1>23, <3>1 DEF IndInv, DeliveredScheduled
  <2>2. CASE i > d
    BY Zenon, <1>5, <1>6, <1>23, <2>2
  <2>. QED BY <1>3, <1>23a, <2>1, <2>2
<1>25. \A i \in 1 .. d + r : /\ delivered'[i].hash \in scheduled
                             /\ Number[delivered'[i].hash] = resultOffset - d + i - 1
  <2>. SUFFICES ASSUME NEW i \in 1 .. d + r
                PROVE  Number[delivered'[i].hash] = resultOffset - d + i - 1
    BY ZenonT(20), <1>2, <1>23, <1>24 DEF DeliveredScheduled
  <2>1. CASE i <= d
    <3>1. i \in 1 .. d
      BY <1>3, <1>23a, <2>1
    <3>. QED BY ZenonT(20), <1>23, <3>1 DEF IndInv, DeliveredInOrder
  <2>2. CASE i > d
    <3>1. Number[delivered'[i].hash] = resultOffset + (i - d - 1)
      BY ZenonT(20), <1>5, <1>6, <1>23, <2>2
    <3>. QED BY <1>3, <1>4, <1>23a, <3>1
  <2>. QED BY <1>3, <1>23a, <2>1, <2>2
<1>26. DeliveredInOrder'
  <2>. SUFFICES ASSUME NEW i \in 1 .. d + r
                PROVE  /\ Number[delivered'[i].hash] = resultOffset' - Len(delivered') + i - 1
                       /\ i > 1 => Parent[delivered'[i].hash] = delivered'[i - 1].hash
                       /\ \A k \in Needed(mode) : k \in delivered'[i].parts \/ delivered'[i].hash \in Noop[k]
    BY Zenon, <1>2, <1>23 DEF DeliveredInOrder
  <2>1. Number[delivered'[i].hash] = resultOffset' - Len(delivered') + i - 1
    <3>1. Number[delivered'[i].hash] = resultOffset - d + i - 1
      BY <1>25
    <3>2. resultOffset' = resultOffset + r /\ Len(delivered') = d + r /\ d \in Nat
      BY ZenonT(30), <1>1, <1>23
    <3>3. resultOffset' - Len(delivered') + i - 1 = resultOffset - d + i - 1
      BY <1>3, <1>4, <3>2
    <3>. QED BY Zenon, <3>1, <3>3
  <2>2. i > 1 => Parent[delivered'[i].hash] = delivered'[i - 1].hash
    <3>. SUFFICES ASSUME i > 1 PROVE Parent[delivered'[i].hash] = delivered'[i - 1].hash
      BY Zenon
    <3>1. i - 1 \in 1 .. d + r
      BY <1>3, <1>23a
    <3>2. Number[delivered'[i].hash] = Number[delivered'[i - 1].hash] + 1
      <4>1. /\ Number[delivered'[i].hash] = resultOffset - d + i - 1
            /\ Number[delivered'[i - 1].hash] = resultOffset - d + (i - 1) - 1
        BY Zenon, <1>25, <3>1
      <4>. QED BY <1>3, <1>4, <1>23a, <4>1
    <3>. QED BY ZenonT(20), <1>25, <3>1, <3>2 DEF IndInv, ScheduledChain
  <2>3. \A k \in Needed(mode) : k \in delivered'[i].parts \/ delivered'[i].hash \in Noop[k]
    <3>1. CASE i <= d
      <4>1. i \in 1 .. d
        BY <1>3, <1>23a, <3>1
      <4>. QED BY ZenonT(20), <1>23, <4>1 DEF IndInv, DeliveredInOrder
    <3>2. CASE i > d
      <4>1. Needed(mode) \subseteq Kinds
        BY Zenon, KindFacts DEF IndInv, TypeOK
      <4>. QED BY Zenon, <1>5, <1>7, <1>23, <3>2, <4>1 DEF IndInv, PartsSupplied
    <3>. QED BY <1>3, <1>23a, <3>1, <3>2
  <2>. QED BY ZenonT(20), <2>1, <2>2, <2>3
<1>27. NoIndexOverflow' /\ NoLostWakeup'
  BY Zenon, <1>2 DEF IndInv, NoIndexOverflow, NoLostWakeup
<1>. QED
  BY Zenon, <1>11, <1>12, <1>15, <1>16, <1>19, <1>21, <1>22, <1>24, <1>26, <1>27 DEF IndInv

-----------------------------------------------------------------------------
(***************************************************************************)
(* Every step of the queue, whichever goroutine of the synchronisation      *)
(* takes it, preserves the inductive invariant.                             *)
(***************************************************************************)
LEMMA NextInv == IndInv /\ [Next]_vars => IndInv'
<1>. SUFFICES ASSUME IndInv, [Next]_vars PROVE IndInv'
  OBVIOUS
<1>1. ASSUME NEW o \in Origins, NEW m \in Modes, NewSync(o, m) PROVE IndInv'
  BY <1>1, NewSyncInv
<1>2. CASE Close
  BY <1>2, ConsumerInv
<1>3. ASSUME NEW chunk \in Chunks, Schedule(chunk) PROVE IndInv'
  BY Zenon, <1>3, ScheduleInv
<1>4. ASSUME NEW k \in Kinds, NEW p \in Peers, NEW c \in 1 .. MaxCount, Reserve(k, p, c) PROVE IndInv'
  BY Zenon, <1>4, ReserveInv
<1>5. ASSUME NEW k \in Kinds, NEW P \in SUBSET Peers, Expire(k, P) PROVE IndInv'
  BY <1>5, ExpireInv
<1>6. ASSUME NEW p \in Peers, Revoke(p) PROVE IndInv'
  BY Zenon, <1>6, RevokeInv
<1>7. ASSUME NEW k \in Kinds, NEW p \in Peers, NEW empty \in BOOLEAN,
             NEW match \in Prefixes(pendPool[k][p]), Deliver(k, p, match, empty)
      PROVE  IndInv'
  BY <1>7, DeliverInv
<1>8. CASE ResultsWait
  BY <1>8, ConsumerInv
<1>9. CASE ResultsTake
  BY <1>9, ResultsTakeInv
<1>10. CASE ResultsEmpty
  BY Zenon, <1>10, ConsumerInv
<1>11. CASE UNCHANGED vars
  <2>1. /\ UNCHANGED <<headVars, poolVars, cacheVars, lacking, err, delivered>>
        /\ UNCHANGED <<consumer, closed>>
    BY Zenon, <1>11 DEF vars
  <2>2. consumer' \in {"run", "wait", "done"} /\ closed' \in BOOLEAN
    BY ZenonT(20), <2>1 DEF IndInv, TypeOK
  <2>3. NoLostWakeup'
    BY <2>1 DEF IndInv, NoLostWakeup, countProcessableItems, Complete, cacheVars
  <2>. QED BY Zenon, <2>1, <2>2, <2>3, FrameInv
<1>. QED
  BY Zenon, <1>1, <1>2, <1>3, <1>4, <1>5, <1>6, <1>7, <1>8, <1>9, <1>10, <1>11 DEF Next

(***************************************************************************)
(* The queue never leaves its inductive invariant.                          *)
(***************************************************************************)
THEOREM Invariance == Spec => []IndInv
BY InitInv, NextInv, PTL DEF Spec

(***************************************************************************)
(* Type correctness of the queue, for any peers, headers and limits.        *)
(***************************************************************************)
THEOREM TypeCorrect == Spec => []TypeOK
<1>1. IndInv => TypeOK
  BY DEF IndInv
<1>. QED BY <1>1, Invariance, PTL

(***************************************************************************)
(* Whatever expires, is revoked, arrives late or in part: an owed header is *)
(* always in exactly one of the task queue and the requests of the peers.   *)
(***************************************************************************)
THEOREM OnePlace == Spec => []ExactlyOnePlace
<1>1. IndInv => ExactlyOnePlace
  BY DEF IndInv
<1>. QED BY <1>1, Invariance, PTL

(***************************************************************************)
(* No scheduled header drops out of the pools before it is handed out.      *)
(***************************************************************************)
THEOREM NoneForgotten == Spec => []NothingForgotten
<1>1. IndInv => NothingForgotten
  BY DEF IndInv
<1>. QED BY <1>1, Invariance, PTL

(***************************************************************************)
(* The Pending counter of reserveHeaders and deliver always counts exactly  *)
(* the kinds of data that are missing.                                      *)
(***************************************************************************)
THEOREM PendingExact == Spec => []PendingIsOwed
<1>1. IndInv => PendingIsOwed
  BY DEF IndInv
<1>. QED BY <1>1, Invariance, PTL

(***************************************************************************)
(* reserveHeaders never allocates beyond the result cache and deliver never *)
(* misses a slot, for every cache size and memory allowance.                *)
(***************************************************************************)
THEOREM NeverOverflows == Spec => []NoIndexOverflow
<1>1. IndInv => NoIndexOverflow
  BY DEF IndInv
<1>. QED BY <1>1, Invariance, PTL

(***************************************************************************)
(* Results hands out one contiguous chain of complete results.              *)
(***************************************************************************)
THEOREM InOrder == Spec => []DeliveredInOrder
<1>1. IndInv => DeliveredInOrder
  BY DEF IndInv
<1>. QED BY <1>1, Invariance, PTL

(***************************************************************************)
(* The content processor never sleeps in active.Wait with a result ready.   *)
(***************************************************************************)
THEOREM AlwaysWoken == Spec => []NoLostWakeup
<1>1. IndInv => NoLostWakeup
  BY DEF IndInv
<1>. QED BY <1>1, Invariance, PTL
=============================================================================
