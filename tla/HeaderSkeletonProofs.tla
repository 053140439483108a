------------------------ MODULE HeaderSkeletonProofs ------------------------
(***************************************************************************)
(* Proofs about the header skeleton, for every number of peers, length of  *)
(* the chain and size of batches and skeletons.                            *)
(***************************************************************************)
EXTENDS HeaderSkeleton, WellFoundedInduction, TLAPS

(***************************************************************************)
(* Arithmetic of the places of batches.                                    *)
(***************************************************************************)

\* A multiple of a batch leaves no rest: the places where ready batches of
\* headerResults begin (DeliverHeaders).
LEMMA MultipleRest ==
  \A q \in Nat, m \in Nat \ {0}, r \in Nat : r < m => (q * m + r) % m = r
BY SMT

\* Division with rest by the size of a batch.
LEMMA DivRest ==
  \A a \in Nat, m \in Nat \ {0} :
    /\ a = (a \div m) * m + (a % m)
    /\ a % m \in 0..(m - 1) /\ a \div m \in Nat
BY SMT

\* The places of later batches are further on.
LEMMA MultipleOrder ==
  \A i, q \in Nat, m \in Nat \ {0} :
    /\ i * m \in Nat /\ (i + 1) * m = i * m + m
    /\ i <= q => i * m <= q * m
    /\ i * m < q * m => i < q
BY SMT

\* Whole batches add up to whole batches.
LEMMA MultipleSum ==
  \A i, q \in Nat, m \in Nat \ {0} :
    /\ (i + q) * m = i * m + q * m
    /\ (i * m) % m = 0
    /\ i * m <= q * m => q * m - i * m = (q - i) * m /\ q - i \in Nat
BY SMT

\* A place lies in the batch it is rounded down to (Place, BatchOnePlace).
LEMMA InBatch ==
  ASSUME NEW q \in Nat, NEW m \in Nat \ {0}, NEW i \in Nat \ {0}
  PROVE  (i - q * m \in 1..m) <=> ((i - 1) \div m) * m = q * m
<1> DEFINE v == (i - 1) \div m
           w == (i - 1) % m
<1>1. i - 1 = v * m + w /\ w \in 0..(m - 1) /\ v \in Nat
  <2>1. i - 1 \in Nat
    OBVIOUS
  <2> QED BY <2>1, DivRest, Zenon
<1> HIDE DEF v, w
<1>2. v * m = q * m => i - q * m \in 1..m
  BY <1>1, SMT
<1>3. ASSUME i - q * m \in 1..m
      PROVE  v * m = q * m
  <2>1. v * m + w - q * m \in 0..(m - 1)
    BY <1>1, <1>3, SMT
  <2>2. v <= q
    <3>1. SUFFICES ASSUME q + 1 <= v
                   PROVE  FALSE
      BY <1>1
    <3>2. (q + 1) * m <= v * m /\ (q + 1) * m = q * m + m
      BY <1>1, <3>1, SMT
    <3> QED BY <1>1, <2>1, <3>2, SMT
  <2>3. q <= v
    <3>1. SUFFICES ASSUME v + 1 <= q
                   PROVE  FALSE
      BY <1>1
    <3>2. (v + 1) * m <= q * m /\ (v + 1) * m = v * m + m
      BY <1>1, <3>1, SMT
    <3> QED BY <1>1, <2>1, <3>2, SMT
  <2> QED BY <1>1, <2>2, <2>3
<1> QED BY <1>2, <1>3 DEF v

\* The places of n batches have the numbers 0 to n - 1.
LEMMA BatchNumber ==
  ASSUME NEW n \in Nat, NEW m \in Nat \ {0}, NEW i \in 1..(n * m)
  PROVE  (i - 1) \div m \in 0..(n - 1)
<1> DEFINE v == (i - 1) \div m
           w == (i - 1) % m
<1>0. i \in Nat \ {0} /\ i <= n * m
  BY SMT
<1>1. i - 1 = v * m + w /\ w \in 0..(m - 1) /\ v \in Nat
  <2>1. i - 1 \in Nat
    BY <1>0
  <2> QED BY <2>1, DivRest, Zenon
<1> HIDE DEF v, w
<1>2. SUFFICES ASSUME n <= v
               PROVE  FALSE
  BY <1>1 DEF v
<1>3. n * m <= v * m
  BY <1>1, <1>2, SMT
<1> QED BY <1>0, <1>1, <1>3, SMT
\* A set of numbers that is not empty has a smallest one, which ReserveHeaders
\* picks from its queue.
LEMMA SmallestExists ==
  ASSUME NEW S \in SUBSET Nat, S # {}
  PROVE  \E m \in S : \A n \in S : m <= n
<1>1. \E x \in S : \A y \in S : ~ (<<y, x>> \in OpToRel(<, Nat))
  BY NatLessThanWellFounded, WFMin, Zenon
<1>2. PICK x \in S : \A y \in S : ~ (<<y, x>> \in OpToRel(<, Nat))
  BY <1>1, Zenon
<1>3. ASSUME NEW n \in S
      PROVE  x <= n
  <2>1. ~ (<<n, x>> \in OpToRel(<, Nat))
    BY <1>2, Zenon
  <2>2. x \in Nat /\ n \in Nat
    OBVIOUS
  <2>3. ~ (n < x)
    BY <2>1, <2>2 DEF OpToRel
  <2> QED BY <2>2, <2>3
<1> QED BY <1>3

\* What most steps need of the constants.
LEMMA ConstantFacts ==
  /\ MaxHeaderFetch \in Nat \ {0} /\ First \in Nat \ {0} /\ Len(Chain) \in Nat
  /\ HeaderDelay \in Nat /\ Master \in Peers /\ Nil \notin Headers
BY SkeletonAssumption

(***************************************************************************)
(* The invariant.                                                          *)
(***************************************************************************)

Filling == pc = "fill"

TypeInv ==
  /\ pc \in {"request", "fill", "forward", "finish", "dropped", "returned"}
  /\ from \in Nat \ {0}
  /\ headers \in Seq(Headers \cup {Nil})
  /\ headerPendPool \in [Peers -> Nat]
  /\ headerPeerMiss \in [Peers -> SUBSET Nat]
  /\ headerResults \in Seq(Headers \cup {Nil})
  /\ headerProced \in Nat

\* Outside the filling there are no results, and no requests before the end.
QuietInv ==
  /\ ~Filling => headerResults = << >>
  /\ pc \in {"request", "forward", "finish", "dropped"} =>
       \A p \in Peers : headerPendPool[p] = 0

\* A batch that is not filled is queued or in the request of one peer.
PlaceInv ==
  Filling =>
    /\ DOMAIN headerTaskPool = headerTaskQueue \cup ({headerPendPool[p] : p \in Peers} \ {0})
    /\ \A p \in Peers : headerPendPool[p] # 0 =>
         /\ headerPendPool[p] \notin headerTaskQueue
         /\ \A q \in Peers \ {p} : headerPendPool[q] # headerPendPool[p]

\* Batches begin at multiples of their size and fit into the results.
Multiple(n) == \E k \in Nat : n = k * MaxHeaderFetch

GridInv ==
  Filling =>
    /\ headerOffset = from
    /\ Multiple(Len(headerResults)) /\ Multiple(headerProced)
    /\ headerProced <= Len(headerResults)
    /\ \A t \in DOMAIN headerTaskPool :
         \E k \in Nat : t = from + k * MaxHeaderFetch

\* A place is empty as long as its batch is a task.
Batch(k) == headerOffset + ((k - 1) \div MaxHeaderFetch) * MaxHeaderFetch

FilledInv ==
  Filling =>
    \A k \in 1..Len(headerResults) :
      headerResults[k] = Nil <=> Batch(k) \in DOMAIN headerTaskPool

\* The skeleton of an honest master is made of its chain, and it never fails.
HonestInv ==
  Filling /\ honest =>
    /\ headerPeerMiss[Master] = {}
    /\ \A t \in DOMAIN headerTaskPool :
         t + MaxHeaderFetch - 1 <= Len(Chain) /\ headerTaskPool[t] = Chain[t + MaxHeaderFetch - 1]

PeerInv == peers \subseteq Peers /\ (Master \in peers \/ cancelled)

EndInv == NoPanic /\ OriginKept

IInv ==
  /\ TypeInv /\ QuietInv /\ PlaceInv /\ GridInv /\ FilledInv /\ HonestInv /\ PeerInv /\ EndInv
  /\ BatchesLinked

(***************************************************************************)
(* What peers send, and what the queue picks.                              *)
(***************************************************************************)

\* A list of headers of bounded length is a sequence of headers.
LEMMA ListIsSeq ==
  ASSUME NEW n \in Nat, NEW h \in ListsUpTo(n)
  PROVE  h \in Seq(Headers) /\ Len(h) <= n
<1>1. PICK k \in 0..n : h \in [1..k -> Headers]
  BY DEF ListsUpTo
<1>2. k \in Nat /\ k <= n
  BY <1>1
<1>3. h \in Seq(Headers) /\ Len(h) = k
  BY <1>1, <1>2
<1> QED BY <1>2, <1>3

\* The skeleton of an honest master: every MaxHeaderFetch-th header of its chain
\* (fetchHeaders, getHeaders).
LEMMA SkeletonList ==
  ASSUME from \in Nat \ {0}, NEW s \in Skeletons, s # << >>
  PROVE  /\ s \in Seq(Headers)
         /\ honest => \A i \in 1..Len(s) :
              /\ Task(from, i) + MaxHeaderFetch - 1 \in 1..Len(Chain)
              /\ s[i] = Chain[Task(from, i) + MaxHeaderFetch - 1]
<1> USE SkeletonAssumption
<1>1. CASE ~honest
  <2>1. s \in ListsUpTo(MaxSkeleton)
    BY <1>1 DEF Skeletons
  <2> QED BY <1>1, <2>1, ListIsSeq
<1>2. CASE honest
  <2> DEFINE K == Smaller(MaxSkeleton, (Len(Chain) + 1 - from) \div MaxHeaderFetch)
             D == (Len(Chain) + 1 - from) \div MaxHeaderFetch
  <2>1. s = [i \in 1..K |-> Chain[Task(from, i) + MaxHeaderFetch - 1]]
    BY <1>2 DEF Skeletons
  <2>2. D \in Int /\ D * MaxHeaderFetch <= Len(Chain) + 1 - from
    BY SMT
  <2>3. K \in Int /\ K <= D
    BY <2>2 DEF Smaller
  <2> HIDE DEF K, D
  <2>4. K \in Nat
    <3>1. SUFFICES ASSUME K < 0
                   PROVE  FALSE
      BY <2>3
    <3>2. 1..K = {}
      BY <2>3, <3>1
    <3>3. s = << >>
      BY <2>1, <3>2
    <3> QED BY <3>3
  <2>5. ASSUME NEW i \in 1..K
        PROVE  Task(from, i) + MaxHeaderFetch - 1 \in 1..Len(Chain)
    <3>1. i \in Nat /\ i - 1 \in Nat /\ D \in Nat
      BY <2>2, <2>3, <2>4
    <3>2. (i - 1) * MaxHeaderFetch \in Nat /\ i * MaxHeaderFetch = (i - 1) * MaxHeaderFetch + MaxHeaderFetch
      BY <3>1, SMT
    <3>3. i * MaxHeaderFetch <= D * MaxHeaderFetch
      BY <3>1, <2>3, <2>4, MultipleOrder
    <3> DEFINE X == (i - 1) * MaxHeaderFetch
               Y == D * MaxHeaderFetch
    <3>4. Y \in Int /\ X \in Nat /\ X + MaxHeaderFetch <= Y /\ Y <= Len(Chain) + 1 - from
      BY <3>1, <3>2, <3>3, <2>2, SMT
    <3>5. Task(from, i) = from + X
      BY DEF Task
    <3> HIDE DEF X, Y
    <3> QED BY <3>4, <3>5
  <2>6. s \in [1..K -> Headers]
    BY <2>1, <2>5
  <2>7. s \in Seq(Headers) /\ Len(s) = K
    BY <2>4, <2>6
  <2> QED BY <2>1, <2>5, <2>7, Zenon
<1> QED BY <1>1, <1>2

\* The tail of the chain is a list of headers (fetchHeaders).
LEMMA TailList ==
  ASSUME from \in Nat \ {0}, NEW h \in Tails
  PROVE  h \in Seq(Headers)
<1> USE SkeletonAssumption
<1>1. CASE honest
  <2>1. h = SubSeq(Chain, from, Upto(from + MaxHeaderFetch - 1))
    BY <1>1 DEF Tails
  <2>2. Upto(from + MaxHeaderFetch - 1) \in 0..Len(Chain)
    BY DEF Upto, Smaller
  <2> QED BY <2>1, <2>2
<1>2. CASE ~honest
  <2>1. h = << >> \/ h \in ForeignTails
    BY <1>2, Zenon DEF Tails
  <2>2. << >> \in Seq(Headers)
    OBVIOUS
  <2> QED BY <2>1, <2>2, Zenon
<1> QED BY <1>1, <1>2

\* What a peer answers to a request is a list of headers (getHeaders).
LEMMA AnswerList ==
  ASSUME NEW p \in Peers, headerPendPool[p] \in Nat \ {0}, NEW h \in Answers(p)
  PROVE  h \in Seq(Headers)
<1> USE SkeletonAssumption
<1> DEFINE t == headerPendPool[p]
           e == Upto(t + MaxHeaderFetch - 1)
<1>1. CASE p # Master \/ ~honest
  <2>1. h \in ListsUpTo(MaxHeaderFetch)
    BY <1>1 DEF Answers
  <2> QED BY <2>1, ListIsSeq
<1>2. CASE p = Master /\ honest
  <2>1. h = SubSeq(Chain, t, e)
    BY <1>2 DEF Answers
  <2>2. e \in 0..Len(Chain) /\ t \in Nat \ {0}
    BY DEF Upto, Smaller
  <2> HIDE DEF t, e
  <2> QED BY <2>1, <2>2
<1> QED BY <1>1, <1>2

\* ReserveHeaders picks a batch that is queued and that the peer has not failed on.
LEMMA ReservePicks ==
  ASSUME NEW p \in Peers, headerTaskQueue \subseteq Nat,
         headerPendPool[p] = 0, Reservable(p) # {}
  PROVE  ReserveHeaders(p) \in Reservable(p)
<1>1. Reservable(p) \in SUBSET Nat
  BY Zenon DEF Reservable
<1>2. \E t \in Reservable(p) : \A u \in Reservable(p) : t <= u
  BY <1>1, SmallestExists
<1>3. ReserveHeaders(p) = CHOOSE t \in Reservable(p) : \A u \in Reservable(p) : t <= u
  BY DEF ReserveHeaders
<1> QED BY <1>2, <1>3

\* The headers that are ready are whole batches (DeliverHeaders).
LEMMA ReadyWhole ==
  ASSUME NEW results, Len(results) \in Nat, headerProced \in Nat,
         Multiple(Len(results)), Multiple(headerProced), headerProced <= Len(results)
  PROVE  /\ Ready(results) \in 0..(Len(results) - headerProced)
         /\ Multiple(headerProced + Ready(results))
         /\ \A k \in 0..(Ready(results) - 1) :
              k % MaxHeaderFetch = 0 => results[headerProced + k + 1] # Nil
<1> USE ConstantFacts
<1> DEFINE m == MaxHeaderFetch
           L == Len(results)
           R == 0..(L - headerProced)
           Stop == {n \in R : n % m = 0 /\ (headerProced + n < L => results[headerProced + n + 1] = Nil)}
           Good(n) == /\ n % m = 0
                      /\ \A k \in 0..(n - 1) : k % m = 0 => results[headerProced + k + 1] # Nil
                      /\ headerProced + n < L => results[headerProced + n + 1] = Nil
<1>1. PICK a \in Nat : L = a * m
  BY DEF Multiple
<1>2. PICK b \in Nat : headerProced = b * m
  BY Zenon DEF Multiple
<1>3. (L - headerProced) % m = 0 /\ L - headerProced \in R
  <2>2. L - headerProced = (a - b) * m /\ a - b \in Nat
    BY <1>1, <1>2, MultipleSum
  <2>3. ((a - b) * m) % m = 0
    BY <2>2, MultipleSum
  <2>4. L - headerProced \in Nat
    OBVIOUS
  <2> QED BY <2>2, <2>3, <2>4
<1>4. L - headerProced \in Stop
  BY <1>3
<1>5. Stop \in SUBSET Nat /\ Stop # {}
  <2>1. R \subseteq Nat
    OBVIOUS
  <2> HIDE DEF R
  <2> QED BY <1>4, <2>1, Zenon
<1>6. PICK n \in Stop : \A k \in Stop : n <= k
  <2> HIDE DEF Stop
  <2> QED BY <1>5, SmallestExists
<1>7. Good(n)
  <2>1. n \in R /\ n % m = 0 /\ (headerProced + n < L => results[headerProced + n + 1] = Nil)
    BY <1>6
  <2>2. ASSUME NEW k \in 0..(n - 1), k % m = 0
        PROVE  results[headerProced + k + 1] # Nil
    <3>1. k \in R /\ headerProced + k < L /\ k < n
      BY <2>1
    <3>2. k \in Nat /\ n \in Nat /\ ~ (n <= k)
      BY <3>1, <2>1
    <3>3. k \notin Stop
      BY <1>6, <3>2, Zenon
    <3> QED BY <2>2, <3>1, <3>3
  <2> QED BY <2>1, <2>2
<1>8. Ready(results) = CHOOSE k \in R : Good(k)
  BY DEF Ready
<1> HIDE DEF Good
<1>9. Ready(results) \in R /\ Good(Ready(results))
  BY <1>6, <1>7, <1>8
<1>10. Ready(results) % m = 0
  BY <1>9 DEF Good
<1>11. Multiple(headerProced + Ready(results))
  <2> DEFINE r == Ready(results)
  <2>1. r \in Nat
    BY <1>9
  <2> HIDE DEF r
  <2>2. r = (r \div m) * m + (r % m) /\ r \div m \in Nat
    BY <2>1, DivRest, Zenon
  <2>3. r = (r \div m) * m
    BY <1>10, <2>1, <2>2, SMT DEF r
  <2>4. b + (r \div m) \in Nat /\ (b + (r \div m)) * m = b * m + (r \div m) * m
    BY <2>2, MultipleSum
  <2>5. headerProced + r = (b + (r \div m)) * m
    BY <1>2, <2>3, <2>4
  <2> QED BY <2>4, <2>5, Zenon DEF Multiple, r
<1>12. \A k \in 0..(Ready(results) - 1) : k % m = 0 => results[headerProced + k + 1] # Nil
  BY <1>9 DEF Good
<1> QED BY <1>9, <1>11, <1>12

\* An honest master's answer is accepted (DeliverHeaders).
LEMMA HonestAccepted ==
  ASSUME IInv, Filling, honest, headerPendPool[Master] # 0, NEW h \in Answers(Master)
  PROVE  Accepted(h, headerPendPool[Master])
<1> USE SkeletonAssumption
<1> DEFINE t == headerPendPool[Master]
           e == t + MaxHeaderFetch - 1
<1>1. t \in DOMAIN headerTaskPool
  BY DEF IInv, PlaceInv
<1>2. t \in Nat \ {0} /\ e <= Len(Chain) /\ headerTaskPool[t] = Chain[e]
  BY <1>1 DEF IInv, TypeInv, HonestInv
<1>3. Upto(e) = e
  BY <1>2 DEF Upto, Smaller
<1>4. h = SubSeq(Chain, t, e)
  BY <1>3 DEF Answers
<1> HIDE DEF t
<1>5. /\ e \in Nat /\ t <= e /\ e - t + 1 = MaxHeaderFetch
      /\ \A i \in 1..MaxHeaderFetch : t + i - 1 \in 1..Len(Chain)
  BY <1>2
<1>6. Len(h) = MaxHeaderFetch /\ \A i \in 1..MaxHeaderFetch : h[i] = Chain[t + i - 1]
  BY <1>2, <1>4, <1>5
<1>7. Number[h[1]] = t
  <2>1. 1 \in 1..MaxHeaderFetch /\ t + 1 - 1 = t /\ t \in 1..Len(Chain)
    BY <1>2, <1>5
  <2>2. h[1] = Chain[t]
    BY <1>6, <2>1
  <2> QED BY <2>1, <2>2
<1>8. h[Len(h)] = headerTaskPool[t]
  <2>1. MaxHeaderFetch \in 1..MaxHeaderFetch
    OBVIOUS
  <2>2. h[MaxHeaderFetch] = Chain[t + MaxHeaderFetch - 1]
    BY <1>6, <2>1, Zenon
  <2> QED BY <1>2, <1>6, <2>2
<1>9. ASSUME NEW i \in 2..Len(h)
      PROVE  Number[h[i]] = t + i - 1 /\ Parent[h[i]] = h[i - 1]
  <2>1. i \in 1..MaxHeaderFetch /\ i - 1 \in 1..MaxHeaderFetch
    BY <1>6
  <2> DEFINE n == t + i - 1
  <2>2. n \in 2..Len(Chain) /\ n \in 1..Len(Chain) /\ t + (i - 1) - 1 = n - 1
    BY <1>2, <1>5, <2>1
  <2>3. h[i] = Chain[n] /\ h[i - 1] = Chain[n - 1]
    BY <1>6, <2>1, <2>2, Zenon
  <2> HIDE DEF n
  <2>4. Parent[Chain[n]] = Chain[n - 1] /\ Number[Chain[n]] = n
    BY <2>2
  <2> QED BY <2>3, <2>4 DEF n
<1> QED BY <1>6, <1>7, <1>8, <1>9, Zenon DEF Accepted, t

\* A batch that is accepted leaves every batch in place a chain (DeliverHeaders).
LEMMA PlaceLinked ==
  ASSUME IInv, Filling, NEW t \in DOMAIN headerTaskPool, NEW h \in Seq(Headers), Accepted(h, t)
  PROVE  /\ Place(headerResults, t, h) \in Seq(Headers \cup {Nil})
         /\ Len(Place(headerResults, t, h)) = Len(headerResults)
         /\ \A i \in 1..Len(headerResults) :
              LET r == Place(headerResults, t, h)
              IN /\ r[i] # Nil => Number[r[i]] = headerOffset + i - 1
                 /\ r[i] # Nil /\ (i - 1) % MaxHeaderFetch # 0 => Parent[r[i]] = r[i - 1]
                 /\ r[i] = Nil <=> Batch(i) \in DOMAIN headerTaskPool \ {t}
<1> USE ConstantFacts
<1> DEFINE r == Place(headerResults, t, h)
           m == MaxHeaderFetch
           L == Len(headerResults)
<1>1. headerOffset = from /\ from \in Nat /\ headerResults \in Seq(Headers \cup {Nil}) /\ L \in Nat
  BY DEF IInv, TypeInv, GridInv
<1>2. PICK k \in Nat : t = from + k * m
  BY Zenon DEF IInv, GridInv
<1> DEFINE d == k * m
<1>3. d \in Nat /\ d % m = 0 /\ (d + m) % m = 0
  <2>1. (k + 1) * m = d + m /\ d \in Nat
    BY MultipleOrder
  <2>2. ((k + 1) * m) % m = 0 /\ (k * m) % m = 0
    <3>1. k + 1 \in Nat
      OBVIOUS
    <3> QED BY <3>1, MultipleSum, Zenon
  <2> QED BY <2>1, <2>2
<1>4. t - headerOffset = d
  BY <1>1, <1>2, <1>3
<1>5. r = [i \in 1..L |-> IF i - d \in 1..Len(h) THEN h[i - d] ELSE headerResults[i]]
  BY <1>1, <1>4 DEF Place
<1>6. /\ Len(h) = m /\ Number[h[1]] = t
      /\ \A i \in 2..m : Number[h[i]] = t + i - 1 /\ Parent[h[i]] = h[i - 1]
  BY DEF Accepted
<1>7. t = from + d
  BY <1>2
<1> HIDE DEF d, r
<1>8. \A i \in 1..L : r[i] \in Headers \cup {Nil}
  BY <1>1, <1>3, <1>5
<1>9. r \in [1..L -> Headers \cup {Nil}]
  BY <1>5, <1>8
<1>10. r \in Seq(Headers \cup {Nil}) /\ Len(r) = L
  <2>1. L \in Nat
    BY <1>1
  <2> HIDE DEF L
  <2> QED BY <1>9, <2>1
<1>11. ASSUME NEW i \in 1..L, r[i] # Nil
       PROVE  Number[r[i]] = headerOffset + i - 1
  <2>1. CASE i - d \in 1..m
    <3>1. r[i] = h[i - d]
      BY <1>5, <1>6, <2>1
    <3>2. Number[h[i - d]] = t + (i - d) - 1
      <4>1. CASE i - d = 1
        BY <4>1, <1>6, <1>1, <1>7, <1>3
      <4>2. CASE i - d # 1
        <5>1. i - d \in 2..m
          BY <4>2, <2>1, <1>3
        <5> QED BY <5>1, <1>6
      <4> QED BY <4>1, <4>2
    <3> QED BY <3>1, <3>2, <1>1, <1>3, <1>7
  <2>2. CASE i - d \notin 1..m
    <3>1. r[i] = headerResults[i]
      BY <1>5, <1>6, <2>2
    <3> QED BY <3>1, <1>11 DEF IInv, BatchesLinked
  <2> QED BY <2>1, <2>2
<1>12. ASSUME NEW i \in 1..L, r[i] # Nil, (i - 1) % m # 0
       PROVE  Parent[r[i]] = r[i - 1]
  <2>1. i # 1 /\ i - 1 \in 1..L
    <3>1. 0 % m = 0
      BY SMT
    <3>2. i # 1
      BY <3>1, <1>12
    <3> QED BY <3>2, <1>1
  <2>2. i - 1 # d /\ i - 1 # d + m
    BY <1>3, <1>12
  <2>3. CASE i - d \in 1..m
    <3>1. r[i] = h[i - d]
      BY <1>5, <1>6, <2>3
    <3>2. i - d \in 2..m /\ (i - 1) - d \in 1..m /\ (i - d) - 1 = (i - 1) - d
      BY <2>2, <2>3, <1>3
    <3>3. r[i - 1] = h[(i - 1) - d]
      BY <1>5, <1>6, <2>1, <3>2, Zenon
    <3> QED BY <3>1, <3>2, <3>3, <1>6, Zenon
  <2>4. CASE i - d \notin 1..m
    <3>1. r[i] = headerResults[i]
      BY <1>5, <1>6, <2>4
    <3>2. (i - 1) - d \notin 1..m
      BY <2>2, <2>4, <1>3
    <3>3. r[i - 1] = headerResults[i - 1]
      BY <1>5, <1>6, <2>1, <3>2
    <3> QED BY <3>1, <3>3, <1>12, Zenon DEF IInv, BatchesLinked
  <2> QED BY <2>3, <2>4
<1>13. ASSUME NEW i \in 1..L
       PROVE  r[i] = Nil <=> Batch(i) \in DOMAIN headerTaskPool \ {t}
  <2> DEFINE v == ((i - 1) \div m) * m
  <2>1. i - d \in 1..m <=> v = d
    <3>1. i \in Nat \ {0}
      BY <1>1
    <3> QED BY <3>1, InBatch DEF d
  <2>2. v \in Nat
    <3>1. i - 1 \in Nat
      BY <1>1
    <3>2. (i - 1) \div m \in Nat
      BY <3>1, DivRest, Zenon
    <3> QED BY <3>2, MultipleOrder
  <2>3. Batch(i) = from + v
    BY <1>1 DEF Batch
  <2> HIDE DEF v
  <2>4. Batch(i) = t <=> v = d
    BY <1>1, <1>3, <1>7, <2>2, <2>3
  <2>5. CASE i - d \in 1..m
    <3>1. r[i] = h[i - d] /\ h[i - d] \in Headers
      BY <1>5, <1>6, <2>5
    <3> QED BY <3>1, <2>1, <2>4, <2>5, Zenon
  <2>6. CASE i - d \notin 1..m
    <3>1. r[i] = headerResults[i]
      BY <1>5, <1>6, <2>6
    <3>2. headerResults[i] = Nil <=> Batch(i) \in DOMAIN headerTaskPool
      BY DEF IInv, FilledInv
    <3> QED BY <3>1, <3>2, <2>1, <2>4, <2>6, Zenon
  <2> QED BY <2>5, <2>6
<1> QED BY <1>10, <1>11, <1>12, <1>13, Zenon DEF r

(***************************************************************************)
(* Every step keeps the invariant.                                         *)
(***************************************************************************)

\* ScheduleSkeleton fills the queue from the skeleton (SkeletonPacket).
LEMMA SkeletonStep ==
  ASSUME IInv, NEW s \in Skeletons, SkeletonPacket(s)
  PROVE  IInv'
<1> USE ConstantFacts
<1> DEFINE n == Len(s)
           R == [i \in 1..(n * MaxHeaderFetch) |-> Nil]
           T == Tasks(from, n)
<1>1. headerResults = << >> /\ \A p \in Peers : headerPendPool[p] = 0
  BY DEF IInv, QuietInv, SkeletonPacket, Filling
<1>2. /\ pc = "request" /\ s # << >> /\ pc' = "fill" /\ result' = result
      /\ ScheduleSkeleton(from, s)
      /\ UNCHANGED <<from, skeleton, headers, peers, fresh, busy, cancelled, honest>>
  BY <1>1 DEF SkeletonPacket, peerVars
<1>3. /\ headerTaskPool' = [t \in T |-> s[CHOOSE i \in 1..n : Task(from, i) = t]]
      /\ headerTaskQueue' = T /\ headerPeerMiss' = [p \in Peers |-> {}]
      /\ headerResults' = R
      /\ headerProced' = 0 /\ headerOffset' = from /\ headerPendPool' = headerPendPool
  BY <1>2 DEF ScheduleSkeleton
<1>4. s \in Seq(Headers) /\ n \in Nat /\ from \in Nat \ {0}
  BY <1>2, SkeletonList DEF IInv, TypeInv
<1>5. n * MaxHeaderFetch \in Nat
  BY <1>4, MultipleOrder
<1>6. R \in Seq(Headers \cup {Nil}) /\ Len(R) = n * MaxHeaderFetch
  <2> DEFINE z == n * MaxHeaderFetch
  <2>1. z \in Nat
    BY <1>5
  <2> HIDE DEF z
  <2> QED BY <2>1
<1>7. ASSUME NEW t \in T
      PROVE  \E i \in 1..n : Task(from, i) = t /\ s[CHOOSE j \in 1..n : Task(from, j) = t] = s[i]
  <2>1. \E i \in 1..n : Task(from, i) = t
    BY DEF Tasks
  <2> QED BY <2>1, Zenon
<1>8. ASSUME NEW t \in T
      PROVE  \E k \in Nat : t = from + k * MaxHeaderFetch
  <2>1. PICK i \in 1..n : t = from + (i - 1) * MaxHeaderFetch
    BY DEF Tasks, Task
  <2>2. i - 1 \in Nat
    OBVIOUS
  <2> QED BY <2>1, <2>2, Zenon
<1> HIDE DEF R, T
<1>9. TypeInv'
  BY <1>2, <1>3, <1>4, <1>6 DEF IInv, TypeInv
<1>10. QuietInv'
  BY <1>2 DEF QuietInv, Filling
<1>11. PlaceInv'
  <2>1. DOMAIN headerTaskPool' = headerTaskQueue'
    BY <1>3
  <2>2. {headerPendPool'[p] : p \in Peers} \ {0} = {}
    BY <1>1, <1>3
  <2> QED BY <2>1, <2>2, <1>1, <1>3 DEF PlaceInv
<1>12. GridInv'
  <2>1. Multiple(n * MaxHeaderFetch) /\ Multiple(0)
    <3>1. 0 = 0 * MaxHeaderFetch
      BY SMT
    <3> QED BY <3>1, <1>4 DEF Multiple
  <2>2. 0 <= Len(headerResults')
    BY <1>3, <1>5, <1>6
  <2>3. Multiple(Len(headerResults')) /\ Multiple(headerProced') /\ headerProced' <= Len(headerResults')
    BY <2>1, <2>2, <1>3, <1>6
  <2>4. \A t \in DOMAIN headerTaskPool' : \E k \in Nat : t = from + k * MaxHeaderFetch
    BY <1>3, <1>8, Zenon
  <2> QED BY <2>3, <2>4, <1>2, <1>3, Zenon DEF GridInv, Multiple
<1>13. HonestInv'
  <2>1. SUFFICES ASSUME honest, NEW t \in T
                 PROVE  /\ t + MaxHeaderFetch - 1 <= Len(Chain)
                        /\ headerTaskPool'[t] = Chain[t + MaxHeaderFetch - 1]
    BY <1>2, <1>3, Zenon DEF HonestInv
  <2>2. PICK i \in 1..n : Task(from, i) = t /\ headerTaskPool'[t] = s[i]
    BY <1>3, <1>7
  <2>3. /\ Task(from, i) + MaxHeaderFetch - 1 \in 1..Len(Chain)
        /\ s[i] = Chain[Task(from, i) + MaxHeaderFetch - 1]
    BY <1>2, <1>4, <2>1, SkeletonList
  <2> QED BY <2>2, <2>3
<1>14. FilledInv'
  <2>1. ASSUME NEW k \in 1..(n * MaxHeaderFetch)
        PROVE  headerResults'[k] = Nil /\ Batch(k)' \in T
    <3> DEFINE v == (k - 1) \div MaxHeaderFetch
    <3>1. v \in 0..(n - 1)
      BY <1>4, BatchNumber, Zenon
    <3> HIDE DEF v
    <3>2. v + 1 \in 1..n /\ (v + 1) - 1 = v
      BY <1>4, <3>1
    <3>3. Task(from, v + 1) = from + v * MaxHeaderFetch
      BY <3>2 DEF Task
    <3>4. Batch(k)' = from + v * MaxHeaderFetch
      BY <1>3 DEF Batch, v
    <3>5. Batch(k)' \in T
      BY <3>2, <3>3, <3>4 DEF T, Tasks
    <3> QED BY <1>3, <3>5 DEF R
  <2>2. DOMAIN headerTaskPool' = T /\ Len(headerResults') = n * MaxHeaderFetch
    BY <1>3, <1>6
  <2> QED BY <2>1, <2>2 DEF FilledInv
<1>15. BatchesLinked'
  <2>1. \A k \in 1..Len(headerResults') : headerResults'[k] = Nil
    BY <1>3, <1>6 DEF R
  <2> QED BY <2>1 DEF BatchesLinked
<1>16. PeerInv' /\ EndInv'
  BY <1>2 DEF IInv, PeerInv, EndInv, NoPanic, OriginKept
<1> QED BY <1>9, <1>10, <1>11, <1>12, <1>13, <1>14, <1>15, <1>16, Zenon DEF IInv

\* A step outside the filling that does not touch the queue keeps the invariant.
LEMMA QuietStep ==
  ASSUME IInv, UNCHANGED queueVars, ~Filling, ~Filling', TypeInv', PeerInv', EndInv',
         pc' = "returned" \/ pc # "returned"
  PROVE  IInv'
<1>1. QuietInv'
  BY Zenon DEF IInv, QuietInv, queueVars, Filling, TypeInv
<1>2. PlaceInv' /\ GridInv' /\ FilledInv' /\ HonestInv'
  BY Zenon DEF PlaceInv, GridInv, FilledInv, HonestInv
<1>3. BatchesLinked'
  BY DEF IInv, BatchesLinked, queueVars
<1> QED BY <1>1, <1>2, <1>3, Zenon DEF IInv

\* A step that leaves the pools and results, fetchHeaders and the master's honesty
\* alone keeps the invariant.
LEMMA PeerStep ==
  ASSUME IInv, PeerInv', cancelled => cancelled',
         UNCHANGED <<headerTaskPool, headerTaskQueue, headerPendPool, headerPeerMiss, headerResults,
                     headerProced, headerOffset, from, headers, pc, result, honest>>
  PROVE  IInv'
<1>1. TypeInv'
  BY Zenon DEF IInv, TypeInv
<1>2. QuietInv' /\ PlaceInv'
  BY Zenon DEF IInv, QuietInv, PlaceInv, Filling
<1>3. GridInv' /\ FilledInv' /\ HonestInv'
  BY Zenon DEF IInv, GridInv, FilledInv, HonestInv, Filling, Multiple, Batch
<1>4. EndInv' /\ BatchesLinked'
  BY Zenon DEF IInv, EndInv, NoPanic, OriginKept, BatchesLinked
<1> QED BY <1>1, <1>2, <1>3, <1>4, Zenon DEF IInv

\* A request that ends leaves the others in flight.
LEMMA PendingLess ==
  ASSUME NEW f \in [Peers -> Nat], NEW g \in [Peers -> Nat], NEW p \in Peers, f[p] # 0,
         \A q \in Peers \ {p} : f[q] # f[p],
         \A q \in Peers : g[q] = IF q = p THEN 0 ELSE f[q]
  PROVE  {g[q] : q \in Peers} \ {0} = ({f[q] : q \in Peers} \ {0}) \ {f[p]}
BY Zenon

\* The steps of fetchHeaders around the filling.
LEMMA RequestStep ==
  ASSUME IInv,
         \/ EmptyPacket \/ Timeout \/ Forward \/ Finish \/ CancelCase \/ DroppedReturn
         \/ \E h \in Tails : TailPacket(h)
  PROVE  IInv'
<1> USE ConstantFacts DEF localVars, peerVars, chanVars
<1>1. IInv /\ TypeInv /\ PeerInv /\ EndInv
  BY DEF IInv
<1>2. CASE EmptyPacket
  <2>1. ~Filling /\ ~Filling' /\ UNCHANGED queueVars /\ pc # "returned"
    BY <1>2, Zenon DEF EmptyPacket, Filling
  <2>2. TypeInv' /\ PeerInv' /\ EndInv'
    BY <1>1, <1>2, Zenon DEF EmptyPacket, queueVars, TypeInv, PeerInv, EndInv, NoPanic, OriginKept
  <2> QED BY <2>1, <2>2, QuietStep, Zenon
<1>3. CASE Timeout
  <2>1. ~Filling /\ ~Filling' /\ UNCHANGED queueVars /\ pc # "returned"
    BY <1>3 DEF Timeout, Filling
  <2>2. TypeInv' /\ PeerInv' /\ EndInv'
    BY <1>1, <1>3, Zenon DEF Timeout, UnregisterPeers, queueVars, TypeInv, PeerInv, EndInv, NoPanic, OriginKept
  <2> QED BY <2>1, <2>2, QuietStep
<1>4. CASE Forward
  <2>1. ~Filling /\ ~Filling' /\ UNCHANGED queueVars /\ pc # "returned"
    BY <1>4 DEF Forward, Filling
  <2>2. Len(headers) \in Nat
    BY <1>1 DEF TypeInv
  <2>3. TypeInv' /\ PeerInv' /\ EndInv'
    BY <1>1, <1>4, <2>2 DEF Forward, queueVars, TypeInv, PeerInv, EndInv, NoPanic, OriginKept
  <2> QED BY <2>1, <2>3, QuietStep
<1>5. CASE Finish
  <2>1. ~Filling /\ ~Filling' /\ UNCHANGED queueVars /\ pc # "returned"
    BY <1>5, Zenon DEF Finish, Return, Filling
  <2>2. TypeInv' /\ PeerInv' /\ EndInv'
    BY <1>1, <1>5, Zenon DEF Finish, Return, queueVars, TypeInv, PeerInv, EndInv, NoPanic, OriginKept
  <2> QED BY <2>1, <2>2, QuietStep
<1>6. CASE CancelCase
  <2>1. ~Filling /\ ~Filling' /\ UNCHANGED queueVars /\ pc # "returned"
    BY <1>6, Zenon DEF CancelCase, Return, Filling
  <2>2. TypeInv' /\ PeerInv' /\ EndInv'
    BY <1>1, <1>6, Zenon DEF CancelCase, Return, queueVars, TypeInv, PeerInv, EndInv, NoPanic, OriginKept
  <2> QED BY <2>1, <2>2, QuietStep
<1>7. CASE DroppedReturn
  <2>1. ~Filling /\ ~Filling' /\ UNCHANGED queueVars /\ pc # "returned"
    BY <1>7, Zenon DEF DroppedReturn, Return, Filling
  <2>2. TypeInv' /\ PeerInv' /\ EndInv'
    BY <1>1, <1>7 DEF DroppedReturn, Return, queueVars, TypeInv, PeerInv, EndInv, NoPanic, OriginKept
  <2> QED BY <2>1, <2>2, QuietStep
<1>8. CASE \E h \in Tails : TailPacket(h)
  <2>1. PICK h \in Tails : TailPacket(h)
    BY <1>8, Zenon
  <2>2. ~Filling /\ ~Filling' /\ UNCHANGED queueVars /\ pc # "returned"
    BY <2>1 DEF TailPacket, Filling
  <2>3. h \in Seq(Headers) /\ Len(h) \in Nat
    BY <1>1, TailList DEF TypeInv
  <2>4. PICK delay \in {0, Smaller(HeaderDelay, Len(h))} : headers' = SubSeq(h, 1, Len(h) - delay)
    BY <2>1, SMTT(20) DEF TailPacket
  <2>5. delay \in 0..Len(h)
    BY <2>3, <2>4 DEF Smaller
  <2>6. headers' \in Seq(Headers \cup {Nil})
    BY <2>3, <2>4, <2>5
  <2>7. TypeInv' /\ PeerInv' /\ EndInv'
    BY <1>1, <2>1, <2>6 DEF TailPacket, queueVars, TypeInv, PeerInv, EndInv, NoPanic, OriginKept
  <2> QED BY <2>2, <2>7, QuietStep
<1> QED BY <1>2, <1>3, <1>4, <1>5, <1>6, <1>7, <1>8, Zenon

\* Queued batches have numbers, none of them 0.
LEMMA QueueNumbers ==
  ASSUME IInv, Filling
  PROVE  headerTaskQueue \subseteq Nat \ {0} /\ headerTaskQueue \subseteq DOMAIN headerTaskPool
<1> USE ConstantFacts
<1>1. headerTaskQueue \subseteq DOMAIN headerTaskPool
  BY DEF IInv, PlaceInv
<1>2. ASSUME NEW t \in headerTaskQueue
      PROVE  t \in Nat \ {0}
  <2>1. PICK k \in Nat : t = from + k * MaxHeaderFetch
    BY <1>1, Zenon DEF IInv, GridInv
  <2> DEFINE d == k * MaxHeaderFetch
  <2>2. d \in Nat /\ t = from + d /\ from \in Nat \ {0}
    BY <2>1, MultipleOrder DEF IInv, TypeInv
  <2> HIDE DEF d
  <2> QED BY <2>2
<1> QED BY <1>1, <1>2

\* A batch moves from the queue to the request of a peer (ReserveHeaders).
LEMMA AssignStep ==
  ASSUME IInv, NEW p \in Peers, Assign(p)
  PROVE  IInv'
<1> USE ConstantFacts DEF localVars, peerVars
<1> DEFINE t == ReserveHeaders(p)
<1>1. Filling /\ Filling'
  BY DEF Assign, Filling
<1>2. headerPendPool[p] = 0 /\ t \in Reservable(p)
  <2>1. headerPendPool[p] = 0 /\ Reservable(p) # {}
    BY DEF Assign, ReserveHeaders
  <2> QED BY <1>1, <2>1, QueueNumbers, ReservePicks, Zenon
<1>3. t \in headerTaskQueue /\ t \in Nat /\ t # 0
  BY <1>1, <1>2, QueueNumbers, Zenon DEF Reservable
<1>4. /\ headerTaskQueue' = headerTaskQueue \ {t}
      /\ headerPendPool' = [headerPendPool EXCEPT ![p] = t]
      /\ UNCHANGED <<headerTaskPool, headerPeerMiss, headerResults, headerProced, headerOffset,
                     from, headers, pc, result, peers, cancelled, honest>>
  BY DEF Assign
<1> HIDE DEF t
<1>5. TypeInv'
  BY <1>3, <1>4 DEF IInv, TypeInv
<1>6. QuietInv'
  BY <1>1, <1>4, Zenon DEF QuietInv, Filling
<1>7. PlaceInv'
  <2> USE <1>1 DEF PlaceInv, IInv, TypeInv
  <2>1. \A q \in Peers : headerPendPool'[q] = IF q = p THEN t ELSE headerPendPool[q]
    BY <1>4, Zenon
  <2>2. \A q \in Peers : headerPendPool[q] # t
    BY <1>3, Zenon
  <2>3. DOMAIN headerTaskPool' = headerTaskQueue' \cup ({headerPendPool'[q] : q \in Peers} \ {0})
    BY <2>1, <1>2, <1>3, <1>4
  <2>4. \A q \in Peers : headerPendPool'[q] # 0 =>
          /\ headerPendPool'[q] \notin headerTaskQueue'
          /\ \A x \in Peers \ {q} : headerPendPool'[x] # headerPendPool'[q]
    BY <2>1, <2>2, <1>4
  <2> QED BY <2>3, <2>4, Zenon
<1>8. GridInv' /\ FilledInv' /\ HonestInv' /\ BatchesLinked'
  BY <1>1, <1>4, Zenon DEF IInv, GridInv, FilledInv, HonestInv, BatchesLinked, Multiple, Batch
<1>9. PeerInv' /\ EndInv'
  BY <1>4 DEF IInv, PeerInv, EndInv, NoPanic, OriginKept
<1> QED BY <1>5, <1>6, <1>7, <1>8, <1>9, Zenon DEF IInv

\* Expired requests are queued again (ExpireHeaders).
LEMMA ExpireStep ==
  ASSUME IInv, NEW P \in SUBSET Peers, ExpireHeaders(P)
  PROVE  IInv'
<1> USE ConstantFacts DEF localVars
<1>1. Filling /\ Filling'
  BY Zenon DEF ExpireHeaders, Filling
<1>2. /\ \A p \in P : headerPendPool[p] # 0
      /\ headerTaskQueue' = headerTaskQueue \cup {headerPendPool[p] : p \in P}
      /\ headerPendPool' = [p \in Peers |-> IF p \in P THEN 0 ELSE headerPendPool[p]]
      /\ UNCHANGED <<headerTaskPool, headerPeerMiss, headerResults, headerProced, headerOffset,
                     from, headers, pc, result, honest>>
      /\ peers' = peers \ (P \cap peers) /\ cancelled' = (cancelled \/ Master \in P \cap peers)
  BY Zenon DEF ExpireHeaders, UnregisterPeers
<1>3. TypeInv'
  BY <1>2, Zenon DEF IInv, TypeInv
<1>4. QuietInv'
  BY <1>1, <1>2, Zenon DEF QuietInv, Filling
<1>5. PlaceInv'
  <2> USE <1>1 DEF PlaceInv, IInv, TypeInv
  <2>1. \A q \in Peers : headerPendPool'[q] = IF q \in P THEN 0 ELSE headerPendPool[q]
    BY <1>2, Zenon
  <2>2. DOMAIN headerTaskPool' = headerTaskQueue' \cup ({headerPendPool'[q] : q \in Peers} \ {0})
    BY <2>1, <1>2
  <2>3. ASSUME NEW q \in Peers, headerPendPool'[q] # 0
        PROVE  /\ headerPendPool'[q] \notin headerTaskQueue'
               /\ \A x \in Peers \ {q} : headerPendPool'[x] # headerPendPool'[q]
    BY <2>1, <2>3, <1>2, Zenon
  <2> QED BY <2>2, <2>3, Zenon
<1>6. GridInv' /\ FilledInv' /\ HonestInv' /\ BatchesLinked'
  BY <1>1, <1>2 DEF IInv, GridInv, FilledInv, HonestInv, BatchesLinked, Multiple, Batch
<1>7. PeerInv' /\ EndInv'
  BY <1>2, Zenon DEF IInv, PeerInv, EndInv, NoPanic, OriginKept
<1> QED BY <1>3, <1>4, <1>5, <1>6, <1>7, Zenon DEF IInv

\* The end of the filling; an honest master is kept as long as it is there.
LEMMA FillEndStep ==
  ASSUME IInv, FillDone \/ FillFail
  PROVE  IInv'
<1> USE ConstantFacts DEF peerVars, RetrieveHeaders
<1>1. Filling /\ TypeInv /\ GridInv /\ PeerInv /\ EndInv /\ IInv
  BY Zenon DEF IInv, Filling, FillDone, FillFail
<1>2. ~Filling'
  BY Zenon DEF Filling, FillDone, FillFail, Return
<1>3. /\ headerResults' = << >> /\ headerProced' = 0
      /\ UNCHANGED <<headerTaskPool, headerTaskQueue, headerPendPool, headerPeerMiss, headerOffset,
                     peers, cancelled, honest>>
  BY DEF FillDone, FillFail
<1>4. QuietInv'
  <2>1. CASE FillDone
    BY <1>2, <1>3, <2>1, Zenon DEF QuietInv, FillDone, InFlight
  <2>2. CASE FillFail
    BY <1>2, <1>3, <2>2, Zenon DEF QuietInv, FillFail, Return
  <2> QED BY <2>1, <2>2, Zenon
<1>5. PlaceInv' /\ GridInv' /\ FilledInv' /\ HonestInv'
  BY <1>2 DEF PlaceInv, GridInv, FilledInv, HonestInv
<1>6. BatchesLinked'
  BY <1>3 DEF BatchesLinked
<1>7. TypeInv'
  <2>1. CASE FillDone
    <3> DEFINE L == Len(headerResults)
    <3>1. L \in Nat /\ headerProced \in Nat /\ headerProced <= L
      BY <1>1 DEF TypeInv, GridInv
    <3>2. SubSeq(headerResults, headerProced + 1, L) \in Seq(Headers \cup {Nil})
      BY <1>1, <3>1 DEF TypeInv
    <3>3. from' \in Nat \ {0} /\ headers' \in Seq(Headers \cup {Nil})
      BY <1>1, <2>1, <3>1, <3>2 DEF FillDone, TypeInv
    <3>4. pc' \in {"request", "forward"}
      BY <2>1, Zenon DEF FillDone
    <3> QED BY <1>1, <1>3, <3>3, <3>4 DEF TypeInv
  <2>2. CASE FillFail
    BY <1>1, <1>3, <2>2 DEF TypeInv, FillFail, Return
  <2> QED BY <2>1, <2>2
<1>8. PeerInv'
  BY <1>1, <1>3, Zenon DEF PeerInv
<1>9. EndInv'
  <2>1. CASE FillDone
    BY <1>1, <1>3, <2>1 DEF EndInv, NoPanic, OriginKept, FillDone
  <2>2. CASE FillFail
    <3>1. NoPanic'
      BY <2>2 DEF NoPanic, FillFail, Return
    <3>2. ASSUME honest, ~cancelled
          PROVE  FALSE
      <4>1. Master \in peers
        BY <1>1, <3>2, Zenon DEF PeerInv
      <4>2. /\ headerTaskQueue # {} /\ ~InFlight /\ ReserveHeaders(Master) = 0
        BY <2>2, <3>2, <4>1, Zenon DEF FillFail, NoPeers, PeersUnavailable
      <4>3. headerPendPool[Master] = 0 /\ Reservable(Master) = headerTaskQueue
        BY <1>1, <3>2, <4>2, Zenon DEF InFlight, IInv, HonestInv, Reservable
      <4>4. ReserveHeaders(Master) \in headerTaskQueue
        BY <1>1, <4>2, <4>3, ReservePicks, QueueNumbers, Zenon
      <4> QED BY <1>1, <4>2, <4>4, QueueNumbers
    <3>3. OriginKept'
      BY <1>3, <3>2, Zenon DEF OriginKept
    <3> QED BY <3>1, <3>3, Zenon DEF EndInv
  <2> QED BY <2>1, <2>2
<1> QED BY <1>4, <1>5, <1>6, <1>7, <1>8, <1>9, Zenon DEF IInv

\* A batch that maps onto the skeleton is put in place (DeliverHeaders).
LEMMA AcceptStep ==
  ASSUME IInv, NEW p \in Peers, NEW h \in Seq(Headers), DeliverHeaders(p, h),
         headerPendPool[p] \in DOMAIN headerTaskPool, headerPendPool[p] # 0,
         Accepted(h, headerPendPool[p])
  PROVE  IInv'
<1> USE ConstantFacts
<1> DEFINE t == headerPendPool[p]
           r == Place(headerResults, t, h)
           D == DOMAIN headerTaskPool
<1>1. Filling /\ Filling' /\ t \in D /\ t # 0 /\ headerPendPool \in [Peers -> Nat]
  BY Zenon DEF DeliverHeaders, Filling, IInv, TypeInv
<1>2. /\ headerPendPool' = [headerPendPool EXCEPT ![p] = 0]
      /\ headerResults' = r
      /\ headerTaskPool' = [u \in D \ {t} |-> headerTaskPool[u]]
      /\ headerProced' = headerProced \/ headerProced' = headerProced + Ready(r)
      /\ UNCHANGED <<headerTaskQueue, headerPeerMiss, headerOffset, from, headers, pc, result,
                     peers, cancelled, honest>>
  <2>1. Accept(h, t) /\ UNCHANGED <<pc, result>>
    BY DEF DeliverHeaders
  <2>2. headerProced \in Nat
    BY Zenon DEF IInv, TypeInv
  <2>3. headerProced' = headerProced \/ headerProced' = headerProced + Ready(r)
    BY <2>1, <2>2 DEF Accept
  <2>4. /\ headerResults' = r /\ headerTaskPool' = [u \in D \ {t} |-> headerTaskPool[u]]
        /\ UNCHANGED <<headerTaskQueue, headerPeerMiss>>
    BY <2>1 DEF Accept
  <2> QED BY <2>1, <2>3, <2>4, Zenon DEF DeliverHeaders
<1>3. /\ r \in Seq(Headers \cup {Nil}) /\ Len(r) = Len(headerResults)
      /\ \A i \in 1..Len(r) :
           /\ r[i] # Nil => Number[r[i]] = headerOffset + i - 1
           /\ r[i] # Nil /\ (i - 1) % MaxHeaderFetch # 0 => Parent[r[i]] = r[i - 1]
           /\ r[i] = Nil <=> Batch(i) \in D \ {t}
  BY <1>1, PlaceLinked, Zenon
<1>4. /\ headerProced \in Nat /\ Len(r) \in Nat /\ headerProced <= Len(r)
      /\ Multiple(Len(r)) /\ Multiple(headerProced)
  <2>1. /\ headerProced \in Nat /\ headerProced <= Len(headerResults)
        /\ Multiple(Len(headerResults)) /\ Multiple(headerProced)
    BY <1>1, Zenon DEF IInv, TypeInv, GridInv
  <2>2. Len(headerResults) \in Nat
    BY DEF IInv, TypeInv
  <2>3. Len(r) = Len(headerResults)
    BY <1>3
  <2> QED BY <2>1, <2>2, <2>3, Zenon
<1>5. headerProced' \in Nat /\ headerProced' <= Len(r) /\ Multiple(headerProced')
  <2>1. Ready(r) \in 0..(Len(r) - headerProced) /\ Multiple(headerProced + Ready(r))
    BY <1>4, ReadyWhole
  <2> QED BY <1>2, <1>4, <2>1
<1> HIDE DEF r
<1>6. TypeInv'
  BY <1>1, <1>2, <1>3, <1>5 DEF IInv, TypeInv
<1>7. QuietInv'
  BY <1>1, <1>2 DEF QuietInv, Filling
<1>8. PlaceInv'
  <2> USE <1>1 DEF PlaceInv, IInv
  <2>1. \A q \in Peers : headerPendPool'[q] = IF q = p THEN 0 ELSE headerPendPool[q]
    BY <1>2, Zenon
  <2>2. DOMAIN headerTaskPool' = D \ {t} /\ t \notin headerTaskQueue
    BY <1>2, Zenon
  <2>3. DOMAIN headerTaskPool' = headerTaskQueue' \cup ({headerPendPool'[q] : q \in Peers} \ {0})
    <3>1. headerPendPool' \in [Peers -> Nat]
      BY <1>6, Zenon DEF TypeInv
    <3>2. {headerPendPool'[q] : q \in Peers} \ {0} = ({headerPendPool[q] : q \in Peers} \ {0}) \ {t}
      <4>1. t # 0 /\ \A q \in Peers \ {p} : headerPendPool[q] # headerPendPool[p]
        BY Zenon
      <4> HIDE DEF IInv, PlaceInv
      <4> QED BY <1>1, <2>1, <3>1, <4>1, PendingLess, SMTT(20)
    <3>3. D = headerTaskQueue \cup ({headerPendPool[q] : q \in Peers} \ {0})
      BY Zenon
    <3>4. headerTaskQueue' = headerTaskQueue /\ t \notin headerTaskQueue
      BY <1>2, <2>2, Zenon
    <3> HIDE <1>1 DEF PlaceInv, IInv
    <3> QED BY <2>2, <3>2, <3>3, <3>4, ZenonT(30)
  <2>4. ASSUME NEW q \in Peers, headerPendPool'[q] # 0
        PROVE  /\ headerPendPool'[q] \notin headerTaskQueue'
               /\ \A x \in Peers \ {q} : headerPendPool'[x] # headerPendPool'[q]
    BY <2>1, <2>4, <1>2
  <2> QED BY <2>3, <2>4, Zenon
<1>9. GridInv'
  <2>1. headerOffset' = from' /\ \A u \in DOMAIN headerTaskPool' :
          \E k \in Nat : u = from' + k * MaxHeaderFetch
    BY <1>1, <1>2, Zenon DEF IInv, GridInv
  <2>2. Multiple(Len(headerResults')) /\ headerProced' <= Len(headerResults')
    BY <1>2, <1>4, <1>5, Zenon
  <2> QED BY <2>1, <2>2, <1>5, Zenon DEF GridInv, Multiple
<1>10. HonestInv'
  BY <1>1, <1>2, Zenon DEF IInv, HonestInv
<1>11. BatchesLinked'
  BY <1>2, <1>3, Zenon DEF BatchesLinked
<1>12. FilledInv'
  BY <1>2, <1>3, Zenon DEF FilledInv, Batch
<1>13. PeerInv' /\ EndInv'
  BY <1>2, Zenon DEF IInv, PeerInv, EndInv, NoPanic, OriginKept
<1> QED BY <1>6, <1>7, <1>8, <1>9, <1>10, <1>11, <1>12, <1>13, Zenon DEF IInv

\* A batch that is refused is queued again, and held against the peer that sent it
\* (DeliverHeaders).
LEMMA RefuseStep ==
  ASSUME IInv, NEW p \in Peers, NEW h \in Answers(p), DeliverHeaders(p, h),
         headerPendPool[p] \in DOMAIN headerTaskPool, headerPendPool[p] # 0,
         ~Accepted(h, headerPendPool[p])
  PROVE  IInv'
<1> USE ConstantFacts
<1> DEFINE t == headerPendPool[p]
<1>1. Filling /\ Filling' /\ t # 0 /\ headerPendPool \in [Peers -> Nat] /\ t \in Nat
  BY Zenon DEF DeliverHeaders, Filling, IInv, TypeInv
<1>2. /\ headerPendPool' = [headerPendPool EXCEPT ![p] = 0]
      /\ headerPeerMiss' = [headerPeerMiss EXCEPT ![p] = @ \cup {t}]
      /\ headerTaskQueue' = headerTaskQueue \cup {t}
      /\ UNCHANGED <<headerTaskPool, headerResults, headerProced, headerOffset, from, headers, pc,
                     result, peers, cancelled, honest>>
  BY Zenon DEF DeliverHeaders, Refuse
<1>3. TypeInv'
  BY <1>1, <1>2, Zenon DEF IInv, TypeInv
<1>4. QuietInv'
  BY <1>1, <1>2, Zenon DEF QuietInv, Filling
<1>5. PlaceInv'
  <2> USE <1>1 DEF PlaceInv, IInv
  <2>1. \A q \in Peers : headerPendPool'[q] = IF q = p THEN 0 ELSE headerPendPool[q]
    BY <1>2, Zenon
  <2>2. DOMAIN headerTaskPool' = headerTaskQueue' \cup ({headerPendPool'[q] : q \in Peers} \ {0})
    <3>1. headerPendPool' \in [Peers -> Nat]
      BY <1>3, Zenon DEF TypeInv
    <3>2. t # 0 /\ \A q \in Peers \ {p} : headerPendPool[q] # headerPendPool[p]
      BY Zenon
    <3>3. /\ DOMAIN headerTaskPool = headerTaskQueue \cup ({headerPendPool[q] : q \in Peers} \ {0})
          /\ t \in {headerPendPool[q] : q \in Peers} \ {0}
      BY Zenon
    <3> HIDE DEF IInv, PlaceInv
    <3>4. {headerPendPool'[q] : q \in Peers} \ {0} = ({headerPendPool[q] : q \in Peers} \ {0}) \ {t}
      BY <1>1, <2>1, <3>1, <3>2, PendingLess, SMTT(20)
    <3> QED BY <3>3, <3>4, <1>2, Zenon
  <2>3. ASSUME NEW q \in Peers, headerPendPool'[q] # 0
        PROVE  /\ headerPendPool'[q] \notin headerTaskQueue'
               /\ \A x \in Peers \ {q} : headerPendPool'[x] # headerPendPool'[q]
    BY <2>1, <2>3, <1>2
  <2> QED BY <2>2, <2>3, Zenon
<1>6. HonestInv'
  <2>1. honest => p # Master
    BY <1>1, HonestAccepted, Zenon
  <2>2. headerPeerMiss \in [Peers -> SUBSET Nat]
    BY Zenon DEF IInv, TypeInv
  <2>3. honest => headerPeerMiss'[Master] = headerPeerMiss[Master]
    BY <1>2, <2>1, <2>2, Zenon
  <2> QED BY <1>1, <1>2, <2>3, Zenon DEF IInv, HonestInv
<1>7. GridInv' /\ FilledInv' /\ BatchesLinked'
  BY <1>1, <1>2, Zenon DEF IInv, GridInv, FilledInv, BatchesLinked, Multiple, Batch
<1>8. PeerInv' /\ EndInv'
  BY <1>2 DEF IInv, PeerInv, EndInv, NoPanic, OriginKept
<1> QED BY <1>3, <1>4, <1>5, <1>6, <1>7, <1>8, Zenon DEF IInv

\* A packet of a peer; the skeleton header of its batch is always there.
LEMMA AnswerStep ==
  ASSUME IInv, NEW p \in Peers, Answer(p)
  PROVE  IInv'
<1> USE ConstantFacts
<1>1. PICK h \in Answers(p) : DeliverHeaders(p, h)
  BY DEF Answer
<1>2. Filling /\ TypeInv
  BY Zenon DEF Answer, Filling, IInv
<1> DEFINE t == headerPendPool[p]
<1>3. CASE t = 0
  <2>1. t \notin DOMAIN headerTaskPool
    <3>1. ASSUME t \in DOMAIN headerTaskPool
          PROVE  FALSE
      BY <1>2, <1>3, <3>1, QueueNumbers, Zenon DEF IInv, PlaceInv
    <3> QED BY <3>1, Zenon
  <2>2. headerPendPool' = headerPendPool
    BY <1>1, <1>2, <1>3, Zenon DEF DeliverHeaders, TypeInv
  <2>3. /\ UNCHANGED <<headerTaskPool, headerTaskQueue, headerPeerMiss, headerResults,
                       headerProced, headerOffset, from, headers, pc, result, peers, cancelled, honest>>
    BY <1>1, <1>3, <2>1, Zenon DEF DeliverHeaders
  <2>4. PeerInv'
    BY <2>3, Zenon DEF IInv, PeerInv
  <2> QED BY <2>2, <2>3, <2>4, PeerStep, Zenon
<1>4. CASE t # 0
  <2>1. t \in DOMAIN headerTaskPool /\ t \in Nat \ {0}
    BY <1>2, <1>4, Zenon DEF IInv, PlaceInv, TypeInv
  <2>2. CASE Accepted(h, t)
    <3>1. h \in Seq(Headers)
      BY <2>1, AnswerList, Zenon
    <3> QED BY <1>1, <1>4, <2>1, <2>2, <3>1, AcceptStep, Zenon
  <2>3. CASE ~Accepted(h, t)
    BY <1>1, <1>4, <2>1, <2>3, RefuseStep, Zenon
  <2> QED BY <2>2, <2>3
<1> QED BY <1>3, <1>4

\* The steps of peers, of the processor, of the cancellation and of the flag.
LEMMA OtherStep ==
  ASSUME IInv,
         \/ \E p \in Peers : Register(p) \/ Leave(p)
         \/ Consume \/ Cancel \/ Wake
  PROVE  IInv'
<1> USE ConstantFacts DEF queueVars, localVars
<1>1. PeerInv
  BY DEF IInv
<1>2. ASSUME NEW p \in Peers, Register(p) \/ Leave(p)
      PROVE  IInv'
  <2>1. UNCHANGED queueVars /\ UNCHANGED localVars /\ UNCHANGED honest /\ (cancelled => cancelled')
    <3>1. CASE Register(p)
      BY <3>1, Zenon DEF Register
    <3>2. CASE Leave(p)
      BY <3>2, Zenon DEF Leave, UnregisterPeers
    <3> QED BY <1>2, <3>1, <3>2
  <2>2. PeerInv'
    BY <1>1, <1>2, Zenon DEF Register, Leave, UnregisterPeers, PeerInv
  <2> QED BY <2>1, <2>2, PeerStep, Zenon
<1>3. CASE Consume
  <2>1. UNCHANGED queueVars /\ UNCHANGED localVars /\ UNCHANGED <<honest, peers, cancelled>>
    BY <1>3 DEF Consume, peerVars
  <2>2. PeerInv'
    BY <1>1, <2>1, Zenon DEF PeerInv
  <2> QED BY <2>1, <2>2, PeerStep, Zenon
<1>4. CASE Cancel
  <2>1. UNCHANGED queueVars /\ UNCHANGED localVars /\ UNCHANGED <<honest, peers>> /\ cancelled'
    BY <1>4, Zenon DEF Cancel
  <2>2. PeerInv'
    BY <1>1, <2>1, Zenon DEF PeerInv
  <2> QED BY <2>1, <2>2, PeerStep, Zenon
<1>5. CASE Wake
  <2>1. UNCHANGED <<headerTaskPool, headerTaskQueue, headerPendPool, headerPeerMiss, headerResults,
                    headerProced, headerOffset, from, headers, pc, result, peers, cancelled, honest>>
    BY <1>5, Zenon DEF Wake, peerVars
  <2>2. PeerInv'
    BY <2>1, Zenon DEF IInv, PeerInv
  <2> QED BY <2>1, <2>2, PeerStep, Zenon
<1> QED BY <1>2, <1>3, <1>4, <1>5, Zenon

(***************************************************************************)
(* The results.                                                            *)
(***************************************************************************)

\* The invariant holds throughout (fetchHeaders, fillHeaderSkeleton and the header
\* pools of the queue).
THEOREM SkeletonInvariant == Spec => []IInv
<1>1. Init => IInv
  <2>1. SUFFICES ASSUME Init
                 PROVE  IInv
    BY Zenon
  <2> USE ConstantFacts, <2>1
  <2>2. TypeInv /\ QuietInv
    BY DEF Init, TypeInv, QuietInv
  <2>3. PlaceInv /\ GridInv /\ FilledInv /\ HonestInv
    BY Zenon DEF Init, PlaceInv, GridInv, FilledInv, HonestInv, Filling
  <2>4. PeerInv /\ EndInv /\ BatchesLinked
    BY DEF Init, PeerInv, EndInv, NoPanic, OriginKept, BatchesLinked
  <2> QED BY <2>2, <2>3, <2>4 DEF IInv
<1>2. IInv /\ [Next]_vars => IInv'
  <2>1. SUFFICES ASSUME IInv, [Next]_vars
                 PROVE  IInv'
    OBVIOUS
  <2>2. CASE Next
    <3>1. CASE pc = "request" /\ \E s \in Skeletons : SkeletonPacket(s)
      BY <2>1, <3>1, SkeletonStep
    <3>2. CASE EmptyPacket \/ (\E h \in Tails : TailPacket(h))
      BY <2>1, <3>2, RequestStep
    <3>3. CASE Timeout \/ Forward \/ Finish \/ CancelCase \/ DroppedReturn
      BY <2>1, <3>3, RequestStep
    <3>4. CASE Fill
      BY <2>1, <3>4, AssignStep DEF Fill
    <3>5. CASE FillDone \/ FillFail
      BY <2>1, <3>5, FillEndStep
    <3>6. CASE \E p \in Peers : Answer(p)
      BY <2>1, <3>6, AnswerStep
    <3>7. CASE \E P \in SUBSET Peers : ExpireHeaders(P)
      BY <2>1, <3>7, ExpireStep
    <3>8. CASE (\E p \in Peers : Register(p) \/ Leave(p)) \/ Consume \/ Cancel \/ Wake
      BY <2>1, <3>8, OtherStep, Zenon
    <3> QED BY <2>2, <3>1, <3>2, <3>3, <3>4, <3>5, <3>6, <3>7, <3>8, Zenon DEF Next, Fetcher
  <2>3. CASE UNCHANGED vars
    <3>1. UNCHANGED queueVars /\ UNCHANGED localVars /\ UNCHANGED <<honest, peers, cancelled>>
      BY <2>3 DEF vars, peerVars
    <3>2. PeerInv'
      BY <2>1, <3>1 DEF IInv, PeerInv
    <3> QED BY <2>1, <3>1, <3>2, PeerStep, Zenon DEF queueVars, localVars
  <2> QED BY <2>1, <2>2, <2>3
<1> QED BY <1>1, <1>2, PTL DEF Spec

\* The queue's panics are never reached: a skeleton is not scheduled over another, and
\* the skeleton header of a delivered batch is there (ScheduleSkeleton, DeliverHeaders).
THEOREM SkeletonNoPanic == Spec => []NoPanic
<1>1. IInv => NoPanic
  BY DEF IInv, EndInv
<1> QED BY <1>1, SkeletonInvariant, PTL

\* An honest master is not reported for an invalid chain because of other peers
\* (fillHeaderSkeleton fails only after each batch was tried with it).
THEOREM SkeletonOriginKept == Spec => []OriginKept
<1>1. IInv => OriginKept
  BY DEF IInv, EndInv
<1> QED BY <1>1, SkeletonInvariant, PTL

\* Headers in place form chains batch by batch (DeliverHeaders).
THEOREM SkeletonBatchesLinked == Spec => []BatchesLinked
<1>1. IInv => BatchesLinked
  BY DEF IInv
<1> QED BY <1>1, SkeletonInvariant, PTL

\* A batch is queued, in one request or in place: none is lost or fetched twice
\* (ReserveHeaders, DeliverHeaders, ExpireHeaders).
THEOREM SkeletonBatchOnePlace == Spec => []BatchOnePlace
<1>1. IInv => BatchOnePlace
  BY Zenon DEF IInv, PlaceInv, FilledInv, Filling, Batch, BatchOnePlace
<1> QED BY <1>1, SkeletonInvariant, PTL
=============================================================================
