------------------------ MODULE HeaderForwardProofs -------------------------
(***************************************************************************)
(* Proofs about the headers that fetchHeaders forwards: each once and in    *)
(* order, and those of an honest master's chain.  They rest on the          *)
(* invariant of HeaderSkeletonProofs.                                       *)
(***************************************************************************)
EXTENDS HeaderSkeletonProofs

(***************************************************************************)
(* The invariant.                                                          *)
(***************************************************************************)

\* x may stand at number n: it has the number, unless it is of the tail of a dishonest
\* master, and it is the header of the honest master's chain.
Fits(n, x) ==
  /\ x \in Headers
  /\ skeleton \/ honest => Number[x] = n
  /\ honest => n \in 1..Len(Chain) /\ x = Chain[n]

ChanInv ==
  /\ consumed \in Seq(Headers)
  /\ headerProcCh = << >> \/ \E b \in Seq(Headers) : headerProcCh = <<b>>

\* Headers fit where they are: in the results, on their way out, and out.
ResultsFit ==
  Filling => \A k \in 1..Len(headerResults) :
               headerResults[k] # Nil => Fits(from + k - 1, headerResults[k])

HeadersFit ==
  pc = "forward" => \A i \in 1..Len(headers) : Fits(from + i - 1, headers[i])

OutFits == \A i \in 1..Len(Out) : Fits(First + i - 1, Out[i])

\* from and headerProced count what is out.
CountInv ==
  /\ pc \in {"request", "forward", "finish"} => from = First + Len(Out)
  /\ Filling => from + headerProced = First + Len(Out)

\* The end is reported when the honest master's chain is out.
AllOut ==
  /\ result = "nil" => pc = "returned"
  /\ honest /\ (pc = "finish" \/ result = "nil") => First + Len(Out) = Len(Chain) + 1

OInv == ChanInv /\ ResultsFit /\ HeadersFit /\ OutFits /\ CountInv /\ AllOut

(***************************************************************************)
(* The channel to the processor.                                           *)
(***************************************************************************)

\* What is out when the channel is empty, and when it holds a batch.
LEMMA OutIs ==
  ASSUME ChanInv
  PROVE  /\ Out \in Seq(Headers) /\ Len(Out) \in Nat
         /\ headerProcCh = << >> => Out = consumed
         /\ \A b \in Seq(Headers) : headerProcCh = <<b>> => Out = consumed \o b
<1>1. consumed \in Seq(Headers)
  BY DEF ChanInv
<1>2. ASSUME headerProcCh = << >>
      PROVE  Out = consumed
  <2>1. Out = consumed \o << >>
    BY <1>2 DEF Out
  <2> QED BY <1>1, <2>1
<1>3. ASSUME NEW b \in Seq(Headers), headerProcCh = <<b>>
      PROVE  Out = consumed \o b
  <2>1. headerProcCh # << >> /\ Head(headerProcCh) = b
    BY <1>3
  <2> QED BY <2>1 DEF Out
<1>4. Out \in Seq(Headers)
  <2>1. CASE headerProcCh = << >>
    BY <1>1, <1>2, <2>1
  <2>2. ASSUME NEW b \in Seq(Headers), headerProcCh = <<b>>
        PROVE  Out \in Seq(Headers)
    <3>1. Out = consumed \o b
      BY <1>3, <2>2
    <3> QED BY <1>1, <3>1
  <2> QED BY <2>1, <2>2 DEF ChanInv
<1> QED BY <1>2, <1>3, <1>4

\* A send adds its batch at the end.
LEMMA OutGrows ==
  ASSUME ChanInv, headerProcCh = << >>, NEW b \in Seq(Headers),
         headerProcCh' = <<b>>, consumed' = consumed
  PROVE  /\ ChanInv'
         /\ Len(Out') = Len(Out) + Len(b)
         /\ \A i \in 1..Len(Out) : Out'[i] = Out[i]
         /\ \A i \in 1..Len(b) : Out'[Len(Out) + i] = b[i]
<1>1. consumed \in Seq(Headers) /\ Out = consumed
  BY OutIs DEF ChanInv
<1>2. Out' = consumed \o b
  <2>1. headerProcCh' # << >> /\ Head(headerProcCh') = b
    OBVIOUS
  <2> QED BY <2>1 DEF Out
<1>3. ChanInv'
  BY <1>1 DEF ChanInv
<1> QED BY <1>1, <1>2, <1>3

\* The processor takes what is out already; a nil batch adds nothing.
LEMMA OutSame ==
  ASSUME ChanInv,
         \/ UNCHANGED <<headerProcCh, consumed>>
         \/ headerProcCh = << >> /\ headerProcCh' = << << >> >> /\ consumed' = consumed
         \/ Consume
  PROVE  ChanInv' /\ Out' = Out
<1>1. CASE UNCHANGED <<headerProcCh, consumed>>
  BY <1>1 DEF ChanInv, Out
<1>2. CASE headerProcCh = << >> /\ headerProcCh' = << << >> >> /\ consumed' = consumed
  <2>1. Out = consumed /\ consumed \in Seq(Headers)
    BY <1>2, OutIs DEF ChanInv
  <2>2. << >> \in Seq(Headers)
    OBVIOUS
  <2>3. ChanInv'
    BY <1>2, <2>1, <2>2, Zenon DEF ChanInv
  <2>4. Out' = consumed \o << >>
    <3>1. headerProcCh' # << >> /\ Head(headerProcCh') = << >>
      BY <1>2
    <3> QED BY <1>2, <3>1, Zenon DEF Out
  <2> QED BY <2>1, <2>3, <2>4
<1>3. CASE Consume
  <2>1. PICK b \in Seq(Headers) : headerProcCh = <<b>>
    BY <1>3 DEF Consume, ChanInv
  <2>2. consumed' = consumed \o b /\ headerProcCh' = << >> /\ consumed \in Seq(Headers)
    BY <1>3, <2>1 DEF Consume, ChanInv
  <2>3. Out = consumed \o b
    BY <2>1, OutIs
  <2>4. consumed' \in Seq(Headers)
    BY <2>1, <2>2
  <2>5. ChanInv'
    BY <2>2, <2>4 DEF ChanInv
  <2>6. Out' = consumed' \o << >>
    BY <2>2 DEF Out
  <2> QED BY <2>2, <2>3, <2>4, <2>5, <2>6
<1> QED BY <1>1, <1>2, <1>3

(***************************************************************************)
(* Batches.                                                                *)
(***************************************************************************)

\* An accepted batch fits: it is numbered from its first number on, and links it to a
\* header of the honest master's chain back to the first (DeliverHeaders).
LEMMA BatchFits ==
  ASSUME IInv, Filling, NEW t \in DOMAIN headerTaskPool, NEW h \in Seq(Headers), Accepted(h, t)
  PROVE  \A j \in 1..MaxHeaderFetch : Fits(t + j - 1, h[j])
<1> USE ConstantFacts
<1> DEFINE m == MaxHeaderFetch
           e == t + m - 1
<1>1. t \in Nat \ {0}
  <2>1. PICK k \in Nat : t = from + k * m
    BY Zenon DEF IInv, GridInv
  <2> DEFINE d == k * m
  <2>2. d \in Nat /\ t = from + d /\ from \in Nat \ {0}
    BY <2>1, MultipleOrder DEF IInv, TypeInv
  <2> HIDE DEF d
  <2> QED BY <2>2
<1>2. /\ Len(h) = m /\ Number[h[1]] = t /\ h[m] = headerTaskPool[t]
      /\ \A j \in 2..m : Number[h[j]] = t + j - 1 /\ Parent[h[j]] = h[j - 1]
  BY Zenon DEF Accepted
<1>3. ASSUME NEW j \in 1..m
      PROVE  h[j] \in Headers /\ Number[h[j]] = t + j - 1
  <2>1. h[j] \in Headers
    BY <1>2
  <2>2. CASE j = 1
    BY <1>1, <1>2, <2>1, <2>2
  <2>3. CASE j # 1
    <3>1. j \in 2..m
      BY <2>3
    <3> QED BY <1>2, <2>1, <3>1
  <2> QED BY <2>2, <2>3
<1>4. ASSUME honest
      PROVE  \A j \in 1..m : t + j - 1 \in 1..Len(Chain) /\ h[j] = Chain[t + j - 1]
  <2>1. e <= Len(Chain) /\ h[m] = Chain[e]
    BY <1>2, <1>4 DEF IInv, HonestInv
  <2>2. \A j \in 1..m : t + j - 1 \in 1..Len(Chain)
    BY <1>1, <2>1
  <2> DEFINE Bad == {x \in 0..(m - 1) : h[m - x] # Chain[e - x]}
  <2>3. Bad \in SUBSET Nat
    OBVIOUS
  <2>4. Bad = {}
    <3>1. SUFFICES ASSUME Bad # {}
                   PROVE  FALSE
      OBVIOUS
    <3>2. PICK x \in Bad : \A y \in Bad : x <= y
      BY <2>3, <3>1, SmallestExists, Zenon
    <3>3. x \in 0..(m - 1) /\ h[m - x] # Chain[e - x]
      BY <3>2
    <3>4. x # 0
      <4>1. m - 0 = m /\ e - 0 = e
        BY <1>1
      <4> QED BY <2>1, <3>3, <4>1
    <3>5. x - 1 \in 0..(m - 1) /\ ~ (x <= x - 1)
      BY <3>3, <3>4
    <3>6. x - 1 \notin Bad
      BY <3>2, <3>5, Zenon
    <3>7. h[m - (x - 1)] = Chain[e - (x - 1)]
      BY <3>5, <3>6
    <3> HIDE DEF Bad
    <3>8. x \in Nat /\ 1 <= x /\ x <= m - 1 /\ m \in Nat
      BY <3>3, <3>4
    <3>9. e \in Nat /\ m <= e /\ e <= Len(Chain) /\ Len(Chain) \in Nat
      BY <1>1, <2>1
    <3> HIDE DEF m, e
    <3>10. h[m - x] = Parent[h[m - (x - 1)]]
      <4> DEFINE j == m - (x - 1)
      <4>1. j \in 2..m /\ j - 1 = m - x
        BY <3>8, SMT
      <4> HIDE DEF j
      <4>2. Parent[h[j]] = h[m - x]
        BY <1>2, <4>1
      <4> QED BY <4>2 DEF j
    <3>11. Chain[e - x] = Parent[Chain[e - (x - 1)]]
      <4> DEFINE j == e - (x - 1)
      <4>1. j \in 2..Len(Chain) /\ j - 1 = e - x
        BY <3>8, <3>9, SMT
      <4> HIDE DEF j
      <4>2. Parent[Chain[j]] = Chain[e - x]
        BY <4>1, SkeletonAssumption
      <4> QED BY <4>2 DEF j
    <3> QED BY <3>3, <3>7, <3>10, <3>11
  <2>5. ASSUME NEW j \in 1..m
        PROVE  h[j] = Chain[t + j - 1]
    <3>1. m - j \in 0..(m - 1) /\ m - (m - j) = j /\ e - (m - j) = t + j - 1
      BY <1>1
    <3>2. h[m - (m - j)] = Chain[e - (m - j)]
      BY <2>4, <3>1
    <3> QED BY <3>1, <3>2
  <2> QED BY <2>2, <2>5
<1> QED BY <1>3, <1>4, Zenon DEF Fits

\* The results fit after a batch was put in place (DeliverHeaders).
LEMMA PlaceFits ==
  ASSUME IInv, OInv, Filling, NEW t \in DOMAIN headerTaskPool, NEW h \in Seq(Headers),
         Accepted(h, t), NEW k \in 1..Len(headerResults),
         Place(headerResults, t, h)[k] # Nil
  PROVE  Fits(from + k - 1, Place(headerResults, t, h)[k])
<1> USE ConstantFacts
<1> DEFINE r == Place(headerResults, t, h)
           L == Len(headerResults)
<1>1. headerOffset = from /\ from \in Nat /\ headerResults \in Seq(Headers \cup {Nil})
  BY DEF IInv, TypeInv, GridInv
<1>2. PICK c \in Nat : t = from + c * MaxHeaderFetch
  BY Zenon DEF IInv, GridInv
<1> DEFINE d == c * MaxHeaderFetch
<1>3. d \in Nat /\ t = from + d
  BY <1>2, MultipleOrder
<1> HIDE DEF d
<1>4. t - headerOffset = d /\ Len(h) = MaxHeaderFetch
  BY <1>1, <1>3 DEF Accepted
<1>5. r[k] = IF k - d \in 1..MaxHeaderFetch THEN h[k - d] ELSE headerResults[k]
  BY <1>1, <1>4 DEF Place
<1>6. CASE k - d \in 1..MaxHeaderFetch
  <2>1. Fits(t + (k - d) - 1, h[k - d])
    BY <1>6, BatchFits
  <2>2. t + (k - d) - 1 = from + k - 1
    BY <1>1, <1>3
  <2> QED BY <1>5, <1>6, <2>1, <2>2
<1>7. CASE k - d \notin 1..MaxHeaderFetch
  BY <1>5, <1>7 DEF OInv, ResultsFit
<1> QED BY <1>6, <1>7

\* Headers that are ready are there: the first header of a batch tells of the whole
\* batch (DeliverHeaders).
LEMMA ReadyFull ==
  ASSUME IInv, Filling, NEW t \in DOMAIN headerTaskPool, NEW h \in Seq(Headers), Accepted(h, t),
         NEW i \in 1..Ready(Place(headerResults, t, h))
  PROVE  /\ headerProced + i \in 1..Len(headerResults)
         /\ Place(headerResults, t, h)[headerProced + i] # Nil
<1> USE ConstantFacts
<1> DEFINE r == Place(headerResults, t, h)
           m == MaxHeaderFetch
           L == Len(headerResults)
<1>1. /\ r \in Seq(Headers \cup {Nil}) /\ Len(r) = L /\ L \in Nat
      /\ \A x \in 1..L : r[x] = Nil <=> Batch(x) \in DOMAIN headerTaskPool \ {t}
  BY PlaceLinked DEF IInv, TypeInv
<1>2. /\ headerProced \in Nat /\ headerProced <= L /\ Multiple(L) /\ Multiple(headerProced)
  BY DEF IInv, TypeInv, GridInv
<1> HIDE DEF r
<1>3. /\ Ready(r) \in 0..(L - headerProced)
      /\ \A x \in 0..(Ready(r) - 1) : x % m = 0 => r[headerProced + x + 1] # Nil
  BY <1>1, <1>2, ReadyWhole, Zenon
<1>4. i \in 1..Ready(r)
  BY DEF r
<1>5. /\ i \in Nat \ {0} /\ i - 1 \in Nat /\ i <= Ready(r) /\ Ready(r) \in Nat
      /\ headerProced + i \in 1..L
  BY <1>2, <1>3, <1>4
<1> DEFINE c == (i - 1) \div m
           k == c * m
<1>6. c \in Nat /\ i - 1 = k + ((i - 1) % m) /\ (i - 1) % m \in 0..(m - 1)
  BY <1>5, DivRest, Zenon
<1>7. k \in Nat /\ k % m = 0
  BY <1>6, MultipleOrder, MultipleSum, Zenon
<1>8. k <= i - 1 /\ i - k \in 1..m
  <2> DEFINE w == (i - 1) % m
  <2>1. w \in 0..(m - 1) /\ i - 1 = k + w
    BY <1>6
  <2> HIDE DEF w, k, c
  <2> QED BY <1>5, <1>7, <2>1
<1>9. PICK b \in Nat : headerProced = b * m
  BY <1>2, Zenon DEF Multiple
<1>10. b + c \in Nat /\ (b + c) * m = headerProced + k
  <2> HIDE DEF c
  <2> QED BY <1>6, <1>9, MultipleSum
<1> DEFINE q == b + c
<1> HIDE DEF c, k, q
<1>11. q \in Nat /\ q * m = headerProced + k
  BY <1>10 DEF q
<1>12. ASSUME NEW x \in Nat \ {0}, x - q * m \in 1..m
       PROVE  Batch(x) = headerOffset + q * m
  BY <1>11, <1>12, InBatch DEF Batch
<1>13. headerProced + i \in Nat \ {0} /\ (headerProced + i) - q * m \in 1..m
  BY <1>2, <1>5, <1>7, <1>8, <1>11
<1>14. headerProced + k + 1 \in Nat \ {0} /\ (headerProced + k + 1) - q * m \in 1..m
  BY <1>2, <1>7, <1>11
<1>15. r[headerProced + k + 1] # Nil /\ headerProced + k + 1 \in 1..L
  <2>1. k \in 0..(Ready(r) - 1)
    BY <1>5, <1>7, <1>8
  <2> QED BY <1>2, <1>3, <1>5, <1>7, <1>8, <2>1
<1>16. Batch(headerProced + i) = Batch(headerProced + k + 1)
  <2>1. Batch(headerProced + i) = headerOffset + q * m
    BY <1>12, <1>13, Zenon
  <2>2. Batch(headerProced + k + 1) = headerOffset + q * m
    BY <1>12, <1>14, Zenon
  <2> QED BY <2>1, <2>2
<1>17. r[headerProced + i] # Nil
  BY <1>1, <1>5, <1>15, <1>16, Zenon
<1> QED BY <1>5, <1>17, Zenon DEF r

(***************************************************************************)
(* Every step keeps the invariant.                                         *)
(***************************************************************************)

\* A step that sends nothing and moves no headers.
LEMMA StillStep ==
  ASSUME OInv, ChanInv', Out' = Out,
         UNCHANGED <<headerResults, headerProced, from, headers, pc, result, skeleton, honest>>
  PROVE  OInv'
<1>1. \A n, x : Fits(n, x)' <=> Fits(n, x)
  BY DEF Fits
<1>2. ResultsFit' /\ HeadersFit' /\ OutFits'
  BY <1>1 DEF OInv, ResultsFit, HeadersFit, OutFits, Filling
<1>3. CountInv' /\ AllOut'
  BY DEF OInv, CountInv, AllOut, Filling
<1> QED BY <1>2, <1>3, Zenon DEF OInv

\* A step that ends with an error or leaves for the end sends nothing more.
LEMMA LeaveStep ==
  ASSUME OInv, ChanInv', Out' = Out, pc' \in {"dropped", "returned"}, result' # "nil",
         UNCHANGED <<skeleton, honest>>
  PROVE  OInv'
<1>1. \A n, x : Fits(n, x)' <=> Fits(n, x)
  BY DEF Fits
<1>2. ResultsFit' /\ HeadersFit' /\ OutFits'
  BY <1>1 DEF OInv, ResultsFit, HeadersFit, OutFits, Filling
<1>3. CountInv' /\ AllOut'
  BY DEF CountInv, AllOut, Filling
<1> QED BY <1>2, <1>3 DEF OInv

\* The steps that end fetchHeaders early.
LEMMA ErrorStep ==
  ASSUME OInv, Timeout \/ CancelCase \/ DroppedReturn \/ FillFail
  PROVE  OInv'
<1> USE DEF peerVars, chanVars
<1>1. ChanInv /\ (result = "nil" => pc = "returned")
  BY DEF OInv, AllOut
<1>2. \/ UNCHANGED <<headerProcCh, consumed>>
      \/ headerProcCh = << >> /\ headerProcCh' = << << >> >> /\ consumed' = consumed
  BY DEF Timeout, CancelCase, DroppedReturn, FillFail
<1>3. ChanInv' /\ Out' = Out
  BY <1>1, <1>2, OutSame, Zenon
<1>4. pc' \in {"dropped", "returned"} /\ result' # "nil" /\ UNCHANGED <<skeleton, honest>>
  BY <1>1, Zenon DEF Timeout, CancelCase, DroppedReturn, FillFail, Return, UnregisterPeers
<1> QED BY <1>3, <1>4, LeaveStep

\* The steps that move no headers.
LEMMA IdleStep ==
  ASSUME OInv,
         \/ Consume \/ Cancel \/ Wake \/ Fill \/ UNCHANGED vars
         \/ \E p \in Peers : Register(p) \/ Leave(p)
         \/ \E P \in SUBSET Peers : ExpireHeaders(P)
  PROVE  OInv'
<1> USE DEF queueVars, localVars, peerVars, chanVars, vars
<1>1. ChanInv
  BY Zenon DEF OInv
<1>2. UNCHANGED <<headerResults, headerProced, from, headers, pc, result, skeleton, honest>>
  BY Zenon DEF Consume, Cancel, Wake, Fill, Assign, Register, Leave, UnregisterPeers, ExpireHeaders
<1>3. UNCHANGED <<headerProcCh, consumed>> \/ Consume
  BY DEF Cancel, Wake, Fill, Assign, Register, Leave, UnregisterPeers, ExpireHeaders
<1>4. ChanInv' /\ Out' = Out
  BY <1>1, <1>3, OutSame
<1> QED BY <1>2, <1>4, StillStep, Zenon

\* A skeleton is scheduled; nothing is in place yet.
LEMMA ScheduleStep ==
  ASSUME IInv, OInv, NEW s \in Skeletons, SkeletonPacket(s)
  PROVE  OInv'
<1> USE ConstantFacts
<1>1. headerResults = << >>
  BY DEF IInv, QuietInv, SkeletonPacket, Filling
<1>2. /\ pc = "request" /\ s # << >> /\ pc' = "fill" /\ ScheduleSkeleton(from, s)
      /\ UNCHANGED <<from, result, skeleton, honest, headerProcCh, consumed>>
  BY <1>1 DEF SkeletonPacket, peerVars, chanVars
<1>3. ChanInv' /\ Out' = Out
  BY <1>2, OutSame DEF OInv
<1>4. \A n, x : Fits(n, x)' <=> Fits(n, x)
  BY <1>2, Zenon DEF Fits
<1>5. OutFits' /\ HeadersFit'
  BY <1>2, <1>3, <1>4 DEF OInv, OutFits, HeadersFit
<1>6. ResultsFit'
  <2>1. s \in Seq(Headers) /\ Len(s) \in Nat
    BY <1>2, SkeletonList DEF IInv, TypeInv
  <2> DEFINE z == Len(s) * MaxHeaderFetch
  <2>2. z \in Nat /\ headerResults' = [i \in 1..z |-> Nil]
    BY <1>2, <2>1, MultipleOrder DEF ScheduleSkeleton
  <2> HIDE DEF z
  <2>3. \A k \in 1..Len(headerResults') : headerResults'[k] = Nil
    BY <2>2
  <2> QED BY <2>3 DEF ResultsFit
<1>7. CountInv'
  BY <1>2, <1>3 DEF OInv, IInv, TypeInv, CountInv, ScheduleSkeleton, Filling
<1>8. AllOut'
  BY <1>2 DEF OInv, AllOut
<1> QED BY <1>3, <1>5, <1>6, <1>7, <1>8, Zenon DEF OInv

\* The honest master has no tail left only when all of its chain is out.
LEMMA EmptyStep ==
  ASSUME IInv, OInv, MasterSilent, EmptyPacket
  PROVE  OInv'
<1> USE ConstantFacts
<1>1. /\ pc = "request" /\ pc' \in {"request", "finish"} /\ (skeleton => pc' = "request")
      /\ skeleton' = FALSE /\ UNCHANGED <<from, headers, result, honest, headerProcCh, consumed>>
  BY DEF EmptyPacket, peerVars, chanVars
<1>2. ChanInv' /\ Out' = Out
  BY <1>1, OutSame, Zenon DEF OInv
<1>3. \A n, x : Fits(n, x) => Fits(n, x)'
  BY <1>1, Zenon DEF Fits
<1>4. OutFits' /\ HeadersFit' /\ ResultsFit'
  BY <1>1, <1>2, <1>3, Zenon DEF OInv, OutFits, HeadersFit, ResultsFit, Filling
<1>5. CountInv'
  BY <1>1, <1>2, Zenon DEF OInv, CountInv, Filling
<1>6. ASSUME honest, ~skeleton
      PROVE  First + Len(Out) = Len(Chain) + 1
  <2>1. from = First + Len(Out) /\ from \in Nat \ {0} /\ Len(Out) \in Nat
    BY <1>1, OutIs DEF OInv, CountInv, IInv, TypeInv
  <2>2. << >> = SubSeq(Chain, from, Upto(from + MaxHeaderFetch - 1))
    BY <1>6 DEF MasterSilent, Tails
  <2>3. from > Len(Chain)
    <3>1. SUFFICES ASSUME from <= Len(Chain)
                   PROVE  FALSE
      BY <2>1
    <3>2. Upto(from + MaxHeaderFetch - 1) \in from..Len(Chain)
      BY <2>1, <3>1 DEF Upto, Smaller
    <3>3. Len(SubSeq(Chain, from, Upto(from + MaxHeaderFetch - 1))) # 0
      BY <2>1, <3>1, <3>2
    <3>4. Len(<< >>) = 0
      OBVIOUS
    <3> QED BY <2>2, <3>3, <3>4, Zenon
  <2>4. from <= Len(Chain) + 1
    <3>1. CASE Len(Out) = 0
      BY <2>1, <3>1, FirstAssumption
    <3>2. CASE Len(Out) # 0
      <4>1. Len(Out) \in 1..Len(Out)
        BY <2>1, <3>2
      <4>2. First + Len(Out) - 1 \in 1..Len(Chain)
        BY <1>6, <4>1 DEF OInv, OutFits, Fits
      <4> QED BY <2>1, <4>2
    <3> QED BY <3>1, <3>2
  <2> QED BY <2>1, <2>3, <2>4
<1>7. AllOut'
  BY <1>1, <1>2, <1>6 DEF OInv, AllOut
<1> QED BY <1>2, <1>4, <1>5, <1>7, Zenon DEF OInv

\* The tail fits, also without the headers that are held back.
LEMMA TailStep ==
  ASSUME IInv, OInv, NEW h \in Tails, TailPacket(h)
  PROVE  OInv'
<1> USE ConstantFacts
<1>1. /\ pc = "request" /\ ~skeleton /\ pc' \in {"request", "forward"}
      /\ UNCHANGED <<from, result, skeleton, honest, headerProcCh, consumed>>
  BY DEF TailPacket, peerVars, chanVars
<1>2. ChanInv' /\ Out' = Out
  BY <1>1, OutSame, Zenon DEF OInv
<1>3. \A n, x : Fits(n, x)' <=> Fits(n, x)
  BY <1>1 DEF Fits
<1>4. from \in Nat \ {0} /\ h \in Seq(Headers) /\ Len(h) \in Nat
  BY TailList DEF IInv, TypeInv
<1>5. ASSUME NEW i \in 1..Len(h)
      PROVE  Fits(from + i - 1, h[i])
  <2>1. CASE honest
    <3> DEFINE e == Upto(from + MaxHeaderFetch - 1)
    <3>1. h = SubSeq(Chain, from, e)
      BY <2>1 DEF Tails
    <3>2. e \in 0..Len(Chain)
      BY <1>4 DEF Upto, Smaller
    <3> HIDE DEF e
    <3>3. h[i] = Chain[from + i - 1] /\ from + i - 1 \in 1..Len(Chain)
      BY <1>4, <3>1, <3>2
    <3> DEFINE n == from + i - 1
    <3>4. n \in 1..Len(Chain) /\ h[i] = Chain[n]
      BY <3>3
    <3> HIDE DEF n
    <3>5. Chain[n] \in Headers /\ Number[Chain[n]] = n
      BY <3>4, SkeletonAssumption
    <3>6. Fits(n, h[i])
      BY <3>4, <3>5 DEF Fits
    <3> QED BY <3>6 DEF n
  <2>2. CASE ~honest
    BY <1>1, <1>4, <2>2 DEF Fits
  <2> QED BY <2>1, <2>2
<1>6. HeadersFit'
  <2>1. PICK delay \in {0, Smaller(HeaderDelay, Len(h))} : headers' = SubSeq(h, 1, Len(h) - delay)
    BY Zenon DEF TailPacket
  <2>2. Len(h) - delay \in 0..Len(h)
    BY <1>4 DEF Smaller
  <2> DEFINE z == Len(h) - delay
  <2>3. z \in 0..Len(h) /\ headers' = SubSeq(h, 1, z)
    BY <2>1, <2>2, Zenon
  <2> HIDE DEF z
  <2>4. \A i \in 1..Len(headers') : i \in 1..Len(h) /\ headers'[i] = h[i]
    BY <1>4, <2>3
  <2> QED BY <1>1, <1>3, <1>5, <2>4 DEF HeadersFit
<1>7. OutFits' /\ ResultsFit'
  BY <1>1, <1>2, <1>3, Zenon DEF OInv, OutFits, ResultsFit, Filling
<1>8. CountInv' /\ AllOut'
  BY <1>1, <1>2, Zenon DEF OInv, CountInv, AllOut, Filling
<1> QED BY <1>2, <1>6, <1>7, <1>8, Zenon DEF OInv

\* The blocking sends.
LEMMA ForwardStep ==
  ASSUME IInv, OInv, Forward
  PROVE  OInv'
<1> USE ConstantFacts
<1>1. /\ pc = "forward" /\ pc' = "request" /\ headerProcCh = << >> /\ headerProcCh' = <<headers>>
      /\ from' = from + Len(headers)
      /\ UNCHANGED <<result, skeleton, honest, consumed>>
  BY DEF Forward, peerVars
<1>2. \A i \in 1..Len(headers) : Fits(from + i - 1, headers[i])
  BY <1>1 DEF OInv, HeadersFit
<1>3. headers \in Seq(Headers) /\ Len(headers) \in Nat
  <2>1. headers \in Seq(Headers \cup {Nil})
    BY DEF IInv, TypeInv
  <2>2. \A i \in 1..Len(headers) : headers[i] \in Headers
    BY <1>2 DEF Fits
  <2> DEFINE n == Len(headers)
  <2>3. n \in Nat /\ headers \in [1..n -> Headers]
    BY <2>1, <2>2
  <2> HIDE DEF n
  <2>4. headers \in Seq(Headers)
    BY <2>3
  <2> QED BY <2>4
<1>4. /\ ChanInv' /\ Len(Out') = Len(Out) + Len(headers)
      /\ \A i \in 1..Len(Out) : Out'[i] = Out[i]
      /\ \A i \in 1..Len(headers) : Out'[Len(Out) + i] = headers[i]
  BY <1>1, <1>3, OutGrows, Zenon DEF OInv
<1>5. from = First + Len(Out) /\ Len(Out) \in Nat /\ from \in Nat
  BY <1>1, OutIs DEF OInv, CountInv, IInv, TypeInv
<1>6. \A n, x : Fits(n, x)' <=> Fits(n, x)
  BY <1>1 DEF Fits
<1>7. OutFits'
  <2>1. ASSUME NEW i \in 1..Len(Out')
        PROVE  Fits(First + i - 1, Out'[i])
    <3>1. CASE i \in 1..Len(Out)
      BY <1>4, <3>1, Zenon DEF OInv, OutFits
    <3>2. CASE i \notin 1..Len(Out)
      <4> DEFINE j == i - Len(Out)
      <4>1. j \in 1..Len(headers) /\ Len(Out) + j = i /\ from + j - 1 = First + i - 1
        BY <1>3, <1>4, <1>5, <3>2
      <4> HIDE DEF j
      <4>2. Out'[i] = headers[j] /\ Fits(from + j - 1, headers[j])
        BY <1>2, <1>4, <4>1, Zenon
      <4> QED BY <4>1, <4>2, Zenon
    <3> QED BY <3>1, <3>2
  <2> QED BY <1>6, <2>1 DEF OutFits
<1>8. HeadersFit' /\ ResultsFit' /\ AllOut'
  BY <1>1 DEF OInv, HeadersFit, ResultsFit, AllOut, Filling
<1>9. CountInv'
  BY <1>1, <1>3, <1>4, <1>5 DEF CountInv, Filling
<1> QED BY <1>4, <1>7, <1>8, <1>9, Zenon DEF OInv

\* The end.
LEMMA FinishStep ==
  ASSUME OInv, Finish
  PROVE  OInv'
<1>1. /\ pc = "finish" /\ pc' = "returned" /\ headerProcCh = << >>
      /\ headerProcCh' = << << >> >>
      /\ UNCHANGED <<skeleton, honest, consumed>>
  BY DEF Finish, Return, peerVars
<1>2. ChanInv' /\ Out' = Out
  BY <1>1, OutSame, Zenon DEF OInv
<1>3. \A n, x : Fits(n, x)' <=> Fits(n, x)
  BY <1>1, Zenon DEF Fits
<1>4. OutFits' /\ HeadersFit' /\ ResultsFit' /\ CountInv'
  BY <1>1, <1>2, <1>3, Zenon DEF OInv, OutFits, HeadersFit, ResultsFit, CountInv, Filling
<1>5. AllOut'
  BY <1>1, <1>2, Zenon DEF OInv, AllOut
<1> QED BY <1>2, <1>4, <1>5, Zenon DEF OInv

\* When the filling is done every place is filled, and the rest is forwarded.
LEMMA DoneStep ==
  ASSUME IInv, OInv, FillDone
  PROVE  OInv'
<1> USE ConstantFacts
<1>1. /\ Filling /\ pc' \in {"request", "forward"} /\ headerTaskQueue = {} /\ ~InFlight
      /\ headers' = SubSeq(headerResults, headerProced + 1, Len(headerResults))
      /\ from' = from + headerProced
      /\ UNCHANGED <<result, skeleton, honest, headerProcCh, consumed>>
  BY DEF FillDone, Filling, peerVars, chanVars
<1>2. ChanInv' /\ Out' = Out
  BY <1>1, OutSame, Zenon DEF OInv
<1>3. \A n, x : Fits(n, x)' <=> Fits(n, x)
  BY <1>1, Zenon DEF Fits
<1>4. /\ headerProced \in Nat /\ from \in Nat /\ headerResults \in Seq(Headers \cup {Nil})
      /\ headerProced <= Len(headerResults)
  BY <1>1, Zenon DEF IInv, TypeInv, GridInv
<1>5. DOMAIN headerTaskPool = {}
  <2>1. {headerPendPool[p] : p \in Peers} \ {0} = {}
    BY <1>1 DEF InFlight
  <2> QED BY <1>1, <2>1, Zenon DEF IInv, PlaceInv
<1>6. \A k \in 1..Len(headerResults) : Fits(from + k - 1, headerResults[k])
  BY <1>1, <1>5 DEF IInv, FilledInv, OInv, ResultsFit
<1>7. HeadersFit'
  <2>1. ASSUME NEW i \in 1..Len(headers')
        PROVE  Fits(from' + i - 1, headers'[i])
    <3> DEFINE k == headerProced + i
               L == Len(headerResults)
    <3>1. L \in Nat /\ L <= Len(headerResults) /\ headerProced <= L
      BY <1>4
    <3>2. headers' = SubSeq(headerResults, headerProced + 1, L)
      BY <1>1, Zenon
    <3>3. k \in 1..Len(headerResults) /\ headers'[i] = headerResults[k]
      <4> HIDE DEF L
      <4>1. Len(headers') = L - headerProced
        BY <1>4, <3>1, <3>2
      <4>2. i \in Nat /\ 1 <= i /\ i <= L - headerProced
        BY <1>4, <3>1, <4>1
      <4>3. headers'[i] = headerResults[headerProced + 1 + i - 1]
        BY <1>4, <3>1, <3>2, <4>1, <4>2
      <4>4. headerProced + 1 + i - 1 = k /\ k \in 1..Len(headerResults)
        BY <1>4, <3>1, <4>2
      <4> QED BY <4>3, <4>4, Zenon
    <3>4. from + k - 1 = from' + i - 1
      BY <1>1, <1>4
    <3> HIDE DEF k
    <3> QED BY <1>6, <3>3, <3>4
  <2> QED BY <1>3, <2>1 DEF HeadersFit
<1>8. OutFits' /\ ResultsFit'
  BY <1>1, <1>2, <1>3, Zenon DEF OInv, OutFits, ResultsFit, Filling
<1>9. CountInv' /\ AllOut'
  BY <1>1, <1>2, Zenon DEF OInv, CountInv, AllOut, Filling
<1> QED BY <1>2, <1>7, <1>8, <1>9, Zenon DEF OInv

\* A batch is put in place; the headers that are ready are sent if the channel is
\* empty (DeliverHeaders).
LEMMA PlaceStep ==
  ASSUME IInv, OInv, NEW p \in Peers, NEW h \in Seq(Headers), DeliverHeaders(p, h),
         headerPendPool[p] \in DOMAIN headerTaskPool, Accepted(h, headerPendPool[p])
  PROVE  OInv'
<1> USE ConstantFacts
<1> DEFINE t == headerPendPool[p]
           r == Place(headerResults, t, h)
           n == Ready(r)
           sent == n > 0 /\ headerProcCh = << >>
           b == SubSeq(r, headerProced + 1, headerProced + n)
<1>1. /\ Filling /\ Filling' /\ headerResults' = r
      /\ headerProcCh' = IF sent THEN <<b>> ELSE headerProcCh
      /\ headerProced' = headerProced + (IF sent THEN n ELSE 0)
      /\ UNCHANGED <<from, headers, pc, result, skeleton, honest, consumed>>
  BY Zenon DEF DeliverHeaders, Accept, Filling
<1>2. /\ r \in Seq(Headers \cup {Nil}) /\ Len(r) = Len(headerResults) /\ Len(r) \in Nat
  BY <1>1, PlaceLinked DEF IInv, TypeInv
<1>3. \A k \in 1..Len(r) : r[k] # Nil => Fits(from + k - 1, r[k])
  BY <1>1, <1>2, PlaceFits, Zenon
<1>4. /\ headerProced \in Nat /\ headerProced <= Len(r) /\ Multiple(Len(r)) /\ Multiple(headerProced)
      /\ from \in Nat
  BY <1>1, <1>2 DEF IInv, TypeInv, GridInv
<1>5. n \in 0..(Len(r) - headerProced)
  BY <1>2, <1>4, ReadyWhole, Zenon
<1>6. \A i \in 1..n : headerProced + i \in 1..Len(r) /\ r[headerProced + i] # Nil
  BY <1>1, <1>2, ReadyFull, Zenon
<1> HIDE DEF r, n
<1>7. Len(b) = n /\ \A i \in 1..n : b[i] = r[headerProced + i]
  <2> DEFINE e == headerProced + n
  <2>1. e \in Nat /\ headerProced <= e /\ e <= Len(r) /\ e - headerProced = n
    BY <1>2, <1>4, <1>5
  <2>2. b = SubSeq(r, headerProced + 1, e)
    BY Zenon
  <2> HIDE DEF e, b
  <2>3. Len(b) = e - headerProced
    BY <1>2, <1>4, <2>1, <2>2
  <2>4. ASSUME NEW i \in 1..n
        PROVE  b[i] = r[headerProced + i]
    <3>1. i \in Nat /\ 1 <= i /\ i <= e - headerProced
      BY <1>5, <2>1
    <3>2. b[i] = r[headerProced + 1 + i - 1]
      BY <1>2, <1>4, <2>1, <2>2, <2>3, <3>1
    <3>3. headerProced + 1 + i - 1 = headerProced + i
      BY <1>4, <3>1
    <3> QED BY <3>2, <3>3, Zenon
  <2> QED BY <2>1, <2>3, <2>4, Zenon
<1>8. \A i \in 1..n : Fits(from + (headerProced + i) - 1, b[i])
  BY <1>3, <1>6, <1>7, Zenon
<1>9. \A m, x : Fits(m, x)' <=> Fits(m, x)
  BY <1>1 DEF Fits
<1>10. ResultsFit'
  BY <1>1, <1>3, <1>9 DEF ResultsFit
<1>11. HeadersFit' /\ (result' = "nil" => pc' = "returned") /\ result' # "nil"
  BY <1>1 DEF OInv, AllOut, HeadersFit, Filling
<1>12. AllOut'
  BY <1>1, <1>11, Zenon DEF AllOut, Filling
<1>13. CASE sent
  <2>1. b \in Seq(Headers)
    <3>1. b \in Seq(Headers \cup {Nil})
      <4>1. headerProced + n \in Nat /\ headerProced + n <= Len(r)
        BY <1>2, <1>4, <1>5
      <4> QED BY <1>2, <1>4, <4>1
    <3> HIDE DEF b
    <3>2. n \in Nat /\ \A i \in 1..n : b[i] \in Headers
      <4>1. n \in Nat
        BY <1>5
      <4>2. \A i \in 1..n : b[i] \in Headers
        BY <1>8, Zenon DEF Fits
      <4> QED BY <4>1, <4>2, Zenon
    <3>3. b \in [1..n -> Headers]
      BY <1>7, <3>1, <3>2
    <3> QED BY <3>2, <3>3
  <2> HIDE DEF b
  <2>2. /\ ChanInv' /\ Len(Out') = Len(Out) + n
        /\ \A i \in 1..Len(Out) : Out'[i] = Out[i]
        /\ \A i \in 1..n : Out'[Len(Out) + i] = b[i]
    BY <1>1, <1>7, <1>13, <2>1, OutGrows, Zenon DEF OInv
  <2>3. from + headerProced = First + Len(Out) /\ Len(Out) \in Nat /\ n \in Nat
    BY <1>1, <1>5, OutIs DEF OInv, CountInv
  <2>4. OutFits'
    <3>1. ASSUME NEW i \in 1..Len(Out')
          PROVE  Fits(First + i - 1, Out'[i])
      <4>1. CASE i \in 1..Len(Out)
        BY <2>2, <4>1, Zenon DEF OInv, OutFits
      <4>2. CASE i \notin 1..Len(Out)
        <5> DEFINE j == i - Len(Out)
        <5>1. j \in 1..n /\ Len(Out) + j = i /\ from + (headerProced + j) - 1 = First + i - 1
          <6>1. i \in Nat /\ 1 <= i /\ i <= Len(Out) + n /\ ~ (i <= Len(Out))
            BY <2>2, <2>3, <4>2
          <6>2. First \in Nat
            BY Zenon
          <6> QED BY <1>4, <2>3, <6>1, <6>2
        <5> HIDE DEF j
        <5>2. Out'[i] = b[j] /\ Fits(from + (headerProced + j) - 1, b[j])
          BY <1>8, <2>2, <5>1, Zenon
        <5> QED BY <5>1, <5>2, Zenon
      <4> QED BY <4>1, <4>2, Zenon
    <3> QED BY <1>9, <3>1, Zenon DEF OutFits
  <2>5. CountInv'
    <3>1. headerProced' = headerProced + n /\ from' = from /\ pc' = "fill"
      BY <1>1, <1>13, Zenon DEF Filling
    <3>2. First \in Nat
      BY Zenon
    <3>3. Len(Out') = Len(Out) + n
      BY <2>2, Zenon
    <3>4. from + (headerProced + n) = First + (Len(Out) + n)
      <4> DEFINE z == Len(Out)
      <4>1. from \in Nat /\ headerProced \in Nat /\ z \in Nat /\ n \in Nat
        BY <1>4, <2>3, Zenon
      <4>2. from + headerProced = First + z
        BY <2>3, Zenon
      <4> HIDE DEF z
      <4>3. from + (headerProced + n) = First + (z + n)
        BY <3>2, <4>1, <4>2
      <4> QED BY <4>3, Zenon DEF z
    <3>5. from' + headerProced' = First + Len(Out')
      BY <3>1, <3>3, <3>4, Zenon
    <3> QED BY <3>1, <3>5, Zenon DEF CountInv, Filling
  <2> QED BY <1>10, <1>11, <1>12, <2>2, <2>4, <2>5, Zenon DEF OInv
<1>14. CASE ~sent
  <2>1. headerProced' = headerProced /\ UNCHANGED <<headerProcCh, consumed>>
    BY <1>1, <1>4, <1>14
  <2>2. ChanInv' /\ Out' = Out
    BY <2>1, OutSame, Zenon DEF OInv
  <2>3. OutFits' /\ CountInv'
    BY <1>1, <1>9, <2>1, <2>2, Zenon DEF OInv, OutFits, CountInv, Filling
  <2> QED BY <1>10, <1>11, <1>12, <2>2, <2>3, Zenon DEF OInv
<1> QED BY <1>13, <1>14, Zenon

\* A packet of a peer.
LEMMA PacketStep ==
  ASSUME IInv, OInv, NEW p \in Peers, Answer(p)
  PROVE  OInv'
<1> USE ConstantFacts
<1>1. PICK h \in Answers(p) : DeliverHeaders(p, h)
  BY Zenon DEF Answer
<1> DEFINE t == headerPendPool[p]
<1>2. Filling /\ t \in Nat /\ (t = 0 \/ t \in DOMAIN headerTaskPool)
  BY Zenon DEF Answer, Filling, IInv, PlaceInv, TypeInv
<1>3. CASE t \in DOMAIN headerTaskPool /\ Accepted(h, t)
  <2>1. t \in Nat \ {0}
    BY <1>2, <1>3, QueueNumbers, Zenon DEF IInv, PlaceInv
  <2>2. h \in Seq(Headers)
    BY <2>1, AnswerList, Zenon
  <2> QED BY <1>1, <1>3, <2>2, PlaceStep, Zenon
<1>4. CASE ~ (t \in DOMAIN headerTaskPool /\ Accepted(h, t))
  <2>1. /\ UNCHANGED <<headerResults, headerProced, from, headers, pc, result, skeleton, honest>>
        /\ UNCHANGED <<headerProcCh, consumed>>
    <3>1. CASE t \in DOMAIN headerTaskPool
      BY <1>1, <1>4, <3>1, Zenon DEF DeliverHeaders, Refuse
    <3>2. CASE t \notin DOMAIN headerTaskPool
      BY <1>1, <1>2, <3>2, Zenon DEF DeliverHeaders
    <3> QED BY <3>1, <3>2, Zenon
  <2>2. ChanInv' /\ Out' = Out
    BY <2>1, OutSame DEF OInv
  <2> QED BY <2>1, <2>2, StillStep, Zenon
<1> QED BY <1>3, <1>4

(***************************************************************************)
(* The results.                                                            *)
(***************************************************************************)

\* What is forwarded fits where it is: it has the number of its place until a dishonest
\* master's tail, and is an honest master's own header (fetchHeaders, DeliverHeaders).
THEOREM ForwardInvariant == Spec => []OInv
<1>1. Init => OInv
  <2>1. SUFFICES ASSUME Init
                 PROVE  OInv
    BY Zenon
  <2> USE ConstantFacts, <2>1
  <2>2. ChanInv
    BY DEF Init, ChanInv
  <2>3. Len(Out) = 0
    <3>1. Out = << >>
      BY <2>2, OutIs, Zenon DEF Init
    <3> QED BY <3>1, Zenon
  <2>4. ResultsFit /\ HeadersFit /\ OutFits
    BY <2>3 DEF Init, ResultsFit, HeadersFit, OutFits, Filling
  <2>5. CountInv /\ AllOut
    BY <2>3 DEF Init, CountInv, AllOut, Filling
  <2> QED BY <2>2, <2>4, <2>5 DEF OInv
<1>2. IInv /\ OInv /\ [Next]_vars => OInv'
  <2>1. SUFFICES ASSUME IInv, OInv, [Next]_vars
                 PROVE  OInv'
    OBVIOUS
  <2>2. CASE Next
    <3>1. CASE pc = "request" /\ \E s \in Skeletons : SkeletonPacket(s)
      BY <2>1, <3>1, ScheduleStep
    <3>2. CASE MasterSilent /\ EmptyPacket
      BY <2>1, <3>2, EmptyStep, Zenon
    <3>3. CASE pc = "request" /\ \E h \in Tails : TailPacket(h)
      BY <2>1, <3>3, TailStep
    <3>4. CASE Timeout \/ CancelCase \/ DroppedReturn \/ FillFail
      BY <2>1, <3>4, ErrorStep
    <3>5. CASE Forward \/ Finish \/ FillDone
      BY <2>1, <3>5, ForwardStep, FinishStep, DoneStep, Zenon
    <3>6. CASE \E p \in Peers : Answer(p)
      BY <2>1, <3>6, PacketStep, Zenon
    <3>7. CASE \/ Consume \/ Cancel \/ Wake \/ Fill
               \/ \E p \in Peers : Register(p) \/ Leave(p)
               \/ \E P \in SUBSET Peers : ExpireHeaders(P)
      BY <2>1, <3>7, IdleStep, Zenon
    <3> QED BY <2>2, <3>1, <3>2, <3>3, <3>4, <3>5, <3>6, <3>7, Zenon DEF Next, Fetcher
  <2>3. CASE UNCHANGED vars
    BY <2>1, <2>3, IdleStep
  <2> QED BY <2>1, <2>2, <2>3
<1> QED BY <1>1, <1>2, SkeletonInvariant, PTL DEF Spec

\* The processor gets the headers of filled skeletons by number, none twice and none left
\* out, from any master and whatever the order of deliveries, and the tail so from an honest
\* one; from counts what is out (DeliverHeaders, proced and from of fetchHeaders).
THEOREM SkeletonForwardedOnce == Spec => []ForwardedOnce
<1>1. OInv => ForwardedOnce
  BY Zenon DEF OInv, OutFits, Fits, CountInv, Filling, ForwardedOnce
<1> QED BY <1>1, ForwardInvariant, PTL

\* The processor gets an honest master's chain, and all of it when fetchHeaders ends
\* without an error (DeliverHeaders accepts what maps onto the skeleton).
THEOREM SkeletonOriginTrusted == Spec => []OriginTrusted
<1>1. OInv => OriginTrusted
  <2>1. SUFFICES ASSUME OInv, honest
                 PROVE  /\ Out = SubSeq(Chain, First, First + Len(Out) - 1)
                        /\ result = "nil" => First + Len(Out) = Len(Chain) + 1
    BY DEF OriginTrusted
  <2> USE ConstantFacts, <2>1
  <2>2. result = "nil" => First + Len(Out) = Len(Chain) + 1
    BY DEF OInv, AllOut
  <2> DEFINE z == Len(Out)
             e == First + z - 1
  <2>3. Out \in Seq(Headers) /\ z \in Nat
    BY OutIs, Zenon DEF OInv
  <2>4. \A i \in 1..z : First + i - 1 \in 1..Len(Chain) /\ Out[i] = Chain[First + i - 1]
    BY DEF OInv, OutFits, Fits
  <2> HIDE DEF z
  <2>5. e \in 0..Len(Chain)
    <3>1. CASE z = 0
      BY <3>1, FirstAssumption
    <3>2. CASE z # 0
      <4>1. z \in 1..z
        BY <2>3, <3>2
      <4>2. First + z - 1 \in 1..Len(Chain)
        BY <2>4, <4>1
      <4> QED BY <4>2
    <3> QED BY <2>3, <3>1, <3>2
  <2>6. Out = SubSeq(Chain, First, e)
    <3> DEFINE q == SubSeq(Chain, First, e)
    <3>1. e \in Nat /\ First \in Nat \ {0} /\ e <= Len(Chain) /\ e + 1 - First = z /\ First <= e + 1
      BY <2>3, <2>5
    <3> HIDE DEF e
    <3>2. q \in Seq(Headers) /\ Len(q) = z
      <4>1. CASE First <= e
        BY SkeletonAssumption, <2>3, <3>1, <4>1
      <4>2. CASE ~ (First <= e)
        BY <2>3, <3>1, <4>2
      <4> QED BY <4>1, <4>2, Zenon
    <3>3. ASSUME NEW i \in 1..z
          PROVE  q[i] = Out[i]
      <4>1. q[i] = Chain[First + i - 1]
        BY <2>3, <3>1, <3>2
      <4> QED BY <2>4, <4>1
    <3> HIDE DEF q
    <3>4. q = Out
      <4>1. q \in [1..z -> Headers] /\ Out \in [1..z -> Headers]
        BY <2>3, <3>2 DEF z
      <4>2. q = [i \in 1..z |-> q[i]] /\ Out = [i \in 1..z |-> Out[i]]
        BY <4>1
      <4>3. [i \in 1..z |-> q[i]] = [i \in 1..z |-> Out[i]]
        BY <3>3
      <4> QED BY <4>2, <4>3
    <3> QED BY <3>4, Zenon DEF q
  <2> QED BY <2>2, <2>6 DEF z
<1> QED BY <1>1, ForwardInvariant, PTL

(***************************************************************************)
(* Types.                                                                  *)
(***************************************************************************)

\* The pools hold numbers and skeleton headers; the wake-up is sent for the last task.
PoolsOK ==
  /\ DOMAIN headerTaskPool \subseteq Nat \ {0} /\ headerTaskQueue \subseteq Nat \ {0}
  /\ \A t \in DOMAIN headerTaskPool : headerTaskPool[t] \in Headers
  /\ headerOffset \in Nat
  /\ headerContCh \in {0, 1} /\ (headerContCh = 1 => DOMAIN headerTaskPool = {})

LocalsOK ==
  /\ ~Filling => headerProced = 0
  /\ headers \in Seq(Headers)
  /\ skeleton \in BOOLEAN /\ finished \in BOOLEAN
  /\ result \in {"none", "nil", "errCancel", "errBadPeer", "errInvalidChain"}

PeersOK ==
  /\ peers \subseteq Peers /\ fresh \subseteq Peers \ peers /\ busy \subseteq peers
  /\ cancelled \in BOOLEAN /\ honest \in BOOLEAN

\* A skeleton makes a task of each of its headers (ScheduleSkeleton).
LEMMA ScheduledPools ==
  ASSUME IInv, NEW s \in Skeletons, s # << >>, ScheduleSkeleton(from, s)
  PROVE  PoolsOK'
<1> USE ConstantFacts
<1>1. s \in Seq(Headers) /\ from \in Nat \ {0} /\ Len(s) \in Nat
  BY SkeletonList DEF IInv, TypeInv
<1>2. \A i \in 1..Len(s) : Task(from, i) \in Nat \ {0} /\ s[i] \in Headers
  <2> TAKE i \in 1..Len(s)
  <2>1. i - 1 \in Nat /\ (i - 1) * MaxHeaderFetch \in Nat
    BY <1>1, MultipleOrder
  <2> QED BY <1>1, <2>1 DEF Task
<1>3. Tasks(from, Len(s)) \subseteq Nat \ {0}
  BY <1>2, Zenon DEF Tasks
<1>4. ASSUME NEW t \in Tasks(from, Len(s))
      PROVE  s[CHOOSE i \in 1..Len(s) : Task(from, i) = t] \in Headers
  <2>1. \E i \in 1..Len(s) : Task(from, i) = t
    BY Zenon DEF Tasks
  <2>2. (CHOOSE i \in 1..Len(s) : Task(from, i) = t) \in 1..Len(s)
    BY <2>1, Zenon
  <2> QED BY <1>2, <2>2, Zenon
<1>5. /\ DOMAIN headerTaskPool' = Tasks(from, Len(s)) /\ headerTaskQueue' = Tasks(from, Len(s))
      /\ \A t \in Tasks(from, Len(s)) :
           headerTaskPool'[t] = s[CHOOSE i \in 1..Len(s) : Task(from, i) = t]
      /\ headerOffset' = from /\ headerContCh' = 0
  BY Zenon DEF ScheduleSkeleton
<1>6. DOMAIN headerTaskPool' \subseteq Nat \ {0} /\ headerTaskQueue' \subseteq Nat \ {0}
  BY <1>3, <1>5, Zenon
<1>7. \A t \in DOMAIN headerTaskPool' : headerTaskPool'[t] \in Headers
  BY <1>4, <1>5, Zenon
<1> QED BY <1>1, <1>5, <1>6, <1>7 DEF PoolsOK

\* The last task is finished once, so the wake-up is sent once (DeliverHeaders).
LEMMA DeliverPools ==
  ASSUME IInv, PoolsOK, NEW p \in Peers, NEW h, DeliverHeaders(p, h)
  PROVE  PoolsOK'
<1> DEFINE t == headerPendPool[p]
<1>1. headerOffset' = headerOffset
  BY Zenon DEF DeliverHeaders
<1>2. CASE UNCHANGED <<headerTaskPool, headerTaskQueue, headerContCh>>
  BY <1>1, <1>2, Zenon DEF PoolsOK
<1>3. CASE t \in DOMAIN headerTaskPool /\ Accept(h, t)
  <2>1. /\ DOMAIN headerTaskPool' = DOMAIN headerTaskPool \ {t}
        /\ \A u \in DOMAIN headerTaskPool \ {t} : headerTaskPool'[u] = headerTaskPool[u]
        /\ headerTaskQueue' = headerTaskQueue
        /\ headerContCh' = headerContCh + (IF Terminated(t) THEN 1 ELSE 0)
    BY <1>3, Zenon DEF Accept
  <2>2. headerContCh = 0
    BY <1>3, Zenon DEF PoolsOK
  <2>3. headerContCh' = IF DOMAIN headerTaskPool = {t} THEN 1 ELSE 0
    BY <2>1, <2>2 DEF Terminated
  <2> QED BY <1>1, <2>1, <2>3, Zenon DEF PoolsOK
<1>4. CASE t \in DOMAIN headerTaskPool /\ Refuse(p, t)
  BY <1>1, <1>4, Zenon DEF Refuse, PoolsOK
<1> QED BY <1>2, <1>3, <1>4, Zenon DEF DeliverHeaders

\* No step puts anything else into the pools, or a second message into headerContCh.
LEMMA PoolsStep == IInv /\ PoolsOK /\ [Next]_vars => PoolsOK'
<1> SUFFICES ASSUME IInv, PoolsOK, [Next]_vars
             PROVE  PoolsOK'
  OBVIOUS
<1>1. CASE UNCHANGED <<headerTaskPool, headerTaskQueue, headerContCh, headerOffset>>
  BY <1>1, Zenon DEF PoolsOK
<1>2. ASSUME NEW s \in Skeletons, SkeletonPacket(s)
      PROVE  PoolsOK'
  BY <1>1, <1>2, ScheduledPools, Zenon DEF SkeletonPacket, queueVars
<1>3. ASSUME NEW p \in Peers, Answer(p)
      PROVE  PoolsOK'
  BY <1>3, DeliverPools, Zenon DEF Answer
<1>4. ASSUME NEW p \in Peers, Assign(p)
      PROVE  PoolsOK'
  BY <1>4, Zenon DEF Assign, PoolsOK
<1>5. ASSUME NEW P \in SUBSET Peers, ExpireHeaders(P)
      PROVE  PoolsOK'
  <2>1. \A p \in P : headerPendPool[p] \in Nat \ {0}
    BY <1>5 DEF ExpireHeaders, IInv, TypeInv
  <2> QED BY <1>5, <2>1, Zenon DEF ExpireHeaders, PoolsOK
<1>6. CASE Wake
  BY <1>6 DEF Wake, PoolsOK
<1>7. CASE \/ EmptyPacket \/ Timeout \/ Forward \/ Finish \/ CancelCase \/ DroppedReturn
           \/ (\E h \in Tails : TailPacket(h)) \/ FillDone \/ FillFail
  BY <1>1, <1>7, Zenon DEF EmptyPacket, Timeout, Forward, Finish, CancelCase, DroppedReturn,
     TailPacket, FillDone, FillFail, RetrieveHeaders, queueVars
<1>8. CASE (\E p \in Peers : Register(p) \/ Leave(p)) \/ Consume \/ Cancel \/ UNCHANGED vars
  BY <1>1, <1>8, Zenon DEF Register, Leave, Consume, Cancel, vars, queueVars
<1> QED BY <1>2, <1>3, <1>4, <1>5, <1>6, <1>7, <1>8, Zenon DEF Next, Fetcher, Fill

\* The local variables of fetchHeaders; headers holds no empty place (HeadersFit).
LEMMA LocalsStep ==
  IInv /\ OInv /\ LocalsOK /\ [Next]_vars /\ IInv' /\ OInv' => LocalsOK'
<1> SUFFICES ASSUME IInv, OInv, LocalsOK, [Next]_vars, IInv', OInv'
             PROVE  LocalsOK'
  OBVIOUS
<1> DEFINE Results == {"none", "nil", "errCancel", "errBadPeer", "errInvalidChain"}
<1>1. NoPanic'
  BY Zenon DEF IInv, EndInv
<1>2. CASE \/ Timeout \/ Forward \/ Finish \/ CancelCase \/ DroppedReturn \/ FillDone \/ FillFail \/ Wake
           \/ Fill \/ EmptyPacket \/ (\E h \in Tails : TailPacket(h))
           \/ (\E s \in Skeletons : SkeletonPacket(s)) \/ (\E p \in Peers : Answer(p))
  <2>1. result' = result \/ result' \in Results
    BY <1>1, <1>2, Zenon DEF Timeout, Forward, Finish, CancelCase, DroppedReturn, FillDone, FillFail,
       Wake, Fill, Assign, EmptyPacket, TailPacket, SkeletonPacket, Answer, DeliverHeaders, Return, NoPanic,
       localVars
  <2>2. /\ skeleton' = skeleton \/ skeleton' = FALSE
        /\ finished' = finished \/ finished' \in BOOLEAN
    BY <1>2, Zenon DEF Timeout, Forward, Finish, CancelCase, DroppedReturn, FillDone, FillFail,
       Wake, Fill, Assign, EmptyPacket, TailPacket, SkeletonPacket, Answer, DeliverHeaders, localVars
  <2>3. ~Filling' => headerProced' = 0
    BY <1>1, <1>2, Zenon DEF LocalsOK, Filling, Timeout, Forward, Finish, CancelCase, DroppedReturn, FillDone,
       FillFail, Wake, Fill, Assign, EmptyPacket, TailPacket, SkeletonPacket, Answer, DeliverHeaders,
       RetrieveHeaders, Return, NoPanic, queueVars, localVars
  <2>4. headers' = headers \/ headers' = << >> \/ pc' = "forward"
    BY <1>2, Zenon DEF Timeout, Forward, Finish, CancelCase, DroppedReturn, FillDone, FillFail,
       Wake, Fill, Assign, EmptyPacket, TailPacket, SkeletonPacket, Answer, DeliverHeaders, localVars
  <2>5. ASSUME pc' = "forward"
        PROVE  headers' \in Seq(Headers)
    <3>1. headers' \in Seq(Headers \cup {Nil})
      BY Zenon DEF IInv, TypeInv
    <3>2. \A i \in 1..Len(headers') : headers'[i] \in Headers
      BY <2>5, Zenon DEF OInv, HeadersFit, Fits
    <3> QED BY <3>1, <3>2
  <2>6. headers' \in Seq(Headers)
    <3>1. headers \in Seq(Headers)
      BY Zenon DEF LocalsOK
    <3>2. << >> \in Seq(Headers)
      OBVIOUS
    <3> QED BY <2>4, <2>5, <3>1, <3>2, Zenon
  <2> QED BY <2>1, <2>2, <2>3, <2>6, Zenon DEF LocalsOK
<1>3. CASE \/ (\E p \in Peers : Register(p) \/ Leave(p)) \/ Consume \/ Cancel \/ UNCHANGED vars
           \/ (\E P \in SUBSET Peers : ExpireHeaders(P))
  <2>1. UNCHANGED localVars /\ headerProced' = headerProced
    BY <1>3, Zenon DEF Register, Leave, Consume, Cancel, ExpireHeaders, vars, queueVars
  <2> QED BY <2>1, Zenon DEF LocalsOK, localVars, Filling
<1> QED BY <1>2, <1>3, Zenon DEF Next, Fetcher

\* A flag is set only for a registered peer, and cleared when it is unregistered.
LEMMA PeersStep == PeersOK /\ [Next]_vars => PeersOK'
<1> SUFFICES ASSUME PeersOK, [Next]_vars
             PROVE  PeersOK'
  OBVIOUS
<1>1. CASE UNCHANGED peerVars
  BY <1>1, Zenon DEF PeersOK, peerVars
<1>2. ASSUME NEW P, UnregisterPeers(P)
      PROVE  PeersOK'
  <2>1. (cancelled \/ Master \in P) \in BOOLEAN
    OBVIOUS
  <2> QED BY <1>2, <2>1, Zenon DEF UnregisterPeers, PeersOK
<1>3. ASSUME NEW p \in Peers, Assign(p)
      PROVE  PeersOK'
  BY <1>3, Zenon DEF Assign, PeersOK
<1>4. ASSUME NEW p \in Peers, Answer(p)
      PROVE  PeersOK'
  BY <1>4, Zenon DEF Answer, DeliverHeaders, PeersOK
<1>5. ASSUME NEW p \in Peers, Register(p)
      PROVE  PeersOK'
  BY <1>5, Zenon DEF Register, PeersOK
<1>6. CASE Cancel
  BY <1>6, Zenon DEF Cancel, PeersOK
<1>7. CASE \/ EmptyPacket \/ Forward \/ Finish \/ CancelCase \/ DroppedReturn
           \/ (\E h \in Tails : TailPacket(h)) \/ (\E s \in Skeletons : SkeletonPacket(s))
           \/ FillDone \/ FillFail \/ Wake \/ Consume \/ UNCHANGED vars
  BY <1>1, <1>7, Zenon DEF EmptyPacket, Forward, Finish, CancelCase, DroppedReturn, TailPacket,
     SkeletonPacket, FillDone, FillFail, Wake, Consume, vars
<1>8. CASE Timeout \/ (\E p \in Peers : Leave(p)) \/ (\E P \in SUBSET Peers : ExpireHeaders(P))
  BY <1>2, <1>8, Zenon DEF Timeout, Leave, ExpireHeaders
<1> QED BY <1>3, <1>4, <1>5, <1>6, <1>7, <1>8, Zenon DEF Next, Fetcher, Fill

\* Every variable of the skeleton keeps its type, and headerContCh and headerProcCh never
\* hold more than they have room for (DeliverHeaders sends with the queue locked).
THEOREM SkeletonTypes == Spec => []TypeOK
<1>1. Init => PoolsOK /\ LocalsOK /\ PeersOK
  <2> SUFFICES ASSUME Init
               PROVE  PoolsOK /\ LocalsOK /\ PeersOK
    OBVIOUS
  <2>1. DOMAIN headerTaskPool = {}
    BY DEF Init
  <2>2. PoolsOK
    BY <2>1 DEF Init, PoolsOK
  <2>3. << >> \in Seq(Headers)
    OBVIOUS
  <2>4. LocalsOK
    BY <2>3, Zenon DEF Init, LocalsOK
  <2>5. PeersOK
    BY Zenon DEF Init, PeersOK
  <2> QED BY <2>2, <2>4, <2>5
<1>2. IInv /\ OInv /\ PoolsOK /\ LocalsOK /\ PeersOK => TypeOK
  <2> SUFFICES ASSUME IInv, OInv, PoolsOK, LocalsOK, PeersOK
               PROVE  TypeOK
    OBVIOUS
  <2>1. headerProced \in 0..Len(headerResults)
    <3>1. headerResults \in Seq(Headers \cup {Nil}) /\ headerProced \in Nat
      BY Zenon DEF IInv, TypeInv
    <3>2. headerProced <= Len(headerResults)
      <4>1. CASE Filling
        BY <4>1, Zenon DEF IInv, GridInv
      <4>2. CASE ~Filling
        <5>1. headerProced = 0
          BY <4>2, Zenon DEF LocalsOK
        <5> QED BY <3>1, <5>1
      <4> QED BY <4>1, <4>2
    <3> QED BY <3>1, <3>2
  <2>2. headerProcCh \in Seq(Seq(Headers)) /\ Len(headerProcCh) <= 1 /\ consumed \in Seq(Headers)
    <3>1. consumed \in Seq(Headers)
      BY Zenon DEF OInv, ChanInv
    <3>2. CASE headerProcCh = << >>
      BY <3>1, <3>2
    <3>3. ASSUME NEW b \in Seq(Headers), headerProcCh = <<b>>
          PROVE  headerProcCh \in Seq(Seq(Headers)) /\ Len(headerProcCh) <= 1
      BY <3>3
    <3> QED BY <3>1, <3>2, <3>3, Zenon DEF OInv, ChanInv
  <2>3. headerContCh \in 0..1 /\ from \in Nat
    BY DEF PoolsOK, IInv, TypeInv
  <2> QED BY <2>1, <2>2, <2>3, Zenon DEF IInv, TypeInv, PoolsOK, LocalsOK, PeersOK, TypeOK
<1> QED BY <1>1, <1>2, SkeletonInvariant, ForwardInvariant, PoolsStep, LocalsStep, PeersStep, PTL DEF Spec
=============================================================================
