----------------------- MODULE OrderedDeliveryProofs -----------------------
(***************************************************************************)
(* The download scheduler implements the ordered channel, for every set of  *)
(* peers and headers and every size of the caches.                          *)
(***************************************************************************)
EXTENDS DownloadQueueProofs, SequenceTheorems

(***************************************************************************)
(* A sequence that agrees with a prefix of another is that prefix: what     *)
(* Schedule leaves of the blocks awaited before.                            *)
(***************************************************************************)
LEMMA IsPrefix ==
  ASSUME NEW S, NEW s \in Seq(S), NEW t \in Seq(S), NEW n \in 0 .. Len(t),
         Len(s) = n, \A i \in 1 .. n : s[i] = t[i]
  PROVE  s = SubSeq(t, 1, n)
<1>1. \A i \in 1 .. n : t[i] \in S
  OBVIOUS
<1>2. /\ SubSeq(t, 1, n) \in Seq(S) /\ Len(SubSeq(t, 1, n)) = n
      /\ \A i \in 1 .. n : SubSeq(t, 1, n)[i] = t[i]
  BY <1>1, SubSeqProperties
<1>. QED BY <1>2, SeqEqual

(***************************************************************************)
(* One that agrees with the rest after n members is that rest: what Results *)
(* leaves.                                                                  *)
(***************************************************************************)
LEMMA IsRest ==
  ASSUME NEW S, NEW s \in Seq(S), NEW t \in Seq(S), NEW n \in 0 .. Len(t),
         Len(s) = Len(t) - n, \A i \in 1 .. Len(s) : s[i] = t[n + i]
  PROVE  s = SubSeq(t, n + 1, Len(t))
<1>. DEFINE u == SubSeq(t, n + 1, Len(t))
<1>0. n \in Nat /\ Len(t) \in Nat
  OBVIOUS
<1>1. \A i \in n + 1 .. Len(t) : t[i] \in S
  BY <1>0
<1>2. /\ u \in Seq(S) /\ Len(u) = IF n + 1 <= Len(t) THEN Len(t) - (n + 1) + 1 ELSE 0
      /\ \A i \in 1 .. Len(t) - (n + 1) + 1 : u[i] = t[(n + 1) + i - 1]
  BY <1>0, <1>1, SubSeqProperties
<1>. HIDE DEF u
<1>3. Len(u) = Len(s)
  BY <1>0, <1>2
<1>3a. ASSUME NEW i \in 1 .. Len(s) PROVE u[i] = s[i]
  <2>1. i \in 1 .. Len(t) - (n + 1) + 1 /\ (n + 1) + i - 1 = n + i
    BY <1>0
  <2>2. u[i] = t[(n + 1) + i - 1]
    BY <1>2, <2>1
  <2>. QED BY <2>1, <2>2
<1>4. s = u
  BY <1>2, <1>3, <1>3a, SeqEqual
<1>. QED BY <1>4 DEF u

(***************************************************************************)
(* One that agrees with two others in turn is their concatenation: what     *)
(* Results appends.                                                         *)
(***************************************************************************)
LEMMA IsConcat ==
  ASSUME NEW S, NEW s \in Seq(S), NEW t \in Seq(S), NEW u \in Seq(S),
         Len(u) = Len(s) + Len(t),
         \A i \in 1 .. Len(s) : u[i] = s[i],
         \A i \in 1 .. Len(t) : u[Len(s) + i] = t[i]
  PROVE  u = s \o t
<1>1. /\ s \o t \in Seq(S) /\ Len(s \o t) = Len(s) + Len(t)
      /\ \A i \in 1 .. Len(s) + Len(t) :
           (s \o t)[i] = IF i <= Len(s) THEN s[i] ELSE t[i - Len(s)]
  BY ConcatProperties
<1>2. ASSUME NEW i \in 1 .. Len(u) PROVE u[i] = (s \o t)[i]
  <2>1. CASE i <= Len(s)
    BY <1>1, <2>1
  <2>2. CASE ~(i <= Len(s))
    <3>1. i - Len(s) \in 1 .. Len(t) /\ Len(s) + (i - Len(s)) = i
      BY <2>2
    <3>. QED BY <1>1, <2>2, <3>1
  <2>. QED BY <2>1, <2>2
<1>. QED BY <1>1, <1>2, SeqEqual

(***************************************************************************)
(* Awaited lists, for any window of numbers the scheduled headers cover     *)
(* once each, exactly those headers in number order.                        *)
(***************************************************************************)
LEMMA WindowFacts ==
  ASSUME NEW S \in SUBSET Headers, NEW lo \in Nat, NEW hi \in Nat, lo <= hi,
         \A g, h \in S : Number[g] = Number[h] => g = h,
         \A n \in lo .. hi - 1 : \E h \in S : Number[h] = n,
         NEW w, w = [i \in 1 .. hi - lo |-> CHOOSE h \in S : Number[h] = lo + i - 1]
  PROVE  /\ w \in Seq(Headers) /\ Len(w) = hi - lo
         /\ \A i \in 1 .. hi - lo : w[i] \in S /\ Number[w[i]] = lo + i - 1
         /\ \A i \in 1 .. hi - lo : \A h \in S : Number[h] = lo + i - 1 => w[i] = h
<1>1. ASSUME NEW i \in 1 .. hi - lo
      PROVE  w[i] \in S /\ Number[w[i]] = lo + i - 1
  <2>1. lo + i - 1 \in lo .. hi - 1
    OBVIOUS
  <2>2. PICK h \in S : Number[h] = lo + i - 1
    BY <2>1
  <2>. QED BY <2>2
<1>2. w \in Seq(Headers) /\ Len(w) = hi - lo
  <2>1. w \in [1 .. hi - lo -> Headers] /\ hi - lo \in Nat
    BY <1>1
  <2>. QED BY <2>1
<1>. QED BY <1>1, <1>2

(***************************************************************************)
(* The same of the two sequences of the refinement mapping.                 *)
(***************************************************************************)
MappingFacts ==
  /\ origin \in Nat /\ resultOffset \in Nat /\ resultOffset <= origin
  /\ Awaited \in Seq(Headers) /\ Len(Awaited) = origin - resultOffset
  /\ \A i \in 1 .. origin - resultOffset :
       Awaited[i] \in scheduled /\ Number[Awaited[i]] = resultOffset + i - 1
  /\ \A i \in 1 .. origin - resultOffset : \A h \in scheduled :
       Number[h] = resultOffset + i - 1 => Awaited[i] = h
  /\ Len(delivered) \in Nat
  /\ HandedOut \in Seq(Headers) /\ Len(HandedOut) = Len(delivered)
  /\ \A i \in 1 .. Len(delivered) :
       /\ HandedOut[i] \in scheduled
       /\ Number[HandedOut[i]] = resultOffset - Len(delivered) + i - 1

(***************************************************************************)
(* The facts follow from the inductive invariant of the scheduler.          *)
(***************************************************************************)
LEMMA Mapping == IndInv => MappingFacts
<1>. SUFFICES ASSUME IndInv PROVE MappingFacts
  OBVIOUS
<1>1. /\ origin \in Nat /\ resultOffset \in Nat /\ resultOffset <= origin
      /\ scheduled \in SUBSET Headers /\ delivered \in Seq(fetchResult)
      /\ \A g, h \in scheduled : Number[g] = Number[h] => g = h
      /\ \A n \in resultOffset .. origin - 1 : \E h \in scheduled : Number[h] = n
  BY Zenon DEF IndInv, TypeOK, ScheduledChain
<1>2. Awaited = [i \in 1 .. origin - resultOffset |->
                   CHOOSE h \in scheduled : Number[h] = resultOffset + i - 1]
  BY DEF Awaited
<1>3. /\ Awaited \in Seq(Headers) /\ Len(Awaited) = origin - resultOffset
      /\ \A i \in 1 .. origin - resultOffset :
           Awaited[i] \in scheduled /\ Number[Awaited[i]] = resultOffset + i - 1
      /\ \A i \in 1 .. origin - resultOffset : \A h \in scheduled :
           Number[h] = resultOffset + i - 1 => Awaited[i] = h
  <2>. HIDE DEF Awaited
  <2>. QED BY <1>1, <1>2, WindowFacts
<1>4. /\ Len(delivered) \in Nat /\ DOMAIN delivered = 1 .. Len(delivered)
      /\ \A i \in 1 .. Len(delivered) : delivered[i].hash \in Headers
  <2>1. delivered \in Seq(fetchResult)
    BY Zenon, <1>1
  <2>2. /\ Len(delivered) \in Nat /\ DOMAIN delivered = 1 .. Len(delivered)
        /\ \A i \in 1 .. Len(delivered) : delivered[i] \in fetchResult
    BY <2>1
  <2>. QED BY <2>2 DEF fetchResult
<1>5. \A i \in 1 .. Len(delivered) : HandedOut[i] = delivered[i].hash
  BY DEF HandedOut
<1>6. HandedOut \in Seq(Headers) /\ Len(HandedOut) = Len(delivered)
  <2>1. HandedOut \in [1 .. Len(delivered) -> Headers]
    BY <1>4 DEF HandedOut
  <2>. QED BY <1>4, <2>1
<1>7. \A i \in 1 .. Len(delivered) :
        /\ HandedOut[i] \in scheduled
        /\ Number[HandedOut[i]] = resultOffset - Len(delivered) + i - 1
  BY Zenon, <1>4, <1>5 DEF IndInv, DeliveredScheduled, DeliveredInOrder
<1>. QED BY Zenon, <1>1, <1>3, <1>4, <1>6, <1>7 DEF MappingFacts

(***************************************************************************)
(* The blocks handed out and those still awaited are one chain.             *)
(***************************************************************************)
LEMMA MappingLinked ==
  IndInv => Delivery!Linked(HandedOut \o Awaited)
<1>. SUFFICES ASSUME IndInv PROVE Delivery!Linked(HandedOut \o Awaited)
  OBVIOUS
<1>. DEFINE d == Len(delivered)
            w == origin - resultOffset
            s == HandedOut \o Awaited
<1>1. MappingFacts
  BY Mapping
<1>2. d \in Nat /\ w \in Nat /\ resultOffset \in Nat
  BY <1>1 DEF MappingFacts
<1>3. /\ Len(s) = d + w
      /\ \A i \in 1 .. d : s[i] = HandedOut[i]
      /\ \A i \in 1 .. w : s[d + i] = Awaited[i]
  <2>1. HandedOut \in Seq(Headers) /\ Awaited \in Seq(Headers) /\ Len(HandedOut) = d /\ Len(Awaited) = w
    BY Zenon, <1>1 DEF MappingFacts
  <2>. QED BY <1>2, <2>1
<1>4. \A i \in 1 .. d + w : s[i] \in scheduled /\ Number[s[i]] = resultOffset - d + i - 1
  <2>. SUFFICES ASSUME NEW i \in 1 .. d + w
                PROVE  s[i] \in scheduled /\ Number[s[i]] = resultOffset - d + i - 1
    BY Zenon
  <2>. HIDE DEF s
  <2>1. CASE i <= d
    <3>1. i \in 1 .. d
      BY <1>2, <2>1
    <3>. QED BY Zenon, <1>1, <1>3, <3>1 DEF MappingFacts
  <2>2. CASE ~(i <= d)
    <3>1. i - d \in 1 .. w /\ d + (i - d) = i
      BY <1>2, <2>2
    <3>2. s[d + (i - d)] = Awaited[i - d]
      BY Zenon, <1>3, <3>1
    <3>3. Awaited[i - d] \in scheduled /\ Number[Awaited[i - d]] = resultOffset + (i - d) - 1
      BY Zenon, <1>1, <3>1 DEF MappingFacts
    <3>. QED BY <1>2, <3>1, <3>2, <3>3
  <2>. QED BY <2>1, <2>2
<1>. HIDE DEF s
<1>5. ASSUME NEW i \in 1 .. Len(s) - 1 PROVE Parent[s[i + 1]] = s[i]
  <2>1. i \in 1 .. d + w /\ i + 1 \in 1 .. d + w
    BY <1>2, <1>3
  <2>2. /\ s[i] \in scheduled /\ Number[s[i]] = resultOffset - d + i - 1
        /\ s[i + 1] \in scheduled /\ Number[s[i + 1]] = resultOffset - d + (i + 1) - 1
    BY Zenon, <1>4, <2>1
  <2>3. Number[s[i + 1]] = Number[s[i]] + 1
    BY <1>2, <2>2
  <2>. QED BY Zenon, <2>2, <2>3 DEF IndInv, ScheduledChain
<1>. QED BY Zenon, <1>5 DEF Delivery!Linked, s

(***************************************************************************)
(* They hold after a step of the scheduler as well.                         *)
(***************************************************************************)
LEMMA MappingNext ==
  IndInv' => MappingFacts' /\ Delivery!Linked(HandedOut' \o Awaited')
<1>1. IndInv => MappingFacts /\ Delivery!Linked(HandedOut \o Awaited)
  BY Mapping, MappingLinked
<1>2. IndInv' => (MappingFacts /\ Delivery!Linked(HandedOut \o Awaited))'
  BY <1>1, PTL
<1>. QED BY <1>2

(***************************************************************************)
(* A step that touches neither end of the channel is a stutter.             *)
(***************************************************************************)
LEMMA QuietStep ==
  ASSUME UNCHANGED <<origin, resultOffset, scheduled, delivered>>
  PROVE  UNCHANGED Delivery!vars
BY DEF Delivery!vars, Awaited, HandedOut

(***************************************************************************)
(* Schedule is Accept: what was awaited stays in its place.                 *)
(***************************************************************************)
LEMMA ScheduleAccepts ==
  ASSUME IndInv, IndInv', NEW chunk \in Chunks, Schedule(chunk)
  PROVE  [Delivery!Next]_Delivery!vars
<1>1. PICK n \in 0 .. Len(chunk) :
        /\ scheduled' = scheduled \cup {chunk[i] : i \in 1 .. n}
        /\ origin' = origin + n
  BY Zenon DEF Schedule
<1>2. resultOffset' = resultOffset /\ delivered' = delivered
  BY Zenon DEF Schedule, cacheVars
<1>3. chunk \in Seq(Headers) /\ n \in Nat
  BY CountAssumption DEF Chunks
<1>4. CASE n = 0
  <2>1. scheduled' = scheduled /\ origin' = origin
    BY <1>1, <1>4 DEF IndInv, TypeOK
  <2>. QED BY Zenon, <1>2, <2>1, QuietStep
<1>5. CASE n > 0
  <2>1. MappingFacts /\ MappingFacts' /\ Delivery!Linked(HandedOut' \o Awaited')
    BY Zenon, Mapping, MappingNext
  <2>2. HandedOut' = HandedOut
    BY Zenon, <1>2 DEF HandedOut
  <2>3. /\ Awaited \in Seq(Headers) /\ Len(Awaited) = origin - resultOffset
        /\ Awaited' \in Seq(Headers) /\ Len(Awaited') = origin + n - resultOffset
        /\ origin \in Nat /\ resultOffset \in Nat /\ resultOffset <= origin
    <3>1. /\ Awaited \in Seq(Headers) /\ Len(Awaited) = origin - resultOffset
          /\ Awaited' \in Seq(Headers) /\ Len(Awaited') = origin' - resultOffset'
          /\ origin \in Nat /\ resultOffset \in Nat /\ resultOffset <= origin
      BY Zenon, <2>1 DEF MappingFacts
    <3>2. Len(Awaited') = origin + n - resultOffset
      BY <1>1, <1>2, <3>1
    <3>. QED BY Zenon, <3>1, <3>2
  <2>4. ASSUME NEW i \in 1 .. Len(Awaited) PROVE Awaited'[i] = Awaited[i]
    <3>1. i \in 1 .. origin - resultOffset /\ i \in 1 .. origin' - resultOffset'
      BY <1>1, <1>2, <1>3, <2>3
    <3>2. Awaited[i] \in scheduled' /\ Number[Awaited[i]] = resultOffset' + i - 1
      BY Zenon, <1>1, <1>2, <2>1, <3>1 DEF MappingFacts
    <3>. QED BY Zenon, <2>1, <3>1, <3>2 DEF MappingFacts
  <2>5. SubSeq(Awaited', 1, Len(Awaited)) = Awaited
    <3>1. Len(Awaited) \in 0 .. Len(Awaited')
      BY <1>3, <2>3
    <3>. QED BY <2>3, <2>4, <3>1, IsPrefix
  <2>6. Len(Awaited') > Len(Awaited)
    BY <1>3, <1>5, <2>3
  <2>7. Delivery!Accept
    BY Zenon, <2>1, <2>2, <2>3, <2>5, <2>6 DEF Delivery!Accept
  <2>. QED BY Zenon, <2>7 DEF Delivery!Next
<1>. QED BY <1>3, <1>4, <1>5

(***************************************************************************)
(* Results is Hand: the results taken are the first ones awaited.           *)
(***************************************************************************)
LEMMA ResultsHands ==
  ASSUME IndInv, IndInv', ResultsTake
  PROVE  Delivery!Next
<1>1. PICK n \in 1 .. CacheItems :
        LET r == Smaller(n, MaxResults)
        IN /\ delivered' = delivered \o [i \in 1 .. r |-> resultCache[i - 1]]
           /\ resultOffset' = resultOffset + r
  BY Zenon DEF ResultsTake
<1>. DEFINE r == Smaller(n, MaxResults)
            d == Len(delivered)
            taken == [i \in 1 .. r |-> resultCache[i - 1]]
<1>2. r \in Nat \ {0}
  BY CountAssumption DEF Smaller
<1>3. scheduled' = scheduled /\ origin' = origin
  BY Zenon DEF ResultsTake, headVars
<1>4. MappingFacts /\ MappingFacts'
  BY Zenon, Mapping, MappingNext
<1>. HIDE DEF r
<1>5. /\ d \in Nat /\ origin \in Nat /\ resultOffset \in Nat
      /\ resultOffset' = resultOffset + r /\ resultOffset + r <= origin
      /\ Awaited \in Seq(Headers) /\ Len(Awaited) = origin - resultOffset
      /\ Awaited' \in Seq(Headers) /\ Len(Awaited') = origin - resultOffset'
      /\ HandedOut \in Seq(Headers) /\ Len(HandedOut) = d
      /\ HandedOut' \in Seq(Headers) /\ Len(HandedOut') = Len(delivered')
  BY Zenon, <1>1, <1>3, <1>4 DEF MappingFacts, r
<1>6. /\ Len(delivered') = d + r
      /\ \A i \in 1 .. d : delivered'[i] = delivered[i]
  <2>. DEFINE S == {resultCache[i - 1] : i \in 1 .. r} \cup fetchResult
  <2>1. taken \in [1 .. r -> S] /\ r \in Nat
    BY <1>2
  <2>2. delivered \in Seq(fetchResult) /\ delivered' = delivered \o taken
    BY Zenon, <1>1 DEF IndInv, TypeOK, r
  <2>. HIDE DEF taken, S
  <2>3. taken \in Seq(S) /\ Len(taken) = r
    BY <2>1
  <2>4. delivered \in Seq(S)
    <3>1. \A i \in 1 .. Len(delivered) : delivered[i] \in S
      BY <2>2 DEF S
    <3>. QED BY <2>2, <3>1
  <2>5. /\ Len(delivered \o taken) = d + r
        /\ \A i \in 1 .. d + r : (delivered \o taken)[i] =
             IF i <= d THEN delivered[i] ELSE taken[i - d]
    BY Zenon, <2>3, <2>4, ConcatProperties
  <2>. QED BY <1>5, <2>1, <2>2, <2>5
<1>6a. /\ d \in Nat /\ origin \in Nat /\ resultOffset \in Nat
       /\ resultOffset' = resultOffset + r /\ resultOffset + r <= origin
       /\ Len(delivered') = d + r
  BY Zenon, <1>5, <1>6
<1>7. ASSUME NEW i \in 1 .. r PROVE Awaited[i] = HandedOut'[d + i]
  <2>1. d + i \in 1 .. Len(delivered') /\ i \in 1 .. origin - resultOffset
    BY <1>2, <1>6a
  <2>2. /\ HandedOut'[d + i] \in scheduled
        /\ Number[HandedOut'[d + i]] = resultOffset' - Len(delivered') + (d + i) - 1
    BY Zenon, <1>3, <1>4, <2>1 DEF MappingFacts
  <2>3. Number[HandedOut'[d + i]] = resultOffset + i - 1
    <3>1. resultOffset' - Len(delivered') + (d + i) - 1 = resultOffset + i - 1
      BY <1>2, <1>6a
    <3>. QED BY Zenon, <2>2, <3>1
  <2>. QED BY Zenon, <1>4, <2>1, <2>2, <2>3 DEF MappingFacts
<1>8. ASSUME NEW i \in 1 .. d PROVE HandedOut'[i] = HandedOut[i]
  <2>1. i \in 1 .. Len(delivered')
    BY <1>2, <1>6a
  <2>. QED BY Zenon, <1>6, <2>1 DEF HandedOut
<1>9. ASSUME NEW i \in 1 .. Len(Awaited') PROVE Awaited'[i] = Awaited[r + i]
  <2>1. i \in 1 .. origin' - resultOffset' /\ r + i \in 1 .. origin - resultOffset
    BY <1>2, <1>3, <1>5
  <2>2. Awaited'[i] \in scheduled /\ Number[Awaited'[i]] = resultOffset' + i - 1
    BY Zenon, <1>3, <1>4, <2>1 DEF MappingFacts
  <2>3. Number[Awaited'[i]] = resultOffset + (r + i) - 1
    <3>1. resultOffset' + i - 1 = resultOffset + (r + i) - 1
      BY <1>2, <1>6a, <2>1
    <3>. QED BY Zenon, <2>2, <3>1
  <2>. QED BY Zenon, <1>4, <2>1, <2>2, <2>3 DEF MappingFacts
<1>10. HandedOut' = HandedOut \o SubSeq(Awaited, 1, r)
  <2>. DEFINE p == SubSeq(Awaited, 1, r)
  <2>1. \A i \in 1 .. r : Awaited[i] \in Headers
    BY <1>2, <1>5
  <2>2. /\ p \in Seq(Headers) /\ Len(p) = r
        /\ \A i \in 1 .. r : p[i] = Awaited[i]
    BY <1>2, <2>1, SubSeqProperties
  <2>. HIDE DEF p
  <2>3. \A i \in 1 .. Len(p) : HandedOut'[Len(HandedOut) + i] = p[i]
    BY Zenon, <1>5, <1>7, <2>2
  <2>4. HandedOut' = HandedOut \o p
    <3>1. /\ Len(HandedOut') = Len(HandedOut) + Len(p)
          /\ \A i \in 1 .. Len(HandedOut) : HandedOut'[i] = HandedOut[i]
      BY Zenon, <1>5, <1>6, <1>8, <2>2
    <3>2. HandedOut \in Seq(Headers) /\ HandedOut' \in Seq(Headers)
      BY Zenon, <1>5
    <3>. QED BY Zenon, <2>2, <2>3, <3>1, <3>2, IsConcat
  <2>. QED BY <2>4 DEF p
<1>11. Awaited' = SubSeq(Awaited, r + 1, Len(Awaited))
  <2>1. r \in 0 .. Len(Awaited) /\ Len(Awaited') = Len(Awaited) - r
    BY <1>2, <1>5
  <2>2. Awaited \in Seq(Headers) /\ Awaited' \in Seq(Headers)
    BY Zenon, <1>5
  <2>. QED BY Zenon, <1>9, <2>1, <2>2, IsRest
<1>12. r \in 1 .. Len(Awaited)
  BY <1>2, <1>5
<1>. QED BY Zenon, <1>10, <1>11, <1>12 DEF Delivery!Next, Delivery!Hand

(***************************************************************************)
(* The scheduler, with its pools, requests, result cache and memory         *)
(* allowance, implements the ordered channel, for every set of peers and    *)
(* headers and every size of the caches: queue.Schedule is its input,       *)
(* queue.Results its output and every other method an internal step.        *)
(***************************************************************************)
THEOREM ImplementsOrderedDelivery == Spec => DeliversInOrder
<1>1. Init => Delivery!Init
  <2>. SUFFICES ASSUME Init PROVE Delivery!Init
    OBVIOUS
  <2>1. origin = resultOffset /\ origin \in Nat /\ delivered = << >>
    BY HeaderAssumption DEF Init, Origins
  <2>2. Awaited = << >>
    BY <2>1 DEF Awaited
  <2>3. HandedOut = << >>
    BY <2>1 DEF HandedOut
  <2>. QED BY <2>2, <2>3 DEF Delivery!Init
<1>2. IndInv /\ IndInv' /\ [Next]_vars => [Delivery!Next]_Delivery!vars
  <2>. SUFFICES ASSUME IndInv, IndInv', [Next]_vars PROVE [Delivery!Next]_Delivery!vars
    OBVIOUS
  <2>1. ASSUME NEW o \in Origins, NEW m \in Modes, NewSync(o, m) PROVE Delivery!Restart
    <3>1. origin' = o /\ resultOffset' = o /\ o \in Nat /\ delivered' = << >>
      BY <2>1, HeaderAssumption DEF NewSync, Origins
    <3>2. Awaited' = << >>
      <4>1. origin' - resultOffset' = 0
        BY <3>1
      <4>. QED BY <4>1 DEF Awaited
    <3>3. HandedOut' = << >>
      BY <3>1 DEF HandedOut
    <3>. QED BY <3>2, <3>3 DEF Delivery!Restart
  <2>2. ASSUME NEW chunk \in Chunks, Schedule(chunk) PROVE [Delivery!Next]_Delivery!vars
    BY Zenon, <2>2, ScheduleAccepts
  <2>3. CASE ResultsTake
    BY Zenon, <2>3, ResultsHands
  <2>4. ASSUME NEW k \in Kinds, NEW p \in Peers, NEW c \in 1 .. MaxCount, Reserve(k, p, c)
        PROVE  UNCHANGED <<origin, resultOffset, scheduled, delivered>>
    BY <2>4 DEF Reserve, headVars
  <2>5. ASSUME NEW k \in Kinds, NEW P \in SUBSET Peers, Expire(k, P)
        PROVE  UNCHANGED <<origin, resultOffset, scheduled, delivered>>
    BY <2>5 DEF Expire, headVars, cacheVars
  <2>6. ASSUME NEW p \in Peers, Revoke(p)
        PROVE  UNCHANGED <<origin, resultOffset, scheduled, delivered>>
    BY <2>6 DEF Revoke, headVars, cacheVars
  <2>7. ASSUME NEW k \in Kinds, NEW p \in Peers, NEW empty \in BOOLEAN,
               NEW match \in Prefixes(pendPool[k][p]), Deliver(k, p, match, empty)
        PROVE  UNCHANGED <<origin, resultOffset, scheduled, delivered>>
    BY <2>7 DEF Deliver, headVars
  <2>8. Close \/ ResultsWait \/ ResultsEmpty \/ UNCHANGED vars =>
          UNCHANGED <<origin, resultOffset, scheduled, delivered>>
    BY DEF Close, ResultsWait, ResultsEmpty, vars, headVars, cacheVars
  <2>. QED BY Zenon, <2>1, <2>2, <2>3, <2>4, <2>5, <2>6, <2>7, <2>8, QuietStep DEF Next, Delivery!Next
<1>. QED BY <1>1, <1>2, Invariance, PTL DEF Spec, DeliversInOrder, Delivery!Spec
=============================================================================
