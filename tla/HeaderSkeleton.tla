--------------------------- MODULE HeaderSkeleton ---------------------------
(***************************************************************************)
(* The download of headers: fetchHeaders asks the master peer for a         *)
(* skeleton, every MaxHeaderFetch-th header, and has all peers fill the     *)
(* gaps (fillHeaderSkeleton, eth/downloader/downloader.go) with the header  *)
(* pools of the queue (eth/downloader/queue.go); the tail of the chain is   *)
(* fetched from the master directly.  Finished headers go to the header     *)
(* processor, during the filling by a send that does not block, after it by *)
(* one that does.                                                           *)
(*                                                                         *)
(* One goroutine runs fetchHeaders, fillHeaderSkeleton and the fetchParts   *)
(* loop inside it; beside it are the processor, peers that come and go, and *)
(* the cancellation.  A header stands for its own hash.                     *)
(***************************************************************************)
EXTENDS Integers, Sequences, FiniteSets

CONSTANTS
  Peers,
  Master,           \* the peer the synchronisation was started with
  Chain,            \* the chain an honest master serves: Chain[n] has number n
  Headers,          \* every header some peer may send
  Number,           \* Number[h]: its block number
  Parent,           \* Parent[h]: its parent, a header or NoHeader
  NoHeader,
  Nil,              \* an empty place of headerResults
  First,            \* the first header to fetch, after an ancestor on the master's chain
  MaxHeaderFetch,   \* headers per request
  MaxSkeleton,      \* headers per skeleton (MaxSkeletonSize)
  HeaderDelay,      \* reorgProtHeaderDelay: headers held back near the head
  ForeignTails,     \* the tails a dishonest master may send: any lists of headers
  MaxFrom           \* the bound on from up to which it sends them

ASSUME SkeletonAssumption ==
  /\ IsFiniteSet(Headers) /\ Number \in [Headers -> Nat \ {0}]
  /\ Parent \in [Headers -> Headers \cup {NoHeader}] /\ Nil \notin Headers
  /\ Master \in Peers
  /\ Chain \in Seq(Headers)
  /\ \A n \in 1..Len(Chain) : Number[Chain[n]] = n
  /\ \A n \in 2..Len(Chain) : Parent[Chain[n]] = Chain[n - 1]
  /\ First \in Nat \ {0} /\ MaxHeaderFetch \in Nat \ {0} /\ MaxSkeleton \in Nat \ {0}
  /\ HeaderDelay \in Nat
  /\ ForeignTails \subseteq Seq(Headers) /\ MaxFrom \in Nat

ASSUME FirstAssumption == First <= Len(Chain) + 1

VARIABLES
  headerTaskPool,   \* headerTaskPool[i]: the header that must end the batch at i
  headerTaskQueue,  \* the batches to be requested, by their first number
  headerPendPool,   \* headerPendPool[p]: the batch p is asked for, 0 for none
  headerPeerMiss,   \* headerPeerMiss[p]: the batches p failed to deliver
  headerResults,    \* the headers of this skeleton, Nil where not yet there
  headerProced,     \* how many of them were forwarded during the filling
  headerOffset,     \* number of the first of them
  headerContCh,     \* messages in headerContCh (capacity 1)
  from,             \* fetchHeaders: the next number to ask for
  skeleton,         \* fetchHeaders: a skeleton is asked for, not the tail
  headers,          \* fetchHeaders: the headers to forward
  finished,         \* fetchParts: the continuation flag has said no
  pc,               \* where fetchHeaders stands
  result,           \* what it returned
  peers,            \* the registered peers
  fresh,            \* peers that have not connected yet
  busy,             \* peers whose headerIdle flag is 1
  cancelled,        \* cancelCh is closed
  honest,           \* the master answers from Chain, and only when asked (never changes)
  headerProcCh,     \* batches for the header processor (capacity 1), << >> is nil
  consumed          \* history: the headers the processor has received

queueVars == <<headerTaskPool, headerTaskQueue, headerPendPool, headerPeerMiss,
               headerResults, headerProced, headerOffset, headerContCh>>
localVars == <<from, skeleton, headers, finished, pc, result>>
peerVars == <<peers, fresh, busy, cancelled, honest>>
chanVars == <<headerProcCh, consumed>>
vars == <<queueVars, localVars, peerVars, chanVars>>

Init ==
  /\ headerTaskPool = << >> /\ headerTaskQueue = {}
  /\ headerPendPool = [p \in Peers |-> 0] /\ headerPeerMiss = [p \in Peers |-> {}]
  /\ headerResults = << >> /\ headerProced = 0 /\ headerOffset = 0 /\ headerContCh = 0
  /\ from = First /\ skeleton = TRUE /\ headers = << >> /\ finished = FALSE
  /\ pc = "request" /\ result = "none"
  /\ peers \in SUBSET Peers /\ Master \in peers /\ fresh = Peers \ peers
  /\ busy = {} /\ cancelled = FALSE /\ honest \in BOOLEAN
  /\ headerProcCh = << >> /\ consumed = << >>

Return(r) == pc' = "returned" /\ result' = r

-----------------------------------------------------------------------------
(***************************************************************************)
(* ScheduleSkeleton: one task per skeleton header, a result place per       *)
(* header.                                                                  *)
(***************************************************************************)
Task(f, i) == f + (i - 1) * MaxHeaderFetch

Tasks(f, n) == {Task(f, i) : i \in 1..n}

ScheduleSkeleton(f, s) ==
  /\ headerTaskPool' = [t \in Tasks(f, Len(s)) |-> s[CHOOSE i \in 1..Len(s) : Task(f, i) = t]]
  /\ headerTaskQueue' = Tasks(f, Len(s))
  /\ headerPeerMiss' = [p \in Peers |-> {}]
  /\ headerResults' = [i \in 1..(Len(s) * MaxHeaderFetch) |-> Nil]
  /\ headerProced' = 0 /\ headerOffset' = f /\ headerContCh' = 0
  /\ UNCHANGED headerPendPool

(***************************************************************************)
(* fetchHeaders, a packet of the master: a skeleton s.                      *)
(***************************************************************************)
SkeletonPacket(s) ==
  /\ pc = "request" /\ skeleton /\ s # << >>
  /\ IF headerResults # << >>
       THEN Return("panic") /\ UNCHANGED <<queueVars, finished>>
       ELSE /\ ScheduleSkeleton(from, s)
            /\ pc' = "fill" /\ finished' = FALSE /\ UNCHANGED result
  /\ UNCHANGED <<from, skeleton, headers, peerVars, chanVars>>

(***************************************************************************)
(* No skeleton is left: ask for the tail.  No tail is left: tell the        *)
(* processor.  (While the pivot block is not committed the request is only  *)
(* repeated.)                                                               *)
(***************************************************************************)
EmptyPacket ==
  /\ pc = "request"
  /\ skeleton' = FALSE
  /\ pc' = IF skeleton THEN "request" ELSE "finish"
  /\ UNCHANGED <<from, headers, finished, result, queueVars, peerVars, chanVars>>

Smaller(a, b) == IF a <= b THEN a ELSE b

(***************************************************************************)
(* The tail h of the chain; near the head its last headers are held back.   *)
(***************************************************************************)
TailPacket(h) ==
  /\ pc = "request" /\ ~skeleton /\ h # << >>
  /\ \E delay \in {0, Smaller(HeaderDelay, Len(h))} :
       headers' = SubSeq(h, 1, Len(h) - delay)
  /\ pc' = IF headers' = << >> THEN "request" ELSE "forward"
  /\ UNCHANGED <<from, skeleton, finished, result, queueVars, peerVars, chanVars>>

(***************************************************************************)
(* The blocking sends to the processor.                                     *)
(***************************************************************************)
Forward ==
  /\ pc = "forward" /\ headerProcCh = << >>
  /\ headerProcCh' = <<headers>>
  /\ from' = from + Len(headers) /\ headers' = << >>
  /\ pc' = "request"
  /\ UNCHANGED <<skeleton, finished, result, queueVars, peerVars, consumed>>

Finish ==
  /\ pc = "finish" /\ headerProcCh = << >>
  /\ headerProcCh' = << << >> >> /\ Return("nil")
  /\ UNCHANGED <<from, skeleton, headers, finished, queueVars, peerVars, consumed>>

CancelCase ==
  /\ pc \in {"request", "forward", "finish"} /\ cancelled
  /\ Return("errCancel")
  /\ UNCHANGED <<from, skeleton, headers, finished, queueVars, peerVars, chanVars>>

(***************************************************************************)
(* UnregisterPeer: Revoke leaves the header pools alone; the master takes   *)
(* the synchronisation with it.                                             *)
(***************************************************************************)
UnregisterPeers(P) ==
  /\ peers' = peers \ P /\ busy' = busy \ P
  /\ cancelled' = (cancelled \/ Master \in P)
  /\ UNCHANGED <<fresh, honest>>

(***************************************************************************)
(* The master does not answer: it is dropped, which cancels, and the        *)
(* processor is told that no more headers come, unless the select notices   *)
(* the cancellation first.                                                  *)
(***************************************************************************)
Timeout ==
  /\ pc = "request"
  /\ UnregisterPeers({Master})
  /\ pc' = "dropped"
  /\ UNCHANGED <<from, skeleton, headers, finished, result, queueVars, chanVars>>

DroppedReturn ==
  /\ pc = "dropped"
  /\ \/ headerProcCh = << >> /\ headerProcCh' = << << >> >>
     \/ cancelled /\ UNCHANGED headerProcCh
  /\ Return("errBadPeer")
  /\ UNCHANGED <<from, skeleton, headers, finished, queueVars, peerVars, consumed>>

-----------------------------------------------------------------------------
(***************************************************************************)
(* ReserveHeaders: the first batch p has not failed on, 0 when there is     *)
(* none or p still has a request.                                           *)
(***************************************************************************)
Reservable(p) == headerTaskQueue \ headerPeerMiss[p]

ReserveHeaders(p) ==
  IF headerPendPool[p] # 0 \/ Reservable(p) = {} THEN 0
  ELSE CHOOSE t \in Reservable(p) : \A u \in Reservable(p) : t <= u

(***************************************************************************)
(* fetchParts gives an idle peer a batch.                                   *)
(***************************************************************************)
Assign(p) ==
  /\ pc = "fill" /\ p \in peers \ busy
  /\ ReserveHeaders(p) # 0
  /\ headerTaskQueue' = headerTaskQueue \ {ReserveHeaders(p)}
  /\ headerPendPool' = [headerPendPool EXCEPT ![p] = ReserveHeaders(p)]
  /\ busy' = busy \cup {p}
  /\ UNCHANGED <<headerTaskPool, headerPeerMiss, headerResults, headerProced, headerOffset,
                 headerContCh, localVars, peers, fresh, cancelled, honest,
                 chanVars>>

\* Accepted without the check that the last header is the skeleton's.
Accepted_anyEnd(h, t) ==
  /\ Len(h) = MaxHeaderFetch
  /\ Number[h[1]] = t
  /\ \A i \in 2..Len(h) : Number[h[i]] = t + i - 1 /\ Parent[h[i]] = h[i - 1]

(***************************************************************************)
(* DeliverHeaders: the batch h maps onto the skeleton at t.                 *)
(***************************************************************************)
Accepted(h, t) ==
  /\ Len(h) = MaxHeaderFetch
  /\ Number[h[1]] = t /\ h[Len(h)] = headerTaskPool[t]
  /\ \A i \in 2..Len(h) : Number[h[i]] = t + i - 1 /\ Parent[h[i]] = h[i - 1]

Place(results, t, h) ==
  [i \in DOMAIN results |->
     LET j == i - (t - headerOffset) IN IF j \in 1..Len(h) THEN h[j] ELSE results[i]]

(***************************************************************************)
(* The headers ready to be forwarded: whole batches, from headerProced on.  *)
(***************************************************************************)
Ready(results) ==
  CHOOSE n \in 0..(Len(results) - headerProced) :
    /\ n % MaxHeaderFetch = 0
    /\ \A k \in 0..(n - 1) : k % MaxHeaderFetch = 0 => results[headerProced + k + 1] # Nil
    /\ headerProced + n < Len(results) => results[headerProced + n + 1] = Nil

\* Terminated that ends the filling with every batch instead of with the last.
Terminated_each(t) == TRUE

Terminated(t) == DOMAIN headerTaskPool = {t}

Accept(h, t) ==
  LET results == Place(headerResults, t, h)
      ready   == Ready(results)
      sent    == ready > 0 /\ headerProcCh = << >>
  IN /\ headerResults' = results
     /\ headerTaskPool' = [u \in DOMAIN headerTaskPool \ {t} |-> headerTaskPool[u]]
     /\ headerProcCh' = IF sent THEN <<SubSeq(results, headerProced + 1, headerProced + ready)>>
                        ELSE headerProcCh
     /\ headerProced' = headerProced + (IF sent THEN ready ELSE 0)
     /\ headerContCh' = headerContCh + (IF Terminated(t) THEN 1 ELSE 0)
     /\ UNCHANGED <<headerTaskQueue, headerPeerMiss>>

\* Refuse that holds the failure of one peer against all of them.
Refuse_all(p, t) ==
  /\ headerPeerMiss' = [q \in Peers |-> headerPeerMiss[q] \cup {t}]
  /\ headerTaskQueue' = headerTaskQueue \cup {t}
  /\ UNCHANGED <<headerTaskPool, headerResults, headerProced, headerContCh, headerProcCh>>

\* Refuse that does not remember the failure.
Refuse_forgets(p, t) ==
  /\ headerTaskQueue' = headerTaskQueue \cup {t}
  /\ UNCHANGED <<headerPeerMiss, headerTaskPool, headerResults, headerProced, headerContCh,
                 headerProcCh>>

Refuse(p, t) ==
  /\ headerPeerMiss' = [headerPeerMiss EXCEPT ![p] = @ \cup {t}]
  /\ headerTaskQueue' = headerTaskQueue \cup {t}
  /\ UNCHANGED <<headerTaskPool, headerResults, headerProced, headerContCh, headerProcCh>>

(***************************************************************************)
(* fetchParts takes a packet of p.  A packet nobody asked for only marks    *)
(* the peer idle; so does one that is refused.                              *)
(***************************************************************************)
DeliverHeaders(p, h) ==
  LET t == headerPendPool[p]
  IN /\ pc = "fill" /\ p \in peers
     /\ busy' = busy \ {p}
     /\ headerPendPool' = [headerPendPool EXCEPT ![p] = 0]
     /\ IF t \in DOMAIN headerTaskPool
          THEN /\ IF Accepted(h, t) THEN Accept(h, t) ELSE Refuse(p, t)
               /\ UNCHANGED <<pc, result>>
          ELSE /\ IF t = 0 THEN UNCHANGED <<pc, result>> ELSE Return("panic")
               /\ UNCHANGED <<headerTaskPool, headerTaskQueue, headerPeerMiss, headerResults,
                              headerProced, headerContCh, headerProcCh>>
     /\ UNCHANGED <<headerOffset, from, skeleton, headers, finished,
                    peers, fresh, cancelled, honest, consumed>>

\* ExpireHeaders that does not queue the batches again.
ExpireHeaders_loses(P) ==
  /\ pc = "fill" /\ P # {} /\ \A p \in P : headerPendPool[p] # 0
  /\ headerPendPool' = [p \in Peers |-> IF p \in P THEN 0 ELSE headerPendPool[p]]
  /\ UnregisterPeers(P \cap peers)
  /\ UNCHANGED <<headerTaskQueue, headerTaskPool, headerPeerMiss, headerResults, headerProced,
                 headerOffset, headerContCh, localVars, chanVars>>

(***************************************************************************)
(* ExpireHeaders: the requests of P have timed out.  A request for headers  *)
(* counts as 0 failed items, so its peer is dropped if it is still there.   *)
(***************************************************************************)
ExpireHeaders(P) ==
  /\ pc = "fill" /\ P # {} /\ \A p \in P : headerPendPool[p] # 0
  /\ headerTaskQueue' = headerTaskQueue \cup {headerPendPool[p] : p \in P}
  /\ headerPendPool' = [p \in Peers |-> IF p \in P THEN 0 ELSE headerPendPool[p]]
  /\ UnregisterPeers(P \cap peers)
  /\ UNCHANGED <<headerTaskPool, headerPeerMiss, headerResults, headerProced, headerOffset,
                 headerContCh, localVars, chanVars>>

(***************************************************************************)
(* fetchParts reads the continuation flag, which is always false.           *)
(***************************************************************************)
Wake ==
  /\ pc = "fill" /\ headerContCh > 0
  /\ headerContCh' = headerContCh - 1 /\ finished' = TRUE
  /\ UNCHANGED <<headerTaskPool, headerTaskQueue, headerPendPool, headerPeerMiss, headerResults,
                 headerProced, headerOffset, from, skeleton, headers, pc, result,
                 peerVars, chanVars>>

\* RetrieveHeaders that leaves the results in place.
RetrieveHeaders_keeps ==
  /\ headerProced' = 0
  /\ UNCHANGED <<headerResults, headerTaskPool, headerTaskQueue, headerPendPool, headerPeerMiss,
                 headerOffset, headerContCh>>

RetrieveHeaders ==
  /\ headerResults' = << >> /\ headerProced' = 0
  /\ UNCHANGED <<headerTaskPool, headerTaskQueue, headerPendPool, headerPeerMiss,
                 headerOffset, headerContCh>>

InFlight == \E p \in Peers : headerPendPool[p] # 0

\* FillDone that does not move from past them.
FillDone_keepsFrom ==
  /\ pc = "fill" /\ headerTaskQueue = {} /\ ~InFlight /\ finished
  /\ RetrieveHeaders
  /\ headers' = SubSeq(headerResults, headerProced + 1, Len(headerResults))
  /\ UNCHANGED from
  /\ pc' = IF headers' = << >> THEN "request" ELSE "forward"
  /\ UNCHANGED <<skeleton, finished, result, peerVars, chanVars>>

(***************************************************************************)
(* The skeleton is filled: what was not forwarded on the way is sent now.   *)
(***************************************************************************)
FillDone ==
  /\ pc = "fill" /\ headerTaskQueue = {} /\ ~InFlight /\ finished
  /\ RetrieveHeaders
  /\ headers' = SubSeq(headerResults, headerProced + 1, Len(headerResults))
  /\ from' = from + headerProced
  /\ pc' = IF headers' = << >> THEN "request" ELSE "forward"
  /\ UNCHANGED <<skeleton, finished, result, peerVars, chanVars>>

(***************************************************************************)
(* Filling fails: no peers are left, all are idle and none can be given a   *)
(* batch, or the synchronisation was cancelled.  fetchHeaders reports the   *)
(* chain as invalid in each case.                                           *)
(***************************************************************************)
NoPeers == peers = {}

PeersUnavailable ==
  /\ headerTaskQueue # {} /\ ~InFlight /\ busy = {}
  /\ \A p \in peers : ReserveHeaders(p) = 0

FillFail ==
  /\ pc = "fill"
  /\ NoPeers \/ PeersUnavailable \/ cancelled
  /\ RetrieveHeaders
  /\ Return("errInvalidChain")
  /\ UNCHANGED <<from, skeleton, headers, finished, peerVars, chanVars>>

-----------------------------------------------------------------------------
(***************************************************************************)
(* The header processor receives a batch; peers connect and disconnect;     *)
(* the synchronisation is cancelled.                                        *)
(***************************************************************************)
Consume ==
  /\ headerProcCh # << >>
  /\ consumed' = consumed \o Head(headerProcCh) /\ headerProcCh' = << >>
  /\ UNCHANGED <<queueVars, localVars, peerVars>>

Register(p) ==
  /\ pc # "returned" /\ p \in fresh
  /\ peers' = peers \cup {p} /\ fresh' = fresh \ {p}
  /\ UNCHANGED <<busy, cancelled, honest, queueVars, localVars, chanVars>>

Leave(p) ==
  /\ pc # "returned" /\ p \in peers
  /\ UnregisterPeers({p})
  /\ UNCHANGED <<queueVars, localVars, chanVars>>

Cancel ==
  /\ pc # "returned" /\ ~cancelled
  /\ cancelled' = TRUE
  /\ UNCHANGED <<peers, fresh, busy, honest, queueVars, localVars, chanVars>>

(***************************************************************************)
(* What peers may send.  An honest master answers each request from Chain,  *)
(* and sends nothing else; the others may send any headers at any time.     *)
(* The tail of a dishonest master is not bound to what it was asked for,    *)
(* neither in its numbers nor in its length: fetchHeaders checks nothing.   *)
(* A packet that was not asked for is dropped unread, so one, empty, stands *)
(* for them all.                                                            *)
(***************************************************************************)
ListsUpTo(n) == UNION {[1..k -> Headers] : k \in 0..n}

Upto(n) == Smaller(n, Len(Chain))

Skeletons ==
  IF ~honest THEN ListsUpTo(MaxSkeleton)
  ELSE {[i \in 1..Smaller(MaxSkeleton, (Len(Chain) + 1 - from) \div MaxHeaderFetch) |->
           Chain[Task(from, i) + MaxHeaderFetch - 1]]}

Tails ==
  IF honest THEN {SubSeq(Chain, from, Upto(from + MaxHeaderFetch - 1))}
  ELSE {<< >>} \cup {h \in ForeignTails : from <= MaxFrom}

Answers(p) ==
  IF headerPendPool[p] = 0 THEN IF p = Master /\ honest THEN {} ELSE {<< >>}
  ELSE IF p # Master \/ ~honest THEN ListsUpTo(MaxHeaderFetch)
  ELSE {SubSeq(Chain, headerPendPool[p], Upto(headerPendPool[p] + MaxHeaderFetch - 1))}

MasterSilent == IF skeleton THEN << >> \in Skeletons ELSE << >> \in Tails

Fill == \E p \in Peers : Assign(p)

Answer(p) == pc = "fill" /\ \E h \in Answers(p) : DeliverHeaders(p, h)

Fetcher ==
  \/ pc = "request" /\ \E s \in Skeletons : SkeletonPacket(s)
  \/ MasterSilent /\ EmptyPacket
  \/ pc = "request" /\ \E h \in Tails : TailPacket(h)
  \/ Timeout \/ Forward \/ Finish \/ CancelCase \/ DroppedReturn
  \/ Fill \/ Wake \/ FillDone \/ FillFail

Next ==
  \/ Fetcher
  \/ \E p \in Peers : Answer(p) \/ Register(p) \/ Leave(p)
  \/ \E P \in SUBSET Peers : ExpireHeaders(P)
  \/ Consume \/ Cancel

Spec == Init /\ [][Next]_vars

(***************************************************************************)
(* The ticker of fetchParts brings its loop round again and again, and a    *)
(* request that is not answered expires.                                    *)
(***************************************************************************)
Resolve(p) == headerPendPool[p] # 0 /\ (Answer(p) \/ ExpireHeaders({p}))

Fairness ==
  /\ WF_vars(Fill) /\ WF_vars(Wake) /\ WF_vars(FillDone) /\ WF_vars(FillFail)
  /\ \A p \in Peers : WF_vars(Resolve(p))

FairSpec == Spec /\ Fairness

-----------------------------------------------------------------------------
(***************************************************************************)
(* Every variable has its type; each channel holds at most one message, so  *)
(* that no send of the queue blocks with its lock held, and no result is a  *)
(* panic of ScheduleSkeleton or DeliverHeaders.                             *)
(***************************************************************************)
TypeOK ==
  /\ DOMAIN headerTaskPool \subseteq Nat \ {0}
  /\ \A t \in DOMAIN headerTaskPool : headerTaskPool[t] \in Headers
  /\ headerTaskQueue \subseteq Nat \ {0}
  /\ headerPendPool \in [Peers -> Nat]
  /\ headerPeerMiss \in [Peers -> SUBSET Nat]
  /\ headerResults \in Seq(Headers \cup {Nil})
  /\ headerProced \in 0..Len(headerResults) /\ headerOffset \in Nat
  /\ headerContCh \in 0..1
  /\ from \in Nat /\ skeleton \in BOOLEAN /\ headers \in Seq(Headers) /\ finished \in BOOLEAN
  /\ pc \in {"request", "fill", "forward", "finish", "dropped", "returned"}
  /\ result \in {"none", "nil", "errCancel", "errBadPeer", "errInvalidChain"}
  /\ peers \subseteq Peers /\ fresh \subseteq Peers \ peers /\ busy \subseteq peers
  /\ cancelled \in BOOLEAN /\ honest \in BOOLEAN
  /\ headerProcCh \in Seq(Seq(Headers)) /\ Len(headerProcCh) <= 1
  /\ consumed \in Seq(Headers)

(***************************************************************************)
(* What the header processor has got or is about to get.                    *)
(***************************************************************************)
Out == consumed \o (IF headerProcCh = << >> THEN << >> ELSE Head(headerProcCh))

(***************************************************************************)
(* As long as skeletons are filled the processor gets the headers by        *)
(* number, from First on, none twice and none left out, whoever the master  *)
(* is, although batches are delivered in any order and part of them is      *)
(* forwarded during the filling, part after it.  The tail is forwarded      *)
(* unchecked (downloader.go:949-982), so there the numbers are only right   *)
(* if the master is honest.  In every case from counts what was forwarded   *)
(* (DeliverHeaders and the bookkeeping of proced and from in fetchHeaders). *)
(***************************************************************************)
ForwardedOnce ==
  /\ skeleton \/ honest => \A i \in 1..Len(Out) : Number[Out[i]] = First + i - 1
  /\ pc \in {"request", "forward", "finish"} => from = First + Len(Out)
  /\ pc = "fill" => from + headerProced = First + Len(Out)

(***************************************************************************)
(* When the master is honest the processor gets the master's chain, whoever *)
(* filled the gaps and whatever else they sent: headers are accepted only   *)
(* if they map onto the skeleton.  When fetchHeaders returns without an     *)
(* error it has forwarded all of it.                                        *)
(***************************************************************************)
OriginTrusted ==
  honest =>
    /\ Out = SubSeq(Chain, First, First + Len(Out) - 1)
    /\ result = "nil" => First + Len(Out) = Len(Chain) + 1

(***************************************************************************)
(* An honest master is not reported for an invalid chain because of what    *)
(* other peers send, unless the synchronisation was cancelled: a batch that *)
(* others failed on is still given to the master before filling fails.      *)
(***************************************************************************)
OriginKept ==
  honest /\ ~cancelled => result # "errInvalidChain"

(***************************************************************************)
(* During the filling a batch is queued or in the request of exactly one    *)
(* peer as long as its place in headerResults is empty, and neither once it *)
(* is filled: no batch is fetched twice or lost when requests are refused,  *)
(* expire, or their peers leave.                                            *)
(***************************************************************************)
BatchOnePlace ==
  pc = "fill" =>
    /\ \A p \in Peers : headerPendPool[p] # 0 =>
         /\ headerPendPool[p] \notin headerTaskQueue
         /\ \A q \in Peers \ {p} : headerPendPool[q] # headerPendPool[p]
    /\ DOMAIN headerTaskPool =
         headerTaskQueue \cup ({headerPendPool[p] : p \in Peers} \ {0})
    /\ \A k \in 1..Len(headerResults) :
         headerResults[k] = Nil <=>
           headerOffset + ((k - 1) \div MaxHeaderFetch) * MaxHeaderFetch \in DOMAIN headerTaskPool

(***************************************************************************)
(* A batch that is in place is a chain, numbered by its place: headers of   *)
(* two forks are never mixed within a batch, whatever the skeleton was.     *)
(***************************************************************************)
BatchesLinked ==
  \A k \in 1..Len(headerResults) :
    /\ headerResults[k] # Nil => Number[headerResults[k]] = headerOffset + k - 1
    /\ headerResults[k] # Nil /\ (k - 1) % MaxHeaderFetch # 0 =>
         Parent[headerResults[k]] = headerResults[k - 1]

(***************************************************************************)
(* The code's own emergency stops are not reached: a skeleton scheduled     *)
(* over another one, and the lookup of the skeleton header of a batch that  *)
(* is no longer in the pool.                                                *)
(***************************************************************************)
NoPanic == result # "panic"

(***************************************************************************)
(* Filling a skeleton ends, with all headers or with an error, even if no   *)
(* peer ever sends anything useful.                                         *)
(***************************************************************************)
FillEnds == pc = "fill" ~> pc # "fill"

(***************************************************************************)
(* A chain is called invalid only when nobody could fill the skeleton:      *)
(* every peer has failed on every batch that is left.                       *)
(***************************************************************************)
InvalidMeansUnfillable ==
  result = "errInvalidChain" => \A p \in peers : headerTaskQueue \subseteq headerPeerMiss[p]
                                                 /\ headerTaskQueue # {}
=============================================================================
