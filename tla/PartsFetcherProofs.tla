------------------------- MODULE PartsFetcherProofs -------------------------
(***************************************************************************)
(* Proofs about the assignment loop: it drives the queue only through the   *)
(* queue's own operations, so everything proved of the queue holds beside   *)
(* it, and no peer is ever assigned a second request while it is fetching.  *)
(***************************************************************************)
EXTENDS PartsFetcher, DownloadQueueProofs

(***************************************************************************)
(* The local variables of a pass stay well formed.                          *)
(***************************************************************************)
RoundOK == round \in Rounds /\ peers \subseteq Peers /\ fresh \subseteq Peers

(* A pass starts with well-formed local variables (fetchParts before its first pass). *)
LEMMA RoundInit == FetchInit => RoundOK
BY FetchAssumption DEF FetchInit, RoundOK, Rounds, NoRound

(* No step of the loop or of the peer set breaks the form of the local variables. *)
LEMMA RoundStep == RoundOK /\ [FetchNext]_allVars => RoundOK'
<1>. SUFFICES ASSUME RoundOK, [FetchNext]_allVars PROVE RoundOK'
  OBVIOUS
<1>1. NoRound \in Rounds
  BY FetchAssumption DEF NoRound, Rounds
<1>2. CASE LoopStep
  <2>1. peers' \subseteq Peers /\ fresh' \subseteq Peers
    BY Zenon, <1>2 DEF RoundOK, LoopStep, CancelCase, WakeCase, PacketCase, UpdateExpire, UpdatePending,
       UpdateInFlight, Turn, AssignStop, AssignTurn, ReserveTurn, AssignReserve, UpdateCheck, peerVars
  <2>2. round' \in Rounds
    <3>1. CASE round' = round \/ round' = NoRound
      BY Zenon, <1>1, <3>1 DEF RoundOK
    <3>2. CASE UpdatePending
      <4>1. IdlePeers \in SUBSET Peers /\ (IdlePeers = peers) \in BOOLEAN /\ InFlight \in BOOLEAN
        BY Zenon DEF RoundOK, IdlePeers, InFlight
      <4>2. \A S \in SUBSET Peers, a, r \in BOOLEAN :
              [idles |-> S, peer |-> Master, all |-> a, progressed |-> FALSE,
               throttled |-> FALSE, running |-> r] \in Rounds
        BY FetchAssumption DEF Rounds
      <4>. QED BY Zenon, <3>2, <4>1, <4>2 DEF UpdatePending, RoundOK
    <3>3. CASE AssignStop
      BY <3>3 DEF AssignStop, RoundOK, Rounds, Throttled
    <3>4. ASSUME NEW p \in Peers, AssignTurn(p) PROVE round' \in Rounds
      BY <3>4 DEF AssignTurn, RoundOK, Rounds
    <3>5. ASSUME NEW c \in 1 .. MaxCount, AssignReserve(c) PROVE round' \in Rounds
      <4>1. \A a, b \in BOOLEAN : [round EXCEPT !.progressed = @ \/ a, !.running = @ \/ b] \in Rounds
        BY DEF RoundOK, Rounds
      <4>. QED BY <1>1, <3>5, <4>1 DEF AssignReserve, Return
    <3>. QED BY Zenon, <1>2, <3>1, <3>2, <3>3, <3>4, <3>5 DEF LoopStep, CancelCase, WakeCase, PacketCase,
           UpdateExpire, UpdateInFlight, Turn, ReserveTurn, UpdateCheck, Return
  <2>. QED BY Zenon, <2>1, <2>2 DEF RoundOK
<1>3. CASE PeerStep
  BY Zenon, <1>3 DEF RoundOK, PeerStep, Unregister, UnregisterRevoke, Register, LoseAnswer, loopVars, peerVars
<1>4. CASE HeaderStep \/ ContentStep \/ Cancel
  BY Zenon, <1>4 DEF RoundOK, HeaderStep, ContentStep, Cancel, loopVars, peerVars, fetchVars
<1>5. CASE UNCHANGED allVars
  BY Zenon, <1>5 DEF RoundOK, allVars, loopVars, peerVars, fetchVars
<1>. QED BY Zenon, <1>2, <1>3, <1>4, <1>5 DEF FetchNext

(***************************************************************************)
(* Every step of the loop, of the peer set and of the two processors is a   *)
(* step of the queue or leaves the queue alone.                             *)
(***************************************************************************)
LEMMA QueueStep == RoundOK /\ [FetchNext]_allVars => [Next]_vars
<1>. SUFFICES ASSUME RoundOK, FetchNext \/ UNCHANGED allVars PROVE Next \/ UNCHANGED vars
  OBVIOUS
<1>1. CASE LoopStep
  <2>1. ASSUME NEW p \in Peers, NEW A \in SUBSET Headers, PacketCase(p, A)
        PROVE  Next \/ UNCHANGED vars
    <3>1. CASE UNCHANGED vars
      BY Zenon, <3>1
    <3>2. CASE Deliver(Kind, p, Matched(pendPool[Kind][p], A), A = {})
      <4>1. /\ Matched(pendPool[Kind][p], A) \in Prefixes(pendPool[Kind][p])
            /\ (A = {}) \in BOOLEAN /\ Kind \in Kinds
        BY Zenon, <3>2 DEF Deliver, Kind, Kinds
      <4>. QED BY Zenon, <3>2, <4>1 DEF Next
    <3>. QED BY Zenon, <2>1, <3>1, <3>2 DEF PacketCase
  <2>2. ASSUME NEW P \in SUBSET Peers, UpdateExpire(P)
        PROVE  Next \/ UNCHANGED vars
    <3>1. CASE UNCHANGED vars
      BY Zenon, <3>1
    <3>2. CASE Expire(Kind, P)
      BY Zenon, <3>2 DEF Next, Kind, Kinds
    <3>. QED BY Zenon, <2>2, <3>1, <3>2 DEF UpdateExpire
  <2>3. ASSUME NEW c \in 1 .. MaxCount, AssignReserve(c)
        PROVE  Next \/ UNCHANGED vars
    <3>1. Reserve(Kind, round.peer, c) \/ UNCHANGED vars
      BY Zenon, <2>3 DEF AssignReserve
    <3>2. round.peer \in Peers /\ Kind \in Kinds
      BY DEF RoundOK, Rounds, Kind, Kinds
    <3>. QED BY Zenon, <3>1, <3>2 DEF Next
  <2>. QED BY Zenon, <1>1, <2>1, <2>2, <2>3 DEF LoopStep, CancelCase, WakeCase, UpdatePending,
           UpdateInFlight, Turn, AssignStop, AssignTurn, ReserveTurn, UpdateCheck
<1>2. CASE PeerStep
  BY Zenon, <1>2 DEF PeerStep, Unregister, UnregisterRevoke, Register, LoseAnswer, Next
<1>3. CASE HeaderStep \/ ContentStep \/ Cancel
  BY Zenon, <1>3 DEF HeaderStep, ContentStep, Cancel, Next
<1>4. CASE UNCHANGED allVars
  BY Zenon, <1>4 DEF allVars
<1>. QED BY Zenon, <1>1, <1>2, <1>3, <1>4 DEF FetchNext

(***************************************************************************)
(* The assignment loop, the peer set and the two processors together        *)
(* implement the specification of the download queue: nothing they do       *)
(* reaches the queue except through its operations.                         *)
(***************************************************************************)
THEOREM FetchImplementsQueue == FetchSpec => Spec
<1>1. FetchInit => Init
  BY DEF FetchInit
<1>. QED BY <1>1, RoundInit, RoundStep, QueueStep, PTL DEF FetchSpec, Spec

(***************************************************************************)
(* What the loop relies on: the peers a pass has still to visit, and the    *)
(* one it reserves for, are not fetching.  Flags are set by the pass itself *)
(* only, one peer at a time.                                                *)
(***************************************************************************)
PassIdle ==
  /\ pc \in {"assign", "reserve"} => round.idles \cap busy = {}
  /\ pc = "reserve" => round.peer \notin busy /\ round.peer \notin round.idles

LoopInv == PassIdle /\ RequestedIsBusy /\ NoDoubleAssignment

(* At first no peer is asked for anything and every flag is clear. *)
LEMMA LoopInit == FetchInit => LoopInv
BY DEF FetchInit, Init, LoopInv, PassIdle, RequestedIsBusy, NoDoubleAssignment, Kind, Kinds

(* A packet clears the flag only together with, or after, the open request. *)
LEMMA PacketInv ==
  ASSUME LoopInv, IndInv, IndInv', NEW p \in Peers, NEW A \in SUBSET Headers, PacketCase(p, A)
  PROVE  LoopInv'
<1>1. pc = "select" /\ err' # "errInvalidChain"
  BY Zenon DEF PacketCase, IndInv, NoIndexOverflow
<1>2. pc' = pc /\ result' = result
  BY Zenon, <1>1 DEF PacketCase, Return
<1>3. \A q \in Peers : pendPool'[Kind][q] # {} => q \in busy'
  <2>1. CASE UNCHANGED vars /\ busy' = busy
    BY Zenon, <2>1 DEF vars, poolVars, LoopInv, RequestedIsBusy
  <2>2. CASE UNCHANGED vars /\ pendPool[Kind][p] = {} /\ busy' = busy \ {p}
    BY Zenon, <2>2 DEF vars, poolVars, LoopInv, RequestedIsBusy
  <2>3. CASE pendPool' = [pendPool EXCEPT ![Kind][p] = {}] /\ (busy' = busy \/ busy' = busy \ {p})
    <3>1. \A q \in Peers : pendPool'[Kind][q] = IF q = p THEN {} ELSE pendPool[Kind][q]
      BY <2>3 DEF IndInv, TypeOK, Kind, Kinds
    <3>. QED BY Zenon, <2>3, <3>1 DEF LoopInv, RequestedIsBusy
  <2>. QED BY Zenon, <1>1, <2>1, <2>2, <2>3 DEF PacketCase, Deliver
<1>. QED BY Zenon, <1>1, <1>2, <1>3 DEF LoopInv, PassIdle, RequestedIsBusy, NoDoubleAssignment

(* A reservation opens a request for an idle peer and sets its flag. *)
LEMMA ReserveTurnInv ==
  ASSUME LoopInv, RoundOK, IndInv, IndInv', NEW c \in 1 .. MaxCount, AssignReserve(c)
  PROVE  LoopInv'
<1>. DEFINE p == round.peer
<1>1. pc = "reserve" /\ err' # "errInvalidChain" /\ p \notin busy /\ p \notin round.idles
  BY Zenon DEF AssignReserve, IndInv, NoIndexOverflow, LoopInv, PassIdle
<1>2. p \in Peers
  BY DEF RoundOK, Rounds
<1>3. /\ pc' = "assign" /\ result' = result
      /\ \E a, b \in BOOLEAN : round' = [round EXCEPT !.progressed = @ \/ a, !.running = @ \/ b]
  BY Zenon, <1>1 DEF AssignReserve
<1>4. round'.idles = round.idles
  BY <1>3 DEF RoundOK, Rounds
<1>5. busy' = busy \/ busy' = busy \cup {p}
  BY Zenon, <1>1 DEF AssignReserve, Fetch, Return
<1>6. \A q \in Peers : q # p => pendPool'[Kind][q] = pendPool[Kind][q]
  <2>1. pendPool' = pendPool \/ \E S : pendPool' = [pendPool EXCEPT ![Kind][p] = S]
    BY Zenon DEF AssignReserve, Reserve, vars, poolVars
  <2>. QED BY <1>2, <2>1 DEF IndInv, TypeOK, Kind, Kinds
<1>7. pendPool'[Kind][p] # {} => p \in busy'
  <2>1. CASE taskQueue[Kind] # {} /\ pendPool[Kind][p] = {}
    BY Zenon, <1>1, <2>1 DEF AssignReserve, Fetch
  <2>2. CASE ~(taskQueue[Kind] # {} /\ pendPool[Kind][p] = {})
    <3>1. UNCHANGED pendPool
      BY Zenon, <2>2 DEF AssignReserve, vars, poolVars
    <3>. QED BY Zenon, <1>1, <1>2, <3>1 DEF LoopInv, RequestedIsBusy
  <2>. QED BY Zenon, <2>1, <2>2
<1>8. RequestedIsBusy'
  BY Zenon, <1>5, <1>6, <1>7 DEF LoopInv, RequestedIsBusy
<1>9. PassIdle'
  BY <1>1, <1>3, <1>4, <1>5 DEF LoopInv, PassIdle
<1>. QED BY Zenon, <1>3, <1>8, <1>9 DEF LoopInv, NoDoubleAssignment

(* An expired request is closed whether or not its peer is forgiven. *)
LEMMA ExpireStepInv ==
  ASSUME LoopInv, IndInv, NEW P \in SUBSET Peers, UpdateExpire(P)
  PROVE  LoopInv'
<1>1. /\ pc' \notin {"assign", "reserve"}
      /\ result' = result \/ result' = "errNoPeers"
  BY DEF UpdateExpire, Return
<1>2. RequestedIsBusy'
  <2>1. CASE UNCHANGED <<vars, busy>>
    BY Zenon, <2>1 DEF LoopInv, RequestedIsBusy, vars, poolVars
  <2>2. CASE Expire(Kind, P) /\ \E forgiven \in SUBSET P : busy' = busy \ forgiven
    <3>1. \A q \in Peers : pendPool'[Kind][q] = IF q \in P THEN {} ELSE pendPool[Kind][q]
      BY <2>2 DEF Expire, IndInv, TypeOK, Kind, Kinds
    <3>. QED BY Zenon, <2>2, <3>1 DEF LoopInv, RequestedIsBusy
  <2>. QED BY Zenon, <2>1, <2>2 DEF UpdateExpire, peerVars
<1>. QED BY <1>1, <1>2 DEF LoopInv, PassIdle, NoDoubleAssignment

(* Every step of the loop and beside it keeps requests and flags in agreement. *)
LEMMA LoopStepInv ==
  LoopInv /\ RoundOK /\ IndInv /\ IndInv' /\ [FetchNext]_allVars => LoopInv'
<1>. SUFFICES ASSUME LoopInv, RoundOK, IndInv, IndInv', [FetchNext]_allVars PROVE LoopInv'
  OBVIOUS
<1>1. ASSUME UNCHANGED <<pendPool, busy, pc, round, result>> PROVE LoopInv'
  BY Zenon, <1>1 DEF LoopInv, PassIdle, RequestedIsBusy, NoDoubleAssignment
<1>2. ASSUME UNCHANGED <<vars, busy>>, pc' \notin {"assign", "reserve"},
             result' \in {result, "nil", "errCancel", "errPeersUnavailable"}
      PROVE  LoopInv'
  <2>1. RequestedIsBusy'
    BY Zenon, <1>2 DEF LoopInv, RequestedIsBusy, vars, poolVars
  <2>2. NoDoubleAssignment'
    BY <1>2 DEF LoopInv, NoDoubleAssignment
  <2>. QED BY Zenon, <1>2, <2>1, <2>2 DEF LoopInv, PassIdle
<1>3. CASE LoopStep
  <2>1. CASE CancelCase \/ UpdateInFlight \/ UpdateCheck \/ AssignStop
    BY <1>2, <2>1 DEF CancelCase, UpdateInFlight, UpdateCheck, AssignStop, Return, peerVars
  <2>2. CASE WakeCase
    BY Zenon, <1>1, <2>2 DEF WakeCase, vars, poolVars, peerVars
  <2>3. CASE UpdatePending
    <3>1. CASE taskQueue[Kind] = {}
      BY <1>2, <2>3, <3>1 DEF UpdatePending, peerVars
    <3>2. CASE taskQueue[Kind] # {}
      <4>1. pc' = "assign" /\ round'.idles = peers \ busy /\ UNCHANGED <<vars, busy, result>>
        BY <2>3, <3>2 DEF UpdatePending, IdlePeers, peerVars
      <4>2. RequestedIsBusy' /\ NoDoubleAssignment'
        BY Zenon, <4>1 DEF LoopInv, RequestedIsBusy, NoDoubleAssignment, vars, poolVars
      <4>. QED BY <4>1, <4>2 DEF LoopInv, PassIdle
    <3>. QED BY Zenon, <3>1, <3>2
  <2>4. ASSUME NEW p \in Peers, AssignTurn(p) PROVE LoopInv'
    <3>1. /\ pc' = "reserve" /\ UNCHANGED <<vars, busy, result>> /\ p \in round.idles
          /\ round.idles \cap busy = {}
      BY Zenon, <2>4 DEF AssignTurn, LoopInv, PassIdle, peerVars
    <3>2. round'.idles = round.idles \ {p} /\ round'.peer = p
      BY <2>4 DEF AssignTurn, RoundOK, Rounds
    <3>3. RequestedIsBusy' /\ NoDoubleAssignment'
      BY Zenon, <3>1 DEF LoopInv, RequestedIsBusy, NoDoubleAssignment, vars, poolVars
    <3>. QED BY <3>1, <3>2, <3>3 DEF LoopInv, PassIdle
  <2>. QED BY Zenon, <1>3, <2>1, <2>2, <2>3, <2>4, PacketInv, ReserveTurnInv, ExpireStepInv
           DEF LoopStep, Turn, ReserveTurn
<1>4. CASE PeerStep
  <2>1. ASSUME NEW p \in Peers, UnregisterRevoke(p) PROVE LoopInv'
    <3>1. \A q \in Peers : pendPool'[Kind][q] = IF q = p THEN {} ELSE pendPool[Kind][q]
      BY <2>1 DEF UnregisterRevoke, Revoke, IndInv, TypeOK, Kind, Kinds
    <3>. QED BY Zenon, <2>1, <3>1 DEF UnregisterRevoke, LoopInv, PassIdle, RequestedIsBusy,
             NoDoubleAssignment, loopVars
  <2>. QED BY Zenon, <1>1, <1>4, <2>1 DEF PeerStep, Unregister, Register, LoseAnswer, vars, poolVars,
           loopVars, peerVars
<1>5. CASE HeaderStep \/ ContentStep \/ Cancel
  BY Zenon, <1>1, <1>5 DEF HeaderStep, ContentStep, Cancel, Schedule, ResultsWait, ResultsTake,
     vars, poolVars, loopVars, peerVars, fetchVars
<1>6. CASE UNCHANGED allVars
  BY Zenon, <1>1, <1>6 DEF allVars, vars, poolVars, loopVars, peerVars, fetchVars
<1>. QED BY Zenon, <1>3, <1>4, <1>5, <1>6 DEF FetchNext

(***************************************************************************)
(* The invariant the loop of fetchParts relies on, kept by every goroutine  *)
(* beside it.                                                               *)
(***************************************************************************)
THEOREM LoopInvariance == FetchSpec => []LoopInv
<1>1. FetchSpec => []RoundOK
  BY RoundInit, RoundStep, PTL DEF FetchSpec
<1>2. FetchSpec => []IndInv
  BY FetchImplementsQueue, Invariance, PTL
<1>. QED BY <1>1, <1>2, LoopInit, LoopStepInv, PTL DEF FetchSpec

(***************************************************************************)
(* fetchParts never assigns a request to a peer that is still fetching and  *)
(* never meets a full cache: neither its panic nor errInvalidChain is       *)
(* reachable, for any number of peers, whatever expires, leaves or answers  *)
(* late.                                                                    *)
(***************************************************************************)
THEOREM NeverAssignedTwice == FetchSpec => []NoDoubleAssignment
<1>1. LoopInv => NoDoubleAssignment
  BY DEF LoopInv
<1>. QED BY <1>1, LoopInvariance, PTL

(***************************************************************************)
(* The idle flags of fetchParts never run behind the queue: a peer with an  *)
(* open request has its flag set.                                           *)
(***************************************************************************)
THEOREM RequestsAreFlagged == FetchSpec => []RequestedIsBusy
<1>1. LoopInv => RequestedIsBusy
  BY DEF LoopInv
<1>. QED BY <1>1, LoopInvariance, PTL

(***************************************************************************)
(* Beside fetchParts, with peers coming and going, an owed header is in     *)
(* exactly one place.                                                       *)
(***************************************************************************)
THEOREM FetchOnePlace == FetchSpec => []ExactlyOnePlace
BY FetchImplementsQueue, OnePlace, PTL

(***************************************************************************)
(* FetchTypeOK without the local variables of a pass; a peer that leaves    *)
(* does not come back.                                                      *)
(***************************************************************************)
PeersOK ==
  /\ peers \subseteq Peers /\ fresh \subseteq Peers \ peers
  /\ leaving \subseteq Peers \ peers /\ fresh \cap leaving = {} /\ busy \subseteq Peers

AnswersOK ==
  answers \in [Peers -> Seq(SUBSET Headers)] /\ \A p \in Peers : Len(answers[p]) <= MaxAnswers

FlagsOK ==
  /\ headersDone \in BOOLEAN /\ finished \in BOOLEAN /\ cancelled \in BOOLEAN
  /\ pc \in {"select", "pending", "inflight", "assign", "reserve", "check", "returned"}
  /\ result \in {"none", "nil", "errCancel", "errNoPeers", "errPeersUnavailable",
                 "errInvalidChain", "panic"}

(* Connecting, leaving and being dropped keep the sets of peers apart (peerSet). *)
LEMMA PeersStep == PeersOK /\ RoundOK /\ [FetchNext]_allVars => PeersOK'
<1>. SUFFICES ASSUME PeersOK, RoundOK, [FetchNext]_allVars PROVE PeersOK'
  OBVIOUS
<1>1. CASE LoopStep
  <2>1. fresh' = fresh /\ leaving' = leaving /\ peers' \subseteq peers
    BY Zenon, <1>1 DEF LoopStep, CancelCase, WakeCase, PacketCase, UpdateExpire, UpdatePending,
       UpdateInFlight, Turn, AssignStop, AssignTurn, ReserveTurn, AssignReserve, UpdateCheck, peerVars
  <2>2. round.peer \in Peers
    BY DEF RoundOK, Rounds
  <2>3. busy' \subseteq busy \cup {round.peer}
    BY Zenon, <1>1 DEF LoopStep, CancelCase, WakeCase, PacketCase, UpdateExpire, UpdatePending,
       UpdateInFlight, Turn, AssignStop, AssignTurn, ReserveTurn, AssignReserve, Fetch, UpdateCheck, peerVars
  <2>. QED BY Zenon, <2>1, <2>2, <2>3 DEF PeersOK
<1>2. CASE PeerStep
  <2>1. ASSUME NEW p \in Peers, Unregister(p) PROVE PeersOK'
    BY <2>1 DEF Unregister, PeersOK
  <2>2. ASSUME NEW p \in Peers, UnregisterRevoke(p) PROVE PeersOK'
    BY <2>2 DEF UnregisterRevoke, PeersOK
  <2>3. ASSUME NEW p \in Peers, Register(p) PROVE PeersOK'
    BY <2>3 DEF Register, PeersOK
  <2>4. ASSUME NEW p \in Peers, LoseAnswer(p) PROVE PeersOK'
    BY <2>4 DEF LoseAnswer, PeersOK, peerVars
  <2>. QED BY Zenon, <1>2, <2>1, <2>2, <2>3, <2>4 DEF PeerStep
<1>3. CASE HeaderStep \/ ContentStep \/ Cancel \/ UNCHANGED allVars
  BY Zenon, <1>3 DEF PeersOK, HeaderStep, ContentStep, Cancel, allVars, peerVars, fetchVars
<1>. QED BY Zenon, <1>1, <1>2, <1>3 DEF FetchNext

(* A request that is sent asks for headers of the queue, and an answer is taken once (Fetch). *)
LEMMA AnswersStep == AnswersOK /\ RoundOK /\ TypeOK' /\ [FetchNext]_allVars => AnswersOK'
<1>. SUFFICES ASSUME AnswersOK, RoundOK, TypeOK', [FetchNext]_allVars PROVE AnswersOK'
  OBVIOUS
<1>1. ASSUME NEW p \in Peers, answers[p] # << >>, answers' = [answers EXCEPT ![p] = Tail(@)]
      PROVE  AnswersOK'
  <2>1. Tail(answers[p]) \in Seq(SUBSET Headers) /\ Len(Tail(answers[p])) <= Len(answers[p])
    BY <1>1 DEF AnswersOK
  <2>2. answers[p] \in Seq(SUBSET Headers) /\ Len(answers[p]) \in Nat /\ MaxAnswers \in Nat
    BY FetchAssumption DEF AnswersOK
  <2>3. Len(Tail(answers[p])) <= MaxAnswers
    BY <2>1, <2>2 DEF AnswersOK
  <2>. QED BY <1>1, <2>1, <2>3 DEF AnswersOK
<1>2. ASSUME NEW p \in Peers, NEW R \in SUBSET Headers, Fetch(p, R)
      PROVE  AnswersOK'
  <2>1. answers[p] \in Seq(SUBSET Headers) /\ Len(answers[p]) \in Nat /\ MaxAnswers \in Nat \ {0}
        /\ Len(answers[p]) <= MaxAnswers
    BY FetchAssumption DEF AnswersOK
  <2>. DEFINE s == IF Len(answers[p]) < MaxAnswers THEN Append(answers[p], R)
                   ELSE Append(Tail(answers[p]), R)
  <2>2. s \in Seq(SUBSET Headers) /\ Len(s) <= MaxAnswers
    <3>1. CASE Len(answers[p]) < MaxAnswers
      BY <2>1, <3>1
    <3>2. CASE ~(Len(answers[p]) < MaxAnswers)
      <4>1. answers[p] # << >>
        BY <2>1, <3>2
      <4>2. Tail(answers[p]) \in Seq(SUBSET Headers) /\ Len(Tail(answers[p])) = Len(answers[p]) - 1
        BY <2>1, <4>1
      <4>. QED BY <2>1, <3>2, <4>2
    <3>. QED BY <3>1, <3>2
  <2>3. answers' = [answers EXCEPT ![p] = s]
    BY Zenon, <1>2 DEF Fetch
  <2>. HIDE DEF s
  <2>. QED BY <2>2, <2>3 DEF AnswersOK
<1>3. CASE LoopStep
  <2>1. ASSUME NEW p \in Peers, NEW A \in SUBSET Headers, PacketCase(p, A) PROVE AnswersOK'
    BY Zenon, <1>1, <2>1 DEF PacketCase
  <2>2. ASSUME NEW c \in 1 .. MaxCount, AssignReserve(c) PROVE AnswersOK'
    <3>1. round.peer \in Peers
      BY DEF RoundOK, Rounds
    <3>2. pendPool'[Kind][round.peer] \in SUBSET Headers
      BY <3>1 DEF TypeOK, Kind, Kinds
    <3>3. CASE answers' = answers
      BY Zenon, <3>3 DEF AnswersOK
    <3>4. CASE \E R \in {{}, pendPool'[Kind][round.peer]} : Fetch(round.peer, R)
      BY Zenon, <1>2, <3>1, <3>2, <3>4
    <3>. QED BY Zenon, <2>2, <3>3, <3>4 DEF AssignReserve
  <2>. QED BY Zenon, <1>3, <2>1, <2>2 DEF AnswersOK, LoopStep, CancelCase, WakeCase, UpdateExpire,
           UpdatePending, UpdateInFlight, Turn, AssignStop, AssignTurn, ReserveTurn, UpdateCheck
<1>4. CASE PeerStep
  BY Zenon, <1>1, <1>4 DEF AnswersOK, PeerStep, Unregister, UnregisterRevoke, Register, LoseAnswer
<1>5. CASE HeaderStep \/ ContentStep \/ Cancel \/ UNCHANGED allVars
  BY Zenon, <1>5 DEF AnswersOK, HeaderStep, ContentStep, Cancel, allVars, fetchVars
<1>. QED BY Zenon, <1>3, <1>4, <1>5 DEF FetchNext

(* The loop goes from one of its places to another and returns one of its results. *)
LEMMA FlagsStep == FlagsOK /\ [FetchNext]_allVars => FlagsOK'
<1>. SUFFICES ASSUME FlagsOK, [FetchNext]_allVars PROVE FlagsOK'
  OBVIOUS
<1>1. \A b : (cancelled \/ b) \in BOOLEAN
  OBVIOUS
<1>2. CASE LoopStep
  <2>1. /\ headersDone' = headersDone /\ (finished' = finished \/ finished' = TRUE)
        /\ cancelled' = cancelled \/ \E b : cancelled' = (cancelled \/ b)
    BY Zenon, <1>2 DEF LoopStep, CancelCase, WakeCase, PacketCase, UpdateExpire, UpdatePending,
       UpdateInFlight, Turn, AssignStop, AssignTurn, ReserveTurn, AssignReserve, UpdateCheck
  <2>2. pc' = pc \/ pc' \in {"select", "pending", "inflight", "assign", "reserve", "check", "returned"}
    BY Zenon, <1>2 DEF LoopStep, CancelCase, WakeCase, PacketCase, UpdateExpire, UpdatePending,
       UpdateInFlight, Turn, AssignStop, AssignTurn, ReserveTurn, AssignReserve, UpdateCheck, Return
  <2>3. result' = result \/ result' \in {"nil", "errCancel", "errNoPeers", "errPeersUnavailable",
                                        "errInvalidChain", "panic"}
    BY Zenon, <1>2 DEF LoopStep, CancelCase, WakeCase, PacketCase, UpdateExpire, UpdatePending,
       UpdateInFlight, Turn, AssignStop, AssignTurn, ReserveTurn, AssignReserve, UpdateCheck, Return
  <2>. QED BY <1>1, <2>1, <2>2, <2>3 DEF FlagsOK
<1>3. CASE PeerStep \/ HeaderStep \/ ContentStep \/ Cancel \/ UNCHANGED allVars
  <2>1. finished' = finished /\ pc' = pc /\ result' = result
    BY Zenon, <1>3 DEF PeerStep, Unregister, UnregisterRevoke, Register, LoseAnswer,
       HeaderStep, ContentStep, Cancel, loopVars, fetchVars, allVars
  <2>2. /\ headersDone' = headersDone \/ headersDone' = TRUE
        /\ cancelled' = cancelled \/ cancelled' = TRUE \/ \E b : cancelled' = (cancelled \/ b)
    BY Zenon, <1>3 DEF PeerStep, Unregister, UnregisterRevoke, Register, LoseAnswer,
       HeaderStep, ContentStep, Cancel, fetchVars, allVars
  <2>. QED BY <1>1, <2>1, <2>2 DEF FlagsOK
<1>. QED BY Zenon, <1>2, <1>3 DEF FetchNext

(***************************************************************************)
(* The variables of fetchParts and of the peer set keep their types: a peer *)
(* is registered, on its way out or not yet connected, never two of these.  *)
(***************************************************************************)
THEOREM FetchTypes == FetchSpec => []FetchTypeOK
<1>1. FetchInit => PeersOK /\ FlagsOK
  BY DEF FetchInit, PeersOK, FlagsOK
<1>2. FetchInit => AnswersOK
  BY FetchAssumption DEF FetchInit, AnswersOK
<1>3. FetchSpec => []RoundOK
  BY RoundInit, RoundStep, PTL DEF FetchSpec
<1>4. FetchSpec => []TypeOK
  BY FetchImplementsQueue, TypeCorrect, PTL
<1>5. PeersOK /\ AnswersOK /\ FlagsOK /\ RoundOK => FetchTypeOK
  BY Zenon DEF PeersOK, AnswersOK, FlagsOK, RoundOK, FetchTypeOK
<1>. QED BY <1>1, <1>2, <1>3, <1>4, <1>5, PeersStep, AnswersStep, FlagsStep, PTL DEF FetchSpec
=============================================================================
