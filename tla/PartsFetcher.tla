---------------------------- MODULE PartsFetcher ----------------------------
(***************************************************************************)
(* fetchParts (eth/downloader/downloader.go), the loop that hands the tasks *)
(* of the download queue to peers, for the block bodies of a full           *)
(* synchronisation: the queue of DownloadQueue, the peers with their idle   *)
(* flags, the answers on their way, and the goroutines that register and    *)
(* unregister peers beside the loop.                                        *)
(*                                                                         *)
(* Every call into the queue is one step, because the queue is locked only  *)
(* for the length of a call: between two calls of one iteration other       *)
(* goroutines schedule headers, take results and revoke requests.           *)
(***************************************************************************)
EXTENDS DownloadQueue

CONSTANTS
  Master,         \* the peer the synchronisation was started with
  Leavers,        \* the peers that may disconnect
  MinFails,       \* a timed out request of more headers is forgiven (2)
  MaxAnswers      \* answers under way per peer; older ones are lost

ASSUME FetchAssumption ==
  /\ Master \in Peers /\ Leavers \subseteq Peers
  /\ MinFails \in Nat /\ MaxAnswers \in Nat \ {0}

VARIABLES
  peers,          \* the registered peers
  fresh,          \* peers that have not connected yet
  leaving,        \* peers out of the peer set whose tasks are not revoked yet
  busy,           \* peers whose blockIdle flag is 1
  answers,        \* answers[p]: the requests p has yet to answer, in order
  headersDone,    \* the header processor has sent its final wake-up (false)
  finished,       \* the loop has received it
  cancelled,      \* cancelCh is closed
  pc,             \* where the loop stands
  round,          \* local variables of one pass over the idle peers
  result          \* what the loop returned

loopVars == <<finished, pc, round, result>>
peerVars == <<peers, fresh, leaving, busy>>
fetchVars == <<peerVars, answers, headersDone, cancelled, loopVars>>

Kind == "body"

NoRound == [idles |-> {}, peer |-> Master, all |-> FALSE, progressed |-> FALSE,
            throttled |-> FALSE, running |-> FALSE]

FetchInit ==
  /\ Init /\ mode = "FullSync"
  /\ peers \in SUBSET Peers /\ Master \in peers
  /\ fresh = Peers \ peers /\ leaving = {} /\ busy = {}
  /\ answers = [p \in Peers |-> << >>]
  /\ headersDone = FALSE /\ cancelled = FALSE
  /\ finished = FALSE /\ pc = "select" /\ round = NoRound /\ result = "none"

Return(r) == pc' = "returned" /\ result' = r /\ round' = NoRound

-----------------------------------------------------------------------------
\* As the select would be if it looked at cancelCh only after the last header.
CancelCase_afterLast ==
  /\ pc = "select" /\ cancelled /\ finished
  /\ Return("errCancel")
  /\ UNCHANGED <<vars, peerVars, answers, headersDone, cancelled, finished>>

(***************************************************************************)
(* select: the synchronisation is cancelled; or the wake-up channel says    *)
(* that no header will follow.                                              *)
(***************************************************************************)
CancelCase ==
  /\ pc = "select" /\ cancelled
  /\ Return("errCancel")
  /\ UNCHANGED <<vars, peerVars, answers, headersDone, cancelled, finished>>

WakeCase ==
  /\ pc = "select" /\ headersDone /\ ~finished
  /\ finished' = TRUE
  /\ UNCHANGED <<vars, peerVars, answers, headersDone, cancelled, pc, round, result>>

(***************************************************************************)
(* The headers of request R that an answer with the bodies of A completes:  *)
(* bodies are matched with headers position by position.                    *)
(***************************************************************************)
Matched(R, A) == UNION (Prefixes(R) \cap Prefixes(A))

Stale(R, A) == A # {} /\ Matched(R, A) = {}

\* As the packet case would be without setIdle after an accepted delivery.
PacketCase_staysBusy(p, A) ==
  /\ pc = "select"
  /\ answers[p] # << >> /\ A \subseteq Head(answers[p])
  /\ answers' = [answers EXCEPT ![p] = Tail(@)]
  /\ p \in peers /\ pendPool[Kind][p] # {}
  /\ Deliver(Kind, p, Matched(pendPool[Kind][p], A), A = {})
  /\ UNCHANGED <<peerVars, headersDone, cancelled, loopVars>>

(***************************************************************************)
(* select: a packet of p with the bodies of A, some of those its oldest     *)
(* open request asked for.  It is matched with whatever p is asked for now. *)
(* A stale packet leaves the idle flag alone.  The peer may be unregistered *)
(* after the loop looked it up (it is leaving then).                        *)
(***************************************************************************)
PacketCase(p, A) ==
  /\ pc = "select"
  /\ answers[p] # << >> /\ A \subseteq Head(answers[p])
  /\ answers' = [answers EXCEPT ![p] = Tail(@)]
  /\ \/ /\ p \notin peers
        /\ UNCHANGED <<vars, busy, pc, round, result>>
     \/ /\ p \in peers \cup leaving /\ pendPool[Kind][p] = {}
        /\ busy' = busy \ {p}
        /\ UNCHANGED <<vars, pc, round, result>>
     \/ /\ p \in peers \cup leaving /\ pendPool[Kind][p] # {}
        /\ Deliver(Kind, p, Matched(pendPool[Kind][p], A), A = {})
        /\ IF err' = "errInvalidChain"
             THEN Return("errInvalidChain") /\ UNCHANGED busy
             ELSE /\ busy' = IF Stale(pendPool[Kind][p], A) THEN busy ELSE busy \ {p}
                  /\ UNCHANGED <<pc, round, result>>
  /\ UNCHANGED <<peers, fresh, leaving, headersDone, cancelled, finished>>

-----------------------------------------------------------------------------
(***************************************************************************)
(* One iteration of the update case.  First the requests of the peers in P  *)
(* time out: a large request is forgiven, a small one drops its peer        *)
(* (dropPeer unregisters it, which revokes its tasks and, for the master,   *)
(* cancels).                                                                *)
(***************************************************************************)
UpdateExpire(P) ==
  /\ pc = "select"
  /\ \/ /\ peers = {} /\ P = {}
        /\ Return("errNoPeers")
        /\ UNCHANGED <<vars, peerVars, cancelled>>
     \/ LET forgiven == {p \in P \cap peers : Cardinality(pendPool[Kind][p]) > MinFails}
            dropped  == (P \cap peers) \ forgiven
        IN /\ peers # {}
           /\ Expire(Kind, P)
           /\ busy' = busy \ forgiven
           /\ peers' = peers \ dropped
           /\ cancelled' = (cancelled \/ Master \in dropped)
           /\ pc' = "pending"
           /\ UNCHANGED <<fresh, leaving, round, result>>
  /\ UNCHANGED <<answers, headersDone, finished>>

(***************************************************************************)
(* pending() == 0: the loop asks inFlight() next; otherwise it reads        *)
(* inFlight() and the idle peers and starts to assign tasks.                *)
(***************************************************************************)
InFlight == \E p \in Peers : pendPool[Kind][p] # {}

\* As idlePeers would be if it did not test the idle flag.
IdlePeers_all == peers

IdlePeers == peers \ busy

UpdatePending ==
  /\ pc = "pending"
  /\ IF taskQueue[Kind] = {}
       THEN pc' = "inflight" /\ UNCHANGED round
       ELSE /\ pc' = "assign"
            /\ round' = [idles |-> IdlePeers, peer |-> Master, all |-> IdlePeers = peers,
                         progressed |-> FALSE, throttled |-> FALSE, running |-> InFlight]
  /\ UNCHANGED <<vars, peerVars, answers, headersDone, cancelled, finished, result>>

UpdateInFlight ==
  /\ pc = "inflight"
  /\ IF ~InFlight /\ finished
       THEN Return("nil")
       ELSE pc' = "select" /\ UNCHANGED <<round, result>>
  /\ UNCHANGED <<vars, peerVars, answers, headersDone, cancelled, finished>>

(***************************************************************************)
(* FetchBodies: the request sent to p, whose flag was clear.  With the flag *)
(* set already the loop panics.                                             *)
(***************************************************************************)
Fetch(p, R) ==
  /\ busy' = busy \cup {p}
  /\ answers' = [answers EXCEPT ![p] =
       IF Len(@) < MaxAnswers THEN Append(@, R) ELSE Append(Tail(@), R)]

(***************************************************************************)
(* The next idle peer's turn, until the loop is throttled, out of tasks or  *)
(* out of idle peers.                                                       *)
(***************************************************************************)
Throttled == resultSlots(Kind) <= 0

AssignStop ==
  /\ pc = "assign"
  /\ round.idles = {} \/ Throttled \/ taskQueue[Kind] = {}
  /\ pc' = "check"
  /\ round' = [round EXCEPT !.throttled = round.idles # {} /\ Throttled]
  /\ UNCHANGED <<vars, peerVars, answers, headersDone, cancelled, finished, result>>

AssignTurn(p) ==
  /\ pc = "assign" /\ p \in round.idles
  /\ ~Throttled /\ taskQueue[Kind] # {}
  /\ pc' = "reserve"
  /\ round' = [round EXCEPT !.idles = @ \ {p}, !.peer = p]
  /\ UNCHANGED <<vars, peerVars, answers, headersDone, cancelled, finished, result>>

(***************************************************************************)
(* reserve up to c tasks for the peer and send it the request.              *)
(***************************************************************************)
AssignReserve(c) ==
  LET p == round.peer
      reserves == taskQueue[Kind] # {} /\ pendPool[Kind][p] = {}
      request  == IF reserves THEN pendPool'[Kind][p] ELSE {}
      next     == [round EXCEPT !.progressed = @ \/ donePool'[Kind] # donePool[Kind],
                                !.running = @ \/ request # {}]
  IN /\ pc = "reserve"
     /\ IF reserves THEN Reserve(Kind, p, c) ELSE UNCHANGED vars
     /\ \/ /\ err' = "errInvalidChain"
           /\ Return("errInvalidChain") /\ UNCHANGED <<busy, answers>>
        \/ /\ err' # "errInvalidChain" /\ request = {}
           /\ pc' = "assign" /\ round' = next /\ UNCHANGED <<result, busy, answers>>
        \/ /\ err' # "errInvalidChain" /\ request # {} /\ p \notin busy
           /\ pc' = "assign" /\ round' = next /\ Fetch(p, request) /\ UNCHANGED result
        \/ /\ err' # "errInvalidChain" /\ request # {} /\ p \in busy
           /\ Return("panic") /\ UNCHANGED <<busy, answers>>
     /\ UNCHANGED <<peers, fresh, leaving, headersDone, cancelled, finished>>

(***************************************************************************)
(* Every peer was idle and tried, nothing runs, and tasks are left.         *)
(***************************************************************************)
UpdateCheck ==
  /\ pc = "check"
  /\ IF /\ ~round.progressed /\ ~round.throttled /\ ~round.running
        /\ round.all /\ taskQueue[Kind] # {}
       THEN Return("errPeersUnavailable")
       ELSE pc' = "select" /\ round' = NoRound /\ UNCHANGED result
  /\ UNCHANGED <<vars, peerVars, answers, headersDone, cancelled, finished>>

-----------------------------------------------------------------------------
(***************************************************************************)
(* UnregisterPeer, called by the protocol handler: out of the peer set,     *)
(* then Revoke, then cancel if the peer is the master.                      *)
(***************************************************************************)
Unregister(p) ==
  /\ p \in peers \cap Leavers
  /\ peers' = peers \ {p} /\ leaving' = leaving \cup {p}
  /\ UNCHANGED <<vars, fresh, busy, answers, headersDone, cancelled, loopVars>>

UnregisterRevoke(p) ==
  /\ p \in leaving
  /\ Revoke(p)
  /\ leaving' = leaving \ {p}
  /\ cancelled' = (cancelled \/ p = Master)
  /\ UNCHANGED <<peers, fresh, busy, answers, headersDone, loopVars>>

(***************************************************************************)
(* RegisterPeer: another peer connects, idle.                               *)
(***************************************************************************)
Register(p) ==
  /\ p \in fresh
  /\ fresh' = fresh \ {p} /\ peers' = peers \cup {p}
  /\ UNCHANGED <<vars, leaving, busy, answers, headersDone, cancelled, loopVars>>

(***************************************************************************)
(* An answer never comes.                                                   *)
(***************************************************************************)
LoseAnswer(p) ==
  /\ answers[p] # << >>
  /\ answers' = [answers EXCEPT ![p] = Tail(@)]
  /\ UNCHANGED <<vars, peerVars, headersDone, cancelled, loopVars>>

(***************************************************************************)
(* The header processor and the content processor, as the queue sees them.  *)
(***************************************************************************)
HeaderStep ==
  /\ ~headersDone
  /\ \/ \E chunk \in Chunks : Schedule(chunk) /\ UNCHANGED headersDone
     \/ err = "none" /\ headersDone' = TRUE /\ UNCHANGED vars
  /\ UNCHANGED <<peerVars, answers, cancelled, loopVars>>

ContentStep ==
  /\ ResultsWait \/ ResultsTake
  /\ UNCHANGED fetchVars

Cancel ==
  /\ ~cancelled /\ cancelled' = TRUE
  /\ UNCHANGED <<vars, peerVars, answers, headersDone, loopVars>>

Turn == AssignStop \/ \E p \in Peers : AssignTurn(p)
ReserveTurn == \E c \in 1 .. MaxCount : AssignReserve(c)

LoopStep ==
  \/ CancelCase
  \/ WakeCase
  \/ \E p \in Peers : \E A \in SUBSET Headers : PacketCase(p, A)
  \/ \E P \in SUBSET Peers : UpdateExpire(P)
  \/ UpdatePending
  \/ UpdateInFlight
  \/ Turn
  \/ ReserveTurn
  \/ UpdateCheck

PeerStep ==
  \E p \in Peers : Unregister(p) \/ UnregisterRevoke(p) \/ Register(p) \/ LoseAnswer(p)

FetchNext == LoopStep \/ PeerStep \/ HeaderStep \/ ContentStep \/ Cancel

allVars == <<vars, fetchVars>>

FetchSpec == FetchInit /\ [][FetchNext]_allVars

(***************************************************************************)
(* The loop's goroutine keeps running: an iteration that has begun goes on, *)
(* and select, which picks at random among the ready cases, takes a case    *)
(* that is ready again and again at some point.                             *)
(***************************************************************************)
LoopFairness ==
  /\ SF_allVars(CancelCase)
  /\ WF_allVars(UpdatePending) /\ WF_allVars(UpdateInFlight)
  /\ WF_allVars(Turn) /\ WF_allVars(ReserveTurn) /\ WF_allVars(UpdateCheck)

(***************************************************************************)
(* With peers that answer every request in time, each answer a leading part *)
(* of what was asked: nothing expires, nothing is lost, nobody leaves.  The *)
(* ticker fires, the answers are received and the content processor takes   *)
(* what is complete.                                                        *)
(***************************************************************************)
HonestPacket ==
  \E p \in Peers : /\ answers[p] # << >>
                   /\ \E A \in Prefixes(Head(answers[p])) \ {{}} : PacketCase(p, A)

Tick == UpdateExpire({})

HonestNext ==
  \/ CancelCase \/ WakeCase \/ HonestPacket \/ Tick \/ UpdatePending \/ UpdateInFlight
  \/ Turn \/ ReserveTurn \/ UpdateCheck
  \/ HeaderStep \/ ContentStep \/ Cancel

HonestSpec ==
  /\ FetchInit /\ [][HonestNext]_allVars /\ LoopFairness
  /\ SF_allVars(WakeCase) /\ SF_allVars(HonestPacket) /\ SF_allVars(Tick)
  /\ WF_allVars(ContentStep)

-----------------------------------------------------------------------------
Rounds == [idles : SUBSET Peers, peer : Peers, all : BOOLEAN, progressed : BOOLEAN,
           throttled : BOOLEAN, running : BOOLEAN]

(***************************************************************************)
(* Every variable of the loop and of the peer set stays within its type.    *)
(***************************************************************************)
FetchTypeOK ==
  /\ peers \subseteq Peers /\ fresh \subseteq Peers \ peers
  /\ leaving \subseteq Peers \ peers /\ busy \subseteq Peers
  /\ answers \in [Peers -> Seq(SUBSET Headers)]
  /\ \A p \in Peers : Len(answers[p]) <= MaxAnswers
  /\ {headersDone, finished, cancelled} \subseteq BOOLEAN
  /\ pc \in {"select", "pending", "inflight", "assign", "reserve", "check", "returned"}
  /\ round \in Rounds
  /\ result \in {"none", "nil", "errCancel", "errNoPeers", "errPeersUnavailable",
                 "errInvalidChain", "panic"}

(***************************************************************************)
(* No peer is assigned a second request while its idle flag says it is      *)
(* fetching: the panic of fetchParts ("fetch assignment failed") and the    *)
(* overflow error of the queue are unreachable, whatever expires, leaves or *)
(* answers late.                                                            *)
(***************************************************************************)
NoDoubleAssignment == result \notin {"panic", "errInvalidChain"}

(***************************************************************************)
(* A peer with an open request has its flag set, so that the idle peers a   *)
(* pass offers tasks to can take them.                                      *)
(***************************************************************************)
RequestedIsBusy == \A p \in Peers : pendPool[Kind][p] # {} => p \in busy

(***************************************************************************)
(* The loop returns without error only once nothing is left to fetch: no    *)
(* scheduled header still owes its body.                                    *)
(***************************************************************************)
DoneMeansFetched == result = "nil" => taskPool[Kind] = {}

StaleAnswer(p) ==
  /\ p \in peers /\ answers[p] # << >> /\ pendPool[Kind][p] # {}
  /\ Stale(pendPool[Kind][p], Head(answers[p]))
  /\ PacketCase(p, Head(answers[p]))

(***************************************************************************)
(* "If the delivery is stale, the peer should already be idle": a complete  *)
(* answer that is stale when it arrives comes from a peer whose flag is     *)
(* clear.                                                                   *)
(***************************************************************************)
StaleMeansIdle == [][\A p \in Peers : StaleAnswer(p) => p \notin busy]_allVars

(***************************************************************************)
(* errPeersUnavailable is returned only after the peers have been tried and *)
(* have failed: some peer is known to lack a task of the queue.             *)
(***************************************************************************)
UnavailableMeansTried ==
  [][result' = "errPeersUnavailable" /\ result = "none" /\ peers # {}
       => \E p \in Peers : taskQueue[Kind] \cap lacking[p] # {}]_allVars

(***************************************************************************)
(* A cancelled loop returns, at whatever point the cancellation reaches it. *)
(***************************************************************************)
CancelEnds == cancelled ~> pc = "returned"

(***************************************************************************)
(* With honest peers the loop returns once every header is scheduled:       *)
(* throttling, partial answers and the idle flags never leave it waiting    *)
(* for a request nobody will make.  (It may return errPeersUnavailable, see *)
(* UnavailableMeansTried.)                                                  *)
(***************************************************************************)
FetchEnds == (headersDone /\ err = "none") ~> pc = "returned"
=============================================================================
