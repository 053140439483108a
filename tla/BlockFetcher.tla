---------------------------- MODULE BlockFetcher ----------------------------
(***************************************************************************)
(* The block fetcher (eth/fetcher/fetcher.go): announced hashes are         *)
(* fetched, first the header, then the body, from one of the peers that     *)
(* announced them; complete blocks wait in a queue and are imported by one  *)
(* goroutine each.  One loop owns all the maps; the import goroutines and   *)
(* the rest of the node run beside it and share the chain with it.          *)
(*                                                                         *)
(* Between two events the loop passes its top: it forgets expired fetches   *)
(* and starts the imports that fit the height it read there.  A block       *)
(* stands for its own hash.  Clocks are left out: any set of announcements  *)
(* may be due when a timer fires, any fetch may have expired.               *)
(***************************************************************************)
EXTENDS Integers, Sequences, FiniteSets

CONSTANTS
  Peers,
  Blocks,         \* every block hash some peer may name
  Number,         \* Number[b]: its block number
  Parent,         \* Parent[b]: its parent, a block or Genesis
  Body,           \* Body[b]: its transactions and uncles; blocks may share one
  EmptyBody,      \* the body of a block without transactions and uncles
  Valid,          \* the blocks whose header passes verifyHeader
  Honest,         \* the peers that announce and send valid blocks only
  Genesis,
  None,           \* an absent map entry
  hashLimit,      \* announcements a peer may have open
  blockLimit,     \* queued blocks a peer may have
  maxUncleDist,   \* how far below the head a block is still of use
  maxQueueDist,   \* how far above the head a block is still of use
  MaxInputs,      \* announcements and blocks received (bounds the model)
  MaxBodies       \* bodies in a packet (bounds the model)

ASSUME FetcherAssumption ==
  /\ IsFiniteSet(Blocks)
  /\ Number \in [Blocks -> Nat \ {0}]
  /\ Parent \in [Blocks -> Blocks \cup {Genesis}] /\ Genesis \notin Blocks
  /\ Valid \subseteq Blocks /\ Honest \subseteq Peers
  /\ hashLimit \in Nat /\ blockLimit \in Nat /\ MaxInputs \in Nat /\ MaxBodies \in Nat
  /\ maxUncleDist \in Nat /\ maxQueueDist \in Nat

(***************************************************************************)
(* An announcement carries the number the peer promised, and the header     *)
(* once it has arrived.  A queued block carries the peer it came from; the  *)
(* body of a block a peer sends may not belong to its header.               *)
(***************************************************************************)
announce == [origin : Peers, number : Nat, header : BOOLEAN]
inject == [origin : Peers, good : BOOLEAN]
import == [hash : Blocks, origin : Peers, good : BOOLEAN,
           stage : {"parent", "verify", "insert", "done"}]

ASSUME NoneAssumption == None \notin announce /\ None \notin inject

VARIABLES
  announces,      \* announces[p]: the counter of p's open announcements
  announced,      \* announced[b]: announcements waiting for the fetch timer
  fetching,       \* fetching[b]: the one whose header is being fetched
  fetched,        \* fetched[b]: those with a header, waiting for the timer
  completing,     \* completing[b]: the one whose body is being fetched
  fetchArmed,     \* fetchTimer is set
  completeArmed,  \* completeTimer is set
  queue,          \* the blocks in the import queue
  queued,         \* queued[b]: what is queued or being imported
  queues,         \* queues[p]: the counter of p's queued blocks
  pc,             \* where the loop stands
  top,            \* the height the loop read at its top
  batch,          \* the blocks this event is about, with their places in the packet
  imports,        \* the import goroutines
  known,          \* the blocks of the local chain (getBlock)
  height,         \* the number of the chain's head (chainHeight)
  dropped,        \* history: the peers dropPeer was called for
  inputs          \* number of announcements and blocks received

noteVars == <<announces, announced, fetching, fetched, completing>>
timerVars == <<fetchArmed, completeArmed>>
queueVars == <<queue, queued, queues>>
chainVars == <<known, height>>
vars == <<noteVars, timerVars, queueVars, pc, top, batch, imports, chainVars, dropped, inputs>>

Init ==
  /\ announces = [p \in Peers |-> 0]
  /\ announced = [b \in Blocks |-> << >>]
  /\ fetching = [b \in Blocks |-> None]
  /\ fetched = [b \in Blocks |-> << >>]
  /\ completing = [b \in Blocks |-> None]
  /\ fetchArmed = TRUE /\ completeArmed = TRUE
  /\ queue = {} /\ queued = [b \in Blocks |-> None] /\ queues = [p \in Peers |-> 0]
  /\ pc = "top" /\ top = 0 /\ batch = {} /\ imports = {}
  /\ known = {Genesis} /\ height = 0
  /\ dropped = {} /\ inputs = 0

-----------------------------------------------------------------------------
(***************************************************************************)
(* forgetHash for the blocks of H: every trace of them counts its origin    *)
(* down once.                                                               *)
(***************************************************************************)
One(a) == IF a = None THEN << >> ELSE <<a>>

Traces(b) == announced[b] \o One(fetching[b]) \o fetched[b] \o One(completing[b])

TracesOf(p, H) ==
  UNION {{<<b, i>> : i \in {j \in DOMAIN Traces(b) : Traces(b)[j].origin = p}} : b \in H}

Uncount(H) == [p \in Peers |-> announces[p] - Cardinality(TracesOf(p, H))]

Clear(f, H, empty) == [b \in Blocks |-> IF b \in H THEN empty ELSE f[b]]

forgetHash(H) ==
  /\ announces' = Uncount(H)
  /\ announced' = Clear(announced, H, << >>)
  /\ fetching' = Clear(fetching, H, None)
  /\ fetched' = Clear(fetched, H, << >>)
  /\ completing' = Clear(completing, H, None)

(* mutant: the peer's allowance is not given back *)
forgetBlock_keepsCount(b) == queued' = [queued EXCEPT ![b] = None] /\ UNCHANGED queues

forgetBlock(b) ==
  /\ queued' = [queued EXCEPT ![b] = None]
  /\ queues' = IF queued[b] = None THEN queues
               ELSE [queues EXCEPT ![queued[b].origin] = @ - 1]

(***************************************************************************)
(* enqueue.  The allowance is tested before the block is looked up.         *)
(***************************************************************************)
Far(b) == Number[b] - height < -maxUncleDist \/ Number[b] - height > maxQueueDist

(* mutant: the allowance is tested before the block is counted *)
enqueue_oneMore(p, b, good) ==
  IF queues[p] > blockLimit \/ Far(b)
    THEN forgetHash({b}) /\ UNCHANGED queueVars
    ELSE /\ UNCHANGED noteVars
         /\ IF queued[b] # None THEN UNCHANGED queueVars
              ELSE /\ queues' = [queues EXCEPT ![p] = @ + 1]
                   /\ queued' = [queued EXCEPT ![b] = [origin |-> p, good |-> good]]
                   /\ queue' = queue \cup {b}

(* mutant: only the queue is searched for the block, not the imports *)
enqueue_again(p, b, good) ==
  IF queues[p] + 1 > blockLimit \/ Far(b)
    THEN forgetHash({b}) /\ UNCHANGED queueVars
    ELSE /\ UNCHANGED noteVars
         /\ IF b \in queue THEN UNCHANGED queueVars
              ELSE /\ queues' = [queues EXCEPT ![p] = @ + 1]
                   /\ queued' = [queued EXCEPT ![b] = [origin |-> p, good |-> good]]
                   /\ queue' = queue \cup {b}

enqueue(p, b, good) ==
  IF queues[p] + 1 > blockLimit \/ Far(b)
    THEN forgetHash({b}) /\ UNCHANGED queueVars
    ELSE /\ UNCHANGED noteVars
         /\ IF queued[b] # None THEN UNCHANGED queueVars
              ELSE /\ queues' = [queues EXCEPT ![p] = @ + 1]
                   /\ queued' = [queued EXCEPT ![b] = [origin |-> p, good |-> good]]
                   /\ queue' = queue \cup {b}

-----------------------------------------------------------------------------
(***************************************************************************)
(* The top of the loop: the fetches of E have expired.  Then blocks are     *)
(* popped in number order until one is too high for the height read above.  *)
(***************************************************************************)
Top(E) ==
  /\ pc = "top"
  /\ \A b \in E : fetching[b] # None
  /\ forgetHash(E)
  /\ top' = height /\ pc' = "import"
  /\ UNCHANGED <<timerVars, queueVars, batch, imports, chainVars, dropped, inputs>>

Lowest(b) == b \in queue /\ \A c \in queue : Number[b] <= Number[c]

ImportWait ==
  /\ pc = "import"
  /\ queue = {} \/ \E b \in queue : Lowest(b) /\ Number[b] > top + 1
  /\ pc' = "select"
  /\ UNCHANGED <<noteVars, timerVars, queueVars, top, batch, imports, chainVars, dropped, inputs>>

Useless(b) == Number[b] + maxUncleDist < top \/ b \in known

ImportPop(b) ==
  /\ pc = "import"
  /\ Lowest(b) /\ Number[b] <= top + 1
  /\ queue' = queue \ {b}
  /\ IF Useless(b)
       THEN forgetBlock(b) /\ UNCHANGED imports
       ELSE /\ imports' = imports \cup {[hash |-> b, origin |-> queued[b].origin,
                                         good |-> queued[b].good, stage |-> "parent"]}
            /\ UNCHANGED <<queued, queues>>
  /\ UNCHANGED <<noteVars, timerVars, pc, top, batch, chainVars, dropped, inputs>>

-----------------------------------------------------------------------------
(***************************************************************************)
(* case notify: peer p announces block b and says its number is n (0 from   *)
(* an old protocol).                                                        *)
(***************************************************************************)
OutOfRange(n) == n > 0 /\ (n - height < -maxUncleDist \/ n - height > maxQueueDist)

(* mutant: a block that is being fetched may be announced again *)
Notify_whileFetching(p, b, n) ==
  /\ pc = "select" /\ inputs < MaxInputs
  /\ p \in Honest => b \in Valid /\ n = Number[b]
  /\ inputs' = inputs + 1 /\ pc' = "top"
  /\ IF announces[p] + 1 > hashLimit \/ OutOfRange(n) \/ completing[b] # None
       THEN UNCHANGED <<noteVars, timerVars>>
       ELSE /\ announces' = [announces EXCEPT ![p] = @ + 1]
            /\ announced' = [announced EXCEPT ![b] =
                 Append(@, [origin |-> p, number |-> n, header |-> FALSE])]
            /\ fetchArmed' = (fetchArmed \/ \A c \in Blocks \ {b} : announced[c] = << >>)
            /\ UNCHANGED <<fetching, fetched, completing, completeArmed>>
  /\ UNCHANGED <<queueVars, top, batch, imports, chainVars, dropped>>

(* mutant: the first announcement does not set the timer *)
Notify_noTimer(p, b, n) ==
  /\ pc = "select" /\ inputs < MaxInputs
  /\ p \in Honest => b \in Valid /\ n = Number[b]
  /\ inputs' = inputs + 1 /\ pc' = "top"
  /\ IF \/ announces[p] + 1 > hashLimit \/ OutOfRange(n)
        \/ fetching[b] # None \/ completing[b] # None
       THEN UNCHANGED <<noteVars, timerVars>>
       ELSE /\ announces' = [announces EXCEPT ![p] = @ + 1]
            /\ announced' = [announced EXCEPT ![b] =
                 Append(@, [origin |-> p, number |-> n, header |-> FALSE])]
            /\ UNCHANGED <<fetching, fetched, completing, timerVars>>
  /\ UNCHANGED <<queueVars, top, batch, imports, chainVars, dropped>>

Notify(p, b, n) ==
  /\ pc = "select" /\ inputs < MaxInputs
  /\ p \in Honest => b \in Valid /\ n = Number[b]
  /\ inputs' = inputs + 1 /\ pc' = "top"
  /\ IF \/ announces[p] + 1 > hashLimit \/ OutOfRange(n)
        \/ fetching[b] # None \/ completing[b] # None
       THEN UNCHANGED <<noteVars, timerVars>>
       ELSE /\ announces' = [announces EXCEPT ![p] = @ + 1]
            /\ announced' = [announced EXCEPT ![b] =
                 Append(@, [origin |-> p, number |-> n, header |-> FALSE])]
            /\ fetchArmed' = (fetchArmed \/ \A c \in Blocks \ {b} : announced[c] = << >>)
            /\ UNCHANGED <<fetching, fetched, completing, completeArmed>>
  /\ UNCHANGED <<queueVars, top, batch, imports, chainVars, dropped>>

(***************************************************************************)
(* case inject: peer p sent a whole block.                                  *)
(***************************************************************************)
Inject(p, b, good) ==
  /\ pc = "select" /\ inputs < MaxInputs
  /\ p \in Honest => b \in Valid /\ good
  /\ inputs' = inputs + 1 /\ pc' = "top"
  /\ enqueue(p, b, good)
  /\ UNCHANGED <<timerVars, top, batch, imports, chainVars, dropped>>

(***************************************************************************)
(* case done: an import goroutine has finished.                             *)
(***************************************************************************)
Done(r) ==
  /\ pc = "select" /\ r \in imports /\ r.stage = "done"
  /\ imports' = imports \ {r}
  /\ forgetHash({r.hash}) /\ forgetBlock(r.hash)
  /\ pc' = "top"
  /\ UNCHANGED <<timerVars, queue, top, batch, chainVars, dropped, inputs>>

(***************************************************************************)
(* case fetchTimer: the announcements of D are due; one of each is chosen   *)
(* at random, the header is requested from its peer.                        *)
(***************************************************************************)
Entries(s) == {s[i] : i \in DOMAIN s}

Choices(f, D) ==
  {pick \in [D -> UNION {Entries(f[b]) : b \in D}] : \A b \in D : pick[b] \in Entries(f[b])}

Pending(f) == {b \in Blocks : f[b] # << >>}

(* mutant: the timer is not set again for announcements not yet due *)
FetchTimer_once(D, pick) ==
  /\ pc = "select" /\ fetchArmed
  /\ D \subseteq Pending(announced)
  /\ announces' = Uncount(D)
  /\ announced' = Clear(announced, D, << >>)
  /\ fetching' = [b \in Blocks |-> IF b \in D \ known THEN pick[b]
                                   ELSE IF b \in D THEN None ELSE fetching[b]]
  /\ fetched' = Clear(fetched, D, << >>)
  /\ completing' = Clear(completing, D, None)
  /\ fetchArmed' = FALSE
  /\ pc' = "top"
  /\ UNCHANGED <<completeArmed, queueVars, top, batch, imports, chainVars, dropped, inputs>>

FetchTimer(D, pick) ==
  /\ pc = "select" /\ fetchArmed
  /\ D \subseteq Pending(announced)
  /\ announces' = Uncount(D)
  /\ announced' = Clear(announced, D, << >>)
  /\ fetching' = [b \in Blocks |-> IF b \in D \ known THEN pick[b]
                                   ELSE IF b \in D THEN None ELSE fetching[b]]
  /\ fetched' = Clear(fetched, D, << >>)
  /\ completing' = Clear(completing, D, None)
  /\ fetchArmed' = (Pending(announced) # D)
  /\ pc' = "top"
  /\ UNCHANGED <<completeArmed, queueVars, top, batch, imports, chainVars, dropped, inputs>>

(***************************************************************************)
(* case completeTimer: the bodies of all fetched headers are requested.     *)
(***************************************************************************)
CompleteTimer(pick) ==
  LET D == Pending(fetched)
  IN /\ pc = "select" /\ completeArmed
     /\ announces' = Uncount(D)
     /\ announced' = Clear(announced, D, << >>)
     /\ fetching' = Clear(fetching, D, None)
     /\ fetched' = Clear(fetched, D, << >>)
     /\ completing' = [b \in Blocks |-> IF b \in D \ known THEN pick[b]
                                        ELSE IF b \in D THEN None ELSE completing[b]]
     /\ completeArmed' = FALSE
     /\ pc' = "top"
     /\ UNCHANGED <<fetchArmed, queueVars, top, batch, imports, chainVars, dropped, inputs>>

-----------------------------------------------------------------------------
(***************************************************************************)
(* case headerFilter, first loop: the header of block b arrives from p (the *)
(* handler of the protocol passes packets of one header only).  If it was   *)
(* asked of p it is kept: a wrong number drops the peer, a block without a  *)
(* body is complete.                                                        *)
(***************************************************************************)
WithHeader(a) == [origin |-> a.origin, number |-> a.number, header |-> TRUE]

Wanted(p, b) == /\ fetching[b] # None /\ fetching[b].origin = p
                /\ fetched[b] = << >> /\ completing[b] = None /\ queued[b] = None

(* mutant: the header may come from any peer, and the sender is dropped *)
HeaderFilter_dropsSender(p, b) ==
  LET wrong == Number[b] # fetching[b].number
      empty == Body[b] = EmptyBody
  IN /\ pc = "select"
     /\ IF fetching[b] = None \/ ~Wanted(fetching[b].origin, b) THEN UNCHANGED <<noteVars, dropped>> /\ batch' = {}
        ELSE IF wrong \/ b \in known
          THEN /\ forgetHash({b})
               /\ dropped' = IF wrong THEN dropped \cup {p} ELSE dropped
               /\ batch' = {}
          ELSE /\ fetching' = [fetching EXCEPT ![b] = WithHeader(@)]
               /\ completing' = IF empty THEN [completing EXCEPT ![b] = WithHeader(fetching[b])]
                                ELSE completing
               /\ batch' = {<<1, b>>}
               /\ UNCHANGED <<announces, announced, fetched, dropped>>
     /\ pc' = IF batch' = {} THEN "top" ELSE "reply"
     /\ UNCHANGED <<timerVars, queueVars, top, imports, chainVars, inputs>>

HeaderFilter(p, b) ==
  LET wrong == Number[b] # fetching[b].number
      empty == Body[b] = EmptyBody
  IN /\ pc = "select"
     /\ IF ~Wanted(p, b) THEN UNCHANGED <<noteVars, dropped>> /\ batch' = {}
        ELSE IF wrong \/ b \in known
          THEN /\ forgetHash({b})
               /\ dropped' = IF wrong THEN dropped \cup {fetching[b].origin} ELSE dropped
               /\ batch' = {}
          ELSE /\ fetching' = [fetching EXCEPT ![b] = WithHeader(@)]
               /\ completing' = IF empty THEN [completing EXCEPT ![b] = WithHeader(fetching[b])]
                                ELSE completing
               /\ batch' = {<<1, b>>}
               /\ UNCHANGED <<announces, announced, fetched, dropped>>
     /\ pc' = IF batch' = {} THEN "top" ELSE "reply"
     /\ UNCHANGED <<timerVars, queueVars, top, imports, chainVars, inputs>>

(***************************************************************************)
(* case bodyFilter, first loop: the list B of bodies arrives from p.  A     *)
(* body completes every block it belongs to that was requested from p.      *)
(***************************************************************************)
Completes(p, B) == {e \in (1..Len(B)) \X Blocks :
                      /\ completing[e[2]] # None /\ completing[e[2]].origin = p
                      /\ queued[e[2]] = None /\ Body[e[2]] = B[e[1]]}

BodyFilter(p, B) ==
  /\ pc = "select"
  /\ forgetHash({e[2] : e \in Completes(p, B)} \cap known)
  /\ batch' = {e \in Completes(p, B) : e[2] \notin known}
  /\ pc' = IF batch' = {} THEN "top" ELSE "reply"
  /\ UNCHANGED <<timerVars, queueVars, top, imports, chainVars, dropped, inputs>>

(***************************************************************************)
(* Both cases, once the caller has taken back the rest: a header without    *)
(* its body waits for the complete timer, what is complete is enqueued, in  *)
(* the order of the list, if it is still wanted.                            *)
(***************************************************************************)
Reply ==
  LET incomplete == {b \in Blocks : completing[b] = None /\ \E e \in batch : e[2] = b}
  IN /\ pc = "reply"
     /\ fetched' = [b \in Blocks |-> IF b \in incomplete THEN Append(fetched[b], fetching[b])
                                     ELSE fetched[b]]
     /\ completeArmed' = (completeArmed \/ (Pending(fetched) = {} /\ incomplete # {}))
     /\ batch' = {e \in batch : e[2] \notin incomplete}
     /\ pc' = IF batch' = {} THEN "top" ELSE "enqueue"
     /\ UNCHANGED <<announces, announced, fetching, completing, fetchArmed, queueVars,
                    top, imports, chainVars, dropped, inputs>>

EnqueueNext(b) ==
  /\ pc = "enqueue"
  /\ \E e \in batch : /\ e[2] = b /\ \A d \in batch : e[1] <= d[1]
                      /\ batch' = batch \ {e}
  /\ pc' = IF batch' = {} THEN "top" ELSE "enqueue"
  /\ IF completing[b] # None
       THEN enqueue(completing[b].origin, b, TRUE)
       ELSE UNCHANGED <<noteVars, queueVars>>
  /\ UNCHANGED <<timerVars, top, imports, chainVars, dropped, inputs>>

(***************************************************************************)
(* case quit, at the select or while the answer of a filter is handed back. *)
(***************************************************************************)
Quit ==
  /\ pc \in {"select", "reply"} /\ pc' = "stopped"
  /\ UNCHANGED <<noteVars, timerVars, queueVars, top, batch, imports, chainVars, dropped, inputs>>

-----------------------------------------------------------------------------
(***************************************************************************)
(* insert, one goroutine per block: the parent is looked up, the header is  *)
(* verified, the block is inserted, then done is sent to the loop.          *)
(***************************************************************************)
Advance(r, stage) == imports' = (imports \ {r}) \cup {[r EXCEPT !.stage = stage]}

(* mutant: done is not sent when the parent is unknown *)
ImportParent_silent(r) ==
  /\ r \in imports /\ r.stage = "parent"
  /\ IF Parent[r.hash] \in known THEN Advance(r, "verify") ELSE imports' = imports \ {r}
  /\ UNCHANGED <<noteVars, timerVars, queueVars, pc, top, batch, chainVars, dropped, inputs>>

ImportParent(r) ==
  /\ r \in imports /\ r.stage = "parent"
  /\ Advance(r, IF Parent[r.hash] \in known THEN "verify" ELSE "done")
  /\ UNCHANGED <<noteVars, timerVars, queueVars, pc, top, batch, chainVars, dropped, inputs>>

ImportVerify(r) ==
  /\ r \in imports /\ r.stage = "verify"
  /\ Advance(r, IF r.hash \in Valid THEN "insert" ELSE "done")
  /\ dropped' = IF r.hash \in Valid THEN dropped ELSE dropped \cup {r.origin}
  /\ UNCHANGED <<noteVars, timerVars, queueVars, pc, top, batch, chainVars, inputs>>

ImportInsert(r, h) ==
  /\ r \in imports /\ r.stage = "insert"
  /\ Advance(r, "done")
  /\ \/ /\ r.good /\ h \in {height, Number[r.hash]}
        /\ known' = known \cup {r.hash} /\ height' = h
     \/ h = height /\ UNCHANGED chainVars
  /\ UNCHANGED <<noteVars, timerVars, queueVars, pc, top, batch, dropped, inputs>>

(***************************************************************************)
(* The downloader, the miner or a reorganisation extend the chain beside    *)
(* the fetcher; the head may move to the new block or stay.                 *)
(***************************************************************************)
ChainGrows(b, h) ==
  /\ b \in Valid \ known /\ Parent[b] \in known
  /\ h \in {height, Number[b]}
  /\ known' = known \cup {b} /\ height' = h
  /\ UNCHANGED <<noteVars, timerVars, queueVars, pc, top, batch, imports, dropped, inputs>>

Bodies == {Body[b] : b \in Blocks}
BodyLists == UNION {[1..n -> Bodies] : n \in 1..MaxBodies}
Claims == {Number[b] : b \in Blocks} \cup {0}

LoopStep ==
  \/ \E E \in SUBSET Blocks : Top(E)
  \/ ImportWait \/ Reply
  \/ \E b \in Blocks : ImportPop(b) \/ EnqueueNext(b)
  \/ \E r \in imports : Done(r)
  \/ \E D \in SUBSET Pending(announced) : \E pick \in Choices(announced, D) : FetchTimer(D, pick)
  \/ \E pick \in Choices(fetched, Pending(fetched)) : CompleteTimer(pick)

InputStep ==
  \/ \E p \in Peers, b \in Blocks, n \in Claims : Notify(p, b, n)
  \/ \E p \in Peers, b \in Blocks, good \in BOOLEAN : Inject(p, b, good)
  \/ \E p \in Peers, b \in Blocks : HeaderFilter(p, b)
  \/ \E p \in Peers, B \in BodyLists : BodyFilter(p, B)
  \/ Quit

Heights == {Number[b] : b \in Blocks} \cup {0}

ImportStep ==
  \E r \in imports : ImportParent(r) \/ ImportVerify(r) \/ \E h \in Heights : ImportInsert(r, h)

Next ==
  \/ LoopStep \/ InputStep \/ ImportStep
  \/ \E b \in Blocks, h \in Heights : ChainGrows(b, h)

Spec == Init /\ [][Next]_vars

(***************************************************************************)
(* The loop and the import goroutines keep running; select takes at random  *)
(* among the ready cases, so a case that is ready again and again is taken; *)
(* time passes, so every announcement becomes due.  Nothing is assumed of   *)
(* the peers.                                                               *)
(***************************************************************************)
Due(b) == \E D \in SUBSET Pending(announced) : \E pick \in Choices(announced, D) :
            b \in D /\ FetchTimer(D, pick)

Fairness ==
  /\ WF_vars(\E E \in SUBSET Blocks : Top(E))
  /\ WF_vars(ImportWait \/ Reply \/ \E b \in Blocks : ImportPop(b) \/ EnqueueNext(b))
  /\ WF_vars(ImportStep)
  /\ SF_vars(\E r \in imports : Done(r))
  /\ \A b \in Blocks : SF_vars(Due(b))
  /\ SF_vars(\E pick \in Choices(fetched, Pending(fetched)) : CompleteTimer(pick))

FairSpec == Spec /\ Fairness

-----------------------------------------------------------------------------
(***************************************************************************)
(* Every variable stays within its type.                                    *)
(***************************************************************************)
TypeOK ==
  /\ announces \in [Peers -> Int]
  /\ announced \in [Blocks -> Seq(announce)] /\ fetched \in [Blocks -> Seq(announce)]
  /\ fetching \in [Blocks -> announce \cup {None}]
  /\ completing \in [Blocks -> announce \cup {None}]
  /\ fetchArmed \in BOOLEAN /\ completeArmed \in BOOLEAN
  /\ queue \subseteq Blocks /\ queued \in [Blocks -> inject \cup {None}]
  /\ queues \in [Peers -> 0..blockLimit]
  /\ pc \in {"top", "import", "select", "reply", "enqueue", "stopped"}
  /\ top \in Nat /\ batch \subseteq Nat \X Blocks /\ imports \subseteq import
  /\ known \subseteq Blocks \cup {Genesis} /\ height \in Nat
  /\ dropped \subseteq Peers /\ inputs \in Nat

(***************************************************************************)
(* The queue allowance is exact: the counter of a peer is the number of its *)
(* blocks that are queued or being imported, whichever of enqueue, the top  *)
(* of the loop and done touched them last, and it stays within blockLimit.  *)
(***************************************************************************)
QueueAllowance ==
  \A p \in Peers :
    /\ queues[p] = Cardinality({b \in Blocks : queued[b] # None /\ queued[b].origin = p})
    /\ queues[p] <= blockLimit

(***************************************************************************)
(* A block is imported by one goroutine at a time, and while it is it       *)
(* cannot be queued again: queued holds exactly the blocks of the queue and *)
(* of the running imports.                                                  *)
(***************************************************************************)
ImportedOnce ==
  /\ \A b \in Blocks : queued[b] # None <=> (b \in queue \/ \E r \in imports : r.hash = b)
  /\ \A r \in imports : r.hash \notin queue
  /\ \A r, s \in imports : r.hash = s.hash => r = s

(***************************************************************************)
(* An announced block that waits for the fetch timer is not being fetched:  *)
(* no block is requested twice at the same time.  What waits for a body or  *)
(* for the complete timer has its header (body matching reads it).          *)
(***************************************************************************)
OneStage ==
  \A b \in Blocks :
    /\ announced[b] # << >> => fetching[b] = None /\ fetched[b] = << >> /\ completing[b] = None
    /\ completing[b] # None => completing[b].header /\ fetched[b] = << >>
    /\ \A i \in DOMAIN fetched[b] : fetched[b][i].header

(***************************************************************************)
(* Whatever waits for a timer has one: an announcement is never left        *)
(* without a fetch timer, a header never without a complete timer.          *)
(***************************************************************************)
TimersArmed ==
  /\ Pending(announced) # {} => fetchArmed
  /\ Pending(fetched) # {} => completeArmed

(***************************************************************************)
(* A peer that announces and sends valid blocks only is never dropped,      *)
(* whatever others announce, send or answer for the same blocks.            *)
(***************************************************************************)
HonestKept == dropped \cap Honest = {}

(***************************************************************************)
(* hashLimit is the most blocks a peer may have announced.                  *)
(***************************************************************************)
AnnounceLimit ==
  \A p \in Peers :
    Cardinality({b \in Blocks : \E i \in DOMAIN announced[b] : announced[b][i].origin = p}) <= hashLimit

(***************************************************************************)
(* An announced block is looked at by the fetch timer, unless the fetcher   *)
(* is stopped: no order of announcements, imports and firings leaves one    *)
(* without a timer.                                                         *)
(***************************************************************************)
AnnouncementsServed ==
  \A b \in Blocks : announced[b] # << >> ~> (announced[b] = << >> \/ pc = "stopped")

(***************************************************************************)
(* An import that was started ends, whatever its outcome, and releases its  *)
(* block and its peer's allowance, unless the fetcher is stopped.           *)
(***************************************************************************)
ImportsEnd ==
  \A b \in Blocks : (\E r \in imports : r.hash = b) ~> (queued[b] = None \/ pc = "stopped")

(***************************************************************************)
(* Stop cancels all pending operations: no import goroutine stays behind.   *)
(***************************************************************************)
StopCancels == pc = "stopped" ~> imports = {}
=============================================================================
