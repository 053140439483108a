# Formal models of the Ethereum node

TLA+ models of parts of this go-ethereum tree, checked with TLC on small
instances and, for the core, proved with TLAPS for every value of the
constants. `PROJECT.json` maps every definition to the source lines it stands
for and lists components, runs, mutants, findings, hazards and theorems.

Two subjects are covered. The block download machinery, `eth/downloader` and
`eth/fetcher`: several goroutines and many unreliable peers work on shared
pools, requests time out, peers come and go, answers are partial, wrong, late
or lost. And the storage side of the node, from the block chain database and
the transaction pool down to the state journal and the trie node cache: long
sequences of legal calls over several structures that must stay in step, and a
process that may die between any two database writes.

## 1. The system and its parts

| Part | State | Operations | What makes it hard |
|---|---|---|---|
| download queue (`eth/downloader/queue.go`) | task pools, task queues and pending requests for headers, bodies and receipts; result cache with offset and memory allowance; condition variable | Schedule, Reserve*, Deliver*, Expire*, Revoke, Results, Close, Reset, Prepare; ScheduleSkeleton, RetrieveHeaders | one lock, six goroutines; a header must be in one place; the cache is bounded; wake-ups |
| assignment loop (`fetchParts`, `peer.go`) | idle flags, lacking sets, the local state of a pass | select over cancel, packet, wake-up, ticker; a pass of expire, pending, in flight, idle, reserve, fetch | state read under one lock acquisition and used under the next; late answers |
| header download (`fetchHeaders`, `fillHeaderSkeleton`) | next number, skeleton or tail, forwarded counter | skeleton, filling, tail, timeout | two counters that must agree; untrusted fillers |
| synchronisation control (`synchronise`, `spawnSync`, `findAncestor`, `processHeaders`, `process*SyncContent`) | cancel channel, mode, pivot, rollback list | five goroutines joined by channels of capacity 1 | cancellation, roll-back, the pivot moving while blocks are imported |
| state sync (`statesync.go`) | trie-node tasks, active requests | assign, deliver, time out, hand over | requests that outlive the sync they were made for |
| block fetcher (`eth/fetcher`) | announced, fetching, fetched, completing, queue, queued and per-peer counters, two timers | notify, inject, filter headers and bodies, timers, imports, Stop | imports run beside the loop; a block passes through six maps |
| protocol handler (`eth/handler.go`, `sync.go`, `peer.go`) | peer set, known sets, broadcast queues | message dispatch, broadcast, removal | removal races every request |
| blockchain (`core/blockchain.go`, `headerchain.go`) | head block, fast block and header; canonical hashes; futures; caches | insert, write with or without state, reorganise, roll back, reset | several database writes per step and a crash between any two |
| transaction pool (`core/tx_pool.go`, `tx_list.go`) | pending, queue, all, priced heap, managed nonces | add, promote, demote, replace, evict, reset | caps, replacement and reorganisation interact |
| state and trie (`core/state`, `trie`) | objects, journal, snapshots; reference-counted node cache | revert, finalise, commit, dereference, cap | undo must be exact; shared nodes |
| consensus (`consensus/clique`, `ethash`) | signers, votes, recents | apply, seal, verify | voting windows across checkpoints |
| miner (`miner`) | current work, pending seals | new work, interrupts, results | results for work already replaced |
| events, filters, RPC, node (`event`, `eth/filters`, `rpc`, `node`) | subscriptions, pending requests, services | send, subscribe, dispatch, start, stop | unsubscription during a send; partial start |
| networking (`p2p`) | peers, dial tasks, buckets | checkpoints, dialling, revalidation | limits under concurrent hand-shakes |
| light client (`les`, `light`) | flow-control buffers, sent requests | distribute, retrieve, recharge | timeouts racing answers |
| virtual machine, cryptography, RLP, ABI, accounts, commands, Swarm, Whisper, monitoring | | | see section 7 |

The properties that matter: in the download path, nothing scheduled is lost,
fetched twice or delivered out of order, the cache does not overflow, every
loop ends, and honest peers are not punished; in the chain, the canonical
index agrees with the head, before and after a crash; in the pool, pending
transactions are executable in nonce order and the limits hold; in the state,
revert restores exactly.

## 2. Plan

In order of importance; the first eight are done.

1. `DownloadQueue`, with proofs: the queue of bodies and receipts.
2. `PartsFetcher`, extending it, with proofs: the loop, the peers and the
   processors around the queue; it is shown to implement the queue.
3. `BlockFetcher`, with proofs: announcements to imports.
4. `HeaderSkeleton`, with proofs: the download of headers.
5. `OrderedDelivery`, an abstract specification of what the queue promises (a
   scheduled chain comes out once and in order), and `DownloadQueue` shown to
   implement it, by a run and by proof.
6. `BlockChain`: insertion, reorganisation and the order of the writes, a crash
   between any two, `loadLastState` and `repair`.
7. `TxPool`: lists, promotion, demotion, limits, reset, journal.
8. `StateDB`, shown to implement `StateStack`; `TrieDatabase`.
9. `SyncPipeline`: `spawnSync` with its goroutines and channels, roll-back in
   `processHeaders`, the pivot; all goroutines end, and success means that what
   was scheduled was imported.
10. Clique snapshots, `event.Feed`, the miner's worker, dialling.

Theorems to add: the number index of `BlockChain` and the nonce order of
`TxPool` (both need their folds and recursive definitions restated first),
the flush list of `TrieDatabase`.

## 3. Modules

A header or a block stands for its own hash throughout; numbers, parents and
bodies are constant functions of it. Locks are modelled by making what happens
under one acquisition one action. Clocks are left out: any open request may have
expired, any announcement may be due. Encodings, logging and metrics are left out.

**DownloadQueue** (`queue.go`, bodies and receipts). The variables are the
fields of `queue`: `taskPool`, `taskQueue`, `pendPool` and `donePool` by kind,
`resultCache`, `resultOffset`, `headerHead`, `closed`; `limit` stands for the
slots that the measured result size leaves; `consumer` for the goroutine in
`Results`; `delivered` records what it got. One action per exported operation:
`NewSync` (Reset and Prepare), `Schedule`, `Reserve`, `Expire`, `Revoke`,
`MarkLacking`, `Deliver`, `Close`, and `ResultsWait`, `ResultsTake` and
`ResultsEmpty` for the two halves of the blocking `Results`. A priority queue
of headers is the set of them, popped lowest number first (`Prefixes`).

**PartsFetcher** (`fetchParts`, `peer.go`; extends DownloadQueue). Each lock
acquisition of a pass is a step of its own: `UpdateExpire`, `UpdatePending`,
`UpdateInFlight`, `AssignTurn`, `AssignReserve`, `UpdateCheck`; between them
peers register and leave (`Unregister`, then `UnregisterRevoke`), answers get
lost, headers are scheduled, results taken, the synchronisation cancelled.
`answers[p]` is what p has still to answer, so an answer may come after its
request expired and was replaced. `round` is the local state of a pass. The
loop of bodies is modelled; that of receipts differs by its callbacks only.

**HeaderSkeleton** (`fetchHeaders`, `fillHeaderSkeleton`, the header half of
`queue.go`). `from`, `skeleton` and `headers` are the locals of
`fetchHeaders`; the `header*` variables are the fields of the queue. The
operations run on one goroutine; the header processor, the peers and the
cancellation run beside it. A pass of `fetchParts` is not split further here:
nothing outside this goroutine changes the header pools (`Revoke` does not
touch them), and what peers leaving in mid-pass can do is the subject of
PartsFetcher. Peers other than an honest master send any list of headers at
any time. A tail is not checked before it is forwarded: a dishonest master sends
any list of `ForeignTails`, which the proofs leave arbitrary.

**BlockFetcher** (`fetcher.go`). The variables are the maps of `Fetcher`, the
two timers (set or not), the loop's position, the import goroutines and the
chain they share with the rest of the node. An iteration is `Top` (expired
fetches are forgotten and the height is read), `ImportPop` until the queue is
exhausted for that height, then one case of the select: `Notify`, `Inject`,
`Done`, `FetchTimer`, `CompleteTimer`, `HeaderFilter`, `BodyFilter`, `Quit`.
Filters answer their caller on a channel (`Reply`) before they enqueue. Header
packets have one header, the only size the handler passes on. Within one case
the chain is read once. An import has four stages, so that the chain may grow,
and Stop may come, between them.

**OrderedDelivery** is the abstract specification of the queue: `todo`, the
accepted chain, and `out`, what was handed out. `DownloadQueue` instantiates
it with the scheduled and delivered headers; `DeliversInOrder` says that the
queue implements it. `Schedule` is the input, `Results` the output, a new
synchronisation the reset, everything else a stuttering step.

**BlockChain** (`core/blockchain.go`, `headerchain.go`). `db` is what survives
a crash: headers, bodies, total difficulties, receipts, the number index
`canon`, the three head hashes and the states on disk. `mem` is what does not:
the three current blocks and the states referenced in memory. An operation
under `chainmu` is a list `todo` of steps, each one database write (a batch is
one) or one decision; `Crash` may come between any two. `InsertReceiptChain`
stores without the lock, so other operations, the downloader's roll-back among
them, fall between its two halves (`received`). A block that is looked up and
missing where the code does not test for nil is a `Panic`. `StateDownloaded` is
all there is of state synchronisation: nodes are written after their children, so
a state is there when its root is. `Restart` is `NewBlockChain` with `loadLastState` and `repair`.
Histories (`rewinding`, `pivoted`, `crashed`, `rewound`) only serve to say
when a property is promised.

**TxPool** (`core/tx_pool.go`, `tx_list.go`, `tx_journal.go`). Every public
operation holds the pool's lock throughout, so each is one action on one
record; each method is an operator from pool to pool. The price heap is a bag
`items` with the counter `stales`, as in the code; `pcap` and `qcap` are the
cost caps cached by the lists; `beats` is the order of the heartbeats; `o` is
the order in which Go happens to iterate over a map. Cost and gas are held
against a limit in the same way and are one attribute.

**StateDB** (`core/state`) is one record with the trie, the loaded objects,
the journal and its counts of dirty accounts; a storage root stands for the
storage it is the hash of. The field `ripemdTouched` is a history: whether the
transaction touched Ripemd, undone or not. Each kind of journal entry has its undo in
`revert`. **StateStack** says what the virtual machine relies on: a snapshot is
a copy, a revert brings it back exactly. `SnapshotsAreCopies` is the
refinement, through `View`, what can be read of a StateDB and of each snapshot
by undoing the journal.

**TrieDatabase** (`trie/database.go`) is one record with the nodes in memory,
their counts and the flush list as the code links it (`flushPrev`,
`flushNext`, `oldest`, `newest`); `disk` holds what was written. `Cap` and
`Commit` write batches under the read lock and drop from memory under the
write lock: `WriteBatch`, `WriteFails`, `Crash` and readers fall in between.
Callers hold the chain lock, so nothing is inserted there.

The `MC*` modules and `.cfg` files hold the instances, the `*Proofs` modules
the theorems. Definitions named `X_something` are variants of X with a
plausible mistake; each property is known to fail for one of them.

## 4. Runs

| Run | Instance | What it shows |
|---|---|---|
| `queue` | two peers (symmetric), four headers with a fork, an empty body and empty receipts, cache of two, allowance of one or two | `ExactlyOnePlace`, `NothingForgotten`, `NoIndexOverflow`, `NoLostWakeup`, and `DeliversInOrder`, the refinement; two modes, any number of synchronisations |
| `fetch` | two peers, one of which may leave, two headers, one open answer | `NoDoubleAssignment` |
| `fetch_live` | two honest peers, three headers, cache of three | `FetchEnds`, `CancelEnds` |
| `skeleton` | master and one more peer, batches of two, two batches to a skeleton, chain of five and a fork; honest and dishonest master, the latter with right and wrong tails | `TypeOK`, `OriginTrusted`, `OriginKept`, `BatchOnePlace`, `ForwardedOnce`, `FillEnds` |
| `block_fetcher` | an honest and another peer, a block, its child and an invalid sibling with the same body, limits of one and two | `ImportedOnce`, `QueueAllowance`, `OneStage`, `TimersArmed`, `HonestKept` |
| `block_fetcher_live` | one peer, two blocks | `AnnouncementsServed`, `ImportsEnd` |
| `blockchain` | seven blocks on three branches, one branch not executable, one state kept in memory, one crash, one rewind; full and fast synchronisation | the index follows the heads (`CanonicalChain`), heads stand on complete chains and have a state (`HeadUsable`), the heaviest executed block is the head (`HeaviestHead`), a crash leaves a database to start from (`StartsUnlessRewinding`), Stop loses nothing (`CleanStopKeepsHead`) |
| `txpool` | two accounts, six transactions with a replacement, four batches, a fork that takes back two transactions and leaves their sender poorer, limits of one to three | the structures agree (`IndexesAgree`), what is in the pool can be executed (`Executable`), limits (`PoolBound`, `HeadEnforcesLimits`), `LocalsKept` across restarts |
| `statedb` | one account of seven kinds, two transactions, journals and revisions of two | `SnapshotsAreCopies` (the refinement), `TrieExact`, `CommitComplete`, `CopySame`, `FinaliseKeeps` |
| `triedb` | two states that share nodes at different depths, one node twice in its parent, storage below an account, up to two references | `ListExact`, `ReferencesExact`, `Available`, `DiskClosed` |
| `fetch_done_early`, `block_fetcher_limit` | as above | disagreements, section 6 |

Six properties are conjunctions of parts with names of their own:
`HeadUsable` (`TypeOK`, `HeadComplete`, `HeadHasState`), `IndexesAgree`
(`TypeOK`, `OnePlace`, `PricedExact`), `Executable` (`Payable`,
`PendingFollows`), `TrieExact` (`TypeOK`, `TrieIsView`), `ListExact` (`TypeOK`,
`FlushListExact`) and `ReferencesExact` (`CountsExact`, `NoLeak`). An invariant
that is proved in section 5 and follows from the same induction as a listed one
(`PendingIsOwed`, `DeliveredInOrder`, `RequestedIsBusy`, `BatchesLinked`,
`NoPanic`, the type invariants of the queue, the loop and the block fetcher) is
in no run.

Bounds. Two peers are enough for every race between a peer that leaves or is
late and one that takes over its work. A cache of two with three headers makes
the cache fill and slide; a chain with a fork makes links fail. `MaxQueued`
bounds how far the header processor runs ahead, `MaxChunk` and `MaxCount` the
sizes of a schedule and of a request, `MaxResults` what Results takes at a time,
`MaxLacking` the lacking set, `MaxAnswers` the answers under way, `MinFails`
the number of expired items a peer is forgiven (2 in the code), `MaxInputs`
and `MaxBodies` what the block fetcher receives, `MaxFrom` the number up to which
a dishonest master goes on sending tails. In PartsFetcher and
HeaderSkeleton a peer id connects at most once. Deadlock is not checked
where the system may stop: a loop that has returned, a fetcher that was stopped.

In BlockChain `TriesInMemory` is one (128 in the code), so that blocks are
pruned while their branch is still of interest; seven blocks are enough for a
side chain on a pruned block, its adoption by a reorganisation, and a branch
that fails after it was preferred. `Networks` lists which chains one node
meets, and keeps apart those that need not meet; crash and rewind happen once each, and in either order. In TxPool the
limits are reached by four transactions, `MaxJournal` bounds the journal file
between rotations, `Batches` what peers send together. In StateDB one account
changes per block, and the kinds of account are enumerated instead; accounts
interact in the code only through the journal's order. `MaxOther` bounds
refunds, logs and preimages, which have one undo each. In TrieDatabase a batch
holds one node, so a crash may come after any of them.

Fairness. Of the code: a goroutine that can go on does (weak), and `select`
chooses at random among the ready cases, so a case that is ready again and
again is taken (strong). Tickers fire and time passes: an announcement becomes
due, an unanswered request expires. Of peers nothing is assumed, except in
`fetch_live`, where the question is whether the loop itself can get stuck:
there, peers answer in time with a non-empty part of what was asked.

## 5. Proofs

| Module | Theorems | Argument |
|---|---|---|
| `DownloadQueueProofs` | `Invariance`, `TypeCorrect`, `OnePlace`, `NoneForgotten`, `PendingExact`, `NeverOverflows`, `InOrder`, `AlwaysWoken` | `IndInv` |
| `PartsFetcherProofs` | `FetchImplementsQueue`, `LoopInvariance`, `NeverAssignedTwice`, `RequestsAreFlagged`, `FetchTypes`, `FetchOnePlace` | refinement, then `LoopInv` |
| `OrderedDeliveryProofs` | `ImplementsOrderedDelivery` | refinement from `IndInv` |
| `HeaderSkeletonProofs` | `SkeletonInvariant`, `SkeletonNoPanic`, `SkeletonOriginKept`, `SkeletonBatchesLinked`, `SkeletonBatchOnePlace` | `IInv` |
| `HeaderForwardProofs` | `ForwardInvariant`, `SkeletonForwardedOnce`, `SkeletonOriginTrusted`, `SkeletonTypes` | `OInv` beside `IInv` |
| `BlockFetcherProofs` | `FetcherInvariance`, `NeverImportedTwice`, `AllowanceExact`, `FetcherTypes`, `StagesDisjoint`, `TimersSet`, `HonestPeersKept` | `IInv` |

Assumptions are the named `ASSUME`s of the modules: finite sets of headers,
blocks and peers, positive numbers and sizes, markers (`Nil`, `None`) that
are no data; and `First <= Len(Chain) + 1` in HeaderSkeleton, because
`fetchHeaders` starts after an ancestor that was found on the master's chain.

*Queue.* That `reserveHeaders` never pops a header that has no slot rests on a
chain of facts: the headers scheduled and not yet handed out are consecutive
numbers from `resultOffset` (`ScheduledChain`); slots are allocated without
holes, and what is requested or done has one (`Slots`); every owed header is in one place, so the
headers below one that is popped are done or requested and are counted by
`resultSlots`. A counting lemma on intervals then bounds the index. `IndInv`
is these with the checked invariants; it is proved action by action. Order and
completeness of results follow from the slots carrying the scheduled chain.

*Loop.* Every step of `fetchParts` and of its environment is a step of the
queue or leaves it unchanged, so `FetchSpec => Spec` and the queue's invariants
hold under the loop. `LoopInv` adds that a peer with an open request has its
flag set, and that the flags of the peers still to be tried in a pass are clear,
which makes the panic on a double assignment unreachable.

*Block fetcher.* `IInv` adds to the checked invariants what each map may hold
at each stage, that the origin recorded with a valid-only peer's block names a
valid block, and that the counter of a peer is a cardinality, so that counting
down never misses.

*Ordered delivery.* The refinement maps `todo` to the scheduled headers not
yet handed out and `out` to the delivered ones. `Schedule` extends the first
by a linked list because it checks each parent against `headerHead`; `Results`
hands out a prefix because the slots carry the scheduled chain in order
(`IndInv`); every other action leaves both alone.

*Skeleton.* None of the checked invariants is inductive. `IInv` adds where the
queue's header fields may be non-empty (`QuietInv`: nothing is left over
outside of a filling), that batches start on a grid of `MaxHeaderFetch`
(`GridInv`), that a place is empty exactly while its batch is open
(`PlaceInv`, `FilledInv`), that the skeleton of an honest master is made of
its chain and it never failed a batch (`HonestInv`), and that the master is
registered until a cancellation (`PeerInv`): a batch others failed on can
still be given to it. `OInv` is about what leaves: a header at
number n *fits* when it has that number, unless the tail of a dishonest master
has begun, and, with an honest master, is the master's. A batch that is accepted ends in the master's skeleton header and is
linked, so it fits from its end backwards; since induction over data is not
available, the proof takes the last place where it would not fit and reaches
a contradiction with the link to the next. `CountInv` ties `from`,
`headerProced` and the length of what was forwarded.

*Types.* The type invariants hold variables the inductive invariants do not
need; each is proved beside them (`RestType` in the block fetcher; `PeersOK`,
`AnswersOK`, `FlagsOK` in the loop; `PoolsOK`, `LocalsOK`, `PeersOK` in the
skeleton). Not all of it is routine: `headerContCh` never gets a second message
because its first is sent when the task pool becomes empty, and `headers` holds
no empty place because what is forwarded fits (`OInv`).

Only model-checked: everything about BlockChain, TxPool, StateDB and TrieDatabase,
whose operators fold over sequences or are recursive; liveness
(`FetchEnds`, `CancelEnds`, `FillEnds`, `AnnouncementsServed`, `ImportsEnd`),
which needs reasoning about fairness and ENABLED that TLAPS does not support;
and the disagreements below, which are counterexamples.

## 6. Disagreements with comments and tests

Each is a counterexample that TLC finds with the configuration named. The
first two are runs of `PROJECT.json`, which quotes the comments. The others are
kept beside them as configurations to run by hand,
`tlc -config X.cfg M` with M the `MC` module whose name X begins with.

- `fetch_done_early` (`MCPartsFetcherLeave.cfg`): `fetchParts` reads
  `pending()` and `inFlight()` under two lock acquisitions; a peer leaving in
  between moves its tasks from one to the other and the loop reports success
  with tasks left.
- `block_fetcher_limit` (`MCBlockFetcherLimit.cfg`): `announces` is counted
  down more often than up, so `hashLimit` does not limit.
- `MCPartsFetcherStale.cfg`: the late answer of an expired request consumes the
  peer's next request and is called stale; the peer stays marked busy, though
  `downloader.go:1163` takes it to be idle.
- `MCPartsFetcherTried.cfg`: the allowance shrinks between `throttle()` and
  `reserve()`, and the loop reports that all peers failed though none was asked
  (`downloader.go:1285`).
- `MCHeaderSkeletonCancel.cfg`: a cancellation during the filling is returned
  as `errInvalidChain`, for which the master is dropped; the comment on
  `fetchHeaders` reserves that for a skeleton nobody can fill.
- `MCBlockFetcherStop.cfg`: imports under way at Stop block for ever on `done`,
  though Stop is said to cancel all pending operations (`fetcher.go:189`).
- `MCBlockChainStart.cfg`: SetHead deletes blocks before it moves the head
  hash. After a crash in between, `loadLastState` finds no head block and calls
  Reset, whose SetHead needs a current block that is not loaded yet: the node
  does not start, where the comment says it initialises from scratch.
- `MCBlockChainCurrent.cfg`: `insertIterator.current` returns nil for the last
  block of a chain, so `insertSidechain` has none for a chain of one block,
  where the comment says it returns the block being processed.
- `MCTxPoolNonce.cfg`: when a reset can take back only some transactions of an
  abandoned branch, a pending list gets a hole and the pending nonce falls
  behind the list, against `validateTxPoolInternals` of the pool's tests.
  `PendingFollows` says what holds otherwise.

Found by reading, without a run: only entries of `fetching` expire in the block
fetcher, so a block whose body never comes stays in `completing` and is not
announced again (`fetcher.go:294`, against the comment on `fetchTimeout`,
`fetcher.go:43`); a master that times out in `fetchHeaders` is dropped, which
cancels the synchronisation that the next comment wants to end gracefully
(`downloader.go:1006-1008`); when a batch of preimages cannot be written,
`trie.Database.Commit` returns without giving its read lock back.

The storage models also met behaviour that the code allows, and the
properties are stated around it:

- *BlockChain.* A roll-back during fast synchronisation moves the head to a
  block without state, so `HeadHasState` is about full synchronisation.
  SetHead removes only the canonical blocks above the new head; side headers
  and bodies stay without their parents, so `HeadComplete` is stated until
  SetHead is called; a roll-back, which deletes nothing, keeps it. A body without its header, left by a crash, counts as a known
  block. `FastSyncCommitHead` neither writes a head hash nor looks at the
  number index (`pivoted`). The index above the head may be stale after a
  reorganisation to a shorter, heavier chain.
- *TxPool.* A transaction that comes back while its own stale entry is in the
  price heap makes the count of stale entries too high; `PricedExact`, and it
  alone, is stated until that happens (`reentered`).
  `AddLocal` does not make an account local when it replaces a pending
  transaction. The global queue limit drops the accounts with the latest
  heartbeat first, where the comment says the oldest; an account without a
  heartbeat is evicted at the next tick. Replacements and price changes do not
  run the limits; the next head does (`HeadEnforcesLimits`).
- *StateDB.* `resetObjectChange` marks no account dirty. It does no harm as the
  virtual machine uses it: CreateAccount over an existing account only happens
  without nonce, code and storage. Copy in the middle of a transaction would
  lose what the journal marks dirty; all callers copy between transactions.
  The mark that an undone touch of Ripemd leaves reaches a copy as a dirty
  object, on which Commit acts and Finalise does not; `FinaliseKeeps` says so.
- *TrieDatabase.* A node written again after Cap took it to disk may be
  counted too often or too seldom; `CountsExact`, `Available` and `NoLeak` say
  that this only ever happens to nodes that are also on disk. The check for
  dangling nodes in `BlockChain.Stop` may therefore report one.

## 7. Not modelled

`PROJECT.json` lists every part with its reason.

Inside the modelled parts: the throughput and round-trip estimates of
`peer.go` (any size may be asked for, any request may be late); in BlockChain
the LRU caches, blocks from the future, the bad-block list, archive mode and
the events; `Cap` is taken not to lose a state, which TrieDatabase shows; a
lighter fork is taken not to be `triesInMemory` longer than the head; in the
pool the event feed, missing states and reorganisations deeper than 64 blocks;
in StateDB database errors and the cache of past tries; in TrieDatabase the
clean cache (contents are addressed by hash and disk is never cleaned, so it
cannot be stale) and the preimages, and sizes are one per node.

The virtual machine, the cryptography, ethash's data sets and the trezor
protocol are computations on wide words and byte strings, beyond exhaustive
checking. RLP, ABI, the database schema and the discovery packets are codecs.
Commands, console, mobile bindings, generated contract bindings, logging,
metrics and the dashboard translate or display; they are a large part of the
tree's lines and have no state of their own to get wrong. Swarm and Whisper
are systems of their own. What remains of section 1 (synchronisation control,
state synchronisation, the protocol handler, clique, the miner, events, RPC,
networking, the light client) can be modelled and is not yet.
