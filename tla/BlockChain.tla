------------------------------ MODULE BlockChain ------------------------------
(***************************************************************************)
(* core/blockchain.go and core/headerchain.go: the chain database, the      *)
(* heads kept in memory, and the operations that change them.  A block      *)
(* stands for its hash; Root gives its state root.                          *)
(*                                                                          *)
(* chainmu admits one operation at a time.  What is left of the running     *)
(* operation is todo, a list of steps; a step writes the database once,     *)
(* or decides which steps come next.  The process may crash between any     *)
(* two of them, and loses everything but the database.                      *)
(***************************************************************************)
EXTENDS Integers, FiniteSets, SequencesExt

CONSTANTS
  Blocks, Genesis,
  Parent, Difficulty, Root,   \* functions of a block
  Bad,                        \* blocks whose execution fails
  None,
  TriesInMemory,              \* triesInMemory
  Networks                    \* what a node may meet: records of fast (the
                              \* configured mode), and of the chains its peers
                              \* offer as blocks, and as headers and bodies

VARIABLES
  network,   \* the member of Networks that this node meets
  db,        \* the database: headers, bodies, tds, receipts (sets of blocks),
             \* canon, the three head hashes, and states, the roots whose tries are on disk
  mem,       \* currentBlock, currentHeader, currentFastBlock, and triegc, the
             \* blocks whose tries are referenced in memory
  todo,      \* the rest of the operation that holds chainmu
  received,  \* the block InsertReceiptChain has stored and not yet made head
  fast,      \* fast synchronisation (ProtocolManager.fastSync)
  status,    \* of the process: up, down, failed (it cannot start)
  processed, \* history: blocks executed since the last rewind or start
  rewinding, \* history: SetHead was running when the process last died
  pivoted,   \* history: fast synchronisation has moved the head block
  crashed,   \* history, and bound: the process has died without Stop
  rewound    \* history, and bound: "SetHead" or "Rollback" was called, or "no"

vars == <<network, db, mem, todo, received, fast, status, processed, rewinding, pivoted, crashed, rewound>>
rest == <<network, crashed, rewound>>

Number[b \in Blocks] == IF b = Genesis THEN 0 ELSE Number[Parent[b]] + 1

Td[b \in Blocks] == IF b = Genesis THEN Difficulty[b] ELSE Td[Parent[b]] + Difficulty[b]

Ancestors[b \in Blocks] == IF b = Genesis THEN {b} ELSE Ancestors[Parent[b]] \cup {b}

AncestorAt(b, n) == CHOOSE a \in Ancestors[b] : Number[a] = n

\* The blocks after number n up to b, in ascending order.
PathFrom(n, b) == [i \in 1..(Number[b] - n) |-> AncestorAt(b, n + i)]

Height == Max({Number[b] : b \in Blocks})

Op(name, bs) == [op |-> name, bs |-> bs]

Each(name, bs) == [i \in 1..Len(bs) |-> Op(name, <<bs[i]>>)]

Init ==
  /\ network \in Networks
  /\ db = [headers |-> {Genesis}, bodies |-> {Genesis}, tds |-> {Genesis}, receipts |-> {Genesis},
           canon |-> [n \in 0..Height |-> IF n = 0 THEN Genesis ELSE None],
           headBlock |-> Genesis, headHeader |-> Genesis, headFast |-> Genesis,
           states |-> {Root[Genesis]}]
  /\ mem = [block |-> Genesis, header |-> Genesis, fast |-> Genesis, triegc |-> {}]
  /\ todo = << >> /\ received = None /\ fast = network.fast /\ status = "up"
  /\ processed = {} /\ rewinding = FALSE /\ pivoted = FALSE /\ crashed = FALSE /\ rewound = "no"

-----------------------------------------------------------------------------
(***************************************************************************)
(* Reading the database.                                                    *)
(***************************************************************************)
Stored(b) == b \in db.headers \cap db.bodies

HasState(b) == Root[b] \in db.states \cup {Root[x] : x \in mem.triegc}

HasBlockAndState(b) == Stored(b) /\ HasState(b)

\* insertIterator.next: VerifyHeaders for the first block, ValidateBody for all.
Verdict(b) ==
  CASE Parent[b] \notin db.headers          -> "ErrUnknownAncestor"
    [] HasBlockAndState(b)                  -> "ErrKnownBlock"
    [] ~HasBlockAndState(Parent[b]) /\ Parent[b] \notin db.bodies -> "ErrUnknownAncestor"
    [] ~HasBlockAndState(Parent[b])         -> "ErrPrunedAncestor"
    [] OTHER                                -> "nil"

-----------------------------------------------------------------------------
(***************************************************************************)
(* Steps.  Step(name): the next step of the operation is of this kind, its  *)
(* block is Arg; Go(steps) puts steps before the remaining ones.            *)
(***************************************************************************)
Step(name) == status = "up" /\ todo # << >> /\ Head(todo).op = name

Arg == Head(todo).bs[1]

Go(steps) == todo' = steps \o Tail(todo)

Abort == todo' = << >>

\* What is left to do is to follow a nil pointer.
Panic == <<Op("panic", << >>)>>

Idle == status = "up" /\ todo = << >>

Aside == <<received, fast, status, processed, rewinding, pivoted, rest>>

\* The process dies: memory is lost.
Die ==
  /\ status' = "down" /\ todo' = << >> /\ received' = None
  /\ mem' = [block |-> Genesis, header |-> Genesis, fast |-> Genesis, triegc |-> {}]
  /\ processed' = {}
  /\ rewinding' = (todo # << >> /\ Last(todo).op = "load")
  /\ UNCHANGED <<db, fast, pivoted>>

WriteTd == Step("td") /\ db' = [db EXCEPT !.tds = @ \cup {Arg}] /\ Go(<< >>) /\ UNCHANGED <<mem, Aside>>

WriteBody ==
  Step("body") /\ db' = [db EXCEPT !.bodies = @ \cup {Arg}] /\ Go(<< >>) /\ UNCHANGED <<mem, Aside>>

WriteHeader ==
  Step("header") /\ db' = [db EXCEPT !.headers = @ \cup {Arg}] /\ Go(<< >>) /\ UNCHANGED <<mem, Aside>>

WriteReceipts ==
  Step("receipts") /\ db' = [db EXCEPT !.receipts = @ \cup {Arg}] /\ Go(<< >>) /\ UNCHANGED <<mem, Aside>>

WriteCanonical ==
  /\ Step("canon")
  /\ db' = [db EXCEPT !.canon[Number[Arg]] = Arg]
  /\ Go(<< >>) /\ UNCHANGED <<mem, Aside>>

WriteHeadBlock ==
  /\ Step("headBlock")
  /\ db' = [db EXCEPT !.headBlock = Arg] /\ mem' = [mem EXCEPT !.block = Arg]
  /\ Go(<< >>) /\ UNCHANGED Aside

WriteHeadHeader ==
  /\ Step("headHeader")
  /\ db' = [db EXCEPT !.headHeader = Arg] /\ mem' = [mem EXCEPT !.header = Arg]
  /\ Go(<< >>) /\ UNCHANGED Aside

WriteHeadFast ==
  /\ Step("headFast")
  /\ db' = [db EXCEPT !.headFast = Arg] /\ mem' = [mem EXCEPT !.fast = Arg]
  /\ Go(<< >>) /\ UNCHANGED Aside

-----------------------------------------------------------------------------
(***************************************************************************)
(* InsertChain.                                                             *)
(***************************************************************************)
InsertChain(bs) ==
  /\ Idle
  /\ fast => Parent[bs[1]] = mem.block /\ \A i \in 1..Len(bs) : bs[i] \in db.headers
  /\ todo' = <<Op("chain", bs)>>
  /\ pivoted' = (pivoted \/ fast)
  /\ UNCHANGED <<db, mem, received, fast, status, processed, rewinding, rest>>

\* The known blocks at the front of bs that are not ahead of the head.
Behind(bs) ==
  {i \in 1..Len(bs) : \A j \in 1..i : HasBlockAndState(bs[j]) /\ Number[bs[j]] <= Number[mem.block]}

\* The blocks insertSidechain writes: those before the first that is known or
\* whose parent has a state after all.
SidePrefix(bs) ==
  {i \in 1..Len(bs) :
     \A j \in 1..i : ~HasBlockAndState(bs[j]) /\ (j > 1 => ~HasState(bs[j - 1]))}

Ghost(b) ==
  LET c == db.canon[Number[b]]
  IN Number[b] <= Number[mem.block] /\ c # None /\ Stored(c) /\ Root[c] = Root[b]

WriteBlockWithoutState(b) ==
  IF b \in db.bodies THEN << >> ELSE Each("td", <<b>>) \o Each("body", <<b>>) \o Each("header", <<b>>)

Sidechain(bs) ==
  LET last    == Cardinality(SidePrefix(bs))
      ghosts  == {i \in 1..last : Ghost(bs[i])}
      written == IF ghosts = {} THEN last ELSE Min(ghosts) - 1
  IN FlattenSeq([i \in 1..written |-> WriteBlockWithoutState(bs[i])])
       \o (IF ghosts = {} THEN <<Op("adopt", <<bs[last]>>)>> ELSE << >>)

\* insertIterator.current, for the block at position i: nil at the last one.
Current(bs, i) == IF i >= Len(bs) THEN None ELSE bs[i]

\* insertChain, before its loop.  Without a current block insertSidechain has no
\* total difficulty to compare.
BeginChain ==
  /\ Step("chain")
  /\ LET bs == Head(todo).bs IN
       \/ Verdict(bs[1]) = "ErrUnknownAncestor" /\ Abort
       \/ Verdict(bs[1]) = "nil" /\ todo' = Each("import", bs)
       \/ Verdict(bs[1]) = "ErrKnownBlock"
            /\ todo' = Each("import", SubSeq(bs, Cardinality(Behind(bs)) + 1, Len(bs)))
       \/ Verdict(bs[1]) = "ErrPrunedAncestor"
            /\ todo' = IF Current(bs, 1) = None THEN Panic ELSE Sidechain(bs)
  /\ UNCHANGED <<db, mem, Aside>>

\* The end of insertSidechain: the ancestors without state are imported again,
\* unless a header is missing among them; a body that is missing is a nil block.
Adopt ==
  /\ Step("adopt")
  /\ LET lacking == {a \in Ancestors[Arg] : \A c \in Ancestors[Arg] :
                       Number[c] >= Number[a] => ~HasState(c)}
     IN IF Td[mem.block] > Td[Arg] \/ lacking = {} \/ {Arg} \cup {Parent[a] : a \in lacking} \notin SUBSET db.headers
        THEN Abort
        ELSE todo' = IF \E a \in lacking : ~Stored(a) THEN Panic
                     ELSE <<Op("chain", PathFrom(Number[Arg] - Cardinality(lacking), Arg))>>
  /\ UNCHANGED <<db, mem, Aside>>

\* Import that makes a block the head before it is stored.
Import_order ==
  /\ Step("import")
  /\ IF Verdict(Arg) # "nil" \/ Arg \in Bad THEN Abort
     ELSE Go(Each("td", <<Arg>>) \o Each("state", <<Arg>>) \o Each("choose", <<Arg>>)
             \o Each("body", <<Arg>>) \o Each("header", <<Arg>>))
  /\ UNCHANGED <<db, mem, Aside>>

\* A turn of insertChain's loop.
Import ==
  /\ Step("import")
  /\ IF Verdict(Arg) # "nil" \/ Arg \in Bad THEN Abort
     ELSE Go(Each("td", <<Arg>>) \o Each("body", <<Arg>>) \o Each("header", <<Arg>>)
             \o Each("state", <<Arg>>) \o Each("choose", <<Arg>>))
  /\ UNCHANGED <<db, mem, Aside>>

\* Oldest that keeps one state too few.
Oldest_next(b) == Number[b] - TriesInMemory + 1

\* The number whose canonical state is the oldest to keep; a header that is
\* missing there is a nil pointer.
Oldest(b) == Number[b] - TriesInMemory

NoOldest(b) == Oldest(b) > 0 /\ (db.canon[Oldest(b)] = None \/ db.canon[Oldest(b)] \notin db.headers)

\* The state goes to memory; states that are too old are dropped, the canonical
\* one possibly after it was written to disk.
CommitState ==
  /\ Step("state")
  /\ IF NoOldest(Arg) THEN todo' = Panic /\ UNCHANGED <<db, mem>>
     ELSE LET all  == mem.triegc \cup {Arg}
              gone == {b \in all : Oldest(Arg) > 0 /\ Number[b] <= Oldest(Arg)}
              kept == IF Oldest(Arg) > 0 THEN {Root[db.canon[Oldest(Arg)]]} \cap {Root[b] : b \in all} ELSE {}
          IN /\ mem' = [mem EXCEPT !.triegc = all \ gone]
             /\ \E flush \in SUBSET kept : db' = [db EXCEPT !.states = @ \cup flush]
             /\ Go(<< >>)
  /\ UNCHANGED Aside

\* Preferred that makes every executed block the head.
Preferred_any(b) == {TRUE}

\* writeBlockWithState: whether b becomes the head; equal blocks are chosen by
\* shouldPreserve or at random.
Preferred(b) ==
  IF Td[b] = Td[mem.block] /\ Number[b] = Number[mem.block] THEN BOOLEAN
  ELSE {Td[b] > Td[mem.block] \/ (Td[b] = Td[mem.block] /\ Number[b] < Number[mem.block])}

Fork(b, c) == Max({Number[a] : a \in Ancestors[b] \cap Ancestors[c]})

\* reorg reads every block down to the common one.
Walkable(b, c) ==
  \A a \in (Ancestors[b] \cup Ancestors[c]) \ {b, c} : Number[a] >= Fork(b, c) => Stored(a)

\* ChooseHead without reorg.
ChooseHead_newOnly ==
  /\ Step("choose")
  /\ \E reorg \in Preferred(Arg) :
       Go(Each("receipts", <<Arg>>) \o (IF reorg THEN Each("insert", <<Arg>>) ELSE << >>))
  /\ processed' = processed \cup {Arg}
  /\ UNCHANGED <<db, mem, received, fast, status, rewinding, pivoted, rest>>

ChooseHead ==
  /\ Step("choose")
  /\ \E reorg \in Preferred(Arg) :
       LET path == IF Parent[Arg] = mem.block THEN << >> ELSE PathFrom(Fork(Arg, mem.block), Arg)
       IN CASE ~reorg -> Go(Each("receipts", <<Arg>>))
            [] reorg /\ (path = << >> \/ Walkable(Arg, mem.block)) ->
                 Go(Each("insert", path) \o Each("receipts", <<Arg>>) \o Each("insert", <<Arg>>))
            [] OTHER -> Abort
  /\ processed' = processed \cup {Arg}
  /\ UNCHANGED <<db, mem, received, fast, status, rewinding, pivoted, rest>>

\* insert: the other heads follow when the canonical block changes.
Insert ==
  /\ Step("insert")
  /\ Go(Each("canon", <<Arg>>) \o Each("headBlock", <<Arg>>)
        \o (IF db.canon[Number[Arg]] = Arg THEN << >>
            ELSE Each("headHeader", <<Arg>>) \o Each("headFast", <<Arg>>)))
  /\ UNCHANGED <<db, mem, Aside>>

-----------------------------------------------------------------------------
(***************************************************************************)
(* Fast synchronisation: headers first, then bodies, then the state of a    *)
(* pivot block, and the blocks after it by InsertChain.                     *)
(***************************************************************************)
InsertHeaderChain(bs) ==
  /\ Idle /\ fast /\ Parent[bs[1]] \in db.headers
  /\ todo' = Each("writeHeader", bs)
  /\ UNCHANGED <<db, mem, Aside>>

\* The canonical numbers that WriteHeader rewrites, from b's parent downwards.
StaleBelow(b) ==
  {a \in Ancestors[b] \ {b} : \A c \in Ancestors[b] \ {b} : Number[c] >= Number[a] => db.canon[Number[c]] # c}

\* WriteHeaderChain that stores the total difficulty last.
WriteHeaderChain_tdLast ==
  /\ Step("writeHeader")
  /\ IF Arg \in db.headers THEN Go(<< >>)
     ELSE Go(Each("header", <<Arg>>) \o Each("chooseHeader", <<Arg>>) \o Each("td", <<Arg>>))
  /\ UNCHANGED <<db, mem, Aside>>

WriteHeaderChain ==
  /\ Step("writeHeader")
  /\ IF Arg \in db.headers THEN Go(<< >>)
     ELSE Go(Each("td", <<Arg>>) \o Each("header", <<Arg>>) \o Each("chooseHeader", <<Arg>>))
  /\ UNCHANGED <<db, mem, Aside>>

ChooseHeader ==
  /\ Step("chooseHeader")
  /\ \E reorg \in IF Td[Arg] = Td[mem.header] THEN BOOLEAN ELSE {Td[Arg] > Td[mem.header]} :
       LET below  == Reverse(PathFrom(Number[Arg] - 1 - Cardinality(StaleBelow(Arg)), Parent[Arg]))
           absent == {i \in 1..Len(below) : below[i] \notin db.headers}
       IN CASE ~reorg -> Go(<< >>)
            [] reorg /\ absent = {} ->
                 Go(Each("cut", <<Arg>>) \o Each("canon", below) \o Each("canon", <<Arg>>) \o Each("headHeader", <<Arg>>))
            [] OTHER -> todo' = Each("cut", <<Arg>>) \o Each("canon", SubSeq(below, 1, Min(absent))) \o Panic
  /\ UNCHANGED <<db, mem, Aside>>

\* The batch that deletes the canonical numbers above a new header.
CutCanonical ==
  /\ Step("cut")
  /\ db' = [db EXCEPT !.canon = [n \in 0..Height |->
        IF n > Number[Arg] /\ \A m \in (Number[Arg] + 1)..n : @[m] # None THEN None ELSE @[n]]]
  /\ Go(<< >>) /\ UNCHANGED <<mem, Aside>>

\* InsertReceiptChain stores the blocks that follow one with receipts, without
\* the lock ...
InsertReceiptChain(bs) ==
  /\ status = "up" /\ (todo # << >> => Last(todo).op # "halt") /\ fast /\ received = None
  /\ Parent[bs[1]] \in db.bodies \cap db.receipts /\ \A i \in 1..Len(bs) : bs[i] \in db.headers
  /\ LET new == {bs[i] : i \in 1..Len(bs)} \ db.bodies
     IN db' = [db EXCEPT !.bodies = @ \cup new, !.receipts = @ \cup new]
  /\ received' = bs[Len(bs)]
  /\ UNCHANGED <<mem, todo, fast, status, processed, rewinding, pivoted, rest>>

\* ... and then takes it to move the fast head, unless the header has gone.
MoveFastHead ==
  /\ Idle /\ received # None
  /\ todo' = IF received \in db.tds /\ Td[mem.fast] < Td[received] THEN Each("headFast", <<received>>) ELSE << >>
  /\ received' = None
  /\ UNCHANGED <<db, mem, fast, status, processed, rewinding, pivoted, rest>>

\* stateSync has written the state of a block, the root after all below it.
StateDownloaded(b) ==
  /\ Idle /\ fast /\ b \in db.headers /\ Root[b] \notin db.states
  /\ db' = [db EXCEPT !.states = @ \cup {Root[b]}]
  /\ UNCHANGED <<mem, todo, Aside>>

FastSyncCommitHead(b) ==
  /\ Idle /\ fast /\ received = None /\ HasBlockAndState(b) /\ b \in Ancestors[mem.fast]
  /\ mem' = [mem EXCEPT !.block = b] /\ processed' = {} /\ pivoted' = TRUE
  /\ UNCHANGED <<db, todo, received, fast, status, rewinding, rest>>

\* ProtocolManager.synchronise switches fast synchronisation off when it is
\* done, its pivot committed and the blocks after it imported, and on when only
\* the fast chain is ahead of genesis.
SwitchFast ==
  /\ Idle /\ received = None
  /\ IF fast THEN mem.block = mem.header /\ mem.block # Genesis /\ HasState(mem.block)
     ELSE Number[mem.block] = 0 /\ Number[mem.fast] > 0
  /\ fast' = ~fast
  /\ UNCHANGED <<db, mem, todo, received, status, processed, rewinding, pivoted, rest>>

-----------------------------------------------------------------------------
(***************************************************************************)
(* Rewinding, stopping, crashing and starting again.                        *)
(***************************************************************************)
SetHead(n) ==
  /\ Idle /\ rewound = "no" /\ n <= Number[mem.header]
  /\ todo' = <<Op("rewindHeaders", <<n>>), Op("rewindBlocks", << >>), Op("load", << >>)>>
  /\ rewound' = "SetHead"
  /\ UNCHANGED <<db, mem, received, fast, status, processed, rewinding, pivoted, network, crashed>>

\* RewindHeaders that goes one header too far and finds none below genesis.
RewindHeaders_nil ==
  /\ Step("rewindHeaders")
  /\ LET gone == {a \in Ancestors[mem.header] : Number[a] >= Arg}
         head == IF Arg = 0 THEN None ELSE AncestorAt(mem.header, Arg - 1)
     IN /\ db' = [db EXCEPT !.headers = @ \ gone, !.bodies = @ \ gone, !.tds = @ \ gone]
        /\ mem' = [mem EXCEPT !.header = head]
        /\ Go(Each("headHeader", <<head>>))
  /\ UNCHANGED Aside

\* HeaderChain.SetHead: one batch, and then the head header.
RewindHeaders ==
  /\ Step("rewindHeaders")
  /\ LET chain == Ancestors[mem.header]
         reach == {a \in chain : \A c \in chain : Number[c] > Number[a] => c \in db.headers}
         gone  == {a \in reach : Number[a] > Arg}
         head  == IF \E a \in reach \cap db.headers : Number[a] = Arg THEN AncestorAt(mem.header, Arg) ELSE Genesis
     IN /\ db' = [db EXCEPT !.headers = @ \ gone, !.bodies = @ \ gone, !.tds = @ \ gone,
                            !.canon = [n \in 0..Height |-> IF n \in (Arg + 1)..Number[mem.header] THEN None ELSE @[n]]]
        /\ mem' = [mem EXCEPT !.header = head]
        /\ Go(Each("headHeader", <<head>>))
  /\ UNCHANGED Aside

\* A head above the new header moves to it, to genesis where it is missing.
Lowered(b) ==
  IF Number[mem.header] >= Number[b] THEN b ELSE IF Stored(mem.header) THEN mem.header ELSE Genesis

RewindBlocks ==
  /\ Step("rewindBlocks")
  /\ LET block == IF HasState(Lowered(mem.block)) THEN Lowered(mem.block) ELSE Genesis
     IN /\ mem' = [mem EXCEPT !.block = block, !.fast = Lowered(mem.fast)]
        /\ Go(Each("headBlock", <<block>>) \o Each("headFast", <<Lowered(mem.fast)>>))
  /\ UNCHANGED <<db, Aside>>

\* repair: the nearest ancestor whose state is there.
Repaired(b) == CHOOSE a \in Ancestors[b] :
  HasState(a) /\ \A c \in Ancestors[b] : Number[c] > Number[a] => ~HasState(c)

Repairable(b) == \A a \in Ancestors[b] : Number[a] >= Number[Repaired(b)] => Stored(a)

\* loadLastState, with a head block that can be repaired.
LoadLastState ==
  LET block  == Repaired(db.headBlock)
      header == IF db.headHeader \in db.headers THEN db.headHeader ELSE block
  IN /\ Stored(db.headBlock) /\ Repairable(db.headBlock)
     /\ mem' = [mem EXCEPT !.block = block, !.header = header,
                           !.fast = IF Stored(db.headFast) THEN db.headFast ELSE block]
     /\ db' = [db EXCEPT !.headHeader = header]

Load ==
  /\ Step("load") /\ LoadLastState /\ Go(<< >>)
  /\ processed' = {} /\ UNCHANGED <<received, fast, status, rewinding, pivoted, rest>>

\* Rollback of the headers after number n, which Downloader.processHeaders
\* defers: InsertReceiptChain may be waiting for the lock.
Rollback(n) ==
  /\ Idle /\ fast /\ rewound = "no" /\ n < Number[mem.header]
  /\ todo' = Each("unroll", Reverse(PathFrom(n, mem.header)))
  /\ rewound' = "Rollback" /\ processed' = {}
  /\ UNCHANGED <<db, mem, received, fast, status, rewinding, pivoted, network, crashed>>

\* A head on the header moves to its parent; one that is missing is nil.
Unroll ==
  /\ Step("unroll")
  /\ LET Back(name, head, found) ==
           IF head # Arg THEN << >> ELSE IF found THEN Each(name, <<Parent[Arg]>>) ELSE Panic
     IN Go(Back("headHeader", mem.header, Parent[Arg] \in db.headers)
           \o Back("headFast", mem.fast, Stored(Parent[Arg]))
           \o Back("headBlock", mem.block, Stored(Parent[Arg])))
  /\ UNCHANGED <<db, mem, Aside>>

\* Stop that writes the state of the head's parent only.
Stop_parent ==
  /\ status = "up" /\ received = None
  /\ todo # << >> => Head(todo).op \in {"chain", "import", "writeHeader"}
  /\ LET Recent(offset) == IF Number[mem.block] > offset THEN <<db.canon[Number[mem.block] - offset]>> ELSE << >>
     IN todo' = Each("commit", Recent(1)) \o <<Op("halt", << >>)>>
  /\ UNCHANGED <<db, mem, Aside>>

\* Stop lets the running block finish, then writes three recent states.
Stop ==
  /\ status = "up" /\ received = None
  /\ todo # << >> => Head(todo).op \in {"chain", "import", "writeHeader"}
  /\ LET Recent(offset) == IF Number[mem.block] > offset THEN <<db.canon[Number[mem.block] - offset]>> ELSE << >>
     IN todo' = Each("commit", Recent(0) \o Recent(1) \o Recent(TriesInMemory - 1)) \o <<Op("halt", << >>)>>
  /\ UNCHANGED <<db, mem, Aside>>

NoRecent == Arg = None \/ ~Stored(Arg)

CommitRecent ==
  /\ Step("commit")
  /\ IF NoRecent THEN todo' = Panic /\ UNCHANGED db
     ELSE /\ db' = [db EXCEPT !.states = @ \cup ({Root[Arg]} \cap {Root[b] : b \in mem.triegc})]
          /\ Go(<< >>)
  /\ UNCHANGED <<mem, Aside>>

Halt ==
  /\ Step("halt") \/ Step("panic")
  /\ Die /\ crashed' = (crashed \/ Step("panic")) /\ UNCHANGED <<network, rewound>>

Crash == status = "up" /\ ~crashed /\ Die /\ crashed' = TRUE /\ UNCHANGED <<network, rewound>>

\* NewBlockChain, and the choice of fast synchronisation in NewProtocolManager
\* and synchronise.
Restart ==
  /\ status = "down" /\ LoadLastState
  /\ status' = "up"
  /\ fast' = IF Number[mem'.block] > 0 THEN FALSE ELSE IF Number[mem'.fast] > 0 THEN TRUE ELSE network.fast
  /\ UNCHANGED <<todo, received, processed, rewinding, pivoted, rest>>

\* Without a head block loadLastState resets the chain: SetHead reads a current
\* block that was never stored, and the process cannot start.
RestartFails ==
  /\ status = "down" /\ ~(Stored(db.headBlock) /\ Repairable(db.headBlock))
  /\ status' = "failed"
  /\ UNCHANGED <<db, mem, todo, received, fast, processed, rewinding, pivoted, rest>>

Failed == status = "failed" /\ UNCHANGED <<db, mem, todo, Aside>>

Writes ==
  \/ WriteTd \/ WriteBody \/ WriteHeader \/ WriteReceipts \/ WriteCanonical
  \/ WriteHeadBlock \/ WriteHeadHeader \/ WriteHeadFast

Decisions ==
  \/ BeginChain \/ Adopt \/ Import \/ CommitState
  \/ ChooseHead \/ Insert \/ WriteHeaderChain \/ ChooseHeader \/ CutCanonical
  \/ RewindHeaders \/ RewindBlocks \/ Load \/ Unroll \/ CommitRecent \/ Halt

Operations ==
  \/ \E bs \in network.blocks : InsertChain(bs)
  \/ \E bs \in network.headers : InsertHeaderChain(bs) \/ InsertReceiptChain(bs)
  \/ \E bs \in network.headers : StateDownloaded(Last(bs)) \/ FastSyncCommitHead(Last(bs))
  \/ \E n \in 0..Height : SetHead(n) \/ Rollback(n)
  \/ MoveFastHead \/ SwitchFast \/ Stop

Next == Writes \/ Decisions \/ Operations \/ Crash \/ Restart \/ RestartFails \/ Failed

Spec == Init /\ [][Next]_vars

-----------------------------------------------------------------------------
\* Blocks are blocks: a head is never the nil that GetBlock returns for a block
\* that is not stored.
TypeOK ==
  /\ db.headers \subseteq Blocks /\ db.bodies \subseteq Blocks /\ db.tds \subseteq Blocks /\ db.receipts \subseteq Blocks
  /\ db.canon \in [0..Height -> Blocks \cup {None}]
  /\ {db.headBlock, db.headHeader, db.headFast} \subseteq Blocks
  /\ {mem.block, mem.header, mem.fast} \subseteq Blocks /\ mem.triegc \subseteq Blocks
  /\ received \in Blocks \cup {None} /\ fast \in BOOLEAN /\ rewinding \in BOOLEAN
  /\ crashed \in BOOLEAN /\ rewound \in {"no", "SetHead", "Rollback"} /\ pivoted \in BOOLEAN
  /\ status \in {"up", "down", "failed"} /\ processed \subseteq Blocks

OnCanonical(b) == \A a \in Ancestors[b] : db.canon[Number[a]] = a

\* Between operations the number index leads from genesis to the head header, and
\* to the head block, whatever reorganisations, side chains, rewinds and clean
\* restarts came before; only a crash inside insert or a head that fast
\* synchronisation has set "irrespective of the chain" may leave it elsewhere.
CanonicalChain ==
  Idle /\ ~crashed /\ ~pivoted => OnCanonical(mem.header) /\ (fast \/ OnCanonical(mem.block))

\* All that the heads stand on is stored, with total difficulties, also after a
\* crash between any two writes: header and body come before what refers to them.
\* Rollback, which deletes nothing, keeps it so wherever it comes; SetHead is excepted.
HeadComplete ==
  Idle /\ rewound # "SetHead" =>
    /\ Ancestors[mem.header] \subseteq db.headers \cap db.tds
    /\ Ancestors[mem.block] \subseteq db.headers \cap db.tds \cap db.bodies
    /\ ~crashed => Ancestors[mem.fast] \subseteq db.headers \cap db.tds \cap db.bodies

\* The state of the head is there to execute the next block on: pruning never
\* reaches it, and a start or a rewind moves the head to a block that has one.
HeadHasState == Idle /\ ~fast => HasState(mem.block)

\* The heads can be built on: they are blocks, all below them is stored, and the
\* head block has its state (loadLastState, repair, writeBlockWithState).
HeadUsable == TypeOK /\ HeadComplete /\ HeadHasState

\* No block that was executed is heavier than the head, whichever branch it came
\* on and in whichever order (writeBlockWithState, insertSidechain, reorg).
HeaviestHead == Idle /\ ~fast /\ rewound = "no" => \A b \in processed : Td[b] <= Td[mem.block]

\* A crash at any point leaves a database that the node can start from, a crash
\* in the middle of SetHead excepted.
StartsUnlessRewinding == status = "failed" => rewinding

\* After Stop the state of the head is on disk: the next start repairs nothing.
CleanStopKeepsHead == status = "down" /\ ~crashed /\ ~pivoted => Root[db.headBlock] \in db.states

\* loadLastState's promise for a head block that is missing, that the chain is
\* initialised from scratch: every start succeeds.
StartsAgain == status # "failed"

\* current's promise: while insertSidechain processes a block there is one.
CurrentWhileProcessing ==
  Step("chain") /\ Verdict(Head(todo).bs[1]) = "ErrPrunedAncestor" => Current(Head(todo).bs, 1) # None
====
