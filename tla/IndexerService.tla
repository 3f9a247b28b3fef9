--------------------------- MODULE IndexerService ---------------------------
(***************************************************************************)
(* The service that indexes Ethereum transactions for the JSON-RPC server  *)
(* (server/indexer_service.go) with the database of its index              *)
(* (indexer/kv_indexer.go).                                                *)
(*                                                                         *)
(* A goroutine receives the headers of new blocks, raises latestBlock and  *)
(* puts a token in newBlockSignal, a channel with one slot; the main loop  *)
(* indexes every block after lastBlock up to latestBlock and else waits    *)
(* for the token or a timeout.  The node may crash between any two steps;  *)
(* only the database is left, from which the service starts again.         *)
(* A block is its height; the only thing that matters of its contents is   *)
(* whether it has an Ethereum transaction.  No header of a subscription is *)
(* lost: the service subscribes unbuffered.                                *)
(***************************************************************************)
EXTENDS Integers, FiniteSets, FiniteSetsExt

CONSTANTS
    MaxHeight,    \* bound: blocks of the chain
    MaxCrashes,   \* bound: crashes of the node
    MaxFetchErrs, \* bound: failed fetches of a block or its results
    MaxIndexErrs  \* bound: failed writes of the index

ASSUME BoundAssumption ==
    /\ MaxHeight \in Nat \ {0}
    /\ {MaxCrashes, MaxFetchErrs, MaxIndexErrs} \subseteq Nat

VARIABLES
    height,      \* the chain's last block
    ethBlocks,   \* blocks with an Ethereum transaction
    db,          \* blocks with an entry in the index
    seen,        \* the last header received, or published before Subscribe
    latestBlock, \* shared by the goroutine and the main loop
    notify,      \* the goroutine is about to signal
    newBlockSignal,
    step,        \* the main loop's next step
    lastBlock,
    nextBlock,   \* the loop's i
    blockErr,
    faults       \* how many faults of each kind have happened

serviceVars == <<height, ethBlocks, db, seen, latestBlock, notify, newBlockSignal, step,
                 lastBlock, nextBlock, blockErr, faults>>

service == <<seen, latestBlock, notify, newBlockSignal, step, lastBlock, nextBlock, blockErr>>

Started == step \notin {"status", "subscribe"}

ServiceInit ==
    /\ height = 0 /\ ethBlocks = {} /\ db = {}
    /\ seen = 0 /\ latestBlock = 0 /\ notify = FALSE /\ newBlockSignal = FALSE
    /\ step = "status" /\ lastBlock = 0 /\ nextBlock = 0 /\ blockErr = FALSE
    /\ faults = [crash |-> 0, fetch |-> 0, index |-> 0]

\* The chain goes on: its last block within the bound comes after Subscribe.
NewBlock ==
    /\ height < MaxHeight
    /\ height + 1 = MaxHeight => Started
    /\ height' = height + 1
    /\ \E eth \in BOOLEAN : ethBlocks' = IF eth THEN ethBlocks \cup {height + 1} ELSE ethBlocks
    /\ UNCHANGED <<service, db, faults>>

(***************************************************************************)
(* The goroutine.                                                          *)
(***************************************************************************)
\* Mutant of IsNew: off by one.
IsMuchNewer(h) == h > latestBlock + 1

IsNew(h) == h > latestBlock

ReceiveHeader ==
    /\ Started /\ ~ notify
    /\ seen < height
    /\ seen' = seen + 1
    /\ IF IsNew(seen + 1)
       THEN latestBlock' = seen + 1 /\ notify' = TRUE
       ELSE UNCHANGED <<latestBlock, notify>>
    /\ UNCHANGED <<height, ethBlocks, db, newBlockSignal, step, lastBlock, nextBlock, blockErr,
                   faults>>

\* A full channel is left as it is.
Notify ==
    /\ Started /\ notify
    /\ newBlockSignal' = TRUE
    /\ notify' = FALSE
    /\ UNCHANGED <<height, ethBlocks, db, seen, latestBlock, step, lastBlock, nextBlock,
                   blockErr, faults>>

(***************************************************************************)
(* OnStart and its main loop.                                              *)
(***************************************************************************)
GetStatus ==
    /\ step = "status"
    /\ latestBlock' = height
    /\ step' = "subscribe"
    /\ UNCHANGED <<height, ethBlocks, db, seen, notify, newBlockSignal, lastBlock, nextBlock,
                   blockErr, faults>>

Subscribe ==
    /\ step = "subscribe"
    /\ seen' = height
    /\ step' = "load"
    /\ UNCHANGED <<height, ethBlocks, db, latestBlock, notify, newBlockSignal, lastBlock,
                   nextBlock, blockErr, faults>>

\* Mutant of LastIndexedBlock: the service starts from now.
StartAtLatest == latestBlock

\* -1 of an empty index is replaced by the latest block.
LastIndexedBlock == IF db = {} THEN latestBlock ELSE Max(db)

LoadLastBlock ==
    /\ step = "load"
    /\ lastBlock' = LastIndexedBlock
    /\ step' = "loop"
    /\ UNCHANGED <<height, ethBlocks, db, seen, latestBlock, notify, newBlockSignal, nextBlock,
                   blockErr, faults>>

MustWait == latestBlock <= lastBlock \/ blockErr

Loop ==
    /\ step = "loop"
    /\ \/ MustWait /\ step' = "wait" /\ UNCHANGED nextBlock
       \/ ~ MustWait /\ step' = "fetch" /\ nextBlock' = lastBlock + 1
    /\ UNCHANGED <<height, ethBlocks, db, seen, latestBlock, notify, newBlockSignal, lastBlock,
                   blockErr, faults>>

\* A token or NewBlockWaitTimeout ends the wait.
WaitForBlock ==
    /\ step = "wait"
    /\ newBlockSignal' \in {newBlockSignal, FALSE}
    /\ step' = "loop"
    /\ UNCHANGED <<height, ethBlocks, db, seen, latestBlock, notify, lastBlock, nextBlock,
                   blockErr, faults>>

InReach == nextBlock <= latestBlock

\* latestBlock is read again in every round.
Fetch ==
    /\ step = "fetch"
    /\ \/ /\ ~ InReach
          /\ step' = "loop"
          /\ UNCHANGED <<blockErr, faults>>
       \/ /\ InReach
          /\ blockErr' = FALSE
          /\ step' = "index"
          /\ UNCHANGED faults
       \/ /\ InReach
          /\ faults.fetch < MaxFetchErrs
          /\ faults' = [faults EXCEPT !.fetch = @ + 1]
          /\ blockErr' = TRUE
          /\ step' = "loop"
    /\ UNCHANGED <<height, ethBlocks, db, seen, latestBlock, notify, newBlockSignal, lastBlock,
                   nextBlock>>

\* The entries of a block are written in one batch; an error is only logged.
IndexBlock ==
    /\ step = "index"
    /\ \/ db' = db \cup ({nextBlock} \cap ethBlocks) /\ UNCHANGED faults
       \/ /\ faults.index < MaxIndexErrs
          /\ faults' = [faults EXCEPT !.index = @ + 1]
          /\ UNCHANGED db
    /\ lastBlock' = nextBlock
    /\ nextBlock' = nextBlock + 1
    /\ step' = "fetch"
    /\ UNCHANGED <<height, ethBlocks, seen, latestBlock, notify, newBlockSignal, blockErr>>

Crash ==
    /\ faults.crash < MaxCrashes
    /\ faults' = [faults EXCEPT !.crash = @ + 1]
    /\ step' = "status" /\ seen' = 0 /\ latestBlock' = 0 /\ lastBlock' = 0 /\ nextBlock' = 0
    /\ notify' = FALSE /\ newBlockSignal' = FALSE /\ blockErr' = FALSE
    /\ UNCHANGED <<height, ethBlocks, db>>

MainLoop ==
    GetStatus \/ Subscribe \/ LoadLastBlock \/ Loop \/ WaitForBlock \/ Fetch \/ IndexBlock

ServiceNext == NewBlock \/ ReceiveHeader \/ Notify \/ MainLoop \/ Crash

\* The chain keeps committing blocks, and both goroutines are scheduled.  Nothing
\* makes a fault happen.
ServiceFairness ==
    /\ WF_serviceVars(NewBlock)
    /\ WF_serviceVars(ReceiveHeader) /\ WF_serviceVars(Notify)
    /\ WF_serviceVars(MainLoop)

ServiceSpec == ServiceInit /\ [][ServiceNext]_serviceVars /\ ServiceFairness

(***************************************************************************)
(* Properties.                                                             *)
(***************************************************************************)
\* Types: in particular the service never gets ahead of the chain.
ServiceTypes ==
    /\ height \in 0 .. MaxHeight
    /\ ethBlocks \subseteq 1 .. height /\ db \subseteq ethBlocks
    /\ {seen, latestBlock, lastBlock} \subseteq 0 .. height
    /\ nextBlock \in 0 .. height + 1
    /\ {notify, newBlockSignal, blockErr} \subseteq BOOLEAN
    /\ step \in {"status", "subscribe", "load", "loop", "wait", "fetch", "index"}
    /\ faults \in [crash: 0 .. MaxCrashes, fetch: 0 .. MaxFetchErrs, index: 0 .. MaxIndexErrs]

\* Blocks with an Ethereum transaction between two indexed ones that are not indexed.
Gaps == {h \in ethBlocks \ db : \E lo, hi \in db : lo < h /\ h < hi}

\* A failed write loses its own block and no other, and a failed fetch, a crash, a header
\* missed at start or a merged signal loses none: the index never has more gaps than
\* writes that failed.
LostOnlyByWrites == Cardinality(Gaps) <= faults.index

\* The service never gets ahead of the chain nor leaves a gap of its own making.
IndexSound == ServiceTypes /\ LostOnlyByWrites

\* h comes after an indexed block, from which the service goes on whenever it starts.
Due(h) == h \in ethBlocks /\ \E lo \in db : lo < h

\* Every block with an Ethereum transaction after an indexed one is in the index for good
\* in the end, unless the service has stopped at a failed fetch (a restart takes it up
\* again) or a write of the index has failed.
EventuallyIndexed ==
    \A h \in 1 .. MaxHeight : Due(h) ~> [](h \in db \/ blockErr \/ faults.index > 0)

\* A failed fetch is tried again: every block with an Ethereum transaction after an
\* indexed one is indexed in the end.
FetchRetried == \A h \in 1 .. MaxHeight : Due(h) ~> h \in db
=============================================================================
