------------------------------- MODULE TxPool -------------------------------
(***************************************************************************)
(* How the transaction pool of the mempool follows the chain: the          *)
(* Blockchain adapter and the goroutine that notifies it of new blocks     *)
(* (mempool/blockchain.go, mempool/mempool.go), the loop of the main pool  *)
(* (mempool/txpool/txpool.go), and the scheduling of resets and promotions *)
(* in the legacy pool (mempool/txpool/legacypool).  What the pool holds is *)
(* the subject of LegacyPool; here only the accounts matter that a run     *)
(* promotes.                                                               *)
(*                                                                         *)
(* A header is its number and the hash of its parent, which Blockchain     *)
(* takes from the header it notified before; the hash is the sequence of   *)
(* the numbers notified so far, so that equal hashes are equal histories.  *)
(* NotifyNewBlock makes a new header for every event, so that the pointer  *)
(* comparison of the pool's loop compares hashes.                          *)
(***************************************************************************)
EXTENDS Integers, Sequences

CONSTANTS
    Sync,          \* accounts whose transactions come through Insert
    Async,         \* accounts whose transactions come through InsertInvalidNonce
    Capacity,      \* events the subscription of the mempool buffers
    MaxReorgDepth, \* the deepest reorganisation that reset looks at
    MaxHeight      \* bound: blocks of the chain

Sender == Sync \cup Async

ASSUME PoolAssumption ==
    /\ Sync \cap Async = {}
    /\ "resetter" \notin Sender
    /\ {Capacity, MaxReorgDepth, MaxHeight} \subseteq Nat \ {0}

VARIABLES
    height,    \* the last block committed
    ready,     \* a block was committed since the node started
    sub,       \* the subscription of the mempool to new headers
    events,    \* headers in the buffer of the subscription
    prevHash,  \* Blockchain.previousHeaderHash
    sending,   \* the header NotifyNewBlock is sending, if any
    oldHead, newHead, \* of the main pool's loop
    resetArg,  \* the heads of the reset that is running, if any
    head,      \* LegacyPool.currentHead
    state,     \* the height of LegacyPool.currentState, NoState for nil
    next,      \* what the next run of runReorg will do
    run,       \* the current run of runReorg
    pc,        \* what an account's submission, or the resetting goroutine, does next
    closing,   \* how far Close has come
    status     \* "up", or how the process died

chain == <<height, ready>>
feed == <<sub, events, prevHash, sending>>
loop == <<oldHead, newHead, resetArg>>
poolState == <<head, state>>
reorg == <<next, run>>
poolVars == <<chain, feed, loop, poolState, reorg, pc, closing, status>>

NoState == -1
ZeroHeader == [number |-> 0, parent |-> <<>>]
Hash(h) == Append(h.parent, h.number)

Procs == Sender \cup {"resetter"}

\* Nothing requested: reset is empty or holds the old and the new head.
NoRequest == [reset |-> <<>>, dirty |-> {}, launch |-> FALSE]
NoRun == [pc |-> "none", reset |-> <<>>, dirty |-> {}]

(***************************************************************************)
(* A node starts at any height with a mempool made before the store is     *)
(* loaded: there is no context, the head is the zero header and the state  *)
(* is nil.                                                                 *)
(***************************************************************************)
PoolInit ==
    /\ height \in 0..(MaxHeight - 1) /\ ready = FALSE
    /\ sub = "none" /\ events = 0 /\ prevHash = <<>> /\ sending = <<>>
    /\ oldHead = ZeroHeader /\ newHead = ZeroHeader /\ resetArg = <<>>
    /\ head = ZeroHeader /\ state = NoState
    /\ next = NoRequest /\ run = NoRun
    /\ pc = [p \in Procs |-> "idle"]
    /\ closing = "open" /\ status = "up"

\* The process has ended; a node that starts again is in an initial state.
Ended ==
    /\ status # "up" \/ closing = "closed"
    /\ UNCHANGED poolVars

(***************************************************************************)
(* The chain and the event bus.  The node calls the application for one    *)
(* thing at a time, a block or a transaction to check; an event that finds *)
(* the buffer full cancels the subscription.                               *)
(***************************************************************************)
AbciFree == \A p \in Sender : pc[p] = "idle"

BufferFull == events = Capacity

Commit ==
    /\ status = "up" /\ closing = "open"
    /\ AbciFree
    /\ height < MaxHeight
    /\ height' = height + 1 /\ ready' = TRUE
    /\ \/ sub = "active" /\ ~ BufferFull /\ events' = events + 1 /\ UNCHANGED sub
       \/ sub = "active" /\ BufferFull /\ sub' = "canceled" /\ UNCHANGED events
       \/ sub # "active" /\ UNCHANGED <<sub, events>>
    /\ UNCHANGED <<prevHash, sending, loop, poolState, reorg, pc, closing, status>>

SetEventBus ==
    /\ status = "up" /\ closing = "open"
    /\ sub = "none"
    /\ sub' = "active"
    /\ UNCHANGED <<chain, events, prevHash, sending, loop, poolState, reorg, pc, closing, status>>

CurrentBlock == IF ready THEN [number |-> height, parent |-> prevHash] ELSE ZeroHeader

\* Mutant of Remembered: the hash of the block before is not kept.
RememberedNot(h) == prevHash

Remembered(h) == Hash(h)

NotifyNewBlock ==
    /\ status = "up"
    /\ events > 0 /\ sending = <<>>
    /\ events' = events - 1
    /\ prevHash' = Remembered(CurrentBlock)
    /\ sending' = <<CurrentBlock>>
    /\ UNCHANGED <<chain, sub, loop, poolState, reorg, pc, closing, status>>

(***************************************************************************)
(* The loop of the main pool.  After every event it starts a reset if the  *)
(* head moved and none is running.                                         *)
(***************************************************************************)
LoopTop(old, new, idle) ==
    /\ oldHead' = old /\ newHead' = new
    /\ IF old # new /\ idle
       THEN resetArg' = <<old, new>> /\ pc' = [pc EXCEPT !["resetter"] = "request"]
       ELSE /\ resetArg' = IF idle THEN <<>> ELSE resetArg
            /\ pc' = IF idle THEN [pc EXCEPT !["resetter"] = "idle"] ELSE pc

LoopNewHead ==
    /\ status = "up" /\ closing = "open"
    /\ sending # <<>>
    /\ sending' = <<>>
    /\ LoopTop(oldHead, sending[1], pc["resetter"] = "idle")
    /\ UNCHANGED <<chain, sub, events, prevHash, poolState, reorg, closing, status>>

\* Mutant of ResetTo: takes the last head received for the head of the reset.
LatestHead == newHead

ResetTo == resetArg[2]

LoopResetDone ==
    /\ status = "up" /\ closing = "open"
    /\ pc["resetter"] = "done"
    /\ LoopTop(ResetTo, newHead, TRUE)
    /\ UNCHANGED <<chain, feed, poolState, reorg, closing, status>>

\* The loop is gone: the resetting goroutine sees the pool terminated.
ResetterEnds ==
    /\ status = "up" /\ closing # "open"
    /\ pc["resetter"] = "done"
    /\ pc' = [pc EXCEPT !["resetter"] = "idle"]
    /\ resetArg' = <<>>
    /\ UNCHANGED <<chain, feed, oldHead, newHead, poolState, reorg, closing, status>>

(***************************************************************************)
(* scheduleReorgLoop.  One run at a time; what is requested during a run   *)
(* is merged into the next.  A waiting requester waits for the run that is *)
(* next when its request is received.                                      *)
(***************************************************************************)
Launched(cur, n, w) ==
    IF cur.pc = "none" /\ n.launch
    THEN /\ run' = [pc |-> "start", reset |-> n.reset, dirty |-> n.dirty]
         /\ next' = NoRequest
         /\ pc' = [p \in Procs |-> IF w[p] = "next" THEN "cur" ELSE w[p]]
    ELSE run' = cur /\ next' = n /\ pc' = w

RequestReset ==
    /\ status = "up" /\ closing # "closed"
    /\ pc["resetter"] = "request"
    /\ LET reset == IF next.reset = <<>> THEN resetArg ELSE <<next.reset[1], resetArg[2]>>
       IN  Launched(run, [next EXCEPT !.reset = reset, !.launch = TRUE],
                    [pc EXCEPT !["resetter"] = "next"])
    /\ UNCHANGED <<chain, feed, loop, poolState, closing, status>>

\* Mutant of Dirtied: a request overwrites the accounts of the one before it.
DirtiedOver(dirty, p) == {p}

\* The accounts to promote, with those of the request of p.
Dirtied(dirty, p) == dirty \cup {p}

\* Only a new transaction makes its account dirty.
RequestPromote(p) ==
    /\ status = "up" /\ closing # "closed"
    /\ pc[p] \in {"request", "request none"}
    /\ LET dirty == IF pc[p] = "request" THEN Dirtied(next.dirty, p) ELSE next.dirty
       IN  Launched(run, [next EXCEPT !.dirty = dirty, !.launch = TRUE],
                    [pc EXCEPT ![p] = IF p \in Sync THEN "next" ELSE "idle"])
    /\ UNCHANGED <<chain, feed, loop, poolState, closing, status>>

\* A request finds the reorg loop shut down.
RequestRefused(p) ==
    /\ status = "up" /\ closing \in {"shutdown", "closed"}
    /\ pc[p] \in {"request", "request none"}
    /\ pc' = [pc EXCEPT ![p] = IF p = "resetter" THEN "done" ELSE "idle"]
    /\ UNCHANGED <<chain, feed, loop, poolState, reorg, closing, status>>

(***************************************************************************)
(* runReorg and reset.  The pool's lock is held from the first look at the *)
(* heads to the end of the promotion; the chain goes on meanwhile.         *)
(***************************************************************************)
Reorged(old, new) == Hash(old) # new.parent

Depth(old, new) == IF old.number > new.number THEN old.number - new.number
                   ELSE new.number - old.number

\* GetBlock knows only the first two blocks.
GetBlockPanics == CurrentBlock.number \notin {0, 1}

ResetPanics(old, new) ==
    Reorged(old, new) /\ Depth(old, new) <= MaxReorgDepth /\ GetBlockPanics

RunReorgStart ==
    /\ status = "up"
    /\ run.pc = "start"
    /\ IF run.reset # <<>> /\ ResetPanics(run.reset[1], run.reset[2])
       THEN status' = "reorg" /\ UNCHANGED run
       ELSE run' = [run EXCEPT !.pc = "locked"] /\ UNCHANGED status
    /\ UNCHANGED <<chain, feed, loop, poolState, next, pc, closing>>

\* A reset promotes every queue, other runs those of the dirty accounts.
Promoted == IF run.reset # <<>> THEN Sender ELSE run.dirty

\* StateAt gives the latest state, whatever block it is asked for.
RunReorgLocked ==
    /\ status = "up"
    /\ run.pc = "locked"
    /\ run' = [run EXCEPT !.pc = "announce"]
    /\ IF run.reset # <<>>
       THEN head' = run.reset[2] /\ state' = height
       ELSE UNCHANGED <<head, state>>
    /\ UNCHANGED <<chain, feed, loop, next, pc, closing, status>>

\* The promoted transactions are announced and done is closed.  The application
\* hands its client context to the mempool before it has a client, so that
\* BroadcastTxFn fails at once and waits for nobody.
Announce ==
    /\ status = "up"
    /\ run.pc = "announce"
    /\ run' = [run EXCEPT !.pc = "done"]
    /\ pc' = [p \in Procs |-> IF pc[p] # "cur" THEN pc[p]
                              ELSE IF p = "resetter" THEN "done" ELSE "idle"]
    /\ UNCHANGED <<chain, feed, loop, poolState, next, closing, status>>

RunDone ==
    /\ status = "up" /\ closing # "closed"
    /\ run.pc = "done"
    /\ Launched(NoRun, next, pc)
    /\ UNCHANGED <<chain, feed, loop, poolState, closing, status>>

(***************************************************************************)
(* Submissions.  A pool whose head is the zero header, with a gas limit of *)
(* zero, takes nothing; the check reads the head without the lock.         *)
(***************************************************************************)
BasicsPass == head # ZeroHeader

Insert(p) ==
    /\ status = "up" /\ closing = "open"
    /\ p \in Sync /\ AbciFree
    /\ BasicsPass
    /\ pc' = [pc EXCEPT ![p] = "lock"]
    /\ UNCHANGED <<chain, feed, loop, poolState, reorg, closing, status>>

InsertInvalidNonce(p) ==
    /\ status = "up" /\ closing = "open"
    /\ p \in Async /\ AbciFree
    /\ BasicsPass
    /\ pc' = [pc EXCEPT ![p] = "lock"]
    /\ UNCHANGED <<chain, feed, loop, poolState, reorg, closing, status>>

\* The transaction joins the queue, or it is refused or replaces another one.
AddTxsLocked(p) ==
    /\ status = "up"
    /\ pc[p] = "lock" /\ run.pc # "locked"
    /\ IF state = NoState
       THEN status' = "nil state" /\ UNCHANGED pc
       ELSE /\ \/ pc' = [pc EXCEPT ![p] = "request"]
               \/ pc' = [pc EXCEPT ![p] = "request none"]
            /\ UNCHANGED status
    /\ UNCHANGED <<chain, feed, loop, poolState, reorg, closing>>

(***************************************************************************)
(* Close ends the loop of the main pool and closes the shutdown channel of *)
(* the reorg loop, which waits for the current run and releases those who  *)
(* wait for the next.  What the reorg loop may receive between the two it  *)
(* may also receive after them; the headers still on their way find no     *)
(* subscriber.                                                             *)
(***************************************************************************)
Close ==
    /\ status = "up" /\ closing = "open"
    /\ closing' = "shutdown"
    /\ sub' = "canceled" /\ events' = 0 /\ sending' = <<>>
    /\ UNCHANGED <<chain, prevHash, loop, poolState, reorg, pc, status>>

\* Mutant of Waiting: the next run's channel is left open.
WaitingNobody == {}

Waiting == {p \in Procs : pc[p] = "next"}

ReorgLoopExit ==
    /\ status = "up" /\ closing = "shutdown"
    /\ run.pc \in {"none", "done"}
    /\ closing' = "closed"
    /\ pc' = [p \in Procs |-> IF p \notin Waiting THEN pc[p]
                              ELSE IF p = "resetter" THEN "done" ELSE "idle"]
    /\ UNCHANGED <<chain, feed, loop, poolState, reorg, status>>

PoolNext ==
    \/ Commit \/ SetEventBus \/ NotifyNewBlock
    \/ LoopNewHead \/ LoopResetDone \/ ResetterEnds
    \/ RequestReset \/ RunReorgStart \/ RunReorgLocked \/ Announce \/ RunDone
    \/ \E p \in Sender : Insert(p) \/ InsertInvalidNonce(p) \/ AddTxsLocked(p)
                            \/ RequestPromote(p)
    \/ \E p \in Procs : RequestRefused(p)
    \/ Close \/ ReorgLoopExit
    \/ Ended

(***************************************************************************)
(* Every goroutine that can go on does; a mutex of Go is starvation free,  *)
(* and a select that finds the shutdown ready again and again takes it.    *)
(* Blocks, submissions, and Close may stay away.                           *)
(***************************************************************************)
Fairness ==
    /\ WF_poolVars(NotifyNewBlock)
    /\ WF_poolVars(LoopNewHead) /\ WF_poolVars(LoopResetDone) /\ WF_poolVars(ResetterEnds)
    /\ WF_poolVars(RequestReset)
    /\ WF_poolVars(RunReorgStart) /\ WF_poolVars(RunReorgLocked) /\ WF_poolVars(Announce) /\ WF_poolVars(RunDone)
    /\ \A p \in Sender : SF_poolVars(AddTxsLocked(p)) /\ WF_poolVars(RequestPromote(p))
    /\ \A p \in Procs : WF_poolVars(RequestRefused(p))
    /\ SF_poolVars(ReorgLoopExit)

PoolSpec == PoolInit /\ [][PoolNext]_poolVars /\ Fairness

(***************************************************************************)
(* Properties.                                                             *)
(***************************************************************************)
Header == [number : 0..MaxHeight, parent : Seq(0..MaxHeight)]

PoolTypes ==
    /\ height \in 0..MaxHeight /\ ready \in BOOLEAN
    /\ sub \in {"none", "active", "canceled"} /\ events \in 0..Capacity
    /\ prevHash \in Seq(0..MaxHeight) /\ sending \in Seq(Header) /\ Len(sending) <= 1
    /\ {oldHead, newHead, head} \subseteq Header
    /\ state \in {NoState} \cup 0..MaxHeight
    /\ pc \in [Procs -> {"idle", "lock", "request", "request none", "next", "cur", "done"}]
    /\ next.dirty \subseteq Sender /\ run.dirty \subseteq Sender
    /\ run.pc \in {"none", "start", "locked", "announce", "done"}
    /\ closing \in {"open", "shutdown", "closed"}
    /\ status \in {"up", "reorg", "nil state"}

\* Before its first reset the pool has no state: StateAt of the zero header is
\* nil without an error.  No submission gets as far as to read it, although the
\* check that keeps it away reads the head without the lock of the pool.
StateKnown == status # "nil state"

\* The pool takes a new head for a reorganisation, and GetBlock ends the node,
\* only for the first head since the node started or for a head before which
\* another one was notified that the pool was never reset to.
ReorgOnlyAfterGap ==
    status = "reorg" =>
        LET old == run.reset[1]
            new == run.reset[2]
        IN  old = ZeroHeader \/ Len(new.parent) > Len(Hash(old))

\* Blocks are final, so that the pool never takes one for a reorganisation: "reorgs
\* never occur", as the comment of GetBlock has it.
NoReorg == status # "reorg"

\* The head that the main pool's loop believes in is the one that the legacy
\* pool was last reset to, whatever heads arrived and whatever runs were merged.
ResetsFromItsHead ==
    run.pc \in {"start", "locked"} /\ run.reset # <<>> => run.reset[1] = head

\* However heads, runs and submissions fall together, the pool resets from the head it
\* is at, and neither reads a missing state nor takes successive blocks for a
\* reorganisation.
ResetsSafely == PoolTypes /\ StateKnown /\ ReorgOnlyAfterGap /\ ResetsFromItsHead

\* A new block that the mempool is told of reaches the pool: its state becomes
\* that of the last block, unless the subscription is lost.
CatchesUp ==
    status = "up" /\ events > 0 ~> status # "up" \/ sub # "active" \/ state = height

\* Every submission returns, those of Insert that wait for a run with the
\* mempool's mutex held too, and also when the pool is closed under them.
SubmissionsReturn == ~ AbciFree ~> AbciFree \/ status # "up"

\* No request is lost between two runs: an account whose submission left without
\* waiting for a run is looked at by promoteExecutables, whoever asks after it.
EventuallyPromoted ==
    \A p \in Async :
        pc[p] = "request" ~>
            (run.pc = "locked" /\ p \in Promoted) \/ status # "up" \/ closing # "open"

\* Close comes to its end, whatever requests still arrive, and leaves no
\* resetting goroutine behind that waits for a run nobody will start.
CloseEnds ==
    closing = "shutdown" ~>
        (closing = "closed" /\ pc["resetter"] = "idle") \/ status # "up"

\* Nobody waits for ever for a run: neither submitters nor those who shut the pool down.
NobodyWaits == SubmissionsReturn /\ CloseEnds
=============================================================================
