----------------------------- MODULE LegacyPool -----------------------------
(***************************************************************************)
(* What the pool of Ethereum transactions holds                            *)
(* (mempool/txpool/legacypool): the executable ("pending") and the future  *)
(* ("queued") transactions of each account, the lookup of all of them, the *)
(* virtual nonces, and the accounts that the pool has reserved.  When the  *)
(* runs are scheduled is the subject of TxPool; here a run takes any of    *)
(* the accounts that wait for one, and a new head comes at any time.       *)
(*                                                                         *)
(* Submissions, runs and evictions hold the lock of the pool, a run during *)
(* all of its phases.  Remove of the mempool does not: it is one step for  *)
(* each of its writes, and a run may come between any two of them, or any  *)
(* of them between the phases of a run.                                    *)
(*                                                                         *)
(* A transaction is its sender, its nonce and its price, which stands for  *)
(* its fee cap, its tip and its cost; it takes one slot of the pool.  Left *)
(* open are which transactions the priced list has in which of its heaps,  *)
(* and which account was heard of last.                                    *)
(***************************************************************************)
EXTENDS Integers, Sequences, FiniteSets, FiniteSetsExt, SequencesExt

CONSTANTS
    Account,      \* senders
    MaxNonce,     \* bound: the highest nonce of a transaction
    Prices,       \* bound: prices of transactions
    Balances,     \* bound: balances of accounts
    AccountSlots, \* pending transactions an account always may have
    GlobalSlots,  \* pending transactions of all accounts, beyond that
    AccountQueue, \* queued transactions of an account
    GlobalQueue,  \* queued transactions of all accounts
    PriceBump     \* percentage by which a replacement must pay more

ASSUME LegacyPoolAssumption ==
    /\ IsFiniteSet(Account) /\ MaxNonce \in Nat
    /\ Prices \subseteq Nat \ {0} /\ Balances \subseteq Nat
    /\ {AccountSlots, GlobalSlots, AccountQueue, GlobalQueue} \subseteq Nat \ {0}
    /\ PriceBump \in Nat \ {0}

Nonce == 0..MaxNonce
Tx == [from : Account, nonce : Nonce, price : Prices]

VARIABLES
    pool,     \* pending, queue, all, nonces (of the noncer), reserved
    nonce, balance, \* of the accounts in currentState
    changes,  \* changesSinceReorg
    dirty,    \* accounts for which a promotion was requested
    phase,    \* the phase of runReorg that comes next
    removing, \* the write of Remove that comes next, its transaction, what it will enqueue
    crossed   \* history: a run or an eviction came between Remove's writes to the lists

vars == <<pool, nonce, balance, changes, dirty, phase, removing, crossed>>

New(n) == [pending |-> {}, queue |-> {}, all |-> {}, nonces |-> n, reserved |-> {}]

NotRemoving == [step |-> "idle", txs |-> {}, invalids |-> {}]

Init ==
    /\ nonce \in [Account -> {0}] /\ balance \in [Account -> Balances]
    /\ pool = New(nonce) /\ changes = 0 /\ dirty = {}
    /\ phase = "idle" /\ removing = NotRemoving /\ crossed = FALSE

\* Remove has written to the lists, or has looked for the transaction there.
AmidLists == removing.step \notin {"idle", "lookup"}

(***************************************************************************)
(* Lists of transactions.                                                  *)
(***************************************************************************)
Of(S, a) == {t \in S : t.from = a}
At(S, t) == {u \in S : u.from = t.from /\ u.nonce = t.nonce}
NoncesOf(S, a) == {t.nonce : t \in Of(S, a)}
Cost(S) == MapThenSumSet(LAMBDA t : t.price, S)
\* The transactions of S, one of Of's sets, but for the n with the lowest nonces.
Beyond(S, n) == {t \in S : Cardinality({u \in S : u.nonce < t.nonce}) >= n}

BumpMet(old, t) == old.price < t.price /\ t.price >= (old.price * (100 + PriceBump)) \div 100

\* Those of the transactions T that list.Add takes into S; T has one for a nonce.
Inserted(S, T) == {t \in T : \A old \in At(S, t) : BumpMet(old, t)}
Replaced(S, T) == UNION {At(S, t) : t \in Inserted(S, T)}
Listed(S, T) == (S \ Replaced(S, T)) \cup Inserted(S, T)

HasList(p, a) == Of(p.pending, a) # {} \/ Of(p.queue, a) # {}
Release(p, A) == [p EXCEPT !.reserved = @ \ {a \in A : ~ HasList(p, a)}]

\* enqueueTx of transactions that the lookup knows already.
Demoted(p, T) ==
    [p EXCEPT !.queue = Listed(p.queue, T), !.all = @ \ Replaced(p.queue, T)]

(***************************************************************************)
(* RemoveTx.  The transactions after a pending one go back to the queue.   *)
(***************************************************************************)
After(p, t) == {u \in Of(p.pending, t.from) : u.nonce > t.nonce}

RemoveFromLists(p, t) ==
    IF At(p.pending, t) # {}
    THEN Demoted([p EXCEPT !.pending = @ \ (At(@, t) \cup After(p, t)),
                           !.nonces[t.from] = Min({@, t.nonce})], After(p, t))
    ELSE [p EXCEPT !.queue = @ \ At(@, t)]

RemoveFromLookup(p, t) == [p EXCEPT !.all = @ \ {t}]

RemoveTx(p, t, unreserve) ==
    IF t \notin p.all THEN p
    ELSE LET q == RemoveFromLists(RemoveFromLookup(p, t), t)
         IN  IF unreserve THEN Release(q, {t.from}) ELSE q

RemoveTxs(p, T) == FoldSet(LAMBDA t, q : RemoveTx(q, t, TRUE), p, T)

\* Pending transactions that a removal takes from their list, as RemoveTx counts them.
DropCount(p, t) == IF At(p.pending, t) = {} THEN 0 ELSE 1 + Cardinality(After(p, t))

(***************************************************************************)
(* add.  A full pool drops its cheapest transaction for a better one, but  *)
(* not too often between two runs, and not an executable one for a         *)
(* transaction that itself must wait.                                      *)
(***************************************************************************)
Valid(t) ==
    /\ t \notin pool.all
    /\ t.nonce >= nonce[t.from]
    /\ t.price <= balance[t.from]
    /\ Cost(Of(pool.pending, t.from)) + t.price - Cost(At(pool.pending, t)) <= balance[t.from]

Gapped(p, t) ==
    \E n \in p.nonces[t.from]..(t.nonce - 1) : n \notin NoncesOf(p.queue, t.from)

\* Mutant of Full: counts the transactions without the new one.
FullLate == Cardinality(pool.all) > GlobalSlots + GlobalQueue

Full == Cardinality(pool.all) + 1 > GlobalSlots + GlobalQueue

\* A transaction that is not underpriced pays more than the first of a heap.
Underpriced(t) == \A u \in pool.all : u.price >= t.price

Hold(p, a) == IF HasList(p, a) THEN p ELSE [p EXCEPT !.reserved = @ \cup {a}]

\* Mutant of Discarded: releases the sender of the transaction being added.
DiscardedReleases(p, c, t) == RemoveTx(p, c, TRUE)

\* The pool without c, which makes room for t.
Discarded(p, c, t) == RemoveTx(p, c, c.from # t.from)

\* t replaces a pending transaction, or joins the queue or replaces one there.
ListFor(p, t) == IF At(p.pending, t) # {} THEN "pending" ELSE "queue"

Placed(p, t) ==
    LET list == ListFor(p, t)
        old == Replaced(p[list], {t})
    IN  IF Inserted(p[list], {t}) # {}
        THEN /\ pool' = [p EXCEPT ![list] = Listed(@, {t}), !.all = (@ \ old) \cup {t}]
             /\ dirty' = IF old = {} THEN dirty \cup {t.from} ELSE dirty
        ELSE /\ pool' = IF HasList(pool, t.from) THEN p
                        ELSE [p EXCEPT !.reserved = @ \ {t.from}]
             /\ UNCHANGED dirty

Add(t) ==
    /\ phase = "idle" /\ removing.step = "idle"
    /\ Valid(t)
    /\ \/ /\ ~ Full
          /\ Placed(Hold(pool, t.from), t)
          /\ UNCHANGED changes
       \/ /\ Full
          /\ changes <= GlobalSlots \div 4
          /\ ~ Underpriced(t)
          /\ \E c \in pool.all : \* the cheapest of the floating heap
                /\ ~ (Gapped(pool, t) /\ c \in pool.pending)
                /\ Placed(Discarded(Hold(pool, t.from), c, t), t)
                /\ changes' = changes + DropCount(pool, c)
    /\ UNCHANGED <<nonce, balance, phase, removing, crossed>>

(***************************************************************************)
(* runReorg.  n and b are the nonces and balances of the current state.    *)
(***************************************************************************)
\* Mutant of Ready: waits for a nonce before the first.
ReadyLate(S, start) ==
    LET first == Min({t.nonce : t \in S})
    IN  IF S = {} \/ first >= start THEN {}
        ELSE {t \in S : first..t.nonce \subseteq {u.nonce : u \in S}}

\* The transactions of S without a gap from the first, if that is not beyond start.
Ready(S, start) ==
    LET first == Min({t.nonce : t \in S})
    IN  IF S = {} \/ first > start THEN {}
        ELSE {t \in S : first..t.nonce \subseteq {u.nonce : u \in S}}

PromoteAccount(p, a, n, b) ==
    LET kept == {t \in Of(p.queue, a) : t.nonce >= n[a] /\ t.price <= b[a]}
        ready == Ready(kept, p.nonces[a])
        promoted == Inserted(p.pending, ready)
        capped == Beyond(kept \ ready, AccountQueue)
        gone == (Of(p.queue, a) \ kept) \cup capped \cup (ready \ promoted)
                    \cup Replaced(p.pending, ready)
    IN  IF Of(p.queue, a) = {} THEN p
        ELSE Release([p EXCEPT
                !.pending = Listed(@, ready),
                !.queue = @ \ (gone \cup ready),
                !.all = @ \ gone,
                !.nonces[a] = IF promoted = {} THEN @
                              ELSE Max({t.nonce : t \in promoted}) + 1], {a})

PromoteExecutables(p, A, n, b) == FoldSet(LAMBDA a, q : PromoteAccount(q, a, n, b), p, A)

DemoteAccount(p, a, n, b) ==
    LET mine == Of(p.pending, a)
        live == {t \in mine : t.nonce >= n[a]}
        drops == {t \in live : t.price > b[a]}
        invalids == {t \in live \ drops : \E d \in drops : t.nonce > d.nonce}
        rest == live \ (drops \cup invalids)
        gapped == IF n[a] \in {t.nonce : t \in rest} THEN {} ELSE rest
        left == [p EXCEPT !.pending = @ \ (mine \ (rest \ gapped)),
                          !.all = @ \ ((mine \ live) \cup drops)]
    IN  IF mine = {} THEN p
        ELSE Release(Demoted(Demoted(left, invalids), gapped), {a})

DemoteUnexecutables(p, n, b) == FoldSet(LAMBDA a, q : DemoteAccount(q, a, n, b), p, Account)

SetAllNonces(p, n) ==
    [p EXCEPT !.nonces = [a \in Account |->
        IF Of(p.pending, a) = {} THEN n[a] ELSE Max(NoncesOf(p.pending, a)) + 1]]

(***************************************************************************)
(* truncatePending lowers the longest lists one transaction at a time, all *)
(* those that are longest at once, until few enough are left or none is    *)
(* longer than AccountSlots: it cuts every list at the same level.         *)
(***************************************************************************)
SizeAt(p, level) ==
    MapThenSumSet(LAMBDA a : Min({Cardinality(Of(p.pending, a)), level}), Account)

Level(p) ==
    Max({AccountSlots} \cup
        {l \in AccountSlots..Cardinality(p.pending) : SizeAt(p, l) <= GlobalSlots})

TruncatePending(p) ==
    LET capped == UNION {Beyond(Of(p.pending, a), Level(p)) : a \in Account}
    IN  IF Cardinality(p.pending) <= GlobalSlots THEN p
        ELSE [p EXCEPT !.pending = @ \ capped, !.all = @ \ capped,
                       !.nonces = [a \in Account |-> Min({@[a]} \cup NoncesOf(capped, a))]]

\* The accounts in the order of their last heartbeats lose their last transactions.
TruncateQueue(p, order) ==
    LET Cut(acc, a) ==
            LET mine == Of(acc.pool.queue, a)
                n == Min({Cardinality(mine), acc.drop})
            IN  [pool |-> RemoveTxs(acc.pool, Beyond(mine, Cardinality(mine) - n)),
                 drop |-> acc.drop - n]
        excess == Cardinality(p.queue) - GlobalQueue
    IN  IF excess <= 0 THEN p ELSE FoldLeft(Cut, [pool |-> p, drop |-> excess], order).pool

Truncated(p) == {TruncateQueue(TruncatePending(p), order) : order \in SetToSeqs(Account)}

\* A run for the accounts D, without a new head, begins with their promotion.
RunReorg(D) ==
    /\ phase = "idle" /\ phase' = "truncate"
    /\ pool' = PromoteExecutables(pool, D, nonce, balance)
    /\ dirty' = dirty \ D /\ crossed' = (crossed \/ AmidLists)
    /\ UNCHANGED <<nonce, balance, changes, removing>>

\* A run with a new head, which also takes the requests for the accounts D.
RunReset(D, n, b) ==
    /\ phase = "idle" /\ phase' = "demote"
    /\ nonce' = n /\ balance' = b
    /\ pool' = PromoteExecutables([pool EXCEPT !.nonces = n], Account, n, b)
    /\ dirty' = dirty \ D /\ crossed' = (crossed \/ AmidLists)
    /\ UNCHANGED <<changes, removing>>

RunDemote ==
    /\ phase = "demote" /\ phase' = "nonces"
    /\ pool' = DemoteUnexecutables(pool, nonce, balance)
    /\ crossed' = (crossed \/ AmidLists)
    /\ UNCHANGED <<nonce, balance, changes, dirty, removing>>

RunNonces ==
    /\ phase = "nonces" /\ phase' = "truncate"
    /\ pool' = SetAllNonces(pool, nonce)
    /\ crossed' = (crossed \/ AmidLists)
    /\ UNCHANGED <<nonce, balance, changes, dirty, removing>>

RunTruncate ==
    /\ phase = "truncate" /\ phase' = "idle"
    /\ pool' \in Truncated(pool)
    /\ changes' = 0 /\ crossed' = (crossed \/ AmidLists)
    /\ UNCHANGED <<nonce, balance, dirty, removing>>

\* The pool's loop evicts an account it has not heard of for long.
Evict(a) ==
    /\ phase = "idle"
    /\ Of(pool.queue, a) # {}
    /\ pool' = RemoveTxs(pool, Of(pool.queue, a))
    /\ crossed' = (crossed \/ AmidLists)
    /\ UNCHANGED <<nonce, balance, changes, dirty, phase, removing>>

(***************************************************************************)
(* Remove of the mempool, which holds the lock of the mempool and no other: *)
(* RemoveTx, one write at a time.                                          *)
(***************************************************************************)
RemoveStart(t) ==
    /\ removing.step = "idle"
    /\ t \in pool.all
    /\ pool' = RemoveFromLookup(pool, t)
    /\ removing' = [step |-> "lookup", txs |-> {t}, invalids |-> {}]
    /\ UNCHANGED <<nonce, balance, changes, dirty, phase, crossed>>

\* The list goes with its last transaction.
RemovePending(t) ==
    /\ removing.step = "lookup"
    /\ \/ /\ At(pool.pending, t) # {}
          /\ pool' = [pool EXCEPT !.pending = @ \ (At(@, t) \cup After(pool, t))]
          /\ removing' = [removing EXCEPT !.step = "enqueue", !.invalids = After(pool, t)]
       \/ /\ At(pool.pending, t) = {}
          /\ removing' = [removing EXCEPT !.step = "queue"]
          /\ UNCHANGED pool
    /\ crossed' = (crossed \/ phase # "idle")
    /\ UNCHANGED <<nonce, balance, changes, dirty, phase>>

RemoveEnqueue(u) ==
    /\ removing.step = "enqueue"
    /\ pool' = Demoted(pool, {u})
    /\ removing' = [removing EXCEPT !.invalids = @ \ {u}]
    /\ crossed' = (crossed \/ phase # "idle")
    /\ UNCHANGED <<nonce, balance, changes, dirty, phase>>

RemoveLower(t) ==
    /\ removing.step = "enqueue" /\ removing.invalids = {}
    /\ pool' = [pool EXCEPT !.nonces[t.from] = Min({@, t.nonce})]
    /\ removing' = [removing EXCEPT !.step = "release"]
    /\ crossed' = (crossed \/ phase # "idle")
    /\ UNCHANGED <<nonce, balance, changes, dirty, phase>>

RemoveQueued(t) ==
    /\ removing.step = "queue"
    /\ pool' = [pool EXCEPT !.queue = @ \ At(@, t)]
    /\ removing' = [removing EXCEPT !.step = "release"]
    /\ crossed' = (crossed \/ phase # "idle")
    /\ UNCHANGED <<nonce, balance, changes, dirty, phase>>

RemoveRelease(t) ==
    /\ removing.step = "release"
    /\ pool' = Release(pool, {t.from})
    /\ removing' = NotRemoving
    /\ crossed' = (crossed \/ phase # "idle")
    /\ UNCHANGED <<nonce, balance, changes, dirty, phase>>

\* A run and Remove in the maps of the lists at once: the Go runtime may end the process,
\* as does LastElement on a list that Remove has emptied and not yet deleted.  The node
\* starts again with an empty pool.
Crash ==
    /\ phase # "idle" /\ removing.step # "idle"
    /\ pool' = New(nonce) /\ changes' = 0 /\ dirty' = {}
    /\ phase' = "idle" /\ removing' = NotRemoving /\ crossed' = FALSE
    /\ UNCHANGED <<nonce, balance>>

RunPhases ==
    \/ \E D \in SUBSET dirty :
        \/ RunReorg(D)
        \* a head in which one account moved; several heads move several
        \/ \E a \in Account, n \in 0..(MaxNonce + 1), b \in Balances :
            n >= nonce[a] /\ RunReset(D, [nonce EXCEPT ![a] = n], [balance EXCEPT ![a] = b])
    \/ RunDemote \/ RunNonces \/ RunTruncate

Removals ==
    \/ \E t \in Tx : RemoveStart(t)
    \/ \E t \in removing.txs : RemovePending(t) \/ RemoveLower(t) \/ RemoveQueued(t) \/ RemoveRelease(t)
    \/ \E u \in removing.invalids : RemoveEnqueue(u)

Next ==
    \/ \E t \in Tx : Add(t)
    \/ RunPhases
    \/ \E a \in Account : Evict(a)
    \/ Removals
    \/ Crash

Spec == Init /\ [][Next]_vars

(***************************************************************************)
(* Properties.                                                             *)
(***************************************************************************)
TypeOK ==
    /\ pool.pending \subseteq Tx /\ pool.queue \subseteq Tx /\ pool.all \subseteq Tx
    /\ pool.nonces \in [Account -> 0..(MaxNonce + 1)] /\ pool.reserved \subseteq Account
    /\ nonce \in [Account -> 0..(MaxNonce + 1)] /\ balance \in [Account -> Balances]
    /\ changes \in Nat /\ dirty \subseteq Account /\ crossed \in BOOLEAN
    /\ phase \in {"idle", "demote", "nonces", "truncate"}
    /\ removing \in [step : {"idle", "lookup", "queue", "enqueue", "release"},
                     txs : SUBSET Tx, invalids : SUBSET Tx]

\* The lock of the pool is free, and no run or eviction ever came between the writes of
\* Remove to the lists.  What Remove has left to do at its other writes is no exception.
Settled == phase = "idle" /\ ~ crossed

\* The transaction that the lookup has lost and a list still holds.
Gone == IF removing.step \in {"lookup", "queue"} THEN removing.txs ELSE {}

\* The accounts between whose lists, virtual nonce and reservation Remove is halfway.
Halfway == IF AmidLists THEN {t.from : t \in removing.txs} ELSE {}

\* The lookup knows what the lists hold and what Remove is about to enqueue, whatever was
\* replaced, demoted, dropped or removed on the way: a transaction that is in no list, or
\* one that the lookup forgot, could never be removed or submitted again.
LookupMatches ==
    pool.all = (pool.pending \cup pool.queue \cup removing.invalids) \ Gone

\* Of one account the pool holds one transaction for a nonce, so that enqueueTx
\* never refuses one that is demoted and promoteTx never one that is promoted.
NonceOnce ==
    \A t, u \in pool.pending \cup pool.queue \cup removing.invalids :
        t.from = u.from /\ t.nonce = u.nonce => t = u /\ ~ (t \in pool.pending /\ t \in pool.queue)

\* The pending transactions can be executed: they start at the account's nonce,
\* have no gap, and each can be paid.
Executable ==
    \A a \in Account : LET N == NoncesOf(pool.pending, a) IN
        /\ N # {} => N = nonce[a]..(nonce[a] + Cardinality(N) - 1)
        /\ \A t \in Of(pool.pending, a) : t.price <= balance[a]

\* The virtual nonce of an account, from which queued transactions are promoted,
\* is the one after its last pending transaction.
VirtualNonce ==
    \A a \in Account \ Halfway : pool.nonces[a] = nonce[a] + Cardinality(Of(pool.pending, a))

\* The pool has reserved the accounts it holds transactions of, and no others.
Reserved == \A a \in Account \ Halfway : a \in pool.reserved <=> HasList(pool, a)

\* The lists, the lookup, the virtual nonces and the reservations agree, whichever of
\* the paths that add, replace, drop, promote, demote, truncate and remove were taken,
\* also when a whole run came between Remove's deletion from the lookup and its first
\* look at the lists, and as long as none came later.
ListsAgree ==
    TypeOK /\ (Settled => LookupMatches /\ NonceOnce /\ VirtualNonce /\ Reserved)

\* What is pending can be executed, also while Remove is halfway, as long as no run and
\* no eviction came between its writes to the lists.
PendingExecutable == Settled => Executable

\* The pool never holds more than its slots and, when its lock is free, of pending
\* transactions more than their share only if no account has more than it always may,
\* also when runs and Remove wrote to the lists in turns.
WithinLimits ==
    /\ Cardinality(pool.all) <= GlobalSlots + GlobalQueue
    /\ phase = "idle" =>
        \/ Cardinality(pool.pending) <= GlobalSlots
        \/ \A a \in Account : Cardinality(Of(pool.pending, a)) <= AccountSlots

\* An account with nothing pending does not wait with a transaction that could be
\* executed, unless a run for it was requested, also while Remove is halfway, as long as
\* no run and no eviction came between its writes to the lists.
FirstIsPromoted ==
    Settled => \A a \in Account : nonce[a] \in NoncesOf(pool.queue, a) => a \in dirty

\* No account waits with a transaction that could be executed, unless a run for
\* it was requested: as runReorg has it, "for resets, all addresses in the tx
\* queue will be promoted".
NoneForgotten ==
    Settled => \A a \in Account \ Halfway :
        pool.nonces[a] \in NoncesOf(pool.queue, a) => a \in dirty

\* Whenever the lock of the pool is free, its pending lists hold, as LegacyPool describes
\* them, "all currently processable transactions", whatever Remove was at meanwhile.
Processable == phase = "idle" => Executable
=============================================================================
