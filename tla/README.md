# A verification of cosmos-evm

TLA+ modules that model the core of cosmos-evm, TLC configurations that check
them on small instances, and TLAPS proofs. `PROJECT.json` maps every definition
to the lines it models.

To check a run: `tlc -workers 2 -config <cfg> <module>`. To check the proofs of
a component: `tlapm <component>Proofs.tla` (`JsonRpcProofs.tla` for the indexing
service and the streams).

## 1. Inventory

cosmos-evm runs Ethereum transactions inside a Cosmos SDK chain. A block is a
sequence of transactions; each passes an ante handler and then its message runs
on a cached store. The EVM's state is the state of other modules: balances are
those of x/bank (through x/precisebank when the coin has fewer than 18
decimals), nonces are account sequences, and precompiles let contracts call the
message servers of native modules.

| component | state | operations | interacts with |
|---|---|---|---|
| x/precisebank | fractional balances, remainder; whole coins in x/bank, reserve account | mint, burn, send, genesis | x/bank below, x/vm above |
| x/vm statedb | live objects, journal, dirty counts, revisions, access list, transient storage, cache context | every EVM write, Snapshot, RevertToSnapshot, Commit, precompile calls | keeper (bank, account), precompiles |
| precompiles/common | number of events before a call; multi-store snapshot | Run, BeforeBalanceChange, AfterBalanceChange | statedb, every native module |
| x/erc20 | token pairs and two indexes, dynamic precompiles, allowances, parameters | register, toggle, convert both ways, IBC callbacks, genesis | x/bank, contracts through x/vm, ibc-go |
| ante/evm | none of its own; transient stores of x/vm and x/feemarket | checks, fee, nonce, gas wanted | x/vm, x/feemarket, bank |
| x/vm keeper | transient index, log size, bloom, gas used | ApplyTransaction, refund, hooks | statedb, ante, baseapp's block gas |
| x/feemarket | base fee, parameters, gas wanted of the last block | BeginBlock, EndBlock, UpdateParams | ante handler, x/vm, consensus parameters |
| indexer and its service | key-value index; volatile latest and last block, signal channel | IndexBlock, OnStart loop | CometBFT events and stores, RPC |
| mempool: scheduling | heads of the pool's loop, requested and running reorgs, the subscription to headers, Blockchain adapter | SetEventBus, NotifyNewBlock, Insert, InsertInvalidNonce, resets, Close | CometBFT events, x/vm state, ABCI calls |
| mempool: contents | pending and queued lists, lookup, virtual nonces, reservations; Cosmos pool | add, promote, demote, truncate, evict, Remove, Select | ante handler, x/vm state, proposals |
| rpc streams and filters | ring of segments, condition variable, offsets of readers | Add, Subscribe, ReadBlocking, filters that poll, Close | CometBFT events, websockets |
| rpc backend | none | queries, gas estimation, fee history | indexer, CometBFT, mempool |
| static precompiles | none | staking, distribution, gov, slashing, bank, ics20, werc20 methods | message servers |
| x/ibc/callbacks | none | callbacks of packets into contracts | x/vm, x/erc20 |
| ante/cosmos, evmd, server, crypto, encodings, wallets, client | configuration | wiring, start-up, signatures | all |

What is hard in this code, and what must hold:

* **Two representations of one balance.** Whole coins and fractions
  (x/precisebank), live objects and the bank (statedb), coins and tokens
  (x/erc20). They must agree at the end of every call, whichever path it took.
* **Errors that keep writes.** A keeper call that returns an error has made
  some writes; only the cache around it undoes them, and some callers swallow
  the error. A failed precompile, refund, hook or commit must leave what its
  caller promises.
* **Undo.** Reverting a journal across objects, the multi-store and the access
  list must restore exactly an earlier state.
* **Two ends of a transaction.** The ante handler charges, the message settles;
  a transaction may end in between in four ways.
* **Counters in different places.** The chain and the indexer both number the
  transactions of a block.
* **Concurrency and crashes.** Queries share precompile instances with blocks;
  the indexer service races with new blocks and restarts from its database; six
  goroutines keep the transaction pool at the head of the chain, and merge each
  other's requests; subscribers sleep on streams that are pruned under them.
* **One set in four places.** The pool's two lists, its lookup, its virtual
  nonces and its reservations are changed one after the other by seven paths,
  one of which takes no lock.
* **Foreign code.** A token contract may return true and do nothing, keep a
  fee or take one on top, fail, or destroy itself.

`PROJECT.json` lists these as hazards, each at its line with the properties
that cover it.

## 2. Modules

| module | what it is | checked by |
|---|---|---|
| `PreciseBank` | x/precisebank on x/bank, with SetBalance of x/vm | run `precise_bank`; proofs |
| `ExtendedBank` | abstract: a bank with full precision | refined by `PreciseBank` |
| `StateDB` | the StateDB during one transaction | runs `statedb_*`; proofs |
| `VersionedState` | abstract: a state with copies to go back to | refined by `StateDB` |
| `BalanceHandler` | precompile calls, in turn and overlapping, on one handler | run `balance_handler`; proofs |
| `Erc20` | x/erc20, the ERC20 precompile, IBC hooks | runs `erc20_*`; proofs |
| `EvmBlock` | ante handler, state transition, fee market, index | run `evm_block`; proofs |
| `IndexerService` | the indexing service with crashes and faults | run `indexer`; proofs |
| `TxPool` | the goroutines behind the transaction pool: new heads, resets, submissions, shutdown | run `txpool`; proofs |
| `LegacyPool` | what the pool of Ethereum transactions holds | run `legacy_pool`; proofs |
| `MempoolIterator` | what a proposer is given of it and of the Cosmos pool; extends `LegacyPool` | run `legacy_pool` |
| `Stream` | the log stream of the RPC server and its readers | run `stream`; proofs |
| `<component>Proofs` | inductive invariants, lemmas and theorems (section 4) | tlapm |
| `JsonRpcProofs` | the same for `IndexerService` and `Stream`, the two services behind the JSON-RPC server | tlapm |
| `MempoolProofs` | the same for `TxPool` and `LegacyPool` | tlapm |
| `Sums` | lemmas: sums over finite sets and what folds compute | tlapm |

`MCPreciseBank`, `MCStateDB`, `MCBalanceHandler`, `MCErc20` and `MCLegacyPool`
only define the small sets that their configurations use. `MCEvmBlock` puts two
instances of `EvmBlock` in one run, two chains between which nothing passes. Properties named in a
configuration are often conjunctions of named parts (`JournalSound`,
`ListsAgree`, ...); each part has its own comment. Definitions named as
mutants in a comment are deliberately wrong versions of the definition after
them; no specification uses them. They are listed under `mutants`, each with the
property that must fail when it takes that definition's place.

### PreciseBank

A ledger is a record: `bal` and `supply` (x/bank, external), `frac` and `rem`
(the module's store), and a history field `surplus` for whole coins sent to the
reserve outside the module's books. A keeper method is an operator from a ledger
to an outcome: the ledger with the writes made so far, and `ok`, `err` or `bug`
(a panic, or an error only a corrupt state can cause). Actions are the calls a
transaction makes, `Commit` and `Rollback`. After an error the transaction can
only be rolled back, as in baseapp and in the StateDB's caches.

`ImplementsExtendedBank` is refinement: the balances a caller sees move as in a
bank without fractions. `CallsExact` asks, in every reachable state, about every
single call: does it succeed exactly when it should and change balances by
exactly what was asked for?

### StateDB

A behaviour is one transaction of a `kind`: what it may do, the access list it
names and the bounds of its journal. One record `db` holds objects, journal, dirty counts, revisions, refund, logs,
transient storage, access list, the stack of cached stores and the precompile
counter; a method is an operator on it. `RunPrecompile` is the whole of a
precompile call: commit the dirty objects to the cache context, take the
multi-store snapshot, journal it, run native code that moves coins, stop early
or fail, mirror balances, or revert. `copies` is a history variable: the
visible state at each revision. `RevertsToCopies` is refinement of
`VersionedState`, in which going back means taking a full copy out.
`native` stands for all state of other modules. The events of native code are
left out, but for what the balance handler reads from them (`BalanceHandler`).
CreateAccount of an account that exists, which go-ethereum never asks for, is in
the operator and not an action. CheckTx and traces use the same
code and are not told apart. Runs stop at Commit, hence no deadlock check.

### BalanceHandler

Calls run step by step on the handlers `HandlerOf` gives them. The run has two
calls on one handler, as of a static precompile, which is built once and serves
blocks, simulations and queries. A call may begin after the other has ended or
failed, and the number the other left must not matter; or it may begin while the
other runs, and then the other may replay the wrong events (section 5). The
history variable `overwritten` holds the calls this happened to, and the
properties speak of all others. Calls end, hence no deadlock check.

### Erc20

A message that returns an error is no step. What swallows errors (IBC
callbacks) uses `Convert...` operators that return partial writes. What the
contract's `transfer` does is chosen from `Behaviours`: it moves the tokens,
keeps a fee from what it moves, takes one on top of it, returns true and does
nothing, or fails. The history variable `skimmed` counts the fees on top that
came out of the module's tokens. The other chain receives,
refuses or never answers packets. A contract may be destroyed and deployed again
at its address with CREATE2; `Backed` speaks of contracts never destroyed. Under
EIP-6780 only a contract destroyed in the transaction that creates it goes away,
so these steps are rare in practice, but the code handles them (`CodeHash`
checks, deletion of the pair) and so does the model. `noSend` is x/bank's
SendEnabled. `Validate` is the check of a genesis file without its formats.
Not modelled: pairs of native precompiles and WERC20, the bond
denom, receivers that are contracts.

### EvmBlock

`AnteHandle` is the whole ante handler; its writes stay. `ApplyTransaction`
runs the message: what the EVM did (gas, refund counter, failure, logs) and what
hooks did are inputs. It ends in one of three ways: the StateDB fails to commit
(value sent to a blocked address), the block has not enough gas and everything
is dropped, or it finishes, perhaps as a failed transaction. Legacy transactions
are those with equal fee and tip caps. Decimals are integers in units of
`1/Prec`, truncated where the code truncates. `start` is a history variable.
x/distribution, which empties the fee collector each block, governance and
baseapp's block gas are external. A block gas limit is assumed: without one
(`MaxGas = -1`) the sum of gas limits has no bound. That the refund finds its
money in the fee collector is a consequence (`Accounted`), so the error
path of RefundGas is not a branch of the model.

### IndexerService

The chain, the goroutine that receives headers and the main loop interleave;
`Crash` drops everything but the database. Reads of `latestBlock`, which two
goroutines share without a lock, return the current value, as a 64-bit load
does. A start on an empty index begins at the latest block, so promises are only
made for blocks after one that is indexed.

### TxPool

A header is its number and the hash of its parent, and a hash is the history of
the heads notified. The actors are CometBFT (commits blocks, calls the
application one call at a time, cancels a subscription whose buffer is full), the
goroutine of SetEventBus, the loop of the main pool, its resetting goroutine,
the legacy pool's scheduler with the run it started, submitters that wait
(Insert, with the mutex of the mempool held) or do not (InsertInvalidNonce), and
Close. `next` is what the scheduler has been asked for, `run` what is running: a
run locks the pool, resets or promotes, announces, and ends. `status` says how
the process died: GetBlock panics for what reset takes for a reorganisation, and
a submission that reads the state before the first reset would dereference nil.
A node starts at any height without a context, as after a restart. Only a dead
process or a closed pool may stop (`Ended`), so that deadlock is checked.

### LegacyPool and MempoolIterator

`pool` is a record of sets: pending, queue, all (the lookup), reserved, and the
virtual nonces. A transaction is a sender, a nonce and a price and takes one
slot. Every method is an operator on the record, so that its partial writes and
their order are kept. `Add` is `add` with its validation. A run of `runReorg`
is a sequence of phases: `RunReorg` or, with a new head, `RunReset` promotes;
with a new head `RunDemote` demotes and `RunNonces` sets the virtual nonces;
`RunTruncate` cuts both lists. The run holds the lock of the pool over all of
them, which `phase` stands for. `truncatePending` cuts all lists at one level; the
model computes that level where the code finds it step by step.

Remove holds no lock of the pool, so it is one action for each of its writes:
the lookup (`RemoveStart`), the pending list (`RemovePending`), each transaction
that goes back to the queue (`RemoveEnqueue`), the virtual nonce (`RemoveLower`),
or the queue (`RemoveQueued`), and the reservation (`RemoveRelease`). A run, a
phase or an eviction may come between any two, an Add may not (it comes with
CheckTx, and the application answers one ABCI call at a time). The history
variable `crossed` says that a run or an eviction came after Remove had looked at
the lists and before it was done, or that Remove wrote to the lists between the
phases of a run. `Crash` is what the Go runtime may do when both are in a map at
once, and what LastElement does with a list that Remove has emptied and not yet
deleted (legacypool.go:1118-1121, 1302).

Which transactions are in which heap of the priced list is left open: a full
pool may discard any of its transactions for one that does not pay less than all
of them. The heaps' ratio decides in the code, among entries some of which are
stale. Transactions with blobs are not for this pool; SetCode transactions are
not modelled.

`MempoolIterator` has no state: Select works on copies. Its two properties are
evaluated in every state of the pool, for three base fees, three Cosmos pools
and every order in which the pending transactions may have been seen. Left out:
an Ethereum transaction that cannot be converted (Tx then gives the Cosmos
transaction, and gives it again later), and a Cosmos transaction without a fee
in the bond denom, for which extractCosmosEffectiveTip divides an unset amount.

### Stream

The ring of segments with Add, the three ways of reading, and the readers as
processes: a subscriber reads, releases the lock, takes the channel of the
condition variable, sleeps, is woken or cancelled, and gives the items to a
callback that may fail; a filter polls. An item is the id it should have, so
that the properties can say what was missed. initSubscriptions is split where
another request may come in between; the history variable `raced` says that one
did. Each of the two subscriptions to events may be refused, because the client
has it already or for any other reason, and the refused reader panics (`failed`).
A callback writes to a connection and need not end. Readers may all be gone,
hence no deadlock check.

## 3. Runs

Passing runs:

| run | shows | instance | distinct states |
|---|---|---|---|
| `precise_bank` | types, reserve backed, no panic, each single call exact, refinement of `ExtendedBank` | 2 users, x/vm and reserve; CF 3, 3 coins, 2 calls per transaction; the users are symmetric | 85,856 |
| `statedb_calls` | precompile calls among transfers and reverts; refund, logs, transient storage and access list | 3 accounts, 1 blocked, 1 call allowed (a second is refused), 4 journal entries; or 3 entries under 2 nested revisions | 399,012 |
| `statedb_contracts` | creation, code, storage, destruction around precompile calls | 1 account, 5 journal entries | 647,338 |
| `balance_handler` | calls in turn and overlapping on one handler | 2 calls, up to 1 event before and 1 in each | 875,073 |
| `erc20_convert` | backing, stores of pairs agree, fresh pairs, receipts pay | 1 contract whose transfers do any of five things, amounts to 2, a fee on top of a transfer once (the contract then stays), 1 packet, IBC v1 | 54,118 |
| `erc20_ibc` | refunds reach the sender, allowances, genesis round trip | 1 contract, 1 voucher, a module account, amount 1, 1 packet, IBC v1 and v2 | 458,356 |
| `evm_block` | fees, nonces, transfers and logs settle; gas that moves the base fee is paid; base fee follows demand; no halt; one numbering | 2 users, a blocked account, hooks, 2 transactions; or 1 user, 3 blocks, 3 genesis settings, 3 proposals | 273,146 |
| `indexer` | what faults may lose; every block indexed in the end | 5 blocks, 1 crash, 1 failed fetch, 1 failed write | 197,059 |
| `legacy_pool` | lists, lookup, nonces and reservations agree; limits; promotion; proposals executable, until `crossed`; proposals best first | 2 symmetric accounts, 3 nonces, 2 prices, 2 balances, 3 slots in all, 2 for pending ones; once `crossed`, only where one account has done anything, at one price | 884,450 |
| `txpool` | resets follow the chain and are safe; no request lost; nobody waits for ever | 3 blocks, reorganisations up to depth 2, buffer of 1, one submitter that waits and one that does not | 111,070 |
| `stream` | readers get the next items, are woken and return; one stream, fed unless its subscription was refused or raced | 1 subscriber, 1 filter, segments of 2, 1 full segment kept, batches to 2, 6 items | 149,586 |

Why the bounds are enough. The arithmetic of x/precisebank branches on whether a
fraction borrows, carries, and over- or underflows the remainder; CF 3
with three accounts reaches every combination, and the proofs lift the bound. The
journal's entries interact in pairs (an entry and one that undoes or hides it),
so journals of 3 to 5 entries, with one revision or two nested ones, meet the
pairs. One contract with every behaviour and one packet at a time reach every
order of conversion, destruction and answer. Two transactions fill a block of
gas 4, so that one finishes, the next is dropped and a third finds no gas;
three blocks let the
base fee rise, fall and hit its floor. The indexer's merges, missed headers and
crashes need three blocks beyond the first indexed one. A pool of three slots
is filled, overfilled and truncated by two accounts, whose three nonces make a
gap, a replacement and a list behind it. What follows once a run and Remove have
written in turns is a matter of one account's lists and nonces, so it is explored
only where the other has done nothing and one price is offered (`CrossedAlone`).
What a contract took on top of transfers says something only while it lives, so a
contract that did is not destroyed afterwards (`SkimmedOnce`). Three blocks let one head arrive during
the reset for the one before, be overwritten by the next, and be taken for a
reorganisation of depth at most 2. Six items fill, prune and reuse segments of
two while a reader keeps an offset in each of them.

Fairness. In `IndexerService`: weak fairness of new blocks
(CometBFT keeps committing), of the header goroutine and of the main loop (the Go
scheduler runs both; `time.After` ends every wait). No fault is fair. The chain
is bounded, so its last block is taken to come after the subscription; otherwise
a block in the gap between Status and Subscribe would have no later header to
bring it in, which an endless chain always has. In `TxPool`: weak fairness of
every step of a goroutine that is running, and strong fairness of two, a
submission that waits for the lock of the pool (a Go mutex hands itself to a
waiter after a millisecond) and the scheduler's exit (a `select` chooses at
random among what is ready, so shutdown is taken in the end); blocks,
submissions and Close may stay away. In `Stream`: weak fairness of the
goroutines that serve readers up to their callbacks; a callback, which writes to
a connection without a deadline (websockets.go:611), need not end, no log has to
come and nobody has to poll.

The run `erc20_failed_refund` states what a comment of the code says and finds it
violated: a refund whose conversion fails leaves the sender with nothing, because
`ConvertCoinNativeERC20` has escrowed the coins and the swallowed error does not
give them back. Its finding is in `PROJECT.json`.

More configurations, outside the runs, state what a comment or a reader of the
code would expect and end with a counterexample (section 5):

| configuration | module | property | what happens |
|---|---|---|---|
| `MCIndexerServiceFetch.cfg` | `IndexerService` | `FetchRetried` | after a failed fetch nothing is fetched again |
| `MCTxPoolReorg.cfg` | `TxPool` | `NoReorg` | two heads merged into one are taken for a reorganisation |
| `MCLegacyPoolForgotten.cfg` | `MCLegacyPool` | `NoneForgotten` | a promotion merged with a reset forgets an account |
| `MCLegacyPoolProcessable.cfg` | `MCLegacyPool` | `Processable` | a run promotes what Remove has queued before Remove has lowered the virtual nonce: the pending list has a gap in front |
| `MCStreamUnfed.cfg` | `Stream` | `BackedByEvents` | the first reader is refused its subscription and panics; the next one waits on streams that nothing feeds |
| `MCStreamWakeup.cfg` | `Stream` | `EverythingArrives` | a log added between the release of the stream's lock and Wait wakes nobody, and stays unread if it was the last |

`MCStreamSubscribers.cfg` has two subscribers, one of which may be stuck in its
callback, and 3 items: `ReadersReturn` holds in its 80,656 states, so that a
stalled peer holds up nobody else.

## 4. Proofs

TLAPS proves what follows for every value of the constants that satisfies the
named assumptions of the component's module. Each inductive invariant was first
checked by TLC on the instances of section 3.

| module | theorem | property | condition |
|---|---|---|---|
| `PreciseBankProofs` | `TypeCorrect`, `ReserveAlwaysBacked`, `NoPanic` | `TypeOK`, `ReserveBacked`, `NeverBroken` | |
| | `CallsAlwaysExact` | `CallsExact` | |
| | `Refinement` | `ImplementsExtendedBank` | |
| `StateDBProofs` | `SpecJournalSound`, `SpecCommitSound` | `JournalSound`, `CommitSound` | |
| | `SpecFailedCallUndone` | `FailedCallUndone` | |
| | `SpecRevertsToCopies` | `RevertsToCopies` | |
| `Erc20Proofs` | `AlwaysBacked`, `RegistryAlwaysSound`, `GrantsRespected` | `Backed`, `RegistrySound`, `WithinGrant` | |
| | `PairsAlwaysFresh`, `GenesisAlwaysRoundTrips` | `FreshPairs`, `GenesisRoundTrip` | |
| | `ReceiptsAlwaysPay` | `ReceiptPays` | no IBC v2 |
| | `RefundsReachSender` | `RefundReachesSender` | contracts move what they say and are not destroyed |
| `EvmBlockProofs` | `AlwaysAccounted`, `NoncesAlwaysCount`, `AlwaysAffordable`, `AlwaysNumberedAlike` | `Accounted`, `NonceCounts`, `TransfersAffordable`, `NumberedAlike` | |
| | `GasWantedAlwaysSound` | `GasWantedSound` | the gas of a full block fits an int64 |
| `BalanceHandlerProofs` | `AlwaysMirrors` | `MirrorsTheCall` | |
| `MempoolProofs` | `ResetsAlwaysSafe` | `ResetsSafely` | |
| | `AlwaysWithinLimits` | `WithinLimits` | |
| | `ListsAlwaysAgree`, `FirstAlwaysPromoted` | `ListsAgree`, `FirstIsPromoted` | in the properties: not `crossed` |
| | `PendingAlwaysExecutable` | `PendingExecutable`, a part of `ProposesExecutable` | the same |
| `JsonRpcProofs` | `IndexAlwaysSound` | `IndexSound` | |
| | `ReadersAlwaysServed`, `AlwaysFedUnlessRaced` | `ReadersServed`, `FedUnlessRaced` | in the properties: not `raced` |

The conditions are hypotheses of the theorems and are needed. Without the first
the middleware of IBC v2 acknowledges what it has not paid; without the second
the run `erc20_failed_refund` is a counterexample; without the third EndBlock of
x/feemarket returns an error when the sum of gas limits does not fit an int64,
and the block is lost. MaxTxs bounds the transactions of a block, as the block's
size does.

Sums. Four components add up balances, results or items, and what a recursive
definition or a fold computes is not provable by induction here. `Sums`
therefore takes the cardinality of a set of cells, one cell per unit, for the
sum: how changing one number changes the sum follows from the library's facts
on finite sets. FoldLeft and MapThenSumSet are `CHOOSE`s of a function that
satisfies a recursion over subsets. The sum satisfies it, and a smallest set on
which another solution differs would be a contradiction, so the fold is the sum.
The same argument shows what the replay of events computes in
`BalanceHandlerProofs` (with balances in place of numbers), and what Add and
FlattenSeq compute in `JsonRpcProofs`. `FoldIs` states it once for any function of
the subsets that starts as the fold does and keeps step with it: what Commit
writes and what InitGenesis imports are such closed forms. Where a fold has none
(undoing a journal, warming the addresses of an access list), `FoldExists` shows
that it is a run over the set, one element at a time, and `FoldsInto` that what
every round keeps holds in the end. `FoldTracks` is the same for what depends on
which elements have had their round, as in the pool's loops over accounts.

**PreciseBank** (`ConversionFactorAssumption`, `AddrAssumption`,
`BoundAssumption`). `ReserveBacked` is not inductive. That the reserve has the
coin a carry takes needs the fractions' types and the sum itself; and after a
failed call the running ledger satisfies nothing but its type, and needs nothing
more because it is dropped. Hence `Inv`: the saved ledger is good (typed, backed,
supply in step), the running one is good while the transaction is open, and only
typed after a failure. The argument goes bottom up: the bank's three calls; one
lemma for each of mint, burn and send, by cases on carry, borrow and remainder;
the wrappers; one step per action. The same lemmas say what each call does to the
extended balances, which gives `CallsExact` in every good state; and a step from
one good ledger to another is a step of `ExtendedBank`, or a stutter when the
call failed.

**StateDB** (`ParameterAssumption`, `MissingAssumption`: the nil pointer is no
account, object or address). That RevertToSnapshot restores what a
snapshot saw says nothing inductive: between the two come writes, precompile
calls that commit half of the objects to a cache context, and other reverts. The
invariant therefore keeps a `History`, one state for each length of the
journal, each leading to the one before by undoing one entry. Undoing does not
bring back the earlier record: objects and slots that were loaded stay loaded, the
cache context stays made, and calls stay counted. It brings back a state that
`Covers` the earlier one, in which the EVM sees the same and at least as much is
loaded. Covering is a preorder that every `Undo` preserves, and a state that
covers a good one is good and shows the same view; so a revert of any length may
start from whatever covers the state it is to undo. `Revertible` says that the
state in the history at a revision was good and showed the copy taken there.
Every write is then one lemma: it appends entries whose undoing covers the state
before (`Writes`), and writes compose.

What Commit needs is `Synced`: an account that is not dirty is in the cache
context as the objects show it, and a slot that no object holds is there as in
the store. A precompile call breaks it in the middle, between the native
transfer and the mirrored balances, for the two accounts of the transfer, and
mending it is what the balance handler is for (`GoodBut`, `TransferMirrored`).
A failed call ends at the state its snapshot was taken in (`Anchored`,
`CallUndone`), which is `FailedCallUndone`. `CommitStore` gives in closed form what the
fold over the dirty accounts writes. The steps of the specification map to those of
`VersionedState` one by one: writes and calls to Change, Snapshot to Snapshot,
RevertToSnapshot to GoBack. Each proof takes that storage is empty when the
transaction starts, as `Init` does.

**Erc20** (`ParameterAssumption`; `NamesAssumption`: denoms, addresses and the
absent value are told apart, as a prefix and a length do in the code). To
`RegistrySound` the invariant adds the shape of a pair (`Shaped`: GetID loses
nothing), metadata for every pair of a contract and no coins of a denom without
metadata (`Described`, `Unissued`: this is why a contract that was destroyed and
deployed again is not registered over its old coins), and the escrow
(`Escrowed`): it covers what the other chain holds and every packet that may come
back. Without the last, a refund might take coins that are not there. `Covered`
is `Backed` by denom. It holds whichever of its transfers move what they say, less,
more or nothing: the keeper compares the receiver's balance before and after a
transfer and fails if it differs, and what a transfer takes of the module's tokens
beyond that is counted by `skimmed`.
`GenesisRoundTrip` needs one fact more (`Allowed`): an allowance is of a contract
whose pair is there, which every step keeps because DeleteTokenPair deletes the
pair's allowances. The three loops of InitGenesis are then computed in turn: the
pairs stored so far index no denom or address of another (`PairStored`), so
SetToken refuses none, whatever their order; precompiles and allowances follow.
That `Validate` refuses the export only for a precompile whose pair is disabled
needs that a precompile has a pair and that two pairs share no name.

**EvmBlock** (`ParameterAssumption`, `InputAssumption`: parameters have the
shape x/feemarket validates). Between the ante handler and the message the books
are open, so `BooksOK` extends `Settled` by what the pending transaction prepaid;
`PendingOK` keeps that its nonce is used and its value is there. `GasOK` bounds
the gas wanted by what was charged up to a rounding for each transaction, which
rests on GasUsed being at least the limit times the multiplier, truncated.
`Unhalted` and `CountOK`, each inductive given `Inv`, carry the last two
theorems: the block's gas wanted is at most MaxGas per transaction, and the
chain's index is the number of transactions indexed as long as none failed to
commit.

**BalanceHandler** (`ParameterAssumption`). `OwnEvents`: a running call that
nobody has overwritten finds its own number in the handler, and the events after
it come to what its native code did. `BeforeBalanceChange` establishes this and
adds every call under way on the same handler to `overwritten`; each event keeps
it; and the replay of those events from a StateDB nothing was done to
(`Untouched`) leaves the same.

**IndexerService** (`BoundAssumption`). A gap can only be counted once a later
block is indexed, which is too late for an induction. `Passed` therefore counts
the blocks the loop has passed over so far, and is at most the number of failed
writes; after a crash the loop begins behind the last indexed block.

**TxPool** (`PoolAssumption`). A head is known by the place of its hash in the
adapter's chain of hashes (`Rank`), and heads reach the loop, the resetting
goroutine and the scheduler in this order (`HeadsOrdered`). `OneReset` says where
the one reset under way is, by the goroutine's program counter, and `HeadKept`
which head the legacy pool is at meanwhile; only a pool that has been reset lets
submissions in.

**LegacyPool** (`LegacyPoolAssumption`). Of `ListsAgree`, `VirtualNonce` counts and
does not say which nonces are pending; `Contiguous` does: those from the account's
nonce to its virtual nonce. With it, `Agree` (lists and lookup, up to the
transaction that Remove holds), `Held` (reservations) and `Paid`, the pool is
`Sound`. No operation but the last of a run restores all of it, so each has a
lemma on what it keeps, and `Phased` says what holds before each phase.

The invariant `LegacyPoolInv` has two parts. What holds in every state is
`Limited`: each list by itself has one transaction for a nonce (`Filed`), and the
limits hold. Every operation keeps this of any pool that is filed, agreeing or
not: it takes in no transaction, or the one that `add` has made room for. As long
as nothing was `crossed`, `Whole` adds that the pool is `Phased`, or, when Remove
is between its writes to the lists, that it will be once Remove has written what
it has left: `Enqueued` and `Release` are those writes. From there the properties follow for
every account but the one Remove is at (`Mirrors`).

 A removal demotes what came after
it, and what is demoted finds no other at its nonce (`NoClash`). Under a new head
the virtual nonces are first those of the head: until SetAllNonces the pending
transactions are only `Closed`, without a gap above the new nonce, which promotion
from that nonce and demotion keep. An account done by promoteExecutables has
nothing queued for its nonce, and demotion puts nothing there: `FirstIsPromoted`.
truncatePending keeps the first `Level` transactions of each account; the kept ones
are mapped one to one to the cells that `SizeAt` counts, which bounds them. A full
pool holds the sender before it discards: `Roomy` says what is true between the
discard and the placing, where the sender may have lost its last transaction. Of
the limits nothing is assumed but that they are positive, as `sanitize` makes
them.

**Stream** (`ParameterAssumption`). A stream is determined by how many items it
was given: `Ring(m)`, a closed form of the segments, of the count of pruned ones
and of what each holds, is what Add makes of `Ring(0)` (`AppendedRing`,
`AddedRing`), and every stream of every state is one (`Rings`). What a read
returns is then arithmetic on the offset (`ReadCases`, `RingServes`): a reader
that is not ahead of the stream never slices beyond a segment, gets nothing only
at the end, and lands in the earliest segment when its own was pruned. That
nobody is ahead, and that all hold the same stream, is `InTurn`: as long as no
reader entered initSubscriptions with another inside, only one is between its
steps, and there is one stream afterwards; whoever was refused a subscription was
that one, and since the streams are set nobody subscribes again. In a raced state the invariant keeps
no more than positions within bounds, which is why `ReadsNext` and
`FedUnlessRaced` are conditional.

Only model-checked: the liveness properties (`EventuallyIndexed`, `CatchesUp`,
`NobodyWaits`, `EventuallyPromoted`, `ReadersReturn`), which are out of the
prover's reach; `FeeFollowsDemand`, which does not hold for all constants (an
elasticity above the block's gas makes the target 0, and many transactions that
want much more gas than they use let the fee rise by more than the bound);
and of `MempoolIterator` the order and completeness of what the proposer is given
(`SelectsExecutable`, `BestFirst`): Select is a fold over lists that SetToSortSeq
has sorted, and the properties pick from its result with SelectSeq, operators with
an operator for a parameter about which the prover has no facts.

## 5. Where the properties stop

Some properties hold under a condition that the code does not establish. The
conditions, with the lines they come from:

* `MirrorsTheCall` is about calls during which no other call begins on the same
  handler. `prevEventsLen` (precompiles/common/balance_handler.go:36) is a field
  of a precompile built once, so an eth_call beside a block can overwrite it.
* `CommitsTheView` leaves blocked accounts out. The balance handler skips them,
  and Commit writes the balance of every dirty object (statedb.go:707): an object
  of a blocked account that is dirty when a precompile moves its coins overwrites
  the native balance.
* `Backed` counts what a contract took of the module's tokens on top of transfers.
  ConvertCoinNativeERC20 compares only the receiver's balance
  (x/erc20/keeper/msg_server.go:284-297), so a token with a fee on top leaves the
  module with fewer tokens than there are coins, by `skimmed`. A fee is one unit in
  the model. Contracts that change balances outside of transfers are not in it.
* `GenesisRoundTrip` is about InitGenesis, which does not validate. `Validate` is
  called for a genesis file only (x/erc20/module.go:70), and refuses what was
  exported while the pair of a precompile was disabled (types/genesis.go:79-96).
* `WithinGrant` meets no partial spend in the run `erc20_ibc`, whose amounts are 1;
  those rest on `GrantsRespected`.
* `ReceiptPays` says that the packet's amount was paid out, as coins or tokens, and
  is checked for IBC v1. x/erc20/v2/ibc_middleware.go:89 drops the
  acknowledgement of the conversion, so a failed one is acknowledged as success.
* `IndexMatches` holds until a message of the block fails to commit. Then
  ApplyTransaction returns before it raises the transaction index
  (state_transition.go:190), while the indexer counts the transaction, and later
  transactions of the block have two numbers.
* `EventuallyIndexed` allows for a failed write: its error is logged and the block
  passed over (server/indexer_service.go:118); a restart begins after it.
* After a failed fetch the service never fetches again before a restart:
  `blockErr` is cleared in a loop that is not entered while it is set
  (server/indexer_service.go:89). `FetchRetried` is violated under
  `MCIndexerServiceFetch.cfg`; `EventuallyIndexed` allows for it.
* `ResetsSafely` lets the process die over a gap in the heads. The pool's loop
  overwrites the head it has not reset to yet (txpool/txpool.go:227). The next
  reset goes from block N to N + 2, whose parent is not N; reset takes this for a
  reorganisation and calls GetBlock, which panics unless the height is 0 or 1
  (mempool/blockchain.go:134: "reorgs never occur"; `NoReorg` is violated under
  `MCTxPoolReorg.cfg`). The first head after a restart at a small height does the
  same.
* `CatchesUp` holds while the subscription is active. It buffers one header
  (mempool/mempool.go:389); CometBFT cancels it when a second one comes, and the
  pool never sees another block.
* `NobodyWaits` rests on a broadcast that fails at once: the announcement of a run
  calls BroadcastTxFn with the client context that evmd hands over, which is empty.
  The comments at mempool/mempool.go:121 and legacypool.go:1328 describe one that
  works; then CheckTx of the announced transactions may need the mutex that an
  Insert waiting for the run holds, and the property does not catch that.
* `ListsAgree`, `FirstIsPromoted` and `PendingExecutable` (in `ProposesExecutable`)
  end where a run or an eviction comes between two writes of Remove to the lists,
  which no lock prevents (mempool/mempool.go:312). Then the pending list may have a
  gap in front (`MCLegacyPoolProcessable.cfg`), the virtual nonce may be below the
  state's, and a transaction queued by Remove after the run may be forgotten; the
  next head repairs what it demotes and promotes. `WithinLimits` goes on. A write
  of Remove inside a phase or inside the loop of an eviction is taken to come
  before or after it, apart from `Crash`.
* `FirstIsPromoted` is about accounts with nothing pending. A promotion merged
  with a reset forgets an account whose queue continues its pending list: the
  reset promotes from the nonces of the state, before the pending list is counted
  (legacypool.go:1349, 1299), and the request is used up. `NoneForgotten`, which
  is what the comment at legacypool.go:1259 leads one to expect, is violated under
  `MCLegacyPoolForgotten.cfg`; the next submission or block repairs it.
* `ReadersReturn` is about subscribers that were woken, and whose peers take what is
  written to them. ReadBlocking releases the lock before Wait takes the channel
  (rpc/stream/stream.go:133), and an Add in between wakes nobody until
  the next Add (`MCStreamWakeup.cfg`). WriteJSON has no deadline
  (rpc/websockets.go:611), so a peer that stalls holds its own subscriber for ever,
  cancelled or not. The context is looked at only when nothing is left to read: a
  cancelled subscriber stops once no more logs come, as the bound on items has it.
* `ReadersServed` lets a reader whose next item was pruned miss up to a segment
  less one of the items still there: the position in the pruned segment is used
  in the earliest one (stream.go:163).
* `FedUnlessRaced` and `ReadersServed` except two requests in initSubscriptions at
  once (rpc/stream/rpc.go:79): the second may get no stream, replace the first's
  stream, or panic when it subscribes to the same events.
* `FedUnlessRaced` lets the first reader be refused without a race. Under grpc-only
  the JSON-RPC server has an HTTP client that was never started (server/start.go),
  whose Subscribe fails. initSubscriptions panics with the streams set
  (rpc/stream/rpc.go:84, 89), and later readers hold one that is never fed
  (`MCStreamUnfed.cfg`).
* `GasWantedSound` in the run `evm_block` cannot reach an int64's end; that EndBlock
  does not fail there rests on `GasWantedAlwaysSound` and its condition.
* Nothing but the gas limit 0 of the zero header keeps a submission before the
  first reset from the nil state (`StateKnown`; legacypool.go:576).

Seen while modelling and stated by no property: after a revert, events of
precompile calls kept later are not emitted (statedb.go:188); the precompile
counter is 8 bits wide, is raised before it is compared and wraps
(statedb.go:442); the Approval event of transferFrom carries zero
(precompiles/erc20/tx.go:97, a shadowed variable); a refund converts coins of a
pair whose conversion is disabled (x/erc20/keeper/ibc_callbacks.go:220).

## 6. Not modelled

The Cosmos priority mempool and the local tracker, static precompiles other than
their common frame, IBC callbacks, the Cosmos ante handler, the JSON-RPC backend,
EIP-7702 authorizations, tracing and simulation, signatures and encodings,
generated code (most of the repository's lines), evmd's wiring. Reasons are in
`PROJECT.json`. A creation by a delegated account (EIP-7702), whose nested
creations also use its nonce, is outside `EvmBlock`. That x/vm's snapshot store
is a stack of copies is taken over in `StateDB`.

## 7. Plan

Done: the modules above, in the order precise bank, StateDB, ERC20, balance
handler, block, indexer service, transaction pool, legacy pool and iterator,
stream; the proofs of section 4.

Theorems worth proving next, for every value of the constants:
`SelectsExecutable` of `MempoolIterator`, restated without SelectSeq and with a closed
form of what Select has given after each round.

Models worth writing next: `SnapshotStore` (x/vm/store), refining a stack of
copies, so that `StateDB`'s stack becomes a consequence; WERC20, ICS20 and the
staking precompiles composed with `StateDB`; IBC callbacks composed with `Erc20`;
gas estimation by binary search against a reference; the limits on nested
messages of the Cosmos ante handler.
