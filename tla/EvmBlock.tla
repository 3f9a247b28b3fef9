------------------------------ MODULE EvmBlock ------------------------------
(***************************************************************************)
(* Ethereum transactions in blocks: the ante handler (ante/evm), the state *)
(* transition (x/vm/keeper), the fee market that prices them (x/feemarket) *)
(* and the index of them that the JSON-RPC server keeps (indexer).         *)
(*                                                                         *)
(* A transaction is delivered in two steps.  The ante handler takes the    *)
(* whole fee and the nonce; its writes stay.  The message then runs on a   *)
(* cache of its own: it is dropped when the message returns an error or    *)
(* the block has no gas left for it.  What the EVM does with a message is  *)
(* an input: the gas it used, its refund counter, whether it failed, how   *)
(* many logs it wrote.                                                     *)
(*                                                                         *)
(* The decimals of x/feemarket are integers in units of 1/Prec.            *)
(***************************************************************************)
EXTENDS Integers, Sequences, FiniteSets, SequencesExt

CONSTANTS
    Users,        \* accounts of users
    Blocked,      \* module accounts, to which the bank lets nobody send
    Create,       \* the recipient of a transaction that creates a contract
    None,
    Prec,         \* one, in the decimals of x/feemarket
    Factor,       \* EVM units per unit of the bank's coin
    Elasticity,   \* ElasticityMultiplier
    Denominator,  \* BaseFeeChangeDenominator
    Multiplier,   \* MinGasMultiplier, a decimal
    RefundQuotient,
    Intrinsic,    \* intrinsic gas
    MaxGas,       \* gas of a block, a consensus parameter
    Word,         \* 2^64
    MaxInt64,
    HasHooks,     \* post-transaction hooks are set
    Genesis,      \* parameters of x/feemarket at genesis
    Proposals,    \* parameters governance may set
    Senders, Recipients,  \* inputs: who sends, to whom
    Gas, Prices, Values,  \* inputs: gas limits, fee and tip caps, amounts
    Funds,        \* bound: balance of a user at genesis
    MaxLogs,      \* bound: logs of a message
    MaxTxs,       \* bound: transactions in a block
    MaxHeight     \* bound: blocks

ASSUME ParameterAssumption ==
    /\ {Prec, Factor, Elasticity, Denominator, RefundQuotient, MaxGas, Word} \subseteq Nat \ {0}
    /\ Prec % Factor = 0
    /\ Multiplier \in 0 .. Prec
    /\ {Intrinsic, Funds, MaxLogs, MaxTxs, MaxHeight, MaxInt64} \subseteq Nat
    /\ MaxInt64 < Word
    /\ Blocked \cap Users = {} /\ Create \notin Users \cup Blocked
    /\ Senders \subseteq Users /\ Recipients \subseteq Users \cup Blocked \cup {Create}
    /\ Gas \cup Prices \cup Values \subseteq Nat
    /\ HasHooks \in BOOLEAN

VARIABLES
    acct,      \* nonce and balance of every account
    collector, \* balance of the fee collector
    market,    \* the state of x/feemarket
    block,     \* height, phase, block gas meter and transient stores
    pending,   \* the transaction between its ante handler and its message
    results,   \* what the block's transactions returned, in order
    start      \* history: acct when the block began

vars == <<acct, collector, market, block, pending, results, start>>

Accounts == Users \cup Blocked
Tx == [from: Users, to: Accounts \cup {Create}, nonce: Nat, value: Values,
       gas: Gas, cap: Prices, tip: Prices]
Params == [noBaseFee: BOOLEAN, enableHeight: Nat, baseFee: Nat, minGasPrice: Nat]

\* Parameters are validated before they are set, and None is no transaction.
ASSUME InputAssumption == Genesis \cup Proposals \subseteq Params /\ None \notin Tx

Largest(m, n)  == IF m > n THEN m ELSE n
Smallest(m, n) == IF m < n THEN m ELSE n

(***************************************************************************)
(* x/feemarket.                                                            *)
(***************************************************************************)
GetBaseFeeEnabled(p) == ~ p.noBaseFee /\ block.height >= p.enableHeight

\* The base fee the EVM sees, converted and truncated.
GetBaseFee(p) == IF p.noBaseFee THEN 0 ELSE (p.baseFee * Factor) \div Prec

\* Mutant of CalcGasBaseFee: a rise may round to nothing.
NoSmallestRise(used, target, baseFee, minUnitGas, minGasPrice) ==
    LET gap   == IF used > target THEN used - target ELSE target - used
        delta == ((gap * baseFee) \div target) \div Denominator
    IN  IF used > target THEN baseFee + delta ELSE Largest(baseFee - delta, minGasPrice)

CalcGasBaseFee(used, target, baseFee, minUnitGas, minGasPrice) ==
    LET gap   == IF used > target THEN used - target ELSE target - used
        delta == ((gap * baseFee) \div target) \div Denominator
    IN  IF used = target THEN baseFee
        ELSE IF target = 0 THEN 0
        ELSE IF used > target THEN baseFee + Largest(delta, minUnitGas)
        ELSE Largest(baseFee - delta, minGasPrice)

Target == MaxGas \div Elasticity

CalculateBaseFee(m, height) ==
    IF m.noBaseFee \/ height <= m.enableHeight THEN m.baseFee
    ELSE CalcGasBaseFee(m.gasWanted, Target, m.baseFee, Prec \div Factor, m.minGasPrice)

\* The gas a block counts as having used: what was wanted weighs Multiplier.
UpdatedGasWanted(wanted, used) == Largest(wanted * Multiplier, used * Prec) \div Prec

(***************************************************************************)
(* The ante handler.                                                       *)
(***************************************************************************)
EffectivePrice(tx) == Smallest(tx.tip + GetBaseFee(market), tx.cap)

CheckGlobalFee(tx) == EffectivePrice(tx) * tx.gas * Prec >= market.minGasPrice * Factor * tx.gas

\* Mutant of VerifyAccountBalance: only the fee is looked at.
ValueNotCovered(tx) == acct[tx.from].bal >= tx.gas * tx.cap

VerifyAccountBalance(tx) == acct[tx.from].bal >= tx.gas * tx.cap + tx.value

CanTransfer(tx) == tx.cap >= GetBaseFee(market) /\ acct[tx.from].bal >= tx.value

VerifyFee(tx) == tx.gas * EffectivePrice(tx)

ValidNonce(tx) == tx.nonce = acct[tx.from].nonce /\ tx.nonce < Word - 1

WithinBlock(tx) == tx.gas <= MaxGas

AnteAccepts(tx) ==
    /\ tx.gas >= Intrinsic /\ tx.tip <= tx.cap
    /\ CheckGlobalFee(tx)
    /\ VerifyAccountBalance(tx)
    /\ CanTransfer(tx)
    /\ ValidNonce(tx)
    /\ WithinBlock(tx)

AddTransientGasWanted(b, tx) ==
    IF GetBaseFeeEnabled(market) THEN [b EXCEPT !.gasWanted = (@ + tx.gas) % Word] ELSE b

Deduct(tx) ==
    [acct EXCEPT ![tx.from] = [nonce |-> tx.nonce + 1, bal |-> @.bal - VerifyFee(tx)]]

ResetTransientGasUsed(b) == [b EXCEPT !.txGas = 0]

(***************************************************************************)
(* The state transition.  run is what the EVM and the hooks did.           *)
(***************************************************************************)
Runs(tx) ==
    [used: Intrinsic .. tx.gas, counter: 0 .. 1, vmErr: BOOLEAN, logs: 0 .. MaxLogs,
     hook: IF HasHooks THEN {"quiet", "logs", "fails"} ELSE {"none"}]

GasToRefund(counter, used) == Smallest(counter, used \div RefundQuotient)

\* Mutant of GasUsed: no minimum is charged.
MinimumNotCharged(tx, run) == run.used - GasToRefund(run.counter, run.used)

GasUsed(tx, run) ==
    Largest(run.used - GasToRefund(run.counter, run.used), (tx.gas * Multiplier) \div Prec)

VmFails(tx, run) == run.vmErr \/ acct[tx.from].bal < tx.value

\* Mutant of Executed: the nonce the EVM starts a creation with is left.
NonceReset(tx) ==
    LET paid == [acct EXCEPT ![tx.from] =
                    [nonce |-> IF tx.to = Create THEN tx.nonce ELSE @.nonce,
                     bal |-> @.bal - tx.value]]
    IN  IF tx.to = Create THEN paid ELSE [paid EXCEPT ![tx.to].bal = @ + tx.value]

\* The accounts after a message that did not fail.  The value of a creation goes
\* to the new contract, which no later transaction of the model touches.
Executed(tx) ==
    LET paid == [acct EXCEPT ![tx.from] =
                    [nonce |-> IF tx.to = Create THEN tx.nonce + 1 ELSE @.nonce,
                     bal |-> @.bal - tx.value]]
    IN  IF tx.to = Create THEN paid ELSE [paid EXCEPT ![tx.to].bal = @ + tx.value]

\* The bank refuses the balance of a module account at Commit.
CommitRefused(tx, run) == ~ VmFails(tx, run) /\ tx.to \in Blocked /\ tx.value > 0

HookFails(run) == run.hook = "fails"

Failed(tx, run) == VmFails(tx, run) \/ HookFails(run)

\* Mutant of Applied: a message whose hook failed is kept.
HookIgnored(tx, run) == IF VmFails(tx, run) THEN acct ELSE Executed(tx)

\* The accounts a finished message leaves, before the refund.
Applied(tx, run) == IF Failed(tx, run) THEN acct ELSE Executed(tx)

\* Mutant of Logs: the logs of a message whose hook failed are counted.
LogsKept(tx, run) == IF VmFails(tx, run) THEN 0 ELSE run.logs

Logs(tx, run) ==
    IF Failed(tx, run) THEN 0 ELSE run.logs + (IF run.hook = "logs" THEN 1 ELSE 0)

RefundGas(tx, gasUsed) == (tx.gas - gasUsed) * EffectivePrice(tx)

\* Before the ante handler has accepted it a transaction leaves nothing but its code.
Rejected ==
    [tx |-> None, code |-> "ante", failed |-> TRUE, gasUsed |-> 0, index |-> 0, firstLog |-> 0,
     logs |-> 0]

\* A message that ended with an error keeps its ante handler's event only.
Dropped(tx, code) ==
    [tx |-> tx, code |-> code, failed |-> TRUE, gasUsed |-> tx.gas,
     index |-> block.txIndex, firstLog |-> 0, logs |-> 0]

\* The transient stores after a message that finished.
Counted(tx, run) ==
    [block EXCEPT !.txIndex = @ + 1,
                  !.logSize = @ + Logs(tx, run),
                  !.bloom = IF Logs(tx, run) = 0 THEN @ ELSE @ \cup {Len(results) + 1},
                  !.txGas = @ + GasUsed(tx, run)]

\* The gas a transaction reports is what its gas meter was reset to.
Finished(tx, run) ==
    [tx |-> tx, code |-> "ok", failed |-> Failed(tx, run), gasUsed |-> Counted(tx, run).txGas,
     index |-> block.txIndex, firstLog |-> block.logSize, logs |-> Logs(tx, run)]

(***************************************************************************)
(* The index.                                                              *)
(***************************************************************************)
TxSucessOrExpectedFailure(r) == r.code \in {"ok", "commit", "blockgas"}

Indexed(rs) == {i \in 1 .. Len(rs) : TxSucessOrExpectedFailure(rs[i])}

\* The EthTxIndex of every transaction of a block that is indexed.
IndexBlock(rs) == [i \in Indexed(rs) |-> Cardinality({j \in Indexed(rs) : j < i})]

(***************************************************************************)
(* Blocks.                                                                 *)
(***************************************************************************)
Init ==
    /\ acct = [a \in Accounts |-> [nonce |-> 0, bal |-> IF a \in Users THEN Funds ELSE 0]]
    /\ collector = 0
    /\ \E p \in Genesis :
         market = [noBaseFee |-> p.noBaseFee, enableHeight |-> p.enableHeight,
                   baseFee |-> p.baseFee, minGasPrice |-> p.minGasPrice, gasWanted |-> 0]
    /\ block = [height |-> 0, phase |-> "closed", gas |-> 0, gasWanted |-> 0, txIndex |-> 0,
                logSize |-> 0, bloom |-> {}, txGas |-> 0]
    /\ pending = None
    /\ results = << >>
    /\ start = acct

\* The base fee is set; after it x/distribution empties the fee collector.
BeginBlock ==
    /\ block.phase = "closed"
    /\ block.height < MaxHeight
    /\ block' = [height |-> block.height + 1, phase |-> "open", gas |-> 0, gasWanted |-> 0,
                 txIndex |-> 0, logSize |-> 0, bloom |-> {}, txGas |-> 0]
    /\ market' = [market EXCEPT !.baseFee = CalculateBaseFee(market, block.height + 1)]
    /\ collector' = 0
    /\ results' = << >>
    /\ start' = acct
    /\ UNCHANGED <<acct, pending>>

CanDeliver == block.phase = "open" /\ pending = None /\ Len(results) < MaxTxs

\* baseapp: a block without gas left runs no ante handler.
GasLeft == block.gas < MaxGas

AnteHandle(tx) ==
    /\ CanDeliver
    /\ GasLeft
    /\ AnteAccepts(tx)
    /\ acct' = Deduct(tx)
    /\ collector' = collector + VerifyFee(tx)
    /\ block' = AddTransientGasWanted(ResetTransientGasUsed(block), tx)
    /\ pending' = tx
    /\ UNCHANGED <<market, results, start>>

AnteRejects(tx) ==
    /\ CanDeliver
    /\ ~ (GasLeft /\ AnteAccepts(tx))
    /\ results' = Append(results, Rejected)
    /\ UNCHANGED <<acct, collector, market, block, pending, start>>

\* The message fails to commit; its whole gas limit is charged to the block.
ApplyFails(tx, run) ==
    /\ CommitRefused(tx, run)
    /\ LET gas == block.gas + tx.gas
       IN  /\ block' = [block EXCEPT !.gas = gas]
           /\ results' = Append(results, Dropped(tx, IF gas > MaxGas THEN "blockgas" ELSE "commit"))
    /\ UNCHANGED <<acct, collector>>

\* The message runs but the block has not gas enough: its writes are dropped.
ApplyExceedsBlock(tx, run) ==
    /\ ~ CommitRefused(tx, run)
    /\ block.gas + Counted(tx, run).txGas > MaxGas
    /\ block' = [block EXCEPT !.gas = @ + Counted(tx, run).txGas]
    /\ results' = Append(results, Dropped(tx, "blockgas"))
    /\ UNCHANGED <<acct, collector>>

ApplyFinishes(tx, run) ==
    /\ ~ CommitRefused(tx, run)
    /\ block.gas + Counted(tx, run).txGas <= MaxGas
    /\ block' = [Counted(tx, run) EXCEPT !.gas = @ + Counted(tx, run).txGas]
    /\ results' = Append(results, Finished(tx, run))
    /\ acct' = [Applied(tx, run) EXCEPT ![tx.from].bal = @ + RefundGas(tx, GasUsed(tx, run))]
    /\ collector' = collector - RefundGas(tx, GasUsed(tx, run))

ApplyTransaction ==
    /\ pending # None
    /\ \E run \in Runs(pending) :
         \/ ApplyFails(pending, run)
         \/ ApplyExceedsBlock(pending, run)
         \/ ApplyFinishes(pending, run)
    /\ pending' = None
    /\ UNCHANGED <<market, start>>

\* Governance changes parameters before x/feemarket ends the block.  An error of
\* EndBlock stops the chain.
EndBlock ==
    /\ block.phase = "open" /\ pending = None
    /\ \E p \in Proposals \cup {None} :
         LET used == Smallest(block.gas, MaxGas)
         IN  /\ market' = [noBaseFee |-> IF p = None THEN market.noBaseFee ELSE p.noBaseFee,
                           enableHeight |-> IF p = None THEN market.enableHeight ELSE p.enableHeight,
                           baseFee |-> IF p = None THEN market.baseFee ELSE p.baseFee,
                           minGasPrice |-> IF p = None THEN market.minGasPrice ELSE p.minGasPrice,
                           gasWanted |-> UpdatedGasWanted(block.gasWanted, used)]
             /\ block' = [block EXCEPT !.phase =
                             IF block.gasWanted > MaxInt64 THEN "halted" ELSE "closed"]
    /\ UNCHANGED <<acct, collector, pending, results, start>>

Stop == block.height = MaxHeight /\ block.phase = "closed" /\ UNCHANGED vars

Next ==
    \/ BeginBlock
    \/ \E tx \in [from: Senders, to: Recipients, nonce: 0 .. MaxHeight * MaxTxs,
                  value: Values, gas: Gas, cap: Prices, tip: Prices] :
         AnteHandle(tx) \/ AnteRejects(tx)
    \/ ApplyTransaction
    \/ EndBlock
    \/ Stop

Spec == Init /\ [][Next]_vars

(***************************************************************************)
(* Properties.                                                             *)
(***************************************************************************)
Result ==
    [tx: Tx \cup {None}, code: {"ok", "ante", "commit", "blockgas"}, failed: BOOLEAN,
     gasUsed: Nat, index: Nat, firstLog: Nat, logs: Nat]

\* Types: in particular no balance, the fee collector's included, is negative.
TypeOK ==
    /\ acct \in [Accounts -> [nonce: Nat, bal: Nat]]
    /\ collector \in Nat
    /\ market \in [noBaseFee: BOOLEAN, enableHeight: Nat, baseFee: Nat, minGasPrice: Nat,
                   gasWanted: Nat]
    /\ block \in [height: 0 .. MaxHeight, phase: {"open", "closed", "halted"}, gas: Nat,
                  gasWanted: 0 .. Word - 1, txIndex: Nat, logSize: Nat,
                  bloom: SUBSET (1 .. MaxTxs), txGas: Nat]
    /\ pending \in Tx \cup {None}
    /\ results \in Seq(Result) /\ Len(results) <= MaxTxs

Total(f(_), rs) == FoldLeft(LAMBDA sum, r : sum + f(r), 0, rs)

Fee(r) == IF r.tx = None THEN 0 ELSE r.gasUsed * EffectivePrice(r.tx)

Spent(a, r) ==
    IF r.tx = None \/ r.tx.from # a THEN 0
    ELSE Fee(r) + (IF r.failed THEN 0 ELSE r.tx.value)

Received(a, r) == IF r.tx # None /\ ~ r.failed /\ r.tx.to = a THEN r.tx.value ELSE 0

\* What a block's transactions report is what they cost: between transactions every
\* account has what it began the block with, less the reported gas of its own
\* transactions at their effective price and the value of those that succeeded, plus
\* what it was sent, and the fee collector has exactly the fees.  The ante handler
\* takes the whole limit, ApplyTransaction gives back, and a commit error, a failed
\* hook or a full block in between must leave the three in step.
Settled ==
    block.phase = "open" /\ pending = None =>
        LET rs == results
        IN  /\ \A a \in Accounts :
                 acct[a].bal = start[a].bal - Total(LAMBDA r : Spent(a, r), rs)
                                            + Total(LAMBDA r : Received(a, r), rs)
            /\ collector = Total(Fee, rs)

\* No account nor the fee collector is overdrawn, and all are settled as reported.
Accounted == TypeOK /\ Settled

\* A transaction the index knows uses up exactly one nonce of its sender, and no other
\* transaction does, although a creation resets the nonce the ante handler has raised.
NonceCounts ==
    pending = None =>
        \A a \in Users :
            acct[a].nonce = start[a].nonce
                + Cardinality({i \in Indexed(results) : results[i].tx.from = a})

\* When the message runs, the sender can still pay the value: the balance was checked
\* before the fee was taken and against the fee cap.
TransfersAffordable == pending # None => acct[pending.from].bal >= pending.value

\* The logs of a block are numbered without gaps or overlaps in the order of its
\* transactions, failed ones have none, and its bloom filter holds the transactions
\* that have logs, whatever hooks add, fail or drop in between.
LogsContiguous ==
    /\ \A i \in 1 .. Len(results) :
         results[i].logs > 0 =>
             /\ ~ results[i].failed
             /\ results[i].firstLog = Total(LAMBDA r : r.logs, SubSeq(results, 1, i - 1))
    /\ block.bloom = {i \in 1 .. Len(results) : results[i].logs > 0}

\* The gas that moves the base fee has been paid for: what EndBlock stores is no more
\* than the block's transactions were charged, but for the rounding of each.
ChargedCovers ==
    block.phase = "closed" /\ pending = None =>
        market.gasWanted <= Total(LAMBDA r : r.gasUsed, results)
                              + Largest(0, Cardinality(Indexed(results)) - 1)

\* No block makes EndBlock of x/feemarket return an error, which would stop the chain.
NeverHalted == block.phase # "halted"

\* The gas wanted that transactions promise is neither free (ChargedCovers) nor able to
\* stop the chain (NeverHalted): AddTransientGasWanted and EndBlock of x/feemarket.
GasWantedSound == ChargedCovers /\ NeverHalted

\* The index the chain puts in the event of a transaction is the one IndexBlock of the
\* indexer gives it, until a message of the block fails to commit: the chain drops its
\* count of that one, the indexer keeps it.
IndexMatches ==
    \A i \in Indexed(results) :
        results[i].code = "ok" /\ (\A j \in 1 .. i : results[j].code # "commit") =>
            results[i].index = IndexBlock(results)[i]

\* Transactions and logs are numbered alike by the chain, the bloom filter and the
\* indexer: LogsContiguous and IndexMatches.
NumberedAlike == LogsContiguous /\ IndexMatches

\* The base fee the EVM sees follows the demand of the block before: it rises by at
\* least one unit over the target, does not rise under it but to the minimum gas
\* price, and changes by no more than the parameters allow.
FeeFollowsDemand ==
    [][BeginBlock /\ block'.height > market.enableHeight /\ ~ market.noBaseFee =>
         LET old == market.baseFee
             new == market'.baseFee
         IN  /\ market.gasWanted > Target => GetBaseFee(market') >= GetBaseFee(market) + 1
             /\ market.gasWanted <= Target => new <= Largest(old, market.minGasPrice)
             /\ market.gasWanted < Target => new >= market.minGasPrice
             /\ new <= Largest(market.minGasPrice,
                              old + Largest(Prec \div Factor, (old * Elasticity) \div Denominator))
             /\ new >= old - (old \div Denominator) ]_vars
=============================================================================
