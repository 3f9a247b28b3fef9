-------------------------- MODULE MempoolIterator --------------------------
(***************************************************************************)
(* What a proposer is given: the iterator of the mempool over the pending  *)
(* transactions of the legacy pool, in the order of their tips with the    *)
(* nonces of each sender in turn (mempool/miner/ordering.go), merged with  *)
(* the transactions of the Cosmos pool (mempool/iterator.go).  Both Tx and *)
(* Next ask anew which of the two pools is ahead.                          *)
(*                                                                         *)
(* The iterator works on copies of the lists, so that it is a function of  *)
(* the pool at the call of Select; its properties are checked in every     *)
(* state of LegacyPool in which its lock is free.  The Cosmos pool is any  *)
(* list of transactions that pay a fee in the coin of the EVM, and         *)
(* transactions were first seen in any order.  Both pools go by the base   *)
(* fee of the last block.                                                  *)
(***************************************************************************)
EXTENDS LegacyPool

CONSTANTS
    BaseFees,    \* base fees of the last block
    CosmosLists  \* contents of the Cosmos pool, in its order

ASSUME IteratorAssumption ==
    /\ BaseFees \subseteq Nat
    /\ \A list \in CosmosLists : \A c \in Range(list) :
           c.fee \in Nat /\ c.gas \in Nat \ {0}

(***************************************************************************)
(* TransactionsByPriceAndNonce: the next transaction of each sender that   *)
(* can pay the base fee, and the rest of its list.                         *)
(***************************************************************************)
Pending(a) == SetToSortSeq(Of(pool.pending, a), LAMBDA t, u : t.nonce < u.nonce)

CoversBaseFee(t, baseFee) == t.price >= baseFee
MinerTip(t, baseFee) == t.price - baseFee

NewTransactionsByPriceAndNonce(baseFee) ==
    LET first == {Pending(a)[1] : a \in {s \in Account : Pending(s) # << >>}}
        heads == {t \in first : CoversBaseFee(t, baseFee)}
    IN  [heads |-> heads,
         txs |-> [a \in {t.from : t \in heads} |-> Tail(Pending(a))]]

\* seen lists the transactions as they were first heard of.
SeenAt(seen, t) == CHOOSE i \in DOMAIN seen : seen[i] = t

Peek(evm, seen) ==
    CHOOSE t \in evm.heads : \A u \in evm.heads :
        \/ t.price > u.price
        \/ t.price = u.price /\ SeenAt(seen, t) <= SeenAt(seen, u)

\* Mutant of Shift: the sender's later transactions are given up.
ShiftPops(evm, t, baseFee) == [evm EXCEPT !.heads = @ \ {t}]

Shift(evm, t, baseFee) ==
    LET rest == evm.txs[t.from]
    IN  IF rest # << >> /\ CoversBaseFee(Head(rest), baseFee)
        THEN [heads |-> (evm.heads \ {t}) \cup {Head(rest)},
              txs |-> [evm.txs EXCEPT ![t.from] = Tail(rest)]]
        ELSE [evm EXCEPT !.heads = @ \ {t}]

(***************************************************************************)
(* EVMMempoolIterator.                                                     *)
(***************************************************************************)
\* Mutant of extractCosmosEffectiveTip: the base fee is not taken off.
GasPriceKept(c, baseFee) == c.fee \div c.gas

extractCosmosEffectiveTip(c, baseFee) == Max({0, (c.fee \div c.gas) - baseFee})

shouldUseEVM(it, seen, baseFee) ==
    /\ it.evm.heads # {}
    /\ \/ it.cosmos = << >>
       \/ LET tip == extractCosmosEffectiveTip(Head(it.cosmos), baseFee)
          IN  tip = 0 \/ tip <= MinerTip(Peek(it.evm, seen), baseFee)

hasMoreTransactions(it) == it.evm.heads # {} \/ it.cosmos # << >>

\* Tx gives the transaction of the pool that is ahead to the proposer, and Next moves
\* on in that pool.
Advance(it, seen, baseFee) ==
    IF shouldUseEVM(it, seen, baseFee)
    THEN LET t == Peek(it.evm, seen)
         IN  [it EXCEPT !.evm = Shift(@, t, baseFee), !.out = Append(@, t)]
    ELSE [it EXCEPT !.cosmos = Tail(@), !.out = Append(@, Head(it.cosmos))]

\* The transactions that a proposer is given.
Select(list, seen, baseFee) ==
    LET start == [evm |-> NewTransactionsByPriceAndNonce(baseFee), cosmos |-> list, out |-> << >>]
        Step(it, i) == IF hasMoreTransactions(it) THEN Advance(it, seen, baseFee) ELSE it
        steps == Cardinality(pool.pending) + Len(list)
    IN  FoldLeft(Step, start, [i \in 1..steps |-> i]).out

(***************************************************************************)
(* Properties.                                                             *)
(***************************************************************************)
IsEVM(t) == "nonce" \in DOMAIN t
GasPrice(t) == IF IsEVM(t) THEN t.price ELSE t.fee \div t.gas
Own(out, a) == SelectSeq(out, LAMBDA t : IsEVM(t) /\ t.from = a)

\* The proposer is given the whole Cosmos pool in its order, and of each sender the
\* transactions that can be executed one after the other from its nonce, each once, up to
\* the first that does not pay the base fee.
SelectsExecutable ==
    \A baseFee \in BaseFees, list \in CosmosLists, seen \in SetToSeqs(pool.pending) :
        LET out == Select(list, seen, baseFee)
        IN  /\ SelectSeq(out, LAMBDA t : ~ IsEVM(t)) = list
            /\ \A a \in Account :
                 /\ \A i \in 1..Len(Own(out, a)) :
                      /\ Own(out, a)[i] \in Of(pool.pending, a)
                      /\ Own(out, a)[i].nonce = nonce[a] + i - 1
                      /\ Own(out, a)[i].price >= baseFee
                 /\ \A t \in Of(pool.pending, a) :
                      t.nonce = nonce[a] + Len(Own(out, a)) => t.price < baseFee

\* What is pending can be executed and paid, and is what the proposer is given, as long as
\* no run and no eviction came between the writes of Remove to the lists.
ProposesExecutable == PendingExecutable /\ (Settled => SelectsExecutable)

\* No transaction is given to the proposer while another pays a higher price for gas and
\* does not wait for one before it of its own sender, or of the Cosmos pool: the tips
\* that shouldUseEVM compares are taken over the same base fee.
BestFirst ==
    phase = "idle" => \A baseFee \in BaseFees, list \in CosmosLists, seen \in SetToSeqs(pool.pending) :
        LET out == Select(list, seen, baseFee)
            Source(i) == IF IsEVM(out[i]) THEN <<out[i].from>> ELSE << >>
        IN  \A j \in 1..Len(out) : \A i \in 1..(j - 1) :
              (\A k \in i..(j - 1) : Source(k) # Source(j))
                => GasPrice(out[i]) >= GasPrice(out[j])
=============================================================================
