---------------------------- MODULE EvmBlockProofs ----------------------------
(***************************************************************************)
(* Proofs about EvmBlock for every set of users, every price, gas limit    *)
(* and parameter of the fee market, and every bound.                       *)
(***************************************************************************)
EXTENDS EvmBlock, Sums

(***************************************************************************)
(* What a block's results add up to.                                       *)
(***************************************************************************)
Markets == [noBaseFee: BOOLEAN, enableHeight: Nat, baseFee: Nat, minGasPrice: Nat, gasWanted: Nat]

PriceAt(m, tx) == Smallest(tx.tip + GetBaseFee(m), tx.cap)

FeeAt(m, r) == IF r.tx = None THEN 0 ELSE r.gasUsed * PriceAt(m, r.tx)

SpentAt(m, a, r) ==
    IF r.tx = None \/ r.tx.from # a THEN 0
    ELSE FeeAt(m, r) + (IF r.failed THEN 0 ELSE r.tx.value)

Fees(m, rs)      == [i \in 1 .. Len(rs) |-> FeeAt(m, rs[i])]
Spends(m, a, rs) == [i \in 1 .. Len(rs) |-> SpentAt(m, a, rs[i])]
Receipts(a, rs)  == [i \in 1 .. Len(rs) |-> Received(a, rs[i])]
GasOf(rs)        == [i \in 1 .. Len(rs) |-> rs[i].gasUsed]
LogsOf(rs)       == [i \in 1 .. Len(rs) |-> rs[i].logs]

SumOver(rs, w) == SumOn(1 .. Len(rs), w)

\* FoldLeft of an addition is a sum.
LEMMA LastIsSum ==
    ASSUME NEW rs, rs \in Seq(Result), NEW f, \A i \in 1 .. Len(rs) : f[i] \in Nat
    PROVE  /\ \A it : (\A s \in SUBSET (DOMAIN rs) :
                          it[s] = IF s = {} THEN 0 ELSE it[s \ {Max(s)}] + f[Max(s)])
                      => it[DOMAIN rs] = SumOver(rs, f)
           /\ \A s \in SUBSET (DOMAIN rs) :
                 SumOn(s, f) = IF s = {} THEN 0 ELSE SumOn(s \ {Max(s)}, f) + f[Max(s)]
           /\ \A s \in SUBSET (DOMAIN rs) : s # {} => Max(s) \in s /\ Max(s) \in 1 .. Len(rs)
<1>1. PICK S : S = DOMAIN rs
  OBVIOUS
<1>2. S = 1 .. Len(rs) /\ Len(rs) \in Nat
  BY <1>1
<1>3. IsFiniteSet(S) /\ (\A i \in S : f[i] \in Nat)
  <2>1. IsFiniteSet(1 .. Len(rs))
    BY <1>2, FS_Interval
  <2>2. QED
    BY <1>2, <2>1
<1>4. \A s \in SUBSET S : s # {} => Max(s) \in s
  BY <1>2, LastIndex
<1>5. ASSUME NEW it, \A s \in SUBSET S : it[s] = IF s = {} THEN 0 ELSE it[s \ {Max(s)}] + f[Max(s)]
      PROVE  it[S] = SumOn(S, f)
  <2>1. PICK pick : pick = [s \in SUBSET S |-> Max(s)]
    OBVIOUS
  <2>2. Adds(S, f, pick, it)
    BY <1>4, <1>5, <2>1 DEF Adds
  <2>3. QED
    BY <1>3, <2>2, AddsIsSum
<1>6. ASSUME NEW s \in SUBSET S
      PROVE  SumOn(s, f) = IF s = {} THEN 0 ELSE SumOn(s \ {Max(s)}, f) + f[Max(s)]
  <2>1. CASE s = {}
    BY <2>1, SumOnEmpty
  <2>2. CASE s # {}
    <3>1. PICK x \in s : x = Max(s)
      BY <1>4, <2>2
    <3>2. SumOn(s, f) = SumOn(s \ {x}, f) + f[x]
      BY <1>3, SumSolves
    <3>3. QED
      BY <2>2, <3>1, <3>2
  <2>3. QED
    BY <2>1, <2>2
<1>7. QED
  BY <1>1, <1>2, <1>4, <1>5, <1>6 DEF SumOver

\* The weights are natural numbers.
LEMMA TxFields ==
    ASSUME NEW tx \in Tx
    PROVE  /\ tx # None /\ tx.from \in Users /\ tx.from \in Accounts /\ tx.to \in Accounts \cup {Create}
           /\ tx.nonce \in Nat /\ tx.value \in Nat /\ tx.gas \in Nat /\ tx.cap \in Nat /\ tx.tip \in Nat
  BY InputAssumption, ParameterAssumption DEF Tx, Accounts

\* A quotient is a number.
LEMMA DivType == \A m \in Nat : \A n \in Nat \ {0} : m \div n \in Nat
  OBVIOUS

\* A price is a number, and within the cap.
LEMMA PriceType ==
    ASSUME NEW m \in Markets, NEW tx \in Tx
    PROVE  GetBaseFee(m) \in Nat /\ PriceAt(m, tx) \in Nat /\ PriceAt(m, tx) <= tx.cap
<1>1. m.baseFee \in Nat /\ Factor \in Nat /\ Prec \in Nat \ {0}
  BY ParameterAssumption DEF Markets
<1>2. m.baseFee * Factor \in Nat
  BY <1>1
<1>3. (m.baseFee * Factor) \div Prec \in Nat
  BY <1>1, <1>2, DivType
<1>4. GetBaseFee(m) \in Nat
  BY <1>3 DEF GetBaseFee
<1>5. QED
  BY <1>4, TxFields DEF PriceAt, Smallest

\* What is added up over the results of a block are numbers.
LEMMA WeightTypes ==
    ASSUME NEW m \in Markets, NEW r \in Result, NEW a
    PROVE  /\ FeeAt(m, r) \in Nat /\ SpentAt(m, a, r) \in Nat /\ Received(a, r) \in Nat
           /\ r.gasUsed \in Nat /\ r.logs \in Nat
<1>1. r.tx \in Tx \cup {None} /\ r.gasUsed \in Nat /\ r.logs \in Nat
  BY DEF Result
<1>2. CASE r.tx = None
  BY <1>1, <1>2 DEF FeeAt, SpentAt, Received
<1>3. CASE r.tx \in Tx
  <2>1. PICK p, v : p = PriceAt(m, r.tx) /\ v = r.tx.value
    OBVIOUS
  <2>2. p \in Nat /\ v \in Nat /\ r.tx # None
    BY <1>3, <2>1, PriceType, TxFields
  <2>3. FeeAt(m, r) = r.gasUsed * p /\ r.gasUsed * p \in Nat
    BY <1>1, <2>1, <2>2 DEF FeeAt
  <2>4. SpentAt(m, a, r) \in {0, FeeAt(m, r), FeeAt(m, r) + v} /\ Received(a, r) \in {0, v}
    BY <2>1, <2>3 DEF SpentAt, Received
  <2>5. QED
    BY <1>1, <2>2, <2>3, <2>4
<1>4. QED
  BY <1>1, <1>2, <1>3

\* The total of the fees is the sum over the block.
LEMMA TotalFees ==
    ASSUME NEW rs, rs \in Seq(Result), market \in Markets
    PROVE  Total(Fee, rs) = SumOver(rs, Fees(market, rs))
<1> DEFINE Iter(it) == it = [s \in SUBSET (DOMAIN rs) |->
                                IF s = {} THEN 0 ELSE it[s \ {Max(s)}] + Fee(rs[Max(s)])]
           iter == CHOOSE it : Iter(it)
<1>1. PICK f : f = Fees(market, rs)
  OBVIOUS
<1>2. \A i \in 1 .. Len(rs) : f[i] = Fee(rs[i]) /\ f[i] \in Nat
  <2> SUFFICES ASSUME NEW i \in 1 .. Len(rs) PROVE f[i] = Fee(rs[i]) /\ f[i] \in Nat
    OBVIOUS
  <2>1. PICK r : r = rs[i]
    OBVIOUS
  <2>2. r \in Result
    BY <2>1
  <2>3. f[i] = FeeAt(market, r) /\ FeeAt(market, r) \in Nat
    BY <1>1, <2>1, <2>2, WeightTypes DEF Fees
  <2>4. QED
    BY <2>1, <2>3 DEF FeeAt, Fee, PriceAt, EffectivePrice
<1>3. Iter([s \in SUBSET (DOMAIN rs) |-> SumOn(s, f)])
  <2> DEFINE g == [s \in SUBSET (DOMAIN rs) |-> SumOn(s, f)]
  <2>1. ASSUME NEW s \in SUBSET (DOMAIN rs)
        PROVE  g[s] = IF s = {} THEN 0 ELSE g[s \ {Max(s)}] + Fee(rs[Max(s)])
    <3>1. SumOn(s, f) = IF s = {} THEN 0 ELSE SumOn(s \ {Max(s)}, f) + f[Max(s)]
      BY <1>2, LastIsSum
    <3>2. s # {} => f[Max(s)] = Fee(rs[Max(s)])
      BY <1>2, LastIsSum
    <3>3. QED
      BY <3>1, <3>2
  <2>2. QED
    BY <2>1
<1>4. Iter(iter)
  BY <1>3
<1>5. Total(Fee, rs) = iter[DOMAIN rs]
  BY DEF Total, FoldLeft, MapThenFoldSet
<1> HIDE DEF iter
<1>6. \A s \in SUBSET (DOMAIN rs) : iter[s] = IF s = {} THEN 0 ELSE iter[s \ {Max(s)}] + f[Max(s)]
  <2>1. \A s \in SUBSET (DOMAIN rs) : s # {} => f[Max(s)] = Fee(rs[Max(s)])
    BY <1>2, LastIsSum
  <2>2. QED
    BY <1>4, <2>1
<1>7. iter[DOMAIN rs] = SumOver(rs, f)
  BY <1>2, <1>6, LastIsSum
<1>8. QED
  BY <1>1, <1>5, <1>7

\* The total an account spent is the sum over the block.
LEMMA TotalSpends ==
    ASSUME NEW rs, rs \in Seq(Result), market \in Markets, NEW a
    PROVE  Total(LAMBDA r : Spent(a, r), rs) = SumOver(rs, Spends(market, a, rs))
<1> DEFINE Iter(it) == it = [s \in SUBSET (DOMAIN rs) |->
                                IF s = {} THEN 0 ELSE it[s \ {Max(s)}] + Spent(a, rs[Max(s)])]
           iter == CHOOSE it : Iter(it)
<1>1. PICK f : f = Spends(market, a, rs)
  OBVIOUS
<1>2. \A i \in 1 .. Len(rs) : f[i] = Spent(a, rs[i]) /\ f[i] \in Nat
  <2> SUFFICES ASSUME NEW i \in 1 .. Len(rs) PROVE f[i] = Spent(a, rs[i]) /\ f[i] \in Nat
    OBVIOUS
  <2>1. PICK r : r = rs[i]
    OBVIOUS
  <2>2. r \in Result
    BY <2>1
  <2>3. f[i] = SpentAt(market, a, r) /\ SpentAt(market, a, r) \in Nat
    BY <1>1, <2>1, <2>2, WeightTypes DEF Spends
  <2>4. QED
    BY <2>1, <2>3 DEF SpentAt, Spent, FeeAt, Fee, PriceAt, EffectivePrice
<1>3. Iter([s \in SUBSET (DOMAIN rs) |-> SumOn(s, f)])
  <2> DEFINE g == [s \in SUBSET (DOMAIN rs) |-> SumOn(s, f)]
  <2>1. ASSUME NEW s \in SUBSET (DOMAIN rs)
        PROVE  g[s] = IF s = {} THEN 0 ELSE g[s \ {Max(s)}] + Spent(a, rs[Max(s)])
    <3>1. SumOn(s, f) = IF s = {} THEN 0 ELSE SumOn(s \ {Max(s)}, f) + f[Max(s)]
      BY <1>2, LastIsSum
    <3>2. s # {} => f[Max(s)] = Spent(a, rs[Max(s)])
      BY <1>2, LastIsSum
    <3>3. QED
      BY <3>1, <3>2
  <2>2. QED
    BY <2>1
<1>4. Iter(iter)
  BY <1>3
<1>5. Total(LAMBDA r : Spent(a, r), rs) = iter[DOMAIN rs]
  BY DEF Total, FoldLeft, MapThenFoldSet
<1> HIDE DEF iter
<1>6. \A s \in SUBSET (DOMAIN rs) : iter[s] = IF s = {} THEN 0 ELSE iter[s \ {Max(s)}] + f[Max(s)]
  <2>1. \A s \in SUBSET (DOMAIN rs) : s # {} => f[Max(s)] = Spent(a, rs[Max(s)])
    BY <1>2, LastIsSum
  <2>2. QED
    BY <1>4, <2>1
<1>7. iter[DOMAIN rs] = SumOver(rs, f)
  BY <1>2, <1>6, LastIsSum
<1>8. QED
  BY <1>1, <1>5, <1>7

\* The total an account received is the sum over the block.
LEMMA TotalReceipts ==
    ASSUME NEW rs, rs \in Seq(Result), market \in Markets, NEW a
    PROVE  Total(LAMBDA r : Received(a, r), rs) = SumOver(rs, Receipts(a, rs))
<1> DEFINE Iter(it) == it = [s \in SUBSET (DOMAIN rs) |->
                                IF s = {} THEN 0 ELSE it[s \ {Max(s)}] + Received(a, rs[Max(s)])]
           iter == CHOOSE it : Iter(it)
<1>1. PICK f : f = Receipts(a, rs)
  OBVIOUS
<1>2. \A i \in 1 .. Len(rs) : f[i] = Received(a, rs[i]) /\ f[i] \in Nat
  <2> SUFFICES ASSUME NEW i \in 1 .. Len(rs) PROVE f[i] = Received(a, rs[i]) /\ f[i] \in Nat
    OBVIOUS
  <2>1. PICK r : r = rs[i]
    OBVIOUS
  <2>2. r \in Result
    BY <2>1
  <2>3. f[i] = Received(a, r) /\ Received(a, r) \in Nat
    BY <1>1, <2>1, <2>2, WeightTypes DEF Receipts
  <2>4. QED
    BY <2>1, <2>3
<1>3. Iter([s \in SUBSET (DOMAIN rs) |-> SumOn(s, f)])
  <2> DEFINE g == [s \in SUBSET (DOMAIN rs) |-> SumOn(s, f)]
  <2>1. ASSUME NEW s \in SUBSET (DOMAIN rs)
        PROVE  g[s] = IF s = {} THEN 0 ELSE g[s \ {Max(s)}] + Received(a, rs[Max(s)])
    <3>1. SumOn(s, f) = IF s = {} THEN 0 ELSE SumOn(s \ {Max(s)}, f) + f[Max(s)]
      BY <1>2, LastIsSum
    <3>2. s # {} => f[Max(s)] = Received(a, rs[Max(s)])
      BY <1>2, LastIsSum
    <3>3. QED
      BY <3>1, <3>2
  <2>2. QED
    BY <2>1
<1>4. Iter(iter)
  BY <1>3
<1>5. Total(LAMBDA r : Received(a, r), rs) = iter[DOMAIN rs]
  BY DEF Total, FoldLeft, MapThenFoldSet
<1> HIDE DEF iter
<1>6. \A s \in SUBSET (DOMAIN rs) : iter[s] = IF s = {} THEN 0 ELSE iter[s \ {Max(s)}] + f[Max(s)]
  <2>1. \A s \in SUBSET (DOMAIN rs) : s # {} => f[Max(s)] = Received(a, rs[Max(s)])
    BY <1>2, LastIsSum
  <2>2. QED
    BY <1>4, <2>1
<1>7. iter[DOMAIN rs] = SumOver(rs, f)
  BY <1>2, <1>6, LastIsSum
<1>8. QED
  BY <1>1, <1>5, <1>7

\* The total of the gas is the sum over the block.
LEMMA TotalGas ==
    ASSUME NEW rs, rs \in Seq(Result), market \in Markets
    PROVE  Total(LAMBDA r : r.gasUsed, rs) = SumOver(rs, GasOf(rs))
<1> DEFINE Iter(it) == it = [s \in SUBSET (DOMAIN rs) |->
                                IF s = {} THEN 0 ELSE it[s \ {Max(s)}] + rs[Max(s)].gasUsed]
           iter == CHOOSE it : Iter(it)
<1>1. PICK f : f = GasOf(rs)
  OBVIOUS
<1>2. \A i \in 1 .. Len(rs) : f[i] = rs[i].gasUsed /\ f[i] \in Nat
  <2> SUFFICES ASSUME NEW i \in 1 .. Len(rs) PROVE f[i] = rs[i].gasUsed /\ f[i] \in Nat
    OBVIOUS
  <2>1. PICK r : r = rs[i]
    OBVIOUS
  <2>2. r \in Result
    BY <2>1
  <2>3. f[i] = r.gasUsed /\ r.gasUsed \in Nat
    BY <1>1, <2>1, <2>2, WeightTypes DEF GasOf
  <2>4. QED
    BY <2>1, <2>3
<1>3. Iter([s \in SUBSET (DOMAIN rs) |-> SumOn(s, f)])
  <2> DEFINE g == [s \in SUBSET (DOMAIN rs) |-> SumOn(s, f)]
  <2>1. ASSUME NEW s \in SUBSET (DOMAIN rs)
        PROVE  g[s] = IF s = {} THEN 0 ELSE g[s \ {Max(s)}] + rs[Max(s)].gasUsed
    <3>1. SumOn(s, f) = IF s = {} THEN 0 ELSE SumOn(s \ {Max(s)}, f) + f[Max(s)]
      BY <1>2, LastIsSum
    <3>2. s # {} => f[Max(s)] = rs[Max(s)].gasUsed
      BY <1>2, LastIsSum
    <3>3. QED
      BY <3>1, <3>2
  <2>2. QED
    BY <2>1
<1>4. Iter(iter)
  BY <1>3
<1>5. Total(LAMBDA r : r.gasUsed, rs) = iter[DOMAIN rs]
  BY DEF Total, FoldLeft, MapThenFoldSet
<1> HIDE DEF iter
<1>6. \A s \in SUBSET (DOMAIN rs) : iter[s] = IF s = {} THEN 0 ELSE iter[s \ {Max(s)}] + f[Max(s)]
  <2>1. \A s \in SUBSET (DOMAIN rs) : s # {} => f[Max(s)] = rs[Max(s)].gasUsed
    BY <1>2, LastIsSum
  <2>2. QED
    BY <1>4, <2>1
<1>7. iter[DOMAIN rs] = SumOver(rs, f)
  BY <1>2, <1>6, LastIsSum
<1>8. QED
  BY <1>1, <1>5, <1>7

\* The total of the logs is the sum over the block.
LEMMA TotalLogs ==
    ASSUME NEW rs, rs \in Seq(Result), market \in Markets
    PROVE  Total(LAMBDA r : r.logs, rs) = SumOver(rs, LogsOf(rs))
<1> DEFINE Iter(it) == it = [s \in SUBSET (DOMAIN rs) |->
                                IF s = {} THEN 0 ELSE it[s \ {Max(s)}] + rs[Max(s)].logs]
           iter == CHOOSE it : Iter(it)
<1>1. PICK f : f = LogsOf(rs)
  OBVIOUS
<1>2. \A i \in 1 .. Len(rs) : f[i] = rs[i].logs /\ f[i] \in Nat
  <2> SUFFICES ASSUME NEW i \in 1 .. Len(rs) PROVE f[i] = rs[i].logs /\ f[i] \in Nat
    OBVIOUS
  <2>1. PICK r : r = rs[i]
    OBVIOUS
  <2>2. r \in Result
    BY <2>1
  <2>3. f[i] = r.logs /\ r.logs \in Nat
    BY <1>1, <2>1, <2>2, WeightTypes DEF LogsOf
  <2>4. QED
    BY <2>1, <2>3
<1>3. Iter([s \in SUBSET (DOMAIN rs) |-> SumOn(s, f)])
  <2> DEFINE g == [s \in SUBSET (DOMAIN rs) |-> SumOn(s, f)]
  <2>1. ASSUME NEW s \in SUBSET (DOMAIN rs)
        PROVE  g[s] = IF s = {} THEN 0 ELSE g[s \ {Max(s)}] + rs[Max(s)].logs
    <3>1. SumOn(s, f) = IF s = {} THEN 0 ELSE SumOn(s \ {Max(s)}, f) + f[Max(s)]
      BY <1>2, LastIsSum
    <3>2. s # {} => f[Max(s)] = rs[Max(s)].logs
      BY <1>2, LastIsSum
    <3>3. QED
      BY <3>1, <3>2
  <2>2. QED
    BY <2>1
<1>4. Iter(iter)
  BY <1>3
<1>5. Total(LAMBDA r : r.logs, rs) = iter[DOMAIN rs]
  BY DEF Total, FoldLeft, MapThenFoldSet
<1> HIDE DEF iter
<1>6. \A s \in SUBSET (DOMAIN rs) : iter[s] = IF s = {} THEN 0 ELSE iter[s \ {Max(s)}] + f[Max(s)]
  <2>1. \A s \in SUBSET (DOMAIN rs) : s # {} => f[Max(s)] = rs[Max(s)].logs
    BY <1>2, LastIsSum
  <2>2. QED
    BY <1>4, <2>1
<1>7. iter[DOMAIN rs] = SumOver(rs, f)
  BY <1>2, <1>6, LastIsSum
<1>8. QED
  BY <1>1, <1>5, <1>7

\* What one more result adds.
LEMMA FeesAppend ==
    ASSUME NEW m \in Markets, NEW rs, rs \in Seq(Result), NEW r \in Result, NEW ss, ss = Append(rs, r)
    PROVE  /\ SumOver(ss, Fees(m, ss)) = SumOver(rs, Fees(m, rs)) + FeeAt(m, r)
           /\ SumOver(rs, Fees(m, rs)) \in Nat
<1>1. PICK f, g, n : f = Fees(m, rs) /\ g = Fees(m, ss) /\ n = Len(rs)
  OBVIOUS
<1>2. n \in Nat /\ Len(ss) = n + 1 /\ ss[n + 1] = r /\ \A i \in 1 .. n : ss[i] = rs[i] /\ rs[i] \in Result
  BY <1>1
<1>3. \A i \in 1 .. n : f[i] \in Nat /\ g[i] = f[i]
  <2>1. \A i \in 1 .. n : f[i] = FeeAt(m, rs[i]) /\ g[i] = FeeAt(m, rs[i])
    BY <1>1, <1>2 DEF Fees
  <2>2. \A i \in 1 .. n : FeeAt(m, rs[i]) \in Nat
    BY <1>2, WeightTypes
  <2>3. QED
    BY <2>1, <2>2
<1>4. g[n + 1] = FeeAt(m, r) /\ FeeAt(m, r) \in Nat
  <2>1. FeeAt(m, r) \in Nat
    BY WeightTypes
  <2>2. n + 1 \in 1 .. Len(ss)
    BY <1>2
  <2>3. g[n + 1] = FeeAt(m, ss[n + 1])
    BY <1>1, <2>2 DEF Fees
  <2>4. QED
    BY <1>2, <2>1, <2>3
<1>5. SumOn(1 .. n + 1, g) = SumOn(1 .. n, f) + g[n + 1] /\ SumOn(1 .. n, f) \in Nat
  BY <1>2, <1>3, <1>4, SumAppend
<1>6. QED
  BY <1>1, <1>2, <1>4, <1>5 DEF SumOver

\* A result more adds what it spends.
LEMMA SpendsAppend ==
    ASSUME NEW m \in Markets, NEW rs, rs \in Seq(Result), NEW r \in Result, NEW a, NEW ss, ss = Append(rs, r)
    PROVE  /\ SumOver(ss, Spends(m, a, ss)) = SumOver(rs, Spends(m, a, rs)) + SpentAt(m, a, r)
           /\ SumOver(rs, Spends(m, a, rs)) \in Nat
<1>1. PICK f, g, n : f = Spends(m, a, rs) /\ g = Spends(m, a, ss) /\ n = Len(rs)
  OBVIOUS
<1>2. n \in Nat /\ Len(ss) = n + 1 /\ ss[n + 1] = r /\ \A i \in 1 .. n : ss[i] = rs[i] /\ rs[i] \in Result
  BY <1>1
<1>3. \A i \in 1 .. n : f[i] \in Nat /\ g[i] = f[i]
  <2>1. \A i \in 1 .. n : f[i] = SpentAt(m, a, rs[i]) /\ g[i] = SpentAt(m, a, rs[i])
    BY <1>1, <1>2 DEF Spends
  <2>2. \A i \in 1 .. n : SpentAt(m, a, rs[i]) \in Nat
    BY <1>2, WeightTypes
  <2>3. QED
    BY <2>1, <2>2
<1>4. g[n + 1] = SpentAt(m, a, r) /\ SpentAt(m, a, r) \in Nat
  <2>1. SpentAt(m, a, r) \in Nat
    BY WeightTypes
  <2>2. n + 1 \in 1 .. Len(ss)
    BY <1>2
  <2>3. g[n + 1] = SpentAt(m, a, ss[n + 1])
    BY <1>1, <2>2 DEF Spends
  <2>4. QED
    BY <1>2, <2>1, <2>3
<1>5. SumOn(1 .. n + 1, g) = SumOn(1 .. n, f) + g[n + 1] /\ SumOn(1 .. n, f) \in Nat
  BY <1>2, <1>3, <1>4, SumAppend
<1>6. QED
  BY <1>1, <1>2, <1>4, <1>5 DEF SumOver

\* A result more adds what it pays out.
LEMMA ReceiptsAppend ==
    ASSUME NEW m \in Markets, NEW rs, rs \in Seq(Result), NEW r \in Result, NEW a, NEW ss, ss = Append(rs, r)
    PROVE  /\ SumOver(ss, Receipts(a, ss)) = SumOver(rs, Receipts(a, rs)) + Received(a, r)
           /\ SumOver(rs, Receipts(a, rs)) \in Nat
<1>1. PICK f, g, n : f = Receipts(a, rs) /\ g = Receipts(a, ss) /\ n = Len(rs)
  OBVIOUS
<1>2. n \in Nat /\ Len(ss) = n + 1 /\ ss[n + 1] = r /\ \A i \in 1 .. n : ss[i] = rs[i] /\ rs[i] \in Result
  BY <1>1
<1>3. \A i \in 1 .. n : f[i] \in Nat /\ g[i] = f[i]
  <2>1. \A i \in 1 .. n : f[i] = Received(a, rs[i]) /\ g[i] = Received(a, rs[i])
    BY <1>1, <1>2 DEF Receipts
  <2>2. \A i \in 1 .. n : Received(a, rs[i]) \in Nat
    BY <1>2, WeightTypes
  <2>3. QED
    BY <2>1, <2>2
<1>4. g[n + 1] = Received(a, r) /\ Received(a, r) \in Nat
  <2>1. Received(a, r) \in Nat
    BY WeightTypes
  <2>2. n + 1 \in 1 .. Len(ss)
    BY <1>2
  <2>3. g[n + 1] = Received(a, ss[n + 1])
    BY <1>1, <2>2 DEF Receipts
  <2>4. QED
    BY <1>2, <2>1, <2>3
<1>5. SumOn(1 .. n + 1, g) = SumOn(1 .. n, f) + g[n + 1] /\ SumOn(1 .. n, f) \in Nat
  BY <1>2, <1>3, <1>4, SumAppend
<1>6. QED
  BY <1>1, <1>2, <1>4, <1>5 DEF SumOver

\* A result more adds its gas.
LEMMA GasAppend ==
    ASSUME NEW m \in Markets, NEW rs, rs \in Seq(Result), NEW r \in Result, NEW ss, ss = Append(rs, r)
    PROVE  /\ SumOver(ss, GasOf(ss)) = SumOver(rs, GasOf(rs)) + r.gasUsed
           /\ SumOver(rs, GasOf(rs)) \in Nat
<1>1. PICK f, g, n : f = GasOf(rs) /\ g = GasOf(ss) /\ n = Len(rs)
  OBVIOUS
<1>2. n \in Nat /\ Len(ss) = n + 1 /\ ss[n + 1] = r /\ \A i \in 1 .. n : ss[i] = rs[i] /\ rs[i] \in Result
  BY <1>1
<1>3. \A i \in 1 .. n : f[i] \in Nat /\ g[i] = f[i]
  <2>1. \A i \in 1 .. n : f[i] = rs[i].gasUsed /\ g[i] = rs[i].gasUsed
    BY <1>1, <1>2 DEF GasOf
  <2>2. \A i \in 1 .. n : rs[i].gasUsed \in Nat
    BY <1>2, WeightTypes
  <2>3. QED
    BY <2>1, <2>2
<1>4. g[n + 1] = r.gasUsed /\ r.gasUsed \in Nat
  <2>1. r.gasUsed \in Nat
    BY WeightTypes
  <2>2. n + 1 \in 1 .. Len(ss)
    BY <1>2
  <2>3. g[n + 1] = ss[n + 1].gasUsed
    BY <1>1, <2>2 DEF GasOf
  <2>4. QED
    BY <1>2, <2>1, <2>3
<1>5. SumOn(1 .. n + 1, g) = SumOn(1 .. n, f) + g[n + 1] /\ SumOn(1 .. n, f) \in Nat
  BY <1>2, <1>3, <1>4, SumAppend
<1>6. QED
  BY <1>1, <1>2, <1>4, <1>5 DEF SumOver

\* A result more adds its logs.
LEMMA LogsAppend ==
    ASSUME NEW m \in Markets, NEW rs, rs \in Seq(Result), NEW r \in Result, NEW ss, ss = Append(rs, r)
    PROVE  /\ SumOver(ss, LogsOf(ss)) = SumOver(rs, LogsOf(rs)) + r.logs
           /\ SumOver(rs, LogsOf(rs)) \in Nat
<1>1. PICK f, g, n : f = LogsOf(rs) /\ g = LogsOf(ss) /\ n = Len(rs)
  OBVIOUS
<1>2. n \in Nat /\ Len(ss) = n + 1 /\ ss[n + 1] = r /\ \A i \in 1 .. n : ss[i] = rs[i] /\ rs[i] \in Result
  BY <1>1
<1>3. \A i \in 1 .. n : f[i] \in Nat /\ g[i] = f[i]
  <2>1. \A i \in 1 .. n : f[i] = rs[i].logs /\ g[i] = rs[i].logs
    BY <1>1, <1>2 DEF LogsOf
  <2>2. \A i \in 1 .. n : rs[i].logs \in Nat
    BY <1>2, WeightTypes
  <2>3. QED
    BY <2>1, <2>2
<1>4. g[n + 1] = r.logs /\ r.logs \in Nat
  <2>1. r.logs \in Nat
    BY WeightTypes
  <2>2. n + 1 \in 1 .. Len(ss)
    BY <1>2
  <2>3. g[n + 1] = ss[n + 1].logs
    BY <1>1, <2>2 DEF LogsOf
  <2>4. QED
    BY <1>2, <2>1, <2>3
<1>5. SumOn(1 .. n + 1, g) = SumOn(1 .. n, f) + g[n + 1] /\ SumOn(1 .. n, f) \in Nat
  BY <1>2, <1>3, <1>4, SumAppend
<1>6. QED
  BY <1>1, <1>2, <1>4, <1>5 DEF SumOver

\* Sums of gas and of logs are numbers.
LEMMA GasType ==
    ASSUME NEW rs, rs \in Seq(Result), market \in Markets
    PROVE  SumOver(rs, GasOf(rs)) \in Nat /\ SumOver(rs, LogsOf(rs)) \in Nat
<1>1. PICK S, f, g : S = 1 .. Len(rs) /\ f = GasOf(rs) /\ g = LogsOf(rs)
  OBVIOUS
<1>2. Len(rs) \in Nat /\ \A i \in S : rs[i] \in Result
  BY <1>1
<1>3. \A i \in S : f[i] = rs[i].gasUsed /\ g[i] = rs[i].logs
  BY <1>1 DEF GasOf, LogsOf
<1>4. \A i \in S : f[i] \in Nat /\ g[i] \in Nat
  BY <1>2, <1>3, WeightTypes
<1>5. IsFiniteSet(1 .. Len(rs))
  BY <1>2, FS_Interval
<1>6. IsFiniteSet(S)
  BY <1>1, <1>5
<1>7. SumOn(S, f) \in Nat /\ SumOn(S, g) \in Nat
  BY <1>4, <1>6, SumOnType
<1>8. QED
  BY <1>1, <1>7 DEF SumOver

\* Sums of what is spent, received and paid in fees are numbers.
LEMMA SpendsType ==
    ASSUME NEW rs, rs \in Seq(Result), NEW m \in Markets, NEW a
    PROVE  /\ SumOver(rs, Spends(m, a, rs)) \in Nat /\ SumOver(rs, Receipts(a, rs)) \in Nat
           /\ SumOver(rs, Fees(m, rs)) \in Nat
<1>1. PICK r : r = [tx |-> None, code |-> "ante", failed |-> TRUE, gasUsed |-> 0, index |-> 0,
                    firstLog |-> 0, logs |-> 0]
  OBVIOUS
<1>2. r \in Result
  BY <1>1 DEF Result
<1>3. PICK ss : ss = Append(rs, r)
  OBVIOUS
<1>4. QED
  BY <1>2, <1>3, SpendsAppend, ReceiptsAppend, FeesAppend

(***************************************************************************)
(* Arithmetic.                                                             *)
(***************************************************************************)
\* A quotient rounds down.
LEMMA Quotient ==
    ASSUME NEW m \in Nat, NEW n \in Nat \ {0}
    PROVE  m \div n \in Nat /\ (m \div n) * n <= m /\ m < (m \div n) * n + n
  OBVIOUS

\* A remainder is below the divisor, and no more than what was divided.
LEMMA Remainder ==
    ASSUME NEW m \in Nat, NEW n \in Nat \ {0}
    PROVE  m % n \in 0 .. n - 1 /\ m % n <= m
  OBVIOUS

\* Products distribute over sums and differences.
LEMMA Distribute ==
    ASSUME NEW x \in Int, NEW y \in Int, NEW z \in Int
    PROVE  (x + y) * z = x * z + y * z /\ (x - y) * z = x * z - y * z /\ x * z \in Int
  OBVIOUS

\* Products keep the order.
LEMMA Monotone ==
    ASSUME NEW x \in Nat, NEW y \in Nat, NEW z \in Nat, x <= y
    PROVE  x * z <= y * z /\ z * x <= z * y /\ x * z \in Nat /\ z * x \in Nat
  OBVIOUS

\* What is less after a multiplication was less before.
LEMMA Cancel ==
    ASSUME NEW x \in Int, NEW y \in Int, NEW z \in Nat \ {0}, x * z < y * z + z
    PROVE  x <= y
<1> SUFFICES ASSUME x >= y + 1 PROVE FALSE
  OBVIOUS
<1>1. x - y - 1 \in Nat
  OBVIOUS
<1>2. (x - y - 1) * z >= 0
  BY <1>1
<1>3. (x - y - 1) * z = x * z - y * z - z
  OBVIOUS
<1>4. QED
  BY <1>2, <1>3

\* The constants are numbers.
LEMMA Constants ==
    /\ Prec \in Nat \ {0} /\ Prec \in Nat /\ Multiplier \in Nat /\ Multiplier <= Prec
    /\ Factor \in Nat \ {0} /\ MaxGas \in Nat \ {0} /\ RefundQuotient \in Nat \ {0}
    /\ Word \in Nat \ {0} /\ MaxTxs \in Nat /\ MaxHeight \in Nat /\ Intrinsic \in Nat /\ MaxLogs \in Nat
    /\ Denominator \in Nat \ {0} /\ Elasticity \in Nat \ {0} /\ Funds \in Nat /\ MaxInt64 \in Nat
  BY ParameterAssumption

\* What a message is charged is at most its limit and at least the minimum.
LEMMA GasUsedBounds ==
    ASSUME NEW tx \in Tx, NEW run \in Runs(tx)
    PROVE  /\ GasUsed(tx, run) \in Nat /\ GasUsed(tx, run) <= tx.gas
           /\ tx.gas * Multiplier < GasUsed(tx, run) * Prec + Prec
<1>1. PICK g, u, c : g = tx.gas /\ u = run.used /\ c = run.counter
  OBVIOUS
<1>2. g \in Nat /\ u \in Nat /\ u <= g /\ c \in Nat
  BY <1>1, TxFields, Constants DEF Runs
<1>3. u \div RefundQuotient \in Nat /\ u \div RefundQuotient <= u
  <2>1. PICK q : q = u \div RefundQuotient
    OBVIOUS
  <2>2. q \in Nat /\ q * RefundQuotient <= u
    BY <1>2, <2>1, Constants, Quotient
  <2>3. q * 1 <= q * RefundQuotient
    BY <2>2, Constants, Monotone
  <2>4. RefundQuotient \in Nat /\ q * RefundQuotient \in Int
    BY <2>2, Constants
  <2>5. QED
    BY <1>2, <2>1, <2>2, <2>3, <2>4
<1>4. PICK k : k = GasToRefund(c, u)
  OBVIOUS
<1>5. k \in Nat /\ k <= u
  BY <1>2, <1>3, <1>4 DEF GasToRefund, Smallest
<1>6. PICK q : q = (g * Multiplier) \div Prec
  OBVIOUS
<1>7. g * Multiplier \in Nat /\ g * Multiplier <= g * Prec /\ g * Prec \in Nat
  BY <1>2, Constants, Monotone
<1>8. q \in Nat /\ q * Prec <= g * Multiplier /\ g * Multiplier < q * Prec + Prec
  BY <1>6, <1>7, Constants, Quotient
<1>9. q <= g
  <2>1. q * Prec < g * Prec + Prec
    BY <1>7, <1>8, Constants
  <2>2. QED
    BY <1>2, <1>8, <2>1, Constants, Cancel
<1>10. GasUsed(tx, run) = Largest(u - k, q)
  BY <1>1, <1>4, <1>6 DEF GasUsed
<1>11. PICK w : w = GasUsed(tx, run)
  OBVIOUS
<1>12. w \in Nat /\ w <= g /\ q <= w
  BY <1>2, <1>5, <1>8, <1>9, <1>10, <1>11 DEF Largest
<1>13. q * Prec <= w * Prec /\ w * Prec \in Nat /\ q * Prec \in Nat
  BY <1>8, <1>12, Constants, Monotone
<1>14. g * Multiplier < w * Prec + Prec
  BY <1>7, <1>8, <1>13, Constants
<1>15. QED
  BY <1>1, <1>11, <1>12, <1>14

(***************************************************************************)
(* The inductive invariant.                                                *)
(***************************************************************************)
Accts  == [Accounts -> [nonce: Nat, bal: Nat]]
Blocks == [height: 0 .. MaxHeight, phase: {"open", "closed", "halted"}, gas: Nat,
           gasWanted: 0 .. Word - 1, txIndex: Nat, logSize: Nat, bloom: SUBSET (1 .. MaxTxs), txGas: Nat]

TypesOK ==
    /\ acct \in Accts /\ start \in Accts /\ collector \in Nat
    /\ market \in Markets /\ block \in Blocks /\ pending \in Tx \cup {None}
    /\ results \in Seq(Result) /\ Len(results) <= MaxTxs

\* Between the ante handler and the message the nonce is used up, the value is there,
\* and the meter of the transaction is reset.
PendingOK ==
    pending # None =>
        /\ block.phase = "open" /\ Len(results) < MaxTxs /\ block.txGas = 0
        /\ acct[pending.from].nonce = pending.nonce + 1
        /\ acct[pending.from].bal >= pending.value
        /\ pending.gas <= MaxGas

Prepaid(m, p) == IF p = None THEN 0 ELSE p.gas * PriceAt(m, p)

PrepaidBy(m, p, a) == IF p # None /\ p.from = a THEN Prepaid(m, p) ELSE 0

\* Settled, also while a transaction is between its two steps.
BooksOK ==
    block.phase = "open" =>
        /\ \A a \in Accounts :
              acct[a].bal + SumOver(results, Spends(market, a, results)) + PrepaidBy(market, pending, a)
                  = start[a].bal + SumOver(results, Receipts(a, results))
        /\ collector = SumOver(results, Fees(market, results)) + Prepaid(market, pending)

IndexedOf(a, rs) == {i \in Indexed(rs) : rs[i].tx.from = a}

NoncesOK ==
    \A a \in Users :
        acct[a].nonce = start[a].nonce + Cardinality(IndexedOf(a, results))
                          + IF pending # None /\ pending.from = a THEN 1 ELSE 0

LogsOK ==
    /\ block.logSize = SumOver(results, LogsOf(results))
    /\ \A i \in 1 .. Len(results) :
         results[i].logs > 0 =>
             ~ results[i].failed /\ results[i].firstLog = SumOn(1 .. i - 1, LogsOf(results))
    /\ block.bloom = {i \in 1 .. Len(results) : results[i].logs > 0}

PendingGas(p) == IF p = None THEN 0 ELSE p.gas

\* What was wanted weighs no more than what was charged and the rounding of each.
Paid(wanted, rs) ==
    wanted * Multiplier <= SumOver(rs, GasOf(rs)) * Prec + Cardinality(Indexed(rs)) * (Prec - 1)

GasOK ==
    /\ block.phase = "open" =>
         /\ block.gas <= SumOver(results, GasOf(results))
         /\ Paid(Largest(0, block.gasWanted - PendingGas(pending)), results)
    /\ block.phase = "closed" =>
         market.gasWanted <= SumOver(results, GasOf(results)) + Largest(0, Cardinality(Indexed(results)) - 1)

Inv == TypesOK /\ PendingOK /\ BooksOK /\ NoncesOK /\ LogsOK /\ GasOK

(***************************************************************************)
(* One more result.                                                        *)
(***************************************************************************)
LEMMA NoResults ==
    /\ << >> \in Seq(Result) /\ Len(<< >>) = 0
    /\ \A w : SumOver(<< >>, w) = 0
    /\ Cardinality(Indexed(<< >>)) = 0 /\ \A a : Cardinality(IndexedOf(a, << >>)) = 0
<1>1. 1 .. Len(<< >>) = {}
  OBVIOUS
<1>2. Indexed(<< >>) = {} /\ \A a : IndexedOf(a, << >>) = {}
  BY <1>1 DEF Indexed, IndexedOf
<1>3. QED
  BY <1>1, <1>2, SumOnEmpty, FS_EmptySet DEF SumOver

\* What is indexed of a block can be counted.
LEMMA IndexedFinite ==
    ASSUME NEW rs, rs \in Seq(Result)
    PROVE  /\ IsFiniteSet(Indexed(rs)) /\ Cardinality(Indexed(rs)) \in Nat
           /\ Cardinality(Indexed(rs)) <= Len(rs)
           /\ \A a : IsFiniteSet(IndexedOf(a, rs)) /\ Cardinality(IndexedOf(a, rs)) \in Nat
<1>1. PICK S : S = 1 .. Len(rs)
  OBVIOUS
<1>2. Len(rs) \in Nat /\ IsFiniteSet(1 .. Len(rs)) /\ Cardinality(1 .. Len(rs)) = Len(rs)
  <2>1. PICK n \in Nat : n = Len(rs)
    OBVIOUS
  <2>2. IsFiniteSet(1 .. n) /\ Cardinality(1 .. n) = n
    BY FS_Interval
  <2>3. QED
    BY <2>1, <2>2
<1>3. Indexed(rs) \subseteq S /\ \A a : IndexedOf(a, rs) \subseteq S
  BY <1>1 DEF Indexed, IndexedOf
<1>4. IsFiniteSet(S) /\ Cardinality(S) = Len(rs)
  BY <1>1, <1>2
<1>5. QED
  BY <1>3, <1>4, FS_Subset, FS_CardinalityType

\* A result more is one more indexed, last, if it is indexed at all.
LEMMA IndexedAppend ==
    ASSUME NEW rs, rs \in Seq(Result), NEW r \in Result, NEW ss, ss = Append(rs, r)
    PROVE  /\ ss \in Seq(Result) /\ Len(ss) = Len(rs) + 1
           /\ Cardinality(Indexed(ss)) =
                 Cardinality(Indexed(rs)) + IF TxSucessOrExpectedFailure(r) THEN 1 ELSE 0
           /\ \A i \in Indexed(rs) : i \in Indexed(ss) /\ ss[i] = rs[i] /\ i <= Len(rs)
           /\ \A i \in Indexed(ss) : i \in Indexed(rs) \/ (i = Len(ss) /\ TxSucessOrExpectedFailure(r))
<1>1. PICK n : n = Len(rs) + 1
  OBVIOUS
<1>2. /\ ss \in Seq(Result) /\ Len(ss) = n /\ Len(rs) \in Nat /\ n \in Nat /\ ss[n] = r
      /\ \A i \in 1 .. Len(rs) : ss[i] = rs[i]
  BY <1>1
<1>3. \A i : i \in 1 .. Len(ss) <=> i \in 1 .. Len(rs) \/ i = n
  BY <1>1, <1>2
<1>4. n \notin 1 .. Len(rs)
  BY <1>1, <1>2
<1>5. Indexed(ss) = Indexed(rs) \cup (IF TxSucessOrExpectedFailure(r) THEN {n} ELSE {})
  <2>1. \A i \in 1 .. Len(rs) : i \in Indexed(ss) <=> i \in Indexed(rs)
    BY <1>2, <1>3 DEF Indexed
  <2>2. n \in Indexed(ss) <=> TxSucessOrExpectedFailure(r)
    BY <1>2, <1>3 DEF Indexed
  <2>3. Indexed(ss) \subseteq 1 .. Len(ss) /\ Indexed(rs) \subseteq 1 .. Len(rs)
    BY DEF Indexed
  <2> HIDE DEF Indexed
  <2>4. QED
    BY <1>3, <2>1, <2>2, <2>3
<1>6. n \notin Indexed(rs)
  BY <1>4 DEF Indexed
<1>7. IsFiniteSet(Indexed(rs)) /\ Cardinality(Indexed(rs)) \in Nat
  BY IndexedFinite
<1>8. Cardinality(Indexed(ss)) =
         Cardinality(Indexed(rs)) + IF TxSucessOrExpectedFailure(r) THEN 1 ELSE 0
  <2>1. PICK S : S = Indexed(rs)
    OBVIOUS
  <2>2. Cardinality(S \cup {n}) = Cardinality(S) + 1
    BY <1>6, <1>7, <2>1, FS_AddElement
  <2>3. S \cup {} = S /\ Cardinality(S) + 0 = Cardinality(S)
    BY <1>7, <2>1
  <2>4. QED
    BY <1>5, <2>1, <2>2, <2>3
<1>9. \A i \in Indexed(rs) : i \in Indexed(ss) /\ ss[i] = rs[i] /\ i <= Len(rs)
  BY <1>2, <1>5 DEF Indexed
<1>10. \A i \in Indexed(ss) : i \in Indexed(rs) \/ (i = Len(ss) /\ TxSucessOrExpectedFailure(r))
  BY <1>2, <1>5
<1>11. QED
  BY <1>1, <1>2, <1>8, <1>9, <1>10

\* A result more counts for its sender if it is indexed.
LEMMA IndexedOfAppend ==
    ASSUME NEW rs, rs \in Seq(Result), NEW r \in Result, NEW ss, ss = Append(rs, r), NEW a
    PROVE  Cardinality(IndexedOf(a, ss)) = Cardinality(IndexedOf(a, rs))
              + IF TxSucessOrExpectedFailure(r) /\ r.tx.from = a THEN 1 ELSE 0
<1>1. PICK n, S, T : n = Len(rs) + 1 /\ S = IndexedOf(a, rs) /\ T = IndexedOf(a, ss)
  OBVIOUS
<1>2. n \in Nat /\ Len(ss) = n /\ ss[n] = r /\ \A i \in 1 .. Len(rs) : ss[i] = rs[i]
  BY <1>1
<1>3. \A i \in Indexed(rs) : i \in Indexed(ss) /\ ss[i] = rs[i] /\ i <= Len(rs)
  BY <1>1, <1>2 DEF Indexed
<1>4. \A i \in Indexed(ss) : i \in Indexed(rs) \/ (i = Len(ss) /\ TxSucessOrExpectedFailure(r))
  BY IndexedAppend, ZenonT(60)
<1>5. TxSucessOrExpectedFailure(r) => n \in Indexed(ss)
  BY <1>1, <1>2 DEF Indexed
<1>6. n \notin S /\ IsFiniteSet(S) /\ Cardinality(S) \in Nat
  <2>1. n \notin 1 .. Len(rs)
    BY <1>1
  <2>2. QED
    BY <1>1, <2>1, IndexedFinite DEF IndexedOf, Indexed
<1>7. Cardinality(S \cup {n}) = Cardinality(S) + 1 /\ Cardinality(S) + 0 = Cardinality(S)
  <2>1. Cardinality(S \cup {n}) = Cardinality(S) + 1
    BY <1>6, FS_AddElement
  <2>2. QED
    BY <1>6, <2>1
<1>8. CASE TxSucessOrExpectedFailure(r) /\ r.tx.from = a
  <2>1. T = S \cup {n}
    BY <1>1, <1>2, <1>3, <1>4, <1>5, <1>8 DEF IndexedOf
  <2>2. QED
    BY <1>1, <1>7, <1>8, <2>1
<1>9. CASE ~ (TxSucessOrExpectedFailure(r) /\ r.tx.from = a)
  <2>1. T = S
    BY <1>1, <1>2, <1>3, <1>4, <1>9, ZenonT(60) DEF IndexedOf
  <2>2. QED
    BY <1>1, <1>7, <1>9, <2>1
<1>10. QED
  BY <1>8, <1>9

\* A result that is not indexed counts for nobody.
LEMMA IndexedOfSame ==
    ASSUME NEW rs, rs \in Seq(Result), NEW r \in Result, NEW ss, ss = Append(rs, r), NEW a,
           ~ TxSucessOrExpectedFailure(r)
    PROVE  Cardinality(IndexedOf(a, ss)) = Cardinality(IndexedOf(a, rs)) + 0
<1>1. Indexed(ss) = Indexed(rs) /\ \A i \in Indexed(rs) : ss[i] = rs[i]
  <2>1. \A i \in Indexed(ss) : i \in Indexed(rs) \/ (i = Len(ss) /\ TxSucessOrExpectedFailure(r))
    BY IndexedAppend
  <2>2. \A i \in 1 .. Len(rs) : i \in 1 .. Len(ss) /\ ss[i] = rs[i]
    OBVIOUS
  <2>3. \A i \in Indexed(rs) : i \in Indexed(ss) /\ ss[i] = rs[i]
    BY <2>2 DEF Indexed
  <2>4. QED
    BY <2>1, <2>3
<1>2. IndexedOf(a, ss) = IndexedOf(a, rs)
  BY <1>1 DEF IndexedOf
<1>3. QED
  BY <1>2, IndexedFinite

\* A result that pays for its gas keeps what was wanted paid for.
LEMMA PaidAppend ==
    ASSUME NEW rs, rs \in Seq(Result), NEW r \in Result, NEW ss, ss = Append(rs, r), NEW w \in Nat,
           NEW k \in Nat, Paid(w, rs), market \in Markets, TxSucessOrExpectedFailure(r),
           k * Multiplier < r.gasUsed * Prec + Prec
    PROVE  Paid(w + k, ss)
<1>1. PICK S, C, g : S = SumOver(rs, GasOf(rs)) /\ C = Cardinality(Indexed(rs)) /\ g = r.gasUsed
  OBVIOUS
<1>2. SumOver(ss, GasOf(ss)) = S + g /\ S \in Nat
  BY <1>1, GasAppend
<1>3. C \in Nat /\ g \in Nat /\ Cardinality(Indexed(ss)) = C + 1
  BY <1>1, IndexedFinite, IndexedAppend, WeightTypes
<1>4. PICK P, M : P = Prec /\ M = Multiplier
  OBVIOUS
<1>5. P \in Nat \ {0} /\ M \in Nat
  BY <1>4, Constants
<1>6. w * M <= S * P + C * (P - 1) /\ k * M < g * P + P
  BY <1>1, <1>4 DEF Paid
<1>7. /\ (w + k) * M = w * M + k * M /\ (S + g) * P = S * P + g * P
      /\ (C + 1) * (P - 1) = C * (P - 1) + (P - 1)
      /\ w * M \in Int /\ k * M \in Int /\ S * P \in Int /\ g * P \in Int /\ C * (P - 1) \in Int
  BY <1>2, <1>3, <1>5, Distribute
<1>8. (w + k) * M <= (S + g) * P + (C + 1) * (P - 1)
  BY <1>5, <1>6, <1>7
<1>9. QED
  BY <1>2, <1>3, <1>4, <1>8 DEF Paid

\* Less was paid for too.
LEMMA PaidLess ==
    ASSUME NEW rs, rs \in Seq(Result), market \in Markets, NEW v \in Nat, NEW w \in Nat, v <= w, Paid(w, rs)
    PROVE  Paid(v, rs)
<1>1. v * Multiplier <= w * Multiplier /\ v * Multiplier \in Nat /\ w * Multiplier \in Nat
  BY Constants, Monotone
<1>2. PICK x : x = SumOver(rs, GasOf(rs)) * Prec + Cardinality(Indexed(rs)) * (Prec - 1)
  OBVIOUS
<1>3. x \in Int
  <2>1. SumOver(rs, GasOf(rs)) \in Nat /\ Cardinality(Indexed(rs)) \in Nat
    BY IndexedFinite, GasType
  <2>2. QED
    BY <1>2, <2>1, Constants
<1>4. QED
  BY <1>1, <1>2, <1>3 DEF Paid

(***************************************************************************)
(* Steps.                                                                  *)
(***************************************************************************)
LEMMA BlockFields ==
    ASSUME NEW b \in Blocks
    PROVE  /\ b.height \in 0 .. MaxHeight /\ b.phase \in {"open", "closed", "halted"}
           /\ b.gas \in Nat /\ b.gasWanted \in Nat /\ b.txIndex \in Nat /\ b.logSize \in Nat
           /\ b.gasWanted < Word /\ b.bloom \in SUBSET (1 .. MaxTxs) /\ b.txGas \in Nat
<1>1. b.gasWanted \in 0 .. Word - 1
  BY DEF Blocks
<1>2. QED
  BY <1>1, Constants DEF Blocks

\* Nothing is prepaid when no transaction is pending.
LEMMA Nobody ==
    /\ \A m, a : Prepaid(m, None) = 0 /\ PrepaidBy(m, None, a) = 0
    /\ PendingGas(None) = 0
  BY DEF Prepaid, PrepaidBy, PendingGas

\* What is prepaid is an amount.
LEMMA PrepaidType ==
    ASSUME NEW m \in Markets, NEW p \in Tx, NEW a
    PROVE  Prepaid(m, p) \in Nat /\ PrepaidBy(m, p, a) \in Nat
<1>1. p.gas \in Nat /\ PriceAt(m, p) \in Nat
  BY TxFields, PriceType
<1>2. p.gas * PriceAt(m, p) \in Nat
  BY <1>1
<1>3. QED
  BY <1>2 DEF Prepaid, PrepaidBy

\* The base fee is a natural number.
LEMMA BaseFeeType ==
    ASSUME NEW m \in Markets, NEW h \in Nat
    PROVE  CalculateBaseFee(m, h) \in Nat
<1>1. PICK b, g, p : b = m.baseFee /\ g = m.gasWanted /\ p = m.minGasPrice
  OBVIOUS
<1>2. b \in Nat /\ g \in Nat /\ p \in Nat
  BY <1>1 DEF Markets
<1>3. PICK t : t = Target
  OBVIOUS
<1>4. t \in Nat
  BY <1>3, Constants, DivType DEF Target
<1>5. PICK u : u = Prec \div Factor
  OBVIOUS
<1>6. u \in Nat
  BY <1>5, Constants, DivType
<1>7. CalcGasBaseFee(g, t, b, u, p) \in Nat
  <2>1. CASE g = t \/ t = 0
    BY <1>2, <2>1 DEF CalcGasBaseFee
  <2>2. CASE g # t /\ t # 0
    <3>1. PICK gap : gap = IF g > t THEN g - t ELSE t - g
      OBVIOUS
    <3>2. gap \in Nat /\ t \in Nat \ {0}
      BY <1>2, <1>4, <2>2, <3>1
    <3>3. gap * b \in Nat
      BY <1>2, <3>2
    <3>4. (gap * b) \div t \in Nat
      BY <3>2, <3>3, DivType
    <3>5. PICK delta : delta = ((gap * b) \div t) \div Denominator
      OBVIOUS
    <3>6. delta \in Nat
      BY <3>4, <3>5, Constants, DivType
    <3>7. CalcGasBaseFee(g, t, b, u, p) = IF g > t THEN b + Largest(delta, u) ELSE Largest(b - delta, p)
      BY <2>2, <3>1, <3>5 DEF CalcGasBaseFee
    <3>8. QED
      BY <1>2, <1>6, <3>6, <3>7 DEF Largest
  <2>3. QED
    BY <2>1, <2>2
<1>8. QED
  BY <1>1, <1>2, <1>3, <1>5, <1>7 DEF CalculateBaseFee

\* BeginBlock keeps the invariant.
LEMMA BeginInv ==
    ASSUME Inv, BeginBlock
    PROVE  Inv'
<1>1. TypesOK /\ PendingOK
  BY DEF Inv
<1>2. /\ block.phase = "closed" /\ block.height < MaxHeight /\ acct' = acct /\ pending' = pending
      /\ block' = [height |-> block.height + 1, phase |-> "open", gas |-> 0, gasWanted |-> 0,
                   txIndex |-> 0, logSize |-> 0, bloom |-> {}, txGas |-> 0]
      /\ market' = [market EXCEPT !.baseFee = CalculateBaseFee(market, block.height + 1)]
      /\ collector' = 0 /\ results' = << >> /\ start' = acct
  BY DEF BeginBlock
<1>3. pending = None /\ pending' = None
  BY <1>1, <1>2 DEF PendingOK
<1>4. block' \in Blocks
  <2>1. block.height \in 0 .. MaxHeight
    BY <1>1, BlockFields DEF TypesOK
  <2>2. block.height + 1 \in 0 .. MaxHeight /\ 0 \in 0 .. Word - 1 /\ {} \in SUBSET (1 .. MaxTxs) /\ 0 \in Nat
    BY <1>2, <2>1, Constants, SMTT(40)
  <2>3. QED
    BY <1>2, <2>2 DEF Blocks
<1>5. market' \in Markets
  <2>1. block.height + 1 \in Nat /\ market \in Markets
    BY <1>1, BlockFields, Constants DEF TypesOK
  <2>2. CalculateBaseFee(market, block.height + 1) \in Nat
    BY <2>1, BaseFeeType
  <2>3. QED
    BY <1>2, <2>1, <2>2 DEF Markets
<1>6. TypesOK' /\ PendingOK'
  <2>1. results' \in Seq(Result) /\ Len(results') <= MaxTxs
    BY <1>2, NoResults, Constants
  <2>2. QED
    BY <1>1, <1>2, <1>3, <1>4, <1>5, <2>1 DEF TypesOK, PendingOK
<1>7. \A a \in Accounts : acct[a].bal \in Nat /\ acct[a].nonce \in Nat
  BY <1>1 DEF TypesOK, Accts
<1>8. BooksOK'
  BY <1>2, <1>3, <1>7, NoResults, Nobody DEF BooksOK
<1>9. NoncesOK'
  BY <1>2, <1>3, <1>7, NoResults DEF NoncesOK, Accounts
<1>10. LogsOK'
  <2>1. 1 .. Len(results') = {}
    BY <1>2
  <2>2. block'.logSize = 0 /\ block'.bloom = {}
    BY <1>2
  <2>3. QED
    BY <1>2, <2>1, <2>2, NoResults DEF LogsOK
<1>11. GasOK'
  <2>1. block'.phase = "open" /\ block'.gas = 0 /\ block'.gasWanted = 0
    BY <1>2
  <2>2. Largest(0, 0 - 0) = 0
    BY DEF Largest
  <2>3. Paid(0, << >>)
    BY NoResults, Constants DEF Paid
  <2>4. SumOver(results', GasOf(results')) = 0
    BY <1>2, NoResults
  <2>5. QED
    BY <1>2, <1>3, <2>1, <2>2, <2>3, <2>4, Nobody DEF GasOK
<1>12. QED
  BY <1>6, <1>8, <1>9, <1>10, <1>11 DEF Inv

\* The ante handler keeps the invariant.
LEMMA AnteInv ==
    ASSUME Inv, NEW tx \in Tx, AnteHandle(tx)
    PROVE  Inv'
<1>1. TypesOK /\ PendingOK /\ BooksOK /\ NoncesOK /\ LogsOK /\ GasOK
  BY DEF Inv
<1>2. PICK from, price, gas : from = tx.from /\ price = PriceAt(market, tx) /\ gas = tx.gas
  OBVIOUS
<1>3. PICK fee : fee = gas * price
  OBVIOUS
<1>4. /\ from \in Users /\ from \in Accounts /\ price \in Nat /\ price <= tx.cap /\ gas \in Nat
      /\ tx.value \in Nat /\ tx.nonce \in Nat /\ tx # None /\ tx.cap \in Nat
  BY <1>1, <1>2, TxFields, PriceType DEF TypesOK
<1>5. fee \in Nat /\ fee <= gas * tx.cap /\ gas * tx.cap \in Nat
  BY <1>3, <1>4, Monotone
<1>6. VerifyFee(tx) = fee
  BY <1>2, <1>3 DEF VerifyFee, EffectivePrice, PriceAt
<1>7. PICK b : b = ResetTransientGasUsed(block)
  OBVIOUS
<1>8. /\ block.phase = "open" /\ pending = None /\ Len(results) < MaxTxs
      /\ acct[from].bal >= gas * tx.cap + tx.value /\ tx.nonce = acct[from].nonce /\ gas <= MaxGas
      /\ acct' = [acct EXCEPT ![from] = [nonce |-> tx.nonce + 1, bal |-> @.bal - fee]]
      /\ collector' = collector + fee
      /\ block' = AddTransientGasWanted(b, tx)
      /\ pending' = tx /\ market' = market /\ results' = results /\ start' = start
  BY <1>2, <1>6, <1>7 DEF AnteHandle, CanDeliver, AnteAccepts, VerifyAccountBalance, ValidNonce, WithinBlock, Deduct
<1>9. /\ b \in Blocks /\ b.height = block.height /\ b.phase = block.phase /\ b.gas = block.gas
      /\ b.gasWanted = block.gasWanted /\ b.txIndex = block.txIndex /\ b.logSize = block.logSize
      /\ b.bloom = block.bloom /\ b.txGas = 0
  BY <1>1, <1>7 DEF ResetTransientGasUsed, TypesOK, Blocks
<1>10. PICK w : w = (b.gasWanted + gas) % Word
  OBVIOUS
<1>11. w \in 0 .. Word - 1 /\ w <= block.gasWanted + gas /\ block.gasWanted \in Nat
  <2>1. b.gasWanted + gas \in Nat /\ block.gasWanted \in Nat
    BY <1>4, <1>9, BlockFields
  <2>2. PICK y : y = b.gasWanted + gas
    OBVIOUS
  <2>3. y \in Nat /\ y % Word \in 0 .. Word - 1 /\ y % Word <= y
    BY <2>1, <2>2, Constants, Remainder
  <2>4. QED
    BY <1>9, <1>10, <2>1, <2>2, <2>3
<1>12. block' = b \/ block' = [b EXCEPT !.gasWanted = w]
  BY <1>2, <1>8, <1>10 DEF AddTransientGasWanted
<1>13. /\ block' \in Blocks /\ block'.phase = "open" /\ block'.gas = block.gas
       /\ block'.gasWanted <= block.gasWanted + gas /\ block'.gasWanted \in Nat
       /\ block'.logSize = block.logSize /\ block'.bloom = block.bloom /\ block'.txGas = 0
       /\ block'.txIndex = block.txIndex
  <2>1. CASE block' = b
    BY <1>4, <1>8, <1>9, <1>11, <2>1
  <2>2. CASE block' = [b EXCEPT !.gasWanted = w]
    <3>1. /\ block' \in Blocks /\ block'.phase = b.phase /\ block'.gas = b.gas
          /\ block'.gasWanted = w /\ block'.logSize = b.logSize /\ block'.bloom = b.bloom
          /\ block'.txGas = b.txGas /\ block'.txIndex = b.txIndex
      BY <1>9, <1>11, <2>2 DEF Blocks
    <3>2. w \in Nat
      BY <1>11
    <3>3. QED
      BY <1>8, <1>9, <1>11, <3>1, <3>2
  <2>3. QED
    BY <1>12, <2>1, <2>2
<1>14. /\ acct' \in Accts /\ acct'[from].nonce = tx.nonce + 1 /\ acct'[from].bal = acct[from].bal - fee
       /\ acct'[from].bal >= tx.value /\ \A a \in Accounts : a # from => acct'[a] = acct[a]
       /\ \A a \in Accounts : acct[a].bal \in Nat /\ acct[a].nonce \in Nat
  <2>1. acct \in [Accounts -> [nonce: Nat, bal: Nat]]
    BY <1>1 DEF TypesOK, Accts
  <2>2. acct[from].bal \in Nat /\ acct[from].bal - fee \in Nat /\ acct[from].bal - fee >= tx.value
    <3>1. PICK bal, top, value : bal = acct[from].bal /\ top = gas * tx.cap /\ value = tx.value
      OBVIOUS
    <3>2. bal \in Nat /\ top \in Nat /\ value \in Nat /\ bal >= top + value /\ fee <= top
      BY <1>4, <1>5, <1>8, <2>1, <3>1
    <3>3. bal - fee \in Nat /\ bal - fee >= value
      BY <1>5, <3>2
    <3>4. QED
      BY <3>1, <3>2, <3>3
  <2>3. QED
    BY <1>4, <1>8, <2>1, <2>2 DEF Accts
<1>15. TypesOK'
  BY <1>1, <1>5, <1>8, <1>13, <1>14 DEF TypesOK
<1>16. PendingOK'
  BY <1>2, <1>8, <1>13, <1>14 DEF PendingOK
<1>17. /\ Prepaid(market, tx) = fee
       /\ \A a : PrepaidBy(market, tx, a) = IF from = a THEN fee ELSE 0
  BY <1>2, <1>3, <1>4 DEF Prepaid, PrepaidBy
<1>18. BooksOK'
  <2>1. ASSUME NEW a \in Accounts
        PROVE  acct'[a].bal + SumOver(results, Spends(market, a, results)) + PrepaidBy(market, tx, a)
                  = start[a].bal + SumOver(results, Receipts(a, results))
    <3>1. PICK s : s = SumOver(results, Spends(market, a, results))
      OBVIOUS
    <3>2. s \in Nat
      BY <1>1, <3>1, SpendsType DEF TypesOK
    <3>3. acct[a].bal + s + 0 = start[a].bal + SumOver(results, Receipts(a, results))
      BY <1>1, <1>8, <3>1, Nobody DEF BooksOK
    <3>4. acct'[a].bal + s + PrepaidBy(market, tx, a) = acct[a].bal + s + 0
      BY <1>5, <1>14, <1>17, <3>2
    <3>5. QED
      BY <3>1, <3>3, <3>4
  <2>2. collector' = SumOver(results, Fees(market, results)) + Prepaid(market, tx)
    <3>1. collector = SumOver(results, Fees(market, results)) + 0
      BY <1>1, <1>8, Nobody DEF BooksOK
    <3>2. SumOver(results, Fees(market, results)) \in Nat
      BY <1>1, SpendsType DEF TypesOK
    <3>3. QED
      BY <1>5, <1>8, <1>17, <3>1, <3>2
  <2>3. QED
    BY <1>8, <2>1, <2>2 DEF BooksOK
<1>19. NoncesOK'
  <2> SUFFICES ASSUME NEW a \in Users
               PROVE  acct'[a].nonce = start[a].nonce + Cardinality(IndexedOf(a, results))
                                          + IF tx.from = a THEN 1 ELSE 0
    BY <1>4, <1>8 DEF NoncesOK
  <2>1. acct[a].nonce = start[a].nonce + Cardinality(IndexedOf(a, results)) + 0
    BY <1>1, <1>8 DEF NoncesOK
  <2>2. a \in Accounts /\ start[a].nonce \in Nat /\ Cardinality(IndexedOf(a, results)) \in Nat
    BY <1>1, IndexedFinite DEF Accounts, TypesOK, Accts
  <2>3. QED
    BY <1>2, <1>8, <1>14, <2>1, <2>2
<1>20. LogsOK'
  BY <1>1, <1>8, <1>13 DEF LogsOK
<1>21. GasOK'
  <2>1. block.gas <= SumOver(results, GasOf(results)) /\ Paid(Largest(0, block.gasWanted - 0), results)
    BY <1>1, <1>8, Nobody DEF GasOK
  <2>2. PICK v : v = Largest(0, block'.gasWanted - gas)
    OBVIOUS
  <2>3. v \in Nat /\ v <= block.gasWanted /\ Largest(0, block.gasWanted - 0) = block.gasWanted
    BY <1>4, <1>11, <1>13, <2>2 DEF Largest
  <2>4. Paid(v, results)
    BY <1>1, <1>11, <2>1, <2>3, PaidLess DEF TypesOK
  <2>5. PendingGas(tx) = gas
    BY <1>2, <1>4 DEF PendingGas
  <2>6. QED
    BY <1>8, <1>13, <2>1, <2>2, <2>4, <2>5 DEF GasOK
<1>22. QED
  BY <1>15, <1>16, <1>18, <1>19, <1>20, <1>21 DEF Inv

\* Accounts that balance with a prepayment balance without it once it is settled.
LEMMA Balances ==
    ASSUME NEW x \in Nat, NEW y \in Nat, NEW z \in Nat, NEW s \in Nat, NEW t \in Nat, NEW u \in Nat,
           NEW v \in Nat, NEW p \in Nat, y + s + p = z + t, x + u = y + p + v
    PROVE  x + (s + u) + 0 = z + (t + v)
  OBVIOUS

\* A rejection is a result.
LEMMA RejectedType == Rejected \in Result
  BY DEF Rejected, Result

\* The logs of a result are numbered after those of the block.
LEMMA LogsMore ==
    ASSUME Inv, NEW r \in Result, results' = Append(results, r),
           block'.logSize = block.logSize + r.logs,
           block'.bloom = IF r.logs = 0 THEN block.bloom ELSE block.bloom \cup {Len(results) + 1},
           r.logs > 0 => ~ r.failed /\ r.firstLog = block.logSize
    PROVE  LogsOK'
<1>1. TypesOK /\ LogsOK
  BY DEF Inv
<1>2. PICK n, f, g : n = Len(results) /\ f = LogsOf(results) /\ g = LogsOf(results')
  OBVIOUS
<1>3. /\ n \in Nat /\ Len(results') = n + 1 /\ results'[n + 1] = r /\ r.logs \in Nat
      /\ \A i \in 1 .. n : results'[i] = results[i]
  <2>1. r.logs \in Nat
    BY DEF Result
  <2>2. QED
    BY <1>1, <1>2, <2>1 DEF TypesOK
<1>4. \A i \in 1 .. n : g[i] = f[i]
  BY <1>2, <1>3 DEF LogsOf
<1>5. SumOver(results', g) = SumOver(results, f) + r.logs
  BY <1>1, <1>2, LogsAppend DEF TypesOK
<1>6. block'.logSize = SumOver(results', g)
  BY <1>1, <1>2, <1>5 DEF LogsOK
<1>7. \A i \in 1 .. n + 1 : SumOn(1 .. i - 1, f) = SumOn(1 .. i - 1, g)
  <2> SUFFICES ASSUME NEW i \in 1 .. n + 1 PROVE SumOn(1 .. i - 1, f) = SumOn(1 .. i - 1, g)
    OBVIOUS
  <2>1. PICK S : S = 1 .. i - 1
    OBVIOUS
  <2>2. \A j \in S : f[j] = g[j]
    BY <1>3, <1>4, <2>1
  <2>3. SumOn(S, f) = SumOn(S, g)
    BY <2>2, SumOnEqual
  <2>4. QED
    BY <2>1, <2>3
<1>8. ASSUME NEW i \in 1 .. n + 1, results'[i].logs > 0
      PROVE  ~ results'[i].failed /\ results'[i].firstLog = SumOn(1 .. i - 1, g)
  <2>1. CASE i = n + 1
    <3>1. block.logSize = SumOn(1 .. i - 1, f)
      <4>1. i - 1 = n
        BY <1>3, <2>1
      <4>2. QED
        BY <1>1, <1>2, <4>1 DEF LogsOK, SumOver
    <3>2. ~ r.failed /\ r.firstLog = block.logSize
      BY <1>3, <1>8, <2>1
    <3>3. QED
      BY <1>3, <1>7, <2>1, <3>1, <3>2
  <2>2. CASE i # n + 1
    <3>1. i \in 1 .. n
      BY <1>3, <2>2
    <3>2. ~ results[i].failed /\ results[i].firstLog = SumOn(1 .. i - 1, f)
      BY <1>1, <1>2, <1>3, <1>8, <3>1 DEF LogsOK
    <3>3. QED
      BY <1>3, <1>7, <3>1, <3>2
  <2>3. QED
    BY <2>1, <2>2
<1>9. block'.bloom = {i \in 1 .. n + 1 : results'[i].logs > 0}
  <2>1. \A i : i \in 1 .. n + 1 <=> i \in 1 .. n \/ i = n + 1
    BY <1>3
  <2>2. results'[n + 1].logs > 0 <=> r.logs # 0
    BY <1>3
  <2>3. block.bloom = {i \in 1 .. n : results[i].logs > 0}
    BY <1>1, <1>2 DEF LogsOK
  <2>4. QED
    BY <1>2, <1>3, <2>1, <2>2, <2>3
<1>10. QED
  BY <1>2, <1>3, <1>6, <1>8, <1>9 DEF LogsOK

\* A result without logs leaves the numbering alone.
LEMMA LogsStill ==
    ASSUME Inv, NEW r \in Result, r.logs = 0, results' = Append(results, r),
           block'.logSize = block.logSize, block'.bloom = block.bloom
    PROVE  LogsOK'
<1>1. block.logSize + 0 = block.logSize
  BY BlockFields DEF Inv, TypesOK
<1>2. QED
  BY <1>1, LogsMore

\* A rejected transaction keeps the invariant.
LEMMA RejectInv ==
    ASSUME Inv, NEW tx, AnteRejects(tx)
    PROVE  Inv'
<1>1. TypesOK /\ PendingOK /\ BooksOK /\ NoncesOK /\ LogsOK /\ GasOK
  BY DEF Inv
<1>2. PICK r : r = Rejected
  OBVIOUS
<1>3. /\ block.phase = "open" /\ pending = None /\ Len(results) < MaxTxs
      /\ results' = Append(results, r)
      /\ UNCHANGED <<acct, collector, market, block, pending, start>>
  BY <1>2 DEF AnteRejects, CanDeliver
<1>4. r \in Result /\ r.tx = None /\ r.code = "ante" /\ r.logs = 0 /\ r.gasUsed = 0
  BY <1>2, RejectedType DEF Rejected
<1>5. results \in Seq(Result) /\ market \in Markets
  BY <1>1 DEF TypesOK
<1>6. ~ TxSucessOrExpectedFailure(r)
  BY <1>4 DEF TxSucessOrExpectedFailure
<1>7. /\ results' \in Seq(Result) /\ Len(results') = Len(results) + 1 /\ Len(results) \in Nat
      /\ Cardinality(Indexed(results')) = Cardinality(Indexed(results)) + 0
      /\ \A a : Cardinality(IndexedOf(a, results')) = Cardinality(IndexedOf(a, results)) + 0
      /\ Cardinality(Indexed(results)) \in Nat /\ \A a : Cardinality(IndexedOf(a, results)) \in Nat
  <2>0. r \in Result
    BY <1>4
  <2>1. Cardinality(Indexed(results)) \in Nat /\ \A a : Cardinality(IndexedOf(a, results)) \in Nat
    BY <1>5, IndexedFinite
  <2>2. PICK ss : ss = results'
    OBVIOUS
  <2>3. ss = Append(results, r)
    BY <1>3, <2>2
  <2>4. ss \in Seq(Result) /\ Len(ss) = Len(results) + 1 /\ Len(results) \in Nat
    BY <1>4, <1>5, <2>3
  <2>5. Cardinality(Indexed(ss)) = Cardinality(Indexed(results)) + 0
    BY <1>4, <1>5, <1>6, <2>3, IndexedAppend
  <2>6. ASSUME NEW a
        PROVE  Cardinality(IndexedOf(a, ss)) = Cardinality(IndexedOf(a, results)) + 0
    BY <1>5, <1>6, <2>0, <2>3, IndexedOfSame, ZenonT(60)
  <2>7. QED
    BY <2>1, <2>2, <2>4, <2>5, <2>6
<1>8. TypesOK' /\ PendingOK'
  BY <1>1, <1>3, <1>7, Constants DEF TypesOK, PendingOK
<1>9. \A a : FeeAt(market, r) = 0 /\ SpentAt(market, a, r) = 0 /\ Received(a, r) = 0
  BY <1>4 DEF FeeAt, SpentAt, Received
<1>10. /\ SumOver(results', Fees(market, results')) = SumOver(results, Fees(market, results))
       /\ SumOver(results', GasOf(results')) = SumOver(results, GasOf(results))
  <2>1. SumOver(results', Fees(market, results')) = SumOver(results, Fees(market, results)) + 0
    BY <1>3, <1>4, <1>5, <1>9, FeesAppend
  <2>2. SumOver(results', GasOf(results')) = SumOver(results, GasOf(results)) + 0
    BY <1>3, <1>4, <1>5, GasAppend
  <2>3. SumOver(results, Fees(market, results)) \in Nat /\ SumOver(results, GasOf(results)) \in Nat
    BY <1>5, SpendsType, GasType
  <2>4. QED
    BY <2>1, <2>2, <2>3
<1>11. ASSUME NEW a
       PROVE  /\ SumOver(results', Spends(market, a, results')) = SumOver(results, Spends(market, a, results))
              /\ SumOver(results', Receipts(a, results')) = SumOver(results, Receipts(a, results))
  <2>1. SumOver(results', Spends(market, a, results')) = SumOver(results, Spends(market, a, results)) + 0
    BY <1>3, <1>4, <1>5, <1>9, SpendsAppend
  <2>2. SumOver(results', Receipts(a, results')) = SumOver(results, Receipts(a, results)) + 0
    BY <1>3, <1>4, <1>5, <1>9, ReceiptsAppend
  <2>3. QED
    BY <1>5, <2>1, <2>2, SpendsType
<1>12. BooksOK'
  BY <1>1, <1>3, <1>10, <1>11 DEF BooksOK
<1>13. NoncesOK'
  BY <1>1, <1>3, <1>7 DEF NoncesOK
<1>14. LogsOK'
  BY <1>3, <1>4, LogsStill
<1>15. GasOK'
  <2>1. Cardinality(Indexed(results')) = Cardinality(Indexed(results))
    BY <1>7
  <2>2. \A w : Paid(w, results') <=> Paid(w, results)
    BY <1>10, <2>1 DEF Paid
  <2>3. QED
    BY <1>1, <1>3, <1>10, <2>1, <2>2 DEF GasOK
<1>16. QED
  BY <1>8, <1>12, <1>13, <1>14, <1>15 DEF Inv

\* A message turns what was prepaid into what its result says it cost.
Settles(r) ==
    /\ \A a \in Accounts :
         /\ acct'[a].nonce = acct[a].nonce
         /\ acct'[a].bal + SpentAt(market, a, r)
               = acct[a].bal + PrepaidBy(market, pending, a) + Received(a, r)
    /\ collector' + Prepaid(market, pending) = collector + FeeAt(market, r)

\* A result of a transaction that was pending: nonces, fees, gas wanted.
LEMMA ResultInv ==
    ASSUME Inv, pending # None, pending' = None, market' = market, start' = start,
           NEW r \in Result, r.tx = pending, TxSucessOrExpectedFailure(r), results' = Append(results, r),
           acct' \in Accts, collector' \in Nat, block' \in Blocks, LogsOK',
           block'.phase = block.phase, block'.gasWanted = block.gasWanted,
           block'.gas <= block.gas + r.gasUsed,
           pending.gas * Multiplier < r.gasUsed * Prec + Prec,
           Settles(r)
    PROVE  Inv'
<1>1. TypesOK /\ PendingOK /\ BooksOK /\ NoncesOK /\ LogsOK /\ GasOK
  BY DEF Inv
<1>2. results \in Seq(Result) /\ market \in Markets /\ pending \in Tx /\ acct \in Accts /\ start \in Accts
      /\ collector \in Nat /\ block \in Blocks
  BY <1>1 DEF TypesOK
<1>3. block.phase = "open" /\ Len(results) < MaxTxs
  BY <1>1 DEF PendingOK
<1>4. /\ results' \in Seq(Result) /\ Len(results') = Len(results) + 1 /\ Len(results) \in Nat
      /\ Cardinality(Indexed(results)) \in Nat /\ \A a : Cardinality(IndexedOf(a, results)) \in Nat
  BY <1>2, IndexedAppend, IndexedFinite
<1>5. \A a : Cardinality(IndexedOf(a, results')) =
               Cardinality(IndexedOf(a, results)) + IF pending.from = a THEN 1 ELSE 0
  <2>1. PICK ss : ss = results'
    OBVIOUS
  <2>2. ss = Append(results, r)
    BY <2>1
  <2>3. ASSUME NEW a
        PROVE  Cardinality(IndexedOf(a, ss)) =
                 Cardinality(IndexedOf(a, results)) + IF r.tx.from = a THEN 1 ELSE 0
    <3>1. Cardinality(IndexedOf(a, ss)) = Cardinality(IndexedOf(a, results))
             + IF TxSucessOrExpectedFailure(r) /\ r.tx.from = a THEN 1 ELSE 0
      BY <1>2, <2>2, IndexedOfAppend, ZenonT(60)
    <3>2. QED
      BY <3>1
  <2>4. QED
    BY <2>1, <2>3
<1>6. TypesOK' /\ PendingOK'
  BY <1>2, <1>3, <1>4, Constants DEF TypesOK, PendingOK
<1>7. BooksOK'
  <2>1. ASSUME NEW a \in Accounts
        PROVE  acct'[a].bal + SumOver(results', Spends(market, a, results')) + 0
                  = start[a].bal + SumOver(results', Receipts(a, results'))
    <3>1. PICK s, t, u, v, p : /\ s = SumOver(results, Spends(market, a, results)) /\ u = SpentAt(market, a, r)
                               /\ t = SumOver(results, Receipts(a, results)) /\ v = Received(a, r)
                               /\ p = PrepaidBy(market, pending, a)
      OBVIOUS
    <3>2. s \in Nat /\ t \in Nat /\ u \in Nat /\ v \in Nat
      BY <1>2, <3>1, SpendsType, WeightTypes
    <3>3. SumOver(results', Spends(market, a, results')) = s + u
      BY <1>2, <3>1, SpendsAppend
    <3>4. SumOver(results', Receipts(a, results')) = t + v
      BY <1>2, <3>1, ReceiptsAppend
    <3>5. acct[a].bal + s + p = start[a].bal + t
      BY <1>1, <1>3, <3>1 DEF BooksOK
    <3>6. acct'[a].bal + u = acct[a].bal + p + v
      BY <3>1 DEF Settles
    <3>7. acct'[a].bal \in Nat /\ acct[a].bal \in Nat /\ start[a].bal \in Nat
      BY <1>2 DEF Accts
    <3>8. p \in Nat
      BY <1>2, <3>1, PrepaidType
    <3>9. acct'[a].bal + (s + u) + 0 = start[a].bal + (t + v)
      <4>1. PICK x, y, z : x = acct'[a].bal /\ y = acct[a].bal /\ z = start[a].bal
        OBVIOUS
      <4>2. /\ x \in Nat /\ y \in Nat /\ z \in Nat
            /\ y + s + p = z + t /\ x + u = y + p + v
        BY <3>5, <3>6, <3>7, <4>1
      <4>3. x + (s + u) + 0 = z + (t + v)
        BY <3>2, <3>8, <4>2, Balances
      <4>4. QED
        BY <4>1, <4>3
    <3>10. QED
      BY <3>3, <3>4, <3>9
  <2>2. collector' = SumOver(results', Fees(market, results')) + 0
    <3>1. PICK s, u, p : /\ s = SumOver(results, Fees(market, results)) /\ u = FeeAt(market, r)
                         /\ p = Prepaid(market, pending)
      OBVIOUS
    <3>2. s \in Nat /\ u \in Nat /\ p \in Nat
      BY <1>2, <3>1, SpendsType, WeightTypes, PrepaidType
    <3>3. SumOver(results', Fees(market, results')) = s + u
      BY <1>2, <3>1, FeesAppend
    <3>4. collector = s + p /\ collector' + p = collector + u
      BY <1>1, <1>3, <3>1 DEF BooksOK, Settles
    <3>5. PICK c : c = collector'
      OBVIOUS
    <3>6. c \in Nat /\ c + p = (s + p) + u
      BY <3>4, <3>5
    <3>7. c = (s + u) + 0
      BY <3>2, <3>6
    <3>8. QED
      BY <3>3, <3>5, <3>7
  <2>3. QED
    BY <2>1, <2>2, Nobody DEF BooksOK
<1>8. NoncesOK'
  <2> SUFFICES ASSUME NEW a \in Users
               PROVE  acct'[a].nonce = start[a].nonce + Cardinality(IndexedOf(a, results')) + 0
    BY DEF NoncesOK
  <2>1. acct[a].nonce = start[a].nonce + Cardinality(IndexedOf(a, results)) + IF pending.from = a THEN 1 ELSE 0
    BY <1>1 DEF NoncesOK
  <2>2. a \in Accounts /\ start[a].nonce \in Nat
    BY <1>2 DEF Accounts, Accts
  <2>3. acct'[a].nonce = acct[a].nonce
    BY <2>2 DEF Settles
  <2>4. QED
    BY <1>4, <1>5, <2>1, <2>2, <2>3
<1>9. GasOK'
  <2>1. PICK gas, w : gas = pending.gas /\ w = Largest(0, block.gasWanted - gas)
    OBVIOUS
  <2>2. gas \in Nat /\ block.gasWanted \in Nat /\ block.gas \in Nat /\ block'.gas \in Nat
    BY <1>2, <2>1, BlockFields, TxFields
  <2>3. w \in Nat /\ block.gasWanted <= w + gas
    <3>1. \A i, j \in Nat : Largest(0, i - j) \in Nat /\ i <= Largest(0, i - j) + j
      BY DEF Largest
    <3>2. QED
      BY <2>1, <2>2, <3>1
  <2>4. block.gas <= SumOver(results, GasOf(results)) /\ Paid(w, results)
    BY <1>1, <1>3, <2>1 DEF GasOK, PendingGas
  <2>5. Paid(w + gas, results')
    BY <1>2, <2>1, <2>2, <2>3, <2>4, PaidAppend, ZenonT(60)
  <2>6. Paid(block.gasWanted, results')
    <3>1. PICK v, ss, k : v = block.gasWanted /\ ss = results' /\ k = w + gas
      OBVIOUS
    <3>2. v \in Nat /\ k \in Nat /\ v <= k
      BY <2>2, <2>3, <3>1
    <3>3. ss \in Seq(Result) /\ Paid(k, ss)
      BY <1>4, <2>5, <3>1
    <3>4. Paid(v, ss)
      BY <1>2, <3>2, <3>3, PaidLess
    <3>5. QED
      BY <3>1, <3>4
  <2>7. Largest(0, block.gasWanted - 0) = block.gasWanted
    BY <2>2 DEF Largest
  <2>8. block'.gas <= SumOver(results', GasOf(results'))
    <3>1. SumOver(results', GasOf(results')) = SumOver(results, GasOf(results)) + r.gasUsed
      BY <1>2, GasAppend
    <3>2. SumOver(results, GasOf(results)) \in Nat /\ r.gasUsed \in Nat
      BY <1>2, GasType, WeightTypes
    <3>3. QED
      BY <2>2, <2>4, <3>1, <3>2
  <2>9. QED
    BY <1>3, <2>6, <2>7, <2>8, Nobody DEF GasOK
<1>10. QED
  BY <1>6, <1>7, <1>8, <1>9 DEF Inv


\* A message whose writes are dropped pays its whole limit.
LEMMA DroppedInv ==
    ASSUME Inv, pending # None, pending' = None, market' = market, start' = start,
           NEW code \in {"commit", "blockgas"}, NEW k \in Nat, k <= pending.gas,
           block' = [block EXCEPT !.gas = block.gas + k],
           results' = Append(results, Dropped(pending, code)), acct' = acct, collector' = collector
    PROVE  Inv'
<1>1. /\ market \in Markets /\ pending \in Tx /\ acct \in Accts /\ collector \in Nat /\ block \in Blocks
  BY DEF Inv, TypesOK
<1>2. PICK r : r = Dropped(pending, code)
  OBVIOUS
<1>3. PICK gas, price : gas = pending.gas /\ price = PriceAt(market, pending)
  OBVIOUS
<1>4. gas \in Nat /\ price \in Nat /\ gas * price \in Nat
  BY <1>1, <1>3, TxFields, PriceType
<1>5. /\ r.tx = pending /\ r.failed = TRUE /\ r.gasUsed = gas /\ r.logs = 0 /\ r.code = code
      /\ r \in Result
  <2>1. block.txIndex \in Nat
    BY <1>1, BlockFields
  <2>2. QED
    BY <1>1, <1>2, <1>3, <1>4, <2>1 DEF Dropped, Result
<1>6. /\ block' \in Blocks /\ block'.phase = block.phase /\ block'.gasWanted = block.gasWanted
      /\ block'.gas = block.gas + k /\ block'.logSize = block.logSize /\ block'.bloom = block.bloom
      /\ block.gas \in Nat
  <2>1. block.gas \in Nat /\ block.gas + k \in Nat
    BY <1>1, BlockFields
  <2>2. QED
    BY <1>1, <2>1 DEF Blocks
<1>7. LogsOK'
  BY <1>2, <1>5, <1>6, LogsStill
<1>8. gas * Multiplier < gas * Prec + Prec
  <2>1. gas \in Nat
    BY <1>4
  <2>2. gas * Multiplier <= gas * Prec /\ gas * Multiplier \in Nat /\ gas * Prec \in Nat
    BY <2>1, Constants, Monotone, SMTT(40)
  <2>3. QED
    BY <2>2, Constants, SMTT(40)
<1>9. Settles(r)
  <2>1. FeeAt(market, r) = gas * price /\ Prepaid(market, pending) = gas * price
    BY <1>3, <1>5 DEF FeeAt, Prepaid
  <2>2. ASSUME NEW a \in Accounts
        PROVE  acct[a].bal + SpentAt(market, a, r) = acct[a].bal + PrepaidBy(market, pending, a) + Received(a, r)
    <3>1. Received(a, r) = 0
      BY <1>5 DEF Received
    <3>2. SpentAt(market, a, r) = IF pending.from = a THEN gas * price + 0 ELSE 0
      BY <1>5, <2>1 DEF SpentAt
    <3>3. PrepaidBy(market, pending, a) = IF pending.from = a THEN gas * price ELSE 0
      BY <2>1 DEF PrepaidBy
    <3>4. acct[a].bal \in Nat
      BY <1>1 DEF Accts
    <3>5. QED
      BY <1>4, <3>1, <3>2, <3>3, <3>4
  <2>3. collector' + Prepaid(market, pending) = collector + FeeAt(market, r)
    BY <2>1
  <2>4. QED
    BY <2>2, <2>3 DEF Settles
<1>10. TxSucessOrExpectedFailure(r)
  BY <1>5 DEF TxSucessOrExpectedFailure
<1>11. block'.gas <= block.gas + r.gasUsed
  BY <1>3, <1>4, <1>5, <1>6
<1>12. pending.gas * Multiplier < r.gasUsed * Prec + Prec
  BY <1>3, <1>5, <1>8
<1>13. results' = Append(results, r) /\ acct' \in Accts /\ collector' \in Nat
  BY <1>1, <1>2
<1>14. QED
  BY <1>5, <1>6, <1>7, <1>9, <1>10, <1>11, <1>12, <1>13, ResultInv

\* A transfer moves the value and, although a creation resets it, leaves the nonce.
LEMMA ExecutedMoves ==
    ASSUME NEW tx \in Tx, acct \in Accts, acct[tx.from].nonce = tx.nonce + 1, acct[tx.from].bal >= tx.value
    PROVE  /\ Executed(tx) \in Accts
           /\ \A a \in Accounts :
                /\ Executed(tx)[a].nonce = acct[a].nonce
                /\ Executed(tx)[a].bal + (IF tx.from = a THEN tx.value ELSE 0)
                      = acct[a].bal + IF tx.to = a THEN tx.value ELSE 0
<1>1. PICK from, value : from = tx.from /\ value = tx.value
  OBVIOUS
<1>2. PICK bal, nonce : bal = acct[from].bal /\ nonce = acct[from].nonce
  OBVIOUS
<1>3. /\ from \in Accounts /\ value \in Nat /\ tx.to \in Accounts \cup {Create} /\ Create \notin Accounts
      /\ bal \in Nat /\ nonce \in Nat /\ bal >= value /\ tx.nonce + 1 = nonce
      /\ \A a \in Accounts : acct[a].bal \in Nat /\ acct[a].nonce \in Nat
  <2>1. Create \notin Accounts
    BY ParameterAssumption DEF Accounts
  <2>2. \A a \in Accounts : acct[a].bal \in Nat /\ acct[a].nonce \in Nat
    BY DEF Accts
  <2>3. QED
    BY <1>1, <1>2, <2>1, <2>2, TxFields
<1>4. PICK paid : paid = [acct EXCEPT ![from] = [nonce |-> nonce, bal |-> bal - value]]
  OBVIOUS
<1>5. bal - value \in Nat
  BY <1>3
<1>6. /\ paid \in Accts /\ paid[from].nonce = nonce /\ paid[from].bal = bal - value
      /\ \A a \in Accounts : a # from => paid[a] = acct[a]
  BY <1>3, <1>4, <1>5 DEF Accts
<1>7. Executed(tx) = IF tx.to = Create THEN paid ELSE [paid EXCEPT ![tx.to].bal = @ + value]
  <2>1. [nonce |-> IF tx.to = Create THEN tx.nonce + 1 ELSE acct[from].nonce, bal |-> acct[from].bal - value]
           = [nonce |-> nonce, bal |-> bal - value]
    BY <1>2, <1>3
  <2>2. QED
    BY <1>1, <1>4, <2>1 DEF Executed
<1>8. \A a \in Accounts : paid[a].nonce = acct[a].nonce /\ paid[a].bal \in Nat /\ paid[a].nonce \in Nat
  BY <1>2, <1>3, <1>5, <1>6
<1>9. \A a \in Accounts : paid[a].bal + (IF from = a THEN value ELSE 0) = acct[a].bal
  <2> SUFFICES ASSUME NEW a \in Accounts
               PROVE  paid[a].bal + (IF from = a THEN value ELSE 0) = acct[a].bal
    OBVIOUS
  <2>1. CASE from = a
    <3>1. (bal - value) + value = bal
      BY <1>3
    <3>2. QED
      BY <1>2, <1>6, <2>1, <3>1
  <2>2. CASE from # a
    <3>1. paid[a] = acct[a] /\ acct[a].bal \in Nat
      BY <1>3, <1>6, <2>2
    <3>2. acct[a].bal + 0 = acct[a].bal
      BY <3>1
    <3>3. QED
      BY <2>2, <3>1, <3>2
  <2>3. QED
    BY <2>1, <2>2
<1>10. CASE tx.to = Create
  <2>1. Executed(tx) = paid
    BY <1>7, <1>10
  <2>2. ASSUME NEW a \in Accounts
        PROVE  paid[a].bal + (IF from = a THEN value ELSE 0) = acct[a].bal + IF tx.to = a THEN value ELSE 0
    <3>1. tx.to # a
      BY <1>3, <1>10
    <3>2. acct[a].bal + 0 = acct[a].bal
      BY <1>3
    <3>3. QED
      BY <1>9, <3>1, <3>2
  <2>3. QED
    BY <1>1, <1>6, <1>8, <2>1, <2>2
<1>11. CASE tx.to # Create
  <2>1. PICK to, e : to = tx.to /\ e = Executed(tx)
    OBVIOUS
  <2>2. to \in Accounts /\ e = [paid EXCEPT ![to].bal = paid[to].bal + value]
    BY <1>3, <1>7, <1>11, <2>1
  <2>3. /\ e \in Accts /\ e[to].nonce = paid[to].nonce /\ e[to].bal = paid[to].bal + value
        /\ \A a \in Accounts : a # to => e[a] = paid[a]
    <3>1. paid[to].bal + value \in Nat /\ paid \in [Accounts -> [nonce: Nat, bal: Nat]]
      BY <1>3, <1>6, <1>8, <2>2 DEF Accts
    <3>2. QED
      BY <2>2, <3>1 DEF Accts
  <2>4. ASSUME NEW a \in Accounts
        PROVE  /\ e[a].nonce = acct[a].nonce
               /\ e[a].bal + (IF from = a THEN value ELSE 0) = acct[a].bal + IF to = a THEN value ELSE 0
    <3>1. PICK x, y, z, d : /\ x = e[a].bal /\ y = paid[a].bal /\ z = acct[a].bal
                            /\ d = IF from = a THEN value ELSE 0
      OBVIOUS
    <3>2. y \in Nat /\ z \in Nat /\ d \in Nat /\ y + d = z
      BY <1>3, <1>8, <1>9, <3>1
    <3>3. CASE to = a
      <4>1. x = y + value
        BY <2>3, <3>1, <3>3
      <4>2. x + d = z + value
        BY <1>3, <3>2, <4>1
      <4>3. QED
        BY <1>8, <2>3, <3>1, <3>3, <4>2
    <3>4. CASE to # a
      <4>1. e[a] = paid[a] /\ z + 0 = z
        BY <2>3, <3>2, <3>4
      <4>2. QED
        BY <1>8, <3>1, <3>2, <3>4, <4>1
    <3>5. QED
      BY <3>3, <3>4
  <2>5. QED
    BY <1>1, <2>1, <2>3, <2>4
<1>12. QED
  BY <1>10, <1>11

\* A message that finishes gets back what it did not use.
LEMMA FinishedInv ==
    ASSUME Inv, pending # None, pending' = None, market' = market, start' = start,
           NEW run \in Runs(pending), ApplyFinishes(pending, run)
    PROVE  Inv'
<1>1. /\ market \in Markets /\ pending \in Tx /\ acct \in Accts /\ collector \in Nat /\ block \in Blocks
  BY DEF Inv, TypesOK
<1>2. /\ block.txGas = 0 /\ acct[pending.from].nonce = pending.nonce + 1
      /\ acct[pending.from].bal >= pending.value /\ block.phase = "open" /\ Len(results) < MaxTxs
  BY DEF Inv, PendingOK
<1>3. PICK r, g, n : r = Finished(pending, run) /\ g = GasUsed(pending, run) /\ n = Logs(pending, run)
  OBVIOUS
<1>4. PICK gas, price, from, to, value :
         /\ gas = pending.gas /\ price = PriceAt(market, pending) /\ from = pending.from
         /\ to = pending.to /\ value = pending.value
  OBVIOUS
<1>5. gas \in Nat /\ price \in Nat /\ from \in Accounts /\ value \in Nat
  BY <1>1, <1>4, TxFields, PriceType
<1>6. g \in Nat /\ g <= gas /\ gas * Multiplier < g * Prec + Prec
  BY <1>1, <1>3, <1>4, GasUsedBounds
<1>7. PICK fee, whole, refund : fee = g * price /\ whole = gas * price /\ refund = (gas - g) * price
  OBVIOUS
<1>8. fee \in Nat /\ whole \in Nat /\ refund \in Nat /\ fee + refund = whole
  <2>1. gas - g \in Nat
    BY <1>5, <1>6
  <2>2. fee \in Nat /\ whole \in Nat /\ refund \in Nat
    BY <1>5, <1>6, <1>7, <2>1
  <2>3. refund = whole - fee
    BY <1>5, <1>6, <1>7, Distribute
  <2>4. QED
    BY <2>2, <2>3
<1>9. RefundGas(pending, g) = refund
  BY <1>4, <1>7 DEF RefundGas, EffectivePrice, PriceAt
<1>10. PICK failed \in BOOLEAN : failed = Failed(pending, run)
  BY DEF Failed
<1>11. n \in Nat /\ (n > 0 => ~ failed)
  <2>1. run.logs \in Nat
    BY Constants DEF Runs
  <2>2. QED
    BY <1>3, <1>10, <2>1 DEF Logs
<1>12. PICK c : c = Counted(pending, run)
  OBVIOUS
<1>13. /\ c \in Blocks /\ c.phase = block.phase /\ c.gas = block.gas /\ c.gasWanted = block.gasWanted
       /\ c.logSize = block.logSize + n /\ c.txGas = g
       /\ c.bloom = IF n = 0 THEN block.bloom ELSE block.bloom \cup {Len(results) + 1}
  <2>1. /\ block.txIndex + 1 \in Nat /\ block.logSize + n \in Nat /\ block.txGas + g = g
        /\ block.bloom \in SUBSET (1 .. MaxTxs)
    BY <1>1, <1>2, <1>6, <1>11, BlockFields
  <2>2. Len(results) + 1 \in 1 .. MaxTxs
    <3>1. Len(results) \in Nat
      BY DEF Inv, TypesOK
    <3>2. QED
      BY <1>2, <3>1, Constants
  <2>3. PICK bloom : bloom = IF n = 0 THEN block.bloom ELSE block.bloom \cup {Len(results) + 1}
    OBVIOUS
  <2>4. bloom \in SUBSET (1 .. MaxTxs)
    BY <2>1, <2>2, <2>3
  <2>5. c = [block EXCEPT !.txIndex = block.txIndex + 1, !.logSize = block.logSize + n,
                          !.bloom = bloom, !.txGas = block.txGas + g]
    BY <1>3, <1>12, <2>3 DEF Counted
  <2>6. QED
    BY <1>1, <1>6, <2>1, <2>3, <2>4, <2>5 DEF Blocks
<1>14. /\ block' = [c EXCEPT !.gas = c.gas + g] /\ results' = Append(results, r)
       /\ acct' = [Applied(pending, run) EXCEPT ![from].bal = @ + refund] /\ collector' = collector - refund
  BY <1>3, <1>4, <1>9, <1>12, <1>13 DEF ApplyFinishes
<1>15. /\ block' \in Blocks /\ block'.phase = block.phase /\ block'.gas = block.gas + g
       /\ block'.gasWanted = block.gasWanted /\ block'.logSize = block.logSize + n
       /\ block'.bloom = c.bloom
  <2>1. c.gas + g \in Nat
    BY <1>1, <1>6, <1>13, BlockFields
  <2>2. /\ block' \in Blocks /\ block'.phase = c.phase /\ block'.gas = c.gas + g
        /\ block'.gasWanted = c.gasWanted /\ block'.logSize = c.logSize /\ block'.bloom = c.bloom
    BY <1>13, <1>14, <2>1 DEF Blocks
  <2>3. QED
    BY <1>13, <2>2
<1>16. /\ r \in Result /\ r.tx = pending /\ r.code = "ok" /\ r.failed = failed /\ r.gasUsed = g
       /\ r.logs = n /\ r.firstLog = block.logSize
  <2>1. block.txIndex \in Nat /\ block.logSize \in Nat
    BY <1>1, BlockFields
  <2>2. r = [tx |-> pending, code |-> "ok", failed |-> failed, gasUsed |-> g,
             index |-> block.txIndex, firstLog |-> block.logSize, logs |-> n]
    BY <1>3, <1>10, <1>12, <1>13 DEF Finished
  <2>3. QED
    BY <1>1, <1>6, <1>11, <2>1, <2>2 DEF Result
<1>17. LogsOK'
  BY <1>11, <1>13, <1>14, <1>15, <1>16, LogsMore
<1>18. PICK x : x = Applied(pending, run)
  OBVIOUS
<1>19. /\ x \in Accts
       /\ \A a \in Accounts :
            /\ x[a].nonce = acct[a].nonce
            /\ x[a].bal + (IF from = a /\ ~ failed THEN value ELSE 0)
                  = acct[a].bal + IF to = a /\ ~ failed THEN value ELSE 0
  <2>1. CASE failed
    BY <1>1, <1>10, <1>18, <2>1 DEF Applied
  <2>2. CASE ~ failed
    <3>1. x = Executed(pending)
      BY <1>10, <1>18, <2>2 DEF Applied
    <3>2. QED
      BY <1>1, <1>2, <1>4, <2>2, <3>1, ExecutedMoves
  <2>3. QED
    BY <2>1, <2>2
<1>20. /\ acct' \in Accts
       /\ \A a \in Accounts : /\ acct'[a].nonce = x[a].nonce /\ x[a].bal \in Nat
                              /\ acct'[a].bal = x[a].bal + IF from = a THEN refund ELSE 0
  <2>1. x \in [Accounts -> [nonce: Nat, bal: Nat]]
    BY <1>19 DEF Accts
  <2>2. \A a \in Accounts : x[a].bal \in Nat /\ x[a].nonce \in Nat /\ x[a].bal + 0 = x[a].bal
    BY <2>1
  <2>3. PICK v : v = x[from].bal + refund
    OBVIOUS
  <2>4. v \in Nat /\ acct' = [x EXCEPT ![from].bal = v]
    BY <1>5, <1>8, <1>14, <1>18, <2>2, <2>3
  <2>5. acct' \in Accts /\ acct'[from].nonce = x[from].nonce /\ acct'[from].bal = v
    BY <1>5, <2>1, <2>4 DEF Accts
  <2>6. \A a \in Accounts : a # from => acct'[a] = x[a]
    BY <2>1, <2>4
  <2>7. QED
    BY <2>2, <2>3, <2>5, <2>6
<1>21. FeeAt(market, r) = fee /\ Prepaid(market, pending) = whole
  BY <1>4, <1>7, <1>16 DEF FeeAt, Prepaid
<1>22. Settles(r)
  <2>1. ASSUME NEW a \in Accounts
        PROVE  acct'[a].bal + SpentAt(market, a, r) = acct[a].bal + PrepaidBy(market, pending, a) + Received(a, r)
    <3>1. PICK u, v : /\ u = IF from = a /\ ~ failed THEN value ELSE 0
                      /\ v = IF to = a /\ ~ failed THEN value ELSE 0
      OBVIOUS
    <3>2. u \in Nat /\ v \in Nat
      BY <1>5, <3>1
    <3>3. Received(a, r) = v
      BY <1>4, <1>16, <3>1 DEF Received
    <3>4. SpentAt(market, a, r) = IF from = a THEN fee + u ELSE 0
      BY <1>4, <1>16, <1>21, <3>1 DEF SpentAt
    <3>5. PrepaidBy(market, pending, a) = IF from = a THEN whole ELSE 0
      BY <1>4, <1>21 DEF PrepaidBy
    <3>6. PICK p, q, s : p = acct'[a].bal /\ q = x[a].bal /\ s = acct[a].bal
      OBVIOUS
    <3>7. q \in Nat /\ s \in Nat /\ q + u = s + v /\ p = q + IF from = a THEN refund ELSE 0
      <4>1. s \in Nat
        BY <1>1, <3>6 DEF Accts
      <4>2. QED
        BY <1>19, <1>20, <3>1, <3>6, <4>1
    <3>8. CASE from = a
      <4>1. p = q + refund
        BY <3>7, <3>8
      <4>2. p + (fee + u) = s + whole + v
        BY <1>8, <3>2, <3>7, <4>1
      <4>3. QED
        BY <3>3, <3>4, <3>5, <3>6, <3>8, <4>2
    <3>9. CASE from # a
      <4>1. p = q + 0 /\ u = 0
        BY <3>1, <3>7, <3>9
      <4>2. p + 0 = s + 0 + v
        BY <3>2, <3>7, <4>1
      <4>3. QED
        BY <3>3, <3>4, <3>5, <3>6, <3>9, <4>2
    <3>10. QED
      BY <3>8, <3>9
  <2>2. collector' + Prepaid(market, pending) = collector + FeeAt(market, r)
    <3>1. collector' = collector - refund
      BY <1>14
    <3>2. (collector - refund) + whole = collector + fee
      BY <1>1, <1>8
    <3>3. QED
      BY <1>21, <3>1, <3>2
  <2>3. QED
    BY <1>19, <1>20, <2>1, <2>2 DEF Settles
<1>23. collector' \in Nat
  <2>1. PICK s : s = SumOver(results, Fees(market, results))
    OBVIOUS
  <2>2. s \in Nat
    BY <2>1, SpendsType DEF Inv, TypesOK
  <2>3. collector = s + whole
    BY <1>2, <1>21, <2>1 DEF Inv, BooksOK
  <2>4. (s + whole) - refund \in Nat
    BY <1>8, <2>2
  <2>5. collector' = collector - refund
    BY <1>14
  <2>6. collector' = (s + whole) - refund
    BY <2>3, <2>5, Zenon
  <2>7. QED
    BY <2>4, <2>6
<1>24. TxSucessOrExpectedFailure(r)
  BY <1>16 DEF TxSucessOrExpectedFailure
<1>25. /\ block'.gas <= block.gas + r.gasUsed
       /\ pending.gas * Multiplier < r.gasUsed * Prec + Prec
  <2>1. block.gas + g \in Nat
    BY <1>1, <1>6, BlockFields
  <2>2. QED
    BY <1>4, <1>6, <1>15, <1>16, <2>1
<1>26. QED
  BY <1>14, <1>15, <1>16, <1>17, <1>20, <1>22, <1>23, <1>24, <1>25, ResultInv

\* The execution of a transaction keeps the invariant.
LEMMA ApplyInv ==
    ASSUME Inv, ApplyTransaction
    PROVE  Inv'
<1>1. pending # None /\ pending' = None /\ market' = market /\ start' = start
  BY DEF ApplyTransaction
<1>2. PICK run \in Runs(pending) :
         ApplyFails(pending, run) \/ ApplyExceedsBlock(pending, run) \/ ApplyFinishes(pending, run)
  BY DEF ApplyTransaction
<1>3. pending \in Tx /\ block.txGas = 0 /\ block \in Blocks
  BY <1>1 DEF Inv, TypesOK, PendingOK
<1>4. CASE ApplyFails(pending, run)
  <2>1. PICK k, code : k = pending.gas /\ code = IF block.gas + pending.gas > MaxGas THEN "blockgas" ELSE "commit"
    OBVIOUS
  <2>2. k \in Nat /\ k <= pending.gas /\ code \in {"commit", "blockgas"}
    BY <1>3, <2>1, TxFields
  <2>3. /\ block' = [block EXCEPT !.gas = block.gas + k] /\ results' = Append(results, Dropped(pending, code))
        /\ acct' = acct /\ collector' = collector
    BY <1>4, <2>1 DEF ApplyFails
  <2>4. QED
    BY <1>1, <2>2, <2>3, DroppedInv
<1>5. CASE ApplyExceedsBlock(pending, run)
  <2>1. PICK k : k = GasUsed(pending, run)
    OBVIOUS
  <2>2. k \in Nat /\ k <= pending.gas
    BY <1>3, <2>1, GasUsedBounds
  <2>3. Counted(pending, run).txGas = k
    <3>1. block.txGas + k = k
      BY <1>3, <2>2
    <3>2. Counted(pending, run).txGas = block.txGas + k
      BY <1>3, <2>1 DEF Counted, Blocks
    <3>3. QED
      BY <3>1, <3>2
  <2>4. /\ block' = [block EXCEPT !.gas = block.gas + k]
        /\ results' = Append(results, Dropped(pending, "blockgas")) /\ acct' = acct /\ collector' = collector
    BY <1>5, <2>3 DEF ApplyExceedsBlock
  <2>5. QED
    BY <1>1, <2>2, <2>4, DroppedInv
<1>6. CASE ApplyFinishes(pending, run)
  BY <1>1, <1>6, FinishedInv
<1>7. QED
  BY <1>2, <1>4, <1>5, <1>6

\* What EndBlock stores was paid for.
LEMMA StoredIsPaid ==
    ASSUME NEW w \in Nat, NEW used \in Nat, NEW S \in Nat, NEW C \in Nat, NEW P \in Nat \ {0}, NEW M \in Nat,
           used <= S, w * M <= S * P + C * (P - 1), NEW X, X = Largest(w * M, used * P)
    PROVE  X \div P \in Nat /\ X \div P <= S + Largest(0, C - 1)
<1>1. w * M \in Nat /\ used * P \in Nat /\ used * P <= S * P /\ S * P \in Nat
  BY Monotone
<1>2. X \in Nat
  BY <1>1 DEF Largest
<1>3. PICK q : q = X \div P
  OBVIOUS
<1>4. q \in Nat /\ q * P <= X
  BY <1>2, <1>3, Quotient
<1>5. PICK k : k = Largest(0, C - 1)
  OBVIOUS
<1>6. k \in Nat /\ (C = 0 \/ k + 1 = C)
  BY <1>5 DEF Largest
<1>7. C * (P - 1) < k * P + P /\ C * (P - 1) \in Nat /\ k * P \in Nat
  <2>1. CASE C = 0
    <3>1. C * (P - 1) = 0
      BY <2>1
    <3>2. k * P \in Nat
      BY <1>6
    <3>3. QED
      BY <3>1, <3>2
  <2>2. CASE k + 1 = C
    <3>1. C * (P - 1) = (k + 1) * P - C * 1
      BY <2>2
    <3>2. (k + 1) * P = k * P + 1 * P
      BY <1>6, Distribute
    <3>3. k * P \in Nat /\ C >= 1 /\ P - 1 \in Nat
      BY <1>6, <2>2
    <3>4. C * (P - 1) \in Nat
      BY <3>3
    <3>5. QED
      BY <3>1, <3>2, <3>3, <3>4
  <2>3. QED
    BY <1>6, <2>1, <2>2
<1>8. X <= S * P + C * (P - 1)
  BY <1>1, <1>7 DEF Largest
<1>9. (S + k) * P = S * P + k * P /\ q * P \in Int
  BY <1>4, <1>6, Distribute
<1>10. q * P < (S + k) * P + P
  BY <1>1, <1>2, <1>4, <1>7, <1>8, <1>9
<1>11. S + k \in Int /\ q \in Int
  BY <1>4, <1>6
<1>12. q <= S + k
  BY <1>10, <1>11, Cancel
<1>13. QED
  BY <1>3, <1>4, <1>5, <1>12

\* EndBlock keeps the invariant.
LEMMA EndInv ==
    ASSUME Inv, EndBlock
    PROVE  Inv'
<1>1. TypesOK /\ BooksOK /\ NoncesOK /\ LogsOK /\ GasOK
  BY DEF Inv
<1>2. PICK p \in Proposals \cup {None} :
        /\ market' = [noBaseFee |-> IF p = None THEN market.noBaseFee ELSE p.noBaseFee,
                      enableHeight |-> IF p = None THEN market.enableHeight ELSE p.enableHeight,
                      baseFee |-> IF p = None THEN market.baseFee ELSE p.baseFee,
                      minGasPrice |-> IF p = None THEN market.minGasPrice ELSE p.minGasPrice,
                      gasWanted |-> UpdatedGasWanted(block.gasWanted, Smallest(block.gas, MaxGas))]
        /\ block' = [block EXCEPT !.phase = IF block.gasWanted > MaxInt64 THEN "halted" ELSE "closed"]
  BY DEF EndBlock
<1>3. /\ block.phase = "open" /\ pending = None /\ acct' = acct /\ collector' = collector
      /\ pending' = pending /\ results' = results /\ start' = start
  BY DEF EndBlock
<1>4. PICK phase : phase = IF block.gasWanted > MaxInt64 THEN "halted" ELSE "closed"
  OBVIOUS
<1>5. phase \in {"closed", "halted"} /\ phase # "open"
  BY <1>4
<1>6. /\ block' \in Blocks /\ block'.phase = phase /\ block'.logSize = block.logSize
      /\ block'.bloom = block.bloom
  BY <1>1, <1>2, <1>4, <1>5 DEF TypesOK, Blocks
<1>7. PICK S, C, used, w : /\ S = SumOver(results, GasOf(results)) /\ C = Cardinality(Indexed(results))
                           /\ used = Smallest(block.gas, MaxGas) /\ w = block.gasWanted
  OBVIOUS
<1>8. S \in Nat /\ C \in Nat /\ used \in Nat /\ used <= S /\ w \in Nat
  <2>1. S \in Nat /\ C \in Nat
    BY <1>1, <1>7, GasType, IndexedFinite DEF TypesOK
  <2>2. block.gas \in Nat /\ w \in Nat
    BY <1>1, <1>7, BlockFields DEF TypesOK
  <2>3. block.gas <= S
    BY <1>1, <1>3, <1>7 DEF GasOK
  <2>4. used \in Nat /\ used <= block.gas
    BY <1>7, <2>2, Constants DEF Smallest
  <2>5. QED
    BY <2>1, <2>2, <2>3, <2>4
<1>9. w * Multiplier <= S * Prec + C * (Prec - 1)
  <2>1. Largest(0, w - 0) = w
    BY <1>8 DEF Largest
  <2>2. Paid(w, results)
    BY <1>1, <1>3, <1>7, <2>1, Nobody DEF GasOK
  <2>3. QED
    BY <1>7, <2>2 DEF Paid
<1>10. /\ UpdatedGasWanted(w, used) \in Nat
       /\ UpdatedGasWanted(w, used) <= S + Largest(0, C - 1)
  <2>1. PICK X : X = Largest(w * Multiplier, used * Prec)
    OBVIOUS
  <2>2. X \div Prec \in Nat /\ X \div Prec <= S + Largest(0, C - 1)
    BY <1>8, <1>9, <2>1, Constants, StoredIsPaid
  <2>3. QED
    BY <2>1, <2>2 DEF UpdatedGasWanted
<1>11. market' \in Markets /\ market'.gasWanted = UpdatedGasWanted(w, used)
  <2>1. PICK v : v = UpdatedGasWanted(w, used)
    OBVIOUS
  <2>2. v \in Nat /\ market \in Markets
    BY <1>1, <1>10, <2>1 DEF TypesOK
  <2>3. CASE p = None
    BY <1>2, <1>7, <2>1, <2>2, <2>3 DEF Markets
  <2>4. CASE p # None
    <3>1. p \in Params
      BY <2>4, InputAssumption
    <3>2. QED
      BY <1>2, <1>7, <2>1, <2>2, <2>4, <3>1 DEF Markets, Params
  <2>5. QED
    BY <2>3, <2>4
<1>12. TypesOK' /\ PendingOK'
  BY <1>1, <1>3, <1>6, <1>11 DEF TypesOK, PendingOK
<1>13. BooksOK' /\ NoncesOK' /\ LogsOK'
  <2>1. BooksOK'
    BY <1>5, <1>6 DEF BooksOK
  <2>2. NoncesOK'
    BY <1>1, <1>3 DEF NoncesOK
  <2>3. LogsOK'
    BY <1>1, <1>3, <1>6 DEF LogsOK
  <2>4. QED
    BY <2>1, <2>2, <2>3
<1>14. GasOK'
  BY <1>3, <1>5, <1>6, <1>7, <1>10, <1>11 DEF GasOK
<1>15. QED
  BY <1>12, <1>13, <1>14 DEF Inv

\* The invariant holds at the start.
LEMMA InitInv == Init => Inv
<1> SUFFICES ASSUME Init PROVE Inv
  OBVIOUS
<1>1. PICK p \in Genesis :
        market = [noBaseFee |-> p.noBaseFee, enableHeight |-> p.enableHeight,
                  baseFee |-> p.baseFee, minGasPrice |-> p.minGasPrice, gasWanted |-> 0]
  BY DEF Init
<1>2. /\ collector = 0 /\ pending = None /\ results = << >> /\ start = acct
      /\ block = [height |-> 0, phase |-> "closed", gas |-> 0, gasWanted |-> 0, txIndex |-> 0,
                  logSize |-> 0, bloom |-> {}, txGas |-> 0]
      /\ acct = [a \in Accounts |-> [nonce |-> 0, bal |-> IF a \in Users THEN Funds ELSE 0]]
  BY DEF Init
<1>3. market \in Markets
  <2>1. p \in Params
    BY InputAssumption
  <2>2. QED
    BY <1>1, <2>1 DEF Markets, Params
<1>4. acct \in Accts /\ \A a \in Accounts : acct[a].nonce = 0
  BY <1>2, Constants DEF Accts
<1>5. block \in Blocks
  <2>1. 0 \in 0 .. MaxHeight /\ 0 \in 0 .. Word - 1 /\ {} \in SUBSET (1 .. MaxTxs) /\ 0 \in Nat
    BY Constants
  <2>2. QED
    BY <1>2, <2>1 DEF Blocks
<1>6. TypesOK /\ PendingOK
  BY <1>2, <1>3, <1>4, <1>5, NoResults, Constants DEF TypesOK, PendingOK
<1>7. BooksOK
  BY <1>2 DEF BooksOK
<1>8. NoncesOK
  BY <1>2, <1>4, NoResults DEF NoncesOK, Accounts
<1>9. LogsOK
  <2>1. 1 .. Len(results) = {}
    BY <1>2
  <2>2. QED
    BY <1>2, <2>1, NoResults DEF LogsOK
<1>10. GasOK
  <2>1. market.gasWanted = 0 /\ block.phase = "closed"
    BY <1>1, <1>2
  <2>2. Largest(0, 0 - 1) = 0
    BY DEF Largest
  <2>3. SumOver(results, GasOf(results)) = 0 /\ Cardinality(Indexed(results)) = 0
    BY <1>2, NoResults
  <2>4. QED
    BY <2>1, <2>2, <2>3 DEF GasOK
<1>11. QED
  BY <1>6, <1>7, <1>8, <1>9, <1>10 DEF Inv

\* What is delivered is a transaction.
LEMMA Delivered ==
    ASSUME NEW tx \in [from: Senders, to: Recipients, nonce: 0 .. MaxHeight * MaxTxs,
                       value: Values, gas: Gas, cap: Prices, tip: Prices]
    PROVE  tx \in Tx
<1>1. 0 .. MaxHeight * MaxTxs \subseteq Nat
  BY Constants
<1>2. Senders \subseteq Users /\ Recipients \subseteq Accounts \cup {Create}
  BY ParameterAssumption DEF Accounts
<1>3. QED
  BY <1>1, <1>2 DEF Tx

\* Every step keeps the invariant.
LEMMA StepInv == Inv /\ [Next]_vars => Inv'
<1> SUFFICES ASSUME Inv, [Next]_vars PROVE Inv'
  OBVIOUS
<1>1. CASE BeginBlock
  BY <1>1, BeginInv
<1>2. ASSUME NEW tx \in [from: Senders, to: Recipients, nonce: 0 .. MaxHeight * MaxTxs,
                         value: Values, gas: Gas, cap: Prices, tip: Prices],
             AnteHandle(tx) \/ AnteRejects(tx)
      PROVE  Inv'
  <2>1. tx \in Tx
    BY Delivered
  <2>2. QED
    BY <1>2, <2>1, AnteInv, RejectInv
<1>3. CASE ApplyTransaction
  BY <1>3, ApplyInv
<1>4. CASE EndBlock
  BY <1>4, EndInv
<1>5. CASE Stop \/ UNCHANGED vars
  <2>1. UNCHANGED vars
    BY <1>5 DEF Stop
  <2>2. TypesOK' = TypesOK /\ PendingOK' = PendingOK
    BY <2>1 DEF vars, TypesOK, PendingOK
  <2>3. BooksOK' = BooksOK
    BY <2>1 DEF vars, BooksOK
  <2>4. NoncesOK' = NoncesOK
    BY <2>1 DEF vars, NoncesOK
  <2>5. LogsOK' = LogsOK
    BY <2>1 DEF vars, LogsOK
  <2>6. GasOK' = GasOK
    BY <2>1 DEF vars, GasOK
  <2>7. QED
    BY <2>2, <2>3, <2>4, <2>5, <2>6 DEF Inv
<1>6. QED
  BY <1>1, <1>2, <1>3, <1>4, <1>5 DEF Next

\* The inductive invariant is one.
THEOREM Invariance == Spec => []Inv
  BY InitInv, StepInv, PTL DEF Spec

\* The invariant gives Accounted.
LEMMA InvAccounted == Inv => Accounted
<1> SUFFICES ASSUME Inv PROVE Accounted
  OBVIOUS
<1>1. TypeOK
  BY DEF Inv, TypesOK, TypeOK, Accts, Blocks, Markets
<1>2. ASSUME block.phase = "open", pending = None, NEW a \in Accounts
      PROVE  acct[a].bal = start[a].bal - Total(LAMBDA r : Spent(a, r), results)
                                        + Total(LAMBDA r : Received(a, r), results)
  <2>1. PICK x, y, s, t : /\ x = acct[a].bal /\ y = start[a].bal
                          /\ s = SumOver(results, Spends(market, a, results))
                          /\ t = SumOver(results, Receipts(a, results))
    OBVIOUS
  <2>2. x \in Nat /\ y \in Nat
    BY <2>1 DEF Inv, TypesOK, Accts
  <2>3. s \in Nat /\ t \in Nat
    BY <2>1, SpendsType DEF Inv, TypesOK
  <2>4. x + s + 0 = y + t
    BY <1>2, <2>1, Nobody DEF Inv, BooksOK
  <2>5. x = y - s + t
    BY <2>2, <2>3, <2>4
  <2>6. s = Total(LAMBDA r : Spent(a, r), results) /\ t = Total(LAMBDA r : Received(a, r), results)
    <3>1. results \in Seq(Result) /\ market \in Markets
      BY DEF Inv, TypesOK
    <3>2. s = Total(LAMBDA r : Spent(a, r), results)
      BY <2>1, <3>1, TotalSpends
    <3>3. t = Total(LAMBDA r : Received(a, r), results)
      BY <2>1, <3>1, TotalReceipts
    <3>4. QED
      BY <3>2, <3>3
  <2>7. QED
    BY <2>1, <2>5, <2>6
<1>3. ASSUME block.phase = "open", pending = None
      PROVE  collector = Total(Fee, results)
  <2>1. results \in Seq(Result) /\ market \in Markets
    BY DEF Inv, TypesOK
  <2>2. PICK s : s = SumOver(results, Fees(market, results))
    OBVIOUS
  <2>3. s \in Nat
    BY <2>1, <2>2, SpendsType
  <2>4. collector = s + 0
    BY <1>3, <2>2, Nobody DEF Inv, BooksOK
  <2>5. Total(Fee, results) = s
    BY <2>1, <2>2, TotalFees
  <2>6. QED
    BY <2>3, <2>4, <2>5
<1>4. QED
  BY <1>1, <1>2, <1>3 DEF Accounted, Settled

\* For every chain and every load: no account and not the fee collector is ever
\* overdrawn, and between transactions every balance is what the results of the block's
\* transactions say: the ante handler's deduction and the refund of ApplyTransaction
\* agree whatever fails in between.
THEOREM AlwaysAccounted == Spec => []Accounted
  BY Invariance, InvAccounted, PTL

\* An indexed transaction uses up exactly one nonce of its sender, in every block: the
\* ante handler's increment survives a creation, a failed commit and a full block.
THEOREM NoncesAlwaysCount == Spec => []NonceCounts
<1>1. Inv => NonceCounts
  <2> SUFFICES ASSUME Inv, pending = None, NEW a \in Users
               PROVE  acct[a].nonce = start[a].nonce
                         + Cardinality({i \in Indexed(results) : results[i].tx.from = a})
    BY DEF NonceCounts
  <2>1. acct[a].nonce = start[a].nonce + Cardinality(IndexedOf(a, results)) + 0
    BY DEF Inv, NoncesOK
  <2>2. a \in Accounts /\ start[a].nonce \in Nat /\ Cardinality(IndexedOf(a, results)) \in Nat
    BY IndexedFinite DEF Inv, TypesOK, Accts, Accounts
  <2>3. acct[a].nonce = start[a].nonce + Cardinality(IndexedOf(a, results))
    BY <2>1, <2>2
  <2>4. QED
    BY <2>3 DEF IndexedOf
<1>2. QED
  BY <1>1, Invariance, PTL

\* The message always finds the value: what VerifyAccountBalance sees at the fee cap
\* covers the fee the ante handler takes at the effective price.
THEOREM AlwaysAffordable == Spec => []TransfersAffordable
<1>1. Inv => TransfersAffordable
  BY DEF Inv, PendingOK, TransfersAffordable
<1>2. QED
  BY <1>1, Invariance, PTL

\* While a block's transactions cannot want more gas than an int64 holds, none of them
\* can stop the chain.
Unhalted ==
    /\ block.phase # "halted"
    /\ block.phase = "open" =>
         block.gasWanted <= (Len(results) + IF pending = None THEN 0 ELSE 1) * MaxGas

\* No step halts the chain where the gas of a full block fits MaxInt64.
LEMMA UnhaltedInv ==
    ASSUME MaxTxs * MaxGas <= MaxInt64, Inv, Unhalted, [Next]_vars
    PROVE  Unhalted'
<1>1. PICK n, w : n = Len(results) /\ w = block.gasWanted
  OBVIOUS
<1>2. n \in Nat /\ w \in Nat /\ n <= MaxTxs /\ block \in Blocks
  BY <1>1, BlockFields DEF Inv, TypesOK
<1>3. CASE BeginBlock
  <2>1. block'.phase = "open" /\ block'.gasWanted = 0 /\ results' = << >>
    BY <1>3 DEF BeginBlock
  <2>2. 0 <= 0 * MaxGas /\ 0 <= 1 * MaxGas /\ Len(<< >>) = 0
    BY Constants
  <2>3. QED
    BY <2>1, <2>2 DEF Unhalted
<1>4. ASSUME NEW tx \in [from: Senders, to: Recipients, nonce: 0 .. MaxHeight * MaxTxs,
                         value: Values, gas: Gas, cap: Prices, tip: Prices],
             AnteHandle(tx)
      PROVE  Unhalted'
  <2>1. tx \in Tx /\ tx # None /\ tx.gas \in Nat
    BY Delivered, TxFields
  <2>2. /\ block.phase = "open" /\ pending = None /\ tx.gas <= MaxGas /\ pending' = tx
        /\ results' = results /\ block' = AddTransientGasWanted(ResetTransientGasUsed(block), tx)
    BY <1>4 DEF AnteHandle, CanDeliver, AnteAccepts, WithinBlock
  <2>3. PICK v : v = (w + tx.gas) % Word
    OBVIOUS
  <2>4. block'.phase = "open" /\ block'.gasWanted \in {w, v}
    BY <1>1, <1>2, <2>2, <2>3 DEF AddTransientGasWanted, ResetTransientGasUsed, Blocks
  <2>5. v \in Nat /\ v <= w + tx.gas
    <3>1. PICK y : y = w + tx.gas
      OBVIOUS
    <3>2. y \in Nat
      BY <1>2, <2>1, <3>1
    <3>3. y % Word \in 0 .. Word - 1 /\ y % Word <= y
      BY <3>2, Constants, Remainder
    <3>4. QED
      BY <2>3, <3>1, <3>3
  <2>6. w <= n * MaxGas
    <3>1. w <= (n + 0) * MaxGas
      BY <1>1, <2>2 DEF Unhalted
    <3>2. n + 0 = n
      BY <1>2
    <3>3. QED
      BY <3>1, <3>2
  <2>7. (n + 1) * MaxGas = n * MaxGas + 1 * MaxGas /\ n * MaxGas \in Int /\ MaxGas \in Nat
    BY <1>2, Constants, Distribute
  <2>8. w <= (n + 1) * MaxGas /\ v <= (n + 1) * MaxGas
    BY <1>2, <2>1, <2>2, <2>5, <2>6, <2>7
  <2>9. QED
    BY <1>1, <2>1, <2>2, <2>4, <2>8 DEF Unhalted
<1>5. ASSUME NEW tx, AnteRejects(tx)
      PROVE  Unhalted'
  <2>1. block.phase = "open" /\ pending = None /\ pending' = pending /\ block' = block
    BY <1>5 DEF AnteRejects, CanDeliver
  <2>2. Len(results') = n + 1
    BY <1>1, <1>5, RejectedType DEF AnteRejects, Inv, TypesOK
  <2>3. w <= (n + 0) * MaxGas
    BY <1>1, <2>1 DEF Unhalted
  <2>4. (n + 0) * MaxGas <= ((n + 1) + 0) * MaxGas
    BY <1>2, Constants, Monotone
  <2>5. (n + 0) * MaxGas \in Int /\ ((n + 1) + 0) * MaxGas \in Int
    BY <1>2, Constants
  <2>6. w <= ((n + 1) + 0) * MaxGas
    BY <1>2, <2>3, <2>4, <2>5
  <2>7. QED
    BY <1>1, <2>1, <2>2, <2>6 DEF Unhalted
<1>6. CASE ApplyTransaction
  <2>1. pending # None /\ pending' = None /\ block.phase = "open"
    BY <1>6 DEF ApplyTransaction, Inv, PendingOK
  <2>2. PICK run \in Runs(pending) :
          ApplyFails(pending, run) \/ ApplyExceedsBlock(pending, run) \/ ApplyFinishes(pending, run)
    BY <1>6 DEF ApplyTransaction
  <2>3. block'.phase = block.phase /\ block'.gasWanted = w
    BY <1>1, <1>2, <2>2 DEF ApplyFails, ApplyExceedsBlock, ApplyFinishes, Counted, Blocks
  <2>4. Len(results') = n + 1
    <3>1. results \in Seq(Result) /\ results' \in Seq(Result)
      BY <1>6, ApplyInv DEF Inv, TypesOK
    <3>2. \E r : results' = Append(results, r)
      BY <2>2 DEF ApplyFails, ApplyExceedsBlock, ApplyFinishes
    <3>3. QED
      BY <1>1, <3>1, <3>2
  <2>5. w <= (n + 1) * MaxGas
    BY <1>1, <2>1 DEF Unhalted
  <2>6. (n + 1) + 0 = n + 1
    BY <1>2
  <2>7. QED
    BY <2>1, <2>3, <2>4, <2>5, <2>6 DEF Unhalted
<1>7. CASE EndBlock
  <2>1. block.phase = "open" /\ pending = None
    BY <1>7 DEF EndBlock
  <2>2. w <= (n + 0) * MaxGas
    BY <1>1, <2>1 DEF Unhalted
  <2>3. n * MaxGas <= MaxTxs * MaxGas /\ n * MaxGas \in Nat /\ MaxTxs * MaxGas \in Nat
    <3>1. MaxGas \in Nat /\ MaxTxs \in Nat
      BY Constants
    <3>2. QED
      BY <1>2, <3>1, Monotone
  <2>4. n + 0 = n
    BY <1>2
  <2>5. ~ (w > MaxInt64)
    BY <1>2, <2>2, <2>3, <2>4, Constants
  <2>6. block'.phase = "closed"
    BY <1>1, <1>2, <1>7, <2>5 DEF EndBlock, Blocks
  <2>7. QED
    BY <2>6 DEF Unhalted
<1>8. CASE Stop \/ UNCHANGED vars
  BY <1>8 DEF Stop, vars, Unhalted
<1>9. QED
  BY <1>3, <1>4, <1>5, <1>6, <1>7, <1>8 DEF Next

\* The gas that moves the base fee was paid for, on every chain; and if all the
\* transactions of a block together cannot want more gas than an int64 holds, EndBlock
\* of x/feemarket never fails.
THEOREM GasWantedAlwaysSound == MaxTxs * MaxGas <= MaxInt64 /\ Spec => []GasWantedSound
<1> SUFFICES ASSUME MaxTxs * MaxGas <= MaxInt64 PROVE Spec => []GasWantedSound
  OBVIOUS
<1>1. Init => Unhalted
  BY DEF Init, Unhalted
<1>2. Inv /\ Unhalted => GasWantedSound
  <2> SUFFICES ASSUME Inv, Unhalted PROVE GasWantedSound
    OBVIOUS
  <2>1. results \in Seq(Result) /\ market \in Markets
    BY DEF Inv, TypesOK
  <2>2. Total(LAMBDA r : r.gasUsed, results) = SumOver(results, GasOf(results))
    BY <2>1, TotalGas
  <2>3. ChargedCovers
    BY <2>2 DEF ChargedCovers, Inv, GasOK
  <2>4. NeverHalted
    BY DEF NeverHalted, Unhalted
  <2>5. QED
    BY <2>3, <2>4 DEF GasWantedSound
<1>3. Inv /\ Unhalted /\ [Next]_vars => Unhalted'
  BY UnhaltedInv
<1>4. QED
  BY <1>1, <1>2, <1>3, Invariance, PTL DEF Spec

(***************************************************************************)
(* The numbers of transactions and logs.                                   *)
(***************************************************************************)
NoneDropped(rs, n) == \A j \in 1 .. n : rs[j].code # "commit"

\* The chain's count and the indexer's, until a message is dropped.
CountOK ==
    /\ pending # None => block.gas < MaxGas
    /\ block.phase = "open" /\ block.gas <= MaxGas /\ NoneDropped(results, Len(results)) =>
         block.txIndex = Cardinality(Indexed(results))

\* A result more leaves the indexes of the others alone, and gets the next one.
LEMMA IndexAppend ==
    ASSUME NEW rs, rs \in Seq(Result), NEW r \in Result, NEW ss, ss = Append(rs, r)
    PROVE  /\ \A i \in Indexed(rs) : IndexBlock(ss)[i] = IndexBlock(rs)[i]
           /\ Len(ss) \in Indexed(ss) => IndexBlock(ss)[Len(ss)] = Cardinality(Indexed(rs))
<1>1. PICK n : n = Len(rs)
  OBVIOUS
<1>2. n \in Nat /\ Len(ss) = n + 1 /\ Indexed(rs) \subseteq 1 .. n /\ Indexed(ss) \subseteq 1 .. n + 1
  BY <1>1 DEF Indexed
<1>3. \A i \in 1 .. n : i \in Indexed(rs) <=> i \in Indexed(ss)
  <2>1. \A i \in 1 .. n : ss[i] = rs[i] /\ i \in 1 .. Len(rs) /\ i \in 1 .. Len(ss)
    BY <1>1, <1>2
  <2>2. QED
    BY <2>1 DEF Indexed
<1>4. ASSUME NEW i \in Indexed(rs)
      PROVE  IndexBlock(ss)[i] = IndexBlock(rs)[i]
  <2>1. i \in 1 .. n /\ i \in Indexed(ss)
    BY <1>2, <1>3
  <2>2. {j \in Indexed(ss) : j < i} = {j \in Indexed(rs) : j < i}
    <3>1. \A j \in 1 .. n + 1 : j < i => j \in 1 .. n
      BY <1>2, <2>1
    <3>2. \A j : j \in Indexed(ss) => j \in 1 .. n + 1
      BY <1>2
    <3>3. \A j : j \in Indexed(rs) => j \in 1 .. n
      BY <1>2
    <3>4. QED
      BY <1>3, <3>1, <3>2, <3>3
  <2>3. QED
    BY <2>1, <2>2 DEF IndexBlock
<1>5. ASSUME n + 1 \in Indexed(ss)
      PROVE  IndexBlock(ss)[n + 1] = Cardinality(Indexed(rs))
  <2>1. {j \in Indexed(ss) : j < n + 1} = Indexed(rs)
    <3>1. \A j \in 1 .. n + 1 : j < n + 1 <=> j \in 1 .. n
      BY <1>2
    <3>2. \A j : j \in Indexed(ss) => j \in 1 .. n + 1
      BY <1>2
    <3>3. \A j : j \in Indexed(rs) => j \in 1 .. n /\ j \in 1 .. n + 1
      BY <1>2
    <3>4. QED
      BY <1>3, <3>1, <3>2, <3>3
  <2>2. QED
    BY <1>5, <2>1 DEF IndexBlock
<1>6. QED
  BY <1>2, <1>4, <1>5

\* A result of the block keeps the numbers alike if its own is right.
LEMMA MatchAppend ==
    ASSUME results \in Seq(Result), IndexMatches, NEW r \in Result, results' = Append(results, r),
           r.code = "ok" /\ NoneDropped(results, Len(results)) => r.index = Cardinality(Indexed(results))
    PROVE  IndexMatches'
<1>1. PICK ss, n : ss = results' /\ n = Len(results)
  OBVIOUS
<1>2. /\ n \in Nat /\ Len(ss) = n + 1 /\ ss = Append(results, r) /\ ss[n + 1] = r
      /\ \A i \in 1 .. n : ss[i] = results[i]
  BY <1>1
<1>3. /\ \A i \in Indexed(results) : IndexBlock(ss)[i] = IndexBlock(results)[i]
      /\ Len(ss) \in Indexed(ss) => IndexBlock(ss)[Len(ss)] = Cardinality(Indexed(results))
  BY <1>2, IndexAppend
<1>4. ASSUME NEW i \in Indexed(ss), ss[i].code = "ok", \A j \in 1 .. i : ss[j].code # "commit"
      PROVE  ss[i].index = IndexBlock(ss)[i]
  <2>1. i \in 1 .. n + 1
    BY <1>2, <1>4 DEF Indexed
  <2>2. CASE i = n + 1
    <3>1. NoneDropped(results, n)
      <4> SUFFICES ASSUME NEW j \in 1 .. n PROVE results[j].code # "commit"
        BY DEF NoneDropped
      <4>1. j \in 1 .. i
        BY <1>2, <2>2
      <4>2. QED
        BY <1>2, <1>4, <4>1
    <3>2. r.code = "ok" /\ ss[i].index = r.index
      BY <1>2, <1>4, <2>2
    <3>3. r.index = Cardinality(Indexed(results))
      BY <1>1, <3>1, <3>2
    <3>4. QED
      BY <1>2, <1>3, <2>2, <3>2, <3>3
  <2>3. CASE i # n + 1
    <3>1. i \in 1 .. n
      BY <1>2, <2>1, <2>3
    <3>2. i \in Indexed(results)
      BY <1>1, <1>2, <1>4, <3>1 DEF Indexed
    <3>3. \A j \in 1 .. i : j \in 1 .. n
      BY <1>2, <3>1
    <3>4. results[i].code = "ok" /\ \A j \in 1 .. i : results[j].code # "commit"
      BY <1>2, <1>4, <3>1, <3>3
    <3>5. results[i].index = IndexBlock(results)[i]
      BY <3>2, <3>4 DEF IndexMatches
    <3>6. QED
      BY <1>2, <1>3, <3>1, <3>2, <3>5
  <2>4. QED
    BY <2>2, <2>3
<1>5. QED
  BY <1>1, <1>4 DEF IndexMatches

\* Nothing was dropped from a block before if nothing is dropped from it now.
LEMMA DroppedStays ==
    ASSUME NEW rs, rs \in Seq(Result), NEW r \in Result, NEW ss, ss = Append(rs, r),
           NoneDropped(ss, Len(ss))
    PROVE  NoneDropped(rs, Len(rs)) /\ r.code # "commit"
<1>1. PICK n : n = Len(rs)
  OBVIOUS
<1>2. /\ n \in Nat /\ Len(ss) = n + 1 /\ ss[n + 1] = r /\ n + 1 \in 1 .. n + 1
      /\ \A j \in 1 .. n : ss[j] = rs[j] /\ j \in 1 .. n + 1
  BY <1>1
<1>3. QED
  BY <1>1, <1>2 DEF NoneDropped

\* Every step keeps the count of the state transition, and the index, in line with the
\* results.
LEMMA CountedInv ==
    ASSUME Inv, CountOK, IndexMatches, [Next]_vars
    PROVE  CountOK' /\ IndexMatches'
<1>1. results \in Seq(Result) /\ block \in Blocks /\ block.gas \in Nat /\ block.txIndex \in Nat
  BY BlockFields DEF Inv, TypesOK
<1>2. CASE BeginBlock
  <2>1. /\ block'.phase = "open" /\ block'.txIndex = 0 /\ results' = << >> /\ pending' = pending
        /\ block.phase = "closed" /\ block'.gas = 0
    BY <1>2 DEF BeginBlock
  <2>2. pending' = None
    BY <2>1 DEF Inv, PendingOK
  <2>3. Indexed(results') = {}
    <3>1. 1 .. Len(results') = {}
      BY <2>1
    <3>2. QED
      BY <3>1 DEF Indexed
  <2>4. CountOK'
    BY <2>1, <2>2, NoResults DEF CountOK
  <2>5. QED
    BY <2>3, <2>4 DEF IndexMatches
<1>3. ASSUME NEW tx, AnteHandle(tx)
      PROVE  CountOK' /\ IndexMatches'
  <2>1. /\ block.gas < MaxGas /\ results' = results /\ block.phase = "open"
        /\ block' = AddTransientGasWanted(ResetTransientGasUsed(block), tx)
    BY <1>3 DEF AnteHandle, CanDeliver, GasLeft
  <2>2. block'.gas = block.gas /\ block'.txIndex = block.txIndex
    BY <1>1, <2>1 DEF AddTransientGasWanted, ResetTransientGasUsed, Blocks
  <2>3. QED
    BY <2>1, <2>2 DEF CountOK, IndexMatches
<1>4. ASSUME NEW tx, AnteRejects(tx)
      PROVE  CountOK' /\ IndexMatches'
  <2>1. PICK r : r = Rejected
    OBVIOUS
  <2>2. r \in Result /\ r.code = "ante"
    BY <2>1, RejectedType DEF Rejected
  <2>3. results' = Append(results, r) /\ block' = block /\ pending' = None
    BY <1>4, <2>1 DEF AnteRejects, CanDeliver
  <2>4. IndexMatches'
    BY <1>1, <2>2, <2>3, MatchAppend
  <2>5. PICK ss : ss = results'
    OBVIOUS
  <2>6. NoneDropped(ss, Len(ss)) => NoneDropped(results, Len(results))
    BY <1>1, <2>2, <2>3, <2>5, DroppedStays
  <2>7. Cardinality(Indexed(ss)) = Cardinality(Indexed(results))
    <3>1. ~ TxSucessOrExpectedFailure(r)
      BY <2>2 DEF TxSucessOrExpectedFailure
    <3>2. Cardinality(Indexed(ss)) = Cardinality(Indexed(results)) + 0
      BY <1>1, <2>2, <2>3, <2>5, <3>1, IndexedAppend
    <3>3. Cardinality(Indexed(results)) \in Nat
      BY <1>1, IndexedFinite
    <3>4. QED
      BY <3>2, <3>3
  <2>8. QED
    BY <2>3, <2>4, <2>5, <2>6, <2>7 DEF CountOK
<1>5. CASE ApplyTransaction
  <2>1. pending # None /\ pending' = None /\ pending \in Tx /\ block.phase = "open" /\ block.gas < MaxGas
        /\ block.txGas = 0
    BY <1>5 DEF ApplyTransaction, Inv, TypesOK, PendingOK, CountOK
  <2>2. NoneDropped(results, Len(results)) => block.txIndex = Cardinality(Indexed(results))
    BY <1>1, <2>1, Constants DEF CountOK
  <2>3. PICK run \in Runs(pending) :
          ApplyFails(pending, run) \/ ApplyExceedsBlock(pending, run) \/ ApplyFinishes(pending, run)
    BY <1>5 DEF ApplyTransaction
  <2>4. PICK g : g = GasUsed(pending, run)
    OBVIOUS
  <2>5. g \in Nat /\ pending.gas \in Nat
    BY <2>1, <2>4, GasUsedBounds, TxFields
  <2>6. results' \in Seq(Result)
    BY <1>5, ApplyInv DEF Inv, TypesOK
  <2>7. ASSUME NEW code \in {"commit", "blockgas"}, results' = Append(results, Dropped(pending, code)),
               code = "commit" \/ block'.gas > MaxGas, block'.gas \in Nat
        PROVE  CountOK' /\ IndexMatches'
    <3>1. PICK r, ss : r = Dropped(pending, code) /\ ss = results'
      OBVIOUS
    <3>2. r.code = code /\ r \in Result
      <4>1. r.code = code
        BY <3>1 DEF Dropped
      <4>2. r = ss[Len(ss)] /\ Len(ss) \in 1 .. Len(ss)
        BY <1>1, <2>7, <3>1
      <4>3. QED
        BY <2>6, <3>1, <4>1, <4>2
    <3>3. IndexMatches'
      BY <1>1, <2>7, <3>1, <3>2, MatchAppend
    <3>4. NoneDropped(ss, Len(ss)) => block'.gas > MaxGas
      BY <1>1, <2>7, <3>1, <3>2, DroppedStays
    <3>5. ~ (block'.gas > MaxGas /\ block'.gas <= MaxGas)
      BY <2>7, Constants
    <3>6. QED
      BY <2>1, <3>1, <3>3, <3>4, <3>5 DEF CountOK
  <2>8. CASE ApplyFails(pending, run)
    <3>1. PICK gas, code : gas = block.gas + pending.gas /\ code = IF gas > MaxGas THEN "blockgas" ELSE "commit"
      OBVIOUS
    <3>2. block' = [block EXCEPT !.gas = gas] /\ results' = Append(results, Dropped(pending, code))
      BY <2>8, <3>1 DEF ApplyFails
    <3>3. block'.gas = gas /\ gas \in Nat
      BY <1>1, <2>5, <3>1, <3>2 DEF Blocks
    <3>4. QED
      BY <2>7, <3>1, <3>2, <3>3
  <2>9. Counted(pending, run).txGas = g /\ Counted(pending, run).gas = block.gas
        /\ Counted(pending, run).txIndex = block.txIndex + 1
    <3>1. block.txGas + g = g
      BY <2>1, <2>5
    <3>2. Counted(pending, run).txGas = block.txGas + g
      BY <1>1, <2>4 DEF Counted, Blocks
    <3>3. QED
      BY <1>1, <3>1, <3>2 DEF Counted, Blocks
  <2>10. CASE ApplyExceedsBlock(pending, run)
    <3>1. /\ block' = [block EXCEPT !.gas = block.gas + g] /\ block.gas + g > MaxGas
          /\ results' = Append(results, Dropped(pending, "blockgas"))
      BY <2>9, <2>10 DEF ApplyExceedsBlock
    <3>2. block'.gas = block.gas + g /\ block.gas + g \in Nat
      BY <1>1, <2>5, <3>1 DEF Blocks
    <3>3. QED
      BY <2>7, <3>1, <3>2
  <2>11. CASE ApplyFinishes(pending, run)
    <3>1. PICK r, ss : r = Finished(pending, run) /\ ss = results'
      OBVIOUS
    <3>2. results' = Append(results, r)
      BY <2>11, <3>1 DEF ApplyFinishes
    <3>3. r.code = "ok" /\ r.index = block.txIndex /\ r \in Result
      <4>1. r.code = "ok" /\ r.index = block.txIndex
        BY <3>1 DEF Finished
      <4>2. r = ss[Len(ss)] /\ Len(ss) \in 1 .. Len(ss)
        BY <1>1, <3>1, <3>2
      <4>3. QED
        BY <2>6, <3>1, <4>1, <4>2
    <3>4. IndexMatches'
      BY <1>1, <2>2, <3>2, <3>3, MatchAppend
    <3>5. block'.txIndex = block.txIndex + 1
      BY <1>1, <2>9, <2>11 DEF ApplyFinishes, Counted, Blocks
    <3>6. Cardinality(Indexed(ss)) = Cardinality(Indexed(results)) + 1
      <4>1. TxSucessOrExpectedFailure(r)
        BY <3>3 DEF TxSucessOrExpectedFailure
      <4>2. QED
        BY <1>1, <3>1, <3>2, <3>3, <4>1, IndexedAppend
    <3>7. NoneDropped(ss, Len(ss)) => NoneDropped(results, Len(results))
      BY <1>1, <3>1, <3>2, <3>3, DroppedStays
    <3>8. NoneDropped(ss, Len(ss)) => block'.txIndex = Cardinality(Indexed(ss))
      BY <2>2, <3>5, <3>6, <3>7
    <3>9. QED
      BY <2>1, <3>1, <3>4, <3>8 DEF CountOK
  <2>12. QED
    BY <2>3, <2>8, <2>10, <2>11
<1>6. CASE EndBlock
  <2>1. results' = results /\ pending' = None
    BY <1>6 DEF EndBlock
  <2>2. block'.phase # "open"
    BY <1>1, <1>6 DEF EndBlock, Blocks
  <2>3. QED
    BY <2>1, <2>2 DEF CountOK, IndexMatches
<1>7. CASE Stop \/ UNCHANGED vars
  <2>1. results' = results /\ block' = block /\ pending' = pending
    BY <1>7 DEF Stop, vars
  <2>2. QED
    BY <2>1 DEF CountOK, IndexMatches
<1>8. QED
  BY <1>2, <1>3, <1>4, <1>5, <1>6, <1>7 DEF Next

\* Logs are numbered without gaps or overlaps.
LEMMA InvLogs == Inv => LogsContiguous
<1> SUFFICES ASSUME Inv PROVE LogsContiguous
  OBVIOUS
<1>1. results \in Seq(Result) /\ market \in Markets /\ Len(results) \in Nat
  BY DEF Inv, TypesOK
<1>2. ASSUME NEW i \in 1 .. Len(results), results[i].logs > 0
      PROVE  ~ results[i].failed /\ results[i].firstLog = Total(LAMBDA r : r.logs, SubSeq(results, 1, i - 1))
  <2>1. PICK rs, k, f, g : /\ rs = SubSeq(results, 1, i - 1) /\ k = i - 1
                           /\ f = LogsOf(results) /\ g = LogsOf(rs)
    OBVIOUS
  <2>2. k \in 0 .. Len(results) /\ k \in Nat
    BY <1>1, <2>1
  <2>3. /\ rs \in Seq(Result) /\ Len(rs) = k /\ \A j \in 1 .. k : rs[j] = results[j]
    BY <1>1, <2>1, <2>2
  <2>4. \A j \in 1 .. k : f[j] = g[j]
    <3>1. \A j \in 1 .. k : j \in 1 .. Len(results) /\ j \in 1 .. Len(rs)
      BY <1>1, <2>2, <2>3
    <3>2. QED
      BY <2>1, <2>3, <3>1 DEF LogsOf
  <2>5. SumOn(1 .. k, f) = SumOn(1 .. k, g)
    <3>1. PICK S : S = 1 .. k
      OBVIOUS
    <3>2. \A j \in S : f[j] = g[j]
      BY <2>4, <3>1
    <3>3. SumOn(S, f) = SumOn(S, g)
      BY <3>2, SumOnEqual
    <3>4. QED
      BY <3>1, <3>3
  <2>6. Total(LAMBDA r : r.logs, rs) = SumOn(1 .. k, g)
    BY <1>1, <2>1, <2>3, TotalLogs DEF SumOver
  <2>7. ~ results[i].failed /\ results[i].firstLog = SumOn(1 .. k, f)
    BY <1>2, <2>1 DEF Inv, LogsOK
  <2>8. QED
    BY <2>1, <2>5, <2>6, <2>7
<1>3. block.bloom = {i \in 1 .. Len(results) : results[i].logs > 0}
  BY DEF Inv, LogsOK
<1>4. QED
  BY <1>2, <1>3 DEF LogsContiguous

\* Logs and transactions have the same numbers in the chain's events, in the bloom
\* filter and in the index, whatever hooks add, fail or drop: until a message of the
\* block fails to commit, the transient index and the indexer's count agree.
THEOREM AlwaysNumberedAlike == Spec => []NumberedAlike
<1>1. Init => CountOK /\ IndexMatches
  <2> SUFFICES ASSUME Init PROVE CountOK /\ IndexMatches
    OBVIOUS
  <2>1. pending = None /\ block.phase = "closed" /\ results = << >>
    BY DEF Init
  <2>2. 1 .. Len(results) = {}
    BY <2>1
  <2>3. QED
    BY <2>1, <2>2 DEF CountOK, IndexMatches, Indexed
<1>2. Inv /\ CountOK /\ IndexMatches /\ [Next]_vars => CountOK' /\ IndexMatches'
  BY CountedInv
<1>3. Inv /\ IndexMatches => NumberedAlike
  BY InvLogs DEF NumberedAlike
<1>4. QED
  BY <1>1, <1>2, <1>3, Invariance, PTL DEF Spec
=============================================================================
