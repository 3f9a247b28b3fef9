------------------------- MODULE PreciseBankProofs -------------------------
(***************************************************************************)
(* Proofs about PreciseBank for every set of accounts, every conversion    *)
(* factor and every bound.                                                 *)
(***************************************************************************)
EXTENDS PreciseBank, FiniteSetTheorems, TLAPS

(***************************************************************************)
(* The sum over all accounts.  It is a cardinality, so what an update does *)
(* to it follows from how the cells split into columns.                    *)
(***************************************************************************)
Others(f, a) == {p \in Cells(f) : p[1] # a}

\* A column of height n has n cells.
LEMMA ColumnCardinality ==
    ASSUME NEW a, NEW n \in Nat
    PROVE  IsFiniteSet(Column(a, n)) /\ Cardinality(Column(a, n)) = n
<1>1. IsFiniteSet(0 .. n - 1) /\ Cardinality(0 .. n - 1) = n
  BY FS_Interval
<1>2. IsFiniteSet({a}) /\ Cardinality({a}) = 1
  BY FS_Singleton
<1>3. QED
  BY <1>1, <1>2, FS_Product DEF Column

\* The cells of a function are finitely many, so the sum is a number.
LEMMA CellsFinite ==
    ASSUME NEW f \in [Addr -> Nat]
    PROVE  IsFiniteSet(Cells(f)) /\ SumOf(f) \in Nat
<1> DEFINE columns == {Column(a, f[a]) : a \in Addr}
           g == [a \in Addr |-> Column(a, f[a])]
<1>1. g \in Surjection(Addr, columns)
  BY DEF Surjection
<1>2. IsFiniteSet(columns)
  BY <1>1, FS_Surjection, AddrAssumption
<1>3. \A c \in columns : IsFiniteSet(c)
  BY ColumnCardinality
<1>4. IsFiniteSet(Cells(f))
  BY <1>2, <1>3, FS_UNION DEF Cells
<1>5. QED
  BY <1>4, FS_CardinalityType DEF SumOf

\* The sum is the value at one account plus the cells of the other accounts.
LEMMA SumSplit ==
    ASSUME NEW f \in [Addr -> Nat], NEW a \in Addr
    PROVE  /\ Cardinality(Others(f, a)) \in Nat
           /\ SumOf(f) = Cardinality(Others(f, a)) + f[a]
<1>1. Cells(f) = Others(f, a) \cup Column(a, f[a])
  <2>1. ASSUME NEW p \in Cells(f), p[1] = a PROVE p \in Column(a, f[a])
    BY <2>1 DEF Cells, Column
  <2>2. Column(a, f[a]) \subseteq Cells(f)
    BY DEF Cells
  <2>3. QED
    BY <2>1, <2>2 DEF Others
<1>2. Others(f, a) \cap Column(a, f[a]) = {}
  BY DEF Others, Column
<1>3. IsFiniteSet(Others(f, a))
  BY CellsFinite, FS_Subset DEF Others
<1>4. Cardinality(Others(f, a)) \in Nat
  BY <1>3, FS_CardinalityType
<1>5. IsFiniteSet(Column(a, f[a])) /\ Cardinality(Column(a, f[a])) = f[a]
  BY ColumnCardinality
<1>6. Cardinality(Cells(f)) = Cardinality(Others(f, a)) + Cardinality(Column(a, f[a]))
                                - Cardinality(Others(f, a) \cap Column(a, f[a]))
  BY <1>1, <1>3, <1>5, FS_Union
<1>7. Cardinality(Others(f, a) \cap Column(a, f[a])) = 0
  BY <1>2, FS_EmptySet
<1>8. Cardinality(Cells(f)) = Cardinality(Others(f, a)) + f[a]
  BY <1>4, <1>5, <1>6, <1>7
<1>9. QED
  BY <1>4, <1>8 DEF SumOf

\* Two functions that differ at one account have sums that differ as much.
LEMMA SumChange ==
    ASSUME NEW f \in [Addr -> Nat], NEW g \in [Addr -> Nat], NEW a \in Addr,
           \A b \in Addr \ {a} : g[b] = f[b]
    PROVE  SumOf(g) = SumOf(f) - f[a] + g[a]
<1>1. ASSUME NEW p, NEW b \in Addr \ {a}
      PROVE  p \in Column(b, f[b]) <=> p \in Column(b, g[b])
  OBVIOUS
<1>2. ASSUME NEW p, NEW h \in [Addr -> Nat]
      PROVE  p \in Others(h, a) <=> \E b \in Addr \ {a} : p \in Column(b, h[b])
  BY DEF Others, Cells, Column
<1>3. Others(g, a) = Others(f, a)
  <2>1. ASSUME NEW p PROVE p \in Others(g, a) <=> p \in Others(f, a)
    BY <1>1, <1>2
  <2>2. QED
    BY <2>1
<1>4. SumOf(g) = Cardinality(Others(g, a)) + g[a]
  BY SumSplit
<1>5. SumOf(f) = Cardinality(Others(f, a)) + f[a] /\ Cardinality(Others(f, a)) \in Nat
  BY SumSplit
<1>6. QED
  BY <1>3, <1>4, <1>5

\* The sum is at least one value, and at least any two values together.
LEMMA SumBounds ==
    ASSUME NEW f \in [Addr -> Nat], NEW a \in Addr
    PROVE  /\ SumOf(f) >= f[a]
           /\ \A b \in Addr \ {a} : SumOf(f) >= f[a] + f[b]
<1>1. SumOf(f) >= f[a]
  BY SumSplit
<1>2. ASSUME NEW b \in Addr \ {a} PROVE SumOf(f) >= f[a] + f[b]
  <2>1. PICK g \in [Addr -> Nat] : g = [f EXCEPT ![a] = 0]
    OBVIOUS
  <2>2. g[a] = 0 /\ g[b] = f[b] /\ \A c \in Addr \ {a} : g[c] = f[c]
    BY <2>1
  <2>3. SumOf(g) = SumOf(f) - f[a] + g[a]
    BY <2>2, SumChange
  <2>4. SumOf(g) = Cardinality(Others(g, b)) + g[b] /\ Cardinality(Others(g, b)) \in Nat
    BY SumSplit
  <2>5. SumOf(f) \in Nat
    BY CellsFinite
  <2>6. QED
    BY <2>2, <2>3, <2>4, <2>5
<1>3. QED
  BY <1>1, <1>2

(***************************************************************************)
(* Arithmetic.                                                             *)
(***************************************************************************)
\* An extended amount is whole coins and a fraction.
LEMMA DivMod ==
    ASSUME NEW n \in Nat
    PROVE  n \div CF \in Nat /\ n % CF \in Fraction /\ n = (n \div CF) * CF + (n % CF)
  BY ConversionFactorAssumption DEF Fraction

\* The conversion factor distributes over sums and differences.
LEMMA Times ==
    ASSUME NEW x \in Int, NEW y \in Int
    PROVE  x * CF \in Int /\ (x + y) * CF = x * CF + y * CF /\ (x - y) * CF = x * CF - y * CF
  BY ConversionFactorAssumption

(***************************************************************************)
(* The steps the keeper methods are made of.                               *)
(***************************************************************************)
\* A typed ledger in which x/bank's balances add up to its supply.
Sound(s) == s \in Ledger /\ s.supply = SumOf(s.bal)

\* What the fields of a ledger are.
LEMMA LedgerFields ==
    ASSUME NEW s \in Ledger
    PROVE  /\ s.bal \in [Addr -> Nat] /\ s.frac \in [Addr -> Fraction] /\ s.rem \in Fraction
           /\ s.supply \in Nat /\ s.surplus \in Nat
           /\ s.frac \in [Addr -> Nat] /\ Fraction \subseteq Nat
  BY ConversionFactorAssumption DEF Ledger, Fraction

\* Crediting one account.
LEMMA CreditSteps ==
    ASSUME NEW f \in [Addr -> Nat], NEW a \in Addr, NEW n \in Int, f[a] + n >= 0
    PROVE  /\ Credit(f, a, n) \in [Addr -> Nat]
           /\ \A x \in Addr : Credit(f, a, n)[x] = f[x] + (IF x = a THEN n ELSE 0)
           /\ SumOf(Credit(f, a, n)) = SumOf(f) + n
<1>1. PICK g \in [Addr -> Nat] : g = Credit(f, a, n)
  <2>1. Credit(f, a, n) \in [Addr -> Nat]
    BY DEF Credit
  <2>2. QED
    BY <2>1
<1>2. \A x \in Addr : g[x] = f[x] + (IF x = a THEN n ELSE 0)
  BY <1>1 DEF Credit
<1>3. SumOf(g) = SumOf(f) - f[a] + g[a]
  BY <1>2, SumChange
<1>4. SumOf(f) \in Nat
  BY CellsFinite
<1>5. QED
  BY <1>1, <1>2, <1>3, <1>4

\* n whole coins go from one account to another.
Moved(s, t, from, to, n) ==
    /\ Sound(t)
    /\ t.frac = s.frac /\ t.rem = s.rem /\ t.supply = s.supply /\ t.surplus = s.surplus
    /\ \A x \in Addr : t.bal[x] = s.bal[x] - (IF x = from THEN n ELSE 0)
                                            + (IF x = to THEN n ELSE 0)

\* The bank moves what there is, and refuses the rest without a change.
LEMMA BankSendSteps ==
    ASSUME NEW s, Sound(s), NEW from \in Addr, NEW to \in Addr, NEW n \in Nat
    PROVE  /\ s.bal[from] >= n => /\ BankSend(s, from, to, n).res = "ok"
                                  /\ Moved(s, BankSend(s, from, to, n).st, from, to, n)
           /\ s.bal[from] < n => BankSend(s, from, to, n) = Err(s)
<1>1. s \in Ledger /\ s.bal \in [Addr -> Nat] /\ s.supply = SumOf(s.bal) /\ s.supply \in Nat
  BY LedgerFields DEF Sound
<1>2. CASE s.bal[from] >= n
  <2> DEFINE b == Credit(s.bal, from, -n)
             c == Credit(b, to, n)
             t == [s EXCEPT !.bal = c]
  <2>1. BankSend(s, from, to, n) = [st |-> t, res |-> "ok"]
    BY <1>1, <1>2 DEF BankSend, Ok
  <2>2. /\ b \in [Addr -> Nat] /\ SumOf(b) = SumOf(s.bal) + (-n)
        /\ \A x \in Addr : b[x] = s.bal[x] + (IF x = from THEN -n ELSE 0)
    BY <1>1, <1>2, CreditSteps
  <2> HIDE DEF b
  <2>3. /\ c \in [Addr -> Nat] /\ SumOf(c) = SumOf(b) + n
        /\ \A x \in Addr : c[x] = b[x] + (IF x = to THEN n ELSE 0)
    BY <2>2, CreditSteps
  <2>4. \A x \in Addr :
            c[x] = s.bal[x] - (IF x = from THEN n ELSE 0) + (IF x = to THEN n ELSE 0)
    BY <1>1, <2>2, <2>3
  <2> HIDE DEF c
  <2>5. t \in Ledger
    BY <1>1, <2>3 DEF Ledger
  <2>6. /\ t.bal = c
        /\ t.frac = s.frac /\ t.rem = s.rem /\ t.supply = s.supply /\ t.surplus = s.surplus
    BY <1>1 DEF Ledger
  <2>7. SumOf(c) = SumOf(s.bal)
    BY <1>1, <2>2, <2>3
  <2>8. Moved(s, t, from, to, n)
    BY <1>1, <2>4, <2>5, <2>6, <2>7 DEF Moved, Sound
  <2>9. QED
    BY <1>1, <1>2, <2>1, <2>8
<1>3. CASE s.bal[from] < n
  BY <1>1, <1>3 DEF BankSend, Err
<1>4. QED
  BY <1>1, <1>2, <1>3

\* The whole coins of m and the supply of x/bank change by d.
Issued(s, t, m, d) ==
    /\ Sound(t)
    /\ t.frac = s.frac /\ t.rem = s.rem /\ t.surplus = s.surplus
    /\ t.supply = s.supply + d
    /\ \A x \in Addr : t.bal[x] = s.bal[x] + (IF x = m THEN d ELSE 0)

\* A credit and the supply change by the same amount.
LEMMA IssuedSteps ==
    ASSUME NEW s, Sound(s), NEW m \in Addr, NEW d \in Int, s.bal[m] + d >= 0,
           NEW t, t = [s EXCEPT !.bal = Credit(s.bal, m, d), !.supply = s.supply + d]
    PROVE  Issued(s, t, m, d)
<1>1. s \in Ledger /\ s.bal \in [Addr -> Nat] /\ s.supply = SumOf(s.bal) /\ s.supply \in Nat
  BY LedgerFields DEF Sound
<1> DEFINE c == Credit(s.bal, m, d)
           p == s.supply + d
<1>2. /\ c \in [Addr -> Nat] /\ SumOf(c) = p
      /\ \A x \in Addr : c[x] = s.bal[x] + (IF x = m THEN d ELSE 0)
  BY <1>1, CreditSteps
<1>3. p \in Nat
  BY <1>2, CellsFinite
<1> HIDE DEF c
<1>4. /\ t.bal = c /\ t.supply = p
      /\ t.frac = s.frac /\ t.rem = s.rem /\ t.surplus = s.surplus
  BY <1>1 DEF Ledger, c
<1>5. t \in Ledger
  <2>1. t = [s EXCEPT !.bal = c, !.supply = p]
    BY DEF c
  <2> HIDE DEF p
  <2>2. QED
    BY <1>1, <1>2, <1>3, <2>1 DEF Ledger
<1>6. QED
  BY <1>1, <1>2, <1>4, <1>5 DEF Issued, Sound

\* The bank mints.
LEMMA BankMintSteps ==
    ASSUME NEW s, Sound(s), NEW m \in Addr, NEW n \in Nat
    PROVE  BankMint(s, m, n).res = "ok" /\ Issued(s, BankMint(s, m, n).st, m, n)
<1> DEFINE t == [s EXCEPT !.bal = Credit(s.bal, m, n), !.supply = s.supply + n]
<1>1. BankMint(s, m, n) = [st |-> t, res |-> "ok"]
  BY DEF BankMint, Ok
<1>2. n \in Int /\ s.bal[m] + n >= 0
  BY LedgerFields DEF Sound
<1>3. Issued(s, t, m, n)
  BY <1>2, IssuedSteps
<1>4. QED
  BY <1>1, <1>3

\* The bank burns what there is, and refuses the rest without a change.
LEMMA BankBurnSteps ==
    ASSUME NEW s, Sound(s), NEW m \in Addr, NEW n \in Nat
    PROVE  /\ s.bal[m] >= n => /\ BankBurn(s, m, n).res = "ok"
                               /\ Issued(s, BankBurn(s, m, n).st, m, -n)
           /\ s.bal[m] < n => BankBurn(s, m, n) = Err(s)
<1>1. s.bal \in [Addr -> Nat] /\ s.supply \in Nat
  BY LedgerFields DEF Sound
<1>2. CASE s.bal[m] >= n
  <2> DEFINE t == [s EXCEPT !.bal = Credit(s.bal, m, -n), !.supply = s.supply + (-n)]
  <2>1. BankBurn(s, m, n) = [st |-> t, res |-> "ok"]
    <3>1. s.supply - n = s.supply + (-n) /\ ~(s.bal[m] < n)
      BY <1>1, <1>2
    <3>2. QED
      BY <3>1 DEF BankBurn, Ok
  <2>2. -n \in Int /\ s.bal[m] + (-n) >= 0
    BY <1>1, <1>2
  <2>3. Issued(s, t, m, -n)
    BY <2>2, IssuedSteps
  <2>4. QED
    BY <1>1, <1>2, <2>1, <2>3
<1>3. CASE s.bal[m] < n
  BY <1>1, <1>3 DEF BankBurn, Err
<1>4. QED
  BY <1>1, <1>2, <1>3

\* The fraction of a becomes v.
FractionSet(s, t, a, v) ==
    /\ Sound(t)
    /\ t.bal = s.bal /\ t.rem = s.rem /\ t.supply = s.supply /\ t.surplus = s.surplus
    /\ t.frac[a] = v
    /\ \A x \in Addr \ {a} : t.frac[x] = s.frac[x]
    /\ SumOf(t.frac) = SumOf(s.frac) - s.frac[a] + v

\* SetFractionalBalance takes any fraction.
LEMMA SetFractionSteps ==
    ASSUME NEW s, Sound(s), NEW a \in Addr, NEW v \in Fraction
    PROVE  /\ SetFractionalBalance(s, a, v).res = "ok"
           /\ FractionSet(s, SetFractionalBalance(s, a, v).st, a, v)
<1> DEFINE f == [s.frac EXCEPT ![a] = v]
           t == [s EXCEPT !.frac = f]
<1>1. SetFractionalBalance(s, a, v) = [st |-> t, res |-> "ok"]
  BY DEF SetFractionalBalance, Ok
<1>2. s \in Ledger /\ s.frac \in [Addr -> Fraction] /\ s.frac \in [Addr -> Nat]
      /\ Fraction \subseteq Nat
  BY LedgerFields DEF Sound
<1>3. f \in [Addr -> Fraction] /\ f[a] = v /\ \A x \in Addr \ {a} : f[x] = s.frac[x]
  BY <1>2
<1> HIDE DEF f
<1>4. SumOf(f) = SumOf(s.frac) - s.frac[a] + v
  <2>1. f \in [Addr -> Nat]
    BY <1>2, <1>3
  <2>2. QED
    BY <1>2, <1>3, <2>1, SumChange
<1>5. /\ t.frac = f
      /\ t.bal = s.bal /\ t.rem = s.rem /\ t.supply = s.supply /\ t.surplus = s.surplus
  BY <1>2 DEF Ledger
<1>6. t \in Ledger
  BY <1>2, <1>3 DEF Ledger
<1>7. FractionSet(s, t, a, v)
  BY <1>3, <1>4, <1>5, <1>6 DEF FractionSet, Sound
<1>8. QED
  BY <1>1, <1>7

\* The remainder becomes v.
RemainderSet(s, t, v) ==
    /\ Sound(t)
    /\ t.rem = v
    /\ t.bal = s.bal /\ t.frac = s.frac /\ t.supply = s.supply /\ t.surplus = s.surplus

\* SetRemainderAmount takes any fraction.
LEMMA SetRemainderSteps ==
    ASSUME NEW s, Sound(s), NEW v \in Fraction
    PROVE  /\ SetRemainderAmount(s, v).res = "ok"
           /\ RemainderSet(s, SetRemainderAmount(s, v).st, v)
<1> DEFINE t == [s EXCEPT !.rem = v]
<1>1. SetRemainderAmount(s, v) = [st |-> t, res |-> "ok"]
  BY DEF SetRemainderAmount, Ok
<1>2. /\ t \in Ledger /\ t.rem = v
      /\ t.bal = s.bal /\ t.frac = s.frac /\ t.supply = s.supply /\ t.surplus = s.surplus
  BY DEF Ledger, Sound
<1>3. RemainderSet(s, t, v)
  BY <1>2 DEF RemainderSet, Sound
<1>4. QED
  BY <1>1, <1>3

(***************************************************************************)
(* Mint, burn and send of extended coins keep the reserve in step and      *)
(* change extended balances by exactly the amount.                         *)
(***************************************************************************)
Worth(s, x) == s.bal[x] * CF + s.frac[x]

\* The ledger a call may leave to the next one.
Good(s) == Sound(s) /\ Backed(s)

\* t is s with d more extended units on account x and in circulation.
Adjusted(s, t, x, d) ==
    /\ Good(t)
    /\ Worth(t, x) = Worth(s, x) + d
    /\ \A y \in Holders \ {x} : t.bal[y] = s.bal[y] /\ t.frac[y] = s.frac[y]
    /\ ExtendedSupply(t) = ExtendedSupply(s) + d

\* The reserve gains k coins and the fractions with the remainder as much.
LEMMA BackedStep ==
    ASSUME NEW s, Good(s), NEW t, Sound(t), NEW k \in Int,
           t.surplus = s.surplus,
           t.bal[Reserve] = s.bal[Reserve] + k,
           SumOf(t.frac) + t.rem = SumOf(s.frac) + s.rem + k * CF
    PROVE  Good(t)
<1>1. /\ s.bal[Reserve] \in Int /\ SumOf(s.frac) \in Int /\ SumOf(t.frac) \in Int
      /\ s.rem \in Int /\ t.rem \in Int /\ s.surplus \in Int /\ CF \in Int
  BY LedgerFields, CellsFinite, AddrAssumption, ConversionFactorAssumption DEF Good, Sound
<1>2. SumOf(s.frac) + s.rem + s.surplus * CF = s.bal[Reserve] * CF
  BY DEF Good, Backed
<1>3. t.bal[Reserve] * CF = s.bal[Reserve] * CF + k * CF
  BY <1>1, Times
<1> DEFINE u == s.surplus * CF
           v == s.bal[Reserve] * CF
           w == k * CF
<1>4. u \in Int /\ v \in Int /\ w \in Int
  BY <1>1
<1>5. SumOf(t.frac) + t.rem + u = v + w
  <2>1. SumOf(s.frac) + s.rem + u = v /\ SumOf(t.frac) + t.rem = SumOf(s.frac) + s.rem + w
    BY <1>2
  <2> HIDE DEF u, v, w
  <2>2. (SumOf(s.frac) + s.rem + w) + u = (SumOf(s.frac) + s.rem + u) + w
    BY <1>1, <1>4
  <2>3. QED
    BY <2>1, <2>2
<1>6. QED
  BY <1>3, <1>5 DEF Good, Backed

\* x/bank mints j coins and the remainder takes what of them is not x.
LEMMA SupplyStep ==
    ASSUME NEW s, Sound(s), NEW t, Sound(t), NEW j \in Int, NEW x \in Int,
           t.surplus = s.surplus,
           t.supply = s.supply + j,
           t.rem = s.rem + j * CF - x
    PROVE  ExtendedSupply(t) = ExtendedSupply(s) + x
<1>1. s.supply \in Int /\ s.surplus \in Int /\ s.rem \in Int /\ CF \in Int
  BY LedgerFields, ConversionFactorAssumption DEF Sound
<1>2. (t.supply - t.surplus) * CF = (s.supply - s.surplus) * CF + j * CF
  <2>1. t.supply - t.surplus = (s.supply - s.surplus) + j /\ s.supply - s.surplus \in Int
    BY <1>1
  <2>2. QED
    BY <2>1, Times
<1> DEFINE u == (s.supply - s.surplus) * CF
           w == j * CF
<1>3. u \in Int /\ w \in Int
  BY <1>1
<1>4. (u + w) - t.rem = (u - s.rem) + x
  <2>1. t.rem = s.rem + w - x
    OBVIOUS
  <2> HIDE DEF u, w
  <2>2. QED
    BY <1>1, <1>3, <2>1
<1>5. QED
  BY <1>2, <1>4 DEF ExtendedSupply

\* An account gains i coins and in all x extended units.
LEMMA WorthStep ==
    ASSUME NEW s, Sound(s), NEW t, NEW a \in Addr, NEW i \in Int, NEW x \in Int,
           t.bal[a] = s.bal[a] + i,
           t.frac[a] = s.frac[a] + x - i * CF
    PROVE  Worth(t, a) = Worth(s, a) + x
<1>1. s.bal[a] \in Int /\ s.frac[a] \in Int /\ CF \in Int
  BY LedgerFields, ConversionFactorAssumption DEF Sound
<1>2. t.bal[a] * CF = s.bal[a] * CF + i * CF
  BY <1>1, Times
<1> DEFINE u == s.bal[a] * CF
           w == i * CF
<1>3. u \in Int /\ w \in Int
  BY <1>1
<1>4. (u + w) + t.frac[a] = (u + s.frac[a]) + x
  <2>1. t.frac[a] = s.frac[a] + x - w
    OBVIOUS
  <2> HIDE DEF u, w
  <2>2. QED
    BY <1>1, <1>3, <2>1
<1>5. QED
  BY <1>2, <1>4 DEF Worth

\* mintExtendedCoin succeeds, and gives exactly the amount.
LEMMA MintExtended ==
    ASSUME NEW s, Good(s), NEW m \in Holders, NEW amt \in Nat,
           NEW o, o = mintExtendedCoin(s, m, amt)
    PROVE  o.res = "ok" /\ Adjusted(s, o.st, m, amt)
<1> DEFINE fractional == amt % CF
           whole      == amt \div CF
           carries    == s.frac[m] + fractional >= CF
           short      == s.rem < fractional
           extra      == IF carries /\ short THEN 1 ELSE 0
           integer    == whole + extra
           newFrac    == s.frac[m] + fractional - (IF carries THEN CF ELSE 0)
           newRem     == s.rem - fractional + (IF short THEN CF ELSE 0)
           carried    == IF carries /\ ~short THEN BankSend(s, Reserve, m, 1) ELSE Ok(s)
           minted     == BankMint(carried.st, m, integer)
           set        == SetFractionalBalance(minted.st, m, newFrac)
           backed     == IF short /\ ~carries THEN BankMint(set.st, Reserve, 1) ELSE set
           final      == SetRemainderAmount(backed.st, newRem)
           c          == IF carries /\ ~short THEN 1 ELSE 0
           d          == IF short /\ ~carries THEN 1 ELSE 0
<1>1. /\ Sound(s) /\ s \in Ledger /\ m \in Addr /\ Reserve \in Addr /\ m # Reserve
      /\ CF \in Nat /\ CF > 0
  BY AddrAssumption, ConversionFactorAssumption DEF Good, Sound, Holders
<1>2. /\ s.bal \in [Addr -> Nat] /\ s.supply \in Nat /\ s.surplus \in Nat
      /\ s.frac[m] \in Nat /\ s.frac[m] < CF /\ s.rem \in Nat /\ s.rem < CF
  BY <1>1, LedgerFields DEF Fraction
<1>3. /\ whole \in Nat /\ fractional \in Nat /\ fractional < CF
      /\ amt = whole * CF + fractional
  BY <1>1, DivMod DEF Fraction
<1> HIDE DEF fractional, whole
<1>4. newFrac \in Fraction /\ newRem \in Fraction /\ integer \in Nat
  BY <1>1, <1>2, <1>3 DEF Fraction
<1>5. carried.res = "ok" /\ Moved(s, carried.st, Reserve, m, c)
  <2>1. CASE carries /\ ~short
    <3>1. SumOf(s.frac) >= s.frac[m] /\ SumOf(s.frac) \in Nat
      BY <1>1, LedgerFields, SumBounds, CellsFinite
    <3>2. SumOf(s.frac) + s.rem + s.surplus * CF = s.bal[Reserve] * CF
      BY DEF Good, Backed
    <3>3. s.bal[Reserve] \in Nat /\ s.surplus * CF >= 0
      BY <1>1, <1>2
    <3>4. s.bal[Reserve] * CF >= CF
      BY <1>1, <1>2, <1>3, <2>1, <3>1, <3>2, <3>3
    <3>5. s.bal[Reserve] >= 1
      BY <1>1, <3>3, <3>4
    <3>6. QED
      BY <1>1, <2>1, <3>5, BankSendSteps
  <2>2. CASE ~(carries /\ ~short)
    BY <1>1, <1>2, <2>2 DEF Moved, Ok
  <2>3. QED
    BY <2>1, <2>2
<1> HIDE DEF carried
<1>6. minted.res = "ok" /\ Issued(carried.st, minted.st, m, integer)
  BY <1>1, <1>4, <1>5, BankMintSteps DEF Moved
<1> HIDE DEF minted
<1>7. set.res = "ok" /\ FractionSet(minted.st, set.st, m, newFrac)
  BY <1>1, <1>4, <1>6, SetFractionSteps DEF Issued
<1> HIDE DEF set
<1>8. backed.res = "ok" /\ Issued(set.st, backed.st, Reserve, d)
  <2>1. CASE short /\ ~carries
    BY <1>1, <1>7, <2>1, BankMintSteps DEF FractionSet
  <2>2. CASE ~(short /\ ~carries)
    <3>1. set.st.bal \in [Addr -> Nat] /\ set.st.supply \in Nat
      BY <1>7, LedgerFields DEF FractionSet, Sound
    <3>2. QED
      BY <1>7, <2>2, <3>1 DEF Issued, FractionSet
  <2>3. QED
    BY <2>1, <2>2
<1> HIDE DEF backed
<1>9. final.res = "ok" /\ RemainderSet(backed.st, final.st, newRem)
  BY <1>4, <1>8, SetRemainderSteps DEF Issued
<1> HIDE DEF final
<1>10. o = final
  BY <1>5, <1>7, Zenon DEF mintExtendedCoin, final, backed, set, minted, carried, fractional, whole
<1> DEFINE t == o.st
<1>11. /\ Sound(t) /\ t.rem = newRem /\ t.surplus = s.surplus
       /\ t.supply = s.supply + (integer + d)
       /\ t.frac[m] = newFrac
       /\ \A x \in Addr \ {m} : t.frac[x] = s.frac[x]
       /\ SumOf(t.frac) = SumOf(s.frac) - s.frac[m] + newFrac
  BY <1>1, <1>2, <1>4, <1>5, <1>6, <1>7, <1>8, <1>9, <1>10
     DEF Moved, Issued, FractionSet, RemainderSet
<1>12. /\ t.bal[m] = s.bal[m] + (c + integer)
       /\ t.bal[Reserve] = s.bal[Reserve] + (d - c)
       /\ \A x \in Addr \ {m, Reserve} : t.bal[x] = s.bal[x]
  BY <1>1, <1>2, <1>4, <1>5, <1>6, <1>7, <1>8, <1>9, <1>10
     DEF Moved, Issued, FractionSet, RemainderSet
<1> HIDE DEF t
<1>13. c \in Int /\ d \in Int /\ integer \in Int /\ newFrac \in Int /\ newRem \in Int
  BY <1>1, <1>2, <1>3
<1>14. /\ newFrac + newRem = s.frac[m] + s.rem + (d - c) * CF
       /\ newFrac = s.frac[m] + amt - (c + integer) * CF
       /\ newRem = s.rem + (integer + d) * CF - amt
  BY <1>1, <1>2, <1>3
<1> HIDE DEF c, d, newFrac, newRem, integer
<1>15. Good(t)
  <2>1. SumOf(t.frac) + t.rem = SumOf(s.frac) + s.rem + (d - c) * CF
    <3>1. SumOf(s.frac) \in Int /\ s.frac[m] \in Int /\ s.rem \in Int /\ (d - c) * CF \in Int
      BY <1>1, <1>13, LedgerFields, CellsFinite
    <3>2. SumOf(t.frac) = SumOf(s.frac) - s.frac[m] + newFrac /\ t.rem = newRem
      BY <1>11
    <3> DEFINE w == (d - c) * CF
    <3>3. newFrac + newRem = s.frac[m] + s.rem + w /\ w \in Int
      BY <1>14, <3>1
    <3> HIDE DEF w
    <3>4. SumOf(t.frac) + t.rem = SumOf(s.frac) + s.rem + w
      BY <1>13, <3>1, <3>2, <3>3
    <3>5. QED
      BY <3>4 DEF w
  <2>2. d - c \in Int
    BY <1>13
  <2>3. QED
    BY <1>11, <1>12, <2>1, <2>2, BackedStep
<1>16. Worth(t, m) = Worth(s, m) + amt
  <2>1. c + integer \in Int /\ t.frac[m] = s.frac[m] + amt - (c + integer) * CF
    BY <1>11, <1>13, <1>14
  <2>2. QED
    BY <1>1, <1>12, <2>1, WorthStep
<1>17. ExtendedSupply(t) = ExtendedSupply(s) + amt
  <2>1. integer + d \in Int /\ t.rem = s.rem + (integer + d) * CF - amt
    BY <1>11, <1>13, <1>14
  <2>2. QED
    BY <1>1, <1>11, <2>1, SupplyStep
<1>18. QED
  BY <1>9, <1>10, <1>11, <1>12, <1>15, <1>16, <1>17 DEF Adjusted, Holders, t

\* A call that fails, without a panic, leaves a typed ledger to the rollback.
Failed(o) == o.res = "err" /\ o.st \in Ledger

\* It fails because a, who would have paid n extended units, does not have them.
Refused(o, s, a, n) == Failed(o) /\ Worth(s, a) < n

\* An account with too few coins, or with just enough and too small a fraction.
LEMMA TooPoor ==
    ASSUME NEW b \in Nat, NEW f \in Fraction, NEW w \in Nat, NEW g \in Fraction,
           b < w \/ (b <= w /\ f < g)
    PROVE  b * CF + f < w * CF + g
<1>1. CF \in Nat /\ f \in 0 .. CF - 1 /\ g \in 0 .. CF - 1
  BY ConversionFactorAssumption DEF Fraction
<1>2. CASE b < w
  <2>1. (w - b) * CF = w * CF - b * CF /\ w * CF \in Int /\ b * CF \in Int
    BY Times, <1>1
  <2>2. w - b >= 1 /\ w - b \in Nat
    BY <1>2
  <2>3. (w - b) * CF >= CF
    BY <1>1, <2>2
  <2>4. QED
    BY <1>1, <2>1, <2>3
<1>3. CASE b = w /\ f < g
  <2>1. b * CF = w * CF /\ w * CF \in Int
    BY <1>1, <1>3
  <2>2. QED
    BY <1>1, <1>3, <2>1
<1>4. QED
  BY <1>2, <1>3

\* burnExtendedCoin takes exactly the amount, or refuses.
LEMMA BurnExtended ==
    ASSUME NEW s, Good(s), NEW m \in Holders, NEW amt \in Nat,
           NEW o, o = burnExtendedCoin(s, m, amt)
    PROVE  Refused(o, s, m, amt) \/ (o.res = "ok" /\ Adjusted(s, o.st, m, -amt))
<1> DEFINE fractional == amt % CF
           whole      == amt \div CF
           borrows    == s.frac[m] < fractional
           overflows  == s.rem + fractional >= CF
           extra      == IF borrows /\ overflows THEN 1 ELSE 0
           integer    == whole + extra
           newFrac    == s.frac[m] - fractional + (IF borrows THEN CF ELSE 0)
           newRem     == s.rem + fractional - (IF overflows THEN CF ELSE 0)
           borrowed   == IF borrows /\ ~overflows THEN BankSend(s, m, Reserve, 1) ELSE Ok(s)
           released   == IF ~borrows /\ overflows THEN BankBurn(borrowed.st, Reserve, 1)
                         ELSE borrowed
           burned     == BankBurn(released.st, m, integer)
           set        == SetFractionalBalance(burned.st, m, newFrac)
           final      == SetRemainderAmount(set.st, newRem)
           c          == IF borrows /\ ~overflows THEN 1 ELSE 0
           d          == IF ~borrows /\ overflows THEN 1 ELSE 0
<1>1. /\ Sound(s) /\ s \in Ledger /\ m \in Addr /\ Reserve \in Addr /\ m # Reserve
      /\ CF \in Nat /\ CF > 0
  BY AddrAssumption, ConversionFactorAssumption DEF Good, Sound, Holders
<1>2. /\ s.bal \in [Addr -> Nat] /\ s.supply \in Nat /\ s.surplus \in Nat
      /\ s.frac[m] \in Nat /\ s.frac[m] < CF /\ s.rem \in Nat /\ s.rem < CF
  BY <1>1, LedgerFields DEF Fraction
<1>3. /\ whole \in Nat /\ fractional \in Nat /\ fractional < CF
      /\ amt = whole * CF + fractional
  BY <1>1, DivMod DEF Fraction
<1>0. o = IF borrowed.res # "ok" THEN borrowed
          ELSE IF released.res # "ok" THEN Bug(released.st)
          ELSE IF burned.res # "ok" THEN burned
          ELSE IF set.res # "ok" THEN set
          ELSE final
  BY DEF burnExtendedCoin
<1> HIDE DEF fractional, whole
<1>4. newFrac \in Fraction /\ newRem \in Fraction /\ integer \in Nat
  BY <1>1, <1>2, <1>3 DEF Fraction
<1>10. s.bal[m] < integer + c => Worth(s, m) < amt
  <2> SUFFICES ASSUME s.bal[m] < integer + c PROVE Worth(s, m) < amt
    OBVIOUS
  <2>1. s.bal[m] \in Nat /\ s.frac[m] \in Fraction /\ fractional \in Fraction
    BY <1>1, <1>2, <1>3 DEF Fraction
  <2>2. s.bal[m] < whole \/ (s.bal[m] <= whole /\ s.frac[m] < fractional)
    BY <1>1, <1>2, <1>3, <2>1
  <2>3. s.bal[m] * CF + s.frac[m] < whole * CF + fractional
    BY <1>3, <2>1, <2>2, TooPoor
  <2>4. QED
    BY <1>3, <2>3 DEF Worth
<1>5. \/ borrowed.res = "ok" /\ Moved(s, borrowed.st, m, Reserve, c)
      \/ Refused(borrowed, s, m, amt)
  <2>1. CASE borrows /\ ~overflows
    <3>1. s.bal[m] >= 1 \/ s.bal[m] < 1
      BY <1>1, <1>2
    <3>2. CASE s.bal[m] < 1
      <4>1. borrowed = Err(s)
        BY <1>1, <2>1, <3>2, BankSendSteps
      <4>2. s.bal[m] < integer + c
        BY <1>1, <1>2, <1>4, <2>1, <3>2
      <4>3. QED
        BY <1>1, <1>10, <4>1, <4>2 DEF Refused, Failed, Err
    <3>3. CASE s.bal[m] >= 1
      BY <1>1, <2>1, <3>3, BankSendSteps
    <3>4. QED
      BY <3>1, <3>2, <3>3
  <2>2. CASE ~(borrows /\ ~overflows)
    BY <1>1, <1>2, <2>2 DEF Moved, Ok
  <2>3. QED
    BY <2>1, <2>2
<1> HIDE DEF borrowed
<1>6. CASE Refused(borrowed, s, m, amt)
  BY <1>0, <1>6 DEF Refused, Failed
<1>7. CASE borrowed.res = "ok" /\ Moved(s, borrowed.st, m, Reserve, c)
  <2>1. released.res = "ok" /\ Issued(borrowed.st, released.st, Reserve, -d)
    <3>1. CASE ~borrows /\ overflows
      <4>1. SumOf(s.frac) >= s.frac[m] /\ SumOf(s.frac) \in Nat
        BY <1>1, LedgerFields, SumBounds, CellsFinite
      <4>2. SumOf(s.frac) + s.rem + s.surplus * CF = s.bal[Reserve] * CF
        BY DEF Good, Backed
      <4>3. s.bal[Reserve] \in Nat /\ s.surplus * CF >= 0
        BY <1>1, <1>2
      <4>4. s.bal[Reserve] * CF >= CF
        BY <1>1, <1>2, <1>3, <3>1, <4>1, <4>2, <4>3
      <4>5. s.bal[Reserve] >= 1
        BY <1>1, <4>3, <4>4
      <4>6. borrowed.st.bal[Reserve] >= 1 /\ Sound(borrowed.st)
        BY <1>1, <1>2, <1>7, <3>1, <4>5 DEF Moved
      <4>7. QED
        BY <1>1, <3>1, <4>6, BankBurnSteps
    <3>2. CASE ~(~borrows /\ overflows)
      <4>1. borrowed.st.bal \in [Addr -> Nat] /\ borrowed.st.supply \in Nat
        BY <1>7, LedgerFields DEF Moved, Sound
      <4>2. QED
        BY <1>7, <3>2, <4>1 DEF Issued, Moved
    <3>3. QED
      BY <3>1, <3>2
  <2> HIDE DEF released
  <2>2. Sound(released.st) /\ released.st \in Ledger /\ released.st.bal \in [Addr -> Nat]
    BY <2>1, LedgerFields DEF Issued, Sound
  <2>3. CASE released.st.bal[m] < integer
    <3>1. burned = Err(released.st)
      BY <1>1, <1>4, <2>2, <2>3, BankBurnSteps
    <3>2. Failed(burned) /\ o = burned
      BY <1>0, <1>7, <2>1, <2>2, <3>1 DEF Failed, Err
    <3>3. released.st.bal[m] = s.bal[m] - c
      BY <1>1, <1>2, <1>7, <2>1 DEF Moved, Issued
    <3>4. s.bal[m] < integer + c
      BY <1>1, <1>2, <1>4, <2>3, <3>3
    <3>5. QED
      BY <1>10, <3>2, <3>4 DEF Refused
  <2>4. CASE released.st.bal[m] >= integer
    <3>1. burned.res = "ok" /\ Issued(released.st, burned.st, m, -integer)
      BY <1>1, <1>4, <2>2, <2>4, BankBurnSteps
    <3> HIDE DEF burned
    <3>2. set.res = "ok" /\ FractionSet(burned.st, set.st, m, newFrac)
      BY <1>1, <1>4, <3>1, SetFractionSteps DEF Issued
    <3> HIDE DEF set
    <3>3. final.res = "ok" /\ RemainderSet(set.st, final.st, newRem)
      BY <1>4, <3>2, SetRemainderSteps DEF FractionSet
    <3>4. o = final
      BY <1>0, <1>7, <2>1, <3>1, <3>2
    <3> HIDE DEF final
    <3> DEFINE t == o.st
    <3>11. /\ Sound(t) /\ t.rem = newRem /\ t.surplus = s.surplus
           /\ t.supply = s.supply + (-(integer + d))
           /\ t.frac[m] = newFrac
           /\ \A x \in Addr \ {m} : t.frac[x] = s.frac[x]
           /\ SumOf(t.frac) = SumOf(s.frac) - s.frac[m] + newFrac
      BY <1>1, <1>2, <1>4, <1>7, <2>1, <3>1, <3>2, <3>3, <3>4
         DEF Moved, Issued, FractionSet, RemainderSet
    <3>12. /\ t.bal[m] = s.bal[m] + (-(c + integer))
           /\ t.bal[Reserve] = s.bal[Reserve] + (c - d)
           /\ \A x \in Addr \ {m, Reserve} : t.bal[x] = s.bal[x]
      BY <1>1, <1>2, <1>4, <1>7, <2>1, <3>1, <3>2, <3>3, <3>4
         DEF Moved, Issued, FractionSet, RemainderSet
    <3> HIDE DEF t
    <3>13. c \in Int /\ d \in Int /\ integer \in Int /\ newFrac \in Int /\ newRem \in Int
      BY <1>1, <1>2, <1>3
    <3>14. /\ newFrac + newRem = s.frac[m] + s.rem + (c - d) * CF
           /\ newFrac = s.frac[m] + (-amt) - (-(c + integer)) * CF
           /\ newRem = s.rem + (-(integer + d)) * CF - (-amt)
      <4>1. /\ (-whole) * CF = -(whole * CF)
            /\ (-(whole + 1)) * CF = -(whole * CF) - CF
            /\ (-(1 + whole)) * CF = -(whole * CF) - CF
            /\ whole * CF \in Int
        BY <1>1, <1>3
      <4>2. CASE borrows /\ overflows
        BY <1>1, <1>2, <1>3, <4>1, <4>2
      <4>3. CASE borrows /\ ~overflows
        BY <1>1, <1>2, <1>3, <4>1, <4>3
      <4>4. CASE ~borrows /\ overflows
        BY <1>1, <1>2, <1>3, <4>1, <4>4
      <4>5. CASE ~borrows /\ ~overflows
        BY <1>1, <1>2, <1>3, <4>1, <4>5
      <4>6. QED
        BY <4>2, <4>3, <4>4, <4>5
    <3> HIDE DEF c, d, newFrac, newRem, integer
    <3>15. Good(t)
      <4>1. SumOf(t.frac) + t.rem = SumOf(s.frac) + s.rem + (c - d) * CF
        <5>1. SumOf(s.frac) \in Int /\ s.frac[m] \in Int /\ s.rem \in Int
          BY <1>1, LedgerFields, CellsFinite
        <5>2. SumOf(t.frac) = SumOf(s.frac) - s.frac[m] + newFrac /\ t.rem = newRem
          BY <3>11
        <5> DEFINE w == (c - d) * CF
        <5>3. newFrac + newRem = s.frac[m] + s.rem + w /\ w \in Int
          BY <1>1, <3>13, <3>14
        <5> HIDE DEF w
        <5>4. SumOf(t.frac) + t.rem = SumOf(s.frac) + s.rem + w
          <6>1. (SumOf(s.frac) - s.frac[m] + newFrac) + newRem
                  = SumOf(s.frac) - s.frac[m] + (newFrac + newRem)
            BY <3>13, <5>1
          <6>2. SumOf(s.frac) - s.frac[m] + (s.frac[m] + s.rem + w) = SumOf(s.frac) + s.rem + w
            BY <5>1, <5>3
          <6>3. QED
            BY <5>2, <5>3, <6>1, <6>2
        <5>5. QED
          BY <5>4 DEF w
      <4>2. c - d \in Int
        BY <3>13
      <4>3. QED
        BY <3>11, <3>12, <4>1, <4>2, BackedStep
    <3>16. Worth(t, m) = Worth(s, m) + (-amt)
      <4>1. /\ -(c + integer) \in Int /\ -amt \in Int
            /\ t.frac[m] = s.frac[m] + (-amt) - (-(c + integer)) * CF
        BY <3>11, <3>13, <3>14
      <4>2. QED
        BY <1>1, <3>12, <4>1, WorthStep
    <3>17. ExtendedSupply(t) = ExtendedSupply(s) + (-amt)
      <4>1. /\ -(integer + d) \in Int /\ -amt \in Int
            /\ t.rem = s.rem + (-(integer + d)) * CF - (-amt)
        BY <3>11, <3>13, <3>14
      <4>2. QED
        BY <1>1, <3>11, <4>1, SupplyStep
    <3>18. Adjusted(s, t, m, -amt)
      BY <3>11, <3>12, <3>15, <3>16, <3>17 DEF Adjusted, Holders
    <3>19. QED
      BY <3>3, <3>4, <3>18 DEF t
  <2>5. QED
    BY <1>4, <1>1, <2>2, <2>3, <2>4
<1>8. QED
  BY <1>5, <1>6, <1>7

\* t is s with n extended units moved from account a to account b.
Transferred(s, t, a, b, n) ==
    /\ Good(t)
    /\ Worth(t, a) = Worth(s, a) - n
    /\ Worth(t, b) = Worth(s, b) + n
    /\ \A y \in Holders \ {a, b} : t.bal[y] = s.bal[y] /\ t.frac[y] = s.frac[y]
    /\ ExtendedSupply(t) = ExtendedSupply(s)

\* sendBetweenAccounts moves exactly the amount, or refuses.
LEMMA SendBetween ==
    ASSUME NEW s, Good(s), NEW from \in Holders, NEW to \in Holders, from # to,
           NEW amt \in Nat, NEW o, o = sendBetweenAccounts(s, from, to, amt)
    PROVE  Refused(o, s, from, amt) \/ (o.res = "ok" /\ Transferred(s, o.st, from, to, amt))
<1> DEFINE fractional == amt % CF
           whole      == amt \div CF
           borrows    == s.frac[from] < fractional
           carries    == s.frac[to] + fractional >= CF
           extra      == IF borrows /\ carries THEN 1 ELSE 0
           integer    == whole + extra
           fromFrac   == s.frac[from] - fractional + (IF borrows THEN CF ELSE 0)
           toFrac     == s.frac[to] + fractional - (IF carries THEN CF ELSE 0)
           sent       == BankSend(s, from, to, integer)
           borrowed   == IF borrows /\ ~carries THEN BankSend(sent.st, from, Reserve, 1)
                         ELSE sent
           carried    == IF carries /\ ~borrows THEN BankSend(borrowed.st, Reserve, to, 1)
                         ELSE borrowed
           setFrom    == SetFractionalBalance(carried.st, from, fromFrac)
           final      == SetFractionalBalance(setFrom.st, to, toFrac)
           c          == IF borrows /\ ~carries THEN 1 ELSE 0
           d          == IF carries /\ ~borrows THEN 1 ELSE 0
<1>1. /\ Sound(s) /\ s \in Ledger /\ from \in Addr /\ to \in Addr /\ Reserve \in Addr
      /\ from # Reserve /\ to # Reserve /\ CF \in Nat /\ CF > 0
  BY AddrAssumption, ConversionFactorAssumption DEF Good, Sound, Holders
<1>2. /\ s.bal \in [Addr -> Nat] /\ s.rem \in Nat /\ s.surplus \in Nat /\ s.supply \in Nat
      /\ s.frac[from] \in Nat /\ s.frac[from] < CF
      /\ s.frac[to] \in Nat /\ s.frac[to] < CF
  BY <1>1, LedgerFields DEF Fraction
<1>3. /\ whole \in Nat /\ fractional \in Nat /\ fractional < CF
      /\ amt = whole * CF + fractional
  BY <1>1, DivMod DEF Fraction
<1>4. o = IF sent.res # "ok" THEN sent
          ELSE IF borrowed.res # "ok" THEN borrowed
          ELSE IF carried.res # "ok" THEN Bug(carried.st)
          ELSE IF setFrom.res # "ok" THEN setFrom
          ELSE final
  BY DEF sendBetweenAccounts
<1> HIDE DEF fractional, whole
<1>5. fromFrac \in Fraction /\ toFrac \in Fraction /\ integer \in Nat
  BY <1>1, <1>2, <1>3 DEF Fraction
<1>6. c \in Nat /\ d \in Nat
  OBVIOUS
<1>10. s.bal[from] < integer + c => Worth(s, from) < amt
  <2> SUFFICES ASSUME s.bal[from] < integer + c PROVE Worth(s, from) < amt
    OBVIOUS
  <2>1. s.bal[from] \in Nat /\ s.frac[from] \in Fraction /\ fractional \in Fraction
    BY <1>1, <1>2, <1>3 DEF Fraction
  <2>2. s.bal[from] < whole \/ (s.bal[from] <= whole /\ s.frac[from] < fractional)
    BY <1>1, <1>2, <1>3, <2>1
  <2>3. s.bal[from] * CF + s.frac[from] < whole * CF + fractional
    BY <1>3, <2>1, <2>2, TooPoor
  <2>4. QED
    BY <1>3, <2>3 DEF Worth
<1>7. CASE s.bal[from] < integer
  <2>1. sent = Err(s)
    BY <1>1, <1>5, <1>7, BankSendSteps
  <2> HIDE DEF sent, borrowed, carried, setFrom, final
  <2>2. sent.res = "err" /\ Failed(sent)
    BY <1>1, <2>1 DEF Failed, Err
  <2>3. o = sent
    BY <1>4, <2>2
  <2>4. s.bal[from] < integer + c
    BY <1>1, <1>2, <1>5, <1>6, <1>7
  <2>5. QED
    BY <1>10, <2>2, <2>3, <2>4 DEF Refused
<1>8. CASE s.bal[from] >= integer
  <2>1. sent.res = "ok" /\ Moved(s, sent.st, from, to, integer)
    BY <1>1, <1>5, <1>8, BankSendSteps
  <2> HIDE DEF sent
  <2>2. Sound(sent.st) /\ sent.st \in Ledger /\ sent.st.bal \in [Addr -> Nat]
    BY <2>1, LedgerFields DEF Moved, Sound
  <2>3. \/ borrowed.res = "ok" /\ Moved(sent.st, borrowed.st, from, Reserve, c)
        \/ Refused(borrowed, s, from, amt)
    <3>1. CASE borrows /\ ~carries /\ sent.st.bal[from] < 1
      <4>1. borrowed = Err(sent.st)
        BY <1>1, <2>2, <3>1, BankSendSteps
      <4>2. sent.st.bal[from] = s.bal[from] - integer
        BY <1>1, <1>2, <1>5, <2>1 DEF Moved
      <4>3. s.bal[from] < integer + c
        BY <1>1, <1>2, <1>5, <3>1, <4>2
      <4>4. QED
        BY <1>10, <2>2, <4>1, <4>3 DEF Refused, Failed, Err
    <3>2. CASE borrows /\ ~carries /\ sent.st.bal[from] >= 1
      BY <1>1, <2>2, <3>2, BankSendSteps
    <3>3. CASE ~(borrows /\ ~carries)
      BY <1>1, <2>1, <2>2, <3>3 DEF Moved
    <3>4. QED
      BY <1>1, <2>2, <3>1, <3>2, <3>3
  <2> HIDE DEF borrowed
  <2>4. CASE Refused(borrowed, s, from, amt)
    BY <1>4, <2>1, <2>4 DEF Refused, Failed
  <2>5. CASE borrowed.res = "ok" /\ Moved(sent.st, borrowed.st, from, Reserve, c)
    <3>1. Sound(borrowed.st) /\ borrowed.st.bal \in [Addr -> Nat]
      BY <2>5, LedgerFields DEF Moved, Sound
    <3>2. carried.res = "ok" /\ Moved(borrowed.st, carried.st, Reserve, to, d)
      <4>1. CASE carries /\ ~borrows
        <5>1. SumOf(s.frac) >= s.frac[from] + s.frac[to] /\ SumOf(s.frac) \in Nat
          BY <1>1, LedgerFields, SumBounds, CellsFinite
        <5>2. SumOf(s.frac) + s.rem + s.surplus * CF = s.bal[Reserve] * CF
          BY DEF Good, Backed
        <5>3. s.bal[Reserve] \in Nat /\ s.surplus * CF >= 0
          BY <1>1, <1>2
        <5>4. s.bal[Reserve] * CF >= CF
          BY <1>1, <1>2, <1>3, <4>1, <5>1, <5>2, <5>3, SMTT(40)
        <5>5. s.bal[Reserve] >= 1
          BY <1>1, <5>3, <5>4
        <5>6. borrowed.st.bal[Reserve] >= 1
          BY <1>1, <1>2, <2>1, <2>2, <2>5, <4>1, <5>5 DEF Moved
        <5>7. QED
          BY <1>1, <3>1, <4>1, <5>6, BankSendSteps
      <4>2. CASE ~(carries /\ ~borrows)
        BY <1>1, <2>5, <3>1, <4>2 DEF Moved
      <4>3. QED
        BY <4>1, <4>2
    <3> HIDE DEF carried
    <3>3. setFrom.res = "ok" /\ FractionSet(carried.st, setFrom.st, from, fromFrac)
      BY <1>1, <1>5, <3>2, SetFractionSteps DEF Moved
    <3> HIDE DEF setFrom
    <3>4. final.res = "ok" /\ FractionSet(setFrom.st, final.st, to, toFrac)
      <4>1. Sound(setFrom.st)
        BY <3>3 DEF FractionSet
      <4>2. QED
        BY <1>1, <1>5, <4>1, SetFractionSteps
    <3> HIDE DEF final
    <3>5. o = final
      BY <1>4, <2>1, <2>5, <3>2, <3>3
    <3> DEFINE t == o.st
    <3>6. /\ Sound(t) /\ t.rem = s.rem /\ t.surplus = s.surplus /\ t.supply = s.supply
          /\ t.frac[from] = fromFrac /\ t.frac[to] = toFrac
          /\ \A x \in Addr \ {from, to} : t.frac[x] = s.frac[x]
      BY <1>1, <2>1, <2>5, <3>2, <3>3, <3>4, <3>5 DEF Moved, FractionSet
    <3>7. SumOf(t.frac) = (SumOf(s.frac) - s.frac[from] + fromFrac) - s.frac[to] + toFrac
      BY <1>1, <2>1, <2>5, <3>2, <3>3, <3>4, <3>5 DEF Moved, FractionSet
    <3>8. /\ t.bal[from] = s.bal[from] + (-(integer + c))
          /\ t.bal[to] = s.bal[to] + (integer + d)
          /\ t.bal[Reserve] = s.bal[Reserve] + (c - d)
          /\ \A x \in Addr \ {from, to, Reserve} : t.bal[x] = s.bal[x]
      BY <1>1, <1>2, <1>5, <1>6, <2>1, <2>5, <3>2, <3>3, <3>4, <3>5 DEF Moved, FractionSet
    <3> HIDE DEF t
    <3>9. c \in Int /\ d \in Int /\ integer \in Int /\ fromFrac \in Int /\ toFrac \in Int
      BY <1>1, <1>2, <1>3
    <3>10. /\ fromFrac + toFrac = s.frac[from] + s.frac[to] + (c - d) * CF
           /\ fromFrac = s.frac[from] + (-amt) - (-(integer + c)) * CF
           /\ toFrac = s.frac[to] + amt - (integer + d) * CF
      <4>1. /\ (-whole) * CF = -(whole * CF)
            /\ (-(whole + 1)) * CF = -(whole * CF) - CF
            /\ (whole + 1) * CF = whole * CF + CF
            /\ whole * CF \in Int
        BY <1>1, <1>3
      <4>2. CASE borrows /\ carries
        <5>1. /\ c = 0 /\ d = 0 /\ integer = whole + 1
              /\ fromFrac = s.frac[from] - fractional + CF /\ toFrac = s.frac[to] + fractional - CF
          BY <1>1, <1>2, <1>3, <4>2
        <5> HIDE DEF c, d, integer, fromFrac, toFrac
        <5>2. QED
          BY <1>1, <1>2, <1>3, <4>1, <5>1
      <4>3. CASE borrows /\ ~carries
        <5>1. /\ c = 1 /\ d = 0 /\ integer = whole
              /\ fromFrac = s.frac[from] - fractional + CF /\ toFrac = s.frac[to] + fractional
          BY <1>1, <1>2, <1>3, <4>3
        <5> HIDE DEF c, d, integer, fromFrac, toFrac
        <5>2. QED
          BY <1>1, <1>2, <1>3, <4>1, <5>1, SMTT(40)
      <4>4. CASE ~borrows /\ carries
        <5>1. /\ c = 0 /\ d = 1 /\ integer = whole
              /\ fromFrac = s.frac[from] - fractional /\ toFrac = s.frac[to] + fractional - CF
          BY <1>1, <1>2, <1>3, <4>4
        <5> HIDE DEF c, d, integer, fromFrac, toFrac
        <5>2. QED
          BY <1>1, <1>2, <1>3, <4>1, <5>1
      <4>5. CASE ~borrows /\ ~carries
        <5>1. /\ c = 0 /\ d = 0 /\ integer = whole
              /\ fromFrac = s.frac[from] - fractional /\ toFrac = s.frac[to] + fractional
          BY <1>1, <1>2, <1>3, <4>5
        <5> HIDE DEF c, d, integer, fromFrac, toFrac
        <5>2. QED
          BY <1>1, <1>2, <1>3, <4>1, <5>1
      <4>6. QED
        BY <4>2, <4>3, <4>4, <4>5
    <3> HIDE DEF c, d, fromFrac, toFrac, integer
    <3>11. Good(t)
      <4>1. SumOf(t.frac) + t.rem = SumOf(s.frac) + s.rem + (c - d) * CF
        <5>1. /\ SumOf(s.frac) \in Int /\ s.frac[from] \in Int /\ s.frac[to] \in Int
              /\ s.rem \in Int
          BY <1>1, LedgerFields, CellsFinite
        <5> DEFINE w == (c - d) * CF
        <5>2. fromFrac + toFrac = s.frac[from] + s.frac[to] + w /\ w \in Int
          BY <1>1, <3>9, <3>10
        <5> HIDE DEF w
        <5>3. (SumOf(s.frac) - s.frac[from] + fromFrac) - s.frac[to] + toFrac
                = SumOf(s.frac) - s.frac[from] - s.frac[to] + (fromFrac + toFrac)
          BY <3>9, <5>1
        <5>4. (SumOf(s.frac) - s.frac[from] - s.frac[to] + (s.frac[from] + s.frac[to] + w)) + s.rem
                = SumOf(s.frac) + s.rem + w
          BY <5>1, <5>2
        <5>5. SumOf(t.frac) + t.rem = SumOf(s.frac) + s.rem + w
          BY <3>6, <3>7, <5>2, <5>3, <5>4
        <5>6. QED
          BY <5>5 DEF w
      <4>2. c - d \in Int
        BY <3>9
      <4>3. QED
        BY <3>6, <3>8, <4>1, <4>2, BackedStep
    <3>12. Worth(t, from) = Worth(s, from) + (-amt)
      <4>1. /\ -(integer + c) \in Int /\ -amt \in Int
            /\ t.frac[from] = s.frac[from] + (-amt) - (-(integer + c)) * CF
        BY <3>6, <3>9, <3>10
      <4>2. QED
        BY <1>1, <3>8, <4>1, WorthStep
    <3>13. Worth(t, to) = Worth(s, to) + amt
      <4>1. integer + d \in Int /\ t.frac[to] = s.frac[to] + amt - (integer + d) * CF
        BY <3>6, <3>9, <3>10
      <4>2. QED
        BY <1>1, <3>8, <4>1, WorthStep
    <3>14. Worth(s, from) \in Int
      BY <1>1, <1>2 DEF Worth
    <3>15. Worth(t, from) = Worth(s, from) - amt
      BY <3>12, <3>14
    <3>16. ExtendedSupply(t) = ExtendedSupply(s)
      BY <3>6 DEF ExtendedSupply
    <3>17. Transferred(s, t, from, to, amt)
      BY <3>6, <3>8, <3>11, <3>13, <3>15, <3>16 DEF Transferred, Holders
    <3>18. QED
      BY <3>4, <3>5, <3>17 DEF t
  <2>6. QED
    BY <2>3, <2>4, <2>5
<1>9. QED
  BY <1>1, <1>2, <1>5, <1>7, <1>8

(***************************************************************************)
(* The exported methods.  What a call does to extended balances and to     *)
(* their supply, whichever way whole coins and fractions went.             *)
(***************************************************************************)
\* Account x and the supply gain d extended units.
Changed(s, t, x, d) ==
    /\ Good(t)
    /\ \A y \in Holders : Worth(t, y) = Worth(s, y) + (IF y = x THEN d ELSE 0)
    /\ ExtendedSupply(t) = ExtendedSupply(s) + d

\* Account a pays n extended units to account b.
Paid(s, t, a, b, n) ==
    /\ Good(t)
    /\ \A y \in Holders : Worth(t, y) = Worth(s, y) - (IF y = a THEN n ELSE 0)
                                                    + (IF y = b THEN n ELSE 0)
    /\ ExtendedSupply(t) = ExtendedSupply(s)

\* A call succeeds with a change or a payment, or fails with a typed ledger; it never panics.
Stepped(s, t) ==
    \/ \E x \in Holders, d \in Int : Changed(s, t, x, d)
    \/ \E a, b \in Holders, n \in Nat : Paid(s, t, a, b, n)

Fine(s, o) == Failed(o) \/ (o.res = "ok" /\ Stepped(s, o.st))

AnyCoins == [int: Nat, ext: Nat]

\* Extended balances and their supply are integers; whole coins and fraction make them up.
LEMMA WorthType ==
    ASSUME NEW s, Good(s)
    PROVE  /\ \A y \in Holders : Worth(s, y) \in Nat /\ GetBalance(s, y) = Worth(s, y)
           /\ ExtendedSupply(s) \in Int
<1>1. /\ s.bal \in [Addr -> Nat] /\ s.frac \in [Addr -> Nat] /\ s.rem \in Nat
      /\ s.supply \in Nat /\ s.surplus \in Nat /\ CF \in Nat
  BY LedgerFields, ConversionFactorAssumption DEF Good, Sound
<1>2. ASSUME NEW y \in Holders
      PROVE  Worth(s, y) \in Nat /\ GetBalance(s, y) = Worth(s, y)
  <2>1. s.bal[y] \in Nat /\ s.frac[y] \in Nat /\ y # Reserve
    BY <1>1 DEF Holders
  <2>2. QED
    BY <1>1, <2>1 DEF Worth, GetBalance
<1>3. ExtendedSupply(s) \in Int
  BY <1>1 DEF ExtendedSupply
<1>4. QED
  BY <1>2, <1>3

\* The value of coins is a number of the smaller unit.
LEMMA ValueType ==
    ASSUME NEW amt \in AnyCoins
    PROVE  /\ amt.int \in Nat /\ amt.ext \in Nat /\ amt.int * CF \in Nat /\ Value(amt) \in Nat
           /\ Value(amt) = amt.int * CF + amt.ext
  BY ConversionFactorAssumption DEF AnyCoins, Value

\* What the three methods do to one ledger, in terms of extended balances.
LEMMA AdjustedChanges ==
    ASSUME NEW s, Good(s), NEW t, NEW x \in Holders, NEW d \in Int, Adjusted(s, t, x, d)
    PROVE  Changed(s, t, x, d)
<1>1. ASSUME NEW y \in Holders, y # x PROVE Worth(t, y) = Worth(s, y)
  BY <1>1 DEF Adjusted, Worth
<1>2. QED
  BY <1>1, WorthType DEF Adjusted, Changed

\* What is transferred leaves one account and reaches the other.
LEMMA TransferredPays ==
    ASSUME NEW s, Good(s), NEW t, NEW a \in Holders, NEW b \in Holders, a # b, NEW n \in Nat,
           Transferred(s, t, a, b, n)
    PROVE  Paid(s, t, a, b, n)
<1>1. ASSUME NEW y \in Holders, y # a, y # b PROVE Worth(t, y) = Worth(s, y)
  BY <1>1 DEF Transferred, Worth
<1>2. \A y \in Holders : Worth(s, y) \in Int
  BY WorthType
<1>3. QED
  BY <1>1, <1>2 DEF Transferred, Paid

\* One call after another.
LEMMA ChangedTwice ==
    ASSUME NEW s, Good(s), NEW t, NEW u, NEW x \in Holders, NEW d \in Int, NEW e \in Int,
           Changed(s, t, x, d), Changed(t, u, x, e)
    PROVE  Changed(s, u, x, d + e)
<1>1. (\A y \in Holders : Worth(s, y) \in Int) /\ ExtendedSupply(s) \in Int
  BY WorthType
<1>2. QED
  BY <1>1 DEF Changed

\* Two payments after each other are one of the sum, and one of what was just given or
\* is then taken is none of the account between.
LEMMA Successive ==
    ASSUME NEW s, Good(s), NEW t, NEW u, NEW x \in Holders, NEW b \in Holders
    PROVE  /\ \A m, n \in Nat :
                Paid(s, t, x, b, m) /\ Paid(t, u, x, b, n) => Paid(s, u, x, b, m + n)
           /\ \A n \in Nat :
                Changed(s, t, x, n) /\ Paid(t, u, x, b, n) => Changed(s, u, b, n)
           /\ \A n \in Nat :
                Paid(s, t, b, x, n) /\ Changed(t, u, x, -n) => Changed(s, u, b, -n)
<1>1. (\A y \in Holders : Worth(s, y) \in Int) /\ ExtendedSupply(s) \in Int
  BY WorthType
<1>2. ASSUME NEW m \in Nat, NEW n \in Nat, Paid(s, t, x, b, m), Paid(t, u, x, b, n)
      PROVE  Paid(s, u, x, b, m + n)
  BY <1>1, <1>2 DEF Paid
<1>3. ASSUME NEW n \in Nat, Changed(s, t, x, n), Paid(t, u, x, b, n)
      PROVE  Changed(s, u, b, n)
  BY <1>1, <1>3 DEF Changed, Paid
<1>4. ASSUME NEW n \in Nat, Paid(s, t, b, x, n), Changed(t, u, x, -n)
      PROVE  Changed(s, u, b, -n)
  BY <1>1, <1>4 DEF Changed, Paid
<1>5. QED
  BY <1>2, <1>3, <1>4

(***************************************************************************)
(* Whole coins that pass through to x/bank.                                *)
(***************************************************************************)
\* They miss the reserve.
LEMMA PassThrough ==
    ASSUME NEW s, Good(s), NEW t, Sound(t), t.frac = s.frac, t.rem = s.rem,
           t.surplus = s.surplus, t.bal[Reserve] = s.bal[Reserve]
    PROVE  Good(t)
  BY DEF Good, Backed

\* The coins of one account and their supply change by d.
LEMMA IssuedChanges ==
    ASSUME NEW s, Good(s), NEW t, NEW m \in Holders, NEW d \in Int, Issued(s, t, m, d)
    PROVE  Changed(s, t, m, d * CF)
<1>1. /\ Sound(s) /\ Sound(t) /\ m \in Addr /\ m # Reserve /\ Reserve \in Addr
      /\ s.bal \in [Addr -> Nat] /\ s.supply \in Nat /\ s.surplus \in Nat /\ s.rem \in Nat
      /\ s.frac \in [Addr -> Nat] /\ CF \in Int /\ d * CF \in Int
  BY AddrAssumption, ConversionFactorAssumption, LedgerFields DEF Good, Sound, Holders, Issued
<1>2. Good(t)
  <2>1. t.bal[Reserve] = s.bal[Reserve]
    BY <1>1 DEF Issued
  <2>2. QED
    BY <1>1, <2>1, PassThrough DEF Issued
<1>3. Worth(t, m) = Worth(s, m) + d * CF
  <2>1. t.bal[m] = s.bal[m] + d /\ t.frac[m] = s.frac[m] /\ s.frac[m] \in Nat
    BY <1>1 DEF Issued
  <2> DEFINE w == d * CF
  <2>2. s.frac[m] + w - w = s.frac[m]
    BY <1>1, <2>1
  <2>3. t.frac[m] = s.frac[m] + d * CF - d * CF
    BY <2>1, <2>2
  <2>4. QED
    BY <1>1, <2>1, <2>3, WorthStep
<1>4. ExtendedSupply(t) = ExtendedSupply(s) + d * CF
  <2> DEFINE w == d * CF
  <2>1. s.rem + w - w = s.rem
    BY <1>1
  <2>2. t.rem = s.rem + d * CF - d * CF
    BY <2>1 DEF Issued
  <2>3. QED
    BY <1>1, <2>2, SupplyStep DEF Issued
<1>5. \A y \in Holders \ {m} : t.bal[y] = s.bal[y] /\ t.frac[y] = s.frac[y]
  BY <1>1 DEF Issued, Holders
<1>6. Adjusted(s, t, m, d * CF)
  BY <1>2, <1>3, <1>4, <1>5 DEF Adjusted
<1>7. QED
  BY <1>1, <1>6, AdjustedChanges

\* Coins go from one account to another.
LEMMA MovedPays ==
    ASSUME NEW s, Good(s), NEW t, NEW a \in Holders, NEW b \in Holders, a # b, NEW n \in Nat,
           Moved(s, t, a, b, n)
    PROVE  Paid(s, t, a, b, n * CF)
<1>1. /\ Sound(s) /\ Sound(t) /\ a \in Addr /\ b \in Addr /\ a # Reserve /\ b # Reserve
      /\ Reserve \in Addr /\ s.bal \in [Addr -> Nat] /\ s.frac \in [Addr -> Nat]
      /\ CF \in Nat /\ n * CF \in Nat
  BY AddrAssumption, ConversionFactorAssumption, LedgerFields DEF Good, Sound, Holders, Moved
<1>2. Good(t)
  <2>1. t.bal[Reserve] = s.bal[Reserve]
    BY <1>1 DEF Moved
  <2>2. QED
    BY <1>1, <2>1, PassThrough DEF Moved
<1>3. (-n) * CF = -(n * CF)
  BY <1>1
<1>4. Worth(t, a) = Worth(s, a) + (-n) * CF
  <2>1. t.bal[a] = s.bal[a] + (-n) /\ t.frac[a] = s.frac[a] /\ s.frac[a] \in Nat /\ -n \in Int
    BY <1>1 DEF Moved
  <2> DEFINE w == (-n) * CF
  <2>2. w \in Int
    BY <1>1, <1>3
  <2> HIDE DEF w
  <2>3. t.frac[a] = s.frac[a] + w - w
    BY <2>1, <2>2
  <2>4. QED
    BY <1>1, <2>1, <2>2, <2>3, WorthStep DEF w
<1>5. Worth(t, b) = Worth(s, b) + n * CF
  <2>1. t.bal[b] = s.bal[b] + n /\ t.frac[b] = s.frac[b] /\ s.frac[b] \in Nat
    BY <1>1 DEF Moved
  <2> DEFINE w == n * CF
  <2>2. t.frac[b] = s.frac[b] + w - w
    BY <1>1, <2>1
  <2>3. QED
    BY <1>1, <2>1, <2>2, WorthStep
<1>6. ExtendedSupply(t) = ExtendedSupply(s)
  BY DEF Moved, ExtendedSupply
<1>7. \A y \in Holders \ {a, b} : t.bal[y] = s.bal[y] /\ t.frac[y] = s.frac[y]
  BY <1>1 DEF Moved, Holders
<1>8. Worth(t, a) = Worth(s, a) - n * CF
  <2>1. Worth(s, a) \in Int
    BY WorthType
  <2> DEFINE w == n * CF
  <2>2. Worth(t, a) = Worth(s, a) + (-w) /\ w \in Int
    BY <1>1, <1>3, <1>4
  <2> HIDE DEF w
  <2>3. Worth(t, a) = Worth(s, a) - w
    BY <2>1, <2>2
  <2>4. QED
    BY <2>3 DEF w
<1>9. Transferred(s, t, a, b, n * CF)
  BY <1>2, <1>5, <1>6, <1>7, <1>8 DEF Transferred
<1>10. QED
  BY <1>1, <1>9, TransferredPays

\* An account that has too few whole coins cannot pay the amount.
LEMMA FewCoins ==
    ASSUME NEW s, Good(s), NEW a \in Holders, NEW amt \in AnyCoins, s.bal[a] < amt.int
    PROVE  Worth(s, a) < Value(amt)
<1>1. s.bal[a] \in Nat /\ s.frac[a] \in Fraction /\ 0 \in Fraction /\ CF \in Nat
  BY LedgerFields, ConversionFactorAssumption DEF Good, Sound, Holders, Fraction
<1>2. amt.int \in Nat /\ amt.ext \in Nat /\ amt.int * CF \in Nat
      /\ Value(amt) = amt.int * CF + amt.ext
  BY ValueType
<1>3. s.bal[a] * CF + s.frac[a] < amt.int * CF + 0
  BY <1>1, <1>2, TooPoor
<1>4. Worth(s, a) \in Nat /\ Worth(s, a) = s.bal[a] * CF + s.frac[a]
  BY WorthType DEF Worth
<1>5. QED
  BY <1>2, <1>3, <1>4

(***************************************************************************)
(* Mint, burn and send, with the whole coins they pass through.            *)
(***************************************************************************)
LEMMA MintExact ==
    ASSUME NEW s, Good(s), NEW m \in Holders, m \in Minters, NEW amt \in AnyCoins
    PROVE  /\ MintCoins(s, m, amt).res = "ok"
           /\ Changed(s, MintCoins(s, m, amt).st, m, Value(amt))
<1>1. /\ amt.int \in Nat /\ amt.ext \in Nat /\ amt.int * CF \in Nat
      /\ Value(amt) = amt.int * CF + amt.ext
  BY ValueType
<1>2. PICK p : p = BankMint(s, m, amt.int)
  OBVIOUS
<1>3. p.res = "ok" /\ Changed(s, p.st, m, amt.int * CF)
  <2>1. p.res = "ok" /\ Issued(s, p.st, m, amt.int)
    BY <1>1, <1>2, BankMintSteps DEF Good, Holders
  <2>2. QED
    BY <1>1, <2>1, IssuedChanges
<1>4. PICK o : o = mintExtendedCoin(p.st, m, amt.ext)
  OBVIOUS
<1>5. o.res = "ok" /\ Changed(p.st, o.st, m, amt.ext)
  <2>1. Good(p.st)
    BY <1>3 DEF Changed
  <2>2. o.res = "ok" /\ Adjusted(p.st, o.st, m, amt.ext)
    BY <1>1, <1>4, <2>1, MintExtended
  <2>3. QED
    BY <1>1, <2>1, <2>2, AdjustedChanges
<1>6. MintCoins(s, m, amt) = IF amt.ext > 0 THEN o ELSE p
  BY <1>2, <1>4 DEF MintCoins, Holders
<1>7. CASE amt.ext > 0
  <2>1. amt.int * CF \in Int /\ amt.ext \in Int
    BY <1>1
  <2>2. Changed(s, o.st, m, amt.int * CF + amt.ext)
    BY <1>3, <1>5, <2>1, ChangedTwice
  <2>3. QED
    BY <1>1, <1>5, <1>6, <1>7, <2>2
<1>8. CASE ~(amt.ext > 0)
  <2>1. Value(amt) = amt.int * CF
    BY <1>1, <1>8
  <2>2. QED
    BY <1>3, <1>6, <1>8, <2>1
<1>9. QED
  BY <1>7, <1>8

\* BurnCoins takes the value of the coins, or refuses.
LEMMA BurnExact ==
    ASSUME NEW s, Good(s), NEW m \in Holders, m \in Burners, NEW amt \in AnyCoins,
           NEW r, r = BurnCoins(s, m, amt)
    PROVE  Refused(r, s, m, Value(amt)) \/ (r.res = "ok" /\ Changed(s, r.st, m, -Value(amt)))
<1>1. /\ amt.int \in Nat /\ amt.ext \in Nat /\ amt.int * CF \in Nat
      /\ Value(amt) = amt.int * CF + amt.ext /\ Value(amt) \in Nat
  BY ValueType
<1>2. s \in Ledger /\ Sound(s) /\ s.bal[m] \in Nat /\ m \in Addr /\ m # Reserve /\ CF \in Nat
  BY LedgerFields, ConversionFactorAssumption DEF Good, Sound, Holders
<1>3. PICK p : p = BankBurn(s, m, amt.int)
  OBVIOUS
<1>4. PICK o : o = burnExtendedCoin(p.st, m, amt.ext)
  OBVIOUS
<1>5. r = IF p.res = "ok" /\ amt.ext > 0 THEN o ELSE p
  BY <1>2, <1>3, <1>4 DEF BurnCoins
<1>6. CASE s.bal[m] < amt.int
  <2>1. p = Err(s)
    BY <1>1, <1>2, <1>3, <1>6, BankBurnSteps
  <2>2. Failed(p) /\ p.res # "ok"
    BY <1>2, <2>1 DEF Failed, Err
  <2>3. QED
    BY <1>5, <1>6, <2>2, FewCoins DEF Refused
<1>7. CASE s.bal[m] >= amt.int
  <2>1. p.res = "ok" /\ Changed(s, p.st, m, -(amt.int * CF))
    <3>1. p.res = "ok" /\ Issued(s, p.st, m, -amt.int)
      BY <1>1, <1>2, <1>3, <1>7, BankBurnSteps
    <3>2. Changed(s, p.st, m, (-amt.int) * CF)
      BY <1>1, <3>1, IssuedChanges
    <3>3. (-amt.int) * CF = -(amt.int * CF)
      BY <1>1, <1>2
    <3>4. QED
      BY <3>1, <3>2, <3>3
  <2>2. Good(p.st)
    BY <2>1 DEF Changed
  <2>3. CASE amt.ext > 0
    <3>1. Refused(o, p.st, m, amt.ext) \/ (o.res = "ok" /\ Adjusted(p.st, o.st, m, -amt.ext))
      BY <1>1, <1>4, <2>2, BurnExtended
    <3>2. CASE o.res = "ok" /\ Adjusted(p.st, o.st, m, -amt.ext)
      <4>1. Changed(p.st, o.st, m, -amt.ext)
        BY <1>1, <2>2, <3>2, AdjustedChanges
      <4>2. -(amt.int * CF) \in Int /\ -amt.ext \in Int
            /\ -(amt.int * CF) + (-amt.ext) = -Value(amt)
        BY <1>1
      <4>3. Changed(s, o.st, m, -(amt.int * CF) + (-amt.ext))
        BY <2>1, <4>1, <4>2, ChangedTwice
      <4>4. QED
        BY <1>5, <2>1, <2>3, <3>2, <4>2, <4>3
    <3>3. CASE Refused(o, p.st, m, amt.ext)
      <4>1. Worth(p.st, m) = Worth(s, m) + (-(amt.int * CF))
        BY <2>1 DEF Changed
      <4>2. Worth(s, m) \in Nat
        BY WorthType
      <4>3. Worth(s, m) < Value(amt)
        BY <1>1, <3>3, <4>1, <4>2 DEF Refused
      <4>4. QED
        BY <1>5, <2>1, <2>3, <3>3, <4>3 DEF Refused
    <3>4. QED
      BY <3>1, <3>2, <3>3
  <2>4. CASE ~(amt.ext > 0)
    <3>1. Value(amt) = amt.int * CF
      BY <1>1, <2>4
    <3>2. QED
      BY <1>5, <2>1, <2>4, <3>1
  <2>5. QED
    BY <2>3, <2>4
<1>8. QED
  BY <1>1, <1>2, <1>6, <1>7

\* SendCoins moves the value of the coins, or refuses.
LEMMA SendExact ==
    ASSUME NEW s, Good(s), NEW from \in Holders, NEW to \in Holders, from # to,
           NEW amt \in AnyCoins, NEW r, r = SendCoins(s, from, to, amt)
    PROVE  \/ Refused(r, s, from, Value(amt))
           \/ r.res = "ok" /\ Paid(s, r.st, from, to, Value(amt))
<1>1. /\ amt.int \in Nat /\ amt.ext \in Nat /\ amt.int * CF \in Nat
      /\ Value(amt) = amt.int * CF + amt.ext /\ Value(amt) \in Nat
  BY ValueType
<1>2. /\ s \in Ledger /\ Sound(s) /\ s.bal[from] \in Nat /\ from \in Addr /\ to \in Addr
      /\ from # Reserve /\ to # Reserve
  BY LedgerFields DEF Good, Sound, Holders
<1>3. PICK p : p = BankSend(s, from, to, amt.int)
  OBVIOUS
<1>4. PICK o : o = sendBetweenAccounts(p.st, from, to, amt.ext)
  OBVIOUS
<1>5. r = IF p.res = "ok" /\ amt.ext > 0 THEN o ELSE p
  BY <1>2, <1>3, <1>4 DEF SendCoins, sendExtendedCoins, ToReserve
<1>6. CASE s.bal[from] < amt.int
  <2>1. p = Err(s)
    BY <1>1, <1>2, <1>3, <1>6, BankSendSteps
  <2>2. Failed(p) /\ p.res # "ok"
    BY <1>2, <2>1 DEF Failed, Err
  <2>3. QED
    BY <1>5, <1>6, <2>2, FewCoins DEF Refused
<1>7. CASE s.bal[from] >= amt.int
  <2>1. p.res = "ok" /\ Paid(s, p.st, from, to, amt.int * CF)
    <3>1. p.res = "ok" /\ Moved(s, p.st, from, to, amt.int)
      BY <1>1, <1>2, <1>3, <1>7, BankSendSteps
    <3>2. QED
      BY <1>1, <3>1, MovedPays
  <2>2. Good(p.st)
    BY <2>1 DEF Paid
  <2>3. CASE amt.ext > 0
    <3>1. \/ Refused(o, p.st, from, amt.ext)
          \/ o.res = "ok" /\ Transferred(p.st, o.st, from, to, amt.ext)
      BY <1>1, <1>4, <2>2, SendBetween
    <3>2. CASE o.res = "ok" /\ Transferred(p.st, o.st, from, to, amt.ext)
      <4>1. Paid(p.st, o.st, from, to, amt.ext)
        BY <1>1, <2>2, <3>2, TransferredPays
      <4>2. Paid(s, o.st, from, to, amt.int * CF + amt.ext)
        BY <1>1, <2>1, <4>1, Successive
      <4>3. QED
        BY <1>1, <1>5, <2>1, <2>3, <3>2, <4>2
    <3>3. CASE Refused(o, p.st, from, amt.ext)
      <4>1. Worth(p.st, from) = Worth(s, from) - amt.int * CF + 0
        BY <2>1 DEF Paid
      <4>2. Worth(s, from) \in Nat
        BY WorthType
      <4>3. Worth(s, from) < Value(amt)
        BY <1>1, <3>3, <4>1, <4>2 DEF Refused
      <4>4. QED
        BY <1>5, <2>1, <2>3, <3>3, <4>3 DEF Refused
    <3>4. QED
      BY <3>1, <3>2, <3>3
  <2>4. CASE ~(amt.ext > 0)
    <3>1. Value(amt) = amt.int * CF
      BY <1>1, <2>4
    <3>2. QED
      BY <1>5, <2>1, <2>4, <3>1
  <2>5. QED
    BY <2>3, <2>4
<1>8. QED
  BY <1>1, <1>2, <1>6, <1>7

\* Whole coins sent to the reserve leave circulation.
LEMMA BankSendToReserve ==
    ASSUME NEW s, Good(s), NEW from \in Holders, NEW n \in Nat,
           NEW r, r = ToReserve(BankSend(s, from, Reserve, n), Reserve, n)
    PROVE  Failed(r) \/ (r.res = "ok" /\ Changed(s, r.st, from, -(n * CF)))
<1>1. /\ Sound(s) /\ s \in Ledger /\ from \in Addr /\ from # Reserve /\ Reserve \in Addr
      /\ s.bal[Reserve] \in Nat /\ s.bal[from] \in Nat /\ s.frac[from] \in Nat
      /\ s.supply \in Nat
      /\ s.surplus \in Nat /\ s.rem \in Nat /\ SumOf(s.frac) \in Nat
      /\ CF \in Nat /\ n * CF \in Nat
  BY AddrAssumption, ConversionFactorAssumption, LedgerFields, CellsFinite
     DEF Good, Sound, Holders
<1>2. PICK o : o = BankSend(s, from, Reserve, n)
  OBVIOUS
<1>3. CASE s.bal[from] < n
  <2>1. o = Err(s)
    BY <1>1, <1>2, <1>3, BankSendSteps
  <2>2. o.res = "err" /\ o.st = s
    BY <2>1 DEF Err
  <2>3. ToReserve(o, Reserve, n) = o
    BY <2>2 DEF ToReserve
  <2>4. QED
    BY <1>1, <1>2, <2>2, <2>3 DEF Failed
<1>4. CASE s.bal[from] >= n
  <2>1. o.res = "ok" /\ Moved(s, o.st, from, Reserve, n)
    BY <1>1, <1>2, <1>4, BankSendSteps
  <2>2. PICK u : u = o.st
    OBVIOUS
  <2>3. /\ u \in Ledger /\ Sound(u)
        /\ u.bal[Reserve] = s.bal[Reserve] + n /\ u.bal[from] = s.bal[from] + (-n)
        /\ u.surplus = s.surplus /\ u.rem = s.rem /\ u.frac = s.frac /\ u.supply = s.supply
    <3>1. /\ Sound(u) /\ u.bal[Reserve] = s.bal[Reserve] + n /\ u.bal[from] = s.bal[from] + (-n)
          /\ u.surplus = s.surplus /\ u.rem = s.rem /\ u.frac = s.frac /\ u.supply = s.supply
      BY <1>1, <2>1, <2>2 DEF Moved
    <3>2. QED
      BY <3>1 DEF Sound
  <2>4. \A y \in Holders \ {from} : u.bal[y] = s.bal[y]
    BY <1>1, <2>1, <2>2, LedgerFields DEF Moved, Holders
  <2> DEFINE t == [u EXCEPT !.surplus = u.surplus + n]
  <2>5. /\ t.bal = u.bal /\ t.frac = u.frac /\ t.rem = u.rem /\ t.supply = u.supply
        /\ t.surplus = u.surplus + n
    BY <2>3 DEF Ledger
  <2>6. t \in Ledger
    BY <1>1, <2>3 DEF Ledger
  <2>7. Sound(t)
    BY <2>3, <2>5, <2>6 DEF Sound
  <2>8. r.res = "ok" /\ r.st = t
    <3>1. o = [st |-> u, res |-> "ok"]
      BY <1>1, <1>2, <1>4, <2>2 DEF BankSend, Ok
    <3>2. QED
      BY <1>2, <3>1 DEF ToReserve
  <2> HIDE DEF t
  <2>9. Backed(t)
    <3>1. SumOf(s.frac) + s.rem + s.surplus * CF = s.bal[Reserve] * CF
      BY DEF Good, Backed
    <3>2. (s.surplus + n) * CF = s.surplus * CF + n * CF
      BY <1>1, Times
    <3>3. (s.bal[Reserve] + n) * CF = s.bal[Reserve] * CF + n * CF
      BY <1>1, Times
    <3>4. s.surplus * CF \in Int /\ n * CF \in Int
      BY <1>1
    <3> DEFINE w == n * CF
               v == s.surplus * CF
    <3> HIDE DEF v, w
    <3>5. SumOf(s.frac) + s.rem + (v + w) = (SumOf(s.frac) + s.rem + v) + w
      BY <1>1, <3>4 DEF v, w
    <3>6. SumOf(s.frac) + s.rem + (s.surplus * CF + n * CF)
            = (SumOf(s.frac) + s.rem + s.surplus * CF) + n * CF
      BY <3>5 DEF v, w
    <3>7. QED
      BY <2>3, <2>5, <3>1, <3>2, <3>3, <3>6 DEF Backed
  <2>10. (-n) * CF = -(n * CF) /\ -n \in Int /\ -(n * CF) \in Int
    BY <1>1
  <2>11. Worth(t, from) = Worth(s, from) + (-(n * CF))
    <3> DEFINE w == -(n * CF)
    <3>1. w \in Int /\ t.frac[from] = s.frac[from] + w - w
      BY <1>1, <2>3, <2>5, <2>10
    <3>2. t.bal[from] = s.bal[from] + (-n)
      BY <2>3, <2>5
    <3>3. t.frac[from] = s.frac[from] + w - (-n) * CF
      BY <2>10, <3>1
    <3>4. QED
      BY <1>1, <2>10, <3>1, <3>2, <3>3, WorthStep
  <2>12. ExtendedSupply(t) = ExtendedSupply(s) + (-(n * CF))
    <3>1. t.supply - t.surplus = (s.supply - s.surplus) - n /\ s.supply - s.surplus \in Int
      BY <1>1, <2>3, <2>5
    <3>2. (t.supply - t.surplus) * CF = (s.supply - s.surplus) * CF - n * CF
      BY <1>1, <3>1, Times
    <3> DEFINE v == (s.supply - s.surplus) * CF
               w == n * CF
    <3>3. v \in Int /\ w \in Int
      BY <1>1, <3>1
    <3> HIDE DEF v, w
    <3>4. (v - w) - s.rem = (v - s.rem) + (-w)
      BY <1>1, <3>3
    <3>5. QED
      BY <2>3, <2>5, <3>2, <3>4 DEF ExtendedSupply, v, w
  <2>13. Adjusted(s, t, from, -(n * CF))
    BY <2>3, <2>4, <2>5, <2>7, <2>9, <2>11, <2>12 DEF Adjusted, Good
  <2>14. QED
    BY <1>1, <2>8, <2>10, <2>13, AdjustedChanges
<1>5. QED
  BY <1>1, <1>3, <1>4

\* An account that sends to itself or to the reserve.
LEMMA SendAside ==
    ASSUME NEW s, Good(s), NEW from \in Holders, NEW to \in {from, Reserve},
           NEW amt \in AnyCoins, NEW r, r = SendCoins(s, from, to, amt)
    PROVE  Failed(r) \/ (r.res = "ok" /\ \E d \in Int : Changed(s, r.st, from, d))
<1>1. amt.int \in Nat /\ amt.ext \in Nat /\ amt.int * CF \in Nat
  BY ValueType
<1>2. /\ s \in Ledger /\ Sound(s) /\ s.bal[from] \in Nat /\ from \in Addr
      /\ from # Reserve /\ Reserve \in Addr /\ CF \in Nat
  BY LedgerFields, AddrAssumption, ConversionFactorAssumption DEF Good, Sound, Holders
<1>3. PICK p : p = ToReserve(BankSend(s, from, to, amt.int), to, amt.int)
  OBVIOUS
<1>4. PICK o : o = sendExtendedCoins(p.st, from, to, amt.ext)
  OBVIOUS
<1>5. r = IF p.res = "ok" /\ amt.ext > 0 THEN o ELSE p
  BY <1>3, <1>4 DEF SendCoins
<1>6. CASE to = Reserve
  <2>1. Failed(p) \/ (p.res = "ok" /\ Changed(s, p.st, from, -(amt.int * CF)))
    BY <1>1, <1>3, <1>6, BankSendToReserve
  <2>2. -(amt.int * CF) \in Int
    BY <1>1
  <2>3. CASE p.res = "ok" /\ amt.ext > 0
    <3>1. amt.ext \div CF \in Nat /\ (amt.ext \div CF) * CF \in Nat
      BY <1>1, <1>2, DivMod
    <3>2. Changed(s, p.st, from, -(amt.int * CF)) /\ Good(p.st)
      BY <2>1, <2>3 DEF Failed, Changed
    <3>3. o = ToReserve(BankSend(p.st, from, Reserve, amt.ext \div CF), Reserve, amt.ext \div CF)
      BY <1>4, <1>6 DEF sendExtendedCoins
    <3>4. Failed(o) \/ (o.res = "ok" /\ Changed(p.st, o.st, from, -((amt.ext \div CF) * CF)))
      BY <3>1, <3>2, <3>3, BankSendToReserve
    <3>5. PICK e \in Int : e = -((amt.ext \div CF) * CF)
      BY <3>1
    <3>6. CASE o.res = "ok" /\ Changed(p.st, o.st, from, e)
      <4>1. Changed(s, o.st, from, -(amt.int * CF) + e)
        BY <2>2, <3>2, <3>5, <3>6, ChangedTwice
      <4>2. -(amt.int * CF) + e \in Int
        BY <2>2, <3>5
      <4>3. QED
        BY <1>5, <2>3, <3>6, <4>1, <4>2
    <3>7. QED
      BY <1>5, <2>3, <3>4, <3>5, <3>6
  <2>4. CASE ~(p.res = "ok" /\ amt.ext > 0)
    BY <1>5, <2>1, <2>2, <2>4
  <2>5. QED
    BY <2>3, <2>4
<1>7. CASE to = from
  <2>1. p = BankSend(s, from, from, amt.int)
    BY <1>2, <1>3, <1>7 DEF ToReserve
  <2>2. o = Ok(p.st)
    BY <1>2, <1>4, <1>7 DEF sendExtendedCoins
  <2>3. CASE s.bal[from] < amt.int
    <3>1. p = Err(s)
      BY <1>1, <1>2, <2>1, <2>3, BankSendSteps
    <3>2. QED
      BY <1>2, <1>5, <3>1 DEF Failed, Err
  <2>4. CASE s.bal[from] >= amt.int
    <3>1. p.res = "ok" /\ Moved(s, p.st, from, from, amt.int)
      BY <1>1, <1>2, <2>1, <2>4, BankSendSteps
    <3>2. \A x \in Addr : p.st.bal[x] = s.bal[x]
      BY <1>1, <3>1, LedgerFields DEF Moved, Good, Sound
    <3>3. Good(p.st)
      BY <1>2, <3>1, <3>2, PassThrough DEF Moved
    <3>4. ExtendedSupply(p.st) = ExtendedSupply(s) + 0
      BY <3>1, WorthType DEF Moved, ExtendedSupply
    <3>5. \A y \in Holders : Worth(p.st, y) = Worth(s, y) + (IF y = from THEN 0 ELSE 0)
      BY <3>1, <3>2, WorthType DEF Moved, Worth, Holders
    <3>6. Changed(s, p.st, from, 0)
      BY <3>3, <3>4, <3>5 DEF Changed
    <3>7. r.res = "ok" /\ r.st = p.st
      BY <1>5, <2>2, <3>1 DEF Ok
    <3>8. QED
      BY <3>6, <3>7
  <2>5. QED
    BY <1>1, <1>2, <2>3, <2>4
<1>8. QED
  BY <1>6, <1>7

(***************************************************************************)
(* Every exported method is fine.                                          *)
(***************************************************************************)
LEMMA FailedAtOnce ==
    ASSUME NEW s, Good(s)
    PROVE  Fine(s, Err(s))
  BY DEF Fine, Failed, Err, Good, Sound

\* MintCoins keeps the ledger good.
LEMMA MintFine ==
    ASSUME NEW s, Good(s), NEW m \in Addr, NEW amt \in AnyCoins
    PROVE  Fine(s, MintCoins(s, m, amt))
<1>1. CASE m = Reserve \/ m \notin Minters
  <2>1. MintCoins(s, m, amt) = Err(s)
    BY <1>1 DEF MintCoins
  <2>2. QED
    BY <2>1, FailedAtOnce
<1>2. CASE m # Reserve /\ m \in Minters
  <2>1. m \in Holders /\ Value(amt) \in Int
    BY <1>2, ValueType DEF Holders
  <2>2. /\ MintCoins(s, m, amt).res = "ok"
        /\ Changed(s, MintCoins(s, m, amt).st, m, Value(amt))
    BY <1>2, <2>1, MintExact
  <2>3. QED
    BY <2>1, <2>2 DEF Fine, Stepped
<1>3. QED
  BY <1>1, <1>2

\* BurnCoins keeps the ledger good.
LEMMA BurnFine ==
    ASSUME NEW s, Good(s), NEW m \in Addr, NEW amt \in AnyCoins
    PROVE  Fine(s, BurnCoins(s, m, amt))
<1>1. CASE m = Reserve \/ m \notin Burners
  <2>1. BurnCoins(s, m, amt) = Err(s)
    BY <1>1 DEF BurnCoins
  <2>2. QED
    BY <2>1, FailedAtOnce
<1>2. CASE m # Reserve /\ m \in Burners
  <2>1. m \in Holders /\ Value(amt) \in Nat
    BY <1>2, ValueType DEF Holders
  <2>2. PICK r : r = BurnCoins(s, m, amt)
    OBVIOUS
  <2>3. Refused(r, s, m, Value(amt)) \/ (r.res = "ok" /\ Changed(s, r.st, m, -Value(amt)))
    BY <1>2, <2>1, <2>2, BurnExact
  <2>4. PICK d \in Int : d = -Value(amt)
    BY <2>1
  <2>5. QED
    BY <2>1, <2>2, <2>3, <2>4 DEF Fine, Stepped, Refused
<1>3. QED
  BY <1>1, <1>2

\* SendCoins keeps the ledger good.
LEMMA SendFine ==
    ASSUME NEW s, Good(s), NEW from \in Holders, NEW to \in Addr, NEW amt \in AnyCoins
    PROVE  Fine(s, SendCoins(s, from, to, amt))
<1>1. PICK r : r = SendCoins(s, from, to, amt)
  OBVIOUS
<1>2. CASE to \in {from, Reserve}
  BY <1>1, <1>2, SendAside DEF Fine, Stepped
<1>3. CASE to \notin {from, Reserve}
  <2>1. to \in Holders /\ from # to /\ Value(amt) \in Nat
    BY <1>3, ValueType DEF Holders
  <2>2. \/ Refused(r, s, from, Value(amt))
        \/ r.res = "ok" /\ Paid(s, r.st, from, to, Value(amt))
    BY <1>1, <2>1, SendExact
  <2>3. QED
    BY <1>1, <2>1, <2>2 DEF Fine, Stepped, Refused
<1>4. QED
  BY <1>2, <1>3

\* The sends from and to modules keep the ledger good.
LEMMA ModuleSendsFine ==
    ASSUME NEW s, Good(s), NEW from \in Holders, NEW to \in Addr, NEW amt \in AnyCoins
    PROVE  /\ Fine(s, SendCoinsFromAccountToModule(s, from, to, amt))
           /\ Fine(s, SendCoinsFromModuleToAccount(s, from, to, amt))
           /\ Fine(s, SendCoinsFromModuleToModule(s, from, to, amt))
           /\ Fine(s, Send(s, from, to, amt))
  BY SendFine, FailedAtOnce
     DEF SendCoinsFromAccountToModule, SendCoinsFromModuleToAccount,
         SendCoinsFromModuleToModule, Send

\* What is minted for an account reaches it; for the reserve, only whole coins do.
LEMMA MintToAccount ==
    ASSUME NEW s, Good(s), NEW a \in Addr, NEW n \in Nat,
           NEW r, r = MintAmountToAccount(s, a, n)
    PROVE  /\ Fine(s, r)
           /\ a \in Holders \ Blocked /\ EvmModule \in Minters =>
                r.res = "ok" /\ Changed(s, r.st, a, n)
<1>1. EvmModule \in Holders /\ EvmModule \in Addr /\ EvmModule # Reserve
  BY AddrAssumption DEF Holders
<1>2. Extended(n) \in AnyCoins /\ Value(Extended(n)) = n /\ n \in Int /\ -n \in Int
  BY ConversionFactorAssumption DEF Extended, AnyCoins, Value
<1>3. PICK p : p = MintCoins(s, EvmModule, Extended(n))
  OBVIOUS
<1>4. r = IF p.res = "ok"
          THEN SendCoinsFromModuleToAccount(p.st, EvmModule, a, Extended(n)) ELSE p
  BY <1>3 DEF MintAmountToAccount
<1>5. CASE EvmModule \notin Minters
  <2>1. p = Err(s)
    BY <1>3, <1>5 DEF MintCoins
  <2>2. QED
    BY <1>4, <1>5, <2>1, FailedAtOnce DEF Err
<1>6. CASE EvmModule \in Minters
  <2>1. p.res = "ok" /\ Changed(s, p.st, EvmModule, n) /\ Good(p.st)
    BY <1>1, <1>2, <1>3, <1>6, MintExact DEF Changed
  <2>2. CASE a \in Blocked
    <3>1. r = Err(p.st)
      BY <1>4, <2>1, <2>2 DEF SendCoinsFromModuleToAccount
    <3>2. QED
      BY <2>1, <2>2, <3>1 DEF Fine, Failed, Err, Good, Sound
  <2>3. CASE a \notin Blocked
    <3>1. r = SendCoins(p.st, EvmModule, a, Extended(n))
      BY <1>1, <1>4, <2>1, <2>3 DEF SendCoinsFromModuleToAccount
    <3>2. CASE a \in Holders /\ a # EvmModule
      <4>1. Refused(r, p.st, EvmModule, n) \/ (r.res = "ok" /\ Paid(p.st, r.st, EvmModule, a, n))
        BY <1>1, <1>2, <2>1, <3>1, <3>2, SendExact
      <4>2. Worth(p.st, EvmModule) = Worth(s, EvmModule) + n /\ Worth(s, EvmModule) \in Nat
        BY <1>1, <2>1, WorthType DEF Changed
      <4>3. ~(Worth(p.st, EvmModule) < n)
        BY <4>2
      <4>4. r.res = "ok" /\ Paid(p.st, r.st, EvmModule, a, n)
        BY <4>1, <4>3 DEF Refused
      <4>5. Changed(s, r.st, a, n)
        BY <1>1, <2>1, <3>2, <4>4, Successive
      <4>6. QED
        BY <1>2, <3>2, <4>4, <4>5 DEF Fine, Stepped
    <3>3. CASE a = EvmModule
      <4>1. /\ r.res = "ok" /\ r.st = p.st
        <5>1. BankSend(p.st, a, a, 0).res = "ok" /\ BankSend(p.st, a, a, 0).st = p.st
          <6>1. p.st \in Ledger /\ p.st.bal \in [Addr -> Nat] /\ p.st.bal[a] \in Nat
            BY <2>1, LedgerFields DEF Good, Sound
          <6>2. Credit(Credit(p.st.bal, a, -0), a, 0) = p.st.bal
            BY <6>1 DEF Credit
          <6>3. BankSend(p.st, a, a, 0) = [st |-> [p.st EXCEPT !.bal = p.st.bal], res |-> "ok"]
            BY <6>1, <6>2 DEF BankSend, Ok
          <6>4. [p.st EXCEPT !.bal = p.st.bal] = p.st
            BY <6>1 DEF Ledger
          <6>5. QED
            BY <6>3, <6>4
        <5>2. Extended(n).int = 0 /\ Extended(n).ext = n
          BY DEF Extended
        <5>3. ToReserve(BankSend(p.st, a, a, 0), a, 0) = BankSend(p.st, a, a, 0)
          BY <1>1, <3>3 DEF ToReserve
        <5>4. sendExtendedCoins(p.st, a, a, n) = Ok(p.st)
          BY <1>1, <3>3 DEF sendExtendedCoins
        <5>5. QED
          BY <3>1, <3>3, <5>1, <5>2, <5>3, <5>4 DEF SendCoins, Ok
      <4>2. QED
        BY <1>1, <1>2, <2>1, <3>3, <4>1 DEF Fine, Stepped
    <3>4. CASE a = Reserve
      <4>1. Failed(r) \/ (r.res = "ok" /\ \E d \in Int : Changed(p.st, r.st, EvmModule, d))
        BY <1>1, <1>2, <2>1, <3>1, <3>4, SendAside
      <4>2. ASSUME NEW d \in Int, Changed(p.st, r.st, EvmModule, d), r.res = "ok"
            PROVE  Fine(s, r)
        <5>1. Changed(s, r.st, EvmModule, n + d) /\ n + d \in Int
          BY <1>1, <1>2, <2>1, <4>2, ChangedTwice
        <5>2. QED
          BY <1>1, <4>2, <5>1 DEF Fine, Stepped
      <4>3. QED
        BY <3>4, <4>1, <4>2 DEF Fine, Holders
    <3>5. QED
      BY <3>2, <3>3, <3>4 DEF Holders
  <2>4. QED
    BY <2>2, <2>3
<1>7. QED
  BY <1>5, <1>6

\* What is burned of an account's balance is taken from it.
LEMMA BurnFromAccount ==
    ASSUME NEW s, Good(s), NEW a \in Holders, NEW n \in Nat, n <= Worth(s, a), n > 0,
           NEW r, r = BurnAmountFromAccount(s, a, n)
    PROVE  /\ Fine(s, r)
           /\ EvmModule \in Burners => r.res = "ok" /\ Changed(s, r.st, a, -n)
<1>1. EvmModule \in Holders /\ EvmModule \in Addr /\ EvmModule # Reserve /\ a \in Addr
  BY AddrAssumption DEF Holders
<1>2. Extended(n) \in AnyCoins /\ Value(Extended(n)) = n /\ n \in Int /\ -n \in Int
  BY ConversionFactorAssumption DEF Extended, AnyCoins, Value
<1>3. PICK p : p = SendCoins(s, a, EvmModule, Extended(n))
  OBVIOUS
<1>4. r = IF p.res = "ok" THEN BurnCoins(p.st, EvmModule, Extended(n)) ELSE p
  BY <1>1, <1>3 DEF BurnAmountFromAccount, SendCoinsFromAccountToModule
<1>5. PICK q : q = BurnCoins(p.st, EvmModule, Extended(n))
  OBVIOUS
<1>6. Worth(s, a) \in Nat /\ Worth(s, EvmModule) \in Nat
  BY <1>1, WorthType
<1>7. CASE a # EvmModule
  <2>1. p.res = "ok" /\ Paid(s, p.st, a, EvmModule, n) /\ Good(p.st)
    <3>1. Refused(p, s, a, n) \/ (p.res = "ok" /\ Paid(s, p.st, a, EvmModule, n))
      BY <1>1, <1>2, <1>3, <1>7, SendExact
    <3>2. ~Refused(p, s, a, n)
      BY <1>6 DEF Refused
    <3>3. QED
      BY <3>1, <3>2 DEF Paid
  <2>2. CASE EvmModule \notin Burners
    <3>1. r = Err(p.st)
      BY <1>4, <2>1, <2>2 DEF BurnCoins
    <3>2. QED
      BY <2>1, <2>2, <3>1 DEF Fine, Failed, Err, Good, Sound
  <2>3. CASE EvmModule \in Burners
    <3>1. Refused(q, p.st, EvmModule, n) \/ (q.res = "ok" /\ Changed(p.st, q.st, EvmModule, -n))
      BY <1>1, <1>2, <1>5, <2>1, <2>3, BurnExact
    <3>2. Worth(p.st, EvmModule) = Worth(s, EvmModule) - 0 + n
      BY <1>1, <1>7, <2>1 DEF Paid
    <3>3. ~Refused(q, p.st, EvmModule, n)
      BY <1>6, <3>2 DEF Refused
    <3>4. Changed(s, q.st, a, -n)
      BY <1>1, <2>1, <3>1, <3>3, Successive
    <3>5. QED
      BY <1>2, <1>4, <1>5, <2>1, <3>1, <3>3, <3>4 DEF Fine, Stepped
  <2>4. QED
    BY <2>2, <2>3
<1>8. CASE a = EvmModule
  <2>1. p.res = "ok" /\ p.st = s
    <3>1. BankSend(s, a, a, 0).res = "ok" /\ BankSend(s, a, a, 0).st = s
      <4>1. s \in Ledger /\ s.bal \in [Addr -> Nat] /\ s.bal[a] \in Nat
        BY <1>1, LedgerFields DEF Good, Sound
      <4>2. Credit(Credit(s.bal, a, -0), a, 0) = s.bal
        BY <4>1 DEF Credit
      <4>3. BankSend(s, a, a, 0) = [st |-> [s EXCEPT !.bal = s.bal], res |-> "ok"]
        BY <4>1, <4>2 DEF BankSend, Ok
      <4>4. [s EXCEPT !.bal = s.bal] = s
        BY <4>1 DEF Ledger
      <4>5. QED
        BY <4>3, <4>4
    <3>2. Extended(n).int = 0 /\ Extended(n).ext = n
      BY DEF Extended
    <3>3. ToReserve(BankSend(s, a, a, 0), a, 0) = BankSend(s, a, a, 0)
      BY <1>1, <1>8 DEF ToReserve
    <3>4. sendExtendedCoins(s, a, a, n) = Ok(s)
      BY <1>1, <1>8 DEF sendExtendedCoins
    <3>5. QED
      BY <1>3, <1>8, <3>1, <3>2, <3>3, <3>4 DEF SendCoins, Ok
  <2>2. r = q
    BY <1>4, <1>5, <2>1
  <2>3. CASE EvmModule \notin Burners
    <3>1. q = Err(s)
      BY <1>5, <2>1, <2>3 DEF BurnCoins
    <3>2. QED
      BY <2>2, <2>3, <3>1, FailedAtOnce
  <2>4. CASE EvmModule \in Burners
    <3>1. Refused(q, s, EvmModule, n) \/ (q.res = "ok" /\ Changed(s, q.st, EvmModule, -n))
      BY <1>1, <1>2, <1>5, <2>1, <2>4, BurnExact
    <3>2. ~Refused(q, s, EvmModule, n)
      BY <1>6, <1>8 DEF Refused
    <3>3. QED
      BY <1>1, <1>2, <1>8, <2>2, <3>1, <3>2 DEF Fine, Stepped
  <2>5. QED
    BY <2>3, <2>4
<1>9. QED
  BY <1>7, <1>8

\* SetBalance gives an account exactly the balance of the EVM.
LEMMA SetBalanceExact ==
    ASSUME NEW s, Good(s), NEW a \in Addr, NEW amount \in Nat,
           NEW r, r = SetBalance(s, a, amount)
    PROVE  /\ Fine(s, r)
           /\ a \in Holders \ Blocked /\ EvmModule \in Minters \cap Burners =>
                r.res = "ok" /\ Changed(s, r.st, a, amount - Worth(s, a))
<1>1. GetBalance(s, a) \in Nat /\ (a \in Holders => GetBalance(s, a) = Worth(s, a))
  BY WorthType DEF GetBalance, Holders
<1>2. PICK delta \in Int : delta = amount - GetBalance(s, a)
  BY <1>1
<1>3. r = IF delta > 0 THEN MintAmountToAccount(s, a, delta)
          ELSE IF delta < 0 THEN BurnAmountFromAccount(s, a, -delta)
          ELSE Ok(s)
  BY <1>2 DEF SetBalance
<1>4. CASE delta > 0
  <2>1. delta \in Nat /\ r = MintAmountToAccount(s, a, delta)
    BY <1>3, <1>4
  <2>2. QED
    BY <1>1, <1>2, <2>1, MintToAccount
<1>5. CASE delta < 0
  <2>1. a \in Holders
    BY <1>1, <1>2, <1>5 DEF GetBalance, Holders
  <2>2. -delta \in Nat /\ -delta > 0 /\ -delta <= Worth(s, a) /\ -(-delta) = delta
    BY <1>1, <1>2, <1>5, <2>1
  <2>3. r = BurnAmountFromAccount(s, a, -delta)
    BY <1>3, <1>5
  <2>4. QED
    BY <1>1, <1>2, <2>1, <2>2, <2>3, BurnFromAccount
<1>6. CASE delta = 0
  <2>1. r.res = "ok" /\ r.st = s
    BY <1>3, <1>6 DEF Ok
  <2>2. \A x \in Holders : Changed(s, s, x, 0)
    BY WorthType DEF Changed
  <2>3. EvmModule \in Holders
    BY AddrAssumption DEF Holders
  <2>4. QED
    BY <1>1, <1>2, <1>6, <2>1, <2>2, <2>3 DEF Fine, Stepped
<1>7. QED
  BY <1>4, <1>5, <1>6

(***************************************************************************)
(* The inductive invariant.  ReserveBacked alone is not inductive: that    *)
(* the reserve can pay a carry needs the types, and that x/bank's supply   *)
(* follows its balances is kept along with it.  After a failed call only   *)
(* the type of the running ledger is known, and nothing more is needed:    *)
(* it is dropped for the saved one.                                        *)
(***************************************************************************)
Inv ==
    /\ Good(saved)
    /\ mode \in {"idle", "open", "failed"}
    /\ mode \in {"idle", "open"} => Good(ledger)
    /\ ledger \in Ledger
    /\ ops \in 0 .. MaxOps

\* Nothing adds up to nothing.
LEMMA ZeroSum ==
    ASSUME NEW f \in [Addr -> Nat], \A a \in Addr : f[a] = 0
    PROVE  SumOf(f) = 0
<1>1. \A a \in Addr : Column(a, f[a]) = {}
  BY DEF Column
<1>2. Cells(f) = {}
  BY <1>1 DEF Cells
<1>3. QED
  BY <1>2, FS_EmptySet DEF SumOf

\* A genesis that is accepted is a good ledger.
LEMMA GenesisGood ==
    ASSUME NEW bal \in [Addr -> Nat], NEW frac \in [Addr -> Fraction], NEW rem \in Fraction,
           InitGenesis(bal, frac, rem)
    PROVE  Good(ledger)
<1> DEFINE total == SumOf(frac) + rem
           surplus == bal[Reserve] - total \div CF
<1>1. CF \in Nat /\ CF > 0 /\ Fraction \subseteq Nat /\ Reserve \in Addr
  BY ConversionFactorAssumption, AddrAssumption DEF Fraction
<1>2. SumOf(bal) \in Nat /\ SumOf(frac) \in Nat /\ total \in Nat /\ bal[Reserve] \in Nat
  <2>1. frac \in [Addr -> Nat] /\ rem \in Nat
    BY <1>1
  <2>2. SumOf(frac) \in Nat /\ SumOf(bal) \in Nat
    BY <2>1, CellsFinite
  <2>3. QED
    BY <1>1, <2>1, <2>2
<1>3. ledger = [bal |-> bal, frac |-> frac, rem |-> rem,
                supply |-> SumOf(bal), surplus |-> surplus]
  BY DEF InitGenesis
<1>4. total % CF = 0 /\ (total = bal[Reserve] * CF \/ (rem = 0 /\ \A a \in Addr : frac[a] = 0))
  BY DEF InitGenesis
<1>5. surplus \in Nat /\ total + surplus * CF = bal[Reserve] * CF
  <2>1. CASE total = bal[Reserve] * CF
    <3>1. total \div CF = bal[Reserve]
      BY <1>1, <1>2, <2>1
    <3>2. surplus = 0
      BY <1>2, <3>1
    <3> HIDE DEF surplus, total
    <3>3. surplus * CF = 0
      BY <1>1, <3>2
    <3>4. total + 0 = total
      BY <1>2
    <3>5. QED
      BY <2>1, <3>2, <3>3, <3>4
  <2>2. CASE rem = 0 /\ \A a \in Addr : frac[a] = 0
    <3>1. frac \in [Addr -> Nat]
      BY <1>1
    <3>2. SumOf(frac) = 0
      BY <2>2, <3>1, ZeroSum
    <3>3. total = 0 /\ total \div CF = 0
      BY <1>1, <2>2, <3>2
    <3>4. surplus = bal[Reserve]
      BY <1>2, <3>3
    <3>5. QED
      BY <1>1, <1>2, <3>3, <3>4
  <2>3. QED
    BY <1>4, <2>1, <2>2
<1> HIDE DEF surplus
<1>6. ledger \in Ledger
  BY <1>2, <1>3, <1>5 DEF Ledger
<1>7. QED
  BY <1>3, <1>5, <1>6 DEF Good, Sound, Backed

\* The invariant holds at the start.
LEMMA InitInv == Init => Inv
<1> SUFFICES ASSUME Init PROVE Inv
  OBVIOUS
<1>1. PICK bal \in [Addr -> 0 .. MaxGenesis], frac \in [Addr -> Fraction], rem \in Fraction :
          InitGenesis(bal, frac, rem)
  BY DEF Init
<1>2. bal \in [Addr -> Nat] /\ MaxOps \in Nat
  BY BoundAssumption
<1>3. Good(ledger)
  BY <1>1, <1>2, GenesisGood
<1>4. QED
  BY <1>2, <1>3 DEF Init, Inv, Good, Sound

\* The ledger after a step is good.
LEMMA SteppedGood ==
    ASSUME NEW s, NEW t, Stepped(s, t)
    PROVE  Good(t)
  BY DEF Stepped, Changed, Paid

\* One keeper call with a fine outcome keeps the invariant.
LEMMA CallInv ==
    ASSUME NEW o, Inv, mode = "open" => Fine(ledger, o), Call(o)
    PROVE  Inv'
<1>1. mode = "open" /\ ops < MaxOps /\ ops' = ops + 1 /\ saved' = saved /\ ledger' = o.st
  BY DEF Call
<1>2. MaxOps \in Nat /\ ops' \in 0 .. MaxOps
  BY <1>1, BoundAssumption DEF Inv
<1>3. Good(saved)'
  BY <1>1 DEF Inv, Good, Sound, Backed
<1>4. CASE Failed(o)
  <2>1. mode' = "failed"
    BY <1>4 DEF Call, Failed
  <2>2. ledger' \in Ledger
    BY <1>1, <1>4 DEF Failed
  <2>3. QED
    BY <1>2, <1>3, <2>1, <2>2 DEF Inv
<1>5. CASE o.res = "ok" /\ Good(o.st)
  <2>1. mode' = "open"
    BY <1>5 DEF Call
  <2>2. Good(ledger)' /\ ledger' \in Ledger
    BY <1>1, <1>5 DEF Good, Sound, Backed
  <2>3. QED
    BY <1>2, <1>3, <2>1, <2>2 DEF Inv
<1>6. QED
  BY <1>1, <1>4, <1>5, SteppedGood DEF Fine

KeeperCall ==
    \/ Mint \/ Burn \/ Transfer \/ AccountToModule \/ ModuleToAccount \/ ModuleToModule
    \/ MsgSend \/ WriteBalance

\* Every action but the transaction's own is one call with a fine outcome.
LEMMA CallsFine ==
    ASSUME Inv, KeeperCall
    PROVE  \E o : Call(o) /\ (mode = "open" => Fine(ledger, o))
<1>1. Coins \subseteq AnyCoins /\ 0 .. MaxExt \subseteq Nat /\ Modules \subseteq Addr
      /\ Sender = Holders /\ Holders \subseteq Addr
  BY BoundAssumption, AddrAssumption DEF Coins, AnyCoins, Sender, Holders
<1>2. mode = "open" => Good(ledger)
  BY DEF Inv
<1>3. CASE Mint
  <2>1. PICK m \in Modules, amt \in Coins : Call(MintCoins(ledger, m, amt))
    BY <1>3 DEF Mint
  <2>2. mode = "open" => Fine(ledger, MintCoins(ledger, m, amt))
    BY <1>1, <1>2, MintFine
  <2>3. QED
    BY <2>1, <2>2
<1>4. CASE Burn
  <2>1. PICK m \in Modules, amt \in Coins : Call(BurnCoins(ledger, m, amt))
    BY <1>4 DEF Burn
  <2>2. mode = "open" => Fine(ledger, BurnCoins(ledger, m, amt))
    BY <1>1, <1>2, BurnFine
  <2>3. QED
    BY <2>1, <2>2
<1>5. CASE Transfer
  <2>1. PICK from \in Sender, to \in Addr, amt \in Coins :
            Call(SendCoins(ledger, from, to, amt))
    BY <1>5 DEF Transfer
  <2>2. mode = "open" => Fine(ledger, SendCoins(ledger, from, to, amt))
    BY <1>1, <1>2, SendFine
  <2>3. QED
    BY <2>1, <2>2
<1>6. CASE AccountToModule
  <2>1. PICK from \in Sender, m \in Modules, amt \in Coins :
            Call(SendCoinsFromAccountToModule(ledger, from, m, amt))
    BY <1>6 DEF AccountToModule
  <2>2. mode = "open" => Fine(ledger, SendCoinsFromAccountToModule(ledger, from, m, amt))
    BY <1>1, <1>2, ModuleSendsFine
  <2>3. QED
    BY <2>1, <2>2
<1>7. CASE ModuleToAccount
  <2>1. PICK m \in Modules, to \in Addr, amt \in Coins :
            Call(SendCoinsFromModuleToAccount(ledger, m, to, amt))
    BY <1>7 DEF ModuleToAccount
  <2>2. mode = "open" => Fine(ledger, SendCoinsFromModuleToAccount(ledger, m, to, amt))
    <3>1. CASE m = Reserve
      BY <1>2, <3>1, FailedAtOnce DEF SendCoinsFromModuleToAccount
    <3>2. CASE m # Reserve
      <4>1. m \in Holders /\ amt \in AnyCoins
        BY <1>1, <3>2 DEF Holders
      <4>2. QED
        BY <1>2, <4>1, ModuleSendsFine
    <3>3. QED
      BY <3>1, <3>2
  <2>3. QED
    BY <2>1, <2>2
<1>8. CASE ModuleToModule
  <2>1. PICK m \in Modules \ {Reserve}, n \in Modules, amt \in Coins :
            Call(SendCoinsFromModuleToModule(ledger, m, n, amt))
    BY <1>8 DEF ModuleToModule
  <2>2. m \in Holders /\ n \in Addr /\ amt \in AnyCoins
    BY <1>1 DEF Holders
  <2>3. mode = "open" => Fine(ledger, SendCoinsFromModuleToModule(ledger, m, n, amt))
    BY <1>2, <2>2, ModuleSendsFine
  <2>4. QED
    BY <2>1, <2>3
<1>9. CASE MsgSend
  <2>1. PICK from \in Sender, to \in Addr, amt \in Coins : Call(Send(ledger, from, to, amt))
    BY <1>9 DEF MsgSend
  <2>2. mode = "open" => Fine(ledger, Send(ledger, from, to, amt))
    BY <1>1, <1>2, ModuleSendsFine
  <2>3. QED
    BY <2>1, <2>2
<1>10. CASE WriteBalance
  <2>1. PICK a \in Addr, amount \in 0 .. MaxExt : Call(SetBalance(ledger, a, amount))
    BY <1>10 DEF WriteBalance
  <2>2. mode = "open" => Fine(ledger, SetBalance(ledger, a, amount))
    BY <1>1, <1>2, SetBalanceExact
  <2>3. QED
    BY <2>1, <2>2
<1>11. QED
  BY <1>3, <1>4, <1>5, <1>6, <1>7, <1>8, <1>9, <1>10 DEF KeeperCall

\* Every step keeps the invariant.
LEMMA StepInv == Inv /\ [Next]_vars => Inv'
<1> SUFFICES ASSUME Inv, [Next]_vars PROVE Inv'
  OBVIOUS
<1>1. 0 \in 0 .. MaxOps
  BY BoundAssumption
<1>2. CASE BeginTx
  BY <1>1, <1>2 DEF BeginTx, Inv, Good, Sound, Backed
<1>3. CASE CommitTx
  BY <1>1, <1>3 DEF CommitTx, Inv, Good, Sound, Backed
<1>4. CASE RollbackTx
  BY <1>1, <1>4 DEF RollbackTx, Inv, Good, Sound, Backed
<1>5. CASE KeeperCall
  BY <1>5, CallsFine, CallInv
<1>6. CASE UNCHANGED vars
  BY <1>6 DEF vars, Inv, Good, Sound, Backed
<1>7. QED
  BY <1>2, <1>3, <1>4, <1>5, <1>6 DEF Next, KeeperCall

\* The invariant gives the type invariant.
LEMMA InvTypes == Inv => TypeOK
  BY DEF Inv, Good, Sound, TypeOK

\* The invariant gives ReserveBacked.
LEMMA InvBacked == Inv => ReserveBacked
  BY DEF Inv, Good, ReserveBacked

\* The invariant gives NeverBroken.
LEMMA InvNeverBroken == Inv => NeverBroken
  BY DEF Inv, NeverBroken

\* The invariant holds in every reachable state.
THEOREM Invariance == Spec => []Inv
<1>1. Init => Inv
  BY InitInv
<1>2. Inv /\ [Next]_vars => Inv'
  BY StepInv
<1>3. QED
  BY <1>1, <1>2, PTL DEF Spec

\* Fractions and the remainder stay below one coin and no x/bank balance goes
\* negative, through every sequence of keeper calls.
THEOREM TypeCorrect == Spec => []TypeOK
  BY Invariance, InvTypes, PTL

\* The coins of the reserve are at all times those that back the fractions of
\* all accounts and the remainder, whatever the conversion factor, the number
\* of accounts and the amounts moved: the books of x/precisebank's mint, burn
\* and send balance.
THEOREM ReserveAlwaysBacked == Spec => []ReserveBacked
  BY Invariance, InvBacked, PTL

\* No call ever reaches one of x/precisebank's panics: the reserve always has
\* the coin a carry or a remainder overflow takes from it.
THEOREM NoPanic == Spec => []NeverBroken
  BY Invariance, InvNeverBroken, PTL

(***************************************************************************)
(* The refinement.                                                         *)
(***************************************************************************)
\* No less is in circulation than nothing: the reserve covers the remainder.
LEMMA SupplyType ==
    ASSUME NEW s, Good(s)
    PROVE  ExtendedSupply(s) \in Nat /\ Balances(s) \in [Holders -> Nat]
<1>1. /\ s.bal \in [Addr -> Nat] /\ s.frac \in [Addr -> Nat] /\ s.rem \in Nat
      /\ s.supply \in Nat /\ s.surplus \in Nat /\ CF \in Nat /\ Reserve \in Addr
      /\ s.supply = SumOf(s.bal) /\ s.bal[Reserve] \in Nat /\ SumOf(s.frac) \in Nat
  BY LedgerFields, ConversionFactorAssumption, AddrAssumption, CellsFinite DEF Good, Sound
<1>2. s.supply >= s.bal[Reserve]
  BY <1>1, SumBounds
<1>3. SumOf(s.frac) + s.rem + s.surplus * CF = s.bal[Reserve] * CF
  BY DEF Good, Backed
<1>4. (s.supply - s.bal[Reserve]) * CF = s.supply * CF - s.bal[Reserve] * CF
      /\ (s.supply - s.surplus) * CF = s.supply * CF - s.surplus * CF
  BY <1>1, Times
<1>5. /\ (s.supply - s.bal[Reserve]) * CF \in Nat
      /\ s.supply * CF \in Int /\ s.surplus * CF \in Int /\ s.bal[Reserve] * CF \in Int
  BY <1>1, <1>2
<1>6. (s.supply - s.surplus) * CF - s.rem \in Nat
  BY <1>1, <1>3, <1>4, <1>5
<1>7. Balances(s) \in [Holders -> Nat]
  BY WorthType DEF Balances
<1>8. QED
  BY <1>6, <1>7 DEF ExtendedSupply

\* The initial states are initial states of the abstract bank.
LEMMA InitMaps == Init => Abstract!Init
<1> SUFFICES ASSUME Init PROVE Abstract!Init
  OBVIOUS
<1>1. Good(ledger) /\ mode = "idle" /\ saved = ledger
  BY InitInv DEF Init, Inv
<1>2. Visible = ledger
  BY <1>1 DEF Visible
<1>3. QED
  BY <1>1, <1>2, SupplyType DEF Abstract!Init

\* The balances after a change of one holder's balance by d.
LEMMA ChangedBalances ==
    ASSUME NEW s, Good(s), NEW t, NEW x \in Holders, NEW d \in Int, Changed(s, t, x, d)
    PROVE  /\ Balances(t) = [Balances(s) EXCEPT ![x] = Balances(s)[x] + d]
           /\ Balances(t)[x] - Balances(s)[x] = d
           /\ Balances(s)[x] = Worth(s, x) /\ Balances(s)[x] + d >= 0
<1>1. Good(t) /\ \A y \in Holders : Worth(t, y) = Worth(s, y) + (IF y = x THEN d ELSE 0)
  BY DEF Changed
<1>2. /\ \A y \in Holders : Balances(s)[y] = Worth(s, y) /\ Worth(s, y) \in Nat
      /\ \A y \in Holders : Balances(t)[y] = Worth(t, y) /\ Worth(t, y) \in Nat
  BY <1>1, WorthType DEF Balances
<1>3. Balances(t) \in [Holders -> Nat] /\ Balances(s) \in [Holders -> Nat]
  BY <1>1, SupplyType
<1>4. \A y \in Holders : Balances(t)[y] = [Balances(s) EXCEPT ![x] = Balances(s)[x] + d][y]
  BY <1>1, <1>2, <1>3
<1>5. Balances(t) = [Balances(s) EXCEPT ![x] = Balances(s)[x] + d]
  BY <1>3, <1>4
<1>6. Balances(t)[x] = Balances(s)[x] + d /\ Balances(s)[x] = Worth(s, x)
      /\ Balances(t)[x] \in Nat /\ Balances(s)[x] \in Nat
  BY <1>1, <1>2
<1>7. Balances(s)[x] + d >= 0
  BY <1>6
<1>8. Balances(t)[x] - Balances(s)[x] = d
  <2>1. \A i, j \in Nat : i = j + d => i - j = d
    OBVIOUS
  <2>2. QED
    BY <1>6, <2>1
<1>9. QED
  BY <1>5, <1>6, <1>7, <1>8

\* The balances after a payment of n from a to b.
LEMMA PaidBalances ==
    ASSUME NEW s, Good(s), NEW t, NEW a \in Holders, NEW b \in Holders, a # b, NEW n \in Nat,
           Paid(s, t, a, b, n)
    PROVE  /\ Balances(t) = [[Balances(s) EXCEPT ![a] = Balances(s)[a] - n]
                                          EXCEPT ![b] = Balances(s)[b] + n]
           /\ Balances(t)[b] - Balances(s)[b] = n
           /\ Balances(s)[a] = Worth(s, a) /\ Balances(s)[a] >= n
<1>1. /\ Good(t)
      /\ \A y \in Holders : Worth(t, y) = Worth(s, y) - (IF y = a THEN n ELSE 0)
                                                      + (IF y = b THEN n ELSE 0)
  BY DEF Paid
<1>2. /\ \A y \in Holders : Balances(s)[y] = Worth(s, y) /\ Worth(s, y) \in Nat
      /\ \A y \in Holders : Balances(t)[y] = Worth(t, y) /\ Worth(t, y) \in Nat
  BY <1>1, WorthType DEF Balances
<1>3. Balances(t) \in [Holders -> Nat] /\ Balances(s) \in [Holders -> Nat]
  BY <1>1, SupplyType
<1> DEFINE g == [[Balances(s) EXCEPT ![a] = Balances(s)[a] - n]
                              EXCEPT ![b] = Balances(s)[b] + n]
<1>4. \A y \in Holders : Balances(t)[y] = g[y]
  BY <1>1, <1>2, <1>3
<1>5. Balances(t) = g
  BY <1>3, <1>4
<1>6. /\ Balances(t)[a] = Balances(s)[a] - n /\ Balances(t)[b] = Balances(s)[b] + n
      /\ Balances(s)[a] = Worth(s, a) /\ Balances(t)[a] \in Nat /\ Balances(s)[a] \in Nat
      /\ Balances(t)[b] \in Nat /\ Balances(s)[b] \in Nat
  BY <1>1, <1>2
<1>7. Balances(s)[a] >= n
  BY <1>6
<1>8. Balances(t)[b] - Balances(s)[b] = n
  <2>1. \A i, j \in Nat : i = j + n => i - j = n
    OBVIOUS
  <2>2. QED
    BY <1>6, <2>1
<1>9. QED
  BY <1>5, <1>6, <1>7, <1>8

\* One keeper call is a step of the plain bank.
LEMMA CallMaps ==
    ASSUME NEW o, Inv, mode = "open" => Fine(ledger, o), Call(o)
    PROVE  Abstract!Next
<1>1. /\ mode = "open" /\ saved' = saved /\ ledger' = o.st
      /\ Fine(ledger, o) /\ Good(ledger)
  BY DEF Call, Inv
<1>2. Visible = ledger
  BY <1>1 DEF Visible
<1>3. CASE Failed(o)
  <2>1. mode' = "failed"
    BY <1>3 DEF Call, Failed
  <2>2. Visible' = saved
    BY <1>1, <2>1 DEF Visible
  <2>3. Abstract!Fail
    BY <1>1, <1>2, <2>1, <2>2 DEF Abstract!Fail, Abstract!Abandon
  <2>4. QED
    BY <2>3 DEF Abstract!Next
<1>4. CASE o.res = "ok" /\ Stepped(ledger, o.st)
  <2>1. mode' = "open"
    BY <1>4 DEF Call
  <2>2. Visible' = o.st
    BY <1>1, <2>1 DEF Visible
  <2>3. ASSUME NEW x \in Holders, NEW d \in Int, Changed(ledger, o.st, x, d)
        PROVE  Abstract!Next
    <3>1. /\ Balances(o.st) = [Balances(ledger) EXCEPT ![x] = Balances(ledger)[x] + d]
          /\ Balances(o.st)[x] - Balances(ledger)[x] = d
          /\ Balances(ledger)[x] + d >= 0 /\ Balances(ledger)[x] \in Nat
      BY <1>1, <2>3, ChangedBalances, WorthType
    <3>2. ExtendedSupply(o.st) = ExtendedSupply(ledger) + d
      BY <2>3 DEF Changed
    <3>3. Abstract!Amount(x) = d
      BY <1>2, <2>2, <3>1 DEF Abstract!Amount
    <3>4. CASE d >= 0
      <4>1. Abstract!Apply(Abstract!Mint(Balances(Visible), x, d), d)
        BY <1>1, <1>2, <2>1, <2>2, <3>1, <3>2 DEF Abstract!Apply, Abstract!Mint
      <4>2. Abstract!Issue
        BY <3>3, <3>4, <4>1 DEF Abstract!Issue
      <4>3. QED
        BY <4>2 DEF Abstract!Next
    <3>5. CASE d < 0
      <4>1. Balances(ledger)[x] >= -d /\ Balances(ledger)[x] - (-d) = Balances(ledger)[x] + d
        BY <3>1, <3>5
      <4>2. Abstract!Apply(Abstract!Burn(Balances(Visible), x, -d), d)
        BY <1>1, <1>2, <2>1, <2>2, <3>1, <3>2, <4>1 DEF Abstract!Apply, Abstract!Burn
      <4>3. Abstract!Retire
        BY <3>3, <3>5, <4>2 DEF Abstract!Retire
      <4>4. QED
        BY <4>3 DEF Abstract!Next
    <3>6. QED
      BY <3>4, <3>5
  <2>4. ASSUME NEW a \in Holders, NEW b \in Holders, NEW n \in Nat, Paid(ledger, o.st, a, b, n)
        PROVE  Abstract!Next
    <3>1. CASE a = b
      <4>1. \A y \in Holders : Worth(ledger, y) \in Int
        BY <1>1, WorthType
      <4>2. Changed(ledger, o.st, a, 0)
        BY <1>1, <2>4, <3>1, <4>1, WorthType DEF Paid, Changed
      <4>3. QED
        BY <2>3, <4>2
    <3>2. CASE a # b
      <4>1. /\ Balances(o.st) = [[Balances(ledger) EXCEPT ![a] = Balances(ledger)[a] - n]
                                                   EXCEPT ![b] = Balances(ledger)[b] + n]
            /\ Balances(o.st)[b] - Balances(ledger)[b] = n
            /\ Balances(ledger)[a] >= n
        BY <1>1, <2>4, <3>2, PaidBalances
      <4>2. Abstract!Amount(b) = n
        BY <1>2, <2>2, <4>1 DEF Abstract!Amount
      <4>3. ExtendedSupply(o.st) = ExtendedSupply(ledger) + 0
        BY <1>1, <2>4, WorthType DEF Paid
      <4>4. Balances(ledger) \in [Holders -> Nat]
        BY <1>1, SupplyType
      <4>5. [Balances(ledger) EXCEPT ![a] = Balances(ledger)[a] - n][b] = Balances(ledger)[b]
        BY <3>2, <4>4
      <4>6. Abstract!Apply(Abstract!Move(Balances(Visible), a, b, n), 0)
        BY <1>1, <1>2, <2>1, <2>2, <4>1, <4>3, <4>5 DEF Abstract!Apply, Abstract!Move
      <4>7. Abstract!Pay
        BY <4>2, <4>6 DEF Abstract!Pay
      <4>8. QED
        BY <4>7 DEF Abstract!Next
    <3>3. QED
      BY <3>1, <3>2
  <2>5. QED
    BY <1>4, <2>3, <2>4 DEF Stepped
<1>5. QED
  BY <1>1, <1>3, <1>4 DEF Fine

\* Every step of the keeper is a step of the plain bank, or none.
LEMMA StepMaps == Inv /\ [Next]_vars => [Abstract!Next]_(Abstract!vars)
<1> SUFFICES ASSUME Inv, [Next]_vars PROVE [Abstract!Next]_(Abstract!vars)
  OBVIOUS
<1>1. CASE BeginTx
  <2>1. Abstract!Begin
    BY <1>1 DEF BeginTx, Visible, Abstract!Begin
  <2>2. QED
    BY <2>1 DEF Abstract!Next
<1>2. CASE CommitTx
  <2>1. Abstract!Commit
    BY <1>2 DEF CommitTx, Visible, Abstract!Commit
  <2>2. QED
    BY <2>1 DEF Abstract!Next
<1>3. CASE RollbackTx
  <2>1. Abstract!Rollback
    BY <1>3 DEF RollbackTx, Visible, Abstract!Rollback, Abstract!Abandon
  <2>2. QED
    BY <2>1 DEF Abstract!Next
<1>4. CASE UNCHANGED vars
  BY <1>4 DEF vars, Visible, Abstract!vars
<1>5. ASSUME NEW o, mode = "open" => Fine(ledger, o), Call(o) PROVE Abstract!Next
  BY <1>5, CallMaps
<1>6. CASE KeeperCall
  BY <1>5, <1>6, CallsFine
<1>7. QED
  BY <1>1, <1>2, <1>3, <1>4, <1>6 DEF Next, KeeperCall

\* The keeper's extended coin is a plain bank's coin: with any conversion factor, accounts
\* and amounts, no sequence of carries, borrows and remainder overflows is visible in
\* the balances and the supply, and a failed call disappears with its transaction.
THEOREM Refinement == Spec => ImplementsExtendedBank
<1>1. Init => Abstract!Init
  BY InitMaps
<1>2. Inv /\ [Next]_vars => [Abstract!Next]_(Abstract!vars)
  BY StepMaps
<1>3. QED
  BY <1>1, <1>2, Invariance, PTL DEF Spec, ImplementsExtendedBank, Abstract!Spec

(***************************************************************************)
(* The outcome of a call.                                                  *)
(***************************************************************************)
LEMMA AgreesOk ==
    ASSUME NEW o, o.res = "ok", NEW r, r.ok = TRUE, Balances(o.st) = r.bal
    PROVE  Agrees(o, r)
  BY DEF Agrees

\* A failure agrees with a refusal.
LEMMA AgreesErr ==
    ASSUME NEW o, Failed(o), NEW r, r.ok = FALSE
    PROVE  Agrees(o, r)
  BY DEF Agrees, Failed

\* The invariant gives CallsExact.
LEMMA InvCallsExact == Inv => CallsExact
<1> SUFFICES ASSUME Inv, mode = "open", NEW a \in Holders, NEW amt \in Coins
             PROVE  /\ a \in Minters =>
                         Agrees(MintCoins(ledger, a, amt),
                                Abstract!Mint(Balances(ledger), a, Value(amt)))
                    /\ a \in Burners =>
                         Agrees(BurnCoins(ledger, a, amt),
                                Abstract!Burn(Balances(ledger), a, Value(amt)))
                    /\ \A b \in Holders \ {a} :
                         Agrees(SendCoins(ledger, a, b, amt),
                                Abstract!Move(Balances(ledger), a, b, Value(amt)))
                    /\ a \notin Blocked /\ EvmModule \in Minters \cap Burners =>
                         Agrees(SetBalance(ledger, a, amt.ext),
                                Abstract!Assign(Balances(ledger), a, amt.ext))
  BY DEF CallsExact
<1>1. Good(ledger) /\ amt \in AnyCoins /\ a \in Addr
  BY BoundAssumption DEF Inv, Coins, AnyCoins, Holders
<1>2. Value(amt) \in Nat /\ Value(amt) \in Int /\ -Value(amt) \in Int /\ amt.ext \in Nat
  BY <1>1, ValueType
<1>3. /\ Balances(ledger) \in [Holders -> Nat]
      /\ \A y \in Holders : Balances(ledger)[y] = Worth(ledger, y) /\ Worth(ledger, y) \in Nat
  BY <1>1, SupplyType, WorthType DEF Balances
<1> DEFINE bal == Balances(ledger)
           n == Value(amt)
<1>4. ASSUME a \in Minters
      PROVE  Agrees(MintCoins(ledger, a, amt), Abstract!Mint(bal, a, n))
  <2>1. PICK o : o = MintCoins(ledger, a, amt)
    OBVIOUS
  <2>2. o.res = "ok" /\ Changed(ledger, o.st, a, n)
    BY <1>1, <1>4, <2>1, MintExact
  <2>3. Balances(o.st) = [bal EXCEPT ![a] = bal[a] + n]
    BY <1>1, <1>2, <2>2, ChangedBalances
  <2>4. Abstract!Mint(bal, a, n).ok = TRUE /\ Abstract!Mint(bal, a, n).bal = Balances(o.st)
    BY <2>3 DEF Abstract!Mint
  <2>5. QED
    BY <2>1, <2>2, <2>4, AgreesOk
<1>5. ASSUME a \in Burners
      PROVE  Agrees(BurnCoins(ledger, a, amt), Abstract!Burn(bal, a, n))
  <2>1. PICK o : o = BurnCoins(ledger, a, amt)
    OBVIOUS
  <2>2. Refused(o, ledger, a, n) \/ (o.res = "ok" /\ Changed(ledger, o.st, a, -n))
    BY <1>1, <1>5, <2>1, BurnExact
  <2>3. CASE Refused(o, ledger, a, n)
    <3>1. (bal[a] >= n) = FALSE
      BY <1>2, <1>3, <2>3 DEF Refused
    <3>2. Abstract!Burn(bal, a, n).ok = FALSE
      BY <3>1 DEF Abstract!Burn
    <3>3. QED
      BY <2>1, <2>3, <3>2, AgreesErr DEF Refused
  <2>4. CASE o.res = "ok" /\ Changed(ledger, o.st, a, -n)
    <3>1. /\ Balances(o.st) = [bal EXCEPT ![a] = bal[a] + (-n)]
          /\ bal[a] + (-n) >= 0
      BY <1>1, <1>2, <2>4, ChangedBalances
    <3>2. (bal[a] >= n) = TRUE /\ bal[a] + (-n) = bal[a] - n
      BY <1>2, <1>3, <3>1
    <3>3. Abstract!Burn(bal, a, n).ok = TRUE
      BY <3>2 DEF Abstract!Burn
    <3>4. Abstract!Burn(bal, a, n).bal = Balances(o.st)
      BY <3>1, <3>2 DEF Abstract!Burn
    <3>5. QED
      BY <2>1, <2>4, <3>3, <3>4, AgreesOk
  <2>5. QED
    BY <2>2, <2>3, <2>4
<1>6. ASSUME NEW b \in Holders \ {a}
      PROVE  Agrees(SendCoins(ledger, a, b, amt), Abstract!Move(bal, a, b, n))
  <2>1. PICK o : o = SendCoins(ledger, a, b, amt)
    OBVIOUS
  <2>2. Refused(o, ledger, a, n) \/ (o.res = "ok" /\ Paid(ledger, o.st, a, b, n))
    BY <1>1, <2>1, SendExact
  <2>3. CASE Refused(o, ledger, a, n)
    <3>1. (bal[a] >= n) = FALSE
      BY <1>2, <1>3, <2>3 DEF Refused
    <3>2. Abstract!Move(bal, a, b, n).ok = FALSE
      BY <3>1 DEF Abstract!Move
    <3>3. QED
      BY <2>1, <2>3, <3>2, AgreesErr DEF Refused
  <2>4. CASE o.res = "ok" /\ Paid(ledger, o.st, a, b, n)
    <3>1. /\ Balances(o.st) = [[bal EXCEPT ![a] = bal[a] - n] EXCEPT ![b] = bal[b] + n]
          /\ bal[a] >= n
      BY <1>1, <1>2, <2>4, PaidBalances, ZenonT(60)
    <3>2. (bal[a] >= n) = TRUE /\ [bal EXCEPT ![a] = bal[a] - n][b] = bal[b]
      BY <1>2, <1>3, <3>1
    <3>3. Abstract!Move(bal, a, b, n).ok = TRUE
      BY <3>2 DEF Abstract!Move
    <3>4. Abstract!Move(bal, a, b, n).bal = Balances(o.st)
      BY <3>1, <3>2 DEF Abstract!Move
    <3>5. QED
      BY <2>1, <2>4, <3>3, <3>4, AgreesOk
  <2>5. QED
    BY <2>2, <2>3, <2>4
<1>7. ASSUME a \notin Blocked, EvmModule \in Minters \cap Burners
      PROVE  Agrees(SetBalance(ledger, a, amt.ext), Abstract!Assign(bal, a, amt.ext))
  <2>1. PICK o : o = SetBalance(ledger, a, amt.ext)
    OBVIOUS
  <2>2. o.res = "ok" /\ Changed(ledger, o.st, a, amt.ext - Worth(ledger, a))
    BY <1>1, <1>2, <1>7, <2>1, SetBalanceExact
  <2>3. PICK d \in Int : d = amt.ext - Worth(ledger, a)
    BY <1>2, <1>3
  <2> HIDE DEF bal
  <2>8. Changed(ledger, o.st, a, d)
    BY <2>2, <2>3
  <2>4. Balances(o.st) = [bal EXCEPT ![a] = bal[a] + d]
    BY <1>1, <2>8, ChangedBalances DEF bal
  <2>5. bal[a] + d = amt.ext
    <3>1. \A i, j \in Nat : d = i - j => j + d = i
      OBVIOUS
    <3>2. bal[a] = Worth(ledger, a) /\ bal[a] \in Nat
      BY <1>3 DEF bal
    <3>3. QED
      BY <1>2, <2>3, <3>1, <3>2
  <2>6. Abstract!Assign(bal, a, amt.ext).ok = TRUE
        /\ Abstract!Assign(bal, a, amt.ext).bal = Balances(o.st)
    BY <2>4, <2>5 DEF Abstract!Assign
  <2>7. QED
    BY <2>1, <2>2, <2>6, AgreesOk
<1>8. QED
  BY <1>4, <1>5, <1>6, <1>7

\* Mint, burn, send and SetBalance succeed exactly when the payer's full balance covers the
\* amount, and then change extended balances by exactly what was asked for, whatever the
\* conversion factor, the fractions held and the amounts.
THEOREM CallsAlwaysExact == Spec => []CallsExact
  BY Invariance, InvCallsExact, PTL
=============================================================================
