-------------------------------- MODULE Sums --------------------------------
(***************************************************************************)
(* The sum of natural numbers over a finite set, as a cardinality: one     *)
(* cell per unit.  What an update does to a sum follows from how the cells *)
(* split into columns, and MapThenSumSet of FiniteSetsExt, whose recursion *)
(* the provers cannot unfold by themselves, is shown to be the same sum.   *)
(* The last section is about folds that compute no sum.                    *)
(***************************************************************************)
EXTENDS Integers, FiniteSetsExt, FiniteSetTheorems, NaturalsInduction, WellFoundedInduction, TLAPS

Column(a, n) == {a} \X (0 .. n - 1)

CellsOn(S, f) == UNION {Column(a, f[a]) : a \in S}

SumOn(S, f) == Cardinality(CellsOn(S, f))

\* A column of height n has n cells.
LEMMA ColumnSize ==
    ASSUME NEW a, NEW n \in Nat
    PROVE  IsFiniteSet(Column(a, n)) /\ Cardinality(Column(a, n)) = n
<1>1. IsFiniteSet(0 .. n - 1) /\ Cardinality(0 .. n - 1) = n
  BY FS_Interval
<1>2. IsFiniteSet({a}) /\ Cardinality({a}) = 1
  BY FS_Singleton
<1>3. QED
  BY <1>1, <1>2, FS_Product DEF Column

\* The cells are finitely many, so the sum is a number.
LEMMA SumOnType ==
    ASSUME NEW S, IsFiniteSet(S), NEW f, \A a \in S : f[a] \in Nat
    PROVE  IsFiniteSet(CellsOn(S, f)) /\ SumOn(S, f) \in Nat
<1> DEFINE columns == {Column(a, f[a]) : a \in S}
           g == [a \in S |-> Column(a, f[a])]
<1>1. g \in Surjection(S, columns)
  BY DEF Surjection
<1>2. IsFiniteSet(columns)
  BY <1>1, FS_Surjection
<1>3. \A c \in columns : IsFiniteSet(c)
  BY ColumnSize
<1>4. IsFiniteSet(CellsOn(S, f))
  BY <1>2, <1>3, FS_UNION DEF CellsOn
<1>5. QED
  BY <1>4, FS_CardinalityType DEF SumOn

\* The sum over no index is nothing, and equal numbers have equal sums.
LEMMA SumOnEmpty ==
    ASSUME NEW f
    PROVE  SumOn({}, f) = 0
<1>1. CellsOn({}, f) = {}
  BY DEF CellsOn
<1>2. QED
  BY <1>1, FS_EmptySet DEF SumOn

\* Sums of equal numbers are equal.
LEMMA SumOnEqual ==
    ASSUME NEW S, NEW f, NEW g, \A a \in S : f[a] = g[a]
    PROVE  SumOn(S, f) = SumOn(S, g)
<1>1. CellsOn(S, f) = CellsOn(S, g)
  <2>1. \A a \in S : Column(a, f[a]) = Column(a, g[a])
    OBVIOUS
  <2>2. {Column(a, f[a]) : a \in S} = {Column(a, g[a]) : a \in S}
    BY <2>1
  <2>3. QED
    BY <2>2 DEF CellsOn
<1>2. QED
  BY <1>1 DEF SumOn

\* One index may be taken out of a sum.
LEMMA SumOnSplit ==
    ASSUME NEW S, IsFiniteSet(S), NEW f, \A b \in S : f[b] \in Nat, NEW a \in S
    PROVE  SumOn(S, f) = f[a] + SumOn(S \ {a}, f) /\ SumOn(S \ {a}, f) \in Nat
<1>1. IsFiniteSet(S \ {a})
  BY FS_Subset
<1>2. /\ IsFiniteSet(CellsOn(S \ {a}, f)) /\ SumOn(S \ {a}, f) \in Nat
      /\ IsFiniteSet(Column(a, f[a])) /\ Cardinality(Column(a, f[a])) = f[a]
  BY <1>1, SumOnType, ColumnSize
<1>3. CellsOn(S, f) = Column(a, f[a]) \cup CellsOn(S \ {a}, f)
  BY DEF CellsOn
<1>4. Column(a, f[a]) \cap CellsOn(S \ {a}, f) = {}
  BY DEF CellsOn, Column
<1>5. Cardinality(CellsOn(S, f)) = f[a] + Cardinality(CellsOn(S \ {a}, f)) - 0
  BY <1>2, <1>3, <1>4, FS_Union, FS_EmptySet, ZenonT(60)
<1>6. QED
  BY <1>2, <1>5 DEF SumOn

\* Numbers that differ at one index have sums that differ as much.
LEMMA SumOnChange ==
    ASSUME NEW S, IsFiniteSet(S), NEW f, NEW g, NEW a \in S,
           \A b \in S : f[b] \in Nat /\ g[b] \in Nat /\ (b # a => g[b] = f[b])
    PROVE  /\ SumOn(S, g) = SumOn(S, f) - f[a] + g[a]
           /\ SumOn(S, f) \in Nat /\ SumOn(S, f) >= f[a]
<1>1. SumOn(S \ {a}, f) = SumOn(S \ {a}, g)
  BY SumOnEqual
<1>2. /\ SumOn(S, f) = f[a] + SumOn(S \ {a}, f)
      /\ SumOn(S, g) = g[a] + SumOn(S \ {a}, g)
      /\ SumOn(S \ {a}, f) \in Nat
  BY SumOnSplit
<1>3. QED
  BY <1>1, <1>2

\* Numbers that differ at two indexes.
LEMMA SumOnTransfer ==
    ASSUME NEW S, IsFiniteSet(S), NEW f, NEW g, NEW a \in S, NEW b \in S, a # b,
           \A c \in S : f[c] \in Nat /\ g[c] \in Nat /\ (c # a /\ c # b => g[c] = f[c])
    PROVE  SumOn(S, g) = SumOn(S, f) - f[a] + g[a] - f[b] + g[b]
<1>1. SumOn(S \ {a}, g) = SumOn(S \ {a}, f) - f[b] + g[b]
  <2> DEFINE T == S \ {a}
  <2>1. IsFiniteSet(T) /\ b \in T
    BY FS_Subset
  <2>2. \A c \in T : f[c] \in Nat /\ g[c] \in Nat /\ (c # b => g[c] = f[c])
    OBVIOUS
  <2> HIDE DEF T
  <2>3. SumOn(T, g) = SumOn(T, f) - f[b] + g[b]
    BY <2>1, <2>2, SumOnChange
  <2>4. QED
    BY <2>3 DEF T
<1>2. /\ SumOn(S, f) = f[a] + SumOn(S \ {a}, f)
      /\ SumOn(S, g) = g[a] + SumOn(S \ {a}, g)
      /\ SumOn(S \ {a}, f) \in Nat
  BY SumOnSplit
<1>3. f[a] \in Nat /\ g[a] \in Nat /\ f[b] \in Nat /\ g[b] \in Nat
  OBVIOUS
<1>4. QED
  BY <1>1, <1>2, <1>3

\* A sum of zeroes is zero.
LEMMA SumOnZero ==
    ASSUME NEW S, NEW f, \A a \in S : f[a] = 0
    PROVE  SumOn(S, f) = 0
<1>1. \A a \in S : Column(a, f[a]) = {}
  BY DEF Column
<1>2. CellsOn(S, f) = {}
  BY <1>1 DEF CellsOn
<1>3. QED
  BY <1>2, FS_EmptySet DEF SumOn

\* A sum over one number more.
LEMMA SumAppend ==
    ASSUME NEW n \in Nat, NEW f, NEW g, \A i \in 1 .. n : f[i] \in Nat /\ g[i] = f[i], g[n + 1] \in Nat
    PROVE  SumOn(1 .. n + 1, g) = SumOn(1 .. n, f) + g[n + 1] /\ SumOn(1 .. n, f) \in Nat
<1>1. PICK S, T, k : S = 1 .. n /\ T = 1 .. n + 1 /\ k = n + 1
  OBVIOUS
<1>2. IsFiniteSet(T) /\ IsFiniteSet(S) /\ k \in T /\ S = T \ {k}
  <2>1. IsFiniteSet(1 .. n) /\ IsFiniteSet(1 .. n + 1)
    BY FS_Interval
  <2>2. n + 1 \in 1 .. n + 1 /\ 1 .. n = (1 .. n + 1) \ {n + 1}
    OBVIOUS
  <2>3. QED
    BY <1>1, <2>1, <2>2
<1>3. (\A b \in T : g[b] \in Nat) /\ (\A b \in S : g[b] = f[b]) /\ (\A b \in S : f[b] \in Nat)
  BY <1>1
<1>4. SumOn(T, g) = g[k] + SumOn(S, g)
  BY <1>2, <1>3, SumOnSplit
<1>5. SumOn(S, g) = SumOn(S, f) /\ SumOn(S, f) \in Nat
  BY <1>2, <1>3, SumOnEqual, SumOnType
<1>6. QED
  BY <1>1, <1>3, <1>4, <1>5

(***************************************************************************)
(* A recursion over the subsets of a finite set that adds the number of    *)
(* an element it picks has one solution, the sum: that the sum solves it   *)
(* is SumOnSplit, and a smallest set on which another solution differs     *)
(* cannot exist.  MapThenSumSet is such a recursion, and so is FoldLeft of *)
(* an addition, which picks the last index.                                *)
(***************************************************************************)
Adds(S, f, pick, it) ==
    \A s \in SUBSET S :
        /\ s = {} => it[s] = 0
        /\ s # {} => /\ pick[s] \in s
                     /\ \/ it[s] = f[pick[s]] + it[s \ {pick[s]}]
                        \/ it[s] = it[s \ {pick[s]}] + f[pick[s]]

\* The sum solves the recursion that takes out one element, whichever it is.
LEMMA SumSolves ==
    ASSUME NEW S, IsFiniteSet(S), NEW f, \A a \in S : f[a] \in Nat, NEW s \in SUBSET S, NEW x \in s
    PROVE  /\ SumOn(s, f) = f[x] + SumOn(s \ {x}, f)
           /\ SumOn(s, f) = SumOn(s \ {x}, f) + f[x]
<1>1. IsFiniteSet(s) /\ \A a \in s : f[a] \in Nat
  BY FS_Subset
<1>2. QED
  BY <1>1, SumOnSplit

\* It is the only solution: a minimal set where another one differs cannot be.
LEMMA AddsIsSum ==
    ASSUME NEW S, IsFiniteSet(S), NEW f, \A a \in S : f[a] \in Nat, NEW pick, NEW g, Adds(S, f, pick, g)
    PROVE  g[S] = SumOn(S, f)
<1> DEFINE differ == {s \in SUBSET S : g[s] # SumOn(s, f)}
           R == StrictSubsetOrdering(S)
<1> SUFFICES ASSUME differ # {} PROVE FALSE
  BY Zenon
<1>1. IsWellFoundedOn(R, FiniteSubsetsOf(S))
  BY FS_StrictSubsetOrderingWellFounded
<1>2. differ \subseteq FiniteSubsetsOf(S)
  BY FS_Subset DEF FiniteSubsetsOf
<1>3. PICK s \in differ : \A t \in differ : <<t, s>> \notin R
  BY <1>1, <1>2, WFMin
<1>4. s # {}
  BY <1>3, SumOnEmpty DEF Adds
<1>5. PICK x : x = pick[s]
  OBVIOUS
<1>6. x \in s /\ s \ {x} \in SUBSET S /\ s \in SUBSET S
  BY <1>3, <1>4, <1>5 DEF Adds
<1>7. <<s \ {x}, s>> \in R
  BY <1>6 DEF StrictSubsetOrdering
<1>8. g[s \ {x}] = SumOn(s \ {x}, f)
  BY <1>3, <1>6, <1>7
<1>9. g[s] = f[x] + SumOn(s \ {x}, f) \/ g[s] = SumOn(s \ {x}, f) + f[x]
  BY <1>4, <1>5, <1>6, <1>8 DEF Adds
<1>10. g[s] = SumOn(s, f)
  BY <1>6, <1>9, SumSolves
<1>11. QED
  BY <1>3, <1>10

\* Max picks an element of a set of indexes: FoldLeft, which folds the last index first
\* of all that are left, is such a recursion.
LEMMA LastIndex ==
    ASSUME NEW n \in Nat, NEW s \in SUBSET (1 .. n), s # {}
    PROVE  Max(s) \in s
<1> DEFINE R == {q \in Nat \X Nat : q[1] < q[2]}
           below == {n - i : i \in s}
<1>1. IsWellFoundedOn(R, Nat)
  <2>1. OpToRel(<, Nat) = R
    BY DEF OpToRel
  <2>2. QED
    BY <2>1, NatLessThanWellFounded
<1>2. below \subseteq Nat /\ below # {}
  <2>1. \A i \in s : n - i \in Nat
    OBVIOUS
  <2>2. QED
    BY <2>1
<1> HIDE DEF below
<1>3. PICK k \in below : \A t \in below : <<t, k>> \notin R
  BY <1>1, <1>2, WFMin
<1>4. \A t \in below : k <= t
  <2> SUFFICES ASSUME NEW t \in below, t < k PROVE FALSE
    BY <1>2, <1>3
  <2>1. <<t, k>> \in R
    BY <1>2, <1>3
  <2>2. QED
    BY <1>3, <2>1
<1>5. \E i \in s : \A j \in s : i >= j
  <2>1. PICK i \in s : k = n - i
    BY <1>3 DEF below
  <2>2. \A j \in s : n - j \in below
    BY DEF below
  <2>3. \A j \in s : j \in Int /\ n - i <= n - j
    BY <1>4, <2>1, <2>2
  <2>4. QED
    BY <2>1, <2>3
<1>6. QED
  BY <1>5 DEF Max

\* MapThenSumSet is the sum.
LEMMA MapThenSumIsSum ==
    ASSUME NEW S, IsFiniteSet(S), NEW f, \A a \in S : f[a] \in Nat
    PROVE  MapThenSumSet(LAMBDA a : f[a], S) = SumOn(S, f)
<1> DEFINE pick == [s \in SUBSET S |-> CHOOSE x \in s : TRUE]
           sums == [s \in SUBSET S |-> SumOn(s, f)]
           Iter(it) == it = [s \in SUBSET S |->
                                IF s = {} THEN 0
                                ELSE f[CHOOSE x \in s : TRUE] + it[s \ {CHOOSE x \in s : TRUE}]]
           iter == CHOOSE it : Iter(it)
<1>1. \A s \in SUBSET S : s # {} => (CHOOSE x \in s : TRUE) \in s
  OBVIOUS
<1>2. Iter(sums)
  <2>1. ASSUME NEW s \in SUBSET S, s # {}, NEW x, x = CHOOSE y \in s : TRUE
        PROVE  sums[s] = f[x] + sums[s \ {x}]
    <3>1. x \in s /\ s \ {x} \in SUBSET S
      BY <1>1, <2>1
    <3>2. SumOn(s, f) = f[x] + SumOn(s \ {x}, f)
      BY <3>1, SumSolves
    <3>3. QED
      BY <3>1, <3>2
  <2>2. sums[{}] = 0
    BY SumOnEmpty
  <2>3. QED
    BY <2>1, <2>2
<1>3. Iter(iter)
  BY <1>2
<1>4. MapThenSumSet(LAMBDA a : f[a], S) = iter[S]
  BY DEF MapThenSumSet, MapThenFoldSet
<1>5. \A it : Iter(it) => Adds(S, f, pick, it)
  BY <1>1 DEF Adds
<1> HIDE DEF iter, pick
<1>6. iter[S] = SumOn(S, f)
  BY <1>3, <1>5, AddsIsSum
<1>7. QED
  BY <1>4, <1>6

(***************************************************************************)
(* Folds without a closed form.  A fold over a finite set S combines the   *)
(* element it picks with the fold of the rest.  The recursion has a        *)
(* solution, and all values of a solution are in a set T that has the base *)
(* and is closed under the step: T may be as small as an invariant.        *)
(***************************************************************************)
IsFold(S, F, pick, base, it) ==
    it = [s \in SUBSET S |-> IF s = {} THEN base ELSE F[<<pick[s], it[s \ {pick[s]}]>>]]

\* A set of natural numbers has a least one.
LEMMA LeastNumber ==
    ASSUME NEW P \in SUBSET Nat, P # {}
    PROVE  \E k \in P : \A m \in P : k <= m
<1> DEFINE R == {q \in Nat \X Nat : q[1] < q[2]}
<1>1. IsWellFoundedOn(R, Nat)
  <2>1. OpToRel(<, Nat) = R
    BY DEF OpToRel
  <2>2. QED
    BY <2>1, NatLessThanWellFounded
<1>2. PICK k \in P : \A m \in P : <<m, k>> \notin R
  BY <1>1, WFMin
<1>3. ASSUME NEW m \in P, m < k PROVE FALSE
  <2>1. <<m, k>> \in R
    BY <1>3
  <2>2. QED
    BY <1>2, <2>1
<1>4. QED
  BY <1>2, <1>3

\* Min picks an element of a set of indexes, which FoldRight folds last of all.
LEMMA FirstIndex ==
    ASSUME NEW s \in SUBSET Nat, s # {}
    PROVE  Min(s) \in s /\ \A i \in s : Min(s) <= i
<1>1. \E k \in s : \A i \in s : k <= i
  BY LeastNumber
<1>2. QED
  BY <1>1 DEF Min

\* The values of a solution are in every set that has the base and is closed under the
\* step.
LEMMA FoldsInto ==
    ASSUME NEW S, IsFiniteSet(S), NEW T, NEW pick, NEW it, it[{}] \in T,
           \A s \in SUBSET S : s # {} => /\ pick[s] \in s
                                         /\ it[s \ {pick[s]}] \in T => it[s] \in T
    PROVE  \A s \in SUBSET S : it[s] \in T
<1> DEFINE out == {s \in SUBSET S : it[s] \notin T}
           R == StrictSubsetOrdering(S)
<1> SUFFICES ASSUME out # {} PROVE FALSE
  BY Zenon
<1>1. IsWellFoundedOn(R, FiniteSubsetsOf(S))
  BY FS_StrictSubsetOrderingWellFounded
<1>2. out \subseteq FiniteSubsetsOf(S)
  BY FS_Subset DEF FiniteSubsetsOf
<1>3. PICK s \in out : \A t \in out : <<t, s>> \notin R
  BY <1>1, <1>2, WFMin
<1>4. s \in SUBSET S /\ s # {}
  BY <1>3
<1>5. PICK x, t : x = pick[s] /\ t = s \ {x}
  OBVIOUS
<1>6. x \in s /\ t \in SUBSET S
  BY <1>4, <1>5
<1>7. <<t, s>> \in R
  BY <1>4, <1>5, <1>6 DEF StrictSubsetOrdering
<1>8. it[t] \in T
  BY <1>3, <1>6, <1>7
<1>9. QED
  BY <1>3, <1>4, <1>5, <1>8

\* A solution exists: one on the sets of at most k elements extends to those of k + 1.
LEMMA FoldExists ==
    ASSUME NEW S, IsFiniteSet(S), NEW F, NEW pick, NEW base,
           \A s \in SUBSET S : s # {} => pick[s] \in s
    PROVE  \E it : IsFold(S, F, pick, base, it)
<1> DEFINE Upto(k, g) == \A s \in SUBSET S : Cardinality(s) <= k =>
                             g[s] = IF s = {} THEN base ELSE F[<<pick[s], g[s \ {pick[s]}]>>]
           without == {k \in Nat : ~ \E g : Upto(k, g)}
<1>1. \A s \in SUBSET S : Cardinality(s) \in Nat /\ Cardinality(s) <= Cardinality(S)
  BY FS_Subset, FS_CardinalityType
<1>2. \A s \in SUBSET S : s # {} => /\ s \ {pick[s]} \in SUBSET S
                                    /\ Cardinality(s \ {pick[s]}) = Cardinality(s) - 1
  <2> SUFFICES ASSUME NEW s \in SUBSET S, s # {}
               PROVE  Cardinality(s \ {pick[s]}) = Cardinality(s) - 1
    OBVIOUS
  <2>1. IsFiniteSet(s) /\ pick[s] \in s
    BY FS_Subset
  <2>2. QED
    BY <2>1, FS_RemoveElement
<1>3. \A s \in SUBSET S : Cardinality(s) <= 0 => s = {}
  BY <1>1, FS_Subset, FS_EmptySet
<1>4. Upto(0, [s \in SUBSET S |-> base])
  BY <1>3
<1>5. without = {}
  <2> SUFFICES ASSUME without # {} PROVE FALSE
    OBVIOUS
  <2>1. PICK k \in without : \A m \in without : k <= m
    BY LeastNumber
  <2>2. k \in Nat /\ k # 0
    <3>1. k \in Nat /\ ~ \E g : Upto(k, g)
      BY <2>1
    <3> HIDE DEF Upto
    <3>2. QED
      BY <1>4, <3>1
  <2>3. k - 1 \in Nat /\ k - 1 \notin without
    <3>1. k - 1 \in Nat /\ ~ (k <= k - 1)
      BY <2>2
    <3>2. QED
      BY <2>1, <3>1
  <2>4. PICK g : Upto(k - 1, g)
    BY <2>3
  <2> DEFINE h == [s \in SUBSET S |-> IF Cardinality(s) <= k - 1 THEN g[s]
                                      ELSE F[<<pick[s], g[s \ {pick[s]}]>>]]
  <2>5. ASSUME NEW s \in SUBSET S, Cardinality(s) <= k, s # {}
        PROVE  h[s] = F[<<pick[s], h[s \ {pick[s]}]>>]
    <3>1. PICK t : t = s \ {pick[s]}
      OBVIOUS
    <3>2. t \in SUBSET S /\ Cardinality(t) <= k - 1
      <4>1. t \in SUBSET S /\ Cardinality(t) = Cardinality(s) - 1
        BY <1>2, <2>5, <3>1
      <4>2. Cardinality(s) \in Nat
        BY <1>1
      <4>3. QED
        BY <2>2, <2>5, <4>1, <4>2
    <3>3. h[t] = g[t]
      BY <3>2
    <3>4. h[s] = F[<<pick[s], g[t]>>]
      <4>1. CASE Cardinality(s) <= k - 1
        <5>1. h[s] = g[s]
          BY <4>1
        <5>2. g[s] = F[<<pick[s], g[s \ {pick[s]}]>>]
          BY <2>4, <2>5, <4>1
        <5>3. QED
          BY <3>1, <5>1, <5>2
      <4>2. CASE ~ (Cardinality(s) <= k - 1)
        BY <3>1, <4>2
      <4>3. QED
        BY <4>1, <4>2
    <3> HIDE DEF h
    <3>5. QED
      BY <3>1, <3>3, <3>4
  <2>6. h[{}] = base
    <3>1. Cardinality({}) = 0 /\ {} \in SUBSET S
      BY FS_EmptySet
    <3>2. g[{}] = base
      <4>1. Cardinality({}) <= k - 1
        BY <2>2, <3>1
      <4>2. QED
        BY <2>4, <3>1, <4>1
    <3>3. QED
      BY <2>2, <3>1, <3>2
  <2> HIDE DEF h
  <2>7. Upto(k, h)
    BY <2>5, <2>6
  <2>8. QED
    BY <2>1, <2>7
<1>6. PICK g : Upto(Cardinality(S), g)
  BY <1>1, <1>5
<1> DEFINE it == [s \in SUBSET S |-> g[s]]
<1>7. ASSUME NEW s \in SUBSET S
      PROVE  it[s] = IF s = {} THEN base ELSE F[<<pick[s], it[s \ {pick[s]}]>>]
  <2>1. it[s] = g[s] /\ (s # {} => it[s \ {pick[s]}] = g[s \ {pick[s]}])
    BY <1>2
  <2> HIDE DEF it
  <2>2. QED
    BY <1>1, <1>6, <2>1
<1>8. IsFold(S, F, pick, base, it)
  <2>1. it = [s \in SUBSET S |-> it[s]]
    OBVIOUS
  <2> HIDE DEF it
  <2>2. QED
    BY <1>7, <2>1 DEF IsFold
<1>9. QED
  BY <1>8

\* it and closed start alike, and each step keeps them alike.
SameSteps(S, pick, it, closed) ==
    /\ it[{}] = closed[{}]
    /\ \A s \in SUBSET S : s # {} => /\ pick[s] \in s
                                     /\ it[s \ {pick[s]}] = closed[s \ {pick[s]}] => it[s] = closed[s]

\* A solution with a closed form: what the base and the step have, every value has.
LEMMA FoldIs ==
    ASSUME NEW S, IsFiniteSet(S), NEW pick, NEW it, NEW closed, SameSteps(S, pick, it, closed)
    PROVE  \A s \in SUBSET S : it[s] = closed[s]
<1> USE DEF SameSteps
<1> DEFINE same == [s \in SUBSET S |-> IF it[s] = closed[s] THEN 1 ELSE 0]
           T == {1}
<1>1. \A s \in SUBSET S : same[s] \in T <=> it[s] = closed[s]
  OBVIOUS
<1>2. \A s \in SUBSET S : s # {} => s \ {pick[s]} \in SUBSET S
  OBVIOUS
<1> HIDE DEF same, T
<1>3. same[{}] \in T
  BY <1>1
<1>4. \A s \in SUBSET S : s # {} => /\ pick[s] \in s
                                    /\ same[s \ {pick[s]}] \in T => same[s] \in T
  BY <1>1, <1>2
<1>5. \A s \in SUBSET S : same[s] \in T
  BY <1>3, <1>4, FoldsInto
<1>6. QED
  BY <1>1, <1>5

\* A pair of what was folded and what came of it is good if it is in G: base gives a
\* good pair, and every round leads from one good pair to another.
Tracks(S, F, pick, base, G) ==
    /\ \A s \in SUBSET S : s # {} => pick[s] \in s
    /\ <<{}, base>> \in G
    /\ \A s \in SUBSET S : \A x \in S \ s : \A v :
           <<s, v>> \in G => <<s \cup {x}, F[<<x, v>>]>> \in G

\* Such a fold exists, and gives a good pair for every part of the set.
LEMMA FoldTracks ==
    ASSUME NEW S, IsFiniteSet(S), NEW F, NEW pick, NEW base, NEW G, Tracks(S, F, pick, base, G)
    PROVE  \E it : IsFold(S, F, pick, base, it) /\ \A s \in SUBSET S : <<s, it[s]>> \in G
<1> USE DEF Tracks
<1>1. PICK it : IsFold(S, F, pick, base, it)
  BY FoldExists
<1>2. \A s \in SUBSET S : it[s] = IF s = {} THEN base ELSE F[<<pick[s], it[s \ {pick[s]}]>>]
  BY <1>1 DEF IsFold
<1> DEFINE pair == [s \in SUBSET S |-> <<s, it[s]>>]
<1>3. \A s \in SUBSET S : pair[s] = <<s, it[s]>>
  OBVIOUS
<1> HIDE DEF pair
<1>4. pair[{}] \in G
  BY <1>2, <1>3
<1>5. ASSUME NEW s \in SUBSET S, s # {}
      PROVE  pick[s] \in s /\ (pair[s \ {pick[s]}] \in G => pair[s] \in G)
  <2>1. PICK x, r, v : x = pick[s] /\ r = s \ {x} /\ v = it[r]
    OBVIOUS
  <2>2. x \in s /\ x \in S \ r /\ r \in SUBSET S /\ r \cup {x} = s
    BY <1>5, <2>1
  <2>3. pair[r] = <<r, v>> /\ pair[s] = <<s, F[<<x, v>>]>>
    BY <1>2, <1>3, <1>5, <2>1, <2>2
  <2>4. <<r, v>> \in G => <<r \cup {x}, F[<<x, v>>]>> \in G
    BY <2>2
  <2>5. QED
    BY <2>1, <2>2, <2>3, <2>4
<1>6. \A s \in SUBSET S : pair[s] \in G
  BY <1>4, <1>5, FoldsInto
<1>7. QED
  BY <1>1, <1>3, <1>6
=============================================================================
