------------------------ MODULE BalanceHandlerProofs ------------------------
(***************************************************************************)
(* Proofs about BalanceHandler for every set of calls, every way they      *)
(* share handlers, every set of addresses and any number of events.        *)
(***************************************************************************)
EXTENDS BalanceHandler, SequenceTheorems, Sums

(***************************************************************************)
(* What a sequence of events comes to, gains and losses apart.             *)
(***************************************************************************)
Balances == [Addr -> Int]

Gains(es, a)  == [i \in 1 .. Len(es) |-> IF Effect(es[i], a) > 0 THEN Effect(es[i], a) ELSE 0]
Losses(es, a) == [i \in 1 .. Len(es) |-> IF Effect(es[i], a) < 0 THEN - Effect(es[i], a) ELSE 0]

NetOn(s, es, a) == SumOn(s, Gains(es, a)) - SumOn(s, Losses(es, a))

Net(es, a) == NetOn(1 .. Len(es), es, a)

(***************************************************************************)
(* The inductive invariant.                                                *)
(***************************************************************************)
Labels == {"called", "ready", "running", "reverted", "done", "panicked"}

TypesOK ==
    /\ pc \in [Calls -> Labels] /\ events \in [Calls -> Seq(Event)]
    /\ native \in [Calls -> Balances] /\ mirror \in [Calls -> Balances]
    /\ prevEventsLen \in [Handlers -> Nat] /\ overwritten \subseteq Calls

\* Nothing is done before the native code runs, nor mirrored before it returns.
Untouched ==
    \A c \in Calls :
        /\ pc[c] \in {"called", "ready"} => native[c] = NoChange
        /\ pc[c] \in {"called", "ready", "running"} => mirror[c] = NoChange

Since(c) == SubSeq(events[c], prevEventsLen[HandlerOf[c]] + 1, Len(events[c]))

\* The number a running call finds in its handler is its own: the events after it are
\* those of its native code.
OwnEvents ==
    \A c \in Calls \ overwritten :
        pc[c] = "running" =>
            /\ prevEventsLen[HandlerOf[c]] <= Len(events[c])
            /\ \A a \in Addr : native[c][a] = Net(Since(c), a)

Inv == TypesOK /\ Untouched /\ OwnEvents /\ MirrorsTheCall

(***************************************************************************)
(* Events and their replay.                                                *)
(***************************************************************************)
LEMMA EventFields ==
    ASSUME NEW e \in Event
    PROVE  \/ e.type = "other"
           \/ e.type \in {"coin_spent", "coin_received"} /\ e.addr \in Addr /\ e.amount \in Int
           \/ e.type = "fractional_balance_change" /\ e.addr \in Addr /\ e.amount \in Int
<1>1. CASE e \in BankEvent
  BY <1>1 DEF BankEvent
<1>2. CASE e \in FractionalEvent
  BY <1>2 DEF FractionalEvent
<1>3. CASE e = [type |-> "other"]
  BY <1>3
<1>4. QED
  BY <1>1, <1>2, <1>3 DEF Event

\* An event changes the balance of one address, and its replay by as much unless the
\* address is blocked.
LEMMA OneEvent ==
    ASSUME NEW e \in Event, NEW b \in Balances
    PROVE  /\ Replay(b, e) \in Balances
           /\ \A a \in Addr : /\ Effect(e, a) \in Int
                              /\ Replay(b, e)[a] = IF a \in Blocked THEN b[a] ELSE b[a] + Effect(e, a)
<1>1. \A a \in Addr : b[a] \in Int /\ b[a] + 0 = b[a]
  BY DEF Balances
<1>2. CASE e.type = "other"
  BY <1>1, <1>2 DEF Replay, Effect
<1>3. ASSUME NEW n \in Int, e.addr \in Addr, e.type # "other",
             \A a \in Addr : Effect(e, a) = IF e.addr = a THEN n ELSE 0,
             Replay(b, e) = IF Bypassed(e) THEN b ELSE AddBalance(b, e.addr, n)
      PROVE  /\ Replay(b, e) \in Balances
             /\ \A a \in Addr : /\ Effect(e, a) \in Int
                                /\ Replay(b, e)[a] = IF a \in Blocked THEN b[a] ELSE b[a] + Effect(e, a)
  <2>1. PICK x : x = e.addr
    OBVIOUS
  <2>2. CASE x \in Blocked
    BY <1>1, <1>3, <2>1, <2>2 DEF Bypassed
  <2>3. CASE x \notin Blocked
    <3>1. Replay(b, e) = [b EXCEPT ![x] = b[x] + n]
      BY <1>3, <2>1, <2>3 DEF Bypassed, AddBalance
    <3>2. b[x] + n \in Int /\ x \in Addr /\ b \in [Addr -> Int]
      BY <1>1, <1>3, <2>1 DEF Balances
    <3>3. Replay(b, e) \in Balances /\ \A a \in Addr : Replay(b, e)[a] = IF a = x THEN b[x] + n ELSE b[a]
      BY <3>1, <3>2 DEF Balances
    <3>4. QED
      BY <1>1, <1>3, <2>1, <2>3, <3>3
  <2>4. QED
    BY <2>2, <2>3
<1>4. CASE e.type \in {"coin_spent", "coin_received"} /\ e.addr \in Addr /\ e.amount \in Int
  <2>1. PICK n : n = IF e.type = "coin_spent" THEN - (ConversionFactor * e.amount) ELSE ConversionFactor * e.amount
    OBVIOUS
  <2>2. n \in Int
    <3>1. ConversionFactor \in Int
      BY ParameterAssumption
    <3>2. QED
      BY <1>4, <2>1, <3>1
  <2>3. \A a \in Addr : Effect(e, a) = IF e.addr = a THEN n ELSE 0
    BY <1>4, <2>1 DEF Effect
  <2>4. Replay(b, e) = IF Bypassed(e) THEN b ELSE AddBalance(b, e.addr, n)
    BY <1>4, <2>1 DEF Replay, ParseAmount
  <2>5. QED
    BY <1>3, <1>4, <2>2, <2>3, <2>4
<1>5. CASE e.type = "fractional_balance_change" /\ e.addr \in Addr /\ e.amount \in Int
  <2>1. \A a \in Addr : Effect(e, a) = IF e.addr = a THEN e.amount ELSE 0
    BY <1>5 DEF Effect
  <2>2. Replay(b, e) = IF Bypassed(e) THEN b ELSE AddBalance(b, e.addr, e.amount)
    BY <1>5 DEF Replay
  <2>3. QED
    BY <1>3, <1>5, <2>1, <2>2
<1>6. QED
  BY <1>2, <1>4, <1>5, EventFields

\* An event gives and takes natural amounts, whose difference is its effect.
LEMMA GainsTypes ==
    ASSUME NEW es, es \in Seq(Event), NEW a \in Addr, NEW i \in 1 .. Len(es)
    PROVE  /\ es[i] \in Event /\ Gains(es, a)[i] \in Nat /\ Losses(es, a)[i] \in Nat
           /\ Gains(es, a)[i] - Losses(es, a)[i] = Effect(es[i], a)
<1>1. PICK x, e : e = es[i] /\ x = Effect(es[i], a)
  OBVIOUS
<1>2. e \in Event
  BY <1>1
<1>3. x \in Int
  <2>1. NoChange \in Balances
    BY DEF NoChange, Balances
  <2>2. QED
    BY <1>1, <1>2, <2>1, OneEvent
<1>4. Gains(es, a)[i] = (IF x > 0 THEN x ELSE 0) /\ Losses(es, a)[i] = (IF x < 0 THEN - x ELSE 0)
  BY <1>1 DEF Gains, Losses
<1>5. QED
  BY <1>1, <1>2, <1>3, <1>4

\* Events come to an integer.
LEMMA NetType ==
    ASSUME NEW es, es \in Seq(Event), NEW a \in Addr
    PROVE  Net(es, a) \in Int
<1>1. PICK n : n = Len(es)
  OBVIOUS
<1>2. n \in Nat /\ IsFiniteSet(1 .. n)
  BY <1>1, FS_Interval
<1>3. \A i \in 1 .. n : Gains(es, a)[i] \in Nat /\ Losses(es, a)[i] \in Nat
  BY <1>1, GainsTypes
<1>4. SumOn(1 .. n, Gains(es, a)) \in Nat /\ SumOn(1 .. n, Losses(es, a)) \in Nat
  BY <1>2, <1>3, SumOnType
<1>5. QED
  BY <1>1, <1>4 DEF Net, NetOn

\* Adding the events of a set of indexes, the last one apart.
LEMMA NetSplit ==
    ASSUME NEW es, es \in Seq(Event), NEW s \in SUBSET (1 .. Len(es)), NEW x \in s, NEW a \in Addr
    PROVE  /\ NetOn(s, es, a) = NetOn(s \ {x}, es, a) + Effect(es[x], a)
           /\ NetOn(s, es, a) \in Int /\ NetOn(s \ {x}, es, a) \in Int
<1>1. PICK g, l, S : g = Gains(es, a) /\ l = Losses(es, a) /\ S = 1 .. Len(es)
  OBVIOUS
<1>2. IsFiniteSet(S)
  <2>1. Len(es) \in Nat
    OBVIOUS
  <2>2. IsFiniteSet(1 .. Len(es))
    BY <2>1, FS_Interval
  <2>3. QED
    BY <1>1, <2>2
<1>3. \A i \in S : g[i] \in Nat /\ l[i] \in Nat /\ g[i] - l[i] = Effect(es[i], a)
  BY <1>1, GainsTypes
<1>4. s \in SUBSET S
  BY <1>1
<1>5. SumOn(s, g) = SumOn(s \ {x}, g) + g[x]
  <2>1. IsFiniteSet(s) /\ \A i \in s : g[i] \in Nat
    BY <1>2, <1>3, <1>4, FS_Subset
  <2>2. SumOn(s, g) = g[x] + SumOn(s \ {x}, g) /\ SumOn(s \ {x}, g) \in Nat
    BY <2>1, SumOnSplit
  <2>3. g[x] \in Nat
    BY <2>1
  <2>4. QED
    BY <2>2, <2>3
<1>6. SumOn(s, l) = SumOn(s \ {x}, l) + l[x]
  <2>1. IsFiniteSet(s) /\ \A i \in s : l[i] \in Nat
    BY <1>2, <1>3, <1>4, FS_Subset
  <2>2. SumOn(s, l) = l[x] + SumOn(s \ {x}, l) /\ SumOn(s \ {x}, l) \in Nat
    BY <2>1, SumOnSplit
  <2>3. l[x] \in Nat
    BY <2>1
  <2>4. QED
    BY <2>2, <2>3
<1>7. SumOn(s \ {x}, g) \in Nat /\ SumOn(s \ {x}, l) \in Nat
  <2>1. IsFiniteSet(s \ {x})
    BY <1>2, <1>4, FS_Subset
  <2>2. \A i \in s \ {x} : g[i] \in Nat /\ l[i] \in Nat
    BY <1>3, <1>4
  <2>3. QED
    BY <2>1, <2>2, SumOnType
<1>8. g[x] \in Nat /\ l[x] \in Nat /\ g[x] - l[x] = Effect(es[x], a)
  BY <1>3, <1>4
<1>9. PICK p, q, u, v : p = SumOn(s \ {x}, g) /\ q = SumOn(s \ {x}, l) /\ u = g[x] /\ v = l[x]
  OBVIOUS
<1>10. (p + u) - (q + v) = (p - q) + (u - v) /\ (p + u) - (q + v) \in Int /\ p - q \in Int
  BY <1>7, <1>8, <1>9
<1>11. QED
  BY <1>1, <1>5, <1>6, <1>8, <1>9, <1>10 DEF NetOn

\* What the replay of events leaves on a StateDB.
Replayed(b, es, s) == [a \in Addr |-> IF a \in Blocked THEN b[a] ELSE b[a] + NetOn(s, es, a)]

\* A replay of a set of events is that of all but one, and then that one.
LEMMA ReplayedSplit ==
    ASSUME NEW b \in Balances, NEW es, es \in Seq(Event), NEW s \in SUBSET (1 .. Len(es))
    PROVE  /\ s = {} => Replayed(b, es, s) = b
           /\ \A x \in s : Replayed(b, es, s) = Replay(Replayed(b, es, s \ {x}), es[x])
<1>1. b = [a \in Addr |-> b[a]] /\ \A a \in Addr : b[a] \in Int
  BY DEF Balances
<1>2. ASSUME s = {} PROVE Replayed(b, es, s) = b
  <2>1. \A a \in Addr : NetOn(s, es, a) = 0
    BY <1>2, SumOnEmpty DEF NetOn
  <2>2. \A a \in Addr : b[a] + 0 = b[a]
    BY <1>1
  <2>3. Replayed(b, es, s) = [a \in Addr |-> b[a]]
    BY <2>1, <2>2 DEF Replayed
  <2>4. QED
    BY <1>1, <2>3
<1>3. ASSUME NEW x \in s
      PROVE  Replayed(b, es, s) = Replay(Replayed(b, es, s \ {x}), es[x])
  <2>1. PICK r, e, t : r = Replayed(b, es, s \ {x}) /\ e = es[x] /\ t = Replayed(b, es, s)
    OBVIOUS
  <2>2. \A a \in Addr : /\ NetOn(s, es, a) = NetOn(s \ {x}, es, a) + Effect(e, a)
                        /\ NetOn(s, es, a) \in Int /\ NetOn(s \ {x}, es, a) \in Int
    BY <2>1, NetSplit
  <2>3. r \in Balances /\ t = [a \in Addr |-> t[a]]
    <3>1. ASSUME NEW a \in Addr
          PROVE  (IF a \in Blocked THEN b[a] ELSE b[a] + NetOn(s \ {x}, es, a)) \in Int
      <4>1. PICK k, n : k = b[a] /\ n = NetOn(s \ {x}, es, a)
        OBVIOUS
      <4>2. k \in Int /\ n \in Int
        BY <1>1, <2>2, <4>1
      <4>3. k + n \in Int
        BY <4>2
      <4>4. QED
        BY <4>1, <4>2, <4>3
    <3>2. [a \in Addr |-> IF a \in Blocked THEN b[a] ELSE b[a] + NetOn(s \ {x}, es, a)] \in [Addr -> Int]
      BY <3>1
    <3>3. r \in Balances
      BY <2>1, <3>2 DEF Replayed, Balances
    <3>4. t = [a \in Addr |-> t[a]]
      BY <2>1 DEF Replayed
    <3>5. QED
      BY <3>3, <3>4
  <2>4. e \in Event
    BY <2>1
  <2>5. /\ Replay(r, e) \in Balances
        /\ \A a \in Addr : /\ Effect(e, a) \in Int
                           /\ Replay(r, e)[a] = IF a \in Blocked THEN r[a] ELSE r[a] + Effect(e, a)
    BY <2>3, <2>4, OneEvent
  <2>6. ASSUME NEW a \in Addr PROVE t[a] = Replay(r, e)[a]
    <3>1. PICK n, m, k : n = NetOn(s \ {x}, es, a) /\ m = Effect(e, a) /\ k = b[a]
      OBVIOUS
    <3>2. n \in Int /\ m \in Int /\ k \in Int /\ NetOn(s, es, a) = n + m
      BY <1>1, <2>2, <2>5, <3>1
    <3>3. k + (n + m) = (k + n) + m
      BY <3>2
    <3>4. t[a] = (IF a \in Blocked THEN k ELSE k + (n + m)) /\ r[a] = IF a \in Blocked THEN k ELSE k + n
      BY <2>1, <3>1, <3>2 DEF Replayed
    <3>5. QED
      BY <2>5, <3>1, <3>3, <3>4
  <2>7. t = Replay(r, e)
    BY <2>3, <2>5, <2>6 DEF Balances
  <2>8. QED
    BY <2>1, <2>7
<1>4. QED
  BY <1>2, <1>3

\* FoldLeft of Replay is that: it is the only solution of the recursion that FoldLeft
\* stands for.
LEMMA FoldReplay ==
    ASSUME NEW b \in Balances, NEW es, es \in Seq(Event)
    PROVE  FoldLeft(Replay, b, es) = Replayed(b, es, 1 .. Len(es))
<1> DEFINE Iter(it) == it = [s \in SUBSET (DOMAIN es) |->
                                IF s = {} THEN b ELSE Replay(it[s \ {Max(s)}], es[Max(s)])]
           iter == CHOOSE it : Iter(it)
<1>1. PICK S : S = DOMAIN es
  OBVIOUS
<1>2. S = 1 .. Len(es) /\ Len(es) \in Nat
  BY <1>1
<1>3. IsFiniteSet(S)
  <2>1. IsFiniteSet(1 .. Len(es))
    BY <1>2, FS_Interval
  <2>2. QED
    BY <1>2, <2>1
<1>4. \A s \in SUBSET S : s # {} => Max(s) \in s
  BY <1>2, LastIndex
<1>5. \A s \in SUBSET S : /\ s = {} => Replayed(b, es, s) = b
                          /\ s # {} => Replayed(b, es, s) = Replay(Replayed(b, es, s \ {Max(s)}), es[Max(s)])
  <2> SUFFICES ASSUME NEW s \in SUBSET S
               PROVE  /\ s = {} => Replayed(b, es, s) = b
                      /\ s # {} => Replayed(b, es, s) = Replay(Replayed(b, es, s \ {Max(s)}), es[Max(s)])
    OBVIOUS
  <2>1. s \in SUBSET (1 .. Len(es))
    BY <1>2
  <2>2. s = {} => Replayed(b, es, s) = b
    BY <2>1, ReplayedSplit
  <2>3. ASSUME s # {} PROVE Replayed(b, es, s) = Replay(Replayed(b, es, s \ {Max(s)}), es[Max(s)])
    <3>1. PICK x : x = Max(s)
      OBVIOUS
    <3>2. x \in s
      BY <1>4, <2>3, <3>1
    <3>3. Replayed(b, es, s) = Replay(Replayed(b, es, s \ {x}), es[x])
      BY <2>1, <3>2, ReplayedSplit
    <3>4. QED
      BY <3>1, <3>3
  <2>4. QED
    BY <2>2, <2>3
<1>6. Iter([s \in SUBSET (DOMAIN es) |-> Replayed(b, es, s)])
  <2> DEFINE g == [s \in SUBSET (DOMAIN es) |-> Replayed(b, es, s)]
  <2>1. ASSUME NEW s \in SUBSET (DOMAIN es)
        PROVE  g[s] = IF s = {} THEN b ELSE Replay(g[s \ {Max(s)}], es[Max(s)])
    <3>1. s \ {Max(s)} \in SUBSET (DOMAIN es)
      OBVIOUS
    <3>2. g[s] = Replayed(b, es, s) /\ g[s \ {Max(s)}] = Replayed(b, es, s \ {Max(s)})
      BY <3>1
    <3> HIDE DEF g
    <3>3. QED
      BY <1>1, <1>5, <3>2
  <2>2. QED
    BY <2>1
<1>7. Iter(iter)
  BY <1>6
<1>8. FoldLeft(Replay, b, es) = iter[DOMAIN es]
  BY DEF FoldLeft, MapThenFoldSet
<1> HIDE DEF iter
<1>9. \A s \in SUBSET S : iter[s] = IF s = {} THEN b ELSE Replay(iter[s \ {Max(s)}], es[Max(s)])
  BY <1>1, <1>7
<1>10. iter[S] = Replayed(b, es, S)
  <2> DEFINE differ == {s \in SUBSET S : iter[s] # Replayed(b, es, s)}
             R == StrictSubsetOrdering(S)
  <2> SUFFICES ASSUME differ # {} PROVE FALSE
    BY Zenon
  <2>1. IsWellFoundedOn(R, FiniteSubsetsOf(S))
    BY <1>3, FS_StrictSubsetOrderingWellFounded
  <2>2. differ \subseteq FiniteSubsetsOf(S)
    BY <1>3, FS_Subset DEF FiniteSubsetsOf
  <2>3. PICK s \in differ : \A t \in differ : <<t, s>> \notin R
    BY <2>1, <2>2, WFMin
  <2>4. s \in SUBSET S /\ s # {}
    BY <1>5, <1>9, <2>3
  <2>5. PICK t : t = s \ {Max(s)}
    OBVIOUS
  <2>6. t \in SUBSET S /\ <<t, s>> \in R
    BY <1>4, <2>4, <2>5 DEF StrictSubsetOrdering
  <2>7. iter[t] = Replayed(b, es, t)
    BY <2>3, <2>6
  <2>8. iter[s] = Replayed(b, es, s)
    BY <1>5, <1>9, <2>4, <2>5, <2>7
  <2>9. QED
    BY <2>3, <2>8
<1>11. QED
  BY <1>1, <1>2, <1>8, <1>10

(***************************************************************************)
(* The events since the number of the handler.                             *)
(***************************************************************************)
LEMMA NetAppend ==
    ASSUME NEW es, es \in Seq(Event), NEW fs, fs \in Seq(Event), Len(fs) = Len(es) + 1,
           \A i \in 1 .. Len(es) : fs[i] = es[i], NEW a \in Addr
    PROVE  Net(fs, a) = Net(es, a) + Effect(fs[Len(fs)], a)
<1>1. PICK n, g, h, l, m : /\ n = Len(es) /\ g = Gains(es, a) /\ h = Gains(fs, a)
                           /\ l = Losses(es, a) /\ m = Losses(fs, a)
  OBVIOUS
<1>2. n \in Nat /\ Len(fs) = n + 1 /\ n + 1 \in 1 .. Len(fs) /\ \A i \in 1 .. n : i \in 1 .. Len(fs)
  BY <1>1
<1>3. \A i \in 1 .. n : g[i] \in Nat /\ l[i] \in Nat
  BY <1>1, GainsTypes
<1>4. \A i \in 1 .. n : h[i] = g[i] /\ m[i] = l[i]
  BY <1>1, <1>2 DEF Gains, Losses
<1>5. h[n + 1] \in Nat /\ m[n + 1] \in Nat /\ h[n + 1] - m[n + 1] = Effect(fs[n + 1], a)
  BY <1>1, <1>2, GainsTypes
<1>6. SumOn(1 .. n + 1, h) = SumOn(1 .. n, g) + h[n + 1] /\ SumOn(1 .. n, g) \in Nat
  BY <1>2, <1>3, <1>4, <1>5, SumAppend, ZenonT(60)
<1>7. SumOn(1 .. n + 1, m) = SumOn(1 .. n, l) + m[n + 1] /\ SumOn(1 .. n, l) \in Nat
  BY <1>2, <1>3, <1>4, <1>5, SumAppend, ZenonT(60)
<1>8. PICK p, q, u, v : p = SumOn(1 .. n, g) /\ q = SumOn(1 .. n, l) /\ u = h[n + 1] /\ v = m[n + 1]
  OBVIOUS
<1>9. (p + u) - (q + v) = (p - q) + (u - v)
  BY <1>5, <1>6, <1>7, <1>8
<1>10. Net(es, a) = p - q
  BY <1>1, <1>8 DEF Net, NetOn
<1>11. Net(fs, a) = (p + u) - (q + v)
  BY <1>1, <1>2, <1>6, <1>7, <1>8 DEF Net, NetOn
<1>12. u - v = Effect(fs[Len(fs)], a)
  BY <1>2, <1>5, <1>8
<1>13. QED
  BY <1>9, <1>10, <1>11, <1>12

\* The slice is one of events, empty when the number is not below theirs.
LEMMA Slice ==
    ASSUME NEW es, es \in Seq(Event), NEW p \in Nat
    PROVE  /\ SubSeq(es, p + 1, Len(es)) \in Seq(Event)
           /\ p <= Len(es) => Len(SubSeq(es, p + 1, Len(es))) = Len(es) - p
           /\ \A i \in 1 .. Len(es) - p : SubSeq(es, p + 1, Len(es))[i] = es[p + i]
<1>1. PICK m, n : m = p + 1 /\ n = Len(es)
  OBVIOUS
<1>2. n \in Nat /\ m \in Int /\ n \in Int /\ n - m + 1 = n - p /\ (m <= n <=> p < n)
  BY <1>1
<1>3. \A i \in m .. n : es[i] \in Event
  BY <1>1
<1>4. /\ SubSeq(es, m, n) \in Seq(Event)
      /\ Len(SubSeq(es, m, n)) = IF m <= n THEN n - m + 1 ELSE 0
      /\ \A i \in 1 .. n - m + 1 : SubSeq(es, m, n)[i] = es[m + i - 1]
  <2>1. SubSeq(es, m, n) \in Seq(Event)
    BY <1>2, <1>3, SubSeqProperties, Zenon
  <2>2. Len(SubSeq(es, m, n)) = IF m <= n THEN n - m + 1 ELSE 0
    BY <1>2
  <2>3. \A i \in 1 .. n - m + 1 : SubSeq(es, m, n)[i] = es[m + i - 1]
    BY <1>2
  <2>4. QED
    BY <2>1, <2>2, <2>3
<1>5. p <= n => Len(SubSeq(es, m, n)) = n - p
  BY <1>2, <1>4
<1>6. \A i \in 1 .. n - p : SubSeq(es, m, n)[i] = es[p + i]
  <2> SUFFICES ASSUME NEW i \in 1 .. n - p PROVE SubSeq(es, m, n)[i] = es[p + i]
    OBVIOUS
  <2>1. m + i - 1 = p + i
    BY <1>1, <1>2
  <2>2. QED
    BY <1>2, <1>4, <2>1
<1>7. QED
  BY <1>1, <1>4, <1>5, <1>6

\* An event that the native code emits is the last of the slice.
LEMMA SliceAppend ==
    ASSUME NEW es, es \in Seq(Event), NEW p \in Nat, p <= Len(es), NEW e \in Event, NEW a \in Addr
    PROVE  Net(SubSeq(Append(es, e), p + 1, Len(Append(es, e))), a)
               = Net(SubSeq(es, p + 1, Len(es)), a) + Effect(e, a)
<1>1. PICK n, f : n = Len(es) /\ f = Append(es, e)
  OBVIOUS
<1>2. n \in Nat /\ f \in Seq(Event) /\ Len(f) = n + 1 /\ f[n + 1] = e /\ \A i \in 1 .. n : f[i] = es[i]
  BY <1>1
<1>3. PICK s, t : s = SubSeq(es, p + 1, Len(es)) /\ t = SubSeq(f, p + 1, Len(f))
  OBVIOUS
<1>4. s \in Seq(Event) /\ Len(s) = n - p /\ \A i \in 1 .. n - p : s[i] = es[p + i]
  BY <1>1, <1>3, Slice
<1>5. t \in Seq(Event) /\ Len(t) = (n + 1) - p /\ \A i \in 1 .. (n + 1) - p : t[i] = f[p + i]
  BY <1>1, <1>2, <1>3, Slice, SMTT(40)
<1>6. Len(t) = Len(s) + 1
  BY <1>1, <1>2, <1>4, <1>5
<1>7. \A i \in 1 .. Len(s) : t[i] = s[i]
  <2> SUFFICES ASSUME NEW i \in 1 .. Len(s) PROVE t[i] = s[i]
    OBVIOUS
  <2>1. i \in 1 .. n - p /\ i \in 1 .. (n + 1) - p /\ p + i \in 1 .. n
    BY <1>1, <1>2, <1>4
  <2>2. QED
    BY <1>2, <1>4, <1>5, <2>1
<1>8. t[Len(t)] = e
  <2>1. Len(t) \in 1 .. (n + 1) - p /\ p + Len(t) = n + 1
    BY <1>1, <1>2, <1>5
  <2>2. QED
    BY <1>2, <1>5, <2>1
<1>9. Net(t, a) = Net(s, a) + Effect(t[Len(t)], a)
  BY <1>4, <1>5, <1>6, <1>7, NetAppend
<1>10. QED
  BY <1>1, <1>3, <1>8, <1>9

\* Nothing has been emitted when the number is stored.
LEMMA SliceEmpty ==
    ASSUME NEW es, es \in Seq(Event), NEW a
    PROVE  Net(SubSeq(es, Len(es) + 1, Len(es)), a) = 0
<1>1. PICK s, n : s = SubSeq(es, Len(es) + 1, Len(es)) /\ n = Len(es)
  OBVIOUS
<1>2. n \in Nat /\ n <= n /\ n - n = 0
  BY <1>1
<1>3. Len(s) = 0
  BY <1>1, <1>2, Slice
<1>4. 1 .. Len(s) = {}
  BY <1>3
<1>5. QED
  BY <1>1, <1>4, SumOnEmpty DEF Net, NetOn

\* Replayed on a StateDB nothing was done to, the events leave what they come to.
LEMMA ReplayOnNothing ==
    ASSUME NEW es, es \in Seq(Event)
    PROVE  /\ FoldLeft(Replay, NoChange, es) \in Balances
           /\ \A a \in Addr : FoldLeft(Replay, NoChange, es)[a] = IF a \in Blocked THEN 0 ELSE Net(es, a)
<1>1. NoChange \in Balances /\ \A a \in Addr : NoChange[a] = 0
  BY DEF NoChange, Balances
<1>2. PICK r : r = FoldLeft(Replay, NoChange, es)
  OBVIOUS
<1>3. r = Replayed(NoChange, es, 1 .. Len(es))
  BY <1>1, <1>2, FoldReplay
<1>4. \A a \in Addr : Net(es, a) \in Int
  BY NetType
<1>5. \A a \in Addr : 0 + Net(es, a) = Net(es, a)
  BY <1>4
<1>6. r = [a \in Addr |-> IF a \in Blocked THEN 0 ELSE Net(es, a)]
  BY <1>1, <1>3, <1>5 DEF Replayed, Net
<1>7. r \in Balances
  BY <1>4, <1>6 DEF Balances
<1>8. QED
  BY <1>2, <1>6, <1>7

(***************************************************************************)
(* The steps.                                                              *)
(***************************************************************************)
LEMMA InitInv == Init => Inv
<1> SUFFICES ASSUME Init PROVE Inv
  OBVIOUS
<1>1. NoChange \in Balances
  BY DEF NoChange, Balances
<1>2. TypesOK
  <2>1. pc \in [Calls -> Labels] /\ overwritten \subseteq Calls
    BY DEF Init, Labels
  <2>2. events \in [Calls -> Seq(Event)]
    <3>1. << >> \in Seq(Event)
      OBVIOUS
    <3>2. QED
      BY <3>1 DEF Init
  <2>3. native \in [Calls -> Balances] /\ mirror \in [Calls -> Balances] /\ prevEventsLen \in [Handlers -> Nat]
    BY <1>1 DEF Init
  <2>4. QED
    BY <2>1, <2>2, <2>3 DEF TypesOK
<1>3. Untouched /\ OwnEvents /\ MirrorsTheCall
  BY DEF Init, Untouched, OwnEvents, MirrorsTheCall
<1>4. QED
  BY <1>2, <1>3 DEF Inv

\* A step of one call leaves what concerns the others as it was.
LEMMA SetupInv ==
    ASSUME Inv, NEW c \in Calls, NEW prior \in BoundedSeq(Event, MaxPrior), RunSetup(c, prior)
    PROVE  Inv'
<1> USE DEF RunSetup
<1>1. TypesOK /\ Untouched /\ OwnEvents /\ MirrorsTheCall
  BY DEF Inv
<1>2. prior \in Seq(Event)
  <2>1. PICK m \in 0 .. MaxPrior : prior \in [1 .. m -> Event]
    BY DEF BoundedSeq, SeqOf
  <2>2. m \in Nat
    BY <2>1, ParameterAssumption
  <2>3. QED
    BY <2>1, <2>2
<1>3. pc \in [Calls -> Labels] /\ events \in [Calls -> Seq(Event)] /\ "ready" \in Labels
  BY <1>1 DEF TypesOK, Labels
<1>4. \A d \in Calls : pc'[d] = IF d = c THEN "ready" ELSE pc[d]
  BY <1>3
<1>5. \A d \in Calls : d # c => events'[d] = events[d]
  BY <1>3
<1>6. TypesOK'
  <2>1. pc' \in [Calls -> Labels] /\ events' \in [Calls -> Seq(Event)]
    BY <1>2, <1>3
  <2>2. QED
    BY <1>1, <2>1 DEF TypesOK
<1>7. Untouched'
  BY <1>1, <1>4 DEF Untouched
<1>8. OwnEvents'
  <2> SUFFICES ASSUME NEW d \in Calls \ overwritten, pc'[d] = "running"
               PROVE  /\ prevEventsLen'[HandlerOf[d]] <= Len(events'[d])
                      /\ \A a \in Addr : native'[d][a] = Net(Since(d)', a)
    BY DEF OwnEvents
  <2>1. d # c /\ pc[d] = "running" /\ events'[d] = events[d]
    BY <1>4, <1>5
  <2>2. Since(d)' = Since(d)
    BY <2>1 DEF Since
  <2>3. QED
    BY <1>1, <2>1, <2>2 DEF OwnEvents
<1>9. MirrorsTheCall'
  BY <1>1, <1>4 DEF MirrorsTheCall
<1>10. QED
  BY <1>6, <1>7, <1>8, <1>9 DEF Inv

\* The number is stored: the calls under way on the same handler are overwritten, and
\* this one finds its own.
LEMMA BeforeInv ==
    ASSUME Inv, NEW c \in Calls, BeforeBalanceChange(c)
    PROVE  Inv'
<1> USE DEF BeforeBalanceChange
<1>1. TypesOK /\ Untouched /\ OwnEvents /\ MirrorsTheCall
  BY DEF Inv
<1>2. /\ pc \in [Calls -> Labels] /\ "running" \in Labels /\ prevEventsLen \in [Handlers -> Nat]
      /\ overwritten \subseteq Calls /\ HandlerOf \in [Calls -> Handlers]
  BY <1>1, ParameterAssumption DEF TypesOK, Labels
<1>3. \A d \in Calls : pc'[d] = IF d = c THEN "running" ELSE pc[d]
  BY <1>2
<1>4. events[c] \in Seq(Event) /\ Len(events[c]) \in Nat
  BY <1>1 DEF TypesOK
<1>5. /\ prevEventsLen'[HandlerOf[c]] = Len(events[c])
      /\ \A d \in Calls : HandlerOf[d] # HandlerOf[c] => prevEventsLen'[HandlerOf[d]] = prevEventsLen[HandlerOf[d]]
  BY <1>2
<1>6. \A d \in Calls \ overwritten' : d \notin overwritten
  OBVIOUS
<1>7. TypesOK'
  <2>1. pc' \in [Calls -> Labels] /\ prevEventsLen' \in [Handlers -> Nat]
    BY <1>2, <1>4
  <2>2. overwritten' \subseteq Calls
    BY <1>2 DEF Overlapped
  <2>3. QED
    BY <1>1, <2>1, <2>2 DEF TypesOK
<1>8. Untouched'
  BY <1>1, <1>3 DEF Untouched
<1>9. OwnEvents'
  <2> SUFFICES ASSUME NEW d \in Calls \ overwritten', pc'[d] = "running"
               PROVE  /\ prevEventsLen'[HandlerOf[d]] <= Len(events'[d])
                      /\ \A a \in Addr : native'[d][a] = Net(Since(d)', a)
    BY DEF OwnEvents
  <2>1. CASE d = c
    <3>1. Since(c)' = SubSeq(events[c], Len(events[c]) + 1, Len(events[c]))
      BY <1>5 DEF Since
    <3>2. \A a \in Addr : native'[c][a] = 0
      BY <1>1 DEF Untouched, NoChange
    <3>3. \A a \in Addr : Net(Since(c)', a) = 0
      BY <1>4, <3>1, SliceEmpty
    <3>4. prevEventsLen'[HandlerOf[c]] <= Len(events'[c])
      BY <1>4, <1>5
    <3>5. QED
      BY <2>1, <3>2, <3>3, <3>4
  <2>2. CASE d # c
    <3>1. pc[d] = "running" /\ d \in Calls \ overwritten
      BY <1>3, <1>6, <2>2
    <3>2. HandlerOf[d] # HandlerOf[c]
      BY <2>2, <3>1 DEF Overlapped
    <3>3. prevEventsLen'[HandlerOf[d]] = prevEventsLen[HandlerOf[d]]
      BY <1>5, <3>2
    <3>4. Since(d)' = Since(d)
      BY <3>3 DEF Since
    <3>5. QED
      BY <1>1, <3>1, <3>3, <3>4 DEF OwnEvents
  <2>3. QED
    BY <2>1, <2>2
<1>10. MirrorsTheCall'
  BY <1>1, <1>3, <1>6 DEF MirrorsTheCall
<1>11. QED
  BY <1>7, <1>8, <1>9, <1>10 DEF Inv

\* The native code changes balances and reports it.
LEMMA MethodInv ==
    ASSUME Inv, NEW c \in Calls, NEW e \in Event, HandleMethod(c, e)
    PROVE  Inv'
<1> USE DEF HandleMethod
<1>1. TypesOK /\ Untouched /\ OwnEvents /\ MirrorsTheCall
  BY DEF Inv
<1>2. events \in [Calls -> Seq(Event)] /\ native \in [Calls -> Balances]
  BY <1>1 DEF TypesOK
<1>3. PICK b, f : b = [a \in Addr |-> native[c][a] + Effect(e, a)] /\ f = Append(events[c], e)
  OBVIOUS
<1>4. b \in Balances
  <2>1. ASSUME NEW a \in Addr PROVE native[c][a] + Effect(e, a) \in Int
    <3>1. native[c] \in Balances
      BY <1>2
    <3>2. native[c][a] \in Int /\ Effect(e, a) \in Int
      BY <3>1, OneEvent DEF Balances
    <3>3. QED
      BY <3>2
  <2>2. QED
    BY <1>3, <2>1 DEF Balances
<1>5. events[c] \in Seq(Event) /\ Len(events[c]) \in Nat /\ f \in Seq(Event) /\ Len(f) = Len(events[c]) + 1
  BY <1>2, <1>3
<1>6. \A d \in Calls : /\ events'[d] = IF d = c THEN f ELSE events[d]
                       /\ native'[d] = IF d = c THEN b ELSE native[d]
  BY <1>2, <1>3
<1>7. TypesOK'
  <2>1. events' \in [Calls -> Seq(Event)] /\ native' \in [Calls -> Balances]
    BY <1>2, <1>3, <1>4, <1>5
  <2>2. QED
    BY <1>1, <2>1 DEF TypesOK
<1>8. Untouched'
  BY <1>1, <1>6 DEF Untouched
<1>9. OwnEvents'
  <2> SUFFICES ASSUME NEW d \in Calls \ overwritten, pc[d] = "running"
               PROVE  /\ prevEventsLen[HandlerOf[d]] <= Len(events'[d])
                      /\ \A a \in Addr : native'[d][a] = Net(Since(d)', a)
    BY DEF OwnEvents
  <2>1. prevEventsLen[HandlerOf[d]] <= Len(events[d]) /\ \A a \in Addr : native[d][a] = Net(Since(d), a)
    BY <1>1 DEF OwnEvents
  <2>2. CASE d = c
    <3>1. PICK p : p = prevEventsLen[HandlerOf[c]]
      OBVIOUS
    <3>2. p \in Nat
      BY <1>1, <3>1, ParameterAssumption DEF TypesOK
    <3>3. p <= Len(events[c]) /\ p <= Len(f)
      BY <1>5, <2>1, <2>2, <3>1, <3>2
    <3>4. Since(c) = SubSeq(events[c], p + 1, Len(events[c])) /\ Since(c)' = SubSeq(f, p + 1, Len(f))
      BY <1>6, <3>1 DEF Since
    <3>5. \A a \in Addr : Net(Since(c)', a) = Net(Since(c), a) + Effect(e, a)
      BY <1>3, <1>5, <3>2, <3>3, <3>4, SliceAppend
    <3>6. \A a \in Addr : native'[c][a] = native[c][a] + Effect(e, a)
      BY <1>3, <1>6
    <3>7. QED
      BY <1>6, <2>1, <2>2, <3>1, <3>3, <3>5, <3>6
  <2>3. CASE d # c
    <3>1. events'[d] = events[d] /\ native'[d] = native[d]
      BY <1>6, <2>3
    <3>2. Since(d)' = Since(d)
      BY <3>1 DEF Since
    <3>3. QED
      BY <2>1, <3>1, <3>2
  <2>4. QED
    BY <2>2, <2>3
<1>10. MirrorsTheCall'
  BY <1>1, <1>6 DEF MirrorsTheCall
<1>11. QED
  BY <1>7, <1>8, <1>9, <1>10 DEF Inv

\* A failed call is over, its number left in the handler.
LEMMA RevertInv ==
    ASSUME Inv, NEW c \in Calls, ReturnRevertError(c)
    PROVE  Inv'
<1> USE DEF ReturnRevertError
<1>1. TypesOK /\ Untouched /\ OwnEvents /\ MirrorsTheCall
  BY DEF Inv
<1>2. pc \in [Calls -> Labels] /\ "reverted" \in Labels
  BY <1>1 DEF TypesOK, Labels
<1>3. \A d \in Calls : pc'[d] = IF d = c THEN "reverted" ELSE pc[d]
  BY <1>2
<1>4. TypesOK'
  <2>1. pc' \in [Calls -> Labels]
    BY <1>2
  <2>2. QED
    BY <1>1, <2>1 DEF TypesOK
<1>5. Untouched'
  BY <1>1, <1>3 DEF Untouched
<1>6. OwnEvents'
  <2>1. \A d \in Calls : Since(d)' = Since(d)
    BY DEF Since
  <2>2. QED
    BY <1>1, <1>3, <2>1 DEF OwnEvents
<1>7. MirrorsTheCall'
  BY <1>1, <1>3 DEF MirrorsTheCall
<1>8. QED
  BY <1>4, <1>5, <1>6, <1>7 DEF Inv

\* The events are replayed: those of the call when its number is still its own.
LEMMA AfterInv ==
    ASSUME Inv, NEW c \in Calls, AfterBalanceChange(c)
    PROVE  Inv'
<1>1. TypesOK /\ Untouched /\ OwnEvents /\ MirrorsTheCall
  BY DEF Inv
<1>2. PICK p, m, q : /\ p = prevEventsLen[HandlerOf[c]] /\ m = FoldLeft(Replay, NoChange, Since(c))
                     /\ q = IF p <= Len(events[c]) THEN "done" ELSE "panicked"
  OBVIOUS
<1>3. /\ pc[c] = "running" /\ mirror[c] = NoChange
      /\ pc' = [pc EXCEPT ![c] = q] /\ mirror' = [mirror EXCEPT ![c] = m]
      /\ UNCHANGED <<events, native, prevEventsLen, overwritten>>
  BY <1>1, <1>2 DEF AfterBalanceChange, Untouched, Since
<1>4. pc \in [Calls -> Labels] /\ mirror \in [Calls -> Balances] /\ q \in Labels
  BY <1>1, <1>2 DEF TypesOK, Labels
<1>5. p \in Nat /\ events[c] \in Seq(Event)
  BY <1>1, <1>2, ParameterAssumption DEF TypesOK
<1>6. Since(c) \in Seq(Event)
  BY <1>2, <1>5, Slice DEF Since
<1>7. m \in Balances /\ \A a \in Addr : m[a] = IF a \in Blocked THEN 0 ELSE Net(Since(c), a)
  BY <1>2, <1>6, ReplayOnNothing
<1>8. \A d \in Calls : /\ pc'[d] = IF d = c THEN q ELSE pc[d]
                       /\ mirror'[d] = IF d = c THEN m ELSE mirror[d]
  BY <1>3, <1>4
<1>9. q \notin {"called", "ready", "running"}
  BY <1>2
<1>10. TypesOK'
  <2>1. pc' \in [Calls -> Labels] /\ mirror' \in [Calls -> Balances]
    BY <1>3, <1>4, <1>7
  <2>2. QED
    BY <1>1, <1>3, <2>1 DEF TypesOK
<1>11. Untouched'
  <2> SUFFICES ASSUME NEW d \in Calls
               PROVE  /\ pc'[d] \in {"called", "ready"} => native'[d] = NoChange
                      /\ pc'[d] \in {"called", "ready", "running"} => mirror'[d] = NoChange
    BY DEF Untouched, NoChange
  <2>1. QED
    BY <1>1, <1>3, <1>8, <1>9 DEF Untouched
<1>12. OwnEvents'
  <2>1. \A d \in Calls : Since(d)' = Since(d)
    BY <1>3 DEF Since
  <2>2. QED
    BY <1>1, <1>3, <1>8, <1>9, <2>1 DEF OwnEvents
<1>13. MirrorsTheCall'
  <2> SUFFICES ASSUME NEW d \in Calls \ overwritten
               PROVE  /\ pc'[d] # "panicked"
                      /\ pc'[d] = "done" =>
                            \A a \in Addr : mirror'[d][a] = IF a \in Blocked THEN 0 ELSE native[d][a]
    BY <1>3 DEF MirrorsTheCall
  <2>1. CASE d = c
    <3>1. p <= Len(events[c]) /\ \A a \in Addr : native[c][a] = Net(Since(c), a)
      BY <1>1, <1>2, <1>3, <2>1 DEF OwnEvents
    <3>2. q = "done"
      BY <1>2, <3>1
    <3>3. QED
      BY <1>7, <1>8, <2>1, <3>1, <3>2
  <2>2. CASE d # c
    BY <1>1, <1>8, <2>2 DEF MirrorsTheCall
  <2>3. QED
    BY <2>1, <2>2
<1>14. QED
  BY <1>10, <1>11, <1>12, <1>13 DEF Inv

\* Every step keeps the invariant, a stuttering one too.
LEMMA StepInv == Inv /\ [Next]_vars => Inv'
<1> SUFFICES ASSUME Inv, [Next]_vars PROVE Inv'
  OBVIOUS
<1>1. CASE Next
  <2>1. PICK c \in Calls :
            \/ \E prior \in BoundedSeq(Event, MaxPrior) : RunSetup(c, prior)
            \/ BeforeBalanceChange(c)
            \/ \E e \in Event : HandleMethod(c, e)
            \/ ReturnRevertError(c)
            \/ AfterBalanceChange(c)
    BY <1>1 DEF Next
  <2>2. CASE \E prior \in BoundedSeq(Event, MaxPrior) : RunSetup(c, prior)
    BY <2>2, SetupInv
  <2>3. CASE BeforeBalanceChange(c)
    BY <2>3, BeforeInv
  <2>4. CASE \E e \in Event : HandleMethod(c, e)
    BY <2>4, MethodInv
  <2>5. CASE ReturnRevertError(c)
    BY <2>5, RevertInv
  <2>6. CASE AfterBalanceChange(c)
    BY <2>6, AfterInv
  <2>7. QED
    BY <2>1, <2>2, <2>3, <2>4, <2>5, <2>6
<1>2. CASE UNCHANGED vars
  <2>1. TypesOK' /\ Untouched' /\ MirrorsTheCall'
    BY <1>2 DEF vars, Inv, TypesOK, Untouched, MirrorsTheCall
  <2>2. \A d \in Calls : Since(d)' = Since(d)
    BY <1>2 DEF vars, Since
  <2>3. OwnEvents'
    BY <1>2, <2>2 DEF vars, Inv, OwnEvents
  <2>4. QED
    BY <2>1, <2>3 DEF Inv
<1>3. QED
  BY <1>1, <1>2

\* The invariant holds in every reachable state, for any calls and any way they share
\* the instances of BalanceHandler.
THEOREM Invariance == Spec => []Inv
<1>1. Init => Inv
  BY InitInv
<1>2. Inv /\ [Next]_vars => Inv'
  BY StepInv
<1>3. QED
  BY <1>1, <1>2, PTL DEF Spec

\* A call whose number no other call has overwritten mirrors in its StateDB exactly
\* what its native code did (BeforeBalanceChange, AfterBalanceChange), however many
\* events there are, before it and of it, and whatever a failed call left behind.
THEOREM AlwaysMirrors == Spec => []MirrorsTheCall
<1>1. Inv => MirrorsTheCall
  BY DEF Inv
<1>2. QED
  BY <1>1, Invariance, PTL
=============================================================================
