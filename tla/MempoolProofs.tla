--------------------------- MODULE MempoolProofs ---------------------------
(***************************************************************************)
(* Proofs about the two models of the pool of Ethereum transactions.       *)
(*                                                                         *)
(* First TxPool, for any accounts, buffer, depth of reorganisations and    *)
(* length of the chain.  Then LegacyPool, for any accounts, nonces, prices *)
(* and balances.  Its loops are folds over the accounts, whose rounds come *)
(* in any order: what every round keeps, the loop keeps (FoldTracks).      *)
(***************************************************************************)
EXTENDS TxPool, LegacyPool, SequenceTheorems, Sums


(***************************************************************************)
(* TxPool.  The inductive invariant.                                       *)
(*                                                                         *)
(* The heads that have been notified form a chain of hashes, of which      *)
(* prevHash is the longest: a head is known by the place of its hash in    *)
(* prevHash.  What the main pool's loop, the resetting goroutine and the   *)
(* scheduler hold of heads is ordered by that place, and which of them     *)
(* holds the next reset is told by the resetting goroutine's pc.           *)
(***************************************************************************)
Resets == {<<>>} \cup (Header \X Header)
Labels == {"idle", "lock", "request", "request none", "next", "cur", "done"}

\* TypeOK by parts, with the types of the heads on their way and of the two requests.
ChainTypes ==
    /\ height \in 0..MaxHeight /\ ready \in BOOLEAN
    /\ sub \in {"none", "active", "canceled"} /\ events \in 0..Capacity
    /\ closing \in {"open", "shutdown", "closed"}
    /\ status \in {"up", "reorg", "nil state"}

HeadTypes ==
    /\ prevHash \in Seq(0..MaxHeight)
    /\ sending \in Seq(Header) /\ Len(sending) <= 1
    /\ oldHead \in Header /\ newHead \in Header /\ head \in Header
    /\ resetArg \in Resets
    /\ state \in {NoState} \cup 0..MaxHeight

Requests == [reset : Resets, dirty : SUBSET Sender, launch : BOOLEAN]
Runs == [pc : {"none", "start", "locked", "announce", "done"}, reset : Resets,
         dirty : SUBSET Sender]

RunTypes == pc \in [Procs -> Labels] /\ next \in Requests /\ run \in Runs

\* A head notified has its hash at the beginning of prevHash.
Notified(h) ==
    /\ Len(h.parent) < Len(prevHash)
    /\ \A j \in 1..Len(h.parent) : h.parent[j] = prevHash[j]
    /\ h.number = prevHash[Len(h.parent) + 1]

Known(h) == h = ZeroHeader \/ Notified(h)

Rank(h) == IF h = ZeroHeader THEN 0 ELSE Len(h.parent) + 1

\* Heads come in the order in which they were notified.
HeadsOrdered ==
    /\ Known(oldHead) /\ Known(newHead) /\ Rank(oldHead) <= Rank(newHead)
    /\ sending # <<>> => Known(sending[1]) /\ Rank(newHead) < Rank(sending[1])
    /\ resetArg # <<>> => /\ resetArg[1] = oldHead
                          /\ Known(resetArg[2])
                          /\ Rank(oldHead) < Rank(resetArg[2])
                          /\ Rank(resetArg[2]) <= Rank(newHead)

\* There are events, and a chain to notify of, only after a block.
BlocksSeen == (events > 0 => ready) /\ (ready => height > 0)

Running == {"start", "locked", "announce"}

\* Where the reset that the resetting goroutine waits for is.
OneReset ==
    LET at == pc["resetter"]
    IN  /\ at \in {"idle", "request", "next", "cur", "done"}
        /\ at = "idle" <=> resetArg = <<>>
        /\ at = "next" => next.reset = resetArg /\ closing # "closed"
        /\ at = "cur" => run.reset = resetArg /\ run.pc \in Running
        /\ closing # "closed" /\ next.reset # <<>> => at = "next"
        /\ run.reset # <<>> /\ run.pc \in Running => at = "cur"
        /\ closing = "closed" => run.pc \in {"none", "done"}

\* Which head the legacy pool is at.
HeadKept ==
    LET at == pc["resetter"]
    IN  /\ at = "idle" /\ closing = "open" => head = oldHead
        /\ at \in {"request", "next"} => head = oldHead
        /\ at = "cur" => head = IF run.pc = "announce" THEN resetArg[2] ELSE oldHead
        /\ at = "done" /\ closing = "open" => head = resetArg[2]

\* Only a pool that has been reset lets submissions in.
StateBeforeSubmissions ==
    /\ head # ZeroHeader => state # NoState
    /\ \A p \in Sender : pc[p] = "lock" => state # NoState

ResetInv ==
    /\ ChainTypes /\ HeadTypes /\ RunTypes
    /\ HeadsOrdered /\ BlocksSeen
    /\ OneReset /\ HeadKept /\ StateBeforeSubmissions
    /\ StateKnown /\ ReorgOnlyAfterGap

(***************************************************************************)
(* Initial states and steps.                                               *)
(***************************************************************************)
LEMMA ResetInitInv == PoolInit => ResetInv
<1> SUFFICES ASSUME PoolInit PROVE ResetInv
  OBVIOUS
<1> USE PoolAssumption DEF PoolInit
<1>1. ChainTypes
  <2>1. height \in 0..MaxHeight /\ events \in 0..Capacity
    OBVIOUS
  <2>2. ready \in BOOLEAN
    OBVIOUS
  <2>3. QED
    BY <2>1, <2>2 DEF ChainTypes
<1>2. HeadTypes
  BY DEF HeadTypes, Resets, ZeroHeader, Header
<1>3. RunTypes
  <2>1. <<>> \in Resets
    BY DEF Resets
  <2>2. next \in Requests
    BY <2>1 DEF NoRequest, Requests
  <2>3. run \in Runs
    BY <2>1 DEF NoRun, Runs
  <2>4. pc \in [Procs -> Labels]
    BY DEF Labels
  <2>5. QED
    BY <2>2, <2>3, <2>4 DEF RunTypes
<1>4. HeadsOrdered
  BY DEF HeadsOrdered, Known, Rank
<1>5. BlocksSeen
  BY DEF BlocksSeen
<1>6. OneReset
  BY DEF OneReset, Procs, NoRequest, NoRun
<1>7. HeadKept
  BY DEF HeadKept, Procs
<1>8. StateBeforeSubmissions /\ StateKnown /\ ReorgOnlyAfterGap
  BY DEF StateBeforeSubmissions, StateKnown, ReorgOnlyAfterGap, Procs
<1>9. QED
  BY <1>1, <1>2, <1>3, <1>4, <1>5, <1>6, <1>7, <1>8 DEF ResetInv

\* A head keeps its place when the chain of hashes grows.
LEMMA KnownKept ==
    ASSUME HeadTypes, NEW n \in 0..MaxHeight, prevHash' = Append(prevHash, n),
           NEW h \in Header, Known(h)
    PROVE  Known(h)'
<1>1. CASE h = ZeroHeader
  BY <1>1 DEF Known, ZeroHeader
<1>2. CASE Notified(h)
  BY <1>2 DEF Known, Notified, HeadTypes, Header
<1>3. QED
  BY <1>1, <1>2 DEF Known

\* Two heads at the same place are the same head.
LEMMA SameRank ==
    ASSUME HeadTypes, NEW g \in Header, NEW h \in Header, Known(g), Known(h), Rank(g) = Rank(h)
    PROVE  g = h
<1>1. CASE g = ZeroHeader \/ h = ZeroHeader
  BY <1>1 DEF Rank, Header
<1>2. CASE g # ZeroHeader /\ h # ZeroHeader
  <2>1. Notified(g) /\ Notified(h) /\ Len(g.parent) = Len(h.parent)
    BY <1>2 DEF Known, Rank, Header
  <2>2. g.parent = h.parent
    BY <2>1, SeqEqual DEF Notified, Header
  <2>3. QED
    BY <2>1, <2>2 DEF Notified, Header
<1>3. QED
  BY <1>1, <1>2

\* A reset to a head that is not the next one passes over a head.
LEMMA GapPassed ==
    ASSUME HeadTypes, NEW g \in Header, NEW h \in Header, Known(g), Known(h),
           Rank(g) < Rank(h), Reorged(g, h)
    PROVE  g = ZeroHeader \/ Len(h.parent) > Len(Hash(g))
<1> SUFFICES ASSUME g # ZeroHeader, Len(h.parent) <= Len(Hash(g)) PROVE FALSE
  BY DEF Hash, Header
<1>1. g.parent \in Seq(0..MaxHeight) /\ g.number \in 0..MaxHeight
      /\ h.parent \in Seq(0..MaxHeight)
  BY DEF Header
<1>2. Len(Hash(g)) = Len(g.parent) + 1 /\ Hash(g) \in Seq(0..MaxHeight)
  BY <1>1 DEF Hash
<1>3. Notified(g) /\ Notified(h) /\ Len(h.parent) = Len(g.parent) + 1
  BY <1>1, <1>2 DEF Known, Rank
<1>4. \A j \in 1..Len(h.parent) : Hash(g)[j] = h.parent[j]
  BY <1>1, <1>3 DEF Hash, Notified, HeadTypes
<1>5. Hash(g) = h.parent
  BY <1>1, <1>2, <1>3, <1>4, SeqEqual
<1>6. QED
  BY <1>5 DEF Reorged

\* Nothing, or two heads.
LEMMA ResetsFact ==
    /\ <<>> \in Resets
    /\ \A r \in Resets \ {<<>>} : r[1] \in Header /\ r[2] \in Header
    /\ \A g, h \in Header : <<g, h>> \in Resets /\ <<g, h>> # <<>>
  BY DEF Resets

\* The types of what the scheduler keeps, after it received a request or a run ended.
LEMMA LaunchedTypes ==
    ASSUME NEW cur \in Runs, NEW n \in Requests, NEW w \in [Procs -> Labels], Launched(cur, n, w)
    PROVE  RunTypes'
<1>1. CASE cur.pc = "none" /\ n.launch
  <2>1. run' \in Runs
    BY <1>1 DEF Launched, Runs, Requests
  <2>2. next' \in Requests
    <3>1. FALSE \in BOOLEAN /\ {} \in SUBSET Sender
      OBVIOUS
    <3>2. NoRequest \in Requests
      BY <3>1, ResetsFact DEF Requests, NoRequest
    <3>3. QED
      BY <1>1, <3>2 DEF Launched
  <2>3. pc' \in [Procs -> Labels]
    BY <1>1 DEF Launched, Labels
  <2>4. QED
    BY <2>1, <2>2, <2>3 DEF RunTypes
<1>2. CASE ~ (cur.pc = "none" /\ n.launch)
  BY <1>2 DEF Launched, RunTypes
<1>3. QED
  BY <1>1, <1>2

\* Every step keeps the invariant.
LEMMA ResetStepInv == ResetInv /\ [PoolNext]_poolVars => ResetInv'
<1> SUFFICES ASSUME ResetInv, [PoolNext]_poolVars PROVE ResetInv'
  OBVIOUS
<1> USE PoolAssumption DEF ResetInv, chain, feed, loop, poolState, reorg, Sender, Procs
<1>1. CASE Commit
  <2>1. ChainTypes'
    BY <1>1 DEF ChainTypes, Commit, BufferFull
  <2>2. HeadTypes'
    BY <1>1 DEF ChainTypes, HeadTypes, Commit, BufferFull
  <2>3. RunTypes'
    BY <1>1 DEF RunTypes, Labels, HeadTypes, Commit, BufferFull
  <2>4. HeadsOrdered'
    BY <1>1 DEF HeadTypes, HeadsOrdered, Known, Notified, Rank, Commit, BufferFull
  <2>5. BlocksSeen'
    BY <1>1 DEF ChainTypes, BlocksSeen, Commit, BufferFull
  <2>6. OneReset'
    BY <1>1 DEF RunTypes, OneReset, Running, Commit, BufferFull
  <2>7. HeadKept'
    BY <1>1 DEF RunTypes, OneReset, HeadKept, Running, Commit, BufferFull
  <2>8. StateBeforeSubmissions' /\ StateKnown'
    BY <1>1 DEF RunTypes, ChainTypes, StateBeforeSubmissions, StateKnown, NoState, Commit, BufferFull
  <2>9. ReorgOnlyAfterGap'
    BY <1>1 DEF ReorgOnlyAfterGap, Commit, BufferFull
  <2>10. QED
    BY <2>1, <2>2, <2>3, <2>4, <2>5, <2>6, <2>7, <2>8, <2>9
<1>2. CASE SetEventBus
  <2>1. ChainTypes'
    BY <1>2 DEF ChainTypes, SetEventBus
  <2>2. HeadTypes'
    BY <1>2 DEF ChainTypes, HeadTypes, SetEventBus
  <2>3. RunTypes'
    BY <1>2 DEF RunTypes, Labels, HeadTypes, SetEventBus
  <2>4. HeadsOrdered'
    BY <1>2 DEF HeadTypes, HeadsOrdered, Known, Notified, Rank, SetEventBus
  <2>5. BlocksSeen'
    BY <1>2 DEF ChainTypes, BlocksSeen, SetEventBus
  <2>6. OneReset'
    BY <1>2 DEF RunTypes, OneReset, Running, SetEventBus
  <2>7. HeadKept'
    BY <1>2 DEF RunTypes, OneReset, HeadKept, Running, SetEventBus
  <2>8. StateBeforeSubmissions' /\ StateKnown'
    BY <1>2 DEF RunTypes, ChainTypes, StateBeforeSubmissions, StateKnown, NoState, SetEventBus
  <2>9. ReorgOnlyAfterGap'
    BY <1>2 DEF ReorgOnlyAfterGap, SetEventBus
  <2>10. QED
    BY <2>1, <2>2, <2>3, <2>4, <2>5, <2>6, <2>7, <2>8, <2>9
<1>3. CASE NotifyNewBlock
  <2>1. ChainTypes'
    BY <1>3 DEF ChainTypes, NotifyNewBlock, Remembered, CurrentBlock, Hash
  <2>2. HeadTypes'
    <3>1. CurrentBlock \in Header
      <4>1. CASE ready
        BY <4>1 DEF CurrentBlock, Header, ChainTypes, HeadTypes
      <4>2. CASE ~ ready
        BY <4>2 DEF CurrentBlock, ZeroHeader, Header
      <4>3. QED
        BY <4>1, <4>2
    <3>2. Hash(CurrentBlock) \in Seq(0..MaxHeight)
      BY <3>1 DEF Hash, Header
    <3>3. sending' = <<CurrentBlock>>
      BY <1>3 DEF NotifyNewBlock
    <3>4. sending' \in Seq(Header) /\ Len(sending') <= 1
      BY <3>1, <3>3
    <3>5. QED
      BY <1>3, <3>2, <3>4 DEF HeadTypes, NotifyNewBlock, Remembered
  <2>3. RunTypes'
    BY <1>3 DEF RunTypes, Labels, HeadTypes, NotifyNewBlock, Remembered, CurrentBlock, Hash
  <2>4. HeadsOrdered'
    <3> DEFINE b == [number |-> height, parent |-> prevHash]
    <3>1. CurrentBlock = b /\ height > 0
      BY <1>3 DEF NotifyNewBlock, CurrentBlock, BlocksSeen, ChainTypes
    <3>2. prevHash' = Append(prevHash, height) /\ sending' = <<b>>
      BY <1>3, <3>1 DEF NotifyNewBlock, Remembered, Hash
    <3>3. height \in 0..MaxHeight /\ b \in Header /\ prevHash \in Seq(0..MaxHeight)
      BY DEF ChainTypes, HeadTypes, Header
    <3>4. \A h \in Header : Known(h) => Known(h)'
      BY <3>2, <3>3, KnownKept
    <3>5. \A h \in Header : Known(h) => Rank(h) <= Len(prevHash)
      BY <3>3 DEF Header, Known, Notified, Rank
    <3>6. b # ZeroHeader /\ Rank(b) = Len(prevHash) + 1
      BY <3>1, <3>3 DEF ZeroHeader, Rank
    <3>7. /\ Len(prevHash) < Len(prevHash')
          /\ \A j \in 1..Len(prevHash) : prevHash[j] = prevHash'[j]
          /\ height = prevHash'[Len(prevHash) + 1]
      BY <3>2, <3>3
    <3>8. sending'[1] = b /\ Known(sending[1])'
      BY <3>2, <3>7 DEF Known, Notified
    <3>9. oldHead \in Header /\ newHead \in Header /\ (resetArg # <<>> => resetArg[2] \in Header)
      BY ResetsFact DEF HeadTypes
    <3>10. UNCHANGED <<oldHead, newHead, resetArg>>
      BY <1>3 DEF NotifyNewBlock
    <3>11. Rank(newHead) < Rank(b) /\ Rank(newHead) \in Nat /\ Rank(b) \in Nat
      BY <3>3, <3>5, <3>6, <3>9 DEF HeadsOrdered, Rank, Header
    <3>12. (Rank(newHead) < Rank(sending[1]))'
      BY <3>8, <3>10, <3>11 DEF Rank
    <3>13. Known(oldHead)' /\ Known(newHead)' /\ (resetArg # <<>> => Known(resetArg[2]))'
      BY <3>4, <3>9, <3>10 DEF HeadsOrdered
    <3>14. QED
      BY <3>8, <3>10, <3>12, <3>13 DEF HeadsOrdered, Rank
  <2>5. BlocksSeen'
    BY <1>3 DEF ChainTypes, BlocksSeen, NotifyNewBlock, Remembered, CurrentBlock, Hash
  <2>6. OneReset'
    BY <1>3 DEF RunTypes, OneReset, Running, NotifyNewBlock, Remembered, CurrentBlock, Hash
  <2>7. HeadKept'
    BY <1>3 DEF RunTypes, OneReset, HeadKept, Running, NotifyNewBlock, Remembered, CurrentBlock, Hash
  <2>8. StateBeforeSubmissions' /\ StateKnown'
    BY <1>3 DEF RunTypes, ChainTypes, StateBeforeSubmissions, StateKnown, NoState, NotifyNewBlock, Remembered, CurrentBlock, Hash
  <2>9. ReorgOnlyAfterGap'
    BY <1>3 DEF ReorgOnlyAfterGap, NotifyNewBlock, Remembered, CurrentBlock, Hash
  <2>10. QED
    BY <2>1, <2>2, <2>3, <2>4, <2>5, <2>6, <2>7, <2>8, <2>9
<1>4. CASE LoopNewHead
  <2>1. ChainTypes'
    BY <1>4 DEF ChainTypes, LoopNewHead, LoopTop
  <2>2. HeadTypes'
    <3>1. sending[1] \in Header /\ sending' = <<>>
      BY <1>4 DEF LoopNewHead, HeadTypes
    <3>2. oldHead' \in Header /\ newHead' \in Header /\ resetArg' \in Resets
      BY <1>4, <3>1, ResetsFact DEF LoopNewHead, LoopTop, HeadTypes
    <3>3. QED
      BY <1>4, <3>1, <3>2 DEF HeadTypes, LoopNewHead
  <2>3. RunTypes'
    BY <1>4 DEF RunTypes, Labels, HeadTypes, LoopNewHead, LoopTop
  <2>4. HeadsOrdered'
    <3>1. sending[1] \in Header /\ Known(sending[1]) /\ Rank(newHead) < Rank(sending[1])
      BY <1>4 DEF LoopNewHead, HeadTypes, HeadsOrdered
    <3>2. /\ oldHead' = oldHead /\ newHead' = sending[1]
          /\ sending' = <<>> /\ prevHash' = prevHash
      BY <1>4 DEF LoopNewHead, LoopTop
    <3>3. \A h : Rank(h)' = Rank(h) /\ Known(h)' = Known(h)
      BY <3>2 DEF Rank, Known, Notified
    <3>4. Rank(oldHead) < Rank(sending[1])
      <4>1. \A h \in Header : Rank(h) \in Nat
        BY DEF Rank, Header
      <4>2. QED
        BY <3>1, <4>1 DEF HeadsOrdered, HeadTypes
    <3>5. CASE pc["resetter"] = "idle"
      <4>1. oldHead # sending[1]
        BY <3>4 DEF Rank, Header, HeadTypes
      <4>2. resetArg' = <<oldHead, sending[1]>>
        BY <1>4, <3>5, <4>1 DEF LoopNewHead, LoopTop
      <4>3. QED
        BY <3>1, <3>2, <3>4, <4>2 DEF HeadsOrdered, Rank, Known, Notified
    <3>6. CASE pc["resetter"] # "idle"
      <4>1. resetArg' = resetArg
        BY <1>4, <3>6 DEF LoopNewHead, LoopTop
      <4>2. \A h \in Header : Rank(h) \in Nat
        BY DEF Rank, Header
      <4>3. resetArg # <<>> => Rank(resetArg[2]) <= Rank(sending[1])
        BY <3>1, <4>2, ResetsFact DEF HeadsOrdered, HeadTypes
      <4>4. QED
        BY <3>1, <3>2, <3>4, <4>1, <4>3 DEF HeadsOrdered, Rank, Known, Notified
    <3>7. QED
      BY <3>5, <3>6
  <2>5. BlocksSeen'
    BY <1>4 DEF ChainTypes, BlocksSeen, LoopNewHead, LoopTop
  <2>6. OneReset'
    <3>1. /\ UNCHANGED <<next, run, closing>> /\ closing = "open"
          /\ LoopTop(oldHead, sending[1], pc["resetter"] = "idle")
      BY <1>4 DEF LoopNewHead
    <3>2. pc \in [Procs -> Labels] /\ "resetter" \in Procs
      BY DEF RunTypes, Procs
    <3>3. CASE pc["resetter"] # "idle"
      <4>1. pc' = pc /\ resetArg' = resetArg
        BY <3>1, <3>3 DEF LoopTop
      <4>2. QED
        BY <3>1, <4>1 DEF OneReset
    <3>4. CASE pc["resetter"] = "idle" /\ oldHead # sending[1]
      <4>1. pc' = [pc EXCEPT !["resetter"] = "request"] /\ resetArg' = <<oldHead, sending[1]>>
        BY <3>1, <3>4 DEF LoopTop
      <4>2. pc'["resetter"] = "request" /\ resetArg' # <<>>
        BY <3>2, <4>1
      <4>3. QED
        BY <3>1, <3>4, <4>2 DEF OneReset
    <3>5. CASE pc["resetter"] = "idle" /\ ~(oldHead # sending[1])
      <4>1. pc' = [pc EXCEPT !["resetter"] = "idle"] /\ resetArg' = <<>>
        BY <3>1, <3>5 DEF LoopTop
      <4>2. pc'["resetter"] = "idle"
        BY <3>2, <4>1
      <4>3. QED
        BY <3>1, <3>5, <4>1, <4>2 DEF OneReset
    <3>6. QED
      BY <3>3, <3>4, <3>5
  <2>7. HeadKept'
    BY <1>4 DEF RunTypes, OneReset, HeadKept, Running, LoopNewHead, LoopTop
  <2>8. StateBeforeSubmissions' /\ StateKnown'
    BY <1>4 DEF RunTypes, ChainTypes, StateBeforeSubmissions, StateKnown, NoState, LoopNewHead, LoopTop
  <2>9. ReorgOnlyAfterGap'
    BY <1>4 DEF ReorgOnlyAfterGap, LoopNewHead, LoopTop
  <2>10. QED
    BY <2>1, <2>2, <2>3, <2>4, <2>5, <2>6, <2>7, <2>8, <2>9
<1>5. CASE LoopResetDone
  <2>1. ChainTypes'
    BY <1>5 DEF ChainTypes, LoopResetDone, LoopTop, ResetTo
  <2>2. HeadTypes'
    <3>1. resetArg[2] \in Header
      BY <1>5, ResetsFact DEF LoopResetDone, OneReset, HeadTypes
    <3>2. oldHead' = resetArg[2] /\ newHead' = newHead /\ resetArg' \in {<<>>, <<resetArg[2], newHead>>}
      BY <1>5 DEF LoopResetDone, LoopTop, ResetTo
    <3>3. resetArg' \in Resets
      BY <3>1, <3>2, ResetsFact DEF HeadTypes
    <3>4. QED
      BY <1>5, <3>1, <3>2, <3>3 DEF HeadTypes, LoopResetDone
  <2>3. RunTypes'
    <3>1. pc' \in [Procs -> Labels]
      BY <1>5 DEF RunTypes, Labels, LoopResetDone, LoopTop
    <3>2. QED
      BY <1>5, <3>1 DEF RunTypes, LoopResetDone
  <2>4. HeadsOrdered'
    <3> DEFINE r == resetArg[2]
    <3>1. r \in Header /\ Known(r) /\ Rank(r) <= Rank(newHead)
      BY <1>5, ResetsFact DEF LoopResetDone, OneReset, HeadTypes, HeadsOrdered
    <3>2. /\ oldHead' = r /\ newHead' = newHead
          /\ sending' = sending /\ prevHash' = prevHash
      BY <1>5 DEF LoopResetDone, LoopTop, ResetTo
    <3>3. CASE r = newHead
      <4>1. resetArg' = <<>>
        BY <1>5, <3>3 DEF LoopResetDone, LoopTop, ResetTo
      <4>2. QED
        BY <3>1, <3>2, <4>1 DEF HeadsOrdered, Known, Notified, Rank
    <3>4. CASE r # newHead
      <4>1. resetArg' = <<r, newHead>>
        BY <1>5, <3>4 DEF LoopResetDone, LoopTop, ResetTo
      <4>2. Rank(r) # Rank(newHead)
        BY <3>1, <3>4, SameRank DEF HeadTypes, HeadsOrdered
      <4>3. Rank(r) < Rank(newHead) /\ Rank(newHead) <= Rank(newHead)
        BY <3>1, <4>2, SMTT(40) DEF Rank, Header, HeadTypes
      <4>4. QED
        BY <3>1, <3>2, <4>1, <4>3 DEF HeadsOrdered, Known, Notified, Rank
    <3>5. QED
      BY <3>3, <3>4
  <2>5. BlocksSeen'
    BY <1>5 DEF ChainTypes, BlocksSeen, LoopResetDone, LoopTop, ResetTo
  <2>6. OneReset'
    <3>1. pc["resetter"] = "done" /\ UNCHANGED <<next, run, closing>>
      BY <1>5 DEF LoopResetDone
    <3>2. CASE resetArg[2] # newHead
      BY <1>5, <3>1, <3>2, SMTT(40) DEF RunTypes, LoopResetDone, LoopTop, ResetTo, OneReset
    <3>3. CASE resetArg[2] = newHead
      BY <1>5, <3>1, <3>3 DEF RunTypes, LoopResetDone, LoopTop, ResetTo, OneReset
    <3>4. QED
      BY <3>2, <3>3
  <2>7. HeadKept'
    BY <1>5 DEF RunTypes, OneReset, HeadKept, Running, LoopResetDone, LoopTop, ResetTo
  <2>8. StateBeforeSubmissions' /\ StateKnown'
    BY <1>5 DEF RunTypes, ChainTypes, StateBeforeSubmissions, StateKnown, NoState, LoopResetDone, LoopTop, ResetTo
  <2>9. ReorgOnlyAfterGap'
    BY <1>5 DEF ReorgOnlyAfterGap, LoopResetDone, LoopTop, ResetTo
  <2>10. QED
    BY <2>1, <2>2, <2>3, <2>4, <2>5, <2>6, <2>7, <2>8, <2>9
<1>6. CASE ResetterEnds
  <2>1. ChainTypes'
    BY <1>6 DEF ChainTypes, ResetterEnds
  <2>2. HeadTypes'
    BY <1>6, ResetsFact DEF HeadTypes, ResetterEnds
  <2>3. RunTypes'
    BY <1>6 DEF RunTypes, Labels, HeadTypes, ResetterEnds
  <2>4. HeadsOrdered'
    BY <1>6 DEF HeadTypes, HeadsOrdered, Known, Notified, Rank, ResetterEnds
  <2>5. BlocksSeen'
    BY <1>6 DEF ChainTypes, BlocksSeen, ResetterEnds
  <2>6. OneReset'
    BY <1>6 DEF RunTypes, OneReset, Running, ResetterEnds
  <2>7. HeadKept'
    BY <1>6 DEF RunTypes, OneReset, HeadKept, Running, ResetterEnds
  <2>8. StateBeforeSubmissions' /\ StateKnown'
    BY <1>6 DEF RunTypes, ChainTypes, StateBeforeSubmissions, StateKnown, NoState, ResetterEnds
  <2>9. ReorgOnlyAfterGap'
    BY <1>6 DEF ReorgOnlyAfterGap, ResetterEnds
  <2>10. QED
    BY <2>1, <2>2, <2>3, <2>4, <2>5, <2>6, <2>7, <2>8, <2>9
<1>7. CASE RequestReset
  <2>1. ChainTypes'
    BY <1>7 DEF ChainTypes, RequestReset, Launched, NoRequest
  <2>2. HeadTypes'
    BY <1>7 DEF ChainTypes, HeadTypes, RequestReset, Launched, NoRequest
  <2>3. RunTypes'
    <3> DEFINE reset == IF next.reset = <<>> THEN resetArg ELSE <<next.reset[1], resetArg[2]>>
               n == [next EXCEPT !.reset = reset, !.launch = TRUE]
               w == [pc EXCEPT !["resetter"] = "next"]
    <3>1. Launched(run, n, w)
      BY <1>7 DEF RequestReset
    <3>2. reset = resetArg
      BY <1>7 DEF RequestReset, OneReset
    <3>3. n \in Requests
      <4>1. TRUE \in BOOLEAN /\ reset \in Resets
        BY <3>2 DEF HeadTypes
      <4>2. QED
        BY <4>1 DEF RunTypes, Requests
    <3>4. w \in [Procs -> Labels] /\ run \in Runs
      BY DEF RunTypes, Labels
    <3> HIDE DEF n, w
    <3>5. QED
      BY <3>1, <3>3, <3>4, LaunchedTypes
  <2>4. HeadsOrdered'
    BY <1>7 DEF HeadTypes, HeadsOrdered, Known, Notified, Rank, RequestReset, Launched, NoRequest
  <2>5. BlocksSeen'
    BY <1>7 DEF ChainTypes, BlocksSeen, RequestReset, Launched, NoRequest
  <2>6. OneReset'
    <3> DEFINE w == [pc EXCEPT !["resetter"] = "next"]
    <3>1. next.reset = <<>> /\ resetArg # <<>> /\ closing # "closed"
      BY <1>7 DEF RequestReset, OneReset
    <3>2. w["resetter"] = "next"
      BY DEF RunTypes
    <3>3. UNCHANGED <<resetArg, closing>>
      BY <1>7 DEF RequestReset
    <3>4. CASE run.pc = "none"
      <4>1. /\ run'.reset = resetArg /\ run'.pc = "start" /\ next'.reset = <<>>
            /\ pc'["resetter"] = "cur"
        BY <1>7, <3>1, <3>2, <3>4 DEF RequestReset, Launched, NoRequest, RunTypes, Requests
      <4>2. QED
        BY <3>1, <3>3, <4>1 DEF OneReset, Running
    <3>5. CASE run.pc # "none"
      <4>1. run' = run /\ next'.reset = resetArg /\ pc'["resetter"] = "next"
        BY <1>7, <3>1, <3>2, <3>5 DEF RequestReset, Launched, RunTypes, Requests
      <4>2. QED
        BY <1>7, <3>1, <3>3, <4>1 DEF RequestReset, OneReset
    <3>6. QED
      BY <3>4, <3>5
  <2>7. HeadKept'
    BY <1>7 DEF RunTypes, OneReset, HeadKept, Running, RequestReset, Launched, NoRequest
  <2>8. StateBeforeSubmissions' /\ StateKnown'
    BY <1>7 DEF RunTypes, ChainTypes, StateBeforeSubmissions, StateKnown, NoState, RequestReset, Launched, NoRequest
  <2>9. ReorgOnlyAfterGap'
    BY <1>7 DEF ReorgOnlyAfterGap, RequestReset, Launched, NoRequest
  <2>10. QED
    BY <2>1, <2>2, <2>3, <2>4, <2>5, <2>6, <2>7, <2>8, <2>9
<1>8. CASE RunReorgStart
  <2>1. ChainTypes'
    BY <1>8 DEF ChainTypes, RunReorgStart
  <2>2. HeadTypes'
    BY <1>8 DEF ChainTypes, HeadTypes, RunReorgStart
  <2>3. RunTypes'
    <3>1. run' \in Runs
      BY <1>8 DEF RunReorgStart, RunTypes, Runs
    <3>2. QED
      BY <1>8, <3>1 DEF RunTypes, RunReorgStart
  <2>4. HeadsOrdered'
    BY <1>8 DEF HeadTypes, HeadsOrdered, Known, Notified, Rank, RunReorgStart
  <2>5. BlocksSeen'
    BY <1>8 DEF ChainTypes, BlocksSeen, RunReorgStart
  <2>6. OneReset'
    BY <1>8 DEF RunTypes, Runs, OneReset, Running, RunReorgStart
  <2>7. HeadKept'
    BY <1>8 DEF RunTypes, Runs, OneReset, HeadKept, Running, RunReorgStart
  <2>8. StateBeforeSubmissions' /\ StateKnown'
    BY <1>8 DEF RunTypes, ChainTypes, StateBeforeSubmissions, StateKnown, NoState, RunReorgStart
  <2>9. ReorgOnlyAfterGap'
    <3>1. CASE status' = "reorg"
      <4>1. run.reset # <<>> /\ run' = run /\ Reorged(run.reset[1], run.reset[2])
        BY <1>8, <3>1 DEF RunReorgStart, ResetPanics
      <4>2. run.reset = resetArg /\ resetArg # <<>>
        BY <1>8, <4>1 DEF RunReorgStart, OneReset, Running
      <4>3. run.reset[1] = oldHead /\ run.reset[2] \in Header
            /\ Known(run.reset[2]) /\ Rank(oldHead) < Rank(run.reset[2])
        BY <4>2, ResetsFact DEF HeadsOrdered, HeadTypes
      <4>4. oldHead \in Header /\ Known(oldHead)
        BY DEF HeadsOrdered, HeadTypes
      <4>5. oldHead = ZeroHeader \/ Len(run.reset[2].parent) > Len(Hash(oldHead))
        BY <4>1, <4>3, <4>4, GapPassed
      <4>6. QED
        BY <4>1, <4>3, <4>5 DEF ReorgOnlyAfterGap
    <3>2. CASE status' # "reorg"
      BY <3>2 DEF ReorgOnlyAfterGap
    <3>3. QED
      BY <3>1, <3>2
  <2>10. QED
    BY <2>1, <2>2, <2>3, <2>4, <2>5, <2>6, <2>7, <2>8, <2>9
<1>9. CASE RunReorgLocked
  <2>1. ChainTypes'
    BY <1>9 DEF ChainTypes, RunReorgLocked
  <2>2. HeadTypes'
    <3>1. run.reset # <<>> => run.reset[2] \in Header
      BY ResetsFact DEF RunTypes, Runs
    <3>2. QED
      BY <1>9, <3>1 DEF ChainTypes, HeadTypes, RunReorgLocked
  <2>3. RunTypes'
    <3>1. run' \in Runs
      BY <1>9 DEF RunReorgLocked, RunTypes, Runs
    <3>2. QED
      BY <1>9, <3>1 DEF RunTypes, RunReorgLocked
  <2>4. HeadsOrdered'
    BY <1>9 DEF HeadTypes, HeadsOrdered, Known, Notified, Rank, RunReorgLocked
  <2>5. BlocksSeen'
    BY <1>9 DEF ChainTypes, BlocksSeen, RunReorgLocked
  <2>6. OneReset'
    BY <1>9 DEF RunTypes, OneReset, Running, RunReorgLocked
  <2>7. HeadKept'
    BY <1>9 DEF RunTypes, OneReset, HeadKept, Running, RunReorgLocked
  <2>8. StateBeforeSubmissions' /\ StateKnown'
    BY <1>9 DEF RunTypes, ChainTypes, StateBeforeSubmissions, StateKnown, NoState, RunReorgLocked
  <2>9. ReorgOnlyAfterGap'
    BY <1>9 DEF ReorgOnlyAfterGap, RunReorgLocked
  <2>10. QED
    BY <2>1, <2>2, <2>3, <2>4, <2>5, <2>6, <2>7, <2>8, <2>9
<1>10. CASE Announce
  <2>1. ChainTypes'
    BY <1>10 DEF ChainTypes, Announce
  <2>2. HeadTypes'
    BY <1>10 DEF ChainTypes, HeadTypes, Announce
  <2>3. RunTypes'
    <3>1. run' \in Runs
      BY <1>10 DEF Announce, RunTypes, Runs
    <3>2. pc' \in [Procs -> Labels]
      BY <1>10 DEF Announce, RunTypes, Labels
    <3>3. QED
      BY <1>10, <3>1, <3>2 DEF RunTypes, Announce
  <2>4. HeadsOrdered'
    BY <1>10 DEF HeadTypes, HeadsOrdered, Known, Notified, Rank, Announce
  <2>5. BlocksSeen'
    BY <1>10 DEF ChainTypes, BlocksSeen, Announce
  <2>6. OneReset'
    BY <1>10 DEF RunTypes, OneReset, Running, Announce
  <2>7. HeadKept'
    BY <1>10 DEF RunTypes, OneReset, HeadKept, Running, Announce
  <2>8. StateBeforeSubmissions' /\ StateKnown'
    BY <1>10 DEF RunTypes, ChainTypes, StateBeforeSubmissions, StateKnown, NoState, Announce
  <2>9. ReorgOnlyAfterGap'
    BY <1>10 DEF ReorgOnlyAfterGap, Announce
  <2>10. QED
    BY <2>1, <2>2, <2>3, <2>4, <2>5, <2>6, <2>7, <2>8, <2>9
<1>11. CASE RunDone
  <2>1. ChainTypes'
    BY <1>11 DEF ChainTypes, RunDone, Launched, NoRun, NoRequest
  <2>2. HeadTypes'
    BY <1>11 DEF ChainTypes, HeadTypes, RunDone, Launched, NoRun, NoRequest
  <2>3. RunTypes'
    <3>1. NoRun \in Runs
      BY ResetsFact DEF NoRun, Runs
    <3>2. QED
      BY <1>11, <3>1, LaunchedTypes DEF RunTypes, RunDone
  <2>4. HeadsOrdered'
    BY <1>11 DEF HeadTypes, HeadsOrdered, Known, Notified, Rank, RunDone, Launched, NoRun, NoRequest
  <2>5. BlocksSeen'
    BY <1>11 DEF ChainTypes, BlocksSeen, RunDone, Launched, NoRun, NoRequest
  <2>6. OneReset'
    BY <1>11 DEF RunTypes, OneReset, Running, RunDone, Launched, NoRun, NoRequest
  <2>7. HeadKept'
    BY <1>11 DEF RunTypes, OneReset, HeadKept, Running, RunDone, Launched, NoRun, NoRequest
  <2>8. StateBeforeSubmissions' /\ StateKnown'
    BY <1>11 DEF RunTypes, ChainTypes, StateBeforeSubmissions, StateKnown, NoState, RunDone, Launched, NoRun, NoRequest
  <2>9. ReorgOnlyAfterGap'
    BY <1>11 DEF ReorgOnlyAfterGap, RunDone, Launched, NoRun, NoRequest
  <2>10. QED
    BY <2>1, <2>2, <2>3, <2>4, <2>5, <2>6, <2>7, <2>8, <2>9
<1>12. ASSUME NEW p \in Sender, Insert(p) PROVE ResetInv'
  <2>1. ChainTypes'
    BY <1>12 DEF ChainTypes, Insert, BasicsPass
  <2>2. HeadTypes'
    BY <1>12 DEF ChainTypes, HeadTypes, Insert, BasicsPass
  <2>3. RunTypes'
    BY <1>12 DEF RunTypes, Labels, HeadTypes, Insert, BasicsPass
  <2>4. HeadsOrdered'
    BY <1>12 DEF HeadTypes, HeadsOrdered, Known, Notified, Rank, Insert, BasicsPass
  <2>5. BlocksSeen'
    BY <1>12 DEF ChainTypes, BlocksSeen, Insert, BasicsPass
  <2>6. OneReset'
    BY <1>12 DEF RunTypes, OneReset, Running, Insert, BasicsPass
  <2>7. HeadKept'
    BY <1>12 DEF RunTypes, OneReset, HeadKept, Running, Insert, BasicsPass
  <2>8. StateBeforeSubmissions' /\ StateKnown'
    BY <1>12 DEF RunTypes, ChainTypes, StateBeforeSubmissions, StateKnown, NoState, Insert, BasicsPass
  <2>9. ReorgOnlyAfterGap'
    BY <1>12 DEF ReorgOnlyAfterGap, Insert, BasicsPass
  <2>10. QED
    BY <2>1, <2>2, <2>3, <2>4, <2>5, <2>6, <2>7, <2>8, <2>9
<1>13. ASSUME NEW p \in Sender, InsertInvalidNonce(p) PROVE ResetInv'
  <2>1. ChainTypes'
    BY <1>13 DEF ChainTypes, InsertInvalidNonce, BasicsPass
  <2>2. HeadTypes'
    BY <1>13 DEF ChainTypes, HeadTypes, InsertInvalidNonce, BasicsPass
  <2>3. RunTypes'
    BY <1>13 DEF RunTypes, Labels, HeadTypes, InsertInvalidNonce, BasicsPass
  <2>4. HeadsOrdered'
    BY <1>13 DEF HeadTypes, HeadsOrdered, Known, Notified, Rank, InsertInvalidNonce, BasicsPass
  <2>5. BlocksSeen'
    BY <1>13 DEF ChainTypes, BlocksSeen, InsertInvalidNonce, BasicsPass
  <2>6. OneReset'
    BY <1>13 DEF RunTypes, OneReset, Running, InsertInvalidNonce, BasicsPass
  <2>7. HeadKept'
    BY <1>13 DEF RunTypes, OneReset, HeadKept, Running, InsertInvalidNonce, BasicsPass
  <2>8. StateBeforeSubmissions' /\ StateKnown'
    BY <1>13 DEF RunTypes, ChainTypes, StateBeforeSubmissions, StateKnown, NoState, InsertInvalidNonce, BasicsPass
  <2>9. ReorgOnlyAfterGap'
    BY <1>13 DEF ReorgOnlyAfterGap, InsertInvalidNonce, BasicsPass
  <2>10. QED
    BY <2>1, <2>2, <2>3, <2>4, <2>5, <2>6, <2>7, <2>8, <2>9
<1>14. ASSUME NEW p \in Sender, AddTxsLocked(p) PROVE ResetInv'
  <2>1. ChainTypes'
    BY <1>14 DEF ChainTypes, AddTxsLocked
  <2>2. HeadTypes'
    BY <1>14 DEF ChainTypes, HeadTypes, AddTxsLocked
  <2>3. RunTypes'
    BY <1>14 DEF RunTypes, Labels, HeadTypes, AddTxsLocked
  <2>4. HeadsOrdered'
    BY <1>14 DEF HeadTypes, HeadsOrdered, Known, Notified, Rank, AddTxsLocked
  <2>5. BlocksSeen'
    BY <1>14 DEF ChainTypes, BlocksSeen, AddTxsLocked
  <2>6. OneReset'
    BY <1>14 DEF RunTypes, OneReset, Running, AddTxsLocked
  <2>7. HeadKept'
    BY <1>14 DEF RunTypes, OneReset, HeadKept, Running, AddTxsLocked
  <2>8. StateBeforeSubmissions' /\ StateKnown'
    BY <1>14 DEF RunTypes, ChainTypes, StateBeforeSubmissions, StateKnown, NoState, AddTxsLocked
  <2>9. ReorgOnlyAfterGap'
    BY <1>14 DEF ReorgOnlyAfterGap, AddTxsLocked
  <2>10. QED
    BY <2>1, <2>2, <2>3, <2>4, <2>5, <2>6, <2>7, <2>8, <2>9
<1>15. ASSUME NEW p \in Sender, RequestPromote(p) PROVE ResetInv'
  <2>1. ChainTypes'
    BY <1>15 DEF ChainTypes, RequestPromote, Launched, NoRequest, Dirtied
  <2>2. HeadTypes'
    BY <1>15 DEF ChainTypes, HeadTypes, RequestPromote, Launched, NoRequest, Dirtied
  <2>3. RunTypes'
    <3> DEFINE asked == IF pc[p] = "request" THEN Dirtied(next.dirty, p) ELSE next.dirty
               n == [next EXCEPT !.dirty = asked, !.launch = TRUE]
               w == [pc EXCEPT ![p] = IF p \in Sync THEN "next" ELSE "idle"]
    <3>1. Launched(run, n, w)
      BY <1>15 DEF RequestPromote
    <3>2. n \in Requests
      <4>1. TRUE \in BOOLEAN /\ next \in Requests
        BY DEF RunTypes
      <4>2. asked \in SUBSET Sender
        BY <1>15, <4>1 DEF Requests, Dirtied
      <4> HIDE DEF asked
      <4>3. QED
        BY <4>1, <4>2 DEF Requests
    <3>3. w \in [Procs -> Labels] /\ run \in Runs
      BY DEF RunTypes, Labels
    <3> HIDE DEF n, w
    <3>4. QED
      BY <3>1, <3>2, <3>3, LaunchedTypes
  <2>4. HeadsOrdered'
    BY <1>15 DEF HeadTypes, HeadsOrdered, Known, Notified, Rank, RequestPromote, Launched, NoRequest, Dirtied
  <2>5. BlocksSeen'
    BY <1>15 DEF ChainTypes, BlocksSeen, RequestPromote, Launched, NoRequest, Dirtied
  <2>6. OneReset'
    <3> DEFINE w == [pc EXCEPT ![p] = IF p \in Sync THEN "next" ELSE "idle"]
    <3>1. /\ closing # "closed" /\ UNCHANGED <<resetArg, closing>>
          /\ p # "resetter"
      BY <1>15 DEF RequestPromote
    <3>2. PICK d : Launched(run, [next EXCEPT !.dirty = d, !.launch = TRUE], w)
      BY <1>15 DEF RequestPromote
    <3>3. w["resetter"] = pc["resetter"]
      BY <3>1 DEF RunTypes
    <3> HIDE DEF w
    <3>4. CASE run.pc = "none"
      <4>1. run'.reset = next.reset /\ run'.pc = "start" /\ next'.reset = <<>>
        BY <3>2, <3>4 DEF Launched, NoRequest, RunTypes, Requests
      <4>2. pc'["resetter"] = IF pc["resetter"] = "next" THEN "cur" ELSE pc["resetter"]
        BY <3>2, <3>3, <3>4 DEF Launched, RunTypes, Requests
      <4>3. QED
        BY <3>1, <3>4, <4>1, <4>2 DEF OneReset, Running
    <3>5. CASE run.pc # "none"
      <4>1. run' = run /\ next'.reset = next.reset /\ pc'["resetter"] = pc["resetter"]
        BY <3>2, <3>3, <3>5 DEF Launched, RunTypes, Requests
      <4>2. QED
        BY <3>1, <4>1 DEF OneReset
    <3>6. QED
      BY <3>4, <3>5
  <2>7. HeadKept'
    <3> DEFINE w == [pc EXCEPT ![p] = IF p \in Sync THEN "next" ELSE "idle"]
    <3>1. /\ closing # "closed" /\ UNCHANGED <<resetArg, closing, oldHead, head>>
          /\ p # "resetter"
      BY <1>15 DEF RequestPromote
    <3>2. PICK d : Launched(run, [next EXCEPT !.dirty = d, !.launch = TRUE], w)
      BY <1>15 DEF RequestPromote
    <3>3. w["resetter"] = pc["resetter"]
      BY <3>1 DEF RunTypes
    <3> HIDE DEF w
    <3>4. CASE run.pc = "none"
      <4>1. run'.pc = "start"
        BY <3>2, <3>4 DEF Launched, RunTypes, Requests
      <4>2. pc'["resetter"] = IF pc["resetter"] = "next" THEN "cur" ELSE pc["resetter"]
        BY <3>2, <3>3, <3>4 DEF Launched, RunTypes, Requests
      <4>3. QED
        BY <3>1, <3>4, <4>1, <4>2 DEF OneReset, HeadKept, Running
    <3>5. CASE run.pc # "none"
      <4>1. run' = run /\ pc'["resetter"] = pc["resetter"]
        BY <3>2, <3>3, <3>5 DEF Launched, RunTypes, Requests
      <4>2. QED
        BY <3>1, <4>1 DEF HeadKept
    <3>6. QED
      BY <3>4, <3>5
  <2>8. StateBeforeSubmissions' /\ StateKnown'
    <3>1. UNCHANGED <<head, state, status>>
      BY <1>15 DEF RequestPromote
    <3>2. \A q \in Sender : pc'[q] = "lock" => pc[q] = "lock"
      BY <1>15 DEF RequestPromote, Launched, RunTypes
    <3>3. QED
      BY <3>1, <3>2 DEF StateBeforeSubmissions, StateKnown
  <2>9. ReorgOnlyAfterGap'
    BY <1>15 DEF ReorgOnlyAfterGap, RequestPromote, Launched, NoRequest, Dirtied
  <2>10. QED
    BY <2>1, <2>2, <2>3, <2>4, <2>5, <2>6, <2>7, <2>8, <2>9
<1>16. ASSUME NEW p \in Procs, RequestRefused(p) PROVE ResetInv'
  <2>1. ChainTypes'
    BY <1>16 DEF ChainTypes, RequestRefused
  <2>2. HeadTypes'
    BY <1>16 DEF ChainTypes, HeadTypes, RequestRefused
  <2>3. RunTypes'
    BY <1>16 DEF RunTypes, Labels, HeadTypes, RequestRefused
  <2>4. HeadsOrdered'
    BY <1>16 DEF HeadTypes, HeadsOrdered, Known, Notified, Rank, RequestRefused
  <2>5. BlocksSeen'
    BY <1>16 DEF ChainTypes, BlocksSeen, RequestRefused
  <2>6. OneReset'
    BY <1>16 DEF RunTypes, OneReset, Running, RequestRefused
  <2>7. HeadKept'
    BY <1>16 DEF RunTypes, OneReset, HeadKept, Running, RequestRefused
  <2>8. StateBeforeSubmissions' /\ StateKnown'
    BY <1>16 DEF RunTypes, ChainTypes, StateBeforeSubmissions, StateKnown, NoState, RequestRefused
  <2>9. ReorgOnlyAfterGap'
    BY <1>16 DEF ReorgOnlyAfterGap, RequestRefused
  <2>10. QED
    BY <2>1, <2>2, <2>3, <2>4, <2>5, <2>6, <2>7, <2>8, <2>9
<1>17. CASE Close
  <2>1. ChainTypes'
    BY <1>17 DEF ChainTypes, Close
  <2>2. HeadTypes'
    BY <1>17 DEF ChainTypes, HeadTypes, Close
  <2>3. RunTypes'
    BY <1>17 DEF RunTypes, Labels, HeadTypes, Close
  <2>4. HeadsOrdered'
    BY <1>17 DEF HeadTypes, HeadsOrdered, Known, Notified, Rank, Close
  <2>5. BlocksSeen'
    BY <1>17 DEF ChainTypes, BlocksSeen, Close
  <2>6. OneReset'
    BY <1>17 DEF RunTypes, OneReset, Running, Close
  <2>7. HeadKept'
    BY <1>17 DEF RunTypes, OneReset, HeadKept, Running, Close
  <2>8. StateBeforeSubmissions' /\ StateKnown'
    BY <1>17 DEF RunTypes, ChainTypes, StateBeforeSubmissions, StateKnown, NoState, Close
  <2>9. ReorgOnlyAfterGap'
    BY <1>17 DEF ReorgOnlyAfterGap, Close
  <2>10. QED
    BY <2>1, <2>2, <2>3, <2>4, <2>5, <2>6, <2>7, <2>8, <2>9
<1>18. CASE ReorgLoopExit
  <2>1. ChainTypes'
    BY <1>18 DEF ChainTypes, ReorgLoopExit, Waiting
  <2>2. HeadTypes'
    BY <1>18 DEF ChainTypes, HeadTypes, ReorgLoopExit, Waiting
  <2>3. RunTypes'
    BY <1>18 DEF RunTypes, Labels, HeadTypes, ReorgLoopExit, Waiting
  <2>4. HeadsOrdered'
    BY <1>18 DEF HeadTypes, HeadsOrdered, Known, Notified, Rank, ReorgLoopExit, Waiting
  <2>5. BlocksSeen'
    BY <1>18 DEF ChainTypes, BlocksSeen, ReorgLoopExit, Waiting
  <2>6. OneReset'
    BY <1>18 DEF RunTypes, OneReset, Running, ReorgLoopExit, Waiting
  <2>7. HeadKept'
    BY <1>18 DEF RunTypes, OneReset, HeadKept, Running, ReorgLoopExit, Waiting
  <2>8. StateBeforeSubmissions' /\ StateKnown'
    BY <1>18 DEF RunTypes, ChainTypes, StateBeforeSubmissions, StateKnown, NoState, ReorgLoopExit, Waiting
  <2>9. ReorgOnlyAfterGap'
    BY <1>18 DEF ReorgOnlyAfterGap, ReorgLoopExit, Waiting
  <2>10. QED
    BY <2>1, <2>2, <2>3, <2>4, <2>5, <2>6, <2>7, <2>8, <2>9
<1>19. CASE UNCHANGED poolVars
  <2>1. ChainTypes'
    BY <1>19 DEF ChainTypes, poolVars
  <2>2. HeadTypes'
    BY <1>19 DEF ChainTypes, HeadTypes, poolVars
  <2>3. RunTypes'
    BY <1>19 DEF RunTypes, Labels, HeadTypes, poolVars
  <2>4. HeadsOrdered'
    BY <1>19 DEF HeadTypes, HeadsOrdered, Known, Notified, Rank, poolVars
  <2>5. BlocksSeen'
    BY <1>19 DEF ChainTypes, BlocksSeen, poolVars
  <2>6. OneReset'
    BY <1>19 DEF RunTypes, OneReset, Running, poolVars
  <2>7. HeadKept'
    BY <1>19 DEF RunTypes, OneReset, HeadKept, Running, poolVars
  <2>8. StateBeforeSubmissions' /\ StateKnown'
    BY <1>19 DEF RunTypes, ChainTypes, StateBeforeSubmissions, StateKnown, NoState, poolVars
  <2>9. ReorgOnlyAfterGap'
    BY <1>19 DEF ReorgOnlyAfterGap, poolVars
  <2>10. QED
    BY <2>1, <2>2, <2>3, <2>4, <2>5, <2>6, <2>7, <2>8, <2>9
<1>20. QED
  BY <1>1, <1>2, <1>3, <1>4, <1>5, <1>6, <1>7, <1>8, <1>9, <1>10, <1>11, <1>12, <1>13, <1>14, <1>15, <1>16, <1>17, <1>18, <1>19 DEF PoolNext, Ended

\* What the proofs rest on: every state of the pool satisfies the invariant above, for
\* any accounts, buffer and depth and however long the chain grows.
THEOREM ResetInvariance == PoolSpec => []ResetInv
<1>1. PoolInit => ResetInv
  BY ResetInitInv
<1>2. ResetInv /\ [PoolNext]_poolVars => ResetInv'
  BY ResetStepInv
<1>3. QED
  BY <1>1, <1>2, PTL DEF PoolSpec

\* Whatever heads arrive while a reset runs, however requests are merged into runs and
\* wherever submissions and Close fall between them, scheduleReorgLoop resets the pool
\* from the head it is at, no submission reads a state that is not there, and reset takes
\* a head for a reorganisation only as the first one or after a head it was never given.
THEOREM ResetsAlwaysSafe == PoolSpec => []ResetsSafely
<1>1. ResetInv => ResetsSafely
  <2> SUFFICES ASSUME ResetInv PROVE ResetsSafely
    OBVIOUS
  <2>1. PoolTypes
    <3>1. ready \in BOOLEAN
      BY DEF ResetInv, ChainTypes
    <3>2. next.dirty \subseteq Sender /\ run.dirty \subseteq Sender
          /\ run.pc \in {"none", "start", "locked", "announce", "done"}
      BY DEF ResetInv, RunTypes, Requests, Runs
    <3>3. QED
      BY <3>1, <3>2 DEF ResetInv, ChainTypes, HeadTypes, RunTypes, Labels, PoolTypes
  <2>2. ResetsFromItsHead
    BY DEF ResetInv, OneReset, HeadKept, HeadsOrdered, Running, ResetsFromItsHead
  <2>3. QED
    BY <2>1, <2>2 DEF ResetInv, ResetsSafely
<1>2. QED
  BY <1>1, ResetInvariance, PTL

(***************************************************************************)
(* LegacyPool.  What the invariant is made of.                             *)
(*                                                                         *)
(* Every operation is shown to keep the agreement of the lists with the    *)
(* lookup (Agree) and with the reservations (Held).  The pending nonces of *)
(* an account run from its nonce to its virtual nonce (Contiguous), except *)
(* under a new head, where until the virtual nonces are set again they     *)
(* only have no gap above the account's new nonce (Closed).                *)
(***************************************************************************)
Pools == [pending : SUBSET Tx, queue : SUBSET Tx, all : SUBSET Tx,
          nonces : [Account -> 0..(MaxNonce + 1)], reserved : SUBSET Account]

Lists(p) == p.pending \cup p.queue

\* Of an account, one transaction for a nonce.
Distinct(S) == \A t, u \in S : t.from = u.from /\ t.nonce = u.nonce => t = u

\* What every operation of the pool keeps, and every round of its loops: gone holds the
\* transaction that was taken from the lookup only.
Agree(p, gone) ==
    /\ p \in Pools
    /\ IsFiniteSet(p.pending) /\ IsFiniteSet(p.queue)
    /\ p.pending \cap p.queue = {}
    /\ gone \subseteq Tx /\ Distinct(Lists(p) \cup gone)
    /\ p.all = Lists(p) \ gone

\* The reserved accounts; A is still to get a transaction.
Held(p, A) == p.reserved = {a \in Account : HasList(p, a)} \cup A

\* The nonces of the pending transactions, up to the virtual nonce.
Contiguous(p, n) ==
    \A a \in Account :
        /\ n[a] <= p.nonces[a]
        /\ NoncesOf(p.pending, a) = n[a]..(p.nonces[a] - 1)

\* Each account can pay each of its pending transactions.
Paid(p, b) == \A t \in p.pending : t.price <= b[t.from]

\* Nobody of A waits with the transaction for its nonce.
NoneFirst(p, n, A) == \A a \in A : n[a] \notin NoncesOf(p.queue, a)

AccountNonces == [Account -> 0..(MaxNonce + 1)]

\* What an operation does that only moves and drops transactions.
Shrinks(p, q) ==
    /\ q \in Pools
    /\ Lists(q) \subseteq Lists(p)
    /\ q.pending \cap q.queue = {}
    /\ q.all = p.all \cap Lists(q)

\* The fields of a pool.
LEMMA PoolFields ==
    ASSUME NEW p \in Pools
    PROVE  /\ p.pending \in SUBSET Tx /\ p.queue \in SUBSET Tx /\ p.all \in SUBSET Tx
           /\ p.nonces \in AccountNonces /\ p.reserved \in SUBSET Account
           /\ p = [pending |-> p.pending, queue |-> p.queue, all |-> p.all,
                   nonces |-> p.nonces, reserved |-> p.reserved]
BY DEF Pools, AccountNonces

\* The fields of a transaction.
LEMMA TxFields ==
    ASSUME NEW t \in Tx
    PROVE  t.from \in Account /\ t.nonce \in Nat /\ t.nonce <= MaxNonce /\ t.price \in Nat
<1>1. t.from \in Account /\ t.nonce \in 0..MaxNonce /\ t.price \in Prices
  BY DEF Tx, Nonce
<1>2. MaxNonce \in Nat /\ Prices \subseteq Nat
  BY LegacyPoolAssumption
<1>3. t.price \in Nat
  BY <1>1, <1>2
<1>4. t.nonce \in Nat /\ t.nonce <= MaxNonce
  BY <1>1, <1>2
<1>5. QED
  BY <1>1, <1>3, <1>4

\* Whatever moves and drops only keeps the lists and the lookup in agreement.
LEMMA ShrinksAgree ==
    ASSUME NEW p, NEW q, NEW gone, Agree(p, gone), Shrinks(p, q)
    PROVE  Agree(q, gone)
<1>1. IsFiniteSet(Lists(p))
  BY FS_Union DEF Agree, Lists
<1>2. q.pending \in SUBSET Lists(p) /\ q.queue \in SUBSET Lists(p)
  BY DEF Shrinks, Lists
<1>3. IsFiniteSet(q.pending) /\ IsFiniteSet(q.queue)
  BY <1>1, <1>2, FS_Subset
<1>4. Distinct(Lists(q) \cup gone)
  <2>1. Lists(q) \cup gone \subseteq Lists(p) \cup gone
    BY DEF Shrinks
  <2>2. QED
    BY <2>1 DEF Agree, Distinct
<1>5. q.all = Lists(q) \ gone
  BY DEF Agree, Shrinks
<1>6. QED
  BY <1>3, <1>4, <1>5 DEF Agree, Shrinks

\* list.Add takes what no other transaction has the nonce of.
LEMMA NoClash ==
    ASSUME NEW S, NEW T, \A t \in T : At(S, t) = {}
    PROVE  Inserted(S, T) = T /\ Replaced(S, T) = {} /\ Listed(S, T) = S \cup T
<1>1. Inserted(S, T) = T
  BY DEF Inserted
<1>2. Replaced(S, T) = {}
  BY <1>1 DEF Replaced
<1>3. QED
  BY <1>1, <1>2 DEF Listed

\* No transaction is at the nonce of one that is listed elsewhere.
LEMMA NotThere ==
    ASSUME NEW S, NEW R, Distinct(S \cup R), NEW t \in R, t \notin S
    PROVE  At(S, t) = {}
BY DEF Distinct, At

\* Release changes nothing but the reservations.
LEMMA ReleaseFields ==
    ASSUME NEW p \in Pools, NEW A, NEW r, r = Release(p, A)
    PROVE  /\ r \in Pools
           /\ r.pending = p.pending /\ r.queue = p.queue
           /\ r.all = p.all /\ r.nonces = p.nonces
           /\ r.reserved = p.reserved \ {a \in A : ~HasList(p, a)}
           /\ \A a : HasList(r, a) = HasList(p, a)
<1>1. PICK R : R = {a \in A : ~HasList(p, a)}
  OBVIOUS
<1>2. r = [p EXCEPT !.reserved = @ \ R]
  BY <1>1 DEF Release
<1>3. /\ r \in Pools
      /\ r.pending = p.pending /\ r.queue = p.queue
      /\ r.all = p.all /\ r.nonces = p.nonces
      /\ r.reserved = p.reserved \ R
  BY <1>2 DEF Pools
<1>4. \A a : HasList(r, a) = HasList(p, a)
  BY <1>3 DEF HasList
<1>5. QED
  BY <1>1, <1>3, <1>4

\* The same pool but for the reservations.
SameLists(p, r) ==
    /\ r \in Pools
    /\ r.pending = p.pending /\ r.queue = p.queue /\ r.all = p.all /\ r.nonces = p.nonces

\* Release keeps the lists.
LEMMA ReleaseKeeps ==
    ASSUME NEW p \in Pools, NEW A
    PROVE  SameLists(p, Release(p, A))
<1>1. PICK r : r = Release(p, A)
  OBVIOUS
<1>2. r \in Pools /\ r.pending = p.pending /\ r.queue = p.queue /\ r.all = p.all /\ r.nonces = p.nonces
  BY <1>1, ReleaseFields
<1>3. QED
  BY <1>1, <1>2 DEF SameLists

\* An operation on the lists of a, followed by Release, keeps the reservations.
LEMMA HeldReleased ==
    ASSUME NEW p \in Pools, NEW q \in Pools, NEW a \in Account, NEW A, Held(p, A), a \notin A,
           q.reserved = p.reserved,
           \A c \in Account : c # a => HasList(q, c) = HasList(p, c),
           HasList(q, a) => HasList(p, a)
    PROVE  Held(Release(q, {a}), A)
<1>1. PICK r : r = Release(q, {a})
  OBVIOUS
<1>2. r.reserved = p.reserved \ {c \in {a} : ~HasList(q, c)} /\ \A c : HasList(r, c) = HasList(q, c)
  BY <1>1, ReleaseFields
<1>3. p.reserved = {c \in Account : HasList(p, c)} \cup A
  BY DEF Held
<1>4. r.reserved = {c \in Account : HasList(q, c)} \cup A
  BY <1>2, <1>3
<1>5. QED
  BY <1>1, <1>2, <1>4 DEF Held

\* Demoted adds to the queue what it has no nonce of.
LEMMA DemotedFields ==
    ASSUME NEW p \in Pools, NEW T \in SUBSET Tx, \A t \in T : At(p.queue, t) = {}
    PROVE  /\ Demoted(p, T) \in Pools
           /\ Demoted(p, T).pending = p.pending /\ Demoted(p, T).queue = p.queue \cup T
           /\ Demoted(p, T).all = p.all /\ Demoted(p, T).nonces = p.nonces
           /\ Demoted(p, T).reserved = p.reserved
<1>1. Listed(p.queue, T) = p.queue \cup T /\ Replaced(p.queue, T) = {}
  BY NoClash
<1>2. Demoted(p, T) = [p EXCEPT !.queue = p.queue \cup T, !.all = @ \ {}]
  BY <1>1 DEF Demoted
<1>3. QED
  BY <1>2 DEF Pools

(***************************************************************************)
(* Removals.                                                               *)
(***************************************************************************)
\* The smaller of two nonces.
LEMMA MinOfTwo ==
    ASSUME NEW x \in Nat, NEW y \in Nat
    PROVE  Min({x, y}) = IF x <= y THEN x ELSE y
<1>1. Min({x, y}) \in {x, y} /\ \A i \in {x, y} : Min({x, y}) <= i
  BY FirstIndex
<1>2. QED
  BY <1>1

\* A transaction in Of is of the account, and in the list.
LEMMA OfFacts ==
    ASSUME NEW S, NEW a
    PROVE  /\ \A t : t \in Of(S, a) <=> t \in S /\ t.from = a
           /\ \A k : k \in NoncesOf(S, a) <=> \E t \in S : t.from = a /\ t.nonce = k
BY DEF Of, NoncesOf

\* What RemoveFromLists does to a pending transaction.
LEMMA RemovedPending ==
    ASSUME NEW p, NEW gone, Agree(p, gone), NEW t \in gone, t \in p.pending, NEW r, r = RemoveFromLists(p, t)
    PROVE  /\ r \in Pools
           /\ r.pending = {u \in p.pending : u.from = t.from => u.nonce < t.nonce}
           /\ r.queue = p.queue \cup {u \in p.pending : u.from = t.from /\ u.nonce > t.nonce}
           /\ r.all = p.all /\ r.reserved = p.reserved
           /\ r.nonces = [p.nonces EXCEPT ![t.from] = IF @ <= t.nonce THEN @ ELSE t.nonce]
<1>1. PICK L : L = After(p, t)
  OBVIOUS
<1>2. L = {u \in p.pending : u.from = t.from /\ u.nonce > t.nonce}
  BY <1>1 DEF After, Of
<1>3. p \in Pools /\ p.pending \in SUBSET Tx /\ p.nonces \in [Account -> 0..(MaxNonce + 1)] /\ t \in Tx
  BY PoolFields DEF Agree, AccountNonces
<1>4. At(p.pending, t) = {t}
  BY DEF Agree, Distinct, Lists, At
<1>5. \A u \in L : At(p.queue, u) = {}
  BY <1>2 DEF Agree, Distinct, Lists, At
<1>6. t.from \in Account /\ t.nonce \in Nat /\ t.nonce <= MaxNonce /\ MaxNonce \in Nat
  BY <1>3, TxFields, LegacyPoolAssumption
<1>7. PICK k : k = IF p.nonces[t.from] <= t.nonce THEN p.nonces[t.from] ELSE t.nonce
  OBVIOUS
<1>8. k \in 0..(MaxNonce + 1) /\ Min({p.nonces[t.from], t.nonce}) = k
  <2>1. p.nonces[t.from] \in Nat /\ p.nonces[t.from] <= MaxNonce + 1
    BY <1>3, <1>6
  <2>2. QED
    BY <1>6, <1>7, <2>1, MinOfTwo
<1>9. PICK m : m = [p EXCEPT !.pending = @ \ ({t} \cup L), !.nonces[t.from] = k]
  OBVIOUS
<1>10. /\ m \in Pools /\ m.pending = p.pending \ ({t} \cup L) /\ m.queue = p.queue /\ m.all = p.all
       /\ m.reserved = p.reserved /\ m.nonces = [p.nonces EXCEPT ![t.from] = k]
  BY <1>3, <1>6, <1>8, <1>9 DEF Pools
<1>11. r = Demoted(m, L)
  <2>1. [p EXCEPT !.pending = @ \ (At(@, t) \cup After(p, t)),
                  !.nonces[t.from] = Min({@, t.nonce})] = m
    BY <1>1, <1>4, <1>8, <1>9
  <2>2. QED
    BY <1>1, <1>4, <2>1 DEF RemoveFromLists
<1>12. /\ r \in Pools /\ r.pending = m.pending /\ r.queue = m.queue \cup L /\ r.all = m.all
       /\ r.nonces = m.nonces /\ r.reserved = m.reserved
  <2>1. L \in SUBSET Tx /\ \A u \in L : At(m.queue, u) = {}
    BY <1>2, <1>3, <1>5, <1>10
  <2>2. QED
    BY <1>10, <1>11, <2>1, DemotedFields
<1>13. p.pending \ ({t} \cup L) = {u \in p.pending : u.from = t.from => u.nonce < t.nonce}
  <2>1. \A u \in p.pending : u \in Tx /\ (u.from = t.from /\ u.nonce = t.nonce => u = t)
    BY <1>3 DEF Agree, Distinct, Lists
  <2>2. \A u \in p.pending : u.nonce \in Nat
    BY <1>3, TxFields
  <2>3. QED
    BY <1>2, <1>6, <2>1, <2>2
<1>14. QED
  BY <1>2, <1>7, <1>10, <1>12, <1>13

\* What RemoveFromLists does to a transaction that is not pending.
LEMMA RemovedQueued ==
    ASSUME NEW p, NEW gone, Agree(p, gone), NEW t \in gone, t \notin p.pending, NEW r, r = RemoveFromLists(p, t)
    PROVE  /\ r \in Pools
           /\ r.pending = p.pending /\ r.queue = p.queue \ {t} /\ r.all = p.all
           /\ r.reserved = p.reserved /\ r.nonces = p.nonces
<1>1. At(p.pending, t) = {} /\ p.queue \ At(p.queue, t) = p.queue \ {t}
  BY DEF Agree, Distinct, Lists, At
<1>2. r = [p EXCEPT !.queue = p.queue \ {t}]
  BY <1>1 DEF RemoveFromLists
<1>3. QED
  BY <1>2 DEF Agree, Pools

\* Removed from the lists, the transaction is in no list, and all else agrees.
LEMMA ListsRemoved ==
    ASSUME NEW p, NEW gone, Agree(p, gone), NEW t \in gone, NEW r, r = RemoveFromLists(p, t)
    PROVE  /\ Agree(r, gone) /\ t \notin Lists(r) /\ Lists(r) \subseteq Lists(p)
           /\ r.pending \subseteq p.pending /\ r.all = p.all /\ r.reserved = p.reserved
           /\ \A c : c # t.from => HasList(r, c) = HasList(p, c)
           /\ \A c : HasList(r, c) => HasList(p, c)
<1>1. CASE t \in p.pending
  <2>1. /\ r \in Pools
        /\ r.pending = {u \in p.pending : u.from = t.from => u.nonce < t.nonce}
        /\ r.queue = p.queue \cup {u \in p.pending : u.from = t.from /\ u.nonce > t.nonce}
        /\ r.all = p.all /\ r.reserved = p.reserved
        /\ r.nonces = [p.nonces EXCEPT ![t.from] = IF @ <= t.nonce THEN @ ELSE t.nonce]
    BY <1>1, RemovedPending
  <2>2. \A u \in p.pending : u.nonce \in Nat
    BY TxFields, PoolFields DEF Agree
  <2>3. t \notin Lists(r) /\ Lists(r) \subseteq Lists(p) /\ r.pending \subseteq p.pending
        /\ r.pending \cap r.queue = {}
    BY <1>1, <2>1, <2>2 DEF Lists, Agree
  <2>4. r.all = p.all \cap Lists(r)
    <3>1. \A u \in Lists(p) : u \in gone \/ u \in Lists(r)
      <4>1. ASSUME NEW u \in p.pending, u \notin Lists(r) PROVE u = t
        <5>1. u.from = t.from /\ u.nonce = t.nonce
          BY <1>1, <2>1, <2>2, <4>1 DEF Lists
        <5>2. QED
          BY <1>1, <5>1 DEF Agree, Distinct, Lists
      <4>2. QED
        BY <2>1, <4>1 DEF Lists
    <3>2. QED
      BY <2>1, <3>1 DEF Agree
  <2>5. \A c : c # t.from => HasList(r, c) = HasList(p, c)
    BY <2>1 DEF HasList, Of
  <2>6. \A c : HasList(r, c) => HasList(p, c)
    BY <2>1 DEF HasList, Of
  <2>7. Agree(r, gone)
    BY <2>1, <2>3, <2>4, ShrinksAgree DEF Shrinks
  <2>8. QED
    BY <2>1, <2>3, <2>5, <2>6, <2>7
<1>2. CASE t \notin p.pending
  <2>1. /\ r \in Pools
        /\ r.pending = p.pending /\ r.queue = p.queue \ {t} /\ r.all = p.all
        /\ r.reserved = p.reserved
    BY <1>2, RemovedQueued
  <2>2. t \notin Lists(r) /\ Lists(r) \subseteq Lists(p) /\ r.pending \subseteq p.pending
        /\ r.pending \cap r.queue = {}
    BY <1>2, <2>1 DEF Lists, Agree
  <2>3. r.all = p.all \cap Lists(r)
    BY <2>1 DEF Agree, Lists
  <2>4. \A c : c # t.from => HasList(r, c) = HasList(p, c)
    BY <2>1 DEF HasList, Of
  <2>5. \A c : HasList(r, c) => HasList(p, c)
    BY <2>1 DEF HasList, Of
  <2>6. Agree(r, gone)
    BY <2>1, <2>2, <2>3, ShrinksAgree DEF Shrinks
  <2>7. QED
    BY <2>1, <2>2, <2>4, <2>5, <2>6
<1>3. QED
  BY <1>1, <1>2

\* The pending transactions before a removed one stay in turn, and none of those after
\* it is the account's first.
LEMMA RemovedInTurn ==
    ASSUME NEW p, NEW gone, Agree(p, gone), NEW t \in gone, NEW r, r = RemoveFromLists(p, t),
           NEW n \in AccountNonces, Contiguous(p, n)
    PROVE  /\ Contiguous(r, n)
           /\ \A A \in SUBSET Account : NoneFirst(p, n, A) => NoneFirst(r, n, A)
<1>1. t \in Tx /\ t.from \in Account /\ t.nonce \in Nat /\ MaxNonce \in Nat
  BY TxFields, LegacyPoolAssumption DEF Agree
<1>2. \A a \in Account : n[a] \in Nat
  BY <1>1 DEF AccountNonces
<1>3. \A a \in Account : p.nonces[a] \in Nat
  BY <1>1, PoolFields DEF Agree, AccountNonces
<1>4. \A u \in p.pending : u.nonce \in Nat /\ u.from \in Account
  BY TxFields, PoolFields DEF Agree
<1>5. \A a \in Account : n[a] <= p.nonces[a] /\ NoncesOf(p.pending, a) = n[a]..(p.nonces[a] - 1)
  BY DEF Contiguous
<1>6. CASE t \in p.pending
  <2>1. /\ r.pending = {u \in p.pending : u.from = t.from => u.nonce < t.nonce}
        /\ r.queue = p.queue \cup {u \in p.pending : u.from = t.from /\ u.nonce > t.nonce}
        /\ r.nonces = [p.nonces EXCEPT ![t.from] = IF @ <= t.nonce THEN @ ELSE t.nonce]
    BY <1>6, RemovedPending
  <2>2. t.nonce \in n[t.from]..(p.nonces[t.from] - 1)
    BY <1>1, <1>5, <1>6, OfFacts
  <2>3. t.nonce >= n[t.from] /\ ~(p.nonces[t.from] <= t.nonce)
    BY <1>1, <1>2, <1>3, <2>2
  <2>4. r.nonces[t.from] = t.nonce /\ \A a \in Account : a # t.from => r.nonces[a] = p.nonces[a]
    <3>1. p.nonces \in [Account -> 0..(MaxNonce + 1)]
      BY PoolFields DEF Agree, AccountNonces
    <3>2. QED
      BY <1>1, <2>1, <2>3, <3>1
  <2>5. NoncesOf(r.pending, t.from) = n[t.from]..(t.nonce - 1)
    <3>1. \A k : k \in NoncesOf(r.pending, t.from) <=> k \in NoncesOf(p.pending, t.from) /\ k < t.nonce
      BY <2>1, OfFacts
    <3>2. PICK lo, hi, m : lo = n[t.from] /\ hi = p.nonces[t.from] /\ m = t.nonce
      OBVIOUS
    <3>3. lo \in Nat /\ hi \in Nat /\ m \in Nat /\ m < hi
      BY <1>1, <1>2, <1>3, <2>3, <3>2
    <3>4. \A k : k \in lo..(hi - 1) /\ k < m <=> k \in lo..(m - 1)
      BY <3>3
    <3>5. NoncesOf(p.pending, t.from) = lo..(hi - 1)
      BY <1>1, <1>5, <3>2
    <3>6. QED
      BY <3>1, <3>2, <3>4, <3>5
  <2>6. \A a \in Account : a # t.from => NoncesOf(r.pending, a) = NoncesOf(p.pending, a)
    BY <2>1 DEF NoncesOf, Of
  <2>7. Contiguous(r, n)
    BY <1>5, <2>3, <2>4, <2>5, <2>6 DEF Contiguous
  <2>8. ASSUME NEW A \in SUBSET Account, NoneFirst(p, n, A), NEW a \in A, n[a] \in NoncesOf(r.queue, a)
        PROVE  FALSE
    <3>1. PICK u \in r.queue : u.from = a /\ u.nonce = n[a]
      BY <2>8, OfFacts
    <3>2. u \notin p.queue
      BY <2>8, <3>1, OfFacts DEF NoneFirst
    <3>3. a = t.from /\ u.nonce > t.nonce
      BY <2>1, <3>1, <3>2
    <3>4. QED
      BY <1>1, <1>2, <2>3, <3>1, <3>3
  <2>9. QED
    BY <2>7, <2>8 DEF NoneFirst
<1>7. CASE t \notin p.pending
  <2>1. r.pending = p.pending /\ r.queue = p.queue \ {t} /\ r.nonces = p.nonces
    BY <1>7, RemovedQueued
  <2>2. \A A \in SUBSET Account : NoneFirst(p, n, A) => NoneFirst(r, n, A)
    BY <2>1, OfFacts DEF NoneFirst
  <2>3. QED
    BY <2>1, <2>2 DEF Contiguous
<1>8. QED
  BY <1>6, <1>7

\* Taken from the lookup only, the transaction counts as gone.
LEMMA LookupRemoved ==
    ASSUME NEW p, NEW gone, Agree(p, gone), NEW t \in p.all, NEW q, q = RemoveFromLookup(p, t)
    PROVE  /\ Agree(q, gone \cup {t})
           /\ q.pending = p.pending /\ q.queue = p.queue /\ q.nonces = p.nonces
           /\ q.reserved = p.reserved /\ q.all = p.all \ {t}
<1>1. /\ q \in Pools /\ q.pending = p.pending /\ q.queue = p.queue /\ q.nonces = p.nonces
      /\ q.reserved = p.reserved /\ q.all = p.all \ {t}
  BY DEF RemoveFromLookup, Agree, Pools
<1>2. t \in Lists(p) /\ t \in Tx
  BY DEF Agree, Pools
<1>3. Lists(q) = Lists(p) /\ Lists(q) \cup (gone \cup {t}) = Lists(p) \cup gone
  BY <1>1, <1>2 DEF Lists
<1>4. q.all = Lists(q) \ (gone \cup {t})
  BY <1>1, <1>3 DEF Agree
<1>5. QED
  BY <1>1, <1>2, <1>3, <1>4 DEF Agree

\* What is gone and in no list may be forgotten.
LEMMA Forgotten ==
    ASSUME NEW p, NEW gone, NEW t, Agree(p, gone \cup {t}), t \notin Lists(p)
    PROVE  Agree(p, gone)
<1>1. Distinct(Lists(p) \cup gone)
  BY DEF Agree, Distinct
<1>2. p.all = Lists(p) \ gone
  BY DEF Agree
<1>3. gone \subseteq Tx
  BY DEF Agree
<1>4. QED
  BY <1>1, <1>2, <1>3 DEF Agree

\* The pool after a transaction of the lookup is taken from it and from the lists.
LEMMA TxRemoved ==
    ASSUME NEW p, NEW gone, Agree(p, gone), NEW t \in p.all,
           NEW r, r = RemoveFromLists(RemoveFromLookup(p, t), t)
    PROVE  /\ Agree(r, gone) /\ Lists(r) \subseteq Lists(p)
           /\ r.pending \subseteq p.pending /\ r.all = p.all \ {t} /\ r.reserved = p.reserved
           /\ \A c : c # t.from => HasList(r, c) = HasList(p, c)
           /\ \A c : HasList(r, c) => HasList(p, c)
           /\ \A n \in AccountNonces : Contiguous(p, n) =>
                 /\ Contiguous(r, n)
                 /\ \A A \in SUBSET Account : NoneFirst(p, n, A) => NoneFirst(r, n, A)
           /\ t \notin p.pending => r.pending = p.pending /\ r.queue \subseteq p.queue /\ r.nonces = p.nonces
<1>1. PICK q, G : q = RemoveFromLookup(p, t) /\ G = gone \cup {t}
  OBVIOUS
<1>2. /\ Agree(q, G) /\ t \in G /\ q.pending = p.pending /\ q.queue = p.queue /\ q.nonces = p.nonces
      /\ q.reserved = p.reserved /\ q.all = p.all \ {t}
  BY <1>1, LookupRemoved
<1>3. r = RemoveFromLists(q, t)
  BY <1>1
<1>4. /\ Agree(r, G) /\ t \notin Lists(r) /\ Lists(r) \subseteq Lists(q)
      /\ r.pending \subseteq q.pending /\ r.all = q.all /\ r.reserved = q.reserved
      /\ \A c : c # t.from => HasList(r, c) = HasList(q, c)
      /\ \A c : HasList(r, c) => HasList(q, c)
  <2> HIDE <1>1
  <2>1. QED
    BY <1>2, <1>3, ListsRemoved
<1>5. Agree(r, gone)
  BY <1>1, <1>4, Forgotten
<1>6. Lists(q) = Lists(p) /\ \A c : HasList(q, c) = HasList(p, c)
  BY <1>2 DEF Lists, HasList
<1>7. ASSUME NEW n \in AccountNonces, Contiguous(p, n)
      PROVE  /\ Contiguous(r, n)
             /\ \A A \in SUBSET Account : NoneFirst(p, n, A) => NoneFirst(r, n, A)
  <2>1. Contiguous(q, n) /\ \A A \in SUBSET Account : NoneFirst(p, n, A) => NoneFirst(q, n, A)
    BY <1>2, <1>7 DEF Contiguous, NoneFirst
  <2>2. /\ Contiguous(r, n)
        /\ \A A \in SUBSET Account : NoneFirst(q, n, A) => NoneFirst(r, n, A)
    BY <1>2, <1>3, <2>1, RemovedInTurn
  <2>3. QED
    BY <2>1, <2>2
<1>8. ASSUME t \notin p.pending
      PROVE  r.pending = p.pending /\ r.queue \subseteq p.queue /\ r.nonces = p.nonces
  <2>1. /\ r \in Pools /\ r.pending = q.pending /\ r.queue = q.queue \ {t} /\ r.all = q.all
        /\ r.reserved = q.reserved /\ r.nonces = q.nonces
    BY <1>2, <1>3, <1>8, RemovedQueued
  <2>2. QED
    BY <1>2, <2>1
<1>9. QED
  BY <1>2, <1>4, <1>5, <1>6, <1>7, <1>8

\* What RemoveTx does to the pool when it releases the sender.
RemovesOne(p, r, t, gone) ==
    /\ Agree(r, gone) /\ Lists(r) \subseteq Lists(p)
    /\ r.pending \subseteq p.pending /\ r.all = p.all \ {t}
    /\ \A A \in SUBSET Account : Held(p, A) /\ t.from \notin A => Held(r, A)
    /\ \A n \in AccountNonces : Contiguous(p, n) =>
          /\ Contiguous(r, n)
          /\ \A A \in SUBSET Account : NoneFirst(p, n, A) => NoneFirst(r, n, A)
    /\ t \notin p.pending => r.pending = p.pending /\ r.queue \subseteq p.queue /\ r.nonces = p.nonces

\* RemoveTx of a transaction that the lookup knows, with its sender released.
LEMMA RemoveTxReleases ==
    ASSUME NEW p, NEW gone, Agree(p, gone), NEW t \in p.all
    PROVE  RemovesOne(p, RemoveTx(p, t, TRUE), t, gone)
<1> DEFINE r == RemoveTx(p, t, TRUE)
<1>1. PICK q : q = RemoveFromLists(RemoveFromLookup(p, t), t)
  OBVIOUS
<1>2. r = Release(q, {t.from})
  BY <1>1 DEF RemoveTx
<1> HIDE DEF r
<1>3. /\ Agree(q, gone) /\ Lists(q) \subseteq Lists(p)
      /\ q.pending \subseteq p.pending /\ q.all = p.all \ {t} /\ q.reserved = p.reserved
      /\ \A c : c # t.from => HasList(q, c) = HasList(p, c)
      /\ \A c : HasList(q, c) => HasList(p, c)
      /\ \A n \in AccountNonces : Contiguous(p, n) =>
            /\ Contiguous(q, n)
            /\ \A A \in SUBSET Account : NoneFirst(p, n, A) => NoneFirst(q, n, A)
      /\ t \notin p.pending => q.pending = p.pending /\ q.queue \subseteq p.queue /\ q.nonces = p.nonces
  BY <1>1, TxRemoved
<1>4. q \in Pools /\ p \in Pools /\ t.from \in Account
  BY <1>3, PoolFields, TxFields DEF Agree
<1>5. /\ r \in Pools /\ r.pending = q.pending /\ r.queue = q.queue /\ r.all = q.all /\ r.nonces = q.nonces
  <2>1. SameLists(q, Release(q, {t.from}))
    BY <1>4, ReleaseKeeps
  <2>2. SameLists(q, r)
    BY <1>2, <2>1
  <2>3. QED
    BY <2>2 DEF SameLists
<1>6. Lists(r) = Lists(q) /\ Agree(r, gone)
  BY <1>3, <1>5 DEF Agree, Lists
<1>7. \A A \in SUBSET Account : Held(p, A) /\ t.from \notin A => Held(r, A)
  <2> SUFFICES ASSUME NEW A \in SUBSET Account, Held(p, A), t.from \notin A PROVE Held(r, A)
    OBVIOUS
  <2>1. Held(Release(q, {t.from}), A)
    BY <1>3, <1>4, HeldReleased
  <2>2. QED
    BY <1>2, <2>1
<1>8. ASSUME NEW n \in AccountNonces, Contiguous(p, n)
      PROVE  /\ Contiguous(r, n)
             /\ \A A \in SUBSET Account : NoneFirst(p, n, A) => NoneFirst(r, n, A)
  <2>1. /\ Contiguous(q, n)
        /\ \A A \in SUBSET Account : NoneFirst(p, n, A) => NoneFirst(q, n, A)
    BY <1>3, <1>8
  <2>2. QED
    BY <1>5, <2>1 DEF Contiguous, NoneFirst
<1>9. RemovesOne(p, r, t, gone)
  BY <1>3, <1>5, <1>6, <1>7, <1>8 DEF RemovesOne
<1>10. QED
  BY <1>9 DEF r

\* What removing queued transactions does.
Trims(p, q, gone) ==
    /\ Agree(q, gone) /\ Held(q, {})
    /\ q.pending = p.pending /\ q.nonces = p.nonces
    /\ q.queue \subseteq p.queue /\ q.all \subseteq p.all

\* One of them is removed.
LEMMA QueuedRemoved ==
    ASSUME NEW p, NEW gone, Agree(p, gone), NEW q, Trims(p, q, gone), NEW t \in p.queue
    PROVE  Trims(p, RemoveTx(q, t, TRUE), gone)
<1>1. CASE t \notin q.all
  <2>1. RemoveTx(q, t, TRUE) = q
    BY <1>1 DEF RemoveTx
  <2>2. QED
    BY <2>1
<1>2. CASE t \in q.all
  <2>1. PICK r : r = RemoveTx(q, t, TRUE)
    OBVIOUS
  <2>2. Agree(q, gone) /\ Held(q, {}) /\ t \notin q.pending
    BY DEF Trims, Agree
  <2>3. RemovesOne(q, r, t, gone)
    BY <1>2, <2>1, <2>2, RemoveTxReleases
  <2>4. Held(r, {})
    BY <2>2, <2>3 DEF RemovesOne
  <2>5. Trims(p, r, gone)
    BY <2>2, <2>3, <2>4 DEF Trims, RemovesOne
  <2>6. QED
    BY <2>1, <2>5
<1>3. QED
  BY <1>1, <1>2

\* What every removal keeps, all of them keep.
LEMMA RemoveFold ==
    ASSUME NEW p, NEW T, IsFiniteSet(T), NEW G \in SUBSET Pools, p \in G,
           \A t \in T : \A q \in G : RemoveTx(q, t, TRUE) \in G
    PROVE  RemoveTxs(p, T) \in G
<1> DEFINE Iter(it) == it = [x \in SUBSET T |->
                                IF x = {} THEN p
                                ELSE RemoveTx(it[x \ {CHOOSE y \in x : TRUE}], CHOOSE y \in x : TRUE, TRUE)]
           iter == CHOOSE it : Iter(it)
           pick == [x \in SUBSET T |-> CHOOSE y \in x : TRUE]
           F == [z \in T \X Pools |-> RemoveTx(z[2], z[1], TRUE)]
           good == (SUBSET T) \X G
<1>2. \A x \in SUBSET T : x # {} => pick[x] \in x /\ pick[x] = CHOOSE y \in x : TRUE
  OBVIOUS
<1>3. RemoveTxs(p, T) = iter[T]
  BY DEF RemoveTxs, FoldSet, MapThenFoldSet
<1>4. ASSUME NEW t \in T, NEW q \in G
      PROVE  RemoveTx(q, t, TRUE) \in G /\ F[<<t, q>>] = RemoveTx(q, t, TRUE)
  OBVIOUS
<1>5. <<{}, p>> \in good
  OBVIOUS
<1>6. ASSUME NEW s \in SUBSET T, NEW t \in T \ s, NEW v, <<s, v>> \in good
      PROVE  <<s \cup {t}, F[<<t, v>>]>> \in good
  <2>1. v \in G
    BY <1>6
  <2>2. F[<<t, v>>] \in G
    BY <1>4, <2>1
  <2> HIDE DEF F
  <2>3. QED
    BY <2>2
<1>7. \A s, v : <<s, v>> \in good => v \in G
  OBVIOUS
<1> HIDE DEF F, good, pick
<1>8. PICK it : IsFold(T, F, pick, p, it) /\ \A s \in SUBSET T : <<s, it[s]>> \in good
  <2>1. Tracks(T, F, pick, p, good)
    BY <1>2, <1>5, <1>6 DEF Tracks
  <2> HIDE DEF Iter, iter
  <2>2. QED
    BY <2>1, FoldTracks
<1>9. \A s \in SUBSET T : it[s] \in G
  BY <1>7, <1>8
<1>10. \A x \in SUBSET T : it[x] = IF x = {} THEN p ELSE F[<<pick[x], it[x \ {pick[x]}]>>]
  BY <1>8 DEF IsFold
<1>11. \A x \in SUBSET T : x # {} => it[x] = RemoveTx(it[x \ {pick[x]}], pick[x], TRUE)
  <2> SUFFICES ASSUME NEW x \in SUBSET T, x # {} PROVE it[x] = RemoveTx(it[x \ {pick[x]}], pick[x], TRUE)
    OBVIOUS
  <2>1. PICK t, q : t = pick[x] /\ q = it[x \ {t}]
    OBVIOUS
  <2>2. t \in T /\ q \in G
    BY <1>2, <1>9, <2>1
  <2>3. QED
    BY <1>4, <1>10, <2>1, <2>2
<1>12. Iter(it)
  <2>1. it = [x \in SUBSET T |-> it[x]]
    BY <1>8 DEF IsFold
  <2>2. \A x \in SUBSET T : it[x] = IF x = {} THEN p
                                    ELSE RemoveTx(it[x \ {CHOOSE y \in x : TRUE}], CHOOSE y \in x : TRUE, TRUE)
    BY <1>2, <1>10, <1>11
  <2>3. QED
    BY <2>1, <2>2
<1>13. Iter(iter)
  <2> HIDE DEF Iter
  <2>1. QED
    BY <1>12
<1> HIDE DEF iter
<1>14. \A x \in SUBSET T : iter[x] = IF x = {} THEN p ELSE RemoveTx(iter[x \ {pick[x]}], pick[x], TRUE)
  BY <1>2, <1>13
<1>15. SameSteps(T, pick, iter, it)
  <2> HIDE DEF Iter
  <2>1. iter[{}] = it[{}]
    BY <1>10, <1>14
  <2>2. ASSUME NEW x \in SUBSET T, x # {}, iter[x \ {pick[x]}] = it[x \ {pick[x]}] PROVE iter[x] = it[x]
    BY <1>11, <1>14, <2>2
  <2>3. QED
    BY <1>2, <2>1, <2>2 DEF SameSteps
<1>16. iter[T] = it[T]
  <2> HIDE DEF Iter
  <2>1. QED
    BY <1>15, FoldIs
<1>17. QED
  BY <1>3, <1>9, <1>16

\* All of them are removed.
LEMMA QueueTrimmed ==
    ASSUME NEW p, NEW gone, Agree(p, gone), Held(p, {}), NEW T \in SUBSET p.queue
    PROVE  Trims(p, RemoveTxs(p, T), gone)
<1>1. PICK G : G = {q \in Pools : Trims(p, q, gone)}
  OBVIOUS
<1>2. IsFiniteSet(T)
  BY FS_Subset DEF Agree
<1>3. p \in G
  BY <1>1 DEF Trims, Agree
<1>4. ASSUME NEW t \in T, NEW q \in G PROVE RemoveTx(q, t, TRUE) \in G
  <2>1. Trims(p, q, gone)
    BY <1>1
  <2>2. Trims(p, RemoveTx(q, t, TRUE), gone)
    BY <2>1, QueuedRemoved
  <2>3. RemoveTx(q, t, TRUE) \in Pools
    BY <2>2 DEF Trims, Agree
  <2>4. QED
    BY <1>1, <2>2, <2>3
<1>5. RemoveTxs(p, T) \in G
  BY <1>1, <1>2, <1>3, <1>4, RemoveFold
<1>6. QED
  BY <1>1, <1>5

(***************************************************************************)
(* truncateQueue.                                                          *)
(***************************************************************************)
\* One round: the account loses its last transactions.
CutQueue(acc, a) ==
    LET mine == Of(acc.pool.queue, a)
        n == Min({Cardinality(mine), acc.drop})
    IN  [pool |-> RemoveTxs(acc.pool, Beyond(mine, Cardinality(mine) - n)),
         drop |-> acc.drop - n]

Accs == [pool : Pools, drop : Nat]

\* What is kept when transactions are removed from the queue.
TrimsInto(G) ==
    \A q \in G : IsFiniteSet(q.queue) /\ \A T \in SUBSET q.queue : RemoveTxs(q, T) \in G

\* A round keeps it.
LEMMA CutTrims ==
    ASSUME NEW G \in SUBSET Pools, TrimsInto(G), NEW acc \in Accs, acc.pool \in G, NEW a
    PROVE  CutQueue(acc, a) \in Accs /\ CutQueue(acc, a).pool \in G
<1>1. PICK q, d, mine, k, T : q = acc.pool /\ d = acc.drop /\ mine = Of(q.queue, a)
                              /\ k = Min({Cardinality(mine), d}) /\ T = Beyond(mine, Cardinality(mine) - k)
  OBVIOUS
<1>2. CutQueue(acc, a) = [pool |-> RemoveTxs(q, T), drop |-> d - k]
  BY <1>1 DEF CutQueue
<1>3. IsFiniteSet(q.queue) /\ d \in Nat
  BY <1>1 DEF TrimsInto, Accs
<1>4. mine \in SUBSET q.queue /\ T \in SUBSET q.queue
  BY <1>1 DEF Of, Beyond
<1>5. Cardinality(mine) \in Nat
  BY <1>3, <1>4, FS_Subset, FS_CardinalityType
<1>6. k \in Nat /\ k <= d
  BY <1>1, <1>3, <1>5, MinOfTwo
<1>7. RemoveTxs(q, T) \in G
  BY <1>1, <1>4 DEF TrimsInto
<1>8. RemoveTxs(q, T) \in Pools /\ d - k \in Nat
  BY <1>3, <1>6, <1>7
<1>9. QED
  BY <1>2, <1>7, <1>8 DEF Accs

\* What every trimming keeps, truncateQueue keeps, whatever the order of the accounts.
LEMMA QueueFold ==
    ASSUME NEW p, NEW G \in SUBSET Pools, p \in G, TrimsInto(G), NEW order \in SetToSeqs(Account)
    PROVE  TruncateQueue(p, order) \in G
<1> DEFINE excess == Cardinality(p.queue) - GlobalQueue
           base == [pool |-> p, drop |-> excess]
           Iter(it) == it = [x \in SUBSET (DOMAIN order) |->
                                IF x = {} THEN base ELSE CutQueue(it[x \ {Max(x)}], order[Max(x)])]
           iter == CHOOSE it : Iter(it)
           S == DOMAIN order
           pick == [x \in SUBSET S |-> Max(x)]
           F == [z \in S \X Accs |-> CutQueue(z[2], order[z[1]])]
           good == {z \in (SUBSET S) \X Accs : z[2].pool \in G}
<1>1. p \in Pools /\ IsFiniteSet(p.queue)
  BY DEF TrimsInto
<1>2. CASE excess <= 0
  <2>1. TruncateQueue(p, order) = p
    BY <1>2 DEF TruncateQueue, FoldLeft, MapThenFoldSet
  <2>2. QED
    BY <1>1, <2>1
<1>3. CASE ~(excess <= 0)
  <2>1. Cardinality(Account) \in Nat /\ S = 1..Cardinality(Account) /\ IsFiniteSet(S)
    BY LegacyPoolAssumption, FS_CardinalityType, FS_Interval DEF SetToSeqs
  <2>2. \A x \in SUBSET S : x # {} => pick[x] \in x /\ pick[x] = Max(x)
    BY <2>1, LastIndex
  <2>3. excess \in Nat
    <3>1. Cardinality(p.queue) \in Nat /\ GlobalQueue \in Nat
      BY <1>1, LegacyPoolAssumption, FS_CardinalityType
    <3>2. QED
      BY <1>3, <3>1
  <2>4. TruncateQueue(p, order) = iter[S].pool
    BY <1>3 DEF TruncateQueue, CutQueue, FoldLeft, MapThenFoldSet
  <2>5. base \in Accs /\ base.pool = p
    BY <1>1, <2>3 DEF Accs
  <2> HIDE DEF excess, base
  <2>6. ASSUME NEW i \in S, NEW v \in Accs, v.pool \in G
        PROVE  /\ CutQueue(v, order[i]).pool \in G /\ CutQueue(v, order[i]) \in Accs
               /\ F[<<i, v>>] = CutQueue(v, order[i])
    <3>1. CutQueue(v, order[i]).pool \in G /\ CutQueue(v, order[i]) \in Accs
      BY <2>6, CutTrims
    <3>2. QED
      BY <3>1
  <2>7. <<{}, base>> \in good
    BY <1>1, <2>5
  <2>8. ASSUME NEW s \in SUBSET S, NEW i \in S \ s, NEW v, <<s, v>> \in good
        PROVE  <<s \cup {i}, F[<<i, v>>]>> \in good
    <3>1. v \in Accs /\ v.pool \in G
      BY <2>8
    <3>2. F[<<i, v>>].pool \in G /\ F[<<i, v>>] \in Accs
      BY <2>6, <3>1
    <3> HIDE DEF F
    <3>3. QED
      BY <3>2
  <2>9. \A s, v : <<s, v>> \in good => v \in Accs /\ v.pool \in G
    OBVIOUS
  <2> HIDE DEF F, good, pick
  <2>10. PICK it : IsFold(S, F, pick, base, it) /\ \A s \in SUBSET S : <<s, it[s]>> \in good
    <3>1. Tracks(S, F, pick, base, good)
      BY <2>2, <2>7, <2>8 DEF Tracks
    <3>2. IsFiniteSet(S)
      BY <2>1
    <3> HIDE DEF Iter, iter, S
    <3>3. QED
      BY <3>1, <3>2, FoldTracks
  <2>11. \A s \in SUBSET S : it[s] \in Accs /\ it[s].pool \in G
    BY <2>9, <2>10
  <2>12. \A x \in SUBSET S : it[x] = IF x = {} THEN base ELSE F[<<pick[x], it[x \ {pick[x]}]>>]
    BY <2>10 DEF IsFold
  <2>13. \A x \in SUBSET S : x # {} => it[x] = CutQueue(it[x \ {pick[x]}], order[pick[x]])
    <3> SUFFICES ASSUME NEW x \in SUBSET S, x # {} PROVE it[x] = CutQueue(it[x \ {pick[x]}], order[pick[x]])
      OBVIOUS
    <3>1. PICK i, v : i = pick[x] /\ v = it[x \ {i}]
      OBVIOUS
    <3>2. i \in S /\ v \in Accs /\ v.pool \in G
      BY <2>2, <2>11, <3>1
    <3>3. QED
      BY <2>6, <2>12, <3>1, <3>2
  <2>14. Iter(it)
    <3>1. it = [x \in SUBSET S |-> it[x]]
      BY <2>10 DEF IsFold
    <3>2. \A x \in SUBSET S : it[x] = IF x = {} THEN base ELSE CutQueue(it[x \ {Max(x)}], order[Max(x)])
      BY <2>2, <2>12, <2>13
    <3>3. QED
      BY <3>1, <3>2
  <2>15. Iter(iter)
    <3> HIDE DEF Iter
    <3>1. QED
      BY <2>14
  <2> HIDE DEF iter
  <2>16. \A x \in SUBSET S : iter[x] = IF x = {} THEN base ELSE CutQueue(iter[x \ {pick[x]}], order[pick[x]])
    BY <2>2, <2>15
  <2>17. SameSteps(S, pick, iter, it)
    <3> HIDE DEF Iter, S
    <3>1. iter[{}] = it[{}]
      BY <2>12, <2>16
    <3>2. ASSUME NEW x \in SUBSET S, x # {}, iter[x \ {pick[x]}] = it[x \ {pick[x]}] PROVE iter[x] = it[x]
      BY <2>13, <2>16, <3>2
    <3>3. QED
      BY <2>2, <3>1, <3>2 DEF SameSteps
  <2>18. iter[S] = it[S]
    <3> HIDE DEF Iter, S
    <3>1. QED
      BY <2>1, <2>17, FoldIs
  <2>19. QED
    <3> HIDE DEF S
    <3>1. S \in SUBSET S
      OBVIOUS
    <3>2. QED
      BY <2>4, <2>11, <2>18, <3>1
<1>4. QED
  BY <1>2, <1>3

\* truncateQueue trims the queue.
LEMMA QueueTruncated ==
    ASSUME NEW p, NEW gone, Agree(p, gone), Held(p, {}), NEW order \in SetToSeqs(Account)
    PROVE  Trims(p, TruncateQueue(p, order), gone)
<1>1. PICK G : G = {q \in Pools : Trims(p, q, gone)}
  OBVIOUS
<1>2. p \in G
  BY <1>1 DEF Trims, Agree
<1>3. ASSUME NEW q \in G, NEW T \in SUBSET q.queue
      PROVE  IsFiniteSet(q.queue) /\ RemoveTxs(q, T) \in G
  <2>1. Trims(p, q, gone) /\ Agree(q, gone) /\ Held(q, {}) /\ IsFiniteSet(q.queue)
    BY <1>1 DEF Trims, Agree
  <2>2. Trims(q, RemoveTxs(q, T), gone)
    BY <2>1, QueueTrimmed
  <2>3. Trims(p, RemoveTxs(q, T), gone)
    BY <2>1, <2>2 DEF Trims
  <2>4. RemoveTxs(q, T) \in Pools
    BY <2>3 DEF Trims, Agree
  <2>5. QED
    BY <1>1, <2>1, <2>3, <2>4
<1>4. TrimsInto(G)
  BY <1>3 DEF TrimsInto
<1>5. TruncateQueue(p, order) \in G
  BY <1>1, <1>2, <1>4, QueueFold
<1>6. QED
  BY <1>1, <1>5

(***************************************************************************)
(* promoteExecutables.                                                     *)
(***************************************************************************)
\* The highest of some nonces.
LEMMA LastNonce ==
    ASSUME NEW n \in Nat, NEW s \in SUBSET (0..n), s # {}
    PROVE  Max(s) \in s /\ \A i \in s : i <= Max(s)
<1>1. PICK below : below = {n - i : i \in s}
  OBVIOUS
<1>2. below \in SUBSET Nat /\ below # {}
  <2>1. \A i \in s : i \in 0..n
    OBVIOUS
  <2>2. \A i \in s : n - i \in Nat
    BY <2>1
  <2>3. QED
    BY <1>1, <2>2
<1>3. PICK k \in below : \A j \in below : k <= j
  BY <1>2, LeastNumber
<1>4. PICK m \in s : k = n - m
  BY <1>1
<1>5. \A i \in s : i \in 0..n
  OBVIOUS
<1>6. ASSUME NEW i \in s PROVE m >= i
  <2>1. n - m <= n - i
    BY <1>1, <1>3, <1>4
  <2>2. i \in Int /\ m \in Int
    BY <1>5
  <2>3. QED
    BY <2>1, <2>2
<1>7. \E x \in s : \A y \in s : x >= y
  BY <1>6
<1>8. Max(s) \in s /\ \A y \in s : Max(s) >= y
  BY <1>7 DEF Max
<1>9. QED
  BY <1>5, <1>8

\* Ready takes a run of transactions without a gap, and the first if there is one.
LEMMA ReadyFacts ==
    ASSUME NEW S \in SUBSET Tx, NEW k \in Nat, \A t \in S : t.nonce >= k
    PROVE  /\ Ready(S, k) \subseteq S
           /\ \A t \in Ready(S, k) : \A i \in k..t.nonce : \E u \in Ready(S, k) : u.nonce = i
           /\ \A t \in S : t.nonce = k => t \in Ready(S, k)
<1>1. PICK N, first : N = {t.nonce : t \in S} /\ first = Min(N)
  OBVIOUS
<1>2. \A t \in S : t.nonce \in Nat
  BY TxFields
<1>3. CASE S = {}
  <2>1. Ready(S, k) = {}
    BY <1>3 DEF Ready
  <2>2. QED
    BY <1>3, <2>1
<1>4. CASE S # {}
  <2>1. N \in SUBSET Nat /\ N # {}
    BY <1>1, <1>2, <1>4
  <2>2. first \in N /\ \A i \in N : first <= i
    BY <1>1, <2>1, FirstIndex
  <2>3. first \in Nat /\ first >= k
    BY <1>1, <2>1, <2>2
  <2>4. CASE first > k
    <3>1. Ready(S, k) = {}
      BY <1>1, <2>4 DEF Ready
    <3>2. \A t \in S : t.nonce # k
      BY <1>1, <1>2, <2>2, <2>3, <2>4
    <3>3. QED
      BY <3>1, <3>2
  <2>5. CASE ~(first > k)
    <3>1. first = k
      BY <2>3, <2>5
    <3>2. Ready(S, k) = {t \in S : first..t.nonce \subseteq N}
      BY <1>1, <1>4, <2>5 DEF Ready
    <3>3. PICK R : R = {t \in S : k..t.nonce \subseteq N}
      OBVIOUS
    <3>4. Ready(S, k) = R
      BY <3>1, <3>2, <3>3
    <3>5. ASSUME NEW t \in R, NEW i \in k..t.nonce PROVE \E u \in R : u.nonce = i
      <4>1. PICK u \in S : u.nonce = i
        BY <1>1, <3>3, <3>5
      <4>2. k..u.nonce \subseteq k..t.nonce
        BY <1>2, <3>3, <3>5, <4>1
      <4>3. u \in R
        BY <3>3, <3>5, <4>2
      <4>4. QED
        BY <4>1, <4>3
    <3>6. \A t \in S : t.nonce = k => t \in R
      <4> SUFFICES ASSUME NEW t \in S, t.nonce = k PROVE k..t.nonce \subseteq N
        BY <3>3
      <4>1. k..t.nonce = {k} /\ k \in N
        BY <1>1
      <4>2. QED
        BY <4>1
    <3>7. QED
      BY <3>3, <3>4, <3>5, <3>6
  <2>6. QED
    BY <2>4, <2>5
<1>5. QED
  BY <1>3, <1>4

\* The account's transactions that stay of use, and those of them that are promoted.
Kept(p, a, n, b) == {t \in Of(p.queue, a) : t.nonce >= n[a] /\ t.price <= b[a]}

Promotable(p, a, n, b) == Ready(Kept(p, a, n, b), p.nonces[a])

NonceAfter(R, k) == IF R = {} THEN k ELSE Max({t.nonce : t \in R}) + 1

\* What promoting one account does.
PromotesOne(p, r, a, n, b, gone) ==
    /\ Agree(r, gone)
    /\ Held(p, {}) => Held(r, {})
    /\ r.pending = p.pending \cup Promotable(p, a, n, b)
    /\ r.queue \subseteq p.queue /\ r.all \subseteq p.all
    /\ \A t \in r.queue : t.from = a => t \in Kept(p, a, n, b) \ Promotable(p, a, n, b)
    /\ r.nonces = [p.nonces EXCEPT ![a] = NonceAfter(Promotable(p, a, n, b), @)]

\* What is promoted was in the queue.
LEMMA PromotableQueued ==
    ASSUME NEW p \in Pools, NEW a, NEW n, NEW b
    PROVE  /\ Kept(p, a, n, b) \subseteq Of(p.queue, a)
           /\ Promotable(p, a, n, b) \subseteq Kept(p, a, n, b)
           /\ Of(p.queue, a) \subseteq p.queue
<1>1. \A S, k : Ready(S, k) \subseteq S
  BY DEF Ready
<1>2. QED
  BY <1>1 DEF Promotable, Kept, Of

\* The virtual nonce after a promotion.
LEMMA NonceAfterType ==
    ASSUME NEW R \in SUBSET Tx, NEW k \in 0..(MaxNonce + 1)
    PROVE  /\ NonceAfter(R, k) \in 0..(MaxNonce + 1)
           /\ R # {} => \E u \in R : NonceAfter(R, k) = u.nonce + 1 /\ \A t \in R : t.nonce <= u.nonce
<1>1. CASE R = {}
  BY <1>1 DEF NonceAfter
<1>2. CASE R # {}
  <2>1. PICK N : N = {t.nonce : t \in R}
    OBVIOUS
  <2>2. MaxNonce \in Nat /\ N \in SUBSET (0..MaxNonce) /\ N # {}
    BY <1>2, <2>1, LegacyPoolAssumption DEF Tx, Nonce
  <2>3. Max(N) \in N /\ \A i \in N : i <= Max(N)
    BY <2>2, LastNonce
  <2>4. NonceAfter(R, k) = Max(N) + 1
    BY <1>2, <2>1 DEF NonceAfter
  <2>5. PICK u \in R : Max(N) = u.nonce
    BY <2>1, <2>3
  <2>6. \A t \in R : t.nonce <= u.nonce
    BY <2>1, <2>3, <2>5
  <2>7. Max(N) \in 0..MaxNonce
    BY <2>2, <2>3
  <2>8. QED
    BY <2>2, <2>4, <2>5, <2>6, <2>7
<1>3. QED
  BY <1>1, <1>2

\* promoteExecutables for one account.
LEMMA PromoteFacts ==
    ASSUME NEW p, NEW gone, Agree(p, gone), NEW a \in Account, NEW n, NEW b
    PROVE  PromotesOne(p, PromoteAccount(p, a, n, b), a, n, b, gone)
<1> DEFINE r == PromoteAccount(p, a, n, b)
           mine == Of(p.queue, a)
           K == Kept(p, a, n, b)
           R == Promotable(p, a, n, b)
           C == Beyond(K \ R, AccountQueue)
           D == (mine \ K) \cup C
<1>1. /\ p \in Pools /\ p.queue \in SUBSET Tx /\ p.pending \in SUBSET Tx
      /\ p.nonces \in [Account -> 0..(MaxNonce + 1)]
  BY PoolFields DEF Agree, AccountNonces
<1>2. K \subseteq mine /\ R \subseteq K /\ mine \subseteq p.queue /\ \A t \in mine : t.from = a
  BY <1>1, PromotableQueued DEF Of
<1>3. C \subseteq K \ R
  BY DEF Beyond
<1>4. CASE mine = {}
  <2>1. r = p /\ R = {}
    BY <1>2, <1>4 DEF PromoteAccount
  <2>2. p.nonces = [p.nonces EXCEPT ![a] = NonceAfter(R, @)]
    BY <1>1, <2>1 DEF NonceAfter
  <2>3. \A t \in p.queue : t.from # a
    BY <1>4 DEF Of
  <2> HIDE DEF r, R
  <2>4. PromotesOne(p, r, a, n, b, gone)
    BY <2>1, <2>2, <2>3 DEF PromotesOne, R
  <2>5. QED
    BY <2>4 DEF r
<1>5. CASE mine # {}
  <2>1. Inserted(p.pending, R) = R /\ Replaced(p.pending, R) = {} /\ Listed(p.pending, R) = p.pending \cup R
    <3>1. \A t \in R : At(p.pending, t) = {}
      BY <1>2 DEF Agree, Distinct, Lists, At
    <3> HIDE DEF R
    <3>2. QED
      BY <3>1, NoClash
  <2>2. PICK k : k = NonceAfter(R, p.nonces[a])
    OBVIOUS
  <2>3. k \in 0..(MaxNonce + 1)
    <3>1. R \in SUBSET Tx /\ p.nonces[a] \in 0..(MaxNonce + 1)
      BY <1>1, <1>2
    <3>2. QED
      BY <2>2, <3>1, NonceAfterType
  <2>4. PICK m : m = [p EXCEPT !.pending = p.pending \cup R, !.queue = p.queue \ (D \cup R),
                               !.all = p.all \ D, !.nonces[a] = k]
    OBVIOUS
  <2>5. r = Release(m, {a})
    <3>1. R = Ready(K, p.nonces[a])
      BY DEF Promotable
    <3>2. D \cup (R \ R) \cup {} = D
      OBVIOUS
    <3>3. r = Release([p EXCEPT
                !.pending = Listed(@, R),
                !.queue = @ \ (((mine \ K) \cup C \cup (R \ Inserted(p.pending, R)) \cup Replaced(p.pending, R)) \cup R),
                !.all = @ \ ((mine \ K) \cup C \cup (R \ Inserted(p.pending, R)) \cup Replaced(p.pending, R)),
                !.nonces[a] = IF Inserted(p.pending, R) = {} THEN @
                              ELSE Max({t.nonce : t \in Inserted(p.pending, R)}) + 1], {a})
      BY <1>5, <3>1 DEF PromoteAccount, Kept
    <3>4. (mine \ K) \cup C \cup (R \ Inserted(p.pending, R)) \cup Replaced(p.pending, R) = D
      BY <2>1
    <3>5. (IF Inserted(p.pending, R) = {} THEN p.nonces[a] ELSE Max({t.nonce : t \in Inserted(p.pending, R)}) + 1) = k
      BY <2>1, <2>2 DEF NonceAfter
    <3> HIDE DEF R, D, r, K, C, mine
    <3>6. QED
      BY <2>1, <2>4, <3>3, <3>4, <3>5
  <2> HIDE DEF r, R
  <2>6. /\ m \in Pools /\ m.pending = p.pending \cup R /\ m.queue = p.queue \ (D \cup R)
        /\ m.all = p.all \ D /\ m.reserved = p.reserved /\ m.nonces = [p.nonces EXCEPT ![a] = k]
    <3>1. R \subseteq Tx
      BY <1>1, <1>2
    <3> HIDE DEF D
    <3>2. QED
      BY <1>1, <2>3, <2>4, <3>1 DEF Pools
  <2>7. SameLists(m, r)
    BY <2>5, <2>6, ReleaseKeeps
  <2>8. Agree(r, gone)
    <3>1. /\ r \in Pools /\ r.pending = p.pending \cup R /\ r.queue = p.queue \ (D \cup R) /\ r.all = p.all \ D
      BY <2>6, <2>7 DEF SameLists
    <3>2. Lists(r) = Lists(p) \ D /\ r.pending \cap r.queue = {}
      BY <1>2, <1>3, <3>1 DEF Lists, Agree
    <3>3. Shrinks(p, r)
      BY <3>1, <3>2 DEF Shrinks, Agree
    <3>4. QED
      BY <3>3, ShrinksAgree
  <2>9. Held(p, {}) => Held(r, {})
    <3>1. \A c \in Account : c # a => HasList(m, c) = HasList(p, c)
      BY <1>2, <1>3, <2>6 DEF HasList, Of
    <3>2. HasList(m, a) => HasList(p, a)
      BY <1>2, <2>6 DEF HasList, Of
    <3>3. ASSUME Held(p, {}) PROVE Held(Release(m, {a}), {})
      BY <1>1, <2>6, <3>1, <3>2, <3>3, HeldReleased
    <3>4. QED
      BY <2>5, <3>3
  <2>10. \A t \in r.queue : t.from = a => t \in K \ R
    BY <2>6, <2>7 DEF SameLists, Of
  <2>11. PromotesOne(p, r, a, n, b, gone)
    <3>1. /\ r.pending = p.pending \cup R /\ r.queue \subseteq p.queue /\ r.all \subseteq p.all
          /\ r.nonces = [p.nonces EXCEPT ![a] = NonceAfter(R, @)]
      BY <1>1, <2>2, <2>6, <2>7 DEF SameLists
    <3>2. QED
      BY <2>8, <2>9, <2>10, <3>1 DEF PromotesOne, R
  <2>12. QED
    BY <2>11 DEF r
<1>6. QED
  BY <1>4, <1>5

\* What is kept is no pending transaction's nonce, and all of it is beyond the virtual
\* nonce when the pending transactions are in turn.
LEMMA KeptBeyond ==
    ASSUME NEW p, NEW gone, Agree(p, gone), NEW a \in Account, NEW n \in AccountNonces, NEW b,
           Contiguous(p, n)
    PROVE  \A t \in Kept(p, a, n, b) : t.nonce >= p.nonces[a]
<1> SUFFICES ASSUME NEW t \in Kept(p, a, n, b) PROVE t.nonce >= p.nonces[a]
  OBVIOUS
<1>1. t \in p.queue /\ t.from = a /\ t.nonce >= n[a]
  BY DEF Kept, Of
<1>2. t.nonce \in Nat /\ MaxNonce \in Nat
  BY <1>1, TxFields, PoolFields, LegacyPoolAssumption DEF Agree
<1>3. n[a] \in Nat /\ p.nonces[a] \in Nat
  BY <1>2, PoolFields DEF Agree, AccountNonces
<1>4. t.nonce \notin NoncesOf(p.pending, a)
  <2> SUFFICES ASSUME NEW u \in p.pending, u.from = a, u.nonce = t.nonce PROVE FALSE
    BY OfFacts
  <2>1. u = t
    BY <1>1 DEF Agree, Distinct, Lists
  <2>2. QED
    BY <1>1, <2>1 DEF Agree
<1>5. NoncesOf(p.pending, a) = n[a]..(p.nonces[a] - 1)
  BY DEF Contiguous
<1>6. QED
  BY <1>1, <1>2, <1>3, <1>4, <1>5

\* Every account that is promoted keeps its pending transactions in turn, and does not
\* wait with its first.
LEMMA PromotedInTurn ==
    ASSUME NEW p, NEW gone, Agree(p, gone), NEW a \in Account, NEW n \in AccountNonces, NEW b,
           Contiguous(p, n), NEW r, PromotesOne(p, r, a, n, b, gone)
    PROVE  Contiguous(r, n) /\ NoneFirst(r, n, {a})
<1>1. PICK K, R, k : K = Kept(p, a, n, b) /\ R = Promotable(p, a, n, b) /\ k = p.nonces[a]
  OBVIOUS
<1>2. /\ r.pending = p.pending \cup R
      /\ \A t \in r.queue : t.from = a => t \in K \ R
      /\ r.nonces = [p.nonces EXCEPT ![a] = NonceAfter(R, @)]
  BY <1>1 DEF PromotesOne
<1>3. /\ p \in Pools /\ p.nonces \in [Account -> 0..(MaxNonce + 1)] /\ MaxNonce \in Nat
  BY PoolFields, LegacyPoolAssumption DEF Agree, AccountNonces
<1>4. k \in Nat /\ k \in 0..(MaxNonce + 1) /\ n[a] \in Nat
  BY <1>1, <1>3 DEF AccountNonces
<1>5. K \subseteq p.queue /\ R \subseteq K /\ \A t \in K : t.from = a
  BY <1>1, <1>3, PromotableQueued DEF Of
<1>6. K \in SUBSET Tx /\ R \in SUBSET Tx
  BY <1>3, <1>5, PoolFields
<1>7. \A t \in K : t.nonce >= k
  BY <1>1, KeptBeyond
<1>8. /\ \A t \in R : \A i \in k..t.nonce : \E u \in R : u.nonce = i
      /\ \A t \in K : t.nonce = k => t \in R
  <2>1. R = Ready(K, k)
    BY <1>1 DEF Promotable
  <2>2. /\ Ready(K, k) \subseteq K
        /\ \A t \in Ready(K, k) : \A i \in k..t.nonce : \E u \in Ready(K, k) : u.nonce = i
        /\ \A t \in K : t.nonce = k => t \in Ready(K, k)
    BY <1>4, <1>6, <1>7, ReadyFacts
  <2>3. QED
    BY <2>1, <2>2
<1>9. n[a] <= k /\ NoncesOf(p.pending, a) = n[a]..(k - 1)
  BY <1>1 DEF Contiguous
<1>10. \A c \in Account : c # a => NoncesOf(r.pending, c) = NoncesOf(p.pending, c) /\ r.nonces[c] = p.nonces[c]
  BY <1>2, <1>3, <1>5 DEF NoncesOf, Of
<1>11. PICK k2 : k2 = NonceAfter(R, k)
  OBVIOUS
<1>12. r.nonces[a] = k2
  BY <1>1, <1>2, <1>3, <1>11
<1>13. n[a] <= k2 /\ NoncesOf(r.pending, a) = n[a]..(k2 - 1)
  <2>1. CASE R = {}
    BY <1>2, <1>9, <1>11, <2>1 DEF NonceAfter
  <2>2. CASE R # {}
    <3>1. PICK u \in R : k2 = u.nonce + 1 /\ \A t \in R : t.nonce <= u.nonce
      BY <1>4, <1>6, <1>11, <2>2, NonceAfterType
    <3>2. u.nonce \in Nat /\ u.nonce >= k /\ \A t \in R : t.nonce \in Nat /\ t.nonce >= k
      BY <1>5, <1>6, <1>7, TxFields
    <3>3. ASSUME NEW i \in NoncesOf(r.pending, a) PROVE i \in n[a]..(k2 - 1)
      <4>1. PICK t \in r.pending : t.from = a /\ t.nonce = i
        BY <3>3, OfFacts
      <4>2. CASE t \in p.pending
        <5>1. i \in n[a]..(k - 1)
          BY <1>9, <4>1, <4>2, OfFacts
        <5>2. QED
          BY <1>4, <3>1, <3>2, <5>1
      <4>3. CASE t \in R
        <5>1. i \in Nat /\ i >= k /\ i <= u.nonce
          BY <3>1, <3>2, <4>1, <4>3
        <5>2. QED
          BY <1>4, <1>9, <3>1, <3>2, <5>1
      <4>4. QED
        BY <1>2, <4>1, <4>2, <4>3
    <3>4. ASSUME NEW i \in n[a]..(k2 - 1) PROVE i \in NoncesOf(r.pending, a)
      <4>1. i \in Int /\ i >= n[a] /\ i <= u.nonce
        BY <1>4, <3>1, <3>2, <3>4
      <4>2. CASE i < k
        <5>1. i \in NoncesOf(p.pending, a)
          BY <1>4, <1>9, <4>1, <4>2
        <5>2. QED
          BY <1>2, <5>1, OfFacts
      <4>3. CASE ~(i < k)
        <5>1. i \in k..u.nonce
          BY <1>4, <3>2, <4>1, <4>3
        <5>2. PICK t \in R : t.nonce = i
          BY <1>8, <5>1
        <5>3. t \in r.pending /\ t.from = a
          BY <1>2, <1>5, <5>2
        <5>4. QED
          BY <5>2, <5>3, OfFacts
      <4>4. QED
        BY <4>2, <4>3
    <3>5. n[a] <= k2
      BY <1>4, <1>9, <3>1, <3>2
    <3>6. QED
      BY <3>3, <3>4, <3>5
  <2>3. QED
    BY <2>1, <2>2
<1>14. Contiguous(r, n)
  BY <1>10, <1>12, <1>13 DEF Contiguous
<1>15. NoneFirst(r, n, {a})
  <2> SUFFICES ASSUME n[a] \in NoncesOf(r.queue, a) PROVE FALSE
    BY DEF NoneFirst
  <2>1. PICK t \in r.queue : t.from = a /\ t.nonce = n[a]
    BY OfFacts
  <2>2. t \in K /\ t \notin R
    BY <1>2, <2>1
  <2>3. t.nonce = k
    BY <1>4, <1>7, <1>9, <2>1, <2>2
  <2>4. QED
    BY <1>8, <2>2, <2>3
<1>16. QED
  BY <1>14, <1>15

\* The pending transactions from the account's nonce on have no gap: what a new head
\* finds, whose nonces are n.
Closed(p, n) ==
    \A t \in p.pending : \A i \in n[t.from]..t.nonce : i \in NoncesOf(p.pending, t.from)

\* What promoting an account does then.
StaysClosed(p, r, a, n) ==
    /\ Closed(r, n) /\ NoneFirst(r, n, {a})
    /\ \A c \in Account : c # a => r.nonces[c] = p.nonces[c]

\* The same under a new head, from whose nonce an account is promoted.
LEMMA PromotedClosed ==
    ASSUME NEW p, NEW gone, Agree(p, gone), NEW a \in Account, NEW n \in AccountNonces, NEW b,
           Closed(p, n), p.nonces[a] = n[a], NEW r, PromotesOne(p, r, a, n, b, gone)
    PROVE  StaysClosed(p, r, a, n)
<1>1. PICK K, R, k : K = Kept(p, a, n, b) /\ R = Promotable(p, a, n, b) /\ k = n[a]
  OBVIOUS
<1>2. /\ r.pending = p.pending \cup R
      /\ \A t \in r.queue : t.from = a => t \in K \ R
      /\ r.nonces = [p.nonces EXCEPT ![a] = NonceAfter(R, @)]
  BY <1>1 DEF PromotesOne
<1>3. /\ p \in Pools /\ p.nonces \in [Account -> 0..(MaxNonce + 1)] /\ MaxNonce \in Nat
  BY PoolFields, LegacyPoolAssumption DEF Agree, AccountNonces
<1>4. k \in Nat
  BY <1>1, <1>3 DEF AccountNonces
<1>5. K \subseteq p.queue /\ R \subseteq K /\ \A t \in K : t.from = a /\ t.nonce >= k
  BY <1>1, <1>3, PromotableQueued DEF Of, Kept
<1>6. K \in SUBSET Tx
  BY <1>3, <1>5, PoolFields
<1>7. /\ \A t \in R : \A i \in k..t.nonce : \E u \in R : u.nonce = i
      /\ \A t \in K : t.nonce = k => t \in R
  <2>1. R = Ready(K, k)
    BY <1>1 DEF Promotable
  <2>2. QED
    BY <1>4, <1>5, <1>6, <2>1, ReadyFacts
<1>8. ASSUME NEW t \in r.pending, NEW i \in n[t.from]..t.nonce PROVE i \in NoncesOf(r.pending, t.from)
  <2>1. CASE t \in p.pending
    <3>1. i \in NoncesOf(p.pending, t.from)
      BY <1>8, <2>1 DEF Closed
    <3>2. QED
      BY <1>2, <3>1, OfFacts
  <2>2. CASE t \in R
    <3>1. t.from = a /\ i \in k..t.nonce
      BY <1>1, <1>5, <1>8, <2>2
    <3>2. PICK u \in R : u.nonce = i
      BY <1>7, <2>2, <3>1
    <3>3. u \in r.pending /\ u.from = a
      BY <1>2, <1>5, <3>2
    <3>4. QED
      BY <3>1, <3>2, <3>3, OfFacts
  <2>3. QED
    BY <1>2, <2>1, <2>2
<1>9. NoneFirst(r, n, {a})
  <2> SUFFICES ASSUME n[a] \in NoncesOf(r.queue, a) PROVE FALSE
    BY DEF NoneFirst
  <2>1. PICK t \in r.queue : t.from = a /\ t.nonce = n[a]
    BY OfFacts
  <2>2. QED
    BY <1>1, <1>2, <1>7, <2>1
<1>10. \A c \in Account : c # a => r.nonces[c] = p.nonces[c]
  BY <1>2, <1>3
<1>11. QED
  BY <1>8, <1>9, <1>10 DEF Closed, StaysClosed

\* G is kept by every round of promoteExecutables.
PromotesInto(G, D, n, b) ==
    \A s \in SUBSET D : \A a \in D \ s : \A q \in Pools :
        <<s, q>> \in G => <<s \cup {a}, PromoteAccount(q, a, n, b)>> \in G

\* What every round keeps, the loop over the accounts keeps.
LEMMA PromoteFold ==
    ASSUME NEW p \in Pools, NEW D \in SUBSET Account, NEW n, NEW b, NEW G \in SUBSET ((SUBSET D) \X Pools),
           <<{}, p>> \in G, PromotesInto(G, D, n, b)
    PROVE  <<D, PromoteExecutables(p, D, n, b)>> \in G
<1> DEFINE Iter(it) == it = [x \in SUBSET D |->
                                IF x = {} THEN p
                                ELSE PromoteAccount(it[x \ {CHOOSE y \in x : TRUE}], CHOOSE y \in x : TRUE, n, b)]
           iter == CHOOSE it : Iter(it)
           pick == [x \in SUBSET D |-> CHOOSE y \in x : TRUE]
           F == [z \in D \X Pools |-> PromoteAccount(z[2], z[1], n, b)]
<1>1. IsFiniteSet(D)
  BY LegacyPoolAssumption, FS_Subset
<1>2. \A x \in SUBSET D : x # {} => pick[x] \in x /\ pick[x] = CHOOSE y \in x : TRUE
  OBVIOUS
<1>3. PromoteExecutables(p, D, n, b) = iter[D]
  BY DEF PromoteExecutables, FoldSet, MapThenFoldSet
<1>4. \A s, v : <<s, v>> \in G => v \in Pools
  OBVIOUS
<1>5. \A a \in D : \A q \in Pools : F[<<a, q>>] = PromoteAccount(q, a, n, b)
  OBVIOUS
<1> HIDE DEF F, pick
<1>6. ASSUME NEW s \in SUBSET D, NEW a \in D \ s, NEW v, <<s, v>> \in G
      PROVE  <<s \cup {a}, F[<<a, v>>]>> \in G
  <2>1. v \in Pools
    BY <1>4, <1>6
  <2>2. <<s \cup {a}, PromoteAccount(v, a, n, b)>> \in G
    BY <1>6, <2>1 DEF PromotesInto
  <2>3. QED
    BY <1>5, <2>1, <2>2
<1>7. PICK it : IsFold(D, F, pick, p, it) /\ \A s \in SUBSET D : <<s, it[s]>> \in G
  <2> HIDE DEF Iter, iter
  <2>1. Tracks(D, F, pick, p, G)
    BY <1>2, <1>6 DEF Tracks
  <2>2. QED
    BY <1>1, <2>1, FoldTracks
<1>8. \A x \in SUBSET D : it[x] = IF x = {} THEN p ELSE F[<<pick[x], it[x \ {pick[x]}]>>]
  BY <1>7 DEF IsFold
<1>9. \A x \in SUBSET D : x # {} => it[x] = PromoteAccount(it[x \ {pick[x]}], pick[x], n, b)
  <2> SUFFICES ASSUME NEW x \in SUBSET D, x # {} PROVE it[x] = PromoteAccount(it[x \ {pick[x]}], pick[x], n, b)
    OBVIOUS
  <2>1. PICK a, q : a = pick[x] /\ q = it[x \ {a}]
    OBVIOUS
  <2>2. a \in D /\ q \in Pools
    BY <1>2, <1>4, <1>7, <2>1
  <2>3. QED
    BY <1>5, <1>8, <2>1, <2>2
<1>10. Iter(it)
  <2>1. it = [x \in SUBSET D |-> it[x]]
    BY <1>7 DEF IsFold
  <2>2. \A x \in SUBSET D : it[x] = IF x = {} THEN p
                                    ELSE PromoteAccount(it[x \ {CHOOSE y \in x : TRUE}], CHOOSE y \in x : TRUE, n, b)
    BY <1>2, <1>8, <1>9
  <2>3. QED
    BY <2>1, <2>2
<1>11. Iter(iter)
  <2> HIDE DEF Iter
  <2>1. QED
    BY <1>10
<1> HIDE DEF iter
<1>12. \A x \in SUBSET D : iter[x] = IF x = {} THEN p ELSE PromoteAccount(iter[x \ {pick[x]}], pick[x], n, b)
  BY <1>2, <1>11
<1>13. SameSteps(D, pick, iter, it)
  <2> HIDE DEF Iter
  <2>1. iter[{}] = it[{}]
    BY <1>8, <1>12
  <2>2. ASSUME NEW x \in SUBSET D, x # {}, iter[x \ {pick[x]}] = it[x \ {pick[x]}] PROVE iter[x] = it[x]
    BY <1>9, <1>12, <2>2
  <2>3. QED
    BY <1>2, <2>1, <2>2 DEF SameSteps
<1>14. iter[D] = it[D]
  <2> HIDE DEF Iter
  <2>1. QED
    BY <1>1, <1>13, FoldIs
<1>15. QED
  BY <1>3, <1>7, <1>14

(***************************************************************************)
(* demoteUnexecutables.                                                    *)
(***************************************************************************)
\* What demoting one account does.
DemotesOne(p, r, a, n, b, gone) ==
    /\ Agree(r, gone)
    /\ Held(p, {}) => Held(r, {})
    /\ r.all \subseteq p.all /\ r.nonces = p.nonces /\ r.pending \subseteq p.pending
    /\ \A t \in r.pending : t.from = a => t.nonce >= n[a] /\ t.price <= b[a]
    /\ \A t \in r.queue : t \in p.queue \/ (t.from = a /\ t.nonce # n[a])
    /\ Closed(p, n) => Closed(r, n)

\* The transactions of the account that are of use, that it cannot pay, that come after
\* one it cannot pay, that are left, and that wait for another.
Live(p, a, n) == {t \in Of(p.pending, a) : t.nonce >= n[a]}
Drops(p, a, n, b) == {t \in Live(p, a, n) : t.price > b[a]}
Invalids(p, a, n, b) ==
    {t \in Live(p, a, n) \ Drops(p, a, n, b) : \E d \in Drops(p, a, n, b) : t.nonce > d.nonce}
Rest(p, a, n, b) == Live(p, a, n) \ (Drops(p, a, n, b) \cup Invalids(p, a, n, b))
GappedOf(p, a, n, b) == IF n[a] \in {t.nonce : t \in Rest(p, a, n, b)} THEN {} ELSE Rest(p, a, n, b)

\* demoteUnexecutables for one account.
LEMMA DemoteFacts ==
    ASSUME NEW p, NEW gone, Agree(p, gone), NEW a \in Account, NEW n \in AccountNonces,
           NEW b \in [Account -> Balances]
    PROVE  DemotesOne(p, DemoteAccount(p, a, n, b), a, n, b, gone)
<1> DEFINE r == DemoteAccount(p, a, n, b)
           mine == Of(p.pending, a)
           L == Live(p, a, n)
           P == Drops(p, a, n, b)
           V == Invalids(p, a, n, b)
           R == Rest(p, a, n, b)
           W == GappedOf(p, a, n, b)
           X == (mine \ L) \cup P
<1>1. /\ p \in Pools /\ p.queue \in SUBSET Tx /\ p.pending \in SUBSET Tx /\ MaxNonce \in Nat
  BY PoolFields, LegacyPoolAssumption DEF Agree
<1>2. /\ mine \subseteq p.pending /\ L \subseteq mine /\ P \subseteq L /\ V \subseteq L \ P
      /\ R = L \ (P \cup V) /\ W \subseteq R
      /\ \A t \in mine : t.from = a
  BY DEF Of, Live, Drops, Invalids, Rest, GappedOf
<1>3. CASE mine = {}
  <2>1. r = p
    BY <1>3 DEF DemoteAccount
  <2>2. \A t \in p.pending : t.from # a
    BY <1>3 DEF Of
  <2> HIDE DEF r
  <2>3. DemotesOne(p, r, a, n, b, gone)
    BY <2>1, <2>2 DEF DemotesOne
  <2>4. QED
    BY <2>3 DEF r
<1>4. CASE mine # {}
  <2>1. PICK m : m = [p EXCEPT !.pending = p.pending \ (mine \ (R \ W)), !.all = p.all \ X]
    OBVIOUS
  <2>2. r = Release(Demoted(Demoted(m, V), W), {a})
    <3>1. r = Release(Demoted(Demoted([p EXCEPT !.pending = @ \ (mine \ (R \ W)), !.all = @ \ X], V), W), {a})
      BY <1>4, Zenon DEF DemoteAccount, Live, Drops, Invalids, Rest, GappedOf
    <3>2. QED
      BY <2>1, <3>1
  <2> HIDE DEF r, L, P, V, R, W
  <2>3. /\ m \in Pools /\ m.pending = p.pending \ (mine \ (R \ W)) /\ m.queue = p.queue
        /\ m.all = p.all \ X /\ m.nonces = p.nonces /\ m.reserved = p.reserved
    <3> HIDE DEF mine, X
    <3>1. QED
      BY <1>1, <2>1 DEF Pools
  <2>4. PICK d : d = Demoted(m, V)
    OBVIOUS
  <2>5. /\ d \in Pools /\ d.pending = m.pending /\ d.queue = m.queue \cup V
        /\ d.all = m.all /\ d.nonces = m.nonces /\ d.reserved = m.reserved
    <3>1. V \in SUBSET Tx
      BY <1>1, <1>2
    <3>2. \A t \in V : At(m.queue, t) = {}
      BY <1>2, <2>3 DEF Agree, Distinct, Lists, At
    <3>3. QED
      BY <2>3, <2>4, <3>1, <3>2, DemotedFields
  <2>6. PICK e : e = Demoted(d, W)
    OBVIOUS
  <2>7. /\ e \in Pools /\ e.pending = d.pending /\ e.queue = d.queue \cup W
        /\ e.all = d.all /\ e.nonces = d.nonces /\ e.reserved = d.reserved
    <3>1. W \in SUBSET Tx
      BY <1>1, <1>2
    <3>2. \A t \in W : At(d.queue, t) = {}
      BY <1>2, <2>3, <2>5 DEF Agree, Distinct, Lists, At
    <3>3. QED
      BY <2>5, <2>6, <3>1, <3>2, DemotedFields
  <2>8. /\ e \in Pools /\ e.pending = p.pending \ (mine \ (R \ W)) /\ e.queue = p.queue \cup V \cup W
        /\ e.all = p.all \ X /\ e.nonces = p.nonces /\ e.reserved = p.reserved
    BY <2>3, <2>5, <2>7
  <2>9. r = Release(e, {a}) /\ SameLists(e, r)
    BY <2>2, <2>4, <2>6, <2>7, ReleaseKeeps
  <2>10. /\ r \in Pools /\ r.pending = p.pending \ (mine \ (R \ W)) /\ r.queue = p.queue \cup V \cup W
         /\ r.all = p.all \ X /\ r.nonces = p.nonces
    BY <2>8, <2>9 DEF SameLists
  <2>11. Agree(r, gone)
    <3>1. Lists(r) = Lists(p) \ X
      BY <1>2, <2>10 DEF Lists, Agree
    <3>2. r.pending \cap r.queue = {}
      BY <1>2, <2>10 DEF Agree
    <3>3. Shrinks(p, r)
      BY <2>10, <3>1, <3>2 DEF Shrinks, Agree
    <3>4. QED
      BY <3>3, ShrinksAgree
  <2>12. Held(p, {}) => Held(r, {})
    <3>1. \A c \in Account : c # a => HasList(e, c) = HasList(p, c)
      BY <1>2, <2>8 DEF HasList, Of
    <3>2. HasList(e, a) => HasList(p, a)
      BY <1>2, <1>4, <2>8 DEF HasList
    <3>3. ASSUME Held(p, {}) PROVE Held(Release(e, {a}), {})
      BY <1>1, <2>8, <3>1, <3>2, <3>3, HeldReleased
    <3>4. QED
      BY <2>9, <3>3
  <2>13. \A t \in mine : t.nonce \in Nat /\ n[a] \in Nat
    BY <1>1, <1>2, TxFields DEF AccountNonces
  <2>14. \A t \in r.pending : t.from = a => t \in R \ W
    BY <2>10 DEF Of
  <2>15. \A t \in R : t.nonce >= n[a] /\ t.price <= b[a]
    <3>1. \A t \in R : t \in L /\ ~(t.price > b[a])
      BY <1>2 DEF P, Drops, L
    <3>2. \A t \in R : t.price \in Nat /\ b[a] \in Nat
      <4>1. Balances \subseteq Nat
        BY LegacyPoolAssumption
      <4>2. \A t \in R : t \in Tx
        BY <1>1, <1>2
      <4>3. QED
        BY <4>1, <4>2, TxFields
    <3>3. \A t \in R : t.price <= b[a]
      BY <3>1, <3>2
    <3>4. QED
      BY <3>1, <3>3 DEF L, Live
  <2>16. \A t \in V : t.nonce # n[a]
    <3> SUFFICES ASSUME NEW t \in V PROVE t.nonce # n[a]
      OBVIOUS
    <3>1. PICK d2 \in P : t.nonce > d2.nonce
      BY DEF V, Invalids, P
    <3>2. d2.nonce >= n[a] /\ d2 \in mine /\ t \in mine
      BY <1>2, <3>1 DEF P, Drops, Live
    <3>3. QED
      BY <2>13, <3>1, <3>2
  <2>17. \A t \in W : t.nonce # n[a]
    BY DEF W, GappedOf
  <2>18. \A t \in r.queue : t \in p.queue \/ (t.from = a /\ t.nonce # n[a])
    BY <1>2, <2>10, <2>16, <2>17
  <2>19. ASSUME Closed(p, n) PROVE Closed(r, n)
    <3> SUFFICES ASSUME NEW t \in r.pending, NEW i \in n[t.from]..t.nonce
                 PROVE  i \in NoncesOf(r.pending, t.from)
      BY DEF Closed
    <3>1. PICK u \in p.pending : u.from = t.from /\ u.nonce = i
      BY <2>10, <2>19, OfFacts DEF Closed
    <3>2. CASE t.from # a
      <4>1. u \in r.pending
        BY <1>2, <2>10, <3>1, <3>2
      <4>2. QED
        BY <3>1, <4>1, OfFacts
    <3>3. CASE t.from = a
      <4>1. t \in R /\ t \notin W
        BY <2>14, <3>3
      <4>2. W = {}
        BY <4>1 DEF W, R, GappedOf
      <4>3. u \in mine /\ u.nonce >= n[a] /\ u.nonce <= t.nonce /\ u \in L
        <5>1. u \in mine /\ t \in mine
          BY <1>2, <3>1, <3>3, <4>1 DEF Of
        <5>2. u.nonce >= n[a] /\ u.nonce <= t.nonce
          BY <2>13, <3>1, <3>3, <5>1
        <5>3. QED
          BY <5>1, <5>2 DEF L, Live
      <4>4. t \in mine /\ t \in L /\ t \notin P /\ t \notin V
        BY <1>2, <4>1
      <4>5. \A d2 \in P : ~(t.nonce > d2.nonce)
        BY <4>4 DEF V, Invalids, L, P
      <4>6. u \notin P
        <5> SUFFICES ASSUME u \in P PROVE FALSE
          OBVIOUS
        <5>1. u.nonce = t.nonce
          BY <2>13, <4>3, <4>4, <4>5
        <5>2. u = t
          BY <2>10, <3>1, <5>1 DEF Agree, Distinct, Lists
        <5>3. QED
          BY <4>4, <5>2
      <4>7. u \notin V
        <5> SUFFICES ASSUME u \in V PROVE FALSE
          OBVIOUS
        <5>1. PICK d2 \in P : u.nonce > d2.nonce
          BY DEF V, Invalids, P
        <5>2. d2 \in mine
          BY <1>2, <5>1
        <5>3. t.nonce > d2.nonce
          BY <2>13, <4>3, <4>4, <5>1, <5>2
        <5>4. QED
          BY <4>5, <5>3
      <4>8. u \in r.pending
        BY <1>2, <2>10, <3>1, <4>2, <4>3, <4>6, <4>7
      <4>9. QED
        BY <3>1, <4>8, OfFacts
    <3>4. QED
      BY <3>2, <3>3
  <2>20. DemotesOne(p, r, a, n, b, gone)
    <3>1. r.all \subseteq p.all /\ r.nonces = p.nonces /\ r.pending \subseteq p.pending
      BY <2>10
    <3>2. \A t \in r.pending : t.from = a => t.nonce >= n[a] /\ t.price <= b[a]
      BY <2>14, <2>15
    <3>3. QED
      BY <2>11, <2>12, <2>18, <2>19, <3>1, <3>2 DEF DemotesOne
  <2>21. QED
    BY <2>20 DEF r
<1>5. QED
  BY <1>3, <1>4

\* G is kept by every round of demoteUnexecutables.
DemotesInto(G, D, n, b) ==
    \A s \in SUBSET D : \A a \in D \ s : \A q \in Pools :
        <<s, q>> \in G => <<s \cup {a}, DemoteAccount(q, a, n, b)>> \in G

\* What every round keeps, the loop over the accounts keeps.
LEMMA DemoteFold ==
    ASSUME NEW p \in Pools, NEW D, D = Account, NEW n, NEW b, NEW G \in SUBSET ((SUBSET D) \X Pools),
           <<{}, p>> \in G, DemotesInto(G, D, n, b)
    PROVE  <<D, DemoteUnexecutables(p, n, b)>> \in G
<1> DEFINE Iter(it) == it = [x \in SUBSET D |->
                                IF x = {} THEN p
                                ELSE DemoteAccount(it[x \ {CHOOSE y \in x : TRUE}], CHOOSE y \in x : TRUE, n, b)]
           iter == CHOOSE it : Iter(it)
           pick == [x \in SUBSET D |-> CHOOSE y \in x : TRUE]
           F == [z \in D \X Pools |-> DemoteAccount(z[2], z[1], n, b)]
<1>1. IsFiniteSet(D)
  BY LegacyPoolAssumption
<1>2. \A x \in SUBSET D : x # {} => pick[x] \in x /\ pick[x] = CHOOSE y \in x : TRUE
  OBVIOUS
<1>3. DemoteUnexecutables(p, n, b) = iter[D]
  BY DEF DemoteUnexecutables, FoldSet, MapThenFoldSet
<1>4. \A s, v : <<s, v>> \in G => v \in Pools
  OBVIOUS
<1>5. \A a \in D : \A q \in Pools : F[<<a, q>>] = DemoteAccount(q, a, n, b)
  OBVIOUS
<1> HIDE DEF F, pick
<1>6. ASSUME NEW s \in SUBSET D, NEW a \in D \ s, NEW v, <<s, v>> \in G
      PROVE  <<s \cup {a}, F[<<a, v>>]>> \in G
  <2>1. v \in Pools
    BY <1>4, <1>6
  <2>2. <<s \cup {a}, DemoteAccount(v, a, n, b)>> \in G
    BY <1>6, <2>1 DEF DemotesInto
  <2>3. QED
    BY <1>5, <2>1, <2>2
<1>7. PICK it : IsFold(D, F, pick, p, it) /\ \A s \in SUBSET D : <<s, it[s]>> \in G
  <2> HIDE DEF Iter, iter
  <2>1. Tracks(D, F, pick, p, G)
    BY <1>2, <1>6 DEF Tracks
  <2>2. QED
    BY <1>1, <2>1, FoldTracks
<1>8. \A x \in SUBSET D : it[x] = IF x = {} THEN p ELSE F[<<pick[x], it[x \ {pick[x]}]>>]
  BY <1>7 DEF IsFold
<1>9. \A x \in SUBSET D : x # {} => it[x] = DemoteAccount(it[x \ {pick[x]}], pick[x], n, b)
  <2> SUFFICES ASSUME NEW x \in SUBSET D, x # {} PROVE it[x] = DemoteAccount(it[x \ {pick[x]}], pick[x], n, b)
    OBVIOUS
  <2>1. PICK a, q : a = pick[x] /\ q = it[x \ {a}]
    OBVIOUS
  <2>2. a \in D /\ q \in Pools
    BY <1>2, <1>4, <1>7, <2>1
  <2>3. QED
    BY <1>5, <1>8, <2>1, <2>2
<1>10. Iter(it)
  <2>1. it = [x \in SUBSET D |-> it[x]]
    BY <1>7 DEF IsFold
  <2>2. \A x \in SUBSET D : it[x] = IF x = {} THEN p
                                    ELSE DemoteAccount(it[x \ {CHOOSE y \in x : TRUE}], CHOOSE y \in x : TRUE, n, b)
    BY <1>2, <1>8, <1>9
  <2>3. QED
    BY <2>1, <2>2
<1>11. Iter(iter)
  <2> HIDE DEF Iter
  <2>1. QED
    BY <1>10
<1> HIDE DEF iter
<1>12. \A x \in SUBSET D : iter[x] = IF x = {} THEN p ELSE DemoteAccount(iter[x \ {pick[x]}], pick[x], n, b)
  BY <1>2, <1>11
<1>13. SameSteps(D, pick, iter, it)
  <2> HIDE DEF Iter
  <2>1. iter[{}] = it[{}]
    BY <1>8, <1>12
  <2>2. ASSUME NEW x \in SUBSET D, x # {}, iter[x \ {pick[x]}] = it[x \ {pick[x]}] PROVE iter[x] = it[x]
    BY <1>9, <1>12, <2>2
  <2>3. QED
    BY <1>2, <2>1, <2>2 DEF SameSteps
<1>14. iter[D] = it[D]
  <2> HIDE DEF Iter
  <2>1. QED
    BY <1>1, <1>13, FoldIs
<1>15. QED
  BY <1>3, <1>7, <1>14

(***************************************************************************)
(* How many transactions there are.                                        *)
(***************************************************************************)
\* Transactions of one account with different nonces are as many as the nonces.
LEMMA NonceCount ==
    ASSUME NEW T, NEW lo \in Nat, NEW hi \in Nat, lo <= hi,
           \A t, u \in T : t.nonce = u.nonce => t = u,
           {t.nonce : t \in T} = lo..(hi - 1)
    PROVE  IsFiniteSet(T) /\ Cardinality(T) = hi - lo
<1>1. PICK I : I = lo..(hi - 1)
  OBVIOUS
<1>2. IsFiniteSet(I) /\ Cardinality(I) = hi - lo
  <2>1. PICK k : k = hi - 1
    OBVIOUS
  <2>2. k \in Int
    BY <2>1
  <2>3. IsFiniteSet(lo..k) /\ Cardinality(lo..k) = IF lo > k THEN 0 ELSE k - lo + 1
    BY <2>2, FS_Interval
  <2>4. Cardinality(lo..k) = hi - lo
    BY <2>1, <2>3
  <2>5. QED
    BY <1>1, <2>1, <2>3, <2>4
<1>3. PICK g : g = [t \in T |-> t.nonce]
  OBVIOUS
<1>4. g \in [T -> I] /\ \A t \in T : g[t] = t.nonce
  BY <1>1, <1>3
<1>5. g \in Injection(T, I)
  BY <1>4 DEF Injection, IsInjective
<1>6. \A i \in I : \E t \in T : g[t] = i
  BY <1>1, <1>4
<1>7. g \in Surjection(T, I)
  BY <1>4, <1>6 DEF Surjection
<1>8. QED
  BY <1>2, <1>5, <1>7, FS_Injection

\* An account has as many pending transactions as its virtual nonce is beyond its nonce,
\* and as many before any of them as that is beyond its nonce.
LEMMA PendingCount ==
    ASSUME NEW p, NEW gone, Agree(p, gone), NEW n \in AccountNonces, Contiguous(p, n), NEW a \in Account
    PROVE  /\ n[a] \in Nat /\ p.nonces[a] \in Nat /\ n[a] <= p.nonces[a]
           /\ IsFiniteSet(Of(p.pending, a)) /\ Cardinality(Of(p.pending, a)) = p.nonces[a] - n[a]
           /\ \A t \in Of(p.pending, a) :
                /\ t.nonce \in Nat /\ n[a] <= t.nonce /\ t.nonce < p.nonces[a]
                /\ Cardinality({u \in Of(p.pending, a) : u.nonce < t.nonce}) = t.nonce - n[a]
<1>1. PICK S, lo, hi : S = Of(p.pending, a) /\ lo = n[a] /\ hi = p.nonces[a]
  OBVIOUS
<1>2. lo \in Nat /\ hi \in Nat /\ lo <= hi
  BY <1>1, PoolFields, LegacyPoolAssumption DEF Agree, AccountNonces, Contiguous
<1>3. {t.nonce : t \in S} = lo..(hi - 1)
  BY <1>1 DEF Contiguous, NoncesOf
<1>4. \A t, u \in S : t.nonce = u.nonce => t = u
  BY <1>1 DEF Agree, Distinct, Lists, Of
<1>5. IsFiniteSet(S) /\ Cardinality(S) = hi - lo
  BY <1>2, <1>3, <1>4, NonceCount
<1>6. \A t \in S : t.nonce \in lo..(hi - 1)
  BY <1>3
<1>7. \A t \in S : t.nonce \in Nat /\ lo <= t.nonce /\ t.nonce < hi
  BY <1>2, <1>6
<1>8. ASSUME NEW t \in S PROVE Cardinality({u \in S : u.nonce < t.nonce}) = t.nonce - lo
  <2>1. PICK T, k : T = {u \in S : u.nonce < t.nonce} /\ k = t.nonce
    OBVIOUS
  <2>2. k \in Nat /\ lo <= k /\ k < hi
    BY <1>7, <2>1
  <2>3. {u.nonce : u \in T} = lo..(k - 1)
    <3>1. \A u \in T : u.nonce \in lo..(k - 1)
      BY <1>2, <1>7, <2>1, <2>2
    <3>2. \A i \in lo..(k - 1) : \E u \in T : u.nonce = i
      <4> SUFFICES ASSUME NEW i \in lo..(k - 1) PROVE \E u \in T : u.nonce = i
        OBVIOUS
      <4>1. i \in lo..(hi - 1) /\ i < k
        BY <1>2, <2>2
      <4>2. PICK u \in S : u.nonce = i
        BY <1>3, <4>1
      <4>3. QED
        BY <2>1, <4>1, <4>2
    <3>3. QED
      BY <3>1, <3>2
  <2>4. \A v, u \in T : v.nonce = u.nonce => v = u
    BY <1>4, <2>1
  <2>5. Cardinality(T) = k - lo
    BY <1>2, <2>2, <2>3, <2>4, NonceCount
  <2>6. QED
    BY <2>1, <2>5
<1>9. QED
  BY <1>1, <1>2, <1>5, <1>7, <1>8

(***************************************************************************)
(* truncatePending.                                                        *)
(***************************************************************************)
SizeOf(p, level) == [a \in Account |-> Min({Cardinality(Of(p.pending, a)), level})]

\* SizeAt adds the sizes up.
LEMMA SizeIsSum ==
    ASSUME NEW p, NEW level, \A a \in Account : SizeOf(p, level)[a] \in Nat
    PROVE  SizeAt(p, level) = SumOn(Account, SizeOf(p, level))
<1> DEFINE S == Account
           f == SizeOf(p, level)
           Size(a) == Min({Cardinality(Of(p.pending, a)), level})
           pick == [s \in SUBSET S |-> CHOOSE x \in s : TRUE]
           sums == [s \in SUBSET S |-> SumOn(s, f)]
           Iter(it) == it = [s \in SUBSET S |->
                                IF s = {} THEN 0
                                ELSE Size(CHOOSE x \in s : TRUE) + it[s \ {CHOOSE x \in s : TRUE}]]
           iter == CHOOSE it : Iter(it)
<1>1. \A s \in SUBSET S : s # {} => (CHOOSE x \in s : TRUE) \in s
  OBVIOUS
<1>2. \A a \in S : Size(a) = f[a] /\ f[a] \in Nat
  BY DEF SizeOf
<1>3. SizeAt(p, level) = iter[S]
  BY DEF SizeAt, MapThenSumSet, MapThenFoldSet
<1>4. IsFiniteSet(S)
  BY LegacyPoolAssumption
<1> HIDE DEF f, Size, S
<1>5. Iter(sums)
  <2>1. ASSUME NEW s \in SUBSET S, s # {}, NEW x, x = CHOOSE y \in s : TRUE
        PROVE  sums[s] = Size(x) + sums[s \ {x}]
    <3>1. x \in s /\ s \ {x} \in SUBSET S
      BY <1>1, <2>1
    <3>2. SumOn(s, f) = f[x] + SumOn(s \ {x}, f)
      BY <1>2, <1>4, <3>1, SumSolves
    <3>3. QED
      BY <1>2, <3>1, <3>2
  <2>2. sums[{}] = 0
    BY SumOnEmpty
  <2>3. QED
    BY <2>1, <2>2
<1>6. Iter(iter)
  BY <1>5
<1>7. \A it : Iter(it) => Adds(S, f, pick, it)
  BY <1>1, <1>2 DEF Adds
<1> HIDE DEF iter, pick, Iter
<1>8. iter[S] = SumOn(S, f)
  BY <1>2, <1>4, <1>6, <1>7, AddsIsSum
<1>9. QED
  BY <1>3, <1>8 DEF f, S

\* The level is at least AccountSlots, and where it is more, few enough are left.
LEMMA LevelFacts ==
    ASSUME NEW p, IsFiniteSet(p.pending)
    PROVE  /\ Level(p) \in Nat /\ AccountSlots \in Nat /\ AccountSlots >= 1 /\ GlobalSlots \in Nat
           /\ Level(p) >= AccountSlots
           /\ Level(p) # AccountSlots => SizeAt(p, Level(p)) <= GlobalSlots
<1>1. PICK C : C = Cardinality(p.pending)
  OBVIOUS
<1>2. C \in Nat /\ AccountSlots \in Nat /\ AccountSlots >= 1 /\ GlobalSlots \in Nat
  BY <1>1, FS_CardinalityType, LegacyPoolAssumption
<1>3. PICK L : L = {AccountSlots} \cup {l \in AccountSlots..C : SizeAt(p, l) <= GlobalSlots}
  OBVIOUS
<1>4. L \in SUBSET (0..(C + AccountSlots)) /\ L # {} /\ C + AccountSlots \in Nat
  <2>1. \A l \in L : l \in 0..(C + AccountSlots)
    BY <1>2, <1>3
  <2>2. QED
    BY <1>2, <1>3, <2>1
<1>5. Max(L) \in L /\ \A i \in L : i <= Max(L)
  BY <1>4, LastNonce
<1>6. Level(p) = Max(L)
  BY <1>1, <1>3 DEF Level
<1>7. QED
  BY <1>2, <1>3, <1>4, <1>5, <1>6

\* What truncatePending leaves.
CutsAt(p, r, n, l) ==
    /\ r \in Pools
    /\ r.pending = {t \in p.pending : t.nonce < n[t.from] + l}
    /\ r.queue = p.queue /\ r.reserved = p.reserved
    /\ r.all = p.all \ {t \in p.pending : ~(t.nonce < n[t.from] + l)}
    /\ \A a \in Account :
          r.nonces[a] = IF p.nonces[a] <= n[a] + l THEN p.nonces[a] ELSE n[a] + l

\* truncatePending cuts every list at the level.
LEMMA PendingCut ==
    ASSUME NEW p, NEW gone, Agree(p, gone), NEW n \in AccountNonces, Contiguous(p, n),
           ~(Cardinality(p.pending) <= GlobalSlots)
    PROVE  CutsAt(p, TruncatePending(p), n, Level(p))
<1>1. PICK r, l : r = TruncatePending(p) /\ l = Level(p)
  OBVIOUS
<1>2. l \in Nat
  BY <1>1, LevelFacts DEF Agree
<1>3. PICK C : C = UNION {Beyond(Of(p.pending, a), l) : a \in Account}
  OBVIOUS
<1>4. C = {t \in p.pending : ~(t.nonce < n[t.from] + l)}
  <2>1. \A t \in p.pending : t.from \in Account
    BY PoolFields, TxFields DEF Agree
  <2>2. ASSUME NEW a \in Account, NEW t \in Of(p.pending, a)
        PROVE  t \in Beyond(Of(p.pending, a), l) <=> ~(t.nonce < n[a] + l)
    <3>1. /\ t.nonce \in Nat /\ n[a] <= t.nonce /\ n[a] \in Nat
          /\ Cardinality({u \in Of(p.pending, a) : u.nonce < t.nonce}) = t.nonce - n[a]
      BY <2>2, PendingCount
    <3>2. t \in Beyond(Of(p.pending, a), l) <=> t.nonce - n[a] >= l
      BY <2>2, <3>1 DEF Beyond
    <3>3. QED
      BY <1>2, <3>1, <3>2
  <2>3. \A t : t \in C <=> \E a \in Account : t \in Of(p.pending, a) /\ t \in Beyond(Of(p.pending, a), l)
    BY <1>3 DEF Beyond
  <2>4. QED
    BY <2>1, <2>2, <2>3, OfFacts
<1>5. PICK N : N = [a \in Account |-> Min({p.nonces[a]} \cup NoncesOf(C, a))]
  OBVIOUS
<1>6. r = [p EXCEPT !.pending = p.pending \ C, !.all = p.all \ C, !.nonces = N]
  <2>1. [p EXCEPT !.pending = @ \ C, !.all = @ \ C, !.nonces = [a \in Account |-> Min({@[a]} \cup NoncesOf(C, a))]]
            = [p EXCEPT !.pending = p.pending \ C, !.all = p.all \ C, !.nonces = N]
    BY <1>5, Zenon
  <2>2. r = [p EXCEPT !.pending = @ \ C, !.all = @ \ C, !.nonces = [a \in Account |-> Min({@[a]} \cup NoncesOf(C, a))]]
    BY <1>1, <1>3 DEF TruncatePending
  <2>3. QED
    BY <2>1, <2>2
<1>7. ASSUME NEW a \in Account
      PROVE  N[a] = IF p.nonces[a] <= n[a] + l THEN p.nonces[a] ELSE n[a] + l
  <2>1. PICK M, lo, hi : M = {p.nonces[a]} \cup NoncesOf(C, a) /\ lo = n[a] /\ hi = p.nonces[a]
    OBVIOUS
  <2>2. lo \in Nat /\ hi \in Nat /\ lo <= hi /\ NoncesOf(p.pending, a) = lo..(hi - 1)
    BY <2>1, PendingCount DEF Contiguous
  <2>3. \A i : i \in NoncesOf(C, a) <=> i \in NoncesOf(p.pending, a) /\ ~(i < lo + l)
    BY <1>4, <2>1, OfFacts
  <2>4. \A i : i \in NoncesOf(C, a) <=> i \in Nat /\ lo + l <= i /\ i < hi
    BY <1>2, <2>2, <2>3
  <2>5. \A i : i \in M <=> i = hi \/ (i \in Nat /\ lo + l <= i /\ i < hi)
    <3>1. \A i : i \in M <=> i = hi \/ i \in NoncesOf(C, a)
      BY <2>1
    <3>2. QED
      BY <2>4, <3>1, Zenon
  <2>6. M \in SUBSET Nat /\ M # {}
    BY <2>2, <2>5
  <2>7. Min(M) \in M /\ \A i \in M : Min(M) <= i
    BY <2>6, FirstIndex
  <2>8. N[a] = Min(M)
    BY <1>5, <2>1
  <2>9. PICK m : m = Min(M)
    OBVIOUS
  <2>10. m \in Nat /\ (m = hi \/ (lo + l <= m /\ m < hi)) /\ \A i \in M : m <= i
    BY <2>2, <2>5, <2>7, <2>9
  <2>11. CASE hi <= lo + l
    <3>1. m = hi
      BY <1>2, <2>2, <2>10, <2>11
    <3>2. QED
      BY <2>1, <2>8, <2>9, <2>11, <3>1
  <2>12. CASE ~(hi <= lo + l)
    <3>1. lo + l \in M
      <4>1. PICK k : k = lo + l
        OBVIOUS
      <4>2. k \in Nat /\ k < hi /\ lo + l <= k
        BY <1>2, <2>2, <2>12, <4>1
      <4>3. k \in M
        BY <2>5, <4>2
      <4>4. QED
        BY <4>1, <4>3
    <3>2. m <= lo + l
      BY <2>10, <3>1
    <3>3. m = lo + l
      BY <1>2, <2>2, <2>10, <2>12, <3>2
    <3>4. QED
      BY <2>1, <2>8, <2>9, <2>12, <3>3
  <2>13. QED
    BY <2>11, <2>12
<1>8. N \in [Account -> 0..(MaxNonce + 1)]
  <2>1. ASSUME NEW a \in Account PROVE N[a] \in 0..(MaxNonce + 1)
    <3>1. p.nonces[a] \in 0..(MaxNonce + 1) /\ MaxNonce \in Nat
      BY PoolFields, LegacyPoolAssumption DEF Agree, AccountNonces
    <3>2. n[a] \in Nat
      BY <3>1 DEF AccountNonces
    <3>3. QED
      BY <1>2, <1>7, <3>1, <3>2
  <2>2. QED
    BY <1>5, <2>1
<1>9. /\ r \in Pools /\ r.pending = p.pending \ C /\ r.queue = p.queue /\ r.reserved = p.reserved
      /\ r.all = p.all \ C /\ r.nonces = N
  BY <1>6, <1>8 DEF Pools, Agree
<1>10. CutsAt(p, r, n, l)
  BY <1>4, <1>7, <1>9 DEF CutsAt
<1>11. QED
  BY <1>1, <1>10

\* What holds of the pool between two operations, under nonces n and balances b.
Sound(p, gone, n, b) == Agree(p, gone) /\ Held(p, {}) /\ Contiguous(p, n) /\ Paid(p, b)

\* The limit on pending transactions.
PendingLimit(p) ==
    \/ Cardinality(p.pending) <= GlobalSlots
    \/ \A a \in Account : Cardinality(Of(p.pending, a)) <= AccountSlots

\* A cut at a level of at least one leaves a sound pool.
LEMMA CutSound ==
    ASSUME NEW p, NEW gone, NEW n \in AccountNonces, NEW b, Sound(p, gone, n, b),
           NEW r, NEW l \in Nat, l >= 1, CutsAt(p, r, n, l)
    PROVE  Sound(r, gone, n, b)
<1>1. /\ Agree(p, gone) /\ Held(p, {}) /\ Contiguous(p, n) /\ Paid(p, b)
      /\ p \in Pools /\ r \in Pools
  BY DEF Sound, Agree, CutsAt
<1>2. PICK C : C = {t \in p.pending : ~(t.nonce < n[t.from] + l)}
  OBVIOUS
<1>3. /\ r.pending = p.pending \ C /\ r.queue = p.queue /\ r.reserved = p.reserved /\ r.all = p.all \ C
      /\ C \subseteq p.pending
  BY <1>2 DEF CutsAt
<1>4. Shrinks(p, r)
  <2>1. Lists(r) \subseteq Lists(p) /\ r.pending \cap r.queue = {}
    BY <1>1, <1>3 DEF Lists, Agree
  <2>2. p.all \subseteq p.pending \cup p.queue /\ p.pending \cap p.queue = {}
    BY <1>1 DEF Agree, Lists
  <2>3. r.all = p.all \cap Lists(r)
    BY <1>3, <2>2 DEF Lists
  <2>4. QED
    BY <1>1, <2>1, <2>3 DEF Shrinks
<1>5. Agree(r, gone)
  BY <1>1, <1>4, ShrinksAgree
<1>6. ASSUME NEW a \in Account
      PROVE  /\ n[a] <= r.nonces[a] /\ NoncesOf(r.pending, a) = n[a]..(r.nonces[a] - 1)
             /\ HasList(r, a) = HasList(p, a)
  <2>1. PICK lo, hi, top : lo = n[a] /\ hi = p.nonces[a] /\ top = r.nonces[a]
    OBVIOUS
  <2>2. lo \in Nat /\ hi \in Nat /\ lo <= hi /\ NoncesOf(p.pending, a) = lo..(hi - 1)
    BY <1>1, <2>1, PendingCount DEF Contiguous
  <2>3. top = IF hi <= lo + l THEN hi ELSE lo + l
    BY <2>1 DEF CutsAt
  <2>4. \A k : k \in NoncesOf(r.pending, a) <=> k \in NoncesOf(p.pending, a) /\ k < lo + l
    <3>1. \A t \in p.pending : t \in r.pending <=> t.nonce < n[t.from] + l
      BY <1>2, <1>3
    <3>2. QED
      BY <1>3, <2>1, <3>1, OfFacts
  <2>5. \A k : k \in NoncesOf(r.pending, a) <=> k \in lo..(top - 1)
    BY <2>2, <2>3, <2>4
  <2>6. NoncesOf(r.pending, a) = lo..(top - 1)
    BY <2>5
  <2>7. lo <= top
    BY <2>2, <2>3
  <2>8. Of(p.pending, a) # {} => Of(r.pending, a) # {}
    <3>1. SUFFICES ASSUME Of(p.pending, a) # {} PROVE Of(r.pending, a) # {}
      OBVIOUS
    <3>2. \E k : k \in lo..(hi - 1)
      <4>1. PICK t : t \in p.pending /\ t.from = a
        BY <3>1, OfFacts
      <4>2. t.nonce \in NoncesOf(p.pending, a)
        BY <4>1, OfFacts
      <4>3. QED
        BY <2>2, <4>2
    <3>3. lo \in NoncesOf(p.pending, a)
      BY <2>2, <3>2
    <3>4. lo \in NoncesOf(r.pending, a)
      BY <2>2, <2>4, <3>3
    <3>5. QED
      BY <3>4, OfFacts
  <2>9. Of(r.pending, a) # {} => Of(p.pending, a) # {}
    BY <1>3, OfFacts
  <2>10. HasList(r, a) = HasList(p, a)
    BY <1>3, <2>8, <2>9 DEF HasList
  <2>11. QED
    BY <2>1, <2>6, <2>7, <2>10
<1>7. Contiguous(r, n)
  BY <1>6 DEF Contiguous
<1>8. Held(r, {})
  BY <1>1, <1>3, <1>6 DEF Held
<1>9. Paid(r, b)
  BY <1>1, <1>3 DEF Paid
<1>10. QED
  BY <1>5, <1>7, <1>8, <1>9 DEF Sound

(***************************************************************************)
(* What holds also when a run or an eviction came between the writes of    *)
(* Remove, so that the lists and the lookup need not agree.                *)
(***************************************************************************)
\* Of an account, each list has one transaction for a nonce.
Filed(p) ==
    /\ p \in Pools
    /\ IsFiniteSet(p.pending) /\ IsFiniteSet(p.queue) /\ IsFiniteSet(p.all)
    /\ Distinct(p.pending) /\ Distinct(p.queue)

\* What an operation does that takes in no transaction, and one that makes none pending.
Files(p, q) == Filed(q) /\ q.all \subseteq p.all
Fewer(p, q) == Files(p, q) /\ q.pending \subseteq p.pending

\* A pool whose lists and lookup agree is filed.
LEMMA AgreeFiled ==
    ASSUME NEW p, NEW gone, Agree(p, gone)
    PROVE  Filed(p)
<1>1. IsFiniteSet(p.pending \cup p.queue)
  BY FS_Union DEF Agree
<1>2. p.all \subseteq p.pending \cup p.queue
  BY DEF Agree, Lists
<1>3. IsFiniteSet(p.all)
  BY <1>1, <1>2, FS_Subset
<1>4. Distinct(p.pending) /\ Distinct(p.queue)
  BY DEF Agree, Lists, Distinct
<1>5. QED
  BY <1>3, <1>4 DEF Filed, Agree

\* Parts of what is filed are filed.
LEMMA PartsFiled ==
    ASSUME NEW p, Filed(p), NEW q \in Pools, q.pending \subseteq p.pending, q.queue \subseteq p.queue,
           q.all \subseteq p.all
    PROVE  Fewer(p, q)
<1>1. IsFiniteSet(q.pending) /\ IsFiniteSet(q.queue) /\ IsFiniteSet(q.all)
  BY FS_Subset DEF Filed
<1>2. Distinct(q.pending) /\ Distinct(q.queue)
  BY DEF Filed, Distinct
<1>3. QED
  BY <1>1, <1>2 DEF Fewer, Files, Filed

\* list.Add files a transaction or keeps the one that it does not replace.
LEMMA ListedFiled ==
    ASSUME NEW S \in SUBSET Tx, NEW T \in SUBSET Tx, IsFiniteSet(S), IsFiniteSet(T), Distinct(S), Distinct(T)
    PROVE  Listed(S, T) \in SUBSET Tx /\ IsFiniteSet(Listed(S, T)) /\ Distinct(Listed(S, T))
<1>1. PICK I, R : I = Inserted(S, T) /\ R = Replaced(S, T)
  OBVIOUS
<1>2. I \subseteq T /\ Listed(S, T) = (S \ R) \cup I
  BY <1>1 DEF Inserted, Listed
<1>3. \A u \in I : At(S, u) \subseteq R
  BY <1>1 DEF Replaced
<1>4. IsFiniteSet(S \ R) /\ IsFiniteSet(I)
  BY <1>2, FS_Subset
<1>5. IsFiniteSet(Listed(S, T))
  BY <1>2, <1>4, FS_Union
<1>6. \A t \in S \ R : \A u \in I : ~(t.from = u.from /\ t.nonce = u.nonce)
  BY <1>3 DEF At
<1>7. Distinct(Listed(S, T))
  <2>1. SUFFICES ASSUME NEW t \in (S \ R) \cup I, NEW u \in (S \ R) \cup I, t.from = u.from, t.nonce = u.nonce
                 PROVE  t = u
    BY <1>2 DEF Distinct
  <2>2. CASE t \in S \ R /\ u \in S \ R
    BY <2>1, <2>2 DEF Distinct
  <2>3. CASE t \in I /\ u \in I
    BY <1>2, <2>1, <2>3 DEF Distinct
  <2>4. QED
    BY <1>6, <2>1, <2>2, <2>3
<1>8. QED
  BY <1>2, <1>5, <1>7

\* enqueueTx.
LEMMA DemotedFiled ==
    ASSUME NEW p, Filed(p), NEW T \in SUBSET Tx, IsFiniteSet(T), Distinct(T)
    PROVE  Fewer(p, Demoted(p, T))
<1>1. PICK r, L, R : r = Demoted(p, T) /\ L = Listed(p.queue, T) /\ R = p.all \ Replaced(p.queue, T)
  OBVIOUS
<1>2. p \in Pools /\ p.queue \in SUBSET Tx /\ p.all \in SUBSET Tx
  BY PoolFields DEF Filed
<1>3. L \in SUBSET Tx /\ IsFiniteSet(L) /\ Distinct(L)
  BY <1>1, <1>2, ListedFiled DEF Filed
<1>4. R \in SUBSET Tx /\ R \subseteq p.all
  BY <1>1, <1>2
<1>5. r = [p EXCEPT !.queue = L, !.all = R]
  BY <1>1 DEF Demoted
<1>6. r \in Pools /\ r.pending = p.pending /\ r.queue = L /\ r.all = R
  BY <1>2, <1>3, <1>4, <1>5 DEF Pools
<1>7. IsFiniteSet(r.all)
  BY <1>4, <1>6, FS_Subset DEF Filed
<1>8. Fewer(p, r)
  BY <1>3, <1>4, <1>6, <1>7 DEF Fewer, Files, Filed
<1>9. QED
  BY <1>1, <1>8

\* One operation after another.
LEMMA FewerTwice ==
    ASSUME NEW p, NEW q, NEW r, Fewer(p, q), Fewer(q, r)
    PROVE  Fewer(p, r)
BY DEF Fewer, Files

\* A virtual nonce is lowered.
LEMMA NonceLowered ==
    ASSUME NEW p, Filed(p), NEW t \in Tx
    PROVE  Fewer(p, [p EXCEPT !.nonces[t.from] = Min({@, t.nonce})])
<1>1. PICK r, k : r = [p EXCEPT !.nonces[t.from] = Min({@, t.nonce})] /\ k = Min({p.nonces[t.from], t.nonce})
  OBVIOUS
<1>2. p \in Pools /\ p.nonces \in AccountNonces /\ t.from \in Account /\ t.nonce \in Nat /\ t.nonce <= MaxNonce
  BY PoolFields, TxFields DEF Filed
<1>3. MaxNonce \in Nat /\ p.nonces[t.from] \in 0..(MaxNonce + 1)
  BY <1>2, LegacyPoolAssumption DEF AccountNonces
<1>4. k \in 0..(MaxNonce + 1)
  <2>1. PICK h, i : h = p.nonces[t.from] /\ i = t.nonce
    OBVIOUS
  <2>2. h \in Nat /\ i \in Nat /\ h <= MaxNonce + 1 /\ i <= MaxNonce
    BY <1>2, <1>3, <2>1
  <2>3. k = IF h <= i THEN h ELSE i
    BY <1>1, <2>1, <2>2, MinOfTwo
  <2>4. QED
    BY <1>3, <2>2, <2>3
<1>5. r = [p EXCEPT !.nonces = [p.nonces EXCEPT ![t.from] = k]]
  BY <1>1, Zenon
<1>6. [p.nonces EXCEPT ![t.from] = k] \in [Account -> 0..(MaxNonce + 1)]
  BY <1>2, <1>4 DEF AccountNonces
<1>7. r \in Pools /\ r.pending = p.pending /\ r.queue = p.queue /\ r.all = p.all
  BY <1>2, <1>5, <1>6 DEF Pools
<1>8. Fewer(p, r)
  BY <1>7, PartsFiled
<1>9. QED
  BY <1>1, <1>8

\* Transactions leave the pending list, and the queue, and the lookup.
LEMMA PendingLess ==
    ASSUME NEW p, Filed(p), NEW S
    PROVE  /\ Fewer(p, [p EXCEPT !.pending = @ \ S]) /\ [p EXCEPT !.pending = @ \ S].all = p.all
           /\ Fewer(p, [p EXCEPT !.queue = @ \ S]) /\ [p EXCEPT !.queue = @ \ S].all = p.all
           /\ Fewer(p, [p EXCEPT !.all = @ \ S]) /\ [p EXCEPT !.all = @ \ S].all = p.all \ S
<1>1. p \in Pools
  BY DEF Filed
<1>2. ASSUME NEW q, q = [p EXCEPT !.pending = @ \ S] PROVE Fewer(p, q) /\ q.all = p.all
  <2>1. q \in Pools /\ q.pending \subseteq p.pending /\ q.queue = p.queue /\ q.all = p.all
    BY <1>1, <1>2 DEF Pools
  <2>2. QED
    BY <2>1, PartsFiled
<1>3. ASSUME NEW q, q = [p EXCEPT !.queue = @ \ S] PROVE Fewer(p, q) /\ q.all = p.all
  <2>1. q \in Pools /\ q.pending = p.pending /\ q.queue \subseteq p.queue /\ q.all = p.all
    BY <1>1, <1>3 DEF Pools
  <2>2. QED
    BY <2>1, PartsFiled
<1>4. ASSUME NEW q, q = [p EXCEPT !.all = @ \ S] PROVE Fewer(p, q) /\ q.all = p.all \ S
  <2>1. q \in Pools /\ q.pending = p.pending /\ q.queue = p.queue /\ q.all = p.all \ S
    BY <1>1, <1>4 DEF Pools
  <2>2. QED
    BY <2>1, PartsFiled
<1>5. QED
  BY <1>2, <1>3, <1>4

\* Reservations change.
LEMMA ReleaseFiled ==
    ASSUME NEW p, Filed(p), NEW A
    PROVE  Fewer(p, Release(p, A)) /\ Release(p, A).all = p.all
<1>1. PICK r : r = Release(p, A)
  OBVIOUS
<1>2. p \in Pools
  BY DEF Filed
<1>3. r \in Pools /\ r.pending = p.pending /\ r.queue = p.queue /\ r.all = p.all
  BY <1>1, <1>2, ReleaseFields
<1>4. QED
  BY <1>1, <1>3, PartsFiled

\* RemoveTx takes a transaction from the lookup.
LEMMA RemovedFiled ==
    ASSUME NEW p, Filed(p), NEW t \in Tx, NEW u \in BOOLEAN
    PROVE  Fewer(p, RemoveTx(p, t, u)) /\ t \notin RemoveTx(p, t, u).all
<1>1. CASE t \notin p.all
  <2>1. RemoveTx(p, t, u) = p
    BY <1>1 DEF RemoveTx
  <2>2. QED
    BY <1>1, <2>1 DEF Fewer, Files
<1>2. CASE t \in p.all
  <2>1. PICK q, r : q = RemoveFromLookup(p, t) /\ r = RemoveFromLists(q, t)
    OBVIOUS
  <2>2. Fewer(p, q) /\ q.all = p.all \ {t}
    BY <2>1, PendingLess DEF RemoveFromLookup
  <2>3. Filed(q)
    BY <2>2 DEF Fewer, Files
  <2>4. Fewer(q, r)
    <3>1. CASE At(q.pending, t) # {}
      <4>1. PICK S, s, v : /\ S = At(q.pending, t) \cup After(q, t)
                           /\ s = [q EXCEPT !.pending = @ \ S]
                           /\ v = [s EXCEPT !.nonces[t.from] = Min({@, t.nonce})]
        OBVIOUS
      <4>2. r = Demoted(v, After(q, t))
        <5>1. v = [q EXCEPT !.pending = @ \ S, !.nonces[t.from] = Min({@, t.nonce})]
          BY <4>1, Zenon
        <5>2. v = [q EXCEPT !.pending = @ \ (At(@, t) \cup After(q, t)), !.nonces[t.from] = Min({@, t.nonce})]
          BY <4>1, <5>1
        <5>3. QED
          BY <2>1, <3>1, <5>2 DEF RemoveFromLists
      <4>3. Fewer(q, s)
        BY <2>3, <4>1, PendingLess
      <4>4. Fewer(s, v)
        BY <4>1, <4>3, NonceLowered DEF Fewer, Files
      <4>5. After(q, t) \subseteq q.pending
        BY DEF After, Of
      <4>6. After(q, t) \in SUBSET Tx /\ IsFiniteSet(After(q, t)) /\ Distinct(After(q, t))
        <5>1. q.pending \in SUBSET Tx /\ IsFiniteSet(q.pending) /\ Distinct(q.pending)
          BY <2>3, PoolFields DEF Filed
        <5>2. QED
          BY <4>5, <5>1, FS_Subset DEF Distinct
      <4>7. Fewer(v, r)
        BY <4>2, <4>4, <4>6, DemotedFiled DEF Fewer, Files
      <4>8. QED
        BY <4>3, <4>4, <4>7, FewerTwice
    <3>2. CASE At(q.pending, t) = {}
      <4>1. r = [q EXCEPT !.queue = @ \ At(@, t)]
        BY <2>1, <3>2 DEF RemoveFromLists
      <4>2. r = [q EXCEPT !.queue = @ \ At(q.queue, t)]
        BY <4>1
      <4>3. QED
        BY <2>3, <4>2, PendingLess
    <3>3. QED
      BY <3>1, <3>2
  <2>5. PICK s : s = RemoveTx(p, t, u)
    OBVIOUS
  <2>6. Fewer(r, s)
    <3>1. Filed(r)
      BY <2>4 DEF Fewer, Files
    <3>2. s = r \/ s = Release(r, {t.from})
      BY <1>2, <2>1, <2>5 DEF RemoveTx
    <3>3. Fewer(r, r)
      BY <3>1 DEF Fewer, Files
    <3>4. QED
      BY <3>1, <3>2, <3>3, ReleaseFiled
  <2>7. Fewer(q, s)
    BY <2>4, <2>6, FewerTwice
  <2>8. Fewer(p, s) /\ t \notin s.all
    BY <2>2, <2>7, FewerTwice DEF Fewer, Files
  <2>9. QED
    BY <2>5, <2>8
<1>3. QED
  BY <1>1, <1>2

\* Several transactions are removed.
LEMMA RemovedAllFiled ==
    ASSUME NEW p, Filed(p), NEW T \in SUBSET Tx, IsFiniteSet(T)
    PROVE  Fewer(p, RemoveTxs(p, T))
<1>1. PICK G : G = {q \in Pools : Fewer(p, q)}
  OBVIOUS
<1>2. p \in G
  BY <1>1 DEF Fewer, Files, Filed
<1>3. ASSUME NEW t \in T, NEW q \in G PROVE RemoveTx(q, t, TRUE) \in G
  <2>1. Fewer(p, q) /\ Filed(q)
    BY <1>1 DEF Fewer, Files
  <2>2. Fewer(q, RemoveTx(q, t, TRUE))
    BY <2>1, RemovedFiled
  <2>3. Fewer(p, RemoveTx(q, t, TRUE))
    BY <2>1, <2>2, FewerTwice
  <2>4. RemoveTx(q, t, TRUE) \in Pools
    BY <2>3 DEF Fewer, Files, Filed
  <2>5. QED
    BY <1>1, <2>3, <2>4
<1>4. RemoveTxs(p, T) \in G
  BY <1>1, <1>2, <1>3, RemoveFold
<1>5. QED
  BY <1>1, <1>4

\* truncateQueue.
LEMMA QueueTruncatedFiled ==
    ASSUME NEW p, Filed(p), NEW order \in SetToSeqs(Account)
    PROVE  Fewer(p, TruncateQueue(p, order))
<1>1. PICK G : G = {q \in Pools : Fewer(p, q)}
  OBVIOUS
<1>2. p \in G
  BY <1>1 DEF Fewer, Files, Filed
<1>3. ASSUME NEW q \in G, NEW T \in SUBSET q.queue
      PROVE  IsFiniteSet(q.queue) /\ RemoveTxs(q, T) \in G
  <2>1. Fewer(p, q) /\ Filed(q) /\ IsFiniteSet(q.queue) /\ q.queue \in SUBSET Tx
    BY <1>1, PoolFields DEF Fewer, Files, Filed
  <2>2. IsFiniteSet(T) /\ T \in SUBSET Tx
    BY <2>1, FS_Subset
  <2>3. Fewer(q, RemoveTxs(q, T))
    BY <2>1, <2>2, RemovedAllFiled
  <2>4. Fewer(p, RemoveTxs(q, T))
    BY <2>1, <2>3, FewerTwice
  <2>5. RemoveTxs(q, T) \in Pools
    BY <2>4 DEF Fewer, Files, Filed
  <2>6. QED
    BY <1>1, <2>1, <2>4, <2>5
<1>4. TrimsInto(G)
  BY <1>3 DEF TrimsInto
<1>5. TruncateQueue(p, order) \in G
  BY <1>1, <1>2, <1>4, QueueFold
<1>6. QED
  BY <1>1, <1>5

\* promoteExecutables for one account.
LEMMA PromotedFiled ==
    ASSUME NEW p, Filed(p), NEW a \in Account, NEW n, NEW b
    PROVE  Files(p, PromoteAccount(p, a, n, b))
<1>1. CASE Of(p.queue, a) = {}
  <2>1. PromoteAccount(p, a, n, b) = p
    BY <1>1 DEF PromoteAccount
  <2>2. QED
    BY <2>1 DEF Files
<1>2. CASE Of(p.queue, a) # {}
  <2>1. /\ p \in Pools /\ p.pending \in SUBSET Tx /\ p.queue \in SUBSET Tx /\ p.all \in SUBSET Tx
        /\ p.nonces \in AccountNonces
    BY PoolFields DEF Filed
  <2>2. PICK K, R, I, C, X, k : /\ K = Kept(p, a, n, b) /\ R = Ready(K, p.nonces[a])
                                /\ I = Inserted(p.pending, R) /\ C = Beyond(K \ R, AccountQueue)
                                /\ X = (Of(p.queue, a) \ K) \cup C \cup (R \ I) \cup Replaced(p.pending, R)
                                /\ k = NonceAfter(I, p.nonces[a])
    OBVIOUS
  <2>3. PICK q : q = [p EXCEPT !.pending = Listed(@, R), !.queue = @ \ (X \cup R), !.all = @ \ X, !.nonces[a] = k]
    OBVIOUS
  <2>4. PromoteAccount(p, a, n, b) = Release(q, {a})
    <3>1. q = [p EXCEPT !.pending = Listed(@, R), !.queue = @ \ (X \cup R), !.all = @ \ X,
                        !.nonces[a] = IF I = {} THEN @ ELSE Max({t.nonce : t \in I}) + 1]
      BY <2>2, <2>3 DEF NonceAfter
    <3>2. QED
      BY <1>2, <2>2, <3>1 DEF PromoteAccount, Kept
  <2>5. R \subseteq p.queue /\ I \subseteq R
    <3>1. R \subseteq K
      BY <2>2 DEF Ready
    <3>2. QED
      BY <2>2, <3>1 DEF Kept, Of, Inserted
  <2>6. R \in SUBSET Tx /\ I \in SUBSET Tx /\ IsFiniteSet(R) /\ Distinct(R)
    BY <2>1, <2>5, FS_Subset DEF Filed, Distinct
  <2>7. k \in 0..(MaxNonce + 1)
    BY <2>1, <2>2, <2>6, NonceAfterType DEF AccountNonces
  <2>8. PICK L, Q, M, N : /\ L = Listed(p.pending, R) /\ Q = p.queue \ (X \cup R) /\ M = p.all \ X
                          /\ N = [p.nonces EXCEPT ![a] = k]
    OBVIOUS
  <2>9. L \in SUBSET Tx /\ IsFiniteSet(L) /\ Distinct(L)
    BY <2>1, <2>6, <2>8, ListedFiled DEF Filed
  <2>10. N \in [Account -> 0..(MaxNonce + 1)]
    BY <2>1, <2>7, <2>8 DEF AccountNonces
  <2>11. q = [p EXCEPT !.pending = L, !.queue = Q, !.all = M, !.nonces = N]
    BY <2>3, <2>8, Zenon
  <2>12. q \in Pools /\ q.pending = L /\ q.queue = Q /\ q.all = M
    BY <2>1, <2>8, <2>9, <2>10, <2>11 DEF Pools
  <2>13. Q \subseteq p.queue /\ M \subseteq p.all
    BY <2>8
  <2>14. IsFiniteSet(Q) /\ IsFiniteSet(M) /\ Distinct(Q)
    BY <2>13, FS_Subset DEF Filed, Distinct
  <2>15. Filed(q) /\ q.all \subseteq p.all
    BY <2>9, <2>12, <2>13, <2>14 DEF Filed
  <2>16. QED
    BY <2>4, <2>15, ReleaseFiled DEF Files, Fewer
<1>3. QED
  BY <1>1, <1>2

\* promoteExecutables.
LEMMA PromotedAllFiled ==
    ASSUME NEW p, Filed(p), NEW D \in SUBSET Account, NEW n, NEW b
    PROVE  Files(p, PromoteExecutables(p, D, n, b))
<1>1. PICK G : G = {x \in (SUBSET D) \X Pools : Files(p, x[2])}
  OBVIOUS
<1>2. p \in Pools
  BY DEF Filed
<1>3. \A s \in SUBSET D : \A q \in Pools : <<s, q>> \in G <=> Files(p, q)
  BY <1>1
<1>4. <<{}, p>> \in G
  <2>1. Files(p, p) /\ {} \in SUBSET D
    BY DEF Files
  <2>2. QED
    BY <1>2, <1>3, <2>1
<1>5. PromotesInto(G, D, n, b)
  <2>1. SUFFICES ASSUME NEW s \in SUBSET D, NEW a \in D \ s, NEW q \in Pools, <<s, q>> \in G
                 PROVE  <<s \cup {a}, PromoteAccount(q, a, n, b)>> \in G
    BY DEF PromotesInto
  <2>2. Files(p, q) /\ a \in Account
    BY <1>3, <2>1
  <2>3. Files(q, PromoteAccount(q, a, n, b))
    BY <2>2, PromotedFiled DEF Files
  <2>4. Files(p, PromoteAccount(q, a, n, b)) /\ PromoteAccount(q, a, n, b) \in Pools
    BY <2>2, <2>3 DEF Files, Filed
  <2>5. s \cup {a} \in SUBSET D
    OBVIOUS
  <2>6. QED
    BY <1>3, <2>4, <2>5
<1>6. G \in SUBSET ((SUBSET D) \X Pools)
  BY <1>1
<1>7. <<D, PromoteExecutables(p, D, n, b)>> \in G
  BY <1>2, <1>4, <1>5, <1>6, PromoteFold
<1>8. QED
  BY <1>1, <1>7

\* demoteUnexecutables for one account.
LEMMA DemotedOneFiled ==
    ASSUME NEW p, Filed(p), NEW a, NEW n, NEW b
    PROVE  Fewer(p, DemoteAccount(p, a, n, b))
<1>1. CASE Of(p.pending, a) = {}
  <2>1. DemoteAccount(p, a, n, b) = p
    BY <1>1 DEF DemoteAccount
  <2>2. QED
    BY <2>1 DEF Fewer, Files
<1>2. CASE Of(p.pending, a) # {}
  <2>1. PICK V, W, S, X : /\ V = Invalids(p, a, n, b) /\ W = GappedOf(p, a, n, b)
                          /\ S = Of(p.pending, a) \ (Rest(p, a, n, b) \ W)
                          /\ X = (Of(p.pending, a) \ Live(p, a, n)) \cup Drops(p, a, n, b)
    OBVIOUS
  <2>2. PICK s, q : s = [p EXCEPT !.pending = @ \ S] /\ q = [s EXCEPT !.all = @ \ X]
    OBVIOUS
  <2>3. q = [p EXCEPT !.pending = @ \ S, !.all = @ \ X]
    BY <2>2, Zenon
  <2>4. DemoteAccount(p, a, n, b) = Release(Demoted(Demoted(q, V), W), {a})
    BY <1>2, <2>1, <2>3 DEF DemoteAccount, Invalids, GappedOf, Rest, Drops, Live
  <2>5. V \subseteq p.pending /\ W \subseteq p.pending
    BY <2>1 DEF Invalids, GappedOf, Rest, Drops, Live, Of
  <2>6. /\ V \in SUBSET Tx /\ IsFiniteSet(V) /\ Distinct(V)
        /\ W \in SUBSET Tx /\ IsFiniteSet(W) /\ Distinct(W)
    <3>1. p.pending \in SUBSET Tx /\ IsFiniteSet(p.pending) /\ Distinct(p.pending)
      BY PoolFields DEF Filed
    <3>2. QED
      BY <2>5, <3>1, FS_Subset DEF Distinct
  <2>7. Fewer(p, s)
    BY <2>2, PendingLess
  <2>8. Fewer(s, q)
    BY <2>2, <2>7, PendingLess DEF Fewer, Files
  <2>9. Fewer(p, q)
    BY <2>7, <2>8, FewerTwice
  <2>10. PICK u, v : u = Demoted(q, V) /\ v = Demoted(u, W)
    OBVIOUS
  <2>11. Fewer(q, u)
    BY <2>6, <2>9, <2>10, DemotedFiled DEF Fewer, Files
  <2>12. Fewer(u, v)
    BY <2>6, <2>10, <2>11, DemotedFiled DEF Fewer, Files
  <2>13. Fewer(v, Release(v, {a}))
    BY <2>12, ReleaseFiled DEF Fewer, Files
  <2>14. Fewer(p, Release(v, {a}))
    BY <2>9, <2>11, <2>12, <2>13, FewerTwice
  <2>15. QED
    BY <2>4, <2>10, <2>14
<1>3. QED
  BY <1>1, <1>2

\* demoteUnexecutables.
LEMMA DemotedAllFiled ==
    ASSUME NEW p, Filed(p), NEW n, NEW b
    PROVE  Fewer(p, DemoteUnexecutables(p, n, b))
<1>1. PICK D, G : D = Account /\ G = {x \in (SUBSET D) \X Pools : Fewer(p, x[2])}
  OBVIOUS
<1>2. p \in Pools
  BY DEF Filed
<1>3. \A s \in SUBSET D : \A q \in Pools : <<s, q>> \in G <=> Fewer(p, q)
  BY <1>1
<1>4. <<{}, p>> \in G
  <2>1. Fewer(p, p) /\ {} \in SUBSET D
    BY DEF Fewer, Files
  <2>2. QED
    BY <1>2, <1>3, <2>1
<1>5. DemotesInto(G, D, n, b)
  <2>1. SUFFICES ASSUME NEW s \in SUBSET D, NEW a \in D \ s, NEW q \in Pools, <<s, q>> \in G
                 PROVE  <<s \cup {a}, DemoteAccount(q, a, n, b)>> \in G
    BY DEF DemotesInto
  <2>2. Fewer(p, q)
    BY <1>3, <2>1
  <2>3. Fewer(q, DemoteAccount(q, a, n, b))
    BY <2>2, DemotedOneFiled DEF Fewer, Files
  <2>4. Fewer(p, DemoteAccount(q, a, n, b)) /\ DemoteAccount(q, a, n, b) \in Pools
    BY <2>2, <2>3, FewerTwice DEF Fewer, Files, Filed
  <2>5. s \cup {a} \in SUBSET D
    OBVIOUS
  <2>6. QED
    BY <1>3, <2>4, <2>5
<1>6. G \in SUBSET ((SUBSET D) \X Pools)
  BY <1>1
<1>7. <<D, DemoteUnexecutables(p, n, b)>> \in G
  BY <1>1, <1>2, <1>4, <1>5, <1>6, DemoteFold
<1>8. QED
  BY <1>1, <1>7

\* The virtual nonces are set.
LEMMA NoncesSetFiled ==
    ASSUME NEW p, Filed(p), NEW n \in AccountNonces
    PROVE  Fewer(p, SetAllNonces(p, n)) /\ Fewer(p, [p EXCEPT !.nonces = n])
<1>1. p \in Pools /\ p.pending \in SUBSET Tx
  BY PoolFields DEF Filed
<1>2. ASSUME NEW N \in AccountNonces PROVE Fewer(p, [p EXCEPT !.nonces = N])
  <2>1. PICK q : q = [p EXCEPT !.nonces = N]
    OBVIOUS
  <2>2. q \in Pools /\ q.pending = p.pending /\ q.queue = p.queue /\ q.all = p.all
    BY <1>1, <2>1 DEF Pools, AccountNonces
  <2>3. Fewer(p, q)
    BY <2>2, PartsFiled
  <2>4. QED
    BY <2>1, <2>3
<1>3. PICK N : N = [a \in Account |->
                      IF Of(p.pending, a) = {} THEN n[a] ELSE Max(NoncesOf(p.pending, a)) + 1]
  OBVIOUS
<1>4. ASSUME NEW a \in Account PROVE N[a] \in 0..(MaxNonce + 1)
  <2>1. Of(p.pending, a) \in SUBSET Tx /\ n[a] \in 0..(MaxNonce + 1)
    BY <1>1 DEF Of, AccountNonces
  <2>2. NonceAfter(Of(p.pending, a), n[a]) \in 0..(MaxNonce + 1)
    BY <2>1, NonceAfterType
  <2>3. N[a] = NonceAfter(Of(p.pending, a), n[a])
    BY <1>3 DEF NonceAfter, NoncesOf
  <2>4. QED
    BY <2>2, <2>3
<1>5. N \in AccountNonces
  BY <1>3, <1>4 DEF AccountNonces
<1>6. SetAllNonces(p, n) = [p EXCEPT !.nonces = N]
  BY <1>3 DEF SetAllNonces
<1>7. QED
  BY <1>2, <1>5, <1>6

\* The place of a transaction among those of its account.
Place(S, t) == Cardinality({u \in S : u.nonce < t.nonce})

\* The transactions of an account have different places.
LEMMA PlaceFacts ==
    ASSUME NEW S \in SUBSET Tx, IsFiniteSet(S), Distinct(S), NEW a, \A u \in S : u.from = a, NEW t \in S
    PROVE  /\ Place(S, t) \in Nat /\ Cardinality(S) \in Nat /\ Place(S, t) < Cardinality(S)
           /\ \A u \in S : Place(S, u) = Place(S, t) => u = t
<1>1. ASSUME NEW u \in S
      PROVE  /\ IsFiniteSet({v \in S : v.nonce < u.nonce}) /\ Place(S, u) \in Nat /\ u.nonce \in Nat
             /\ IsFiniteSet({v \in S : v.nonce < u.nonce} \cup {u})
             /\ Cardinality({v \in S : v.nonce < u.nonce} \cup {u}) = Place(S, u) + 1
  <2>1. PICK L : L = {v \in S : v.nonce < u.nonce}
    OBVIOUS
  <2>2. u.nonce \in Nat /\ u \notin L /\ L \subseteq S
    BY <2>1, TxFields
  <2>3. IsFiniteSet(L) /\ Cardinality(L) \in Nat
    BY <2>2, FS_Subset, FS_CardinalityType
  <2>4. IsFiniteSet(L \cup {u}) /\ Cardinality(L \cup {u}) = Cardinality(L) + 1
    BY <2>2, <2>3, FS_AddElement
  <2>5. QED
    BY <2>1, <2>2, <2>3, <2>4 DEF Place
<1>2. ASSUME NEW u \in S, NEW v \in S, u.nonce < v.nonce PROVE Place(S, u) < Place(S, v)
  <2>1. PICK L, M : L = {x \in S : x.nonce < u.nonce} \cup {u} /\ M = {x \in S : x.nonce < v.nonce}
    OBVIOUS
  <2>2. \A x \in S : x.nonce \in Nat
    BY TxFields
  <2>3. L \subseteq M
    BY <1>2, <2>1, <2>2
  <2>4. IsFiniteSet(M) /\ Cardinality(M) = Place(S, v) /\ Cardinality(L) = Place(S, u) + 1
    BY <1>1, <2>1 DEF Place
  <2>5. Cardinality(L) <= Cardinality(M)
    BY <2>3, <2>4, FS_Subset
  <2>6. Place(S, u) \in Nat /\ Place(S, v) \in Nat
    BY <1>1
  <2>7. QED
    BY <2>4, <2>5, <2>6
<1>3. Place(S, t) < Cardinality(S) /\ Cardinality(S) \in Nat
  <2>1. PICK L : L = {x \in S : x.nonce < t.nonce} \cup {t}
    OBVIOUS
  <2>2. L \subseteq S /\ Cardinality(L) = Place(S, t) + 1 /\ Place(S, t) \in Nat
    BY <1>1, <2>1
  <2>3. Cardinality(L) <= Cardinality(S) /\ Cardinality(S) \in Nat
    BY <2>2, FS_Subset, FS_CardinalityType
  <2>4. QED
    BY <2>2, <2>3
<1>4. ASSUME NEW u \in S, Place(S, u) = Place(S, t) PROVE u = t
  <2>1. Place(S, u) \in Nat /\ u.nonce \in Nat /\ t.nonce \in Nat
    BY <1>1
  <2>2. u.nonce = t.nonce
    <3>1. CASE u.nonce < t.nonce
      <4>1. Place(S, u) < Place(S, t)
        BY <1>2, <3>1
      <4>2. QED
        BY <1>4, <2>1, <4>1
    <3>2. CASE t.nonce < u.nonce
      <4>1. Place(S, t) < Place(S, u)
        BY <1>2, <3>2
      <4>2. QED
        BY <1>4, <2>1, <4>1
    <3>3. QED
      BY <2>1, <3>1, <3>2
  <2>3. QED
    BY <2>2 DEF Distinct
<1>5. QED
  BY <1>1, <1>3, <1>4

\* What is left of the pending lists when each is cut at a level: few enough of each
\* account, and of all of them.
LEMMA CutSize ==
    ASSUME NEW p, Filed(p), NEW l \in Nat, NEW R, R = {t \in p.pending : ~(Place(Of(p.pending, t.from), t) >= l)}
    PROVE  /\ IsFiniteSet(R) /\ SizeAt(p, l) \in Nat /\ Cardinality(R) <= SizeAt(p, l)
           /\ \A a \in Account : Cardinality(Of(R, a)) <= l
<1>1. p.pending \in SUBSET Tx /\ IsFiniteSet(p.pending) /\ Distinct(p.pending) /\ IsFiniteSet(Account)
  BY PoolFields, LegacyPoolAssumption DEF Filed
<1>2. ASSUME NEW a
      PROVE  /\ Of(p.pending, a) \in SUBSET Tx /\ IsFiniteSet(Of(p.pending, a)) /\ Distinct(Of(p.pending, a))
             /\ \A u \in Of(p.pending, a) : u.from = a
  <2>1. Of(p.pending, a) \subseteq p.pending /\ \A u \in Of(p.pending, a) : u.from = a
    BY DEF Of
  <2>2. QED
    BY <1>1, <2>1, FS_Subset DEF Distinct
<1>3. PICK f : f = SizeOf(p, l)
  OBVIOUS
<1>4. ASSUME NEW a \in Account
      PROVE  /\ f[a] = IF Cardinality(Of(p.pending, a)) <= l THEN Cardinality(Of(p.pending, a)) ELSE l
             /\ f[a] \in Nat
  <2>1. PICK k : k = Cardinality(Of(p.pending, a))
    OBVIOUS
  <2>2. k \in Nat /\ f[a] = Min({k, l})
    BY <1>2, <1>3, <2>1, FS_CardinalityType DEF SizeOf
  <2>3. Min({k, l}) = IF k <= l THEN k ELSE l
    BY <2>2, MinOfTwo
  <2>4. QED
    BY <2>1, <2>2, <2>3
<1>5. ASSUME NEW t \in R
      PROVE  /\ t \in p.pending /\ t.from \in Account /\ t \in Of(p.pending, t.from)
             /\ Place(Of(p.pending, t.from), t) \in 0..(f[t.from] - 1)
             /\ Place(Of(p.pending, t.from), t) \in 0..(l - 1)
  <2>1. t \in p.pending /\ ~(Place(Of(p.pending, t.from), t) >= l)
    OBVIOUS
  <2>2. t.from \in Account /\ t \in Of(p.pending, t.from)
    BY <1>1, <2>1, TxFields DEF Of
  <2>3. PICK i, k : i = Place(Of(p.pending, t.from), t) /\ k = Cardinality(Of(p.pending, t.from))
    OBVIOUS
  <2>4. i \in Nat /\ k \in Nat /\ i < k
    BY <1>2, <2>2, <2>3, PlaceFacts
  <2>5. f[t.from] = IF k <= l THEN k ELSE l
    BY <1>4, <2>2, <2>3
  <2>6. i \in 0..(f[t.from] - 1) /\ i \in 0..(l - 1)
    BY <2>1, <2>3, <2>4, <2>5
  <2>7. QED
    BY <2>1, <2>2, <2>3, <2>6
<1>6. ASSUME NEW t \in R, NEW u \in R, t.from = u.from,
             Place(Of(p.pending, t.from), t) = Place(Of(p.pending, u.from), u)
      PROVE  t = u
  <2>1. PICK S : S = Of(p.pending, t.from)
    OBVIOUS
  <2>2. t \in S /\ u \in S /\ Place(S, t) = Place(S, u)
    BY <1>5, <1>6, <2>1
  <2>3. QED
    BY <1>2, <2>1, <2>2, PlaceFacts
<1>7. PICK T : T = CellsOn(Account, f)
  OBVIOUS
<1>8. IsFiniteSet(T) /\ SumOn(Account, f) \in Nat /\ SumOn(Account, f) = Cardinality(T)
  BY <1>1, <1>4, <1>7, SumOnType DEF SumOn
<1>9. SizeAt(p, l) = SumOn(Account, f)
  BY <1>3, <1>4, SizeIsSum
<1>10. IsFiniteSet(R) /\ Cardinality(R) <= Cardinality(T)
  <2>1. PICK g : g = [t \in R |-> <<t.from, Place(Of(p.pending, t.from), t)>>]
    OBVIOUS
  <2>2. \A t \in R : g[t] \in T
    BY <1>5, <1>7, <2>1 DEF CellsOn, Column
  <2>3. \A t, u \in R : g[t] = g[u] => t = u
    BY <1>6, <2>1
  <2>4. g \in [R -> T]
    BY <2>1, <2>2
  <2>5. g \in Injection(R, T)
    BY <2>3, <2>4 DEF Injection, IsInjective
  <2>6. QED
    BY <1>8, <2>5, FS_Injection
<1>11. ASSUME NEW a \in Account PROVE Cardinality(Of(R, a)) <= l
  <2>1. PICK S, g, I : S = Of(R, a) /\ g = [t \in S |-> Place(Of(p.pending, t.from), t)] /\ I = 0..(l - 1)
    OBVIOUS
  <2>2. \A t \in S : t \in R /\ t.from = a
    BY <2>1 DEF Of
  <2>3. \A t \in S : g[t] \in I
    BY <1>5, <2>1, <2>2
  <2>4. \A t, u \in S : g[t] = g[u] => t = u
    BY <1>6, <2>1, <2>2
  <2>5. g \in [S -> I]
    BY <2>1, <2>3
  <2>6. g \in Injection(S, I)
    BY <2>4, <2>5 DEF Injection, IsInjective
  <2>7. IsFiniteSet(I) /\ Cardinality(I) = l
    BY <2>1, FS_Interval
  <2>8. QED
    BY <2>1, <2>6, <2>7, FS_Injection
<1>12. QED
  BY <1>8, <1>9, <1>10, <1>11

\* truncatePending.
LEMMA PendingTruncatedFiled ==
    ASSUME NEW p, Filed(p)
    PROVE  Fewer(p, TruncatePending(p)) /\ PendingLimit(TruncatePending(p))
<1>1. CASE Cardinality(p.pending) <= GlobalSlots
  <2>1. TruncatePending(p) = p
    BY <1>1 DEF TruncatePending
  <2>2. QED
    BY <1>1, <2>1 DEF Fewer, Files, PendingLimit
<1>2. CASE ~(Cardinality(p.pending) <= GlobalSlots)
  <2>1. /\ p \in Pools /\ p.pending \in SUBSET Tx /\ p.all \in SUBSET Tx /\ p.nonces \in AccountNonces
        /\ IsFiniteSet(p.pending)
    BY PoolFields DEF Filed
  <2>2. PICK r, l, C : r = TruncatePending(p) /\ l = Level(p)
                       /\ C = UNION {Beyond(Of(p.pending, a), Level(p)) : a \in Account}
    BY Zenon
  <2>3. /\ l \in Nat /\ AccountSlots \in Nat /\ GlobalSlots \in Nat
        /\ l # AccountSlots => SizeAt(p, l) <= GlobalSlots
    BY <2>1, <2>2, LevelFacts
  <2>4. PICK N : N = [a \in Account |-> Min({p.nonces[a]} \cup NoncesOf(C, a))]
    BY Zenon
  <2>5. r = [p EXCEPT !.pending = p.pending \ C, !.all = p.all \ C, !.nonces = N]
    <3>1. [p EXCEPT !.pending = @ \ C, !.all = @ \ C, !.nonces = [a \in Account |-> Min({@[a]} \cup NoncesOf(C, a))]]
              = [p EXCEPT !.pending = p.pending \ C, !.all = p.all \ C, !.nonces = N]
      BY <2>4, Zenon
    <3>2. r = [p EXCEPT !.pending = @ \ C, !.all = @ \ C, !.nonces = [a \in Account |-> Min({@[a]} \cup NoncesOf(C, a))]]
      BY <1>2, <2>2 DEF TruncatePending
    <3>3. QED
      BY <3>1, <3>2
  <2>6. C \subseteq p.pending
    BY <2>2 DEF Beyond, Of
  <2>7. ASSUME NEW a \in Account PROVE N[a] \in 0..(MaxNonce + 1)
    <3>1. PICK M : M = {p.nonces[a]} \cup NoncesOf(C, a)
      OBVIOUS
    <3>2. p.nonces[a] \in 0..(MaxNonce + 1) /\ MaxNonce \in Nat
      BY <2>1, LegacyPoolAssumption DEF AccountNonces
    <3>3. \A t \in C : t.nonce \in 0..(MaxNonce + 1)
      <4>1. \A t \in C : t.nonce \in Nat /\ t.nonce <= MaxNonce
        BY <2>1, <2>6, TxFields
      <4>2. QED
        BY <3>2, <4>1
    <3>4. M \subseteq 0..(MaxNonce + 1) /\ M # {}
      BY <3>1, <3>2, <3>3, OfFacts
    <3>5. M \in SUBSET Nat
      BY <3>2, <3>4
    <3>6. Min(M) \in M
      BY <3>4, <3>5, FirstIndex
    <3>7. QED
      BY <2>4, <3>1, <3>4, <3>6
  <2>8. N \in [Account -> 0..(MaxNonce + 1)]
    BY <2>4, <2>7
  <2>9. r \in Pools /\ r.pending = p.pending \ C /\ r.queue = p.queue /\ r.all = p.all \ C
    BY <2>1, <2>5, <2>8 DEF Pools
  <2>10. Fewer(p, r)
    BY <2>9, PartsFiled
  <2>11. PICK R : R = {t \in p.pending : ~(Place(Of(p.pending, t.from), t) >= l)}
    OBVIOUS
  <2>12. r.pending = R
    <3>1. \A t \in p.pending : t.from \in Account
      BY <2>1, TxFields
    <3>2. ASSUME NEW t \in p.pending PROVE t \in C <=> Place(Of(p.pending, t.from), t) >= l
      <4>1. \A a : t \in Beyond(Of(p.pending, a), l) <=> t \in Of(p.pending, a) /\ Place(Of(p.pending, a), t) >= l
        BY DEF Beyond, Place
      <4>2. \A a : t \in Of(p.pending, a) <=> t.from = a
        BY DEF Of
      <4>3. t \in C <=> \E a \in Account : t \in Beyond(Of(p.pending, a), l)
        BY <2>2
      <4>4. QED
        BY <3>1, <4>1, <4>2, <4>3
    <3>3. QED
      BY <2>9, <2>11, <3>2
  <2>13. /\ IsFiniteSet(R) /\ SizeAt(p, l) \in Nat /\ Cardinality(R) <= SizeAt(p, l)
         /\ \A a \in Account : Cardinality(Of(R, a)) <= l
    BY <2>3, <2>11, CutSize
  <2>14. PendingLimit(r)
    <3>1. CASE l = AccountSlots
      BY <2>12, <2>13, <3>1 DEF PendingLimit
    <3>2. CASE l # AccountSlots
      <4>1. Cardinality(R) \in Nat
        BY <2>13, FS_CardinalityType
      <4>2. Cardinality(R) <= GlobalSlots
        BY <2>3, <2>13, <3>2, <4>1
      <4>3. QED
        BY <2>12, <4>2 DEF PendingLimit
    <3>3. QED
      BY <3>1, <3>2
  <2>15. QED
    BY <2>2, <2>10, <2>14
<1>3. QED
  BY <1>1, <1>2

\* Fewer pending transactions keep the limit.
LEMMA SmallerPending ==
    ASSUME NEW p, Filed(p), NEW r, r.pending \subseteq p.pending, PendingLimit(p)
    PROVE  PendingLimit(r)
<1>1. IsFiniteSet(p.pending)
  BY DEF Filed
<1>2. GlobalSlots \in Nat /\ AccountSlots \in Nat
  BY LegacyPoolAssumption
<1>3. IsFiniteSet(r.pending) /\ Cardinality(r.pending) <= Cardinality(p.pending)
  BY <1>1, FS_Subset
<1>4. CASE Cardinality(p.pending) <= GlobalSlots
  <2>1. Cardinality(r.pending) \in Nat /\ Cardinality(p.pending) \in Nat
    BY <1>1, <1>3, FS_CardinalityType
  <2>2. QED
    BY <1>2, <1>3, <1>4, <2>1 DEF PendingLimit
<1>5. CASE \A a \in Account : Cardinality(Of(p.pending, a)) <= AccountSlots
  <2>1. SUFFICES ASSUME NEW a \in Account PROVE Cardinality(Of(r.pending, a)) <= AccountSlots
    BY DEF PendingLimit
  <2>2. Of(r.pending, a) \subseteq Of(p.pending, a) /\ Of(p.pending, a) \subseteq p.pending
    BY DEF Of
  <2>3. IsFiniteSet(Of(p.pending, a))
    BY <1>1, <2>2, FS_Subset
  <2>4. IsFiniteSet(Of(r.pending, a)) /\ Cardinality(Of(r.pending, a)) <= Cardinality(Of(p.pending, a))
    BY <2>2, <2>3, FS_Subset
  <2>5. Cardinality(Of(r.pending, a)) \in Nat /\ Cardinality(Of(p.pending, a)) \in Nat
    BY <2>3, <2>4, FS_CardinalityType
  <2>6. QED
    BY <1>2, <1>5, <2>4, <2>5
<1>6. QED
  BY <1>4, <1>5 DEF PendingLimit

\* The two truncations.
LEMMA TruncatedFiled ==
    ASSUME NEW p, Filed(p), NEW r \in Truncated(p)
    PROVE  Fewer(p, r) /\ PendingLimit(r)
<1>1. PICK q : q = TruncatePending(p)
  OBVIOUS
<1>2. PICK order \in SetToSeqs(Account) : r = TruncateQueue(q, order)
  BY <1>1 DEF Truncated
<1>3. Fewer(p, q) /\ PendingLimit(q) /\ Filed(q)
  BY <1>1, PendingTruncatedFiled DEF Fewer, Files
<1>4. Fewer(q, r)
  BY <1>2, <1>3, QueueTruncatedFiled
<1>5. PendingLimit(r)
  BY <1>3, <1>4, SmallerPending DEF Fewer
<1>6. QED
  BY <1>3, <1>4, <1>5, FewerTwice

\* What truncatePending does.
CutsPending(p, r, gone, n, b) ==
    /\ Sound(r, gone, n, b) /\ PendingLimit(r)
    /\ r.queue = p.queue /\ r.all \subseteq p.all

\* truncatePending leaves a sound pool within the limit.
LEMMA PendingTruncated ==
    ASSUME NEW p, NEW gone, NEW n \in AccountNonces, NEW b, Sound(p, gone, n, b)
    PROVE  CutsPending(p, TruncatePending(p), gone, n, b)
<1>1. Agree(p, gone) /\ Contiguous(p, n) /\ IsFiniteSet(p.pending)
  BY DEF Sound, Agree
<1>2. CASE Cardinality(p.pending) <= GlobalSlots
  <2>1. TruncatePending(p) = p
    BY <1>2 DEF TruncatePending
  <2>2. CutsPending(p, p, gone, n, b)
    BY <1>2 DEF CutsPending, PendingLimit
  <2>3. QED
    BY <2>1, <2>2
<1>3. CASE ~(Cardinality(p.pending) <= GlobalSlots)
  <2>1. PICK r, l : r = TruncatePending(p) /\ l = Level(p)
    OBVIOUS
  <2>2. /\ l \in Nat /\ AccountSlots \in Nat /\ AccountSlots >= 1 /\ l >= AccountSlots
        /\ GlobalSlots \in Nat
        /\ l # AccountSlots => SizeAt(p, l) <= GlobalSlots
    BY <1>1, <2>1, LevelFacts
  <2>3. CutsAt(p, r, n, l)
    BY <1>1, <1>3, <2>1, PendingCut
  <2>4. l >= 1
    BY <2>2
  <2>5. Sound(r, gone, n, b)
    BY <2>2, <2>3, <2>4, CutSound
  <2>6. r.queue = p.queue /\ r.all \subseteq p.all
    BY <2>3 DEF CutsAt
  <2>7. PendingLimit(r)
    BY <1>1, <2>1, AgreeFiled, PendingTruncatedFiled
  <2>8. QED
    BY <2>1, <2>5, <2>6, <2>7 DEF CutsPending
<1>4. QED
  BY <1>2, <1>3

\* What the two truncations do.
Truncates(p, r, gone, n, b) ==
    /\ Sound(r, gone, n, b) /\ PendingLimit(r)
    /\ r.queue \subseteq p.queue /\ r.all \subseteq p.all

\* The truncations leave a sound pool within the limit.
LEMMA TruncatedSound ==
    ASSUME NEW p, NEW gone, NEW n \in AccountNonces, NEW b, Sound(p, gone, n, b), NEW r \in Truncated(p)
    PROVE  Truncates(p, r, gone, n, b)
<1>1. PICK q : q = TruncatePending(p)
  OBVIOUS
<1>2. CutsPending(p, q, gone, n, b)
  BY <1>1, PendingTruncated
<1>3. PICK order \in SetToSeqs(Account) : r = TruncateQueue(q, order)
  BY <1>1 DEF Truncated
<1>4. Sound(q, gone, n, b) /\ PendingLimit(q) /\ q.queue = p.queue /\ q.all \subseteq p.all
  BY <1>2 DEF CutsPending
<1>5. Trims(q, r, gone)
  <2>1. Agree(q, gone) /\ Held(q, {})
    BY <1>4 DEF Sound
  <2>2. Trims(q, TruncateQueue(q, order), gone)
    BY <2>1, QueueTruncated
  <2>3. QED
    BY <1>3, <2>2
<1>6. /\ Agree(r, gone) /\ Held(r, {}) /\ r.pending = q.pending /\ r.nonces = q.nonces
      /\ r.queue \subseteq q.queue /\ r.all \subseteq q.all
  BY <1>5 DEF Trims
<1>7. Contiguous(r, n) /\ Paid(r, b) /\ PendingLimit(r)
  BY <1>4, <1>6 DEF Sound, Contiguous, Paid, PendingLimit
<1>8. QED
  BY <1>4, <1>6, <1>7 DEF Truncates, Sound

\* The virtual nonces after a new head follow the pending transactions.
LEMMA AllNoncesSet ==
    ASSUME NEW p, NEW gone, Agree(p, gone), Held(p, {}), NEW n \in AccountNonces, NEW b, Paid(p, b),
           Closed(p, n), \A t \in p.pending : t.nonce >= n[t.from]
    PROVE  /\ Sound(SetAllNonces(p, n), gone, n, b)
           /\ SetAllNonces(p, n).queue = p.queue /\ SetAllNonces(p, n).all = p.all
<1>1. p \in Pools /\ p.pending \in SUBSET Tx /\ MaxNonce \in Nat
  BY PoolFields, LegacyPoolAssumption DEF Agree
<1>2. PICK N : N = [a \in Account |->
                      IF Of(p.pending, a) = {} THEN n[a] ELSE Max(NoncesOf(p.pending, a)) + 1]
  OBVIOUS
<1>3. PICK r : r = SetAllNonces(p, n)
  OBVIOUS
<1>4. r = [p EXCEPT !.nonces = N]
  BY <1>2, <1>3 DEF SetAllNonces
<1>5. ASSUME NEW a \in Account
      PROVE  /\ N[a] \in 0..(MaxNonce + 1) /\ n[a] <= N[a]
             /\ NoncesOf(p.pending, a) = n[a]..(N[a] - 1)
  <2>1. n[a] \in 0..(MaxNonce + 1)
    BY DEF AccountNonces
  <2>2. CASE Of(p.pending, a) = {}
    <3>1. N[a] = n[a]
      BY <1>2, <2>2
    <3>2. NoncesOf(p.pending, a) = {}
      BY <2>2 DEF NoncesOf
    <3>3. n[a]..(n[a] - 1) = {}
      BY <2>1
    <3>4. n[a] <= n[a]
      BY <2>1
    <3>5. QED
      BY <2>1, <3>1, <3>2, <3>3, <3>4
  <2>3. CASE Of(p.pending, a) # {}
    <3>1. PICK M, lo : M = NoncesOf(p.pending, a) /\ lo = n[a]
      OBVIOUS
    <3>2. M \in SUBSET (0..MaxNonce)
      <4>1. \A k \in M : \E t \in p.pending : t.nonce = k
        BY <3>1, OfFacts
      <4>2. \A t \in p.pending : t.nonce \in 0..MaxNonce
        BY <1>1, TxFields
      <4>3. QED
        BY <4>1, <4>2
    <3>3. M # {}
      BY <2>3, <3>1, OfFacts
    <3>4. PICK m : m = Max(M)
      OBVIOUS
    <3>5. m \in M /\ \A i \in M : i <= m
      BY <1>1, <3>2, <3>3, <3>4, LastNonce
    <3>6. N[a] = m + 1
      BY <1>2, <2>3, <3>1, <3>4
    <3>7. \A i \in M : lo <= i
      <4>1. \A k \in M : \E t \in p.pending : t.nonce = k /\ t.from = a
        BY <3>1, OfFacts
      <4>2. \A k \in M : k >= lo
        BY <3>1, <4>1
      <4>3. QED
        BY <2>1, <3>1, <3>2, <4>2
    <3>8. \A i \in lo..m : i \in M
      <4>1. PICK t \in p.pending : t.nonce = m /\ t.from = a
        BY <3>1, <3>5, OfFacts
      <4>2. \A i \in n[t.from]..t.nonce : i \in NoncesOf(p.pending, t.from)
        BY <4>1 DEF Closed
      <4>3. QED
        BY <3>1, <4>1, <4>2
    <3>9. lo \in Nat /\ m \in 0..MaxNonce /\ lo <= m
      BY <2>1, <3>1, <3>2, <3>5, <3>7
    <3>10. M = lo..m
      <4>1. \A i : i \in M => i \in lo..m
        BY <3>2, <3>5, <3>7, <3>9
      <4>2. QED
        BY <3>8, <4>1
    <3>11. m + 1 \in 0..(MaxNonce + 1) /\ lo <= m + 1 /\ (m + 1) - 1 = m
      BY <1>1, <3>9
    <3>12. QED
      BY <3>1, <3>6, <3>10, <3>11
  <2>4. QED
    BY <2>2, <2>3
<1>6. N \in [Account -> 0..(MaxNonce + 1)]
  BY <1>2, <1>5
<1>7. /\ r \in Pools /\ r.pending = p.pending /\ r.queue = p.queue /\ r.reserved = p.reserved
      /\ r.all = p.all /\ r.nonces = N
  BY <1>1, <1>4, <1>6 DEF Pools
<1>8. Agree(r, gone) /\ Held(r, {}) /\ Paid(r, b)
  BY <1>7 DEF Agree, Held, HasList, Lists, Paid
<1>9. Contiguous(r, n)
  BY <1>5, <1>7 DEF Contiguous
<1>10. QED
  BY <1>3, <1>7, <1>8, <1>9 DEF Sound

(***************************************************************************)
(* The runs.                                                               *)
(***************************************************************************)
\* What promoteExecutables has done without a new head, the accounts s being done.
Promoting(p, q, s, gone, n, b) ==
    /\ Sound(q, gone, n, b) /\ NoneFirst(q, n, s)
    /\ q.queue \subseteq p.queue /\ q.all \subseteq p.all

\* A round of it.
LEMMA PromotingOne ==
    ASSUME NEW p, NEW q, NEW s, NEW gone, NEW n \in AccountNonces, NEW b, NEW a \in Account,
           Promoting(p, q, s, gone, n, b)
    PROVE  Promoting(p, PromoteAccount(q, a, n, b), s \cup {a}, gone, n, b)
<1>1. /\ Agree(q, gone) /\ Held(q, {}) /\ Contiguous(q, n) /\ Paid(q, b) /\ NoneFirst(q, n, s)
      /\ q.queue \subseteq p.queue /\ q.all \subseteq p.all /\ q \in Pools
  BY DEF Promoting, Sound, Agree
<1>2. PICK r : r = PromoteAccount(q, a, n, b)
  OBVIOUS
<1>3. PromotesOne(q, r, a, n, b, gone)
  BY <1>1, <1>2, PromoteFacts
<1>4. PICK R : R = Promotable(q, a, n, b)
  OBVIOUS
<1>5. /\ Agree(r, gone) /\ Held(r, {}) /\ r.pending = q.pending \cup R
      /\ r.queue \subseteq q.queue /\ r.all \subseteq q.all
  BY <1>1, <1>3, <1>4 DEF PromotesOne
<1>6. Contiguous(r, n) /\ NoneFirst(r, n, {a})
  BY <1>1, <1>3, PromotedInTurn
<1>7. Paid(r, b)
  <2>1. R \subseteq Kept(q, a, n, b)
    BY <1>1, <1>4, PromotableQueued
  <2>2. \A t \in R : t.from = a /\ t.price <= b[a]
    BY <2>1 DEF Kept, Of
  <2>3. QED
    BY <1>1, <1>5, <2>2 DEF Paid
<1>8. NoneFirst(r, n, s \cup {a})
  BY <1>1, <1>5, <1>6, OfFacts DEF NoneFirst
<1>9. r.queue \subseteq p.queue /\ r.all \subseteq p.all
  BY <1>1, <1>5
<1>10. QED
  BY <1>2, <1>5, <1>6, <1>7, <1>8, <1>9 DEF Promoting, Sound

\* promoteExecutables without a new head.
LEMMA PromotedSound ==
    ASSUME NEW p, NEW gone, NEW n \in AccountNonces, NEW b, Sound(p, gone, n, b), NEW D \in SUBSET Account
    PROVE  Promoting(p, PromoteExecutables(p, D, n, b), D, gone, n, b)
<1>1. PICK G : G = {x \in (SUBSET D) \X Pools : Promoting(p, x[2], x[1], gone, n, b)}
  OBVIOUS
<1>2. p \in Pools
  BY DEF Sound, Agree
<1>3. \A s \in SUBSET D : \A q \in Pools : <<s, q>> \in G <=> Promoting(p, q, s, gone, n, b)
  BY <1>1
<1>4. <<{}, p>> \in G
  <2>1. Promoting(p, p, {}, gone, n, b)
    BY DEF Promoting, NoneFirst
  <2>2. {} \in SUBSET D
    OBVIOUS
  <2>3. QED
    BY <1>2, <1>3, <2>1, <2>2
<1>5. PromotesInto(G, D, n, b)
  <2>1. SUFFICES ASSUME NEW s \in SUBSET D, NEW a \in D \ s, NEW q \in Pools, <<s, q>> \in G
                 PROVE  <<s \cup {a}, PromoteAccount(q, a, n, b)>> \in G
    BY DEF PromotesInto
  <2>2. Promoting(p, q, s, gone, n, b) /\ a \in Account
    BY <1>3, <2>1
  <2>3. Promoting(p, PromoteAccount(q, a, n, b), s \cup {a}, gone, n, b)
    BY <2>2, PromotingOne
  <2>4. PromoteAccount(q, a, n, b) \in Pools
    BY <2>3 DEF Promoting, Sound, Agree
  <2>5. s \cup {a} \in SUBSET D
    OBVIOUS
  <2>6. QED
    BY <1>3, <2>3, <2>4, <2>5
<1>6. G \in SUBSET ((SUBSET D) \X Pools)
  BY <1>1
<1>7. <<D, PromoteExecutables(p, D, n, b)>> \in G
  BY <1>2, <1>4, <1>5, <1>6, PromoteFold
<1>8. QED
  BY <1>1, <1>7

\* What promoteExecutables has done under a new head, the accounts s being done.
Resetting(p, q, s, gone, n) ==
    /\ Agree(q, gone) /\ Held(q, {}) /\ Closed(q, n) /\ NoneFirst(q, n, s)
    /\ \A a \in Account \ s : q.nonces[a] = n[a]
    /\ q.all \subseteq p.all

\* A round of it.
LEMMA ResettingOne ==
    ASSUME NEW p, NEW q, NEW s, NEW gone, NEW n \in AccountNonces, NEW b, NEW a \in Account \ s,
           Resetting(p, q, s, gone, n)
    PROVE  Resetting(p, PromoteAccount(q, a, n, b), s \cup {a}, gone, n)
<1>1. /\ Agree(q, gone) /\ Held(q, {}) /\ Closed(q, n) /\ NoneFirst(q, n, s)
      /\ \A c \in Account \ s : q.nonces[c] = n[c]
      /\ q.all \subseteq p.all /\ q \in Pools
  BY DEF Resetting, Agree
<1>2. PICK r : r = PromoteAccount(q, a, n, b)
  OBVIOUS
<1>3. PromotesOne(q, r, a, n, b, gone)
  BY <1>1, <1>2, PromoteFacts
<1>4. /\ Agree(r, gone) /\ Held(r, {})
      /\ r.queue \subseteq q.queue /\ r.all \subseteq q.all
  BY <1>1, <1>3 DEF PromotesOne
<1>5. /\ Closed(r, n) /\ NoneFirst(r, n, {a})
      /\ \A c \in Account : c # a => r.nonces[c] = q.nonces[c]
  <2>1. a \in Account /\ q.nonces[a] = n[a]
    BY <1>1
  <2>2. Agree(q, gone) /\ Closed(q, n) /\ PromotesOne(q, r, a, n, b, gone)
    BY <1>1, <1>3
  <2>3. StaysClosed(q, r, a, n)
    BY <2>1, <2>2, PromotedClosed
  <2>4. QED
    BY <2>3 DEF StaysClosed
<1>6. NoneFirst(r, n, s \cup {a})
  BY <1>1, <1>4, <1>5, OfFacts DEF NoneFirst
<1>7. /\ r.all \subseteq p.all
      /\ \A c \in Account \ (s \cup {a}) : r.nonces[c] = n[c]
  BY <1>1, <1>4, <1>5
<1>8. QED
  BY <1>2, <1>4, <1>5, <1>6, <1>7 DEF Resetting

\* promoteExecutables under a new head.
LEMMA PromotedAnew ==
    ASSUME NEW p, NEW gone, NEW n \in AccountNonces, NEW b, Agree(p, gone), Held(p, {}), Closed(p, n),
           p.nonces = n
    PROVE  Resetting(p, PromoteExecutables(p, Account, n, b), Account, gone, n)
<1>1. PICK D, G : D = Account /\ G = {x \in (SUBSET D) \X Pools : Resetting(p, x[2], x[1], gone, n)}
  OBVIOUS
<1>2. p \in Pools /\ D \in SUBSET Account
  BY <1>1 DEF Agree
<1>3. \A s \in SUBSET D : \A q \in Pools : <<s, q>> \in G <=> Resetting(p, q, s, gone, n)
  BY <1>1
<1>4. <<{}, p>> \in G
  <2>1. Resetting(p, p, {}, gone, n)
    BY DEF Resetting, NoneFirst
  <2>2. {} \in SUBSET D
    OBVIOUS
  <2>3. QED
    BY <1>2, <1>3, <2>1, <2>2
<1>5. PromotesInto(G, D, n, b)
  <2>1. SUFFICES ASSUME NEW s \in SUBSET D, NEW a \in D \ s, NEW q \in Pools, <<s, q>> \in G
                 PROVE  <<s \cup {a}, PromoteAccount(q, a, n, b)>> \in G
    BY DEF PromotesInto
  <2>2. Resetting(p, q, s, gone, n) /\ a \in Account \ s
    BY <1>1, <1>3, <2>1
  <2>3. Resetting(p, PromoteAccount(q, a, n, b), s \cup {a}, gone, n)
    BY <2>2, ResettingOne
  <2>4. PromoteAccount(q, a, n, b) \in Pools
    BY <2>3 DEF Resetting, Agree
  <2>5. s \cup {a} \in SUBSET D
    OBVIOUS
  <2>6. QED
    BY <1>3, <2>3, <2>4, <2>5
<1>6. G \in SUBSET ((SUBSET D) \X Pools)
  BY <1>1
<1>7. <<D, PromoteExecutables(p, D, n, b)>> \in G
  BY <1>2, <1>4, <1>5, <1>6, PromoteFold
<1>8. Resetting(p, PromoteExecutables(p, D, n, b), D, gone, n)
  BY <1>1, <1>7
<1>9. QED
  BY <1>1, <1>8

\* What demoteUnexecutables has done, the accounts s being done.
Demoting(p, q, s, gone, n, b) ==
    /\ Agree(q, gone) /\ Held(q, {}) /\ Closed(q, n) /\ NoneFirst(q, n, Account)
    /\ \A t \in q.pending : t.from \in s => t.nonce >= n[t.from] /\ t.price <= b[t.from]
    /\ q.all \subseteq p.all

\* A round of it.
LEMMA DemotingOne ==
    ASSUME NEW p, NEW q, NEW s, NEW gone, NEW n \in AccountNonces, NEW b \in [Account -> Balances],
           NEW a \in Account, Demoting(p, q, s, gone, n, b)
    PROVE  Demoting(p, DemoteAccount(q, a, n, b), s \cup {a}, gone, n, b)
<1>1. /\ Agree(q, gone) /\ Held(q, {}) /\ Closed(q, n) /\ NoneFirst(q, n, Account)
      /\ \A t \in q.pending : t.from \in s => t.nonce >= n[t.from] /\ t.price <= b[t.from]
      /\ q.all \subseteq p.all
  BY DEF Demoting
<1>2. PICK r : r = DemoteAccount(q, a, n, b)
  OBVIOUS
<1>3. DemotesOne(q, r, a, n, b, gone)
  BY <1>1, <1>2, DemoteFacts
<1>4. /\ Agree(r, gone) /\ Held(r, {}) /\ Closed(r, n)
      /\ r.all \subseteq q.all /\ r.pending \subseteq q.pending
      /\ \A t \in r.pending : t.from = a => t.nonce >= n[a] /\ t.price <= b[a]
      /\ \A t \in r.queue : t \in q.queue \/ (t.from = a /\ t.nonce # n[a])
  BY <1>1, <1>3 DEF DemotesOne
<1>5. NoneFirst(r, n, Account)
  <2>1. SUFFICES ASSUME NEW c \in Account, n[c] \in NoncesOf(r.queue, c) PROVE FALSE
    BY DEF NoneFirst
  <2>2. PICK t \in r.queue : t.from = c /\ t.nonce = n[c]
    BY <2>1, OfFacts
  <2>3. t \in q.queue
    BY <1>4, <2>2
  <2>4. n[c] \in NoncesOf(q.queue, c)
    BY <2>2, <2>3, OfFacts
  <2>5. QED
    BY <1>1, <2>4 DEF NoneFirst
<1>6. \A t \in r.pending : t.from \in s \cup {a} => t.nonce >= n[t.from] /\ t.price <= b[t.from]
  BY <1>1, <1>4
<1>7. r.all \subseteq p.all
  BY <1>1, <1>4
<1>8. QED
  BY <1>2, <1>4, <1>5, <1>6, <1>7 DEF Demoting

\* demoteUnexecutables.
LEMMA DemotedAll ==
    ASSUME NEW p, NEW gone, NEW n \in AccountNonces, NEW b \in [Account -> Balances],
           Agree(p, gone), Held(p, {}), Closed(p, n), NoneFirst(p, n, Account)
    PROVE  Demoting(p, DemoteUnexecutables(p, n, b), Account, gone, n, b)
<1>1. PICK D, G : D = Account /\ G = {x \in (SUBSET D) \X Pools : Demoting(p, x[2], x[1], gone, n, b)}
  OBVIOUS
<1>2. p \in Pools
  BY DEF Agree
<1>3. \A s \in SUBSET D : \A q \in Pools : <<s, q>> \in G <=> Demoting(p, q, s, gone, n, b)
  BY <1>1
<1>4. <<{}, p>> \in G
  <2>1. Demoting(p, p, {}, gone, n, b)
    BY DEF Demoting
  <2>2. {} \in SUBSET D
    OBVIOUS
  <2>3. QED
    BY <1>2, <1>3, <2>1, <2>2
<1>5. DemotesInto(G, D, n, b)
  <2>1. SUFFICES ASSUME NEW s \in SUBSET D, NEW a \in D \ s, NEW q \in Pools, <<s, q>> \in G
                 PROVE  <<s \cup {a}, DemoteAccount(q, a, n, b)>> \in G
    BY DEF DemotesInto
  <2>2. Demoting(p, q, s, gone, n, b) /\ a \in Account
    BY <1>1, <1>3, <2>1
  <2>3. Demoting(p, DemoteAccount(q, a, n, b), s \cup {a}, gone, n, b)
    BY <2>2, DemotingOne
  <2>4. DemoteAccount(q, a, n, b) \in Pools
    BY <2>3 DEF Demoting, Agree
  <2>5. s \cup {a} \in SUBSET D
    OBVIOUS
  <2>6. QED
    BY <1>3, <2>3, <2>4, <2>5
<1>6. G \in SUBSET ((SUBSET D) \X Pools)
  BY <1>1
<1>7. <<D, DemoteUnexecutables(p, n, b)>> \in G
  BY <1>1, <1>2, <1>4, <1>5, <1>6, DemoteFold
<1>8. Demoting(p, DemoteUnexecutables(p, n, b), D, gone, n, b)
  BY <1>1, <1>7
<1>9. QED
  BY <1>1, <1>8

\* The invariant of the pool, under nonces n and balances b, when a run is requested for
\* the accounts d.
PoolInv(p, gone, n, b, d) ==
    /\ Sound(p, gone, n, b) /\ NoneFirst(p, n, Account \ d)
    /\ PendingLimit(p) /\ Cardinality(p.all) <= GlobalSlots + GlobalQueue
    /\ n \in AccountNonces /\ b \in [Account -> Balances] /\ d \subseteq Account

\* The lookup is finite, and a smaller one keeps the limit.
LEMMA SmallerLookup ==
    ASSUME NEW p, NEW gone, Agree(p, gone), NEW S \in SUBSET p.all,
           Cardinality(p.all) <= GlobalSlots + GlobalQueue
    PROVE  /\ IsFiniteSet(p.all) /\ Cardinality(p.all) \in Nat /\ Cardinality(S) \in Nat
           /\ Cardinality(S) <= GlobalSlots + GlobalQueue
           /\ GlobalSlots \in Nat /\ GlobalQueue \in Nat
<1>1. GlobalSlots \in Nat /\ GlobalQueue \in Nat
  BY LegacyPoolAssumption
<1>2. IsFiniteSet(p.pending \cup p.queue)
  BY FS_Union DEF Agree
<1>3. p.all \subseteq p.pending \cup p.queue
  BY DEF Agree, Lists
<1>4. IsFiniteSet(p.all)
  BY <1>2, <1>3, FS_Subset
<1>5. IsFiniteSet(S) /\ Cardinality(S) <= Cardinality(p.all)
  BY <1>4, FS_Subset
<1>6. Cardinality(S) \in Nat /\ Cardinality(p.all) \in Nat
  BY <1>4, <1>5, FS_CardinalityType
<1>7. QED
  BY <1>1, <1>4, <1>5, <1>6

\* A smaller queue.
LEMMA SmallerQueue ==
    ASSUME NEW p, NEW r, NEW n, NEW A, r.queue \subseteq p.queue, NoneFirst(p, n, A)
    PROVE  NoneFirst(r, n, A)
BY OfFacts DEF NoneFirst

\* What holds before a phase of a run, under nonces n and balances b: until the virtual nonces
\* are set, the lists are in agreement but are cut to size last.
Phased(ph, p, gone, n, b, d) ==
    /\ ph \in {"idle", "truncate"} => Sound(p, gone, n, b) /\ NoneFirst(p, n, Account \ d)
    /\ ph \in {"demote", "nonces"} => Agree(p, gone) /\ Held(p, {}) /\ Closed(p, n) /\ NoneFirst(p, n, Account)
    /\ ph = "nonces" => \A t \in p.pending : t.nonce >= n[t.from] /\ t.price <= b[t.from]

\* A run without a new head promotes.
LEMMA ReorgKeeps ==
    ASSUME NEW p, NEW gone, NEW n \in AccountNonces, NEW b, NEW d \in SUBSET Account, NEW D \in SUBSET d,
           Phased("idle", p, gone, n, b, d)
    PROVE  Phased("truncate", PromoteExecutables(p, D, n, b), gone, n, b, d \ D)
<1>1. Sound(p, gone, n, b) /\ NoneFirst(p, n, Account \ d) /\ D \in SUBSET Account
  BY DEF Phased
<1>2. PICK q : q = PromoteExecutables(p, D, n, b)
  OBVIOUS
<1>3. Promoting(p, q, D, gone, n, b)
  BY <1>1, <1>2, PromotedSound
<1>4. Sound(q, gone, n, b) /\ NoneFirst(q, n, D) /\ q.queue \subseteq p.queue
  BY <1>3 DEF Promoting
<1>5. NoneFirst(q, n, Account \ d)
  BY <1>1, <1>4, SmallerQueue
<1>6. NoneFirst(q, n, Account \ (d \ D))
  BY <1>4, <1>5 DEF NoneFirst
<1>7. QED
  BY <1>2, <1>4, <1>6 DEF Phased

\* A run with a new head, in which no account's nonce is lower, promotes.
LEMMA ResetKeeps ==
    ASSUME NEW p, NEW gone, NEW n \in AccountNonces, NEW b, NEW d, NEW e,
           NEW m \in AccountNonces, \A a \in Account : n[a] <= m[a], NEW c,
           Phased("idle", p, gone, n, b, d)
    PROVE  Phased("demote", PromoteExecutables([p EXCEPT !.nonces = m], Account, m, c), gone, m, c, e)
<1>1. Agree(p, gone) /\ Held(p, {}) /\ Contiguous(p, n) /\ p \in Pools
  BY DEF Phased, Sound, Agree
<1>2. PICK s : s = [p EXCEPT !.nonces = m]
  OBVIOUS
<1>3. /\ s \in Pools /\ s.pending = p.pending /\ s.queue = p.queue /\ s.reserved = p.reserved
      /\ s.all = p.all /\ s.nonces = m
  BY <1>1, <1>2 DEF Pools, AccountNonces
<1>4. Agree(s, gone) /\ Held(s, {})
  BY <1>1, <1>3 DEF Agree, Held, HasList, Lists
<1>5. Closed(s, m)
  <2>1. SUFFICES ASSUME NEW t \in p.pending, NEW i \in m[t.from]..t.nonce
                 PROVE  i \in NoncesOf(p.pending, t.from)
    BY <1>3 DEF Closed
  <2>2. t.from \in Account /\ t.nonce \in Nat
    BY <1>1, PoolFields, TxFields
  <2>3. t \in Of(p.pending, t.from)
    BY OfFacts
  <2>4. /\ n[t.from] \in Nat /\ p.nonces[t.from] \in Nat /\ t.nonce < p.nonces[t.from]
        /\ NoncesOf(p.pending, t.from) = n[t.from]..(p.nonces[t.from] - 1)
    BY <1>1, <2>2, <2>3, PendingCount DEF Contiguous
  <2>5. m[t.from] \in Nat /\ n[t.from] <= m[t.from]
    BY <2>2 DEF AccountNonces
  <2>6. i \in n[t.from]..(p.nonces[t.from] - 1)
    BY <2>2, <2>4, <2>5
  <2>7. QED
    BY <2>4, <2>6
<1>6. PICK q : q = PromoteExecutables(s, Account, m, c)
  OBVIOUS
<1>7. Resetting(s, q, Account, gone, m)
  BY <1>3, <1>4, <1>5, <1>6, PromotedAnew
<1>8. Phased("demote", q, gone, m, c, e)
  BY <1>7 DEF Resetting, Phased
<1>9. QED
  BY <1>2, <1>6, <1>8

\* It demotes.
LEMMA DemoteKeeps ==
    ASSUME NEW p, NEW gone, NEW n \in AccountNonces, NEW b \in [Account -> Balances], NEW d,
           Phased("demote", p, gone, n, b, d)
    PROVE  Phased("nonces", DemoteUnexecutables(p, n, b), gone, n, b, d)
<1>1. Agree(p, gone) /\ Held(p, {}) /\ Closed(p, n) /\ NoneFirst(p, n, Account)
  BY DEF Phased
<1>2. PICK q : q = DemoteUnexecutables(p, n, b)
  OBVIOUS
<1>3. Demoting(p, q, Account, gone, n, b)
  BY <1>1, <1>2, DemotedAll
<1>4. /\ Agree(q, gone) /\ Held(q, {}) /\ Closed(q, n) /\ NoneFirst(q, n, Account)
      /\ \A t \in q.pending : t.from \in Account => t.nonce >= n[t.from] /\ t.price <= b[t.from]
  BY <1>3 DEF Demoting
<1>5. \A t \in q.pending : t.nonce >= n[t.from] /\ t.price <= b[t.from]
  BY <1>4, PoolFields, TxFields DEF Agree
<1>6. QED
  BY <1>2, <1>4, <1>5 DEF Phased

\* It sets the virtual nonces.
LEMMA NoncesKeep ==
    ASSUME NEW p, NEW gone, NEW n \in AccountNonces, NEW b, NEW d, Phased("nonces", p, gone, n, b, d)
    PROVE  Phased("truncate", SetAllNonces(p, n), gone, n, b, d)
<1>1. /\ Agree(p, gone) /\ Held(p, {}) /\ Closed(p, n) /\ NoneFirst(p, n, Account)
      /\ \A t \in p.pending : t.nonce >= n[t.from] /\ t.price <= b[t.from]
  BY DEF Phased
<1>2. Paid(p, b)
  BY <1>1 DEF Paid
<1>3. PICK q : q = SetAllNonces(p, n)
  OBVIOUS
<1>4. Sound(q, gone, n, b) /\ q.queue = p.queue
  BY <1>1, <1>2, <1>3, AllNoncesSet
<1>5. NoneFirst(q, n, Account \ d)
  BY <1>1, <1>4 DEF NoneFirst
<1>6. QED
  BY <1>3, <1>4, <1>5 DEF Phased

\* Every run truncates.
LEMMA TruncateKeeps ==
    ASSUME NEW p, NEW gone, NEW n \in AccountNonces, NEW b, NEW d, Phased("truncate", p, gone, n, b, d),
           NEW r \in Truncated(p)
    PROVE  Phased("idle", r, gone, n, b, d)
<1>1. Sound(p, gone, n, b) /\ NoneFirst(p, n, Account \ d)
  BY DEF Phased
<1>2. Sound(r, gone, n, b) /\ r.queue \subseteq p.queue
  BY <1>1, TruncatedSound DEF Truncates
<1>3. NoneFirst(r, n, Account \ d)
  BY <1>1, <1>2, SmallerQueue
<1>4. QED
  BY <1>2, <1>3 DEF Phased

(***************************************************************************)
(* Evictions, and Remove of the mempool.                                   *)
(***************************************************************************)
\* What an operation keeps that leaves fewer transactions.
LEMMA FewerKeeps ==
    ASSUME NEW p, NEW gone, NEW n, NEW b, NEW d, PoolInv(p, gone, n, b, d),
           NEW r, NEW left, Agree(r, left), Held(r, {}), Contiguous(r, n),
           NoneFirst(r, n, Account \ d), r.pending \subseteq p.pending, r.all \subseteq p.all
    PROVE  PoolInv(r, left, n, b, d)
<1>1. /\ Agree(p, gone) /\ Paid(p, b) /\ PendingLimit(p)
      /\ Cardinality(p.all) <= GlobalSlots + GlobalQueue
      /\ n \in AccountNonces /\ b \in [Account -> Balances] /\ d \subseteq Account
  BY DEF PoolInv, Sound
<1>2. Paid(r, b)
  BY <1>1 DEF Paid
<1>3. PendingLimit(r)
  BY <1>1, AgreeFiled, SmallerPending
<1>4. Cardinality(r.all) <= GlobalSlots + GlobalQueue
  BY <1>1, SmallerLookup
<1>5. QED
  BY <1>1, <1>2, <1>3, <1>4 DEF PoolInv, Sound

\* An eviction.
LEMMA EvictKeeps ==
    ASSUME NEW p, NEW gone, NEW n, NEW b, NEW d, PoolInv(p, gone, n, b, d), NEW a
    PROVE  PoolInv(RemoveTxs(p, Of(p.queue, a)), gone, n, b, d)
<1>1. PICK r : r = RemoveTxs(p, Of(p.queue, a))
  OBVIOUS
<1>2. /\ Agree(p, gone) /\ Held(p, {}) /\ Contiguous(p, n) /\ NoneFirst(p, n, Account \ d)
      /\ Of(p.queue, a) \in SUBSET p.queue
  BY DEF PoolInv, Sound, Of
<1>3. Trims(p, r, gone)
  BY <1>1, <1>2, QueueTrimmed
<1>4. /\ Agree(r, gone) /\ Held(r, {}) /\ r.pending = p.pending /\ r.nonces = p.nonces
      /\ r.queue \subseteq p.queue /\ r.all \subseteq p.all
  BY <1>3 DEF Trims
<1>5. Contiguous(r, n)
  BY <1>2, <1>4 DEF Contiguous
<1>6. NoneFirst(r, n, Account \ d)
  BY <1>2, <1>4, SmallerQueue
<1>7. PoolInv(r, gone, n, b, d)
  BY <1>4, <1>5, <1>6, FewerKeeps
<1>8. QED
  BY <1>1, <1>7

\* Remove has taken a transaction from the lookup, in any phase of a run.
LEMMA RemoveStartKeeps ==
    ASSUME NEW ph, NEW p, NEW n, NEW b, NEW d, Phased(ph, p, {}, n, b, d),
           ph \in {"idle", "demote", "nonces", "truncate"}, NEW t \in p.all
    PROVE  Phased(ph, RemoveFromLookup(p, t), {t}, n, b, d)
<1>1. PICK r : r = RemoveFromLookup(p, t)
  OBVIOUS
<1>2. Agree(p, {}) /\ Held(p, {})
  BY DEF Phased, Sound
<1>3. /\ Agree(r, {} \cup {t})
      /\ r.pending = p.pending /\ r.queue = p.queue /\ r.nonces = p.nonces
      /\ r.reserved = p.reserved /\ r.all = p.all \ {t}
  BY <1>1, <1>2, LookupRemoved
<1>4. Agree(r, {t})
  <2>1. {} \cup {t} = {t}
    OBVIOUS
  <2>2. QED
    BY <1>3, <2>1
<1>5. Held(r, {})
  BY <1>2, <1>3 DEF Held, HasList
<1>6. ASSUME ph \in {"idle", "truncate"} PROVE Sound(r, {t}, n, b) /\ NoneFirst(r, n, Account \ d)
  <2>1. Contiguous(p, n) /\ Paid(p, b) /\ NoneFirst(p, n, Account \ d)
    BY <1>6 DEF Phased, Sound
  <2>2. Contiguous(r, n) /\ Paid(r, b) /\ NoneFirst(r, n, Account \ d)
    BY <1>3, <2>1 DEF Contiguous, Paid, NoneFirst
  <2>3. QED
    BY <1>4, <1>5, <2>2 DEF Sound
<1>7. ASSUME ph \in {"demote", "nonces"} PROVE Closed(r, n) /\ NoneFirst(r, n, Account)
  <2>1. Closed(p, n) /\ NoneFirst(p, n, Account)
    BY <1>7 DEF Phased
  <2>2. QED
    BY <1>3, <2>1 DEF Closed, NoneFirst
<1>8. ASSUME ph = "nonces" PROVE \A u \in r.pending : u.nonce >= n[u.from] /\ u.price <= b[u.from]
  BY <1>3, <1>8 DEF Phased
<1>9. Phased(ph, r, {t}, n, b, d)
  BY <1>4, <1>5, <1>6, <1>7, <1>8 DEF Phased
<1>10. QED
  BY <1>1, <1>9

\* Remove has taken it from its list too, and released its sender if need be.
LEMMA RemoveEndKeeps ==
    ASSUME NEW p, NEW n, NEW b, NEW d, NEW t, PoolInv(p, {t}, n, b, d)
    PROVE  PoolInv(Release(RemoveFromLists(p, t), {t.from}), {}, n, b, d)
<1>1. PICK q : q = RemoveFromLists(p, t)
  OBVIOUS
<1>2. PICK r : r = Release(q, {t.from})
  OBVIOUS
<1>3. /\ Agree(p, {t}) /\ Held(p, {}) /\ Contiguous(p, n) /\ NoneFirst(p, n, Account \ d)
      /\ n \in AccountNonces /\ t \in Tx /\ t \in {t} /\ p \in Pools
  BY DEF PoolInv, Sound, Agree
<1>4. /\ Agree(q, {t}) /\ t \notin Lists(q) /\ Lists(q) \subseteq Lists(p)
      /\ q.pending \subseteq p.pending /\ q.all = p.all /\ q.reserved = p.reserved
      /\ \A c : c # t.from => HasList(q, c) = HasList(p, c)
      /\ \A c : HasList(q, c) => HasList(p, c)
  BY <1>1, <1>3, ListsRemoved
<1>5. /\ Contiguous(q, n)
      /\ \A A \in SUBSET Account : NoneFirst(p, n, A) => NoneFirst(q, n, A)
  BY <1>1, <1>3, RemovedInTurn
<1>6. NoneFirst(q, n, Account \ d)
  <2>1. Account \ d \in SUBSET Account
    OBVIOUS
  <2>2. QED
    BY <1>3, <1>5, <2>1
<1>7. q \in Pools
  BY <1>4 DEF Agree
<1>8. /\ r \in Pools /\ r.pending = q.pending /\ r.queue = q.queue
      /\ r.all = q.all /\ r.nonces = q.nonces
  BY <1>2, <1>7, ReleaseFields
<1>9. Held(r, {})
  <2>1. t.from \in Account /\ t.from \notin {}
    BY <1>3, TxFields
  <2>2. Held(Release(q, {t.from}), {})
    BY <1>3, <1>4, <1>7, <2>1, HeldReleased
  <2>3. QED
    BY <1>2, <2>2
<1>10. Agree(r, {})
  <2>1. {} \cup {t} = {t}
    OBVIOUS
  <2>2. Agree(r, {} \cup {t}) /\ t \notin Lists(r)
    BY <1>4, <1>8, <2>1 DEF Agree, Lists
  <2>3. QED
    BY <2>2, Forgotten
<1>11. Contiguous(r, n) /\ NoneFirst(r, n, Account \ d)
  BY <1>5, <1>6, <1>8 DEF Contiguous, NoneFirst
<1>12. r.pending \subseteq p.pending /\ r.all \subseteq p.all
  BY <1>4, <1>8
<1>13. PoolInv(r, {}, n, b, d)
  BY <1>9, <1>10, <1>11, <1>12, FewerKeeps
<1>14. QED
  BY <1>1, <1>2, <1>13

(***************************************************************************)
(* add.                                                                    *)
(***************************************************************************)
\* The pool before a transaction is placed: there is room for it, and its sender is held.
Roomy(p, q, t, n, b, d) ==
    /\ Agree(q, {}) /\ Held(q, {t.from}) /\ Contiguous(q, n) /\ Paid(q, b)
    /\ NoneFirst(q, n, Account \ d) /\ PendingLimit(q)
    /\ Cardinality(q.all) + 1 <= GlobalSlots + GlobalQueue
    /\ t \notin q.all
    /\ HasList(q, t.from) => HasList(p, t.from)
    /\ n \in AccountNonces /\ b \in [Account -> Balances] /\ d \subseteq Account

\* Hold changes nothing but the reservations.
LEMMA HoldFacts ==
    ASSUME NEW p \in Pools, Held(p, {}), NEW a \in Account
    PROVE  SameLists(p, Hold(p, a)) /\ Held(Hold(p, a), {a})
<1>1. PICK h : h = Hold(p, a)
  OBVIOUS
<1>2. CASE HasList(p, a)
  <2>1. h = p
    BY <1>1, <1>2 DEF Hold
  <2>2. Held(p, {a})
    BY <1>2 DEF Held
  <2>3. SameLists(p, p)
    BY DEF SameLists
  <2>4. QED
    BY <1>1, <2>1, <2>2, <2>3
<1>3. CASE ~HasList(p, a)
  <2>1. h = [p EXCEPT !.reserved = p.reserved \cup {a}]
    BY <1>1, <1>3 DEF Hold
  <2>2. SameLists(p, h) /\ h.reserved = p.reserved \cup {a}
    BY <2>1 DEF SameLists, Pools
  <2>3. Held(h, {a})
    BY <2>2 DEF Held, HasList, SameLists
  <2>4. QED
    BY <1>1, <2>2, <2>3
<1>4. QED
  BY <1>2, <1>3

\* What holding the sender keeps.
LEMMA HoldKeeps ==
    ASSUME NEW p, NEW n, NEW b, NEW d, PoolInv(p, {}, n, b, d), NEW a \in Account, NEW h, h = Hold(p, a)
    PROVE  /\ Agree(h, {}) /\ Held(h, {a}) /\ Contiguous(h, n) /\ Paid(h, b)
           /\ NoneFirst(h, n, Account \ d) /\ PendingLimit(h) /\ SameLists(p, h)
<1>1. /\ Agree(p, {}) /\ Held(p, {}) /\ Contiguous(p, n) /\ Paid(p, b)
      /\ NoneFirst(p, n, Account \ d) /\ PendingLimit(p) /\ p \in Pools
  BY DEF PoolInv, Sound, Agree
<1>2. SameLists(p, h) /\ Held(h, {a})
  BY <1>1, HoldFacts
<1>3. Agree(h, {})
  BY <1>1, <1>2 DEF SameLists, Agree, Lists
<1>4. Contiguous(h, n) /\ Paid(h, b) /\ NoneFirst(h, n, Account \ d) /\ PendingLimit(h)
  BY <1>1, <1>2 DEF SameLists, Contiguous, Paid, NoneFirst, PendingLimit
<1>5. QED
  BY <1>2, <1>3, <1>4

\* There is room in a pool that is not full.
LEMMA HoldMakesRoom ==
    ASSUME NEW p, NEW n, NEW b, NEW d, PoolInv(p, {}, n, b, d), NEW t \in Tx, t \notin p.all,
           ~(Cardinality(p.all) + 1 > GlobalSlots + GlobalQueue)
    PROVE  Roomy(p, Hold(p, t.from), t, n, b, d)
<1>1. PICK h : h = Hold(p, t.from)
  OBVIOUS
<1>2. t.from \in Account
  BY TxFields
<1>3. /\ Agree(h, {}) /\ Held(h, {t.from}) /\ Contiguous(h, n) /\ Paid(h, b)
      /\ NoneFirst(h, n, Account \ d) /\ PendingLimit(h) /\ SameLists(p, h)
  BY <1>1, <1>2, HoldKeeps
<1>4. Cardinality(h.all) + 1 <= GlobalSlots + GlobalQueue
  <2>1. Agree(p, {}) /\ Cardinality(p.all) <= GlobalSlots + GlobalQueue
    BY DEF PoolInv, Sound
  <2>2. Cardinality(p.all) \in Nat /\ GlobalSlots \in Nat /\ GlobalQueue \in Nat
    BY <2>1, SmallerLookup
  <2>3. h.all = p.all
    BY <1>3 DEF SameLists
  <2>4. QED
    BY <2>2, <2>3
<1>5. t \notin h.all /\ (HasList(h, t.from) => HasList(p, t.from))
  BY <1>3 DEF SameLists, HasList
<1>6. n \in AccountNonces /\ b \in [Account -> Balances] /\ d \subseteq Account
  BY DEF PoolInv
<1>7. QED
  BY <1>1, <1>3, <1>4, <1>5, <1>6 DEF Roomy

\* Discarding a transaction makes room, and keeps the sender held.
LEMMA DiscardMakesRoom ==
    ASSUME NEW p, NEW n, NEW b, NEW d, PoolInv(p, {}, n, b, d), NEW t \in Tx, t \notin p.all, NEW c \in p.all
    PROVE  Roomy(p, Discarded(Hold(p, t.from), c, t), t, n, b, d)
<1>1. PICK h : h = Hold(p, t.from)
  OBVIOUS
<1>2. PICK r : r = Discarded(h, c, t)
  OBVIOUS
<1>3. t.from \in Account
  BY TxFields
<1>4. /\ Agree(h, {}) /\ Held(h, {t.from}) /\ Contiguous(h, n) /\ Paid(h, b)
      /\ NoneFirst(h, n, Account \ d) /\ PendingLimit(h) /\ SameLists(p, h)
  BY <1>1, <1>3, HoldKeeps
<1>5. /\ h.all = p.all /\ h.pending = p.pending /\ h.queue = p.queue /\ c \in h.all
      /\ n \in AccountNonces /\ b \in [Account -> Balances] /\ d \subseteq Account
      /\ Account \ d \in SUBSET Account
  BY <1>4 DEF SameLists, PoolInv
<1>6. /\ Agree(r, {}) /\ Held(r, {t.from}) /\ Lists(r) \subseteq Lists(h)
      /\ r.pending \subseteq h.pending /\ r.all = h.all \ {c}
      /\ Contiguous(r, n) /\ NoneFirst(r, n, Account \ d)
  <2>1. CASE c.from # t.from
    <3>1. r = RemoveTx(h, c, TRUE)
      BY <1>2, <2>1 DEF Discarded
    <3>2. RemovesOne(h, r, c, {})
      BY <1>4, <1>5, <3>1, RemoveTxReleases
    <3>3. c.from \notin {t.from} /\ {t.from} \in SUBSET Account
      BY <1>3, <2>1
    <3>4. Held(r, {t.from})
      BY <1>4, <3>2, <3>3 DEF RemovesOne
    <3>5. /\ Agree(r, {}) /\ Lists(r) \subseteq Lists(h)
          /\ r.pending \subseteq h.pending /\ r.all = h.all \ {c}
      BY <3>2 DEF RemovesOne
    <3>6. Contiguous(r, n) /\ NoneFirst(r, n, Account \ d)
      BY <1>4, <1>5, <3>2 DEF RemovesOne
    <3>7. QED
      BY <3>4, <3>5, <3>6
  <2>2. CASE c.from = t.from
    <3>1. r = RemoveFromLists(RemoveFromLookup(h, c), c)
      <4>1. r = RemoveTx(h, c, FALSE)
        BY <1>2, <2>2 DEF Discarded
      <4>2. QED
        BY <1>5, <4>1 DEF RemoveTx
    <3>2. /\ Agree(r, {}) /\ Lists(r) \subseteq Lists(h)
          /\ r.pending \subseteq h.pending /\ r.all = h.all \ {c} /\ r.reserved = h.reserved
          /\ \A x : x # c.from => HasList(r, x) = HasList(h, x)
          /\ \A x : HasList(r, x) => HasList(h, x)
          /\ \A m \in AccountNonces : Contiguous(h, m) =>
                /\ Contiguous(r, m)
                /\ \A A \in SUBSET Account : NoneFirst(h, m, A) => NoneFirst(r, m, A)
      BY <1>4, <1>5, <3>1, TxRemoved
    <3>3. Held(r, {t.from})
      BY <1>4, <2>2, <3>2 DEF Held
    <3>4. Contiguous(r, n) /\ NoneFirst(r, n, Account \ d)
      BY <1>4, <1>5, <3>2
    <3>5. QED
      BY <3>2, <3>3, <3>4
  <2>3. QED
    BY <2>1, <2>2
<1>7. Paid(r, b)
  BY <1>4, <1>6 DEF Paid
<1>8. PendingLimit(r)
  BY <1>4, <1>6, AgreeFiled, SmallerPending
<1>9. Cardinality(r.all) + 1 <= GlobalSlots + GlobalQueue
  <2>1. Agree(p, {}) /\ Cardinality(p.all) <= GlobalSlots + GlobalQueue
    BY DEF PoolInv, Sound
  <2>2. IsFiniteSet(p.all) /\ Cardinality(p.all) \in Nat /\ GlobalSlots \in Nat /\ GlobalQueue \in Nat
    BY <2>1, SmallerLookup
  <2>3. r.all = p.all \ {c}
    BY <1>5, <1>6
  <2>4. Cardinality(p.all \ {c}) = Cardinality(p.all) - 1
    BY <2>2, FS_RemoveElement
  <2>5. QED
    BY <2>1, <2>2, <2>3, <2>4
<1>10. t \notin r.all
  BY <1>5, <1>6
<1>11. HasList(r, t.from) => HasList(p, t.from)
  BY <1>5, <1>6 DEF HasList, Lists, Of
<1>12. QED
  BY <1>1, <1>2, <1>5, <1>6, <1>7, <1>8, <1>9, <1>10, <1>11 DEF Roomy

\* list.Add of one transaction.
LEMMA OneListed ==
    ASSUME NEW S, NEW t
    PROVE  /\ Inserted(S, {t}) = {} => At(S, t) # {}
           /\ Inserted(S, {t}) # {} => /\ Replaced(S, {t}) = At(S, t)
                                       /\ Listed(S, {t}) = (S \ At(S, t)) \cup {t}
<1>1. CASE \A old \in At(S, t) : BumpMet(old, t)
  <2>1. Inserted(S, {t}) = {t}
    BY <1>1 DEF Inserted
  <2>2. Replaced(S, {t}) = At(S, t)
    BY <2>1 DEF Replaced
  <2>3. QED
    BY <2>1, <2>2 DEF Listed
<1>2. CASE ~(\A old \in At(S, t) : BumpMet(old, t))
  <2>1. Inserted(S, {t}) = {}
    BY <1>2 DEF Inserted
  <2>2. QED
    BY <1>2, <2>1
<1>3. QED
  BY <1>1, <1>2

\* A transaction takes the place of the one at its nonce.
LEMMA PlacedAgree ==
    ASSUME NEW q, Agree(q, {}), NEW t \in Tx, NEW r \in Pools,
           IsFiniteSet(r.pending), IsFiniteSet(r.queue), r.pending \cap r.queue = {},
           Lists(r) = (Lists(q) \ At(Lists(q), t)) \cup {t},
           r.all = (q.all \ At(Lists(q), t)) \cup {t}
    PROVE  Agree(r, {})
<1>1. Distinct(Lists(q)) /\ q.all = Lists(q)
  <2>1. Lists(q) \cup {} = Lists(q) /\ Lists(q) \ {} = Lists(q)
    OBVIOUS
  <2>2. QED
    BY <2>1 DEF Agree
<1>2. Distinct(Lists(r))
  <2>1. SUFFICES ASSUME NEW u \in Lists(r), NEW v \in Lists(r), u.from = v.from, u.nonce = v.nonce PROVE u = v
    BY DEF Distinct
  <2>2. \A x \in Lists(r) : x # t => x \in Lists(q) /\ ~(x.from = t.from /\ x.nonce = t.nonce)
    BY DEF At
  <2>3. QED
    BY <1>1, <2>1, <2>2 DEF Distinct
<1>3. r.all = Lists(r)
  BY <1>1
<1>4. Lists(r) \cup {} = Lists(r) /\ Lists(r) \ {} = Lists(r)
  OBVIOUS
<1>5. QED
  BY <1>2, <1>3, <1>4 DEF Agree

\* The one transaction more or less of the lookup.
LEMMA PlacedSize ==
    ASSUME NEW q, Agree(q, {}), NEW O \in SUBSET q.all, NEW t,
           Cardinality(q.all) + 1 <= GlobalSlots + GlobalQueue
    PROVE  Cardinality((q.all \ O) \cup {t}) <= GlobalSlots + GlobalQueue
<1>1. GlobalSlots \in Nat /\ GlobalQueue \in Nat
  BY LegacyPoolAssumption
<1>2. IsFiniteSet(q.pending \cup q.queue)
  BY FS_Union DEF Agree
<1>3. q.all \subseteq q.pending \cup q.queue
  BY DEF Agree, Lists
<1>4. IsFiniteSet(q.all)
  BY <1>2, <1>3, FS_Subset
<1>5. IsFiniteSet(q.all \ O) /\ Cardinality(q.all \ O) <= Cardinality(q.all)
  BY <1>4, FS_Subset
<1>6. Cardinality(q.all \ O) \in Nat /\ Cardinality(q.all) \in Nat
  BY <1>4, <1>5, FS_CardinalityType
<1>7. Cardinality((q.all \ O) \cup {t})
          = IF t \in q.all \ O THEN Cardinality(q.all \ O) ELSE Cardinality(q.all \ O) + 1
  BY <1>5, FS_AddElement
<1>8. QED
  BY <1>1, <1>5, <1>6, <1>7

\* The sender of a listed transaction is held as any other.
LEMMA PlacedHeld ==
    ASSUME NEW q, NEW t, Held(q, {t.from}), t.from \in Account, NEW r, r.reserved = q.reserved,
           HasList(r, t.from), \A a \in Account : a # t.from => HasList(r, a) = HasList(q, a)
    PROVE  Held(r, {})
BY DEF Held

\* A pending transaction is replaced.
LEMMA PendingReplaced ==
    ASSUME NEW p, NEW q, NEW t \in Tx, NEW n, NEW b, NEW d, Roomy(p, q, t, n, b, d), t.price <= b[t.from],
           At(q.pending, t) # {}, NEW r \in Pools,
           r.pending = (q.pending \ At(q.pending, t)) \cup {t}, r.queue = q.queue,
           r.all = (q.all \ At(q.pending, t)) \cup {t}, r.nonces = q.nonces, r.reserved = q.reserved
    PROVE  PoolInv(r, {}, n, b, d)
<1>1. /\ Agree(q, {}) /\ Held(q, {t.from}) /\ Contiguous(q, n) /\ Paid(q, b)
      /\ NoneFirst(q, n, Account \ d) /\ PendingLimit(q)
      /\ Cardinality(q.all) + 1 <= GlobalSlots + GlobalQueue /\ t \notin q.all
      /\ n \in AccountNonces /\ b \in [Account -> Balances] /\ d \subseteq Account
  BY DEF Roomy
<1>2. /\ q.pending \cap q.queue = {} /\ q.all = q.pending \cup q.queue /\ Distinct(q.pending \cup q.queue)
      /\ IsFiniteSet(q.pending) /\ IsFiniteSet(q.queue)
  <2>1. Lists(q) \cup {} = Lists(q) /\ Lists(q) \ {} = Lists(q)
    OBVIOUS
  <2>2. QED
    BY <1>1, <2>1 DEF Agree, Lists
<1>3. PICK u : u \in q.pending /\ u.from = t.from /\ u.nonce = t.nonce
  BY DEF At
<1>4. At(q.pending, t) = {u} /\ At(Lists(q), t) = {u}
  BY <1>2, <1>3 DEF At, Distinct, Lists
<1>5. /\ r.pending = (q.pending \ {u}) \cup {t} /\ r.all = (q.all \ {u}) \cup {t} /\ t # u /\ t \notin q.pending
  BY <1>1, <1>2, <1>3, <1>4
<1>6. IsFiniteSet(r.pending) /\ Cardinality(r.pending) = Cardinality(q.pending)
  <2>1. IsFiniteSet(q.pending \ {u}) /\ Cardinality(q.pending \ {u}) = Cardinality(q.pending) - 1
    BY <1>2, <1>3, FS_RemoveElement
  <2>2. t \notin q.pending \ {u}
    BY <1>5
  <2>3. /\ IsFiniteSet((q.pending \ {u}) \cup {t})
        /\ Cardinality((q.pending \ {u}) \cup {t}) = Cardinality(q.pending \ {u}) + 1
    BY <2>1, <2>2, FS_AddElement
  <2>4. Cardinality(q.pending) \in Nat
    BY <1>2, FS_CardinalityType
  <2>5. r.pending = (q.pending \ {u}) \cup {t}
    BY <1>5
  <2>6. Cardinality((q.pending \ {u}) \cup {t}) = Cardinality(q.pending)
    BY <2>1, <2>3, <2>4
  <2>7. QED
    BY <2>3, <2>5, <2>6, Zenon
<1>7. Agree(r, {})
  <2>1. r.pending \cap r.queue = {} /\ IsFiniteSet(r.queue)
    BY <1>1, <1>2, <1>5
  <2>2. Lists(r) = (Lists(q) \ {u}) \cup {t}
    BY <1>2, <1>3, <1>5 DEF Lists
  <2>3. QED
    BY <1>1, <1>4, <1>5, <1>6, <2>1, <2>2, PlacedAgree
<1>8. \A a : NoncesOf(r.pending, a) = NoncesOf(q.pending, a)
  <2>1. SUFFICES ASSUME NEW a, NEW k PROVE k \in NoncesOf(r.pending, a) <=> k \in NoncesOf(q.pending, a)
    BY DEF NoncesOf
  <2>2. \A x : x \in r.pending <=> (x \in q.pending /\ x # u) \/ x = t
    BY <1>5
  <2>3. QED
    BY <1>3, <2>2, OfFacts
<1>9. Contiguous(r, n)
  BY <1>1, <1>8 DEF Contiguous
<1>10. Paid(r, b)
  BY <1>1, <1>5 DEF Paid
<1>11. NoneFirst(r, n, Account \ d)
  BY <1>1 DEF NoneFirst
<1>12. PendingLimit(r)
  <2>1. ASSUME NEW a \in Account PROVE Cardinality(Of(r.pending, a)) = Cardinality(Of(q.pending, a))
    <3>1. Cardinality(Of(q.pending, a)) = q.nonces[a] - n[a]
      BY <1>1, PendingCount
    <3>2. Cardinality(Of(r.pending, a)) = r.nonces[a] - n[a]
      <4>1. n \in AccountNonces /\ Agree(r, {}) /\ Contiguous(r, n)
        BY <1>1, <1>7, <1>9
      <4>2. PICK v, m : v = r /\ m = n
        OBVIOUS
      <4>3. m \in AccountNonces /\ Agree(v, {}) /\ Contiguous(v, m)
        BY <4>1, <4>2
      <4>4. Cardinality(Of(v.pending, a)) = v.nonces[a] - m[a]
        BY <4>3, PendingCount
      <4>5. QED
        BY <4>2, <4>4
    <3>3. QED
      BY <3>1, <3>2
  <2>2. QED
    BY <1>1, <1>6, <2>1 DEF PendingLimit
<1>13. Held(r, {})
  <2>1. t.from \in Account
    BY TxFields
  <2>2. HasList(r, t.from)
    BY <1>5 DEF HasList, Of
  <2>3. \A a \in Account : a # t.from => HasList(r, a) = HasList(q, a)
    <3>1. SUFFICES ASSUME NEW a \in Account, a # t.from PROVE Of(r.pending, a) = Of(q.pending, a)
      BY DEF HasList
    <3>2. QED
      BY <1>3, <1>5, <3>1 DEF Of
  <2>4. QED
    BY <1>1, <2>1, <2>2, <2>3, PlacedHeld
<1>14. Cardinality(r.all) <= GlobalSlots + GlobalQueue
  <2>1. {u} \in SUBSET q.all
    BY <1>2, <1>3
  <2>2. QED
    BY <1>1, <1>5, <2>1, PlacedSize
<1>15. QED
  BY <1>1, <1>7, <1>9, <1>10, <1>11, <1>12, <1>13, <1>14 DEF PoolInv, Sound

\* A transaction joins the queue, or replaces one there.
LEMMA QueuePlaced ==
    ASSUME NEW p, NEW q, NEW t \in Tx, NEW n, NEW b, NEW d, Roomy(p, q, t, n, b, d),
           At(q.pending, t) = {}, NEW r \in Pools,
           r.pending = q.pending, r.queue = (q.queue \ At(q.queue, t)) \cup {t},
           r.all = (q.all \ At(q.queue, t)) \cup {t}, r.nonces = q.nonces, r.reserved = q.reserved
    PROVE  PoolInv(r, {}, n, b, IF At(q.queue, t) = {} THEN d \cup {t.from} ELSE d)
<1>1. /\ Agree(q, {}) /\ Held(q, {t.from}) /\ Contiguous(q, n) /\ Paid(q, b)
      /\ NoneFirst(q, n, Account \ d) /\ PendingLimit(q)
      /\ Cardinality(q.all) + 1 <= GlobalSlots + GlobalQueue /\ t \notin q.all
      /\ n \in AccountNonces /\ b \in [Account -> Balances] /\ d \subseteq Account
  BY DEF Roomy
<1>2. /\ q.pending \cap q.queue = {} /\ q.all = q.pending \cup q.queue
      /\ IsFiniteSet(q.pending) /\ IsFiniteSet(q.queue)
  <2>1. Lists(q) \ {} = Lists(q)
    OBVIOUS
  <2>2. QED
    BY <1>1, <2>1 DEF Agree, Lists
<1>3. PICK O, e : O = At(q.queue, t) /\ e = (IF At(q.queue, t) = {} THEN d \cup {t.from} ELSE d)
  OBVIOUS
<1>4. O \subseteq q.queue /\ At(Lists(q), t) = O
  BY <1>3 DEF At, Lists
<1>5. r.queue = (q.queue \ O) \cup {t} /\ r.all = (q.all \ O) \cup {t}
  BY <1>3
<1>6. t.from \in Account
  BY TxFields
<1>7. Agree(r, {})
  <2>1. IsFiniteSet(q.queue \ O)
    BY <1>2, FS_Subset
  <2>2. IsFiniteSet(r.queue)
    BY <1>5, <2>1, FS_AddElement
  <2>3. r.pending \cap r.queue = {} /\ IsFiniteSet(r.pending)
    BY <1>1, <1>2, <1>5
  <2>4. Lists(r) = (Lists(q) \ O) \cup {t}
    BY <1>2, <1>4, <1>5 DEF Lists
  <2>5. QED
    BY <1>1, <1>4, <1>5, <2>2, <2>3, <2>4, PlacedAgree
<1>8. Contiguous(r, n) /\ Paid(r, b) /\ PendingLimit(r)
  BY <1>1 DEF Contiguous, Paid, PendingLimit
<1>9. Held(r, {})
  <2>1. HasList(r, t.from)
    BY <1>5 DEF HasList, Of
  <2>2. \A a \in Account : a # t.from => HasList(r, a) = HasList(q, a)
    <3>1. SUFFICES ASSUME NEW a \in Account, a # t.from PROVE Of(r.queue, a) = Of(q.queue, a)
      BY DEF HasList
    <3>2. \A x \in O : x.from = t.from
      BY <1>3 DEF At
    <3>3. QED
      BY <1>5, <3>1, <3>2 DEF Of
  <2>3. QED
    BY <1>1, <1>6, <2>1, <2>2, PlacedHeld
<1>10. Cardinality(r.all) <= GlobalSlots + GlobalQueue
  <2>1. O \in SUBSET q.all
    BY <1>2, <1>4
  <2>2. QED
    BY <1>1, <1>5, <2>1, PlacedSize
<1>11. NoneFirst(r, n, Account \ e)
  <2>1. SUFFICES ASSUME NEW a \in Account, a \notin e, n[a] \in NoncesOf(r.queue, a) PROVE FALSE
    BY DEF NoneFirst
  <2>2. PICK x \in r.queue : x.from = a /\ x.nonce = n[a]
    BY <2>1, OfFacts
  <2>3. n[a] \in NoncesOf(q.queue, a)
    <3>1. CASE x = t
      <4>1. O # {}
        BY <1>3, <2>1, <2>2, <3>1
      <4>2. PICK u \in q.queue : u.from = t.from /\ u.nonce = t.nonce
        BY <1>3, <4>1 DEF At
      <4>3. QED
        BY <2>2, <3>1, <4>2, OfFacts
    <3>2. CASE x # t
      BY <1>5, <2>2, <3>2, OfFacts
    <3>3. QED
      BY <3>1, <3>2
  <2>4. a \notin d
    BY <1>3, <2>1
  <2>5. QED
    BY <1>1, <2>3, <2>4 DEF NoneFirst
<1>12. e \subseteq Account
  BY <1>1, <1>3, <1>6
<1>13. PoolInv(r, {}, n, b, e)
  BY <1>1, <1>7, <1>8, <1>9, <1>10, <1>11, <1>12 DEF PoolInv, Sound
<1>14. QED
  BY <1>3, <1>13

\* The transaction is placed, or refused because it does not pay enough more.
LEMMA PlacedKeeps ==
    ASSUME NEW q, NEW t \in Tx, Roomy(pool, q, t, nonce, balance, dirty), t.price <= balance[t.from],
           Placed(q, t)
    PROVE  PoolInv(pool', {}, nonce, balance, dirty')
<1>1. /\ Agree(q, {}) /\ Held(q, {t.from}) /\ q \in Pools /\ t.from \in Account
      /\ HasList(q, t.from) => HasList(pool, t.from)
      /\ nonce \in AccountNonces /\ balance \in [Account -> Balances] /\ dirty \subseteq Account
  BY TxFields DEF Roomy, Agree
<1>2. q.pending \in SUBSET Tx /\ q.queue \in SUBSET Tx /\ q.all \in SUBSET Tx
  BY <1>1, PoolFields
<1>3. CASE At(q.pending, t) # {} /\ Inserted(q.pending, {t}) # {}
  <2>1. ListFor(q, t) = "pending"
    BY <1>3 DEF ListFor
  <2>2. /\ pool' = [q EXCEPT !.pending = Listed(q.pending, {t}), !.all = (q.all \ Replaced(q.pending, {t})) \cup {t}]
        /\ dirty' = IF Replaced(q.pending, {t}) = {} THEN dirty \cup {t.from} ELSE dirty
    BY <1>3, <2>1, Zenon DEF Placed
  <2>3. Replaced(q.pending, {t}) = At(q.pending, t) /\ Listed(q.pending, {t}) = (q.pending \ At(q.pending, t)) \cup {t}
    BY <1>3, OneListed
  <2>4. PICK r, P, L : /\ r = pool' /\ P = (q.pending \ At(q.pending, t)) \cup {t}
                       /\ L = (q.all \ At(q.pending, t)) \cup {t}
    OBVIOUS
  <2>5. r = [q EXCEPT !.pending = P, !.all = L]
    BY <2>2, <2>3, <2>4
  <2>6. P \in SUBSET Tx /\ L \in SUBSET Tx
    BY <1>2, <2>4
  <2>7. /\ r \in Pools /\ r.pending = P /\ r.queue = q.queue /\ r.all = L
        /\ r.nonces = q.nonces /\ r.reserved = q.reserved
    BY <1>1, <2>5, <2>6 DEF Pools
  <2>8. PoolInv(r, {}, nonce, balance, dirty)
    BY <1>3, <2>4, <2>7, PendingReplaced
  <2>9. dirty' = dirty
    BY <1>3, <2>2, <2>3
  <2>10. QED
    BY <2>4, <2>8, <2>9
<1>4. CASE At(q.pending, t) = {} /\ Inserted(q.queue, {t}) # {}
  <2>1. ListFor(q, t) = "queue"
    BY <1>4 DEF ListFor
  <2>2. /\ pool' = [q EXCEPT !.queue = Listed(q.queue, {t}), !.all = (q.all \ Replaced(q.queue, {t})) \cup {t}]
        /\ dirty' = IF Replaced(q.queue, {t}) = {} THEN dirty \cup {t.from} ELSE dirty
    BY <1>4, <2>1, Zenon DEF Placed
  <2>3. Replaced(q.queue, {t}) = At(q.queue, t) /\ Listed(q.queue, {t}) = (q.queue \ At(q.queue, t)) \cup {t}
    BY <1>4, OneListed
  <2>4. PICK r, P, L : /\ r = pool' /\ P = (q.queue \ At(q.queue, t)) \cup {t}
                       /\ L = (q.all \ At(q.queue, t)) \cup {t}
    OBVIOUS
  <2>5. r = [q EXCEPT !.queue = P, !.all = L]
    BY <2>2, <2>3, <2>4
  <2>6. P \in SUBSET Tx /\ L \in SUBSET Tx
    BY <1>2, <2>4
  <2>7. /\ r \in Pools /\ r.queue = P /\ r.pending = q.pending /\ r.all = L
        /\ r.nonces = q.nonces /\ r.reserved = q.reserved
    BY <1>1, <2>5, <2>6 DEF Pools
  <2>8. PoolInv(r, {}, nonce, balance, IF At(q.queue, t) = {} THEN dirty \cup {t.from} ELSE dirty)
    BY <1>4, <2>4, <2>7, QueuePlaced
  <2>9. dirty' = IF At(q.queue, t) = {} THEN dirty \cup {t.from} ELSE dirty
    BY <2>2, <2>3
  <2>10. QED
    BY <2>4, <2>8, <2>9
<1>5. CASE \/ At(q.pending, t) # {} /\ Inserted(q.pending, {t}) = {}
           \/ At(q.pending, t) = {} /\ Inserted(q.queue, {t}) = {}
  <2>1. HasList(q, t.from)
    <3>1. At(q.pending, t) # {} \/ At(q.queue, t) # {}
      BY <1>5, OneListed
    <3>2. QED
      BY <3>1 DEF At, HasList, Of
  <2>2. HasList(pool, t.from)
    BY <1>1, <2>1
  <2>3. pool' = q /\ dirty' = dirty
    <3>1. CASE At(q.pending, t) # {} /\ Inserted(q.pending, {t}) = {}
      <4>1. ListFor(q, t) = "pending"
        BY <3>1 DEF ListFor
      <4>2. QED
        BY <2>2, <3>1, <4>1, Zenon DEF Placed
    <3>2. CASE At(q.pending, t) = {} /\ Inserted(q.queue, {t}) = {}
      <4>1. ListFor(q, t) = "queue"
        BY <3>2 DEF ListFor
      <4>2. QED
        BY <2>2, <3>2, <4>1, Zenon DEF Placed
    <3>3. QED
      BY <1>5, <3>1, <3>2
  <2>4. Held(q, {})
    BY <1>1, <2>1 DEF Held
  <2>5. Cardinality(q.all) <= GlobalSlots + GlobalQueue
    <3>1. Cardinality(q.all) + 1 <= GlobalSlots + GlobalQueue
      BY DEF Roomy
    <3>2. IsFiniteSet(q.pending \cup q.queue) /\ q.all \subseteq q.pending \cup q.queue
      BY <1>1, FS_Union DEF Agree, Lists
    <3>3. Cardinality(q.all) \in Nat
      BY <3>2, FS_Subset, FS_CardinalityType
    <3>4. GlobalSlots \in Nat /\ GlobalQueue \in Nat
      BY LegacyPoolAssumption
    <3>5. QED
      BY <3>1, <3>3, <3>4
  <2>6. PoolInv(q, {}, nonce, balance, dirty)
    BY <2>4, <2>5 DEF Roomy, PoolInv, Sound
  <2>7. QED
    BY <2>3, <2>6
<1>6. QED
  BY <1>3, <1>4, <1>5

(***************************************************************************)
(* The steps.  The pool is filed and within its limits after each of them. *)
(* As long as no run and no eviction came between the writes of Remove to  *)
(* the lists, it is also in agreement, or will be by what Remove has left  *)
(* to write.                                                               *)
(***************************************************************************)
\* A pool that is filed and, before the phase ph of a run, within its limits.
Limited(p, ph) ==
    /\ Filed(p) /\ Cardinality(p.all) <= GlobalSlots + GlobalQueue
    /\ ph = "idle" => PendingLimit(p)

\* A lookup with fewer transactions.
LEMMA LookupLimited ==
    ASSUME NEW p, Filed(p), NEW q, Files(p, q), Cardinality(p.all) <= GlobalSlots + GlobalQueue
    PROVE  Cardinality(q.all) <= GlobalSlots + GlobalQueue
<1>1. IsFiniteSet(p.all) /\ q.all \subseteq p.all /\ GlobalSlots \in Nat /\ GlobalQueue \in Nat
  BY LegacyPoolAssumption DEF Filed, Files
<1>2. IsFiniteSet(q.all) /\ Cardinality(q.all) <= Cardinality(p.all)
  BY <1>1, FS_Subset
<1>3. Cardinality(q.all) \in Nat /\ Cardinality(p.all) \in Nat
  BY <1>1, <1>2, FS_CardinalityType
<1>4. QED
  BY <1>1, <1>2, <1>3

\* An operation that makes nothing pending keeps the limits.
LEMMA FewerLimited ==
    ASSUME NEW p, NEW ph, Limited(p, ph), NEW q, Fewer(p, q)
    PROVE  Limited(q, ph)
<1>1. Filed(p) /\ Filed(q) /\ Files(p, q)
  BY DEF Limited, Fewer, Files
<1>2. Cardinality(q.all) <= GlobalSlots + GlobalQueue
  BY <1>1, LookupLimited DEF Limited
<1>3. ph = "idle" => PendingLimit(q)
  BY <1>1, SmallerPending DEF Limited, Fewer
<1>4. QED
  BY <1>1, <1>2, <1>3 DEF Limited

\* One for one or more.
LEMMA ReplacedCount ==
    ASSUME NEW S, IsFiniteSet(S), NEW O \in SUBSET S, O # {}, NEW t
    PROVE  Cardinality((S \ O) \cup {t}) <= Cardinality(S)
<1>1. PICK o : o \in O
  OBVIOUS
<1>2. S \ O \subseteq S \ {o} /\ o \in S
  BY <1>1
<1>3. IsFiniteSet(S \ {o}) /\ Cardinality(S \ {o}) = Cardinality(S) - 1
  BY <1>2, FS_RemoveElement
<1>4. IsFiniteSet(S \ O) /\ Cardinality(S \ O) <= Cardinality(S \ {o})
  BY <1>2, <1>3, FS_Subset
<1>5. Cardinality((S \ O) \cup {t}) = IF t \in S \ O THEN Cardinality(S \ O) ELSE Cardinality(S \ O) + 1
  BY <1>4, FS_AddElement
<1>6. Cardinality(S) \in Nat /\ Cardinality(S \ O) \in Nat
  BY <1>4, FS_CardinalityType
<1>7. QED
  BY <1>3, <1>4, <1>5, <1>6

\* A pending transaction takes the place of another.
LEMMA ReplacedLimited ==
    ASSUME NEW p, Filed(p), PendingLimit(p), NEW t \in Tx, At(p.pending, t) # {},
           NEW r, r.pending = (p.pending \ At(p.pending, t)) \cup {t}
    PROVE  PendingLimit(r)
<1>1. PICK S, O : S = p.pending /\ O = At(S, t)
  OBVIOUS
<1>2. IsFiniteSet(S) /\ O \subseteq S /\ O # {} /\ (\A u \in O : u.from = t.from) /\ r.pending = (S \ O) \cup {t}
  BY <1>1 DEF Filed, At
<1>3. GlobalSlots \in Nat /\ AccountSlots \in Nat
  BY LegacyPoolAssumption
<1>4. Cardinality(r.pending) <= Cardinality(S)
  BY <1>2, ReplacedCount
<1>5. IsFiniteSet(r.pending)
  BY <1>2, FS_AddElement, FS_Subset
<1>6. CASE Cardinality(S) <= GlobalSlots
  <2>1. Cardinality(r.pending) \in Nat /\ Cardinality(S) \in Nat
    BY <1>2, <1>5, FS_CardinalityType
  <2>2. QED
    BY <1>3, <1>4, <1>6, <2>1 DEF PendingLimit
<1>7. CASE \A a \in Account : Cardinality(Of(S, a)) <= AccountSlots
  <2>1. SUFFICES ASSUME NEW a \in Account PROVE Cardinality(Of(r.pending, a)) <= AccountSlots
    BY DEF PendingLimit
  <2>2. PICK M : M = Of(S, a)
    OBVIOUS
  <2>3. IsFiniteSet(M) /\ Cardinality(M) \in Nat /\ Cardinality(M) <= AccountSlots
    <3>1. M \subseteq S
      BY <2>2 DEF Of
    <3>2. QED
      BY <1>2, <1>7, <2>2, <3>1, FS_Subset, FS_CardinalityType
  <2>4. CASE a # t.from
    <3>1. Of(r.pending, a) = M
      BY <1>2, <2>2, <2>4 DEF Of
    <3>2. QED
      BY <2>3, <3>1
  <2>5. CASE a = t.from
    <3>1. Of(r.pending, a) = (M \ O) \cup {t} /\ O \in SUBSET M
      BY <1>2, <2>2, <2>5 DEF Of
    <3>2. Cardinality((M \ O) \cup {t}) <= Cardinality(M)
      BY <1>2, <2>3, <3>1, ReplacedCount
    <3>3. IsFiniteSet((M \ O) \cup {t})
      BY <2>3, FS_AddElement, FS_Subset
    <3>4. Cardinality((M \ O) \cup {t}) \in Nat
      BY <3>3, FS_CardinalityType
    <3>5. QED
      BY <1>3, <2>3, <3>1, <3>2, <3>4
  <2>6. QED
    BY <2>4, <2>5
<1>8. QED
  BY <1>1, <1>6, <1>7 DEF PendingLimit

\* There is one transaction more in the lookup.
LEMMA LookupOneMore ==
    ASSUME NEW q, Filed(q), NEW O, NEW t, Cardinality(q.all) + 1 <= GlobalSlots + GlobalQueue
    PROVE  IsFiniteSet((q.all \ O) \cup {t}) /\ Cardinality((q.all \ O) \cup {t}) <= GlobalSlots + GlobalQueue
<1>1. GlobalSlots \in Nat /\ GlobalQueue \in Nat /\ IsFiniteSet(q.all)
  BY LegacyPoolAssumption DEF Filed
<1>2. IsFiniteSet(q.all \ O) /\ Cardinality(q.all \ O) <= Cardinality(q.all)
  BY <1>1, FS_Subset
<1>3. Cardinality(q.all \ O) \in Nat /\ Cardinality(q.all) \in Nat
  BY <1>1, <1>2, FS_CardinalityType
<1>4. /\ IsFiniteSet((q.all \ O) \cup {t})
      /\ Cardinality((q.all \ O) \cup {t})
            = IF t \in q.all \ O THEN Cardinality(q.all \ O) ELSE Cardinality(q.all \ O) + 1
  BY <1>2, FS_AddElement
<1>5. QED
  BY <1>1, <1>2, <1>3, <1>4

\* The transaction is placed, or refused.
LEMMA PlacedLimited ==
    ASSUME NEW q, Filed(q), PendingLimit(q), Cardinality(q.all) + 1 <= GlobalSlots + GlobalQueue,
           NEW t \in Tx, Placed(q, t)
    PROVE  Limited(pool', "idle")
<1>1. /\ q \in Pools /\ q.pending \in SUBSET Tx /\ q.queue \in SUBSET Tx /\ q.all \in SUBSET Tx
      /\ IsFiniteSet(q.pending) /\ Distinct(q.pending) /\ IsFiniteSet(q.queue) /\ Distinct(q.queue)
  BY PoolFields DEF Filed
<1>2. IsFiniteSet({t}) /\ Distinct({t}) /\ {t} \in SUBSET Tx
  BY FS_Singleton DEF Distinct
<1>3. PICK r : r = pool'
  OBVIOUS
<1>4. CASE At(q.pending, t) # {} /\ Inserted(q.pending, {t}) # {}
  <2>1. ListFor(q, t) = "pending"
    BY <1>4 DEF ListFor
  <2>2. PICK P, L : P = Listed(q.pending, {t}) /\ L = (q.all \ Replaced(q.pending, {t})) \cup {t}
    OBVIOUS
  <2>3. r = [q EXCEPT !.pending = P, !.all = L]
    BY <1>3, <1>4, <2>1, <2>2, Zenon DEF Placed
  <2>4. P \in SUBSET Tx /\ IsFiniteSet(P) /\ Distinct(P)
    BY <1>1, <1>2, <2>2, ListedFiled
  <2>5. L \in SUBSET Tx /\ IsFiniteSet(L) /\ Cardinality(L) <= GlobalSlots + GlobalQueue
    BY <1>1, <2>2, LookupOneMore
  <2>6. r \in Pools /\ r.pending = P /\ r.queue = q.queue /\ r.all = L
    BY <1>1, <2>3, <2>4, <2>5 DEF Pools
  <2>7. P = (q.pending \ At(q.pending, t)) \cup {t}
    BY <1>4, <2>2, OneListed
  <2>8. PendingLimit(r)
    BY <1>4, <2>6, <2>7, ReplacedLimited
  <2>9. Limited(r, "idle")
    BY <1>1, <2>4, <2>5, <2>6, <2>8 DEF Limited, Filed
  <2>10. QED
    BY <1>3, <2>9
<1>5. CASE At(q.pending, t) = {} /\ Inserted(q.queue, {t}) # {}
  <2>1. ListFor(q, t) = "queue"
    BY <1>5 DEF ListFor
  <2>2. PICK P, L : P = Listed(q.queue, {t}) /\ L = (q.all \ Replaced(q.queue, {t})) \cup {t}
    OBVIOUS
  <2>3. r = [q EXCEPT !.queue = P, !.all = L]
    BY <1>3, <1>5, <2>1, <2>2, Zenon DEF Placed
  <2>4. P \in SUBSET Tx /\ IsFiniteSet(P) /\ Distinct(P)
    BY <1>1, <1>2, <2>2, ListedFiled
  <2>5. L \in SUBSET Tx /\ IsFiniteSet(L) /\ Cardinality(L) <= GlobalSlots + GlobalQueue
    BY <1>1, <2>2, LookupOneMore
  <2>6. r \in Pools /\ r.queue = P /\ r.pending = q.pending /\ r.all = L
    BY <1>1, <2>3, <2>4, <2>5 DEF Pools
  <2>7. PendingLimit(r)
    BY <2>6 DEF PendingLimit
  <2>8. Limited(r, "idle")
    BY <1>1, <2>4, <2>5, <2>6, <2>7 DEF Limited, Filed
  <2>9. QED
    BY <1>3, <2>8
<1>6. CASE \/ At(q.pending, t) # {} /\ Inserted(q.pending, {t}) = {}
           \/ At(q.pending, t) = {} /\ Inserted(q.queue, {t}) = {}
  <2>1. r = q \/ r = [q EXCEPT !.reserved = @ \ {t.from}]
    <3>1. CASE At(q.pending, t) # {} /\ Inserted(q.pending, {t}) = {}
      <4>1. ListFor(q, t) = "pending"
        BY <3>1 DEF ListFor
      <4>2. QED
        BY <1>3, <3>1, <4>1, Zenon DEF Placed
    <3>2. CASE At(q.pending, t) = {} /\ Inserted(q.queue, {t}) = {}
      <4>1. ListFor(q, t) = "queue"
        BY <3>2 DEF ListFor
      <4>2. QED
        BY <1>3, <3>2, <4>1, Zenon DEF Placed
    <3>3. QED
      BY <1>6, <3>1, <3>2
  <2>2. r \in Pools /\ r.pending = q.pending /\ r.queue = q.queue /\ r.all = q.all
    BY <1>1, <2>1 DEF Pools
  <2>3. Fewer(q, r)
    BY <2>2, PartsFiled
  <2>4. Limited(q, "idle")
    <3>1. Cardinality(q.all) \in Nat /\ GlobalSlots \in Nat /\ GlobalQueue \in Nat
      BY LegacyPoolAssumption, FS_CardinalityType DEF Filed
    <3>2. QED
      BY <3>1 DEF Limited
  <2>5. QED
    BY <1>3, <2>3, <2>4, FewerLimited
<1>7. QED
  BY <1>4, <1>5, <1>6

\* Holding the sender changes no list.
LEMMA HoldFiled ==
    ASSUME NEW p, Filed(p), NEW a \in Account
    PROVE  Fewer(p, Hold(p, a)) /\ Hold(p, a).all = p.all
<1>1. PICK h : h = Hold(p, a)
  OBVIOUS
<1>2. h = p \/ h = [p EXCEPT !.reserved = @ \cup {a}]
  BY <1>1 DEF Hold
<1>3. h \in Pools /\ h.pending = p.pending /\ h.queue = p.queue /\ h.all = p.all
  BY <1>2 DEF Filed, Pools
<1>4. QED
  BY <1>1, <1>3, PartsFiled

\* The pool once Remove has enqueued the transactions I and lowered the virtual nonce for t.
Enqueued(p, I, t) == [p EXCEPT !.queue = @ \cup I, !.nonces[t.from] = Min({@, t.nonce})]

\* The lists agree, or will once Remove has written what it has left.
Whole(p, rem, ph, n, b, d) ==
    /\ rem.step \notin {"idle", "lookup"} => ph = "idle"
    /\ rem.step \in {"idle", "lookup", "queue"} => Phased(ph, p, rem.txs, n, b, d)
    /\ rem.step = "queue" => \A t \in rem.txs : At(p.pending, t) = {}
    /\ rem.step = "enqueue" => \A t \in rem.txs :
          /\ rem.invalids \cap p.queue = {} /\ \A u \in rem.invalids : u.from = t.from
          /\ Phased("idle", Release(Enqueued(p, rem.invalids, t), {t.from}), {}, n, b, d)
    /\ rem.step = "release" => \A t \in rem.txs : Phased("idle", Release(p, {t.from}), {}, n, b, d)

\* The types of what is not the pool.
LegacyPoolTypes ==
    /\ nonce \in AccountNonces /\ balance \in [Account -> Balances] /\ dirty \subseteq Account
    /\ changes \in Nat /\ crossed \in BOOLEAN
    /\ phase \in {"idle", "demote", "nonces", "truncate"}

\* Remove is at one transaction.
OneRemoved(rem) ==
    /\ rem \in [step : {"idle", "lookup", "queue", "enqueue", "release"}, txs : SUBSET Tx, invalids : SUBSET Tx]
    /\ rem.step = "idle" => rem.txs = {}
    /\ rem.step # "idle" => \E t \in Tx : rem.txs = {t}
    /\ rem.step # "enqueue" => rem.invalids = {}

\* The inductive invariant.
LegacyPoolInv ==
    /\ LegacyPoolTypes /\ OneRemoved(removing) /\ Limited(pool, phase)
    /\ ~crossed => Whole(pool, removing, phase, nonce, balance, dirty)

\* Before Remove has come to the lists.
LEMMA WholeOutside ==
    ASSUME NEW p, NEW rem, NEW ph, NEW n, NEW b, NEW d, rem.step \in {"idle", "lookup"}
    PROVE  Whole(p, rem, ph, n, b, d) <=> Phased(ph, p, rem.txs, n, b, d)
BY DEF Whole

\* The invariant of a pool whose lock is free.
LEMMA IdlePool ==
    ASSUME NEW p, NEW gone, NEW n \in AccountNonces, NEW b \in [Account -> Balances], NEW d \in SUBSET Account,
           Limited(p, "idle")
    PROVE  Phased("idle", p, gone, n, b, d) <=> PoolInv(p, gone, n, b, d)
BY DEF Limited, Phased, PoolInv

\* A transaction is added.
LEMMA AddKeeps ==
    ASSUME LegacyPoolInv, NEW t \in Tx, Add(t)
    PROVE  LegacyPoolInv'
<1>1. /\ phase = "idle" /\ removing.step = "idle" /\ t \notin pool.all /\ t.price <= balance[t.from]
      /\ nonce' = nonce /\ balance' = balance /\ removing' = removing /\ phase' = phase /\ crossed' = crossed
  BY DEF Add, Valid
<1>2. /\ LegacyPoolTypes /\ OneRemoved(removing) /\ Limited(pool, "idle") /\ removing.txs = {}
      /\ Filed(pool) /\ PendingLimit(pool) /\ Cardinality(pool.all) <= GlobalSlots + GlobalQueue
  BY <1>1 DEF LegacyPoolInv, OneRemoved, Limited
<1>3. /\ GlobalSlots \in Nat /\ GlobalQueue \in Nat /\ IsFiniteSet(pool.all) /\ Cardinality(pool.all) \in Nat
      /\ t.from \in Account
  BY <1>2, LegacyPoolAssumption, FS_CardinalityType, TxFields DEF Filed
<1>4. ~crossed => PoolInv(pool, {}, nonce, balance, dirty)
  <2>1. SUFFICES ASSUME ~crossed PROVE PoolInv(pool, {}, nonce, balance, dirty)
    OBVIOUS
  <2>2. Phased("idle", pool, {}, nonce, balance, dirty)
    BY <1>1, <1>2, <2>1 DEF LegacyPoolInv, Whole
  <2>3. QED
    BY <1>2, <2>2, IdlePool DEF LegacyPoolTypes
<1>5. PICK h : h = Hold(pool, t.from)
  OBVIOUS
<1>6. Fewer(pool, h) /\ h.all = pool.all /\ Filed(h)
  BY <1>2, <1>3, <1>5, HoldFiled DEF Fewer, Files
<1>7. ASSUME NEW q, Filed(q), q.pending \subseteq pool.pending, Cardinality(q.all) + 1 <= GlobalSlots + GlobalQueue,
             ~crossed => Roomy(pool, q, t, nonce, balance, dirty), Placed(q, t), changes' \in Nat
      PROVE  LegacyPoolInv'
  <2>1. PendingLimit(q)
    BY <1>2, <1>7, SmallerPending
  <2>2. Limited(pool', "idle")
    BY <1>7, <2>1, PlacedLimited
  <2>3. dirty' \subseteq Account
    <3>1. dirty' = dirty \cup {t.from} \/ dirty' = dirty
      BY <1>7, Zenon DEF Placed
    <3>2. QED
      BY <1>2, <1>3, <3>1 DEF LegacyPoolTypes
  <2>4. ASSUME ~crossed PROVE Whole(pool', removing, "idle", nonce, balance, dirty')
    <3>1. PoolInv(pool', {}, nonce, balance, dirty')
      BY <1>1, <1>7, <2>4, PlacedKeeps
    <3>2. Phased("idle", pool', {}, nonce, balance, dirty')
      BY <3>1 DEF PoolInv, Phased
    <3>3. QED
      BY <1>1, <1>2, <3>2, WholeOutside
  <2>5. LegacyPoolTypes'
    BY <1>1, <1>2, <1>7, <2>3 DEF LegacyPoolTypes
  <2>6. QED
    BY <1>1, <1>2, <2>2, <2>4, <2>5 DEF LegacyPoolInv
<1>8. CASE ~Full /\ Placed(h, t) /\ UNCHANGED changes
  <2>1. Cardinality(h.all) + 1 <= GlobalSlots + GlobalQueue
    BY <1>3, <1>6, <1>8 DEF Full
  <2>2. ~crossed => Roomy(pool, h, t, nonce, balance, dirty)
    BY <1>1, <1>4, <1>5, <1>8, HoldMakesRoom DEF Full
  <2>3. h.pending \subseteq pool.pending /\ changes' \in Nat
    BY <1>2, <1>6, <1>8 DEF Fewer, LegacyPoolTypes
  <2>4. QED
    BY <1>6, <1>7, <1>8, <2>1, <2>2, <2>3
<1>9. ASSUME NEW c \in pool.all, Placed(Discarded(h, c, t), t), changes' = changes + DropCount(pool, c)
      PROVE  LegacyPoolInv'
  <2>1. PICK q : q = Discarded(h, c, t)
    OBVIOUS
  <2>2. c \in Tx /\ (c.from # t.from) \in BOOLEAN
    BY <1>2, PoolFields DEF Filed
  <2>3. Fewer(h, q) /\ c \notin q.all
    BY <1>6, <2>1, <2>2, RemovedFiled DEF Discarded
  <2>4. Filed(q) /\ q.pending \subseteq pool.pending /\ q.all \subseteq pool.all \ {c}
    BY <1>6, <2>3 DEF Fewer, Files
  <2>5. Cardinality(q.all) + 1 <= GlobalSlots + GlobalQueue
    <3>1. IsFiniteSet(pool.all \ {c}) /\ Cardinality(pool.all \ {c}) = Cardinality(pool.all) - 1
      BY <1>3, FS_RemoveElement
    <3>2. IsFiniteSet(q.all) /\ Cardinality(q.all) <= Cardinality(pool.all \ {c})
      BY <2>4, <3>1, FS_Subset
    <3>3. Cardinality(q.all) \in Nat
      BY <3>2, FS_CardinalityType
    <3>4. QED
      BY <1>2, <1>3, <3>1, <3>2, <3>3
  <2>6. ~crossed => Roomy(pool, q, t, nonce, balance, dirty)
    BY <1>1, <1>4, <1>5, <2>1, DiscardMakesRoom
  <2>7. changes' \in Nat
    <3>1. IsFiniteSet(After(pool, c))
      <4>1. After(pool, c) \subseteq pool.pending
        BY DEF After, Of
      <4>2. QED
        BY <1>2, <4>1, FS_Subset DEF Filed
    <3>2. DropCount(pool, c) \in Nat
      BY <3>1, FS_CardinalityType DEF DropCount
    <3>3. QED
      BY <1>2, <1>9, <3>2 DEF LegacyPoolTypes
  <2>8. QED
    BY <1>7, <1>9, <2>1, <2>4, <2>5, <2>6, <2>7
<1>10. QED
  BY <1>5, <1>8, <1>9 DEF Add

\* The pool of a node that starts is empty.
LEMMA NewKeeps ==
    ASSUME NEW n \in AccountNonces, NEW b \in [Account -> Balances]
    PROVE  Limited(New(n), "idle") /\ Phased("idle", New(n), {}, n, b, {})
<1>1. PICK p : p = New(n)
  OBVIOUS
<1>2. MaxNonce \in Nat /\ GlobalSlots \in Nat /\ GlobalQueue \in Nat
  BY LegacyPoolAssumption
<1>3. /\ p.pending = {} /\ p.queue = {} /\ p.all = {} /\ p.nonces = n
      /\ p.reserved = {} /\ p \in Pools
  BY <1>1 DEF New, Pools, AccountNonces
<1>4. Agree(p, {})
  BY <1>3, FS_EmptySet DEF Agree, Lists, Distinct
<1>5. Held(p, {})
  BY <1>3 DEF Held, HasList, Of
<1>6. Contiguous(p, n)
  <2>1. SUFFICES ASSUME NEW a \in Account
                 PROVE  n[a] <= n[a] /\ NoncesOf({}, a) = n[a]..(n[a] - 1)
    BY <1>3 DEF Contiguous
  <2>2. NoncesOf({}, a) = {}
    BY DEF NoncesOf, Of
  <2>3. n[a] \in Nat
    BY <1>2 DEF AccountNonces
  <2>4. n[a]..(n[a] - 1) = {} /\ n[a] <= n[a]
    BY <2>3
  <2>5. QED
    BY <2>2, <2>4
<1>7. Paid(p, b) /\ NoneFirst(p, n, Account \ {})
  BY <1>3 DEF Paid, NoneFirst, NoncesOf, Of
<1>8. PendingLimit(p) /\ Cardinality(p.all) <= GlobalSlots + GlobalQueue
  BY <1>2, <1>3, FS_EmptySet DEF PendingLimit
<1>9. Filed(p)
  BY <1>4, AgreeFiled
<1>10. Limited(p, "idle")
  BY <1>8, <1>9 DEF Limited
<1>11. Phased("idle", p, {}, n, b, {})
  BY <1>4, <1>5, <1>6, <1>7 DEF Phased, Sound
<1>12. QED
  BY <1>1, <1>10, <1>11

\* The node starts.
LEMMA InitKeeps ==
    ASSUME Init
    PROVE  LegacyPoolInv
<1>1. /\ nonce \in [Account -> {0}] /\ balance \in [Account -> Balances] /\ pool = New(nonce)
      /\ changes = 0 /\ dirty = {} /\ phase = "idle" /\ removing = NotRemoving /\ crossed = FALSE
  BY DEF Init
<1>2. nonce \in AccountNonces
  BY <1>1, LegacyPoolAssumption DEF AccountNonces
<1>3. OneRemoved(removing) /\ removing.step = "idle" /\ removing.txs = {}
  BY <1>1 DEF NotRemoving, OneRemoved
<1>4. Limited(pool, "idle") /\ Phased("idle", pool, {}, nonce, balance, dirty)
  BY <1>1, <1>2, NewKeeps
<1>5. Whole(pool, removing, "idle", nonce, balance, dirty)
  BY <1>3, <1>4, WholeOutside
<1>6. QED
  BY <1>1, <1>2, <1>3, <1>4, <1>5 DEF LegacyPoolInv, LegacyPoolTypes

\* The node ends, and starts again.
LEMMA CrashKeeps ==
    ASSUME LegacyPoolInv, Crash
    PROVE  LegacyPoolInv'
<1>1. /\ nonce' = nonce /\ balance' = balance /\ pool' = New(nonce)
      /\ changes' = 0 /\ dirty' = {} /\ phase' = "idle" /\ removing' = NotRemoving /\ crossed' = FALSE
  BY DEF Crash
<1>2. nonce \in AccountNonces /\ balance \in [Account -> Balances]
  BY DEF LegacyPoolInv, LegacyPoolTypes
<1>3. OneRemoved(NotRemoving) /\ NotRemoving.step = "idle" /\ NotRemoving.txs = {}
  BY DEF NotRemoving, OneRemoved
<1>4. Limited(pool', "idle") /\ Phased("idle", pool', {}, nonce, balance, {})
  BY <1>1, <1>2, NewKeeps
<1>5. Whole(pool', NotRemoving, "idle", nonce, balance, {})
  BY <1>3, <1>4, WholeOutside
<1>6. LegacyPoolTypes'
  BY <1>1, <1>2 DEF LegacyPoolTypes
<1>7. QED
  BY <1>1, <1>3, <1>4, <1>5, <1>6 DEF LegacyPoolInv

\* What the invariant says at a step that is not crossed: Remove is not at the lists.
LEMMA RunsAlone ==
    ASSUME LegacyPoolInv, ~(crossed \/ AmidLists)
    PROVE  /\ removing.step \in {"idle", "lookup"}
           /\ Phased(phase, pool, removing.txs, nonce, balance, dirty)
<1>1. removing.step \in {"idle", "lookup"}
  BY DEF LegacyPoolInv, OneRemoved, AmidLists
<1>2. QED
  BY <1>1, WholeOutside DEF LegacyPoolInv

\* What a phase of a run, or an eviction, has to show.
LEMMA PhaseKeeps ==
    ASSUME LegacyPoolInv, removing' = removing, crossed' = (crossed \/ AmidLists),
           LegacyPoolTypes', Limited(pool', phase'),
           ~(crossed \/ AmidLists) => Phased(phase', pool', removing.txs, nonce', balance', dirty')
    PROVE  LegacyPoolInv'
<1>1. OneRemoved(removing)
  BY DEF LegacyPoolInv
<1>2. ASSUME ~crossed' PROVE Whole(pool', removing, phase', nonce', balance', dirty')
  <2>1. ~(crossed \/ AmidLists)
    BY <1>2
  <2>2. removing.step \in {"idle", "lookup"}
    BY <2>1, RunsAlone
  <2>3. QED
    BY <2>1, <2>2, WholeOutside
<1>3. QED
  BY <1>1, <1>2 DEF LegacyPoolInv

\* A run without a new head.
LEMMA RunReorgKeeps ==
    ASSUME LegacyPoolInv, NEW D \in SUBSET dirty, RunReorg(D)
    PROVE  LegacyPoolInv'
<1>1. /\ phase = "idle" /\ phase' = "truncate" /\ pool' = PromoteExecutables(pool, D, nonce, balance)
      /\ dirty' = dirty \ D /\ crossed' = (crossed \/ AmidLists)
      /\ nonce' = nonce /\ balance' = balance /\ changes' = changes /\ removing' = removing
  BY DEF RunReorg
<1>2. LegacyPoolTypes /\ Limited(pool, phase) /\ Filed(pool) /\ nonce \in AccountNonces /\ dirty \in SUBSET Account
  BY DEF LegacyPoolInv, Limited, LegacyPoolTypes
<1>3. Files(pool, pool')
  BY <1>1, <1>2, PromotedAllFiled
<1>4. Limited(pool', phase')
  BY <1>1, <1>2, <1>3, LookupLimited DEF Limited, Files
<1>5. ASSUME ~(crossed \/ AmidLists) PROVE Phased(phase', pool', removing.txs, nonce', balance', dirty')
  <2>1. Phased("idle", pool, removing.txs, nonce, balance, dirty)
    BY <1>1, <1>5, RunsAlone
  <2>2. QED
    BY <1>1, <1>2, <2>1, ReorgKeeps
<1>6. LegacyPoolTypes'
  BY <1>1, <1>2, SMT DEF LegacyPoolTypes
<1>7. QED
  BY <1>1, <1>4, <1>5, <1>6, PhaseKeeps

\* A run with a new head.
LEMMA RunResetKeeps ==
    ASSUME LegacyPoolInv, NEW D, NEW a \in Account, NEW k \in 0..(MaxNonce + 1), NEW v \in Balances,
           k >= nonce[a], RunReset(D, [nonce EXCEPT ![a] = k], [balance EXCEPT ![a] = v])
    PROVE  LegacyPoolInv'
<1>1. PICK m, c : m = [nonce EXCEPT ![a] = k] /\ c = [balance EXCEPT ![a] = v]
  OBVIOUS
<1>2. /\ LegacyPoolTypes /\ Limited(pool, phase) /\ Filed(pool) /\ nonce \in AccountNonces
      /\ balance \in [Account -> Balances] /\ MaxNonce \in Nat
  BY LegacyPoolAssumption DEF LegacyPoolInv, Limited, LegacyPoolTypes
<1>3. m \in AccountNonces /\ c \in [Account -> Balances]
  BY <1>1, <1>2 DEF AccountNonces
<1>4. \A x \in Account : nonce[x] <= m[x]
  BY <1>1, <1>2 DEF AccountNonces
<1>5. RunReset(D, m, c)
  BY <1>1
<1>6. /\ phase = "idle" /\ phase' = "demote" /\ nonce' = m /\ balance' = c
      /\ pool' = PromoteExecutables([pool EXCEPT !.nonces = m], Account, m, c)
      /\ dirty' = dirty \ D /\ crossed' = (crossed \/ AmidLists)
      /\ changes' = changes /\ removing' = removing
  BY <1>5 DEF RunReset
<1>7. PICK s : s = [pool EXCEPT !.nonces = m]
  OBVIOUS
<1>8. Fewer(pool, s)
  BY <1>2, <1>3, <1>7, NoncesSetFiled
<1>9. Files(s, pool')
  BY <1>6, <1>7, <1>8, PromotedAllFiled DEF Fewer, Files
<1>10. Files(pool, pool')
  BY <1>8, <1>9 DEF Fewer, Files
<1>11. Limited(pool', phase')
  BY <1>2, <1>6, <1>10, LookupLimited DEF Limited, Files
<1>12. ASSUME ~(crossed \/ AmidLists) PROVE Phased(phase', pool', removing.txs, nonce', balance', dirty')
  <2>1. Phased("idle", pool, removing.txs, nonce, balance, dirty)
    BY <1>6, <1>12, RunsAlone
  <2>2. QED
    BY <1>2, <1>3, <1>4, <1>6, <2>1, ResetKeeps
<1>13. LegacyPoolTypes'
  BY <1>2, <1>3, <1>6, SMT DEF LegacyPoolTypes
<1>14. QED
  BY <1>6, <1>11, <1>12, <1>13, PhaseKeeps

\* The later phases of a run.
LEMMA LaterPhasesKeep ==
    ASSUME LegacyPoolInv, RunDemote \/ RunNonces \/ RunTruncate
    PROVE  LegacyPoolInv'
<1>1. /\ LegacyPoolTypes /\ Limited(pool, phase) /\ Filed(pool) /\ nonce \in AccountNonces
      /\ balance \in [Account -> Balances]
  BY DEF LegacyPoolInv, Limited, LegacyPoolTypes
<1>2. /\ dirty' = dirty /\ crossed' = (crossed \/ AmidLists) /\ nonce' = nonce /\ balance' = balance
      /\ removing' = removing /\ (changes' = changes \/ changes' = 0)
      /\ phase' \in {"nonces", "truncate", "idle"}
  BY DEF RunDemote, RunNonces, RunTruncate
<1>3. LegacyPoolTypes'
  BY <1>1, <1>2, SMT DEF LegacyPoolTypes
<1>4. CASE RunDemote
  <2>1. phase = "demote" /\ phase' = "nonces" /\ pool' = DemoteUnexecutables(pool, nonce, balance)
    BY <1>4 DEF RunDemote
  <2>2. Fewer(pool, pool')
    BY <1>1, <2>1, DemotedAllFiled
  <2>3. Limited(pool', phase')
    BY <1>1, <2>1, <2>2, LookupLimited DEF Limited, Fewer, Files
  <2>4. ASSUME ~(crossed \/ AmidLists) PROVE Phased(phase', pool', removing.txs, nonce', balance', dirty')
    BY <1>1, <1>2, <2>1, <2>4, RunsAlone, DemoteKeeps
  <2>5. QED
    BY <1>2, <1>3, <2>3, <2>4, PhaseKeeps
<1>5. CASE RunNonces
  <2>1. phase = "nonces" /\ phase' = "truncate" /\ pool' = SetAllNonces(pool, nonce)
    BY <1>5 DEF RunNonces
  <2>2. Fewer(pool, pool')
    BY <1>1, <2>1, NoncesSetFiled
  <2>3. Limited(pool', phase')
    BY <1>1, <2>1, <2>2, LookupLimited DEF Limited, Fewer, Files
  <2>4. ASSUME ~(crossed \/ AmidLists) PROVE Phased(phase', pool', removing.txs, nonce', balance', dirty')
    BY <1>1, <1>2, <2>1, <2>4, RunsAlone, NoncesKeep
  <2>5. QED
    BY <1>2, <1>3, <2>3, <2>4, PhaseKeeps
<1>6. CASE RunTruncate
  <2>1. phase = "truncate" /\ phase' = "idle" /\ pool' \in Truncated(pool)
    BY <1>6 DEF RunTruncate
  <2>2. Fewer(pool, pool') /\ PendingLimit(pool')
    BY <1>1, <2>1, TruncatedFiled
  <2>3. Limited(pool', phase')
    BY <1>1, <2>1, <2>2, LookupLimited DEF Limited, Fewer, Files
  <2>4. ASSUME ~(crossed \/ AmidLists) PROVE Phased(phase', pool', removing.txs, nonce', balance', dirty')
    BY <1>1, <1>2, <2>1, <2>4, RunsAlone, TruncateKeeps
  <2>5. QED
    BY <1>2, <1>3, <2>3, <2>4, PhaseKeeps
<1>7. QED
  BY <1>4, <1>5, <1>6

\* An eviction.
LEMMA EvictionKeeps ==
    ASSUME LegacyPoolInv, NEW a \in Account, Evict(a)
    PROVE  LegacyPoolInv'
<1>1. /\ phase = "idle" /\ phase' = phase /\ pool' = RemoveTxs(pool, Of(pool.queue, a))
      /\ dirty' = dirty /\ crossed' = (crossed \/ AmidLists)
      /\ nonce' = nonce /\ balance' = balance /\ changes' = changes /\ removing' = removing
  BY DEF Evict
<1>2. /\ LegacyPoolTypes /\ Limited(pool, "idle") /\ Filed(pool) /\ nonce \in AccountNonces
      /\ balance \in [Account -> Balances] /\ dirty \in SUBSET Account
  BY <1>1 DEF LegacyPoolInv, Limited, LegacyPoolTypes
<1>3. Of(pool.queue, a) \in SUBSET Tx /\ IsFiniteSet(Of(pool.queue, a))
  <2>1. Of(pool.queue, a) \subseteq pool.queue /\ pool.queue \in SUBSET Tx /\ IsFiniteSet(pool.queue)
    BY <1>2, PoolFields DEF Of, Filed
  <2>2. QED
    BY <2>1, FS_Subset
<1>4. Limited(pool', "idle")
  BY <1>1, <1>2, <1>3, RemovedAllFiled, FewerLimited
<1>5. ASSUME ~(crossed \/ AmidLists) PROVE Phased(phase', pool', removing.txs, nonce', balance', dirty')
  <2>1. PoolInv(pool, removing.txs, nonce, balance, dirty)
    BY <1>1, <1>2, <1>5, RunsAlone, IdlePool
  <2>2. PoolInv(pool', removing.txs, nonce, balance, dirty)
    BY <1>1, <2>1, EvictKeeps
  <2>3. Phased("idle", pool', removing.txs, nonce, balance, dirty)
    BY <2>2 DEF PoolInv, Phased
  <2>4. QED
    BY <1>1, <2>3
<1>6. LegacyPoolTypes'
  BY <1>1, <1>2, SMT DEF LegacyPoolTypes
<1>7. QED
  BY <1>1, <1>4, <1>5, <1>6, PhaseKeeps

\* Remove begins.
LEMMA BeginKeeps ==
    ASSUME LegacyPoolInv, NEW t \in Tx, RemoveStart(t)
    PROVE  LegacyPoolInv'
<1>1. /\ removing.step = "idle" /\ t \in pool.all /\ pool' = RemoveFromLookup(pool, t)
      /\ removing' = [step |-> "lookup", txs |-> {t}, invalids |-> {}]
      /\ nonce' = nonce /\ balance' = balance /\ changes' = changes /\ dirty' = dirty
      /\ phase' = phase /\ crossed' = crossed
  BY DEF RemoveStart
<1>2. LegacyPoolTypes /\ Limited(pool, phase) /\ Filed(pool) /\ removing.txs = {}
  BY <1>1 DEF LegacyPoolInv, Limited, OneRemoved
<1>3. OneRemoved(removing')
  BY <1>1 DEF OneRemoved
<1>4. Limited(pool', phase)
  BY <1>1, <1>2, PendingLess, FewerLimited DEF RemoveFromLookup
<1>5. ASSUME ~crossed PROVE Whole(pool', removing', phase, nonce, balance, dirty)
  <2>1. Phased(phase, pool, {}, nonce, balance, dirty)
    BY <1>1, <1>2, <1>5 DEF LegacyPoolInv, Whole
  <2>2. Phased(phase, pool', {t}, nonce, balance, dirty)
    BY <1>1, <1>2, <2>1, RemoveStartKeeps DEF LegacyPoolTypes
  <2>3. removing'.step = "lookup" /\ removing'.txs = {t}
    BY <1>1
  <2>4. QED
    BY <2>2, <2>3, WholeOutside
<1>6. LegacyPoolTypes'
  BY <1>1, <1>2 DEF LegacyPoolTypes
<1>7. QED
  BY <1>1, <1>3, <1>4, <1>5, <1>6 DEF LegacyPoolInv

\* What a later write of Remove has to show.
LEMMA WriteKeeps ==
    ASSUME LegacyPoolInv, crossed' = (crossed \/ phase # "idle"),
           nonce' = nonce, balance' = balance, changes' = changes, dirty' = dirty, phase' = phase,
           OneRemoved(removing'), Fewer(pool, pool'),
           ~crossed /\ phase = "idle" => Whole(pool', removing', "idle", nonce, balance, dirty)
    PROVE  LegacyPoolInv'
<1>1. LegacyPoolTypes /\ Limited(pool, phase)
  BY DEF LegacyPoolInv
<1>2. Limited(pool', phase)
  BY <1>1, FewerLimited
<1>3. LegacyPoolTypes'
  BY <1>1 DEF LegacyPoolTypes
<1>4. ASSUME ~crossed' PROVE Whole(pool', removing', phase', nonce', balance', dirty')
  <2>1. ~crossed /\ phase = "idle"
    BY <1>4, Zenon
  <2>2. QED
    BY <2>1
<1>5. QED
  BY <1>2, <1>3, <1>4 DEF LegacyPoolInv

\* Remove takes a pending transaction from its list, or finds it is not there.
LEMMA RemovePendingKeeps ==
    ASSUME LegacyPoolInv, NEW t \in removing.txs, RemovePending(t)
    PROVE  LegacyPoolInv'
<1>1. /\ removing.step = "lookup" /\ crossed' = (crossed \/ phase # "idle")
      /\ nonce' = nonce /\ balance' = balance /\ changes' = changes /\ dirty' = dirty /\ phase' = phase
  BY DEF RemovePending
<1>2. /\ LegacyPoolTypes /\ Limited(pool, phase) /\ Filed(pool) /\ OneRemoved(removing)
      /\ removing.txs = {t} /\ t \in Tx /\ removing.invalids = {}
      /\ pool \in Pools /\ pool.pending \in SUBSET Tx
  BY <1>1, PoolFields DEF LegacyPoolInv, Limited, OneRemoved, Filed
<1>3. ASSUME ~crossed /\ phase = "idle" PROVE PoolInv(pool, {t}, nonce, balance, dirty)
  <2>1. Phased("idle", pool, {t}, nonce, balance, dirty)
    BY <1>1, <1>2, <1>3 DEF LegacyPoolInv, Whole
  <2>2. QED
    BY <1>2, <1>3, <2>1, IdlePool DEF LegacyPoolTypes
<1>4. CASE /\ At(pool.pending, t) = {} /\ pool' = pool
           /\ removing' = [removing EXCEPT !.step = "queue"]
  <2>1. removing'.step = "queue" /\ removing'.txs = {t} /\ OneRemoved(removing')
    BY <1>2, <1>4 DEF OneRemoved
  <2>2. Fewer(pool, pool')
    BY <1>2, <1>4 DEF Fewer, Files
  <2>3. ASSUME ~crossed /\ phase = "idle" PROVE Whole(pool', removing', "idle", nonce, balance, dirty)
    <3>1. Phased("idle", pool', {t}, nonce, balance, dirty)
      BY <1>3, <1>4, <2>3 DEF PoolInv, Phased
    <3>2. QED
      BY <1>4, <2>1, <3>1 DEF Whole
  <2>4. QED
    BY <1>1, <2>1, <2>2, <2>3, WriteKeeps
<1>5. CASE /\ At(pool.pending, t) # {}
           /\ pool' = [pool EXCEPT !.pending = @ \ (At(@, t) \cup After(pool, t))]
           /\ removing' = [removing EXCEPT !.step = "enqueue", !.invalids = After(pool, t)]
  <2>1. PICK I, S, q : I = After(pool, t) /\ S = At(pool.pending, t) \cup I /\ q = pool'
    OBVIOUS
  <2>2. I \subseteq pool.pending /\ \A u \in I : u.from = t.from
    BY <2>1 DEF After, Of
  <2>3. removing'.step = "enqueue" /\ removing'.txs = {t} /\ removing'.invalids = I /\ OneRemoved(removing')
    BY <1>2, <1>5, <2>1, <2>2 DEF OneRemoved
  <2>4. q = [pool EXCEPT !.pending = @ \ S]
    BY <1>5, <2>1
  <2>5. Fewer(pool, q)
    BY <1>2, <2>4, PendingLess
  <2>6. ASSUME ~crossed /\ phase = "idle" PROVE Whole(q, removing', "idle", nonce, balance, dirty)
    <3>1. PoolInv(pool, {t}, nonce, balance, dirty) /\ Agree(pool, {t})
      BY <1>3, <2>6 DEF PoolInv, Sound
    <3>2. PoolInv(Release(RemoveFromLists(pool, t), {t.from}), {}, nonce, balance, dirty)
      BY <3>1, RemoveEndKeeps
    <3>3. q.queue = pool.queue /\ I \cap pool.queue = {} /\ I \in SUBSET Tx
      BY <1>2, <2>2, <2>4, <3>1 DEF Agree, Pools
    <3>4. PICK s : s = [q EXCEPT !.nonces[t.from] = Min({@, t.nonce})]
      OBVIOUS
    <3>5. RemoveFromLists(pool, t) = Demoted(s, I)
      <4>1. s = [pool EXCEPT !.pending = @ \ S, !.nonces[t.from] = Min({@, t.nonce})]
        BY <2>4, <3>4, Zenon
      <4>2. s = [pool EXCEPT !.pending = @ \ (At(@, t) \cup After(pool, t)), !.nonces[t.from] = Min({@, t.nonce})]
        BY <2>1, <4>1
      <4>3. QED
        BY <1>5, <2>1, <4>2 DEF RemoveFromLists
    <3>6. Fewer(q, s) /\ s \in Pools
      BY <1>2, <2>5, <3>4, NonceLowered DEF Fewer, Files, Filed
    <3>7. s.queue = q.queue
      BY <2>5, <3>4 DEF Fewer, Files, Filed, Pools
    <3>8. ASSUME NEW u \in I PROVE At(s.queue, u) = {}
      <4>1. u \notin pool.queue /\ Distinct(pool.queue \cup I)
        BY <2>2, <3>1, <3>3 DEF Agree, Lists, Distinct
      <4>2. At(pool.queue, u) = {}
        BY <4>1, NotThere
      <4>3. QED
        BY <3>3, <3>7, <4>2
    <3>9. Demoted(s, I) = [s EXCEPT !.queue = s.queue \cup I]
      <4>1. Listed(s.queue, I) = s.queue \cup I /\ Replaced(s.queue, I) = {}
        BY <3>8, NoClash
      <4>2. Demoted(s, I) = [s EXCEPT !.queue = s.queue \cup I, !.all = s.all \ {}]
        BY <4>1, Zenon DEF Demoted
      <4>3. s.all \ {} = s.all
        OBVIOUS
      <4>4. QED
        BY <3>6, <4>2, <4>3 DEF Pools
    <3>10. [s EXCEPT !.queue = s.queue \cup I] = Enqueued(q, I, t)
      <4>1. Enqueued(q, I, t) = [q EXCEPT !.queue = q.queue \cup I, !.nonces[t.from] = Min({@, t.nonce})]
        BY Zenon DEF Enqueued
      <4>2. [q EXCEPT !.queue = q.queue \cup I, !.nonces[t.from] = Min({@, t.nonce})]
                = [[q EXCEPT !.nonces[t.from] = Min({@, t.nonce})] EXCEPT !.queue = q.queue \cup I]
        BY Zenon
      <4>3. QED
        BY <3>4, <3>7, <4>1, <4>2
    <3>11. Phased("idle", Release(Enqueued(q, I, t), {t.from}), {}, nonce, balance, dirty)
      BY <3>2, <3>5, <3>9, <3>10 DEF PoolInv, Phased
    <3>12. QED
      BY <2>2, <2>3, <3>3, <3>11 DEF Whole
  <2>7. QED
    BY <1>1, <2>1, <2>3, <2>5, <2>6, WriteKeeps
<1>6. QED
  BY <1>4, <1>5 DEF RemovePending

\* A set that has got the transactions I.
Joined(S, Q, I) == S = Q \cup I

\* What Enqueued makes of the fields.
LEMMA EnqueuedFields ==
    ASSUME NEW p, Filed(p), NEW I \in SUBSET Tx, NEW t \in Tx, NEW e, e = Enqueued(p, I, t)
    PROVE  /\ e \in Pools /\ e.pending = p.pending /\ Joined(e.queue, p.queue, I) /\ e.all = p.all
           /\ e.reserved = p.reserved /\ \A a \in Account : a # t.from => e.nonces[a] = p.nonces[a]
<1>1. PICK s, Q : s = [p EXCEPT !.nonces[t.from] = Min({@, t.nonce})] /\ Q = p.queue \cup I
  OBVIOUS
<1>2. p \in Pools /\ p.nonces \in AccountNonces /\ p.queue \in SUBSET Tx
  BY PoolFields DEF Filed
<1>3. s \in Pools
  BY <1>1, NonceLowered DEF Fewer, Files, Filed
<1>4. /\ s.pending = p.pending /\ s.queue = p.queue /\ s.all = p.all /\ s.reserved = p.reserved
      /\ \A a \in Account : a # t.from => s.nonces[a] = p.nonces[a]
  BY <1>1, <1>2 DEF Pools, AccountNonces
<1>5. e = [s EXCEPT !.queue = Q]
  <2>1. e = [p EXCEPT !.queue = Q, !.nonces[t.from] = Min({@, t.nonce})]
    BY <1>1, Zenon DEF Enqueued
  <2>2. [p EXCEPT !.queue = Q, !.nonces[t.from] = Min({@, t.nonce})]
            = [[p EXCEPT !.nonces[t.from] = Min({@, t.nonce})] EXCEPT !.queue = Q]
    BY Zenon
  <2>3. QED
    BY <1>1, <2>1, <2>2
<1>6. Q \in SUBSET Tx
  BY <1>1, <1>2
<1>7. e \in Pools /\ e.pending = s.pending /\ e.queue = Q /\ e.all = s.all /\ e.reserved = s.reserved
      /\ e.nonces = s.nonces
  BY <1>3, <1>5, <1>6 DEF Pools
<1>8. QED
  BY <1>1, <1>4, <1>7 DEF Joined

\* Remove enqueues a transaction that came after the one it took.
LEMMA RemoveEnqueueKeeps ==
    ASSUME LegacyPoolInv, NEW u \in removing.invalids, RemoveEnqueue(u)
    PROVE  LegacyPoolInv'
<1>1. /\ removing.step = "enqueue" /\ crossed' = (crossed \/ phase # "idle")
      /\ pool' = Demoted(pool, {u}) /\ removing' = [removing EXCEPT !.invalids = @ \ {u}]
      /\ nonce' = nonce /\ balance' = balance /\ changes' = changes /\ dirty' = dirty /\ phase' = phase
  BY DEF RemoveEnqueue
<1>2. /\ LegacyPoolTypes /\ Limited(pool, phase) /\ Filed(pool) /\ OneRemoved(removing)
      /\ removing.invalids \in SUBSET Tx /\ u \in Tx /\ pool \in Pools
  BY DEF LegacyPoolInv, Limited, OneRemoved, Filed
<1>3. PICK t \in Tx : removing.txs = {t}
  BY <1>1, <1>2 DEF OneRemoved
<1>4. PICK I, J, q : I = removing.invalids /\ J = I \ {u} /\ q = pool'
  OBVIOUS
<1>5. removing'.step = "enqueue" /\ removing'.txs = {t} /\ removing'.invalids = J /\ OneRemoved(removing')
  BY <1>1, <1>2, <1>3, <1>4 DEF OneRemoved
<1>6. Fewer(pool, q)
  <2>1. {u} \in SUBSET Tx /\ IsFiniteSet({u}) /\ Distinct({u})
    BY <1>2, FS_Singleton DEF Distinct
  <2>2. QED
    BY <1>1, <1>2, <1>4, <2>1, DemotedFiled
<1>7. ASSUME ~crossed /\ phase = "idle" PROVE Whole(q, removing', "idle", nonce, balance, dirty)
  <2>1. /\ I \cap pool.queue = {} /\ \A v \in I : v.from = t.from
        /\ Phased("idle", Release(Enqueued(pool, I, t), {t.from}), {}, nonce, balance, dirty)
    BY <1>1, <1>3, <1>4, <1>7 DEF LegacyPoolInv, Whole
  <2>2. PICK e, f : e = Enqueued(pool, I, t) /\ f = Release(e, {t.from})
    OBVIOUS
  <2>3. e \in Pools /\ e.queue = pool.queue \cup I
    <3>1. I \in SUBSET Tx /\ t \in Tx
      BY <1>2, <1>3, <1>4
    <3>2. e \in Pools /\ Joined(e.queue, pool.queue, I)
      BY <1>2, <2>2, <3>1, EnqueuedFields
    <3>3. QED
      BY <3>2 DEF Joined
  <2>4. f.queue = pool.queue \cup I
    BY <2>2, <2>3, ReleaseFields
  <2>5. Distinct(pool.queue \cup I)
    <3>1. Agree(f, {})
      BY <2>1, <2>2 DEF Phased, Sound
    <3>2. QED
      BY <2>4, <3>1 DEF Agree, Lists, Distinct
  <2>6. At(pool.queue, u) = {}
    BY <1>4, <2>1, <2>5, NotThere
  <2>7. Listed(pool.queue, {u}) = pool.queue \cup {u} /\ Replaced(pool.queue, {u}) = {}
    BY <2>6, NoClash
  <2>8. q = [pool EXCEPT !.queue = pool.queue \cup {u}]
    <3>1. q = [pool EXCEPT !.queue = pool.queue \cup {u}, !.all = pool.all \ {}]
      BY <1>1, <1>4, <2>7, Zenon DEF Demoted
    <3>2. pool.all \ {} = pool.all
      OBVIOUS
    <3>3. QED
      BY <1>2, <3>1, <3>2 DEF Pools
  <2>9. q.queue = pool.queue \cup {u}
    BY <1>2, <2>8 DEF Pools
  <2>10. J \cap q.queue = {} /\ \A v \in J : v.from = t.from
    BY <1>4, <2>1, <2>9
  <2>11. Enqueued(q, J, t) = e
    <3>1. q.queue \cup J = pool.queue \cup I
      BY <1>4, <2>9
    <3>2. PICK Q : Q = pool.queue \cup I
      OBVIOUS
    <3>3. Enqueued(q, J, t) = [q EXCEPT !.queue = Q, !.nonces[t.from] = Min({@, t.nonce})]
      BY <3>1, <3>2, Zenon DEF Enqueued
    <3>4. e = [pool EXCEPT !.queue = Q, !.nonces[t.from] = Min({@, t.nonce})]
      BY <2>2, <3>2, Zenon DEF Enqueued
    <3>5. [[pool EXCEPT !.queue = pool.queue \cup {u}] EXCEPT !.queue = Q, !.nonces[t.from] = Min({@, t.nonce})]
              = [pool EXCEPT !.queue = Q, !.nonces[t.from] = Min({@, t.nonce})]
      BY Zenon
    <3>6. QED
      BY <2>8, <3>3, <3>4, <3>5
  <2>12. QED
    BY <1>5, <2>1, <2>2, <2>10, <2>11 DEF Whole
<1>8. QED
  BY <1>1, <1>4, <1>5, <1>6, <1>7, WriteKeeps

\* Remove lowers the virtual nonce.
LEMMA RemoveLowerKeeps ==
    ASSUME LegacyPoolInv, NEW t \in removing.txs, RemoveLower(t)
    PROVE  LegacyPoolInv'
<1>1. /\ removing.step = "enqueue" /\ removing.invalids = {} /\ crossed' = (crossed \/ phase # "idle")
      /\ pool' = [pool EXCEPT !.nonces[t.from] = Min({@, t.nonce})]
      /\ removing' = [removing EXCEPT !.step = "release"]
      /\ nonce' = nonce /\ balance' = balance /\ changes' = changes /\ dirty' = dirty /\ phase' = phase
  BY DEF RemoveLower
<1>2. /\ Filed(pool) /\ OneRemoved(removing) /\ removing.txs = {t} /\ t \in Tx /\ pool \in Pools
  BY <1>1 DEF LegacyPoolInv, Limited, OneRemoved, Filed
<1>3. removing'.step = "release" /\ removing'.txs = {t} /\ OneRemoved(removing')
  BY <1>1, <1>2 DEF OneRemoved
<1>4. Fewer(pool, pool')
  BY <1>1, <1>2, NonceLowered
<1>5. ASSUME ~crossed /\ phase = "idle" PROVE Whole(pool', removing', "idle", nonce, balance, dirty)
  <2>1. Phased("idle", Release(Enqueued(pool, {}, t), {t.from}), {}, nonce, balance, dirty)
    BY <1>1, <1>2, <1>5 DEF LegacyPoolInv, Whole
  <2>2. Enqueued(pool, {}, t) = pool'
    <3>1. Enqueued(pool, {}, t) = [pool EXCEPT !.queue = pool.queue \cup {}, !.nonces[t.from] = Min({@, t.nonce})]
      BY Zenon DEF Enqueued
    <3>2. pool.queue \cup {} = pool.queue
      OBVIOUS
    <3>3. pool = [pool EXCEPT !.queue = pool.queue]
      BY <1>2 DEF Pools
    <3>4. [[pool EXCEPT !.queue = pool.queue] EXCEPT !.nonces[t.from] = Min({@, t.nonce})]
              = [pool EXCEPT !.queue = pool.queue, !.nonces[t.from] = Min({@, t.nonce})]
      BY Zenon
    <3>5. QED
      BY <1>1, <3>1, <3>2, <3>3, <3>4
  <2>3. QED
    BY <1>3, <2>1, <2>2 DEF Whole
<1>6. QED
  BY <1>1, <1>3, <1>4, <1>5, WriteKeeps

\* Remove takes a queued transaction from its list.
LEMMA RemoveQueuedKeeps ==
    ASSUME LegacyPoolInv, NEW t \in removing.txs, RemoveQueued(t)
    PROVE  LegacyPoolInv'
<1>1. /\ removing.step = "queue" /\ crossed' = (crossed \/ phase # "idle")
      /\ pool' = [pool EXCEPT !.queue = @ \ At(@, t)]
      /\ removing' = [removing EXCEPT !.step = "release"]
      /\ nonce' = nonce /\ balance' = balance /\ changes' = changes /\ dirty' = dirty /\ phase' = phase
  BY DEF RemoveQueued
<1>2. /\ LegacyPoolTypes /\ Limited(pool, phase) /\ Filed(pool) /\ OneRemoved(removing)
      /\ removing.txs = {t} /\ t \in Tx
  BY <1>1 DEF LegacyPoolInv, Limited, OneRemoved
<1>3. removing'.step = "release" /\ removing'.txs = {t} /\ OneRemoved(removing')
  BY <1>1, <1>2 DEF OneRemoved
<1>4. Fewer(pool, pool')
  <2>1. pool' = [pool EXCEPT !.queue = @ \ At(pool.queue, t)]
    BY <1>1
  <2>2. QED
    BY <1>2, <2>1, PendingLess
<1>5. ASSUME ~crossed /\ phase = "idle" PROVE Whole(pool', removing', "idle", nonce, balance, dirty)
  <2>1. Phased("idle", pool, {t}, nonce, balance, dirty) /\ At(pool.pending, t) = {}
    BY <1>1, <1>2, <1>5 DEF LegacyPoolInv, Whole
  <2>2. PoolInv(pool, {t}, nonce, balance, dirty)
    BY <1>2, <1>5, <2>1, IdlePool DEF LegacyPoolTypes
  <2>3. PoolInv(Release(RemoveFromLists(pool, t), {t.from}), {}, nonce, balance, dirty)
    BY <2>2, RemoveEndKeeps
  <2>4. RemoveFromLists(pool, t) = pool'
    BY <1>1, <2>1 DEF RemoveFromLists
  <2>5. Phased("idle", Release(pool', {t.from}), {}, nonce, balance, dirty)
    BY <2>3, <2>4 DEF PoolInv, Phased
  <2>6. QED
    BY <1>3, <2>5 DEF Whole
<1>6. QED
  BY <1>1, <1>3, <1>4, <1>5, WriteKeeps

\* Remove gives up the reservation of a sender with no transactions left.
LEMMA RemoveReleaseKeeps ==
    ASSUME LegacyPoolInv, NEW t \in removing.txs, RemoveRelease(t)
    PROVE  LegacyPoolInv'
<1>1. /\ removing.step = "release" /\ crossed' = (crossed \/ phase # "idle")
      /\ pool' = Release(pool, {t.from}) /\ removing' = NotRemoving
      /\ nonce' = nonce /\ balance' = balance /\ changes' = changes /\ dirty' = dirty /\ phase' = phase
  BY DEF RemoveRelease
<1>2. /\ Filed(pool) /\ removing.txs = {t}
  BY <1>1 DEF LegacyPoolInv, Limited, OneRemoved
<1>3. removing'.step = "idle" /\ removing'.txs = {} /\ OneRemoved(removing')
  BY <1>1 DEF OneRemoved, NotRemoving
<1>4. Fewer(pool, pool')
  BY <1>1, <1>2, ReleaseFiled
<1>5. ASSUME ~crossed /\ phase = "idle" PROVE Whole(pool', removing', "idle", nonce, balance, dirty)
  <2>1. Phased("idle", pool', {}, nonce, balance, dirty)
    BY <1>1, <1>2, <1>5 DEF LegacyPoolInv, Whole
  <2>2. QED
    BY <1>3, <2>1, WholeOutside
<1>6. QED
  BY <1>1, <1>3, <1>4, <1>5, WriteKeeps

\* Every step keeps the invariant.
LEMMA NextKeeps ==
    ASSUME LegacyPoolInv, [Next]_vars
    PROVE  LegacyPoolInv'
<1>1. CASE Next
  <2>1. ASSUME NEW t \in Tx, Add(t) PROVE LegacyPoolInv'
    BY <2>1, AddKeeps
  <2>2. ASSUME NEW D \in SUBSET dirty, RunReorg(D) PROVE LegacyPoolInv'
    BY <2>2, RunReorgKeeps
  <2>3. ASSUME NEW D \in SUBSET dirty, NEW a \in Account, NEW k \in 0..(MaxNonce + 1), NEW v \in Balances,
               k >= nonce[a], RunReset(D, [nonce EXCEPT ![a] = k], [balance EXCEPT ![a] = v])
        PROVE  LegacyPoolInv'
    BY <2>3, RunResetKeeps
  <2>4. CASE RunPhases
    BY <2>2, <2>3, <2>4, LaterPhasesKeep DEF RunPhases
  <2>5. ASSUME NEW a \in Account, Evict(a) PROVE LegacyPoolInv'
    BY <2>5, EvictionKeeps
  <2>6. ASSUME NEW t \in Tx, RemoveStart(t) PROVE LegacyPoolInv'
    BY <2>6, BeginKeeps
  <2>7. ASSUME NEW t \in removing.txs, RemovePending(t) \/ RemoveLower(t) \/ RemoveQueued(t) \/ RemoveRelease(t)
        PROVE  LegacyPoolInv'
    BY <2>7, RemovePendingKeeps, RemoveLowerKeeps, RemoveQueuedKeeps, RemoveReleaseKeeps
  <2>8. CASE Removals
    BY <2>6, <2>7, <2>8, RemoveEnqueueKeeps DEF Removals
  <2>9. QED
    BY <1>1, <2>1, <2>4, <2>5, <2>8, CrashKeeps DEF Next
<1>2. CASE UNCHANGED vars
  <2>1. LegacyPoolTypes' = LegacyPoolTypes
    BY <1>2 DEF vars, LegacyPoolTypes
  <2>2. QED
    BY <1>2, <2>1 DEF vars, LegacyPoolInv
<1>3. QED
  BY <1>1, <1>2

\* The pool f, which will be there once Remove has written what it has left, and the pool
\* as it is, apart from the virtual nonces and the reservations of the accounts A.
Mirrors(f, A) ==
    /\ f.pending = pool.pending /\ f.all = pool.all /\ f.queue = pool.queue \cup removing.invalids
    /\ \A a \in Account \ A :
        /\ f.nonces[a] = pool.nonces[a]
        /\ a \in f.reserved <=> a \in pool.reserved
        /\ HasList(f, a) <=> HasList(pool, a)

\* What holds of the pool that will be there makes the properties true of the pool as it is.
LEMMA MirrorAgrees ==
    ASSUME NEW f, NEW gone, gone = Gone, LegacyPoolTypes, Mirrors(f, Halfway),
           Sound(f, gone, nonce, balance), NoneFirst(f, nonce, Account \ dirty)
    PROVE  LookupMatches /\ NonceOnce /\ VirtualNonce /\ Reserved /\ Executable /\ FirstIsPromoted
<1>1. PICK H : H = Halfway
  OBVIOUS
<1>2. /\ f.pending = pool.pending /\ f.all = pool.all /\ f.queue = pool.queue \cup removing.invalids
      /\ \A a \in Account \ H :
            /\ f.nonces[a] = pool.nonces[a]
            /\ a \in f.reserved <=> a \in pool.reserved
            /\ HasList(f, a) <=> HasList(pool, a)
  BY <1>1 DEF Mirrors
<1>3. /\ Agree(f, gone) /\ Held(f, {}) /\ Contiguous(f, nonce) /\ Paid(f, balance)
      /\ nonce \in AccountNonces
  BY DEF Sound, LegacyPoolTypes
<1>4. LookupMatches
  BY <1>2, <1>3 DEF LookupMatches, Agree, Lists
<1>5. NonceOnce
  BY <1>2, <1>3 DEF NonceOnce, Agree, Lists, Distinct
<1>6. VirtualNonce
  <2>1. SUFFICES ASSUME NEW a \in Account \ H
                 PROVE  pool.nonces[a] = nonce[a] + Cardinality(Of(pool.pending, a))
    BY <1>1 DEF VirtualNonce
  <2>2. /\ nonce[a] \in Nat /\ f.nonces[a] \in Nat
        /\ Cardinality(Of(f.pending, a)) = f.nonces[a] - nonce[a]
    BY <1>3, PendingCount
  <2>3. QED
    BY <1>2, <2>2
<1>7. Reserved
  <2>1. SUFFICES ASSUME NEW a \in Account \ H
                 PROVE  a \in pool.reserved <=> HasList(pool, a)
    BY <1>1 DEF Reserved
  <2>2. a \in f.reserved <=> HasList(f, a)
    BY <1>3 DEF Held
  <2>3. QED
    BY <1>2, <2>2
<1>8. Executable
  <2>1. SUFFICES ASSUME NEW a \in Account
                 PROVE  /\ NoncesOf(pool.pending, a) # {} => NoncesOf(pool.pending, a)
                             = nonce[a]..(nonce[a] + Cardinality(NoncesOf(pool.pending, a)) - 1)
                        /\ \A t \in Of(pool.pending, a) : t.price <= balance[a]
    BY DEF Executable
  <2>2. PICK lo, hi : lo = nonce[a] /\ hi = f.nonces[a]
    OBVIOUS
  <2>3. lo \in Nat /\ hi \in Nat /\ lo <= hi /\ NoncesOf(f.pending, a) = lo..(hi - 1)
    BY <1>3, <2>2, PendingCount DEF Contiguous
  <2>4. Cardinality(lo..(hi - 1)) = hi - lo
    BY <2>3, FS_Interval
  <2>5. lo + Cardinality(lo..(hi - 1)) - 1 = hi - 1
    BY <2>3, <2>4
  <2>6. \A t \in Of(pool.pending, a) : t.price <= balance[a]
    BY <1>2, <1>3, OfFacts DEF Paid
  <2>7. QED
    BY <1>2, <2>2, <2>3, <2>5, <2>6
<1>9. FirstIsPromoted
  <2>1. \A a \in Account : NoncesOf(pool.queue, a) \subseteq NoncesOf(f.queue, a)
    BY <1>2 DEF NoncesOf, Of
  <2>2. QED
    BY <2>1 DEF FirstIsPromoted, NoneFirst
<1>10. QED
  BY <1>4, <1>5, <1>6, <1>7, <1>8, <1>9

\* Once Remove has written to the lists, the pool that will be there differs in its sender only.
LEMMA ReleaseMirrors ==
    ASSUME NEW t \in Tx, removing.txs = {t}, AmidLists, NEW I \in SUBSET Tx, I = removing.invalids,
           \A u \in I : u.from = t.from,
           NEW e \in Pools, e.pending = pool.pending, e.queue = pool.queue \cup I, e.all = pool.all,
           e.reserved = pool.reserved, \A a \in Account : a # t.from => e.nonces[a] = pool.nonces[a]
    PROVE  Mirrors(Release(e, {t.from}), Halfway)
<1>1. PICK f : f = Release(e, {t.from})
  OBVIOUS
<1>2. /\ f.pending = e.pending /\ f.queue = e.queue /\ f.all = e.all /\ f.nonces = e.nonces
      /\ f.reserved = e.reserved \ {a \in {t.from} : ~HasList(e, a)}
      /\ \A a : HasList(f, a) = HasList(e, a)
  BY <1>1, ReleaseFields
<1>3. Halfway = {t.from}
  BY DEF Halfway
<1>4. ASSUME NEW a \in Account, a # t.from
      PROVE  /\ f.nonces[a] = pool.nonces[a] /\ (a \in f.reserved <=> a \in pool.reserved)
             /\ HasList(f, a) <=> HasList(pool, a)
  <2>1. Of(e.queue, a) = Of(pool.queue, a)
    BY <1>4 DEF Of
  <2>2. HasList(e, a) <=> HasList(pool, a)
    BY <2>1 DEF HasList
  <2>3. QED
    BY <1>2, <1>4, <2>2
<1>5. QED
  BY <1>1, <1>2, <1>3, <1>4 DEF Mirrors

\* The inductive invariant gives the properties.
LEMMA InvListsAgree ==
    ASSUME LegacyPoolInv
    PROVE  ListsAgree /\ PendingExecutable /\ FirstIsPromoted
<1>1. LegacyPoolTypes /\ OneRemoved(removing) /\ Filed(pool) /\ pool \in Pools
  BY DEF LegacyPoolInv, Limited, Filed
<1>2. TypeOK
  BY <1>1, PoolFields DEF TypeOK, LegacyPoolTypes, OneRemoved, AccountNonces
<1>3. ASSUME Settled
      PROVE  LookupMatches /\ NonceOnce /\ VirtualNonce /\ Reserved /\ Executable /\ FirstIsPromoted
  <2>1. phase = "idle" /\ Whole(pool, removing, "idle", nonce, balance, dirty)
    BY <1>3 DEF LegacyPoolInv, Settled
  <2>2. CASE removing.step \in {"idle", "lookup", "queue"}
    <3>1. Phased("idle", pool, removing.txs, nonce, balance, dirty)
      BY <2>1, <2>2 DEF Whole
    <3>2. removing.txs = Gone /\ removing.invalids = {}
      BY <1>1, <2>2 DEF OneRemoved, Gone
    <3>3. Mirrors(pool, Halfway)
      BY <3>2 DEF Mirrors
    <3>4. QED
      BY <1>1, <3>1, <3>2, <3>3, MirrorAgrees DEF Phased
  <2>3. CASE removing.step = "enqueue"
    <3>1. PICK t \in Tx : removing.txs = {t}
      BY <1>1, <2>3 DEF OneRemoved
    <3>2. PICK I, e : I = removing.invalids /\ e = Enqueued(pool, I, t)
      OBVIOUS
    <3>3. I \in SUBSET Tx
      BY <1>1, <3>2 DEF OneRemoved
    <3>4. /\ \A u \in I : u.from = t.from
          /\ Phased("idle", Release(e, {t.from}), {}, nonce, balance, dirty)
      BY <2>1, <2>3, <3>1, <3>2 DEF Whole
    <3>5. /\ e \in Pools /\ e.pending = pool.pending /\ e.queue = pool.queue \cup I /\ e.all = pool.all
          /\ e.reserved = pool.reserved /\ \A a \in Account : a # t.from => e.nonces[a] = pool.nonces[a]
      <4>1. Filed(pool) /\ e = Enqueued(pool, I, t)
        BY <1>1, <3>2
      <4>2. /\ e \in Pools /\ e.pending = pool.pending /\ Joined(e.queue, pool.queue, I)
            /\ e.all = pool.all /\ e.reserved = pool.reserved
        BY <3>3, <4>1, EnqueuedFields
      <4>3. \A a \in Account : a # t.from => e.nonces[a] = pool.nonces[a]
        BY <3>3, <4>1, EnqueuedFields
      <4>4. QED
        BY <4>2, <4>3 DEF Joined
    <3>6. AmidLists /\ Gone = {}
      BY <2>3 DEF AmidLists, Gone
    <3>7. Mirrors(Release(e, {t.from}), Halfway)
      BY <3>1, <3>2, <3>3, <3>4, <3>5, <3>6, ReleaseMirrors
    <3>8. QED
      BY <1>1, <3>4, <3>6, <3>7, MirrorAgrees DEF Phased
  <2>4. CASE removing.step = "release"
    <3>1. PICK t \in Tx : removing.txs = {t}
      BY <1>1, <2>4 DEF OneRemoved
    <3>2. Phased("idle", Release(pool, {t.from}), {}, nonce, balance, dirty)
      BY <2>1, <2>4, <3>1 DEF Whole
    <3>3. AmidLists /\ Gone = {} /\ removing.invalids = {}
      BY <1>1, <2>4 DEF AmidLists, Gone, OneRemoved
    <3>4. Mirrors(Release(pool, {t.from}), Halfway)
      BY <1>1, <3>1, <3>3, ReleaseMirrors
    <3>5. QED
      BY <1>1, <3>2, <3>3, <3>4, MirrorAgrees DEF Phased
  <2>5. QED
    BY <1>1, <2>2, <2>3, <2>4 DEF OneRemoved
<1>4. FirstIsPromoted
  BY <1>3 DEF FirstIsPromoted
<1>5. QED
  BY <1>2, <1>3, <1>4 DEF ListsAgree, PendingExecutable

\* The inductive invariant of the pool of Ethereum transactions.
THEOREM LegacyPoolInvariance == Spec => []LegacyPoolInv
<1>1. Init => LegacyPoolInv
  BY InitKeeps
<1>2. LegacyPoolInv /\ [Next]_vars => LegacyPoolInv'
  BY NextKeeps
<1>3. QED
  BY <1>1, <1>2, PTL DEF Spec

\* The lists, the lookup, the virtual nonces and the reservations agree whenever the lock of
\* the pool is free, also at every write of Remove (legacypool.go:1097-1147), as long as no run
\* and no eviction came between its writes to the lists; they have their types in any case.
THEOREM ListsAlwaysAgree == Spec => []ListsAgree
<1>1. LegacyPoolInv => ListsAgree
  BY InvListsAgree
<1>2. QED
  BY <1>1, LegacyPoolInvariance, PTL

\* What the mempool proposes from the pool can be executed: the pending transactions start
\* at the account's nonce, have no gap and can each be paid, also while Remove is halfway, as
\* long as no run and no eviction came between its writes to the lists.
THEOREM PendingAlwaysExecutable == Spec => []PendingExecutable
<1>1. LegacyPoolInv => PendingExecutable
  BY InvListsAgree
<1>2. QED
  BY <1>1, LegacyPoolInvariance, PTL

\* The pool never holds more than its limits allow, whatever the limits, and whether or not
\* runs, evictions and Remove wrote to the lists in turns.
THEOREM AlwaysWithinLimits == Spec => []WithinLimits
<1>1. LegacyPoolInv => WithinLimits
  BY DEF LegacyPoolInv, Limited, PendingLimit, WithinLimits
<1>2. QED
  BY <1>1, LegacyPoolInvariance, PTL

\* An account with nothing pending does not wait with a transaction that could be executed,
\* unless a run for it was requested, as long as no run and no eviction came between the
\* writes of Remove to the lists.
THEOREM FirstAlwaysPromoted == Spec => []FirstIsPromoted
<1>1. LegacyPoolInv => FirstIsPromoted
  BY InvListsAgree
<1>2. QED
  BY <1>1, LegacyPoolInvariance, PTL
=============================================================================
