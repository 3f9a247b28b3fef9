--------------------------- MODULE JsonRpcProofs ---------------------------
(***************************************************************************)
(* Proofs about the two services behind the JSON-RPC server.               *)
(*                                                                         *)
(* First IndexerService, for a chain of any length and any number of       *)
(* crashes, failed fetches and failed writes.  Then Stream, for any        *)
(* readers, segments of any size, any number of them and any batches of    *)
(* items.                                                                  *)
(*                                                                         *)
(* A stream is a function of the number of items it was given: Ring(m) is  *)
(* what the segments are after m of them.  Add keeps it one, and what a    *)
(* reader is given can be computed from it.                                *)
(***************************************************************************)
EXTENDS Stream, IndexerService, SequenceTheorems, Sums

(***************************************************************************)
(* IndexerService.  The inductive invariant.                               *)
(*                                                                         *)
(* The blocks the service has passed over are those before an indexed one  *)
(* and, while it runs, those up to lastBlock: a gap is there before a      *)
(* later block is indexed and shows it.                                    *)
(***************************************************************************)
Looping == step \in {"loop", "wait", "fetch", "index"}

Passed ==
    {h \in ethBlocks \ db :
        \E lo \in db : lo < h /\ ((\E hi \in db : h < hi) \/ (Looping /\ h <= lastBlock))}

\* ServiceTypes by parts: numbers and sets, and what is Boolean.
Heights ==
    /\ height \in 0 .. MaxHeight
    /\ ethBlocks \subseteq 1 .. height /\ db \subseteq ethBlocks
    /\ seen \in 0 .. height /\ latestBlock \in 0 .. height /\ lastBlock \in 0 .. height
    /\ nextBlock \in 0 .. height + 1
    /\ step \in {"status", "subscribe", "load", "loop", "wait", "fetch", "index"}

IndexFlags == notify \in BOOLEAN /\ newBlockSignal \in BOOLEAN /\ blockErr \in BOOLEAN

Counts == faults \in [crash: 0 .. MaxCrashes, fetch: 0 .. MaxFetchErrs, index: 0 .. MaxIndexErrs]

\* The loop indexes the block after lastBlock, after which nothing is indexed yet.
LoopPlace ==
    /\ Looping => \A h \in db : h <= lastBlock
    /\ step \in {"fetch", "index"} => nextBlock = lastBlock + 1
    /\ step = "index" => nextBlock <= latestBlock

IndexInv ==
    /\ Heights /\ IndexFlags /\ Counts /\ LoopPlace
    /\ Cardinality(Passed) <= faults.index

(***************************************************************************)
(* Facts about sets of blocks.                                             *)
(***************************************************************************)
\* Max of a nonempty set of blocks is its largest block.
LEMMA MaxOfBlocks ==
    ASSUME NEW n \in Nat, NEW S \in SUBSET (0 .. n), S # {}
    PROVE  Max(S) \in S /\ \A h \in S : h <= Max(S)
<1> DEFINE T == {k \in Nat : n - k \in S}
           R == {p \in Nat \X Nat : p[1] < p[2]}
<1>1. IsWellFoundedOn(R, Nat)
  <2>1. OpToRel(<, Nat) = R
    BY DEF OpToRel
  <2>2. QED
    BY <2>1, NatLessThanWellFounded
<1>2. T \subseteq Nat /\ T # {}
  <2>1. PICK h \in S : TRUE
    OBVIOUS
  <2>2. n - h \in T
    BY <2>1
  <2>3. QED
    BY <2>2
<1>3. PICK k \in T : \A y \in T : <<y, k>> \notin R
  BY <1>1, <1>2, WFMin
<1>4. \A y \in T : y >= k
  <2> SUFFICES ASSUME NEW y \in T, y < k PROVE FALSE
    BY <1>3
  <2>1. <<y, k>> \in Nat \X Nat /\ <<y, k>>[1] < <<y, k>>[2]
    BY <1>3
  <2>2. <<y, k>> \in R
    BY <2>1
  <2>3. QED
    BY <1>3, <2>2
<1>5. n - k \in S /\ \A h \in S : n - k >= h
  <2>1. \A h \in S : n - h \in T
    OBVIOUS
  <2>2. QED
    BY <1>3, <1>4, <2>1
<1>6. QED
  BY <1>5 DEF Max

\* Fewer blocks passed over, or the same.
LEMMA PassedShrinks ==
    ASSUME Heights, NEW P, P \subseteq Passed
    PROVE  IsFiniteSet(Passed) /\ Cardinality(P) <= Cardinality(Passed)
<1>1. Passed \in SUBSET (1 .. height)
  <2>1. Passed \subseteq ethBlocks
    BY DEF Passed
  <2>2. QED
    BY <2>1 DEF Heights
<1>2. IsFiniteSet(1 .. height)
  <2>1. 1 \in Int /\ height \in Int
    BY BoundAssumption DEF Heights
  <2>2. QED
    BY <2>1, FS_Interval
<1>3. IsFiniteSet(Passed)
  BY <1>1, <1>2, FS_Subset
<1>4. QED
  BY <1>3, FS_Subset

(***************************************************************************)
(* Initial states and steps of the service.                                *)
(***************************************************************************)
\* The service starts with nothing indexed and nothing passed over.
LEMMA IndexInitInv == ServiceInit => IndexInv
<1> SUFFICES ASSUME ServiceInit PROVE IndexInv
  OBVIOUS
<1> USE BoundAssumption DEF ServiceInit
<1>1. Heights
  BY DEF Heights
<1>2. IndexFlags
  BY DEF IndexFlags
<1>3. Counts
  BY DEF Counts
<1>4. LoopPlace
  BY DEF LoopPlace, Looping
<1>5. Cardinality(Passed) <= faults.index
  <2>1. Passed = {}
    BY DEF Passed
  <2>2. QED
    BY <2>1, FS_EmptySet
<1>6. QED
  BY <1>1, <1>2, <1>3, <1>4, <1>5 DEF IndexInv

\* A step after which no more is passed over and no write has failed.
LEMMA NothingLost ==
    ASSUME IndexInv, Passed' \subseteq Passed, faults'.index = faults.index
    PROVE  (Cardinality(Passed) <= faults.index)'
<1>1. /\ IsFiniteSet(Passed) /\ Cardinality(Passed') <= Cardinality(Passed)
      /\ IsFiniteSet(Passed')
  BY PassedShrinks, FS_Subset DEF IndexInv
<1>2. Cardinality(Passed) \in Nat /\ Cardinality(Passed') \in Nat
  BY <1>1, FS_CardinalityType
<1>3. faults.index \in Nat
  BY BoundAssumption DEF IndexInv, Counts
<1>4. QED
  BY <1>1, <1>2, <1>3 DEF IndexInv

\* Every step keeps the invariant.
LEMMA IndexStepInv == IndexInv /\ [ServiceNext]_serviceVars => IndexInv'
<1> SUFFICES ASSUME IndexInv, [ServiceNext]_serviceVars PROVE IndexInv'
  OBVIOUS
<1> USE BoundAssumption DEF IndexInv, service
<1>1. CASE NewBlock
  <2>1. Heights'
    BY <1>1 DEF NewBlock, Heights, Started
  <2>2. IndexFlags'
    BY <1>1 DEF NewBlock, IndexFlags
  <2>3. Counts' /\ LoopPlace'
    BY <1>1 DEF NewBlock, Counts, LoopPlace, Looping
  <2>4. Passed' \subseteq Passed
    BY <1>1 DEF NewBlock, Passed, Looping, Heights
  <2>5. faults' = faults
    BY <1>1 DEF NewBlock
  <2>6. QED
    BY <2>1, <2>2, <2>3, <2>4, <2>5, NothingLost
<1>2. CASE ReceiveHeader
  <2>1. Heights'
    BY <1>2 DEF ReceiveHeader, IsNew, Heights
  <2>2. IndexFlags'
    BY <1>2 DEF ReceiveHeader, IndexFlags
  <2>3. Counts' /\ LoopPlace'
    BY <1>2 DEF ReceiveHeader, IsNew, Counts, LoopPlace, Looping, Heights
  <2>4. Passed' = Passed /\ faults' = faults
    BY <1>2 DEF ReceiveHeader, Passed, Looping
  <2>5. QED
    BY <2>1, <2>2, <2>3, <2>4, NothingLost
<1>3. CASE Notify
  <2>1. Heights'
    BY <1>3 DEF Notify, Heights
  <2>2. IndexFlags'
    BY <1>3 DEF Notify, IndexFlags
  <2>3. Counts' /\ LoopPlace'
    BY <1>3 DEF Notify, Counts, LoopPlace, Looping
  <2>4. Passed' = Passed /\ faults' = faults
    BY <1>3 DEF Notify, Passed, Looping
  <2>5. QED
    BY <2>1, <2>2, <2>3, <2>4, NothingLost
<1>4. CASE GetStatus
  <2>1. Heights'
    BY <1>4 DEF GetStatus, Heights
  <2>2. IndexFlags'
    BY <1>4 DEF GetStatus, IndexFlags
  <2>3. Counts' /\ LoopPlace'
    BY <1>4 DEF GetStatus, Counts, LoopPlace, Looping
  <2>4. Passed' = Passed /\ faults' = faults
    BY <1>4 DEF GetStatus, Passed, Looping
  <2>5. QED
    BY <2>1, <2>2, <2>3, <2>4, NothingLost
<1>5. CASE Subscribe
  <2>1. Heights'
    BY <1>5 DEF Subscribe, Heights
  <2>2. IndexFlags'
    BY <1>5 DEF Subscribe, IndexFlags
  <2>3. Counts' /\ LoopPlace'
    BY <1>5 DEF Subscribe, Counts, LoopPlace, Looping
  <2>4. Passed' = Passed /\ faults' = faults
    BY <1>5 DEF Subscribe, Passed, Looping
  <2>5. QED
    BY <2>1, <2>2, <2>3, <2>4, NothingLost
<1>6. CASE LoadLastBlock
  <2>1. db \subseteq 0 .. MaxHeight
    BY DEF Heights
  <2>2. db # {} => Max(db) \in db /\ \A h \in db : h <= Max(db)
    BY <2>1, MaxOfBlocks
  <2>3. lastBlock' = IF db = {} THEN latestBlock ELSE Max(db)
    BY <1>6 DEF LoadLastBlock, LastIndexedBlock
  <2>4. Heights'
    BY <1>6, <2>2, <2>3 DEF LoadLastBlock, Heights
  <2>5. IndexFlags'
    BY <1>6 DEF LoadLastBlock, IndexFlags
  <2>6. Counts' /\ LoopPlace'
    BY <1>6, <2>2, <2>3 DEF LoadLastBlock, Counts, LoopPlace, Looping, Heights
  <2>7. Passed' \subseteq Passed
    <3> SUFFICES ASSUME NEW h \in Passed' PROVE h \in Passed
      OBVIOUS
    <3>1. db' = db /\ ethBlocks' = ethBlocks
      BY <1>6 DEF LoadLastBlock
    <3>2. h \in ethBlocks \ db /\ \E lo \in db : lo < h
      BY <3>1 DEF Passed
    <3>3. (\E hi \in db : h < hi) \/ h <= Max(db)
      BY <2>3, <3>1, <3>2 DEF Passed
    <3>4. \E hi \in db : h < hi
      <4>1. db # {}
        BY <3>2
      <4>2. Max(db) \in db /\ h # Max(db)
        BY <2>2, <3>2, <4>1
      <4>3. h \in Int /\ Max(db) \in Int
        <5>1. \A x \in ethBlocks : x \in Int
          BY DEF Heights
        <5>2. Max(db) \in ethBlocks
          BY <4>2 DEF Heights
        <5>3. QED
          BY <3>2, <5>1, <5>2
      <4>4. QED
        BY <3>3, <4>2, <4>3
    <3>5. QED
      BY <3>2, <3>4 DEF Passed
  <2>8. faults' = faults
    BY <1>6 DEF LoadLastBlock
  <2>9. QED
    BY <2>4, <2>5, <2>6, <2>7, <2>8, NothingLost
<1>7. CASE Loop
  <2>1. Heights'
    BY <1>7 DEF Loop, Heights
  <2>2. IndexFlags'
    BY <1>7 DEF Loop, IndexFlags
  <2>3. Counts' /\ LoopPlace'
    BY <1>7 DEF Loop, Counts, LoopPlace, Looping
  <2>4. Passed' = Passed /\ faults' = faults
    BY <1>7 DEF Loop, Passed, Looping
  <2>5. QED
    BY <2>1, <2>2, <2>3, <2>4, NothingLost
<1>8. CASE WaitForBlock
  <2>1. Heights'
    BY <1>8 DEF WaitForBlock, Heights
  <2>2. IndexFlags'
    BY <1>8 DEF WaitForBlock, IndexFlags
  <2>3. Counts' /\ LoopPlace'
    BY <1>8 DEF WaitForBlock, Counts, LoopPlace, Looping
  <2>4. Passed' = Passed /\ faults' = faults
    BY <1>8 DEF WaitForBlock, Passed, Looping
  <2>5. QED
    BY <2>1, <2>2, <2>3, <2>4, NothingLost
<1>9. CASE Fetch
  <2>1. Heights'
    BY <1>9 DEF Fetch, Heights
  <2>2. IndexFlags'
    BY <1>9 DEF Fetch, IndexFlags
  <2>3. Counts' /\ faults'.index = faults.index
    BY <1>9 DEF Fetch, Counts
  <2>4. LoopPlace'
    BY <1>9 DEF Fetch, InReach, LoopPlace, Looping
  <2>5. Passed' = Passed
    BY <1>9 DEF Fetch, Passed, Looping
  <2>6. QED
    BY <2>1, <2>2, <2>3, <2>4, <2>5, NothingLost
<1>10. CASE IndexBlock
  <2>1. Heights'
    BY <1>10 DEF IndexBlock, Heights, LoopPlace
  <2>2. IndexFlags'
    BY <1>10 DEF IndexBlock, IndexFlags
  <2>3. Counts'
    BY <1>10 DEF IndexBlock, Counts
  <2>4. LoopPlace'
    BY <1>10 DEF IndexBlock, LoopPlace, Looping, Heights
  <2>5. /\ nextBlock = lastBlock + 1 /\ lastBlock' = nextBlock
        /\ (\A h \in db : h <= lastBlock) /\ Looping
    BY <1>10 DEF IndexBlock, LoopPlace, Looping
  <2>6. CASE db' = db \cup ({nextBlock} \cap ethBlocks) /\ faults' = faults
    <3>1. Passed' \subseteq Passed
      BY <1>10, <2>5, <2>6 DEF IndexBlock, Passed, Heights
    <3>2. QED
      BY <2>1, <2>2, <2>3, <2>4, <2>6, <3>1, NothingLost
  <2>7. CASE db' = db /\ faults'.index = faults.index + 1
    <3>1. Passed' \subseteq Passed \cup {nextBlock}
      BY <1>10, <2>5, <2>7 DEF IndexBlock, Passed, Heights
    <3>2. IsFiniteSet(Passed)
      BY PassedShrinks
    <3>3. /\ IsFiniteSet(Passed \cup {nextBlock})
          /\ Cardinality(Passed \cup {nextBlock}) <= Cardinality(Passed) + 1
      <4>1. Cardinality(Passed) \in Nat
        BY <3>2, FS_CardinalityType
      <4>2. QED
        BY <3>2, <4>1, FS_AddElement
    <3>4. IsFiniteSet(Passed') /\ Cardinality(Passed') <= Cardinality(Passed \cup {nextBlock})
      BY <3>1, <3>3, FS_Subset
    <3>5. /\ Cardinality(Passed) \in Nat /\ Cardinality(Passed') \in Nat
          /\ Cardinality(Passed \cup {nextBlock}) \in Nat
      BY <3>2, <3>3, <3>4, FS_CardinalityType
    <3>6. faults.index \in Nat
      BY DEF Counts
    <3>7. Cardinality(Passed') <= faults'.index
      BY <2>7, <3>3, <3>4, <3>5, <3>6
    <3>8. QED
      BY <2>1, <2>2, <2>3, <2>4, <3>7
  <2>8. QED
    <3>1. faults' = [faults EXCEPT !.index = @ + 1] => faults'.index = faults.index + 1
      BY DEF Counts
    <3>2. QED
      BY <1>10, <2>6, <2>7, <3>1 DEF IndexBlock
<1>11. CASE Crash
  <2>1. Heights'
    BY <1>11 DEF Crash, Heights
  <2>2. IndexFlags'
    BY <1>11 DEF Crash, IndexFlags
  <2>3. Counts' /\ faults'.index = faults.index
    BY <1>11 DEF Crash, Counts
  <2>4. LoopPlace'
    BY <1>11 DEF Crash, LoopPlace, Looping
  <2>5. Passed' \subseteq Passed
    BY <1>11 DEF Crash, Passed, Looping
  <2>6. QED
    BY <2>1, <2>2, <2>3, <2>4, <2>5, NothingLost
<1>12. CASE UNCHANGED serviceVars
  <2>1. Heights' /\ Counts' /\ LoopPlace'
    BY <1>12 DEF serviceVars, Heights, Counts, LoopPlace, Looping
  <2>2. IndexFlags'
    BY <1>12 DEF serviceVars, IndexFlags
  <2>3. Passed' = Passed /\ faults' = faults
    BY <1>12 DEF serviceVars, Passed, Looping
  <2>4. QED
    BY <2>1, <2>2, <2>3, NothingLost
<1>13. QED
  BY <1>1, <1>2, <1>3, <1>4, <1>5, <1>6, <1>7, <1>8, <1>9, <1>10, <1>11, <1>12
     DEF ServiceNext, MainLoop

\* What the proof rests on: the blocks passed over so far are never more than the writes
\* that failed, wherever the node crashes and whatever it has indexed.
THEOREM IndexInvariance == ServiceSpec => []IndexInv
<1>1. ServiceInit => IndexInv
  BY IndexInitInv
<1>2. IndexInv /\ [ServiceNext]_serviceVars => IndexInv'
  BY IndexStepInv
<1>3. QED
  BY <1>1, <1>2, PTL DEF ServiceSpec

\* However long the chain and whenever the node crashes, misses a header, merges two
\* signals or fails to fetch a block, OnStart's loop indexes every block with an Ethereum
\* transaction between two indexed ones except those whose write failed, and never gets
\* ahead of the chain.
THEOREM IndexAlwaysSound == ServiceSpec => []IndexSound
<1>1. IndexInv => IndexSound
  <2> SUFFICES ASSUME IndexInv PROVE IndexSound
    OBVIOUS
  <2>1. ServiceTypes
    <3>1. {notify, newBlockSignal, blockErr} \subseteq BOOLEAN
      BY DEF IndexInv, IndexFlags
    <3>2. QED
      BY <3>1 DEF IndexInv, Heights, Counts, ServiceTypes
  <2>2. Gaps \subseteq Passed
    BY DEF Gaps, Passed
  <2>3. IsFiniteSet(Passed) /\ Cardinality(Gaps) <= Cardinality(Passed)
    BY <2>2, PassedShrinks DEF IndexInv
  <2>4. Cardinality(Gaps) \in Nat /\ Cardinality(Passed) \in Nat /\ faults.index \in Nat
    BY <2>2, <2>3, FS_Subset, FS_CardinalityType, BoundAssumption DEF IndexInv, Counts
  <2>5. LostOnlyByWrites
    BY <2>3, <2>4 DEF IndexInv, LostOnlyByWrites
  <2>6. QED
    BY <2>1, <2>5 DEF IndexSound
<1>2. QED
  BY <1>1, IndexInvariance, PTL

(***************************************************************************)
(* Stream.  What one that was given m items holds.  Segments are numbered  *)
(* from 0, the pruned ones included.                                       *)
(***************************************************************************)
LastSeg(m) == (m - 1) \div SegmentSize

Kept(m) == IF m = 0 THEN 0 ELSE IF LastSeg(m) < MaxSegments THEN LastSeg(m) + 1 ELSE MaxSegments + 1

Pruned(m) == IF m = 0 THEN 0 ELSE (LastSeg(m) + 1) - Kept(m)

Filled(m, g) == IF g < LastSeg(m) THEN SegmentSize ELSE m - LastSeg(m) * SegmentSize

Segment(m, g) == [j \in 1 .. Filled(m, g) |-> g * SegmentSize + j]

Segments(m) == [k \in 1 .. Kept(m) |-> Segment(m, (Pruned(m) + k) - 1)]

StreamOf(S, d, m) == [segments |-> S, segmentOffset |-> d, added |-> m]

Ring(m) == StreamOf(Segments(m), Pruned(m), m)

(***************************************************************************)
(* The inductive invariant.                                                *)
(***************************************************************************)
Labels == {"idle", "makeHeaders", "makeLogs", "subscribeBlocks", "subscribeLogs", "return",
           "read", "unlocked", "waiting", "callback", "installed", "polling", "ended", "panicked"}

Flags == header \in BOOLEAN /\ blocks \in BOOLEAN /\ raced \in BOOLEAN

Places ==
    /\ events \in {"none", "on", "closed"} /\ pc \in [Readers -> Labels]
    /\ at \in [Readers -> Nat] /\ \A r \in Readers : at[r] <= Len(streams)
    /\ woken \subseteq Readers /\ cancelled \subseteq Subscribers /\ failed \subseteq Readers

\* Every stream is a ring, of no more items than may be added.
Rings ==
    /\ streams \in Seq({Ring(m) : m \in Nat})
    /\ \A i \in 1 .. Len(streams) : streams[i].added <= MaxItems

Offsets ==
    /\ offset \in [Readers -> Int]
    /\ \A r \in Readers :
         /\ offset[r] >= -1 /\ offset[r] <= MaxItems
         /\ at[r] = 0 => offset[r] = -1

\* Who has got past initSubscriptions has a stream.
Given ==
    /\ events # "none" => streams # << >>
    /\ \A r \in Readers :
         /\ pc[r] \in {"subscribeBlocks", "subscribeLogs"} => streams # << >>
         /\ pc[r] \in {"read", "unlocked", "waiting", "callback", "installed", "polling"} => at[r] # 0

\* Nobody is in initSubscriptions any more.
Settled == header /\ \A r \in Readers : ~ InInit(r)

\* One reader at a time makes the streams, of which there is then one, nobody is ahead of
\* it, and it is fed unless the reader that made it was refused.
InTurn ==
    /\ \A r, o \in Readers : InInit(r) /\ InInit(o) => r = o
    /\ Len(streams) <= 1
    /\ ~ header => streams = << >>
    /\ Settled => streams # << >> /\ (events = "none" <=> failed # {})
    /\ failed # {} => Settled
    /\ \A r, o \in failed : r = o
    /\ \A r \in Readers :
         /\ pc[r] = "panicked" => r \in failed
         /\ pc[r] = "makeHeaders" => ~ header
         /\ pc[r] = "makeLogs" => header /\ streams = << >>
         /\ pc[r] \in {"subscribeBlocks", "subscribeLogs"} => header /\ events = "none"
         /\ pc[r] = "return" \/ at[r] # 0 => Settled
         /\ at[r] # 0 => offset[r] <= streams[at[r]].added

Inv == Flags /\ Places /\ Rings /\ Offsets /\ Given /\ (~ raced => InTurn)

(***************************************************************************)
(* Arithmetic.                                                             *)
(***************************************************************************)
\* The constants are numbers.
LEMMA Sizes ==
    /\ SegmentSize \in Nat \ {0} /\ SegmentSize \in Nat /\ SegmentSize > 0
    /\ MaxSegments \in Nat \ {0} /\ MaxSegments \in Nat /\ MaxSegments > 0
    /\ MaxItems \in Nat /\ MaxBatch \in Nat
  BY ParameterAssumption

\* A quotient rounds down, and the remainder is the rest.
LEMMA Quotient ==
    ASSUME NEW m \in Nat, NEW n \in Nat \ {0}
    PROVE  /\ m \div n \in Nat /\ (m \div n) * n <= m /\ m < (m \div n) * n + n
           /\ m % n \in Nat /\ m % n < n /\ m = (m \div n) * n + (m % n)
  OBVIOUS

\* Products keep the order.
LEMMA Monotone ==
    ASSUME NEW x \in Nat, NEW y \in Nat, NEW z \in Nat, x <= y
    PROVE  x * z <= y * z /\ x * z \in Nat /\ y * z \in Nat
  OBVIOUS

\* One more segment is a segment more of items.
LEMMA NextProduct ==
    ASSUME NEW x \in Int, NEW z \in Int
    PROVE  (x + 1) * z = x * z + z /\ x * z \in Int
  OBVIOUS

\* There is one quotient and one remainder.
LEMMA Division ==
    ASSUME NEW m \in Nat, NEW n \in Nat \ {0}, NEW q \in Nat, NEW r \in Nat, r < n, m = q * n + r
    PROVE  m \div n = q /\ m % n = r
<1>1. PICK p, s : p = m \div n /\ s = m % n
  OBVIOUS
<1>2. p \in Nat /\ s \in Nat /\ s < n /\ m = p * n + s
  BY <1>1, Quotient
<1>3. PICK u, v : u = p * n /\ v = q * n
  OBVIOUS
<1>4. u \in Int /\ v \in Int /\ n \in Nat
  BY <1>2, <1>3
<1>5. u < v + n /\ v < u + n
  BY <1>2, <1>3, <1>4
<1>6. p \in Int /\ q \in Int /\ p * n < q * n + n /\ q * n < p * n + n
  BY <1>2, <1>3, <1>5
<1>7. p <= q /\ q <= p
  <2>1. ASSUME NEW x \in Int, NEW y \in Int, x * n < y * n + n PROVE x <= y
    <3> SUFFICES ASSUME x >= y + 1 PROVE FALSE
      BY <2>1
    <3>1. (x - y) - 1 \in Nat
      OBVIOUS
    <3>2. ((x - y) - 1) * n >= 0
      BY <3>1
    <3>3. ((x - y) - 1) * n = (x * n - y * n) - n
      OBVIOUS
    <3>4. x * n \in Int /\ y * n \in Int /\ n \in Int
      OBVIOUS
    <3>5. QED
      BY <2>1, <3>2, <3>3, <3>4
  <2>2. p <= q
    BY <1>6, <2>1
  <2>3. q <= p
    BY <1>6, <2>1
  <2>4. QED
    BY <2>2, <2>3
<1>8. p = q
  BY <1>2, <1>7
<1>9. s = r
  BY <1>2, <1>3, <1>4, <1>8
<1>10. QED
  BY <1>1, <1>8, <1>9

(***************************************************************************)
(* The shape of a ring.                                                    *)
(***************************************************************************)
\* The last item is in the last segment, and the segments kept end with it.
LEMMA RingNumbers ==
    ASSUME NEW m \in Nat \ {0}
    PROVE  /\ LastSeg(m) \in Nat /\ LastSeg(m) * SegmentSize \in Nat
           /\ LastSeg(m) * SegmentSize < m /\ m <= LastSeg(m) * SegmentSize + SegmentSize
           /\ Kept(m) \in Nat /\ Kept(m) > 0 /\ Kept(m) <= MaxSegments + 1
           /\ Pruned(m) \in Nat /\ Pruned(m) + Kept(m) = LastSeg(m) + 1
           /\ Pruned(m) > 0 => Kept(m) = MaxSegments + 1
<1>1. PICK t, p : t = LastSeg(m) /\ p = t * SegmentSize
  OBVIOUS
<1>2. m - 1 \in Nat
  OBVIOUS
<1>3. t \in Nat /\ p <= m - 1 /\ m - 1 < p + SegmentSize
  BY <1>1, <1>2, Sizes, Quotient DEF LastSeg
<1>4. p \in Nat
  BY <1>1, <1>3, Sizes
<1>5. p < m /\ m <= p + SegmentSize
  BY <1>3, <1>4, Sizes
<1>6. m # 0 /\ Kept(m) = (IF t < MaxSegments THEN t + 1 ELSE MaxSegments + 1) /\ Pruned(m) = (t + 1) - Kept(m)
  BY <1>1 DEF Kept, Pruned
<1>7. PICK k, d : k = Kept(m) /\ d = Pruned(m)
  OBVIOUS
<1>8. k \in Nat /\ k > 0 /\ k <= MaxSegments + 1 /\ d \in Nat /\ d + k = t + 1 /\ (d > 0 => k = MaxSegments + 1)
  BY <1>3, <1>6, <1>7, Sizes
<1>9. QED
  BY <1>1, <1>3, <1>4, <1>5, <1>7, <1>8

\* A ring of nothing.
LEMMA NoRing == Kept(0) = 0 /\ Pruned(0) = 0 /\ Segments(0) = << >> /\ Ring(0) = NewStream
<1>1. Kept(0) = 0 /\ Pruned(0) = 0
  BY DEF Kept, Pruned
<1>2. Segments(0) = << >>
  BY <1>1 DEF Segments
<1>3. QED
  BY <1>1, <1>2 DEF Ring, StreamOf, NewStream

\* A segment holds consecutive items, as many as it has room for unless it is the last.
LEMMA SegmentShape ==
    ASSUME NEW m \in Nat \ {0}, NEW g \in Nat, g <= LastSeg(m)
    PROVE  /\ Filled(m, g) \in Nat /\ Filled(m, g) > 0 /\ Filled(m, g) <= SegmentSize
           /\ Segment(m, g) \in Seq(Nat) /\ Len(Segment(m, g)) = Filled(m, g)
           /\ \A j \in 1 .. Filled(m, g) : Segment(m, g)[j] = g * SegmentSize + j
           /\ g * SegmentSize \in Nat /\ (g < LastSeg(m) => Filled(m, g) = SegmentSize)
           /\ g = LastSeg(m) => g * SegmentSize + Filled(m, g) = m
           /\ g * SegmentSize + Filled(m, g) <= m
<1>1. PICK t, p, f, q : t = LastSeg(m) /\ p = t * SegmentSize /\ f = Filled(m, g) /\ q = g * SegmentSize
  OBVIOUS
<1>2. t \in Nat /\ p \in Nat /\ p < m /\ m <= p + SegmentSize
  BY <1>1, RingNumbers
<1>3. f = IF g < t THEN SegmentSize ELSE m - p
  BY <1>1 DEF Filled
<1>4. f \in Nat /\ f > 0 /\ f <= SegmentSize /\ (g < t => f = SegmentSize)
  BY <1>2, <1>3, Sizes
<1>5. q \in Nat
  BY <1>1, Sizes
<1>6. g = t => q + f = m
  BY <1>1, <1>2, <1>3
<1>7. q + f <= m
  <2>1. CASE g = t
    BY <1>2, <1>4, <1>5, <1>6, <2>1
  <2>2. CASE g # t
    <3>1. g + 1 <= t /\ g + 1 \in Nat
      BY <1>1, <1>2, <2>2
    <3>2. (g + 1) * SegmentSize <= p
      BY <1>1, <1>2, <3>1, Sizes, Monotone
    <3>3. (g + 1) * SegmentSize = q + SegmentSize
      BY <1>1, Sizes, NextProduct
    <3>4. f = SegmentSize
      BY <1>1, <1>2, <1>3, <2>2
    <3>5. QED
      BY <1>2, <1>5, <3>2, <3>3, <3>4, Sizes
  <2>3. QED
    BY <2>1, <2>2
<1>8. Segment(m, g) = [j \in 1 .. f |-> q + j]
  BY <1>1 DEF Segment
<1>9. \A j \in 1 .. f : q + j \in Nat
  BY <1>4, <1>5
<1>10. PICK s : s = [j \in 1 .. f |-> q + j]
  OBVIOUS
<1>11. s \in [1 .. f -> Nat]
  BY <1>9, <1>10
<1>12. s \in Seq(Nat) /\ Len(s) = f /\ \A j \in 1 .. f : s[j] = q + j
  BY <1>4, <1>10, <1>11
<1>13. QED
  BY <1>1, <1>4, <1>5, <1>6, <1>7, <1>8, <1>10, <1>12

\* The segments of a ring.
LEMMA SegmentsShape ==
    ASSUME NEW m \in Nat
    PROVE  /\ Segments(m) \in Seq(Seq(Nat)) /\ Len(Segments(m)) = Kept(m) /\ Kept(m) \in Nat
           /\ \A k \in 1 .. Kept(m) :
                /\ Segments(m)[k] = Segment(m, (Pruned(m) + k) - 1)
                /\ (Pruned(m) + k) - 1 \in Nat /\ (Pruned(m) + k) - 1 <= LastSeg(m)
                /\ k < Kept(m) => (Pruned(m) + k) - 1 < LastSeg(m)
<1>1. CASE m = 0
  <2>1. Kept(m) = 0 /\ Segments(m) = << >>
    BY <1>1, NoRing
  <2>2. << >> \in Seq(Seq(Nat)) /\ Len(<< >>) = 0 /\ 1 .. 0 = {}
    OBVIOUS
  <2>3. QED
    BY <2>1, <2>2
<1>2. CASE m # 0
  <2>1. PICK k0, d, t : k0 = Kept(m) /\ d = Pruned(m) /\ t = LastSeg(m)
    OBVIOUS
  <2>2. m \in Nat \ {0}
    BY <1>2
  <2>3. t \in Nat /\ k0 \in Nat /\ d \in Nat /\ d + k0 = t + 1
    BY <2>1, <2>2, RingNumbers
  <2>4. \A k \in 1 .. k0 : (d + k) - 1 \in Nat /\ (d + k) - 1 <= t /\ (k < k0 => (d + k) - 1 < t)
    BY <2>3
  <2>5. \A k \in 1 .. k0 : Segment(m, (d + k) - 1) \in Seq(Nat)
    BY <2>1, <2>2, <2>4, SegmentShape
  <2>6. Segments(m) = [k \in 1 .. k0 |-> Segment(m, (d + k) - 1)]
    BY <2>1 DEF Segments
  <2>7. PICK s : s = Segments(m)
    OBVIOUS
  <2>8. s \in [1 .. k0 -> Seq(Nat)] /\ \A k \in 1 .. k0 : s[k] = Segment(m, (d + k) - 1)
    BY <2>5, <2>6, <2>7
  <2>9. s \in Seq(Seq(Nat)) /\ Len(s) = k0
    BY <2>3, <2>8
  <2>10. QED
    BY <2>1, <2>3, <2>4, <2>7, <2>8, <2>9
<1>3. QED
  BY <1>1, <1>2

(***************************************************************************)
(* Add keeps a ring a ring.                                                *)
(***************************************************************************)
\* The next item is in the last segment while that has room.
LEMMA NextItem ==
    ASSUME NEW m \in Nat \ {0}
    PROVE  /\ Filled(m, LastSeg(m)) # SegmentSize =>
                LastSeg(m + 1) = LastSeg(m) /\ Kept(m + 1) = Kept(m) /\ Pruned(m + 1) = Pruned(m)
           /\ Filled(m, LastSeg(m)) = SegmentSize =>
                /\ LastSeg(m + 1) = LastSeg(m) + 1
                /\ Kept(m) > MaxSegments => Kept(m + 1) = Kept(m) /\ Pruned(m + 1) = Pruned(m) + 1
                /\ ~ (Kept(m) > MaxSegments) => Kept(m + 1) = Kept(m) + 1 /\ Pruned(m + 1) = Pruned(m)
           /\ m + 1 \in Nat \ {0}
<1>1. PICK t, f, p, k, d, t1, k1, d1 :
          /\ t = LastSeg(m) /\ f = Filled(m, t) /\ p = t * SegmentSize /\ k = Kept(m) /\ d = Pruned(m)
          /\ t1 = LastSeg(m + 1) /\ k1 = Kept(m + 1) /\ d1 = Pruned(m + 1)
  OBVIOUS
<1>2. /\ t \in Nat /\ p \in Nat /\ k \in Nat /\ d \in Nat /\ d + k = t + 1
      /\ f \in Nat /\ f > 0 /\ f <= SegmentSize /\ p + f = m
  <2>1. t \in Nat /\ p \in Nat /\ k \in Nat /\ d \in Nat /\ d + k = t + 1
    BY <1>1, RingNumbers
  <2>2. t <= LastSeg(m) /\ t = LastSeg(m)
    BY <1>1, <2>1
  <2>3. f \in Nat /\ f > 0 /\ f <= SegmentSize /\ p + f = m
    BY <1>1, <2>1, <2>2, SegmentShape
  <2>4. QED
    BY <2>1, <2>3
<1>3. k = IF t < MaxSegments THEN t + 1 ELSE MaxSegments + 1
  BY <1>1 DEF Kept
<1>4. m + 1 \in Nat \ {0} /\ m + 1 # 0 /\ (m + 1) - 1 = m
  OBVIOUS
<1>5. t1 = m \div SegmentSize
  BY <1>1, <1>4 DEF LastSeg
<1>6. k1 = (IF t1 < MaxSegments THEN t1 + 1 ELSE MaxSegments + 1) /\ d1 = (t1 + 1) - k1
  BY <1>1, <1>4 DEF Kept, Pruned
<1>7. CASE f # SegmentSize
  <2>1. f < SegmentSize /\ m = t * SegmentSize + f
    BY <1>1, <1>2, <1>7, Sizes
  <2>2. t1 = t
    BY <1>2, <1>5, <2>1, Sizes, Division
  <2>3. k1 = k /\ d1 = d
    BY <1>2, <1>3, <1>6, <2>2, Sizes
  <2>4. QED
    BY <1>1, <1>4, <1>7, <2>2, <2>3
<1>8. CASE f = SegmentSize
  <2>1. (t + 1) * SegmentSize = p + SegmentSize
    BY <1>1, <1>2, Sizes, NextProduct
  <2>2. t + 1 \in Nat /\ 0 \in Nat /\ 0 < SegmentSize /\ m = (t + 1) * SegmentSize + 0
    BY <1>2, <1>8, <2>1, Sizes
  <2>3. t1 = t + 1
    BY <1>5, <2>2, Sizes, Division
  <2>4. (k > MaxSegments => k1 = k /\ d1 = d + 1) /\ (~ (k > MaxSegments) => k1 = k + 1 /\ d1 = d)
    BY <1>2, <1>3, <1>6, <2>3, Sizes
  <2>5. QED
    BY <1>1, <1>4, <1>8, <2>3, <2>4
<1>9. QED
  BY <1>7, <1>8

\* The segment an item goes to has it after the others.
LEMMA Grown ==
    ASSUME NEW m \in Nat \ {0}, Filled(m, LastSeg(m)) # SegmentSize
    PROVE  /\ Segment(m + 1, LastSeg(m)) = Append(Segment(m, LastSeg(m)), m + 1)
           /\ \A g \in Nat : g < LastSeg(m) => Segment(m + 1, g) = Segment(m, g)
<1>1. PICK t, f, s : t = LastSeg(m) /\ f = Filled(m, t) /\ s = Segment(m, t)
  OBVIOUS
<1>2. t \in Nat /\ t <= t
  BY <1>1, RingNumbers
<1>3. /\ f \in Nat /\ s \in Seq(Nat) /\ Len(s) = f /\ t * SegmentSize + f = m /\ t * SegmentSize \in Nat
      /\ \A j \in 1 .. f : s[j] = t * SegmentSize + j
  BY <1>1, <1>2, SegmentShape
<1>4. LastSeg(m + 1) = t /\ m + 1 \in Nat \ {0}
  BY <1>1, NextItem
<1>5. Filled(m, t) = m - t * SegmentSize /\ Filled(m + 1, t) = (m + 1) - t * SegmentSize
  BY <1>1, <1>2, <1>4 DEF Filled
<1>6. PICK p : p = t * SegmentSize
  OBVIOUS
<1>7. Filled(m + 1, t) = f + 1
  BY <1>1, <1>3, <1>5, <1>6
<1>8. Segment(m + 1, t) = [j \in 1 .. f + 1 |-> p + j]
  BY <1>6, <1>7 DEF Segment
<1>9. Append(s, m + 1) = [j \in 1 .. f + 1 |-> p + j]
  <2>1. \A j \in 1 .. f + 1 : Append(s, m + 1)[j] = p + j
    <3> SUFFICES ASSUME NEW j \in 1 .. f + 1 PROVE Append(s, m + 1)[j] = p + j
      OBVIOUS
    <3>1. CASE j = f + 1
      BY <1>3, <1>6, <3>1
    <3>2. CASE j # f + 1
      <4>1. j \in 1 .. f
        BY <1>3, <3>2
      <4>2. QED
        BY <1>3, <1>6, <4>1
    <3>3. QED
      BY <3>1, <3>2
  <2>2. Append(s, m + 1) \in [1 .. f + 1 -> Nat]
    <3>1. PICK u : u = Append(s, m + 1)
      OBVIOUS
    <3>2. u \in Seq(Nat) /\ Len(u) = f + 1
      BY <1>3, <3>1
    <3>3. u \in [1 .. f + 1 -> Nat]
      BY <3>2
    <3>4. QED
      BY <3>1, <3>3
  <2>3. QED
    BY <2>1, <2>2
<1>10. ASSUME NEW g \in Nat, g < t PROVE Segment(m + 1, g) = Segment(m, g)
  BY <1>1, <1>4, <1>10 DEF Segment, Filled
<1>11. QED
  BY <1>1, <1>8, <1>9, <1>10

\* A segment that is full stays as it is, and the next item is the first of a new one.
LEMMA Opened ==
    ASSUME NEW m \in Nat \ {0}, Filled(m, LastSeg(m)) = SegmentSize
    PROVE  /\ Segment(m + 1, LastSeg(m) + 1) = << m + 1 >>
           /\ \A g \in Nat : g <= LastSeg(m) => Segment(m + 1, g) = Segment(m, g)
<1>1. PICK t, p : t = LastSeg(m) /\ p = t * SegmentSize
  OBVIOUS
<1>2. t \in Nat /\ t <= t /\ p \in Nat
  BY <1>1, RingNumbers
<1>3. p + SegmentSize = m
  BY <1>1, <1>2, SegmentShape
<1>4. LastSeg(m + 1) = t + 1 /\ m + 1 \in Nat \ {0}
  BY <1>1, NextItem
<1>5. (t + 1) * SegmentSize = m
  BY <1>1, <1>2, <1>3, Sizes, NextProduct
<1>6. Filled(m + 1, t + 1) = 1
  BY <1>2, <1>4, <1>5 DEF Filled
<1>7. Segment(m + 1, t + 1) = [j \in 1 .. 1 |-> m + j]
  BY <1>5, <1>6 DEF Segment
<1>8. [j \in 1 .. 1 |-> m + j] = << m + 1 >>
  OBVIOUS
<1>9. ASSUME NEW g \in Nat, g <= t PROVE Segment(m + 1, g) = Segment(m, g)
  <2>1. g < t + 1
    BY <1>2, <1>9
  <2>2. Filled(m + 1, g) = SegmentSize
    BY <1>4, <2>1 DEF Filled
  <2>3. Filled(m, g) = SegmentSize
    <3>1. CASE g = t
      BY <1>1, <3>1
    <3>2. CASE g # t
      BY <1>1, <1>2, <1>9, <3>2 DEF Filled
    <3>3. QED
      BY <3>1, <3>2
  <2>4. QED
    BY <2>2, <2>3 DEF Segment
<1>10. QED
  BY <1>1, <1>7, <1>8, <1>9

\* The segments A, after e pruned ones, have room where S, after d, may not have it.
RoomIn(S, d, A, e) ==
    \/ /\ S # << >> /\ Len(S[Len(S)]) # SegmentSize
       /\ A = S /\ e = d
    \/ /\ S = << >> \/ Len(S[Len(S)]) = SegmentSize
       /\ ~ (Len(S) > MaxSegments)
       /\ A = Append(S, << >>) /\ e = d
    \/ /\ S # << >> /\ Len(S[Len(S)]) = SegmentSize
       /\ Len(S) > MaxSegments
       /\ A = Append(Tail(S), << >>) /\ e = d + 1

\* An item more in the last segment.
WithItem(A, x) == [A EXCEPT ![Len(A)] = Append(A[Len(A)], x)]

\* What Add does to a stream, by its fields.
LEMMA AppendedFields ==
    ASSUME NEW S, S \in Seq(Seq(Nat)), NEW d, NEW m, NEW A, NEW e, RoomIn(S, d, A, e)
    PROVE  Appended(StreamOf(S, d, m)) = StreamOf(WithItem(A, m + 1), e, m + 1)
<1>0. PICK s : s = StreamOf(S, d, m)
  OBVIOUS
<1>1. s.segments = S /\ s.segmentOffset = d /\ s.added = m
  BY <1>0 DEF StreamOf
<1>2. Length(s) = Len(S) /\ Last(s.segments) = S[Len(S)] /\ (Len(S) = 0 <=> S = << >>)
  BY <1>1 DEF Length, Last
<1>3. MakeRoom(s) = StreamOf(A, e, m)
  <2>1. CASE S # << >> /\ Len(S[Len(S)]) # SegmentSize /\ A = S /\ e = d
    BY <1>0, <1>2, <2>1 DEF MakeRoom
  <2>2. CASE (S = << >> \/ Len(S[Len(S)]) = SegmentSize) /\ ~ (Len(S) > MaxSegments) /\ A = Append(S, << >>) /\ e = d
    <3>1. MakeRoom(s) = [s EXCEPT !.segments = Append(@, << >>)]
      BY <1>2, <2>2 DEF MakeRoom
    <3>2. QED
      BY <1>0, <2>2, <3>1 DEF StreamOf
  <2>3. CASE S # << >> /\ Len(S[Len(S)]) = SegmentSize /\ Len(S) > MaxSegments /\ A = Append(Tail(S), << >>) /\ e = d + 1
    <3>1. MakeRoom(s) = [s EXCEPT !.segments = Append(Tail(@), << >>), !.segmentOffset = @ + 1]
      BY <1>2, <2>3 DEF MakeRoom
    <3>2. QED
      BY <1>0, <2>3, <3>1 DEF StreamOf
  <2>4. QED
    BY <2>1, <2>2, <2>3 DEF RoomIn
<1>4. PICK room : room = MakeRoom(s)
  OBVIOUS
<1>5. room.segments = A /\ room.added = m /\ Length(room) = Len(A)
  BY <1>3, <1>4 DEF Length, StreamOf
<1>6. Appended(s) = [room EXCEPT !.segments[Len(A)] = Append(@, m + 1), !.added = @ + 1]
  BY <1>1, <1>4, <1>5 DEF Appended
<1>7. PICK U : U = WithItem(A, m + 1)
  OBVIOUS
<1>8. Appended(s) = [room EXCEPT !.segments = U, !.added = m + 1]
  BY <1>5, <1>6, <1>7 DEF WithItem
<1>9. [room EXCEPT !.segments = U, !.added = m + 1] = StreamOf(U, e, m + 1)
  <2>1. room = StreamOf(A, e, m)
    BY <1>3, <1>4
  <2>2. PICK x, y : /\ x = [room EXCEPT !.segments = U, !.added = m + 1]
                    /\ y = StreamOf(U, e, m + 1)
    OBVIOUS
  <2>3. x.segments = U /\ x.segmentOffset = e /\ x.added = m + 1
    BY <2>1, <2>2 DEF StreamOf
  <2>4. y.segments = U /\ y.segmentOffset = e /\ y.added = m + 1
    BY <2>2 DEF StreamOf
  <2>5. x = [f \in {"segments", "segmentOffset", "added"} |-> x[f]]
    BY <2>1, <2>2 DEF StreamOf
  <2>6. y = [f \in {"segments", "segmentOffset", "added"} |-> y[f]]
    BY <2>2 DEF StreamOf
  <2>7. x = y
    BY <2>3, <2>4, <2>5, <2>6
  <2>8. QED
    BY <2>2, <2>7
<1>10. QED
  BY <1>0, <1>7, <1>8, <1>9

\* The ring of one more item.
LEMMA AppendedRing ==
    ASSUME NEW m \in Nat
    PROVE  Appended(Ring(m)) = Ring(m + 1)
<1>1. PICK S, k, d, t : S = Segments(m) /\ k = Kept(m) /\ d = Pruned(m) /\ t = LastSeg(m)
  OBVIOUS
<1>2. PICK T, k1, d1 : T = Segments(m + 1) /\ k1 = Kept(m + 1) /\ d1 = Pruned(m + 1)
  OBVIOUS
<1>3. Ring(m) = StreamOf(S, d, m)
  BY <1>1 DEF Ring
<1>4. Ring(m + 1) = StreamOf(T, d1, m + 1)
  BY <1>2 DEF Ring
<1>5. S \in Seq(Seq(Nat)) /\ Len(S) = k /\ k \in Nat
  BY <1>1, SegmentsShape
<1>6. T = [j \in 1 .. k1 |-> Segment(m + 1, (d1 + j) - 1)]
  BY <1>2 DEF Segments
<1>7. CASE m = 0
  <2>1. S = << >> /\ k = 0 /\ d = 0
    BY <1>1, <1>7, NoRing
  <2>2. LastSeg(1) = 0
    <3>1. 0 = 0 * SegmentSize + 0 /\ 0 \in Nat /\ 0 < SegmentSize
      BY Sizes
    <3>2. 0 \div SegmentSize = 0
      BY <3>1, Sizes, Division
    <3>3. QED
      BY <3>2 DEF LastSeg
  <2>3. k1 = 1 /\ d1 = 0
    BY <1>2, <1>7, <2>2, Sizes DEF Kept, Pruned
  <2>4. Segment(1, 0) = << 1 >>
    <3>1. 0 * SegmentSize = 0
      BY Sizes
    <3>2. Filled(1, 0) = 1
      BY <2>2, <3>1 DEF Filled
    <3>3. Segment(1, 0) = [j \in 1 .. 1 |-> 0 + j]
      BY <3>1, <3>2 DEF Segment
    <3>4. QED
      BY <3>3
  <2>5. T = << << 1 >> >>
    <3>1. T = [j \in 1 .. 1 |-> Segment(1, j - 1)]
      BY <1>6, <1>7, <2>3
    <3>2. T = [j \in 1 .. 1 |-> << 1 >>]
      BY <2>4, <3>1
    <3>3. QED
      BY <3>2
  <2>6. PICK A : A = Append(S, << >>)
    OBVIOUS
  <2>7. A = << << >> >> /\ Len(A) = 1 /\ WithItem(A, 1) = << << 1 >> >>
    BY <2>1, <2>6 DEF WithItem
  <2>8. d \in Nat /\ ~ (Len(S) > MaxSegments)
    BY <1>5, <2>1, Sizes
  <2>9. Appended(Ring(m)) = StreamOf(WithItem(A, m + 1), d, m + 1)
    <3>1. RoomIn(S, d, A, d)
      BY <2>1, <2>6, <2>8 DEF RoomIn
    <3>2. QED
      <4>1. Appended(StreamOf(S, d, m)) = StreamOf(WithItem(A, m + 1), d, m + 1)
        BY <1>5, <3>1, AppendedFields, ZenonT(60)
      <4>2. QED
        BY <1>3, <4>1
  <2>10. QED
    BY <1>4, <1>7, <2>1, <2>3, <2>5, <2>7, <2>9
<1>8. CASE m # 0
  <2>1. m \in Nat \ {0}
    BY <1>8
  <2>2. /\ t \in Nat /\ d \in Nat /\ k > 0 /\ d + k = t + 1 /\ k <= MaxSegments + 1 /\ t <= t
        /\ (d + k) - 1 = t /\ k \in 1 .. k /\ S # << >>
    <3>1. t \in Nat /\ d \in Nat /\ k > 0 /\ d + k = t + 1 /\ k <= MaxSegments + 1
      BY <1>1, <2>1, RingNumbers
    <3>2. t <= t /\ (d + k) - 1 = t /\ k \in 1 .. k
      BY <1>5, <3>1
    <3>3. S # << >>
      BY <1>5, <3>1
    <3>4. QED
      BY <3>1, <3>2, <3>3
  <2>3. \A j \in 1 .. k : /\ S[j] = Segment(m, (d + j) - 1) /\ (d + j) - 1 \in Nat
                          /\ (d + j) - 1 <= t /\ (j < k => (d + j) - 1 < t)
    BY <1>1, SegmentsShape
  <2>4. S[k] = Segment(m, t) /\ Len(S[k]) = Filled(m, t)
    <3>1. S[k] = Segment(m, t)
      BY <2>2, <2>3
    <3>2. Len(Segment(m, t)) = Filled(m, t)
      BY <1>1, <2>1, <2>2, SegmentShape
    <3>3. QED
      BY <3>1, <3>2
  <2>5. CASE Filled(m, t) # SegmentSize
    <3>1. k1 = k /\ d1 = d
      BY <1>1, <1>2, <2>1, <2>5, NextItem
    <3>2. Segment(m + 1, t) = Append(Segment(m, t), m + 1) /\ \A g \in Nat : g < t => Segment(m + 1, g) = Segment(m, g)
      BY <1>1, <2>1, <2>5, Grown
    <3>3. Appended(Ring(m)) = StreamOf(WithItem(S, m + 1), d, m + 1)
      <4>1. RoomIn(S, d, S, d)
        BY <1>5, <2>2, <2>4, <2>5 DEF RoomIn
      <4>2. d \in Nat /\ d \in Nat
        BY <2>2
      <4>3. QED
        <5>1. Appended(StreamOf(S, d, m)) = StreamOf(WithItem(S, m + 1), d, m + 1)
          BY <1>5, <4>1, AppendedFields, ZenonT(60)
        <5>2. QED
          BY <1>3, <5>1
    <3>4. PICK U : U = [S EXCEPT ![k] = Append(S[k], m + 1)]
      OBVIOUS
    <3>5. \A j \in 1 .. k : U[j] = Segment(m + 1, (d + j) - 1)
      <4> SUFFICES ASSUME NEW j \in 1 .. k PROVE U[j] = Segment(m + 1, (d + j) - 1)
        OBVIOUS
      <4>1. CASE j = k
        <5>1. U[k] = Append(S[k], m + 1)
          BY <1>5, <2>2, <3>4
        <5>2. QED
          BY <2>2, <2>4, <3>2, <4>1, <5>1
      <4>2. CASE j # k
        <5>1. U[j] = S[j] /\ j < k
          BY <1>5, <3>4, <4>2
        <5>2. QED
          BY <2>3, <3>2, <5>1
      <4>3. QED
        BY <4>1, <4>2
    <3>6. U \in [1 .. k -> Seq(Nat)]
      <4>1. S \in [1 .. k -> Seq(Nat)]
        BY <1>5
      <4>2. S[k] \in Seq(Nat)
        BY <2>2, <4>1
      <4>3. Append(S[k], m + 1) \in Seq(Nat)
        BY <4>2
      <4>4. QED
        BY <3>4, <4>1, <4>3
    <3>7. U = T
      BY <1>6, <3>1, <3>5, <3>6
    <3>8. QED
      BY <1>4, <1>5, <3>1, <3>3, <3>4, <3>7 DEF WithItem
  <2>6. CASE Filled(m, t) = SegmentSize /\ ~ (k > MaxSegments)
    <3>1. k1 = k + 1 /\ d1 = d
      BY <1>1, <1>2, <2>1, <2>6, NextItem
    <3>2. Segment(m + 1, t + 1) = << m + 1 >> /\ \A g \in Nat : g <= t => Segment(m + 1, g) = Segment(m, g)
      BY <1>1, <2>1, <2>6, Opened
    <3>3. PICK A : A = Append(S, << >>)
      OBVIOUS
    <3>4. Appended(Ring(m)) = StreamOf(WithItem(A, m + 1), d, m + 1)
      <4>1. RoomIn(S, d, A, d)
        BY <1>5, <2>2, <2>4, <2>6, <3>3 DEF RoomIn
      <4>2. d \in Nat /\ d \in Nat
        BY <2>2
      <4>3. QED
        <5>1. Appended(StreamOf(S, d, m)) = StreamOf(WithItem(A, m + 1), d, m + 1)
          BY <1>5, <4>1, AppendedFields, ZenonT(60)
        <5>2. QED
          BY <1>3, <5>1
    <3>5. << >> \in Seq(Nat)
      OBVIOUS
    <3>6. A \in Seq(Seq(Nat)) /\ Len(A) = k + 1 /\ A[k + 1] = << >> /\ \A j \in 1 .. k : A[j] = S[j]
      BY <1>5, <3>3, <3>5
    <3>7. PICK U : U = [A EXCEPT ![k + 1] = << m + 1 >>]
      OBVIOUS
    <3>8. \A j \in 1 .. k + 1 : U[j] = Segment(m + 1, (d + j) - 1)
      <4> SUFFICES ASSUME NEW j \in 1 .. k + 1 PROVE U[j] = Segment(m + 1, (d + j) - 1)
        OBVIOUS
      <4>1. CASE j = k + 1
        <5>1. (d + j) - 1 = t + 1
          BY <1>5, <2>2, <4>1
        <5>2. QED
          BY <1>5, <3>2, <3>6, <3>7, <4>1, <5>1
      <4>2. CASE j # k + 1
        <5>1. j \in 1 .. k
          BY <1>5, <4>2
        <5>2. U[j] = S[j]
          BY <1>5, <3>6, <3>7, <4>2, <5>1
        <5>3. QED
          BY <2>3, <3>2, <5>1, <5>2
      <4>3. QED
        BY <4>1, <4>2
    <3>9. U \in [1 .. k + 1 -> Seq(Nat)]
      <4>1. A \in [1 .. k + 1 -> Seq(Nat)] /\ << m + 1 >> \in Seq(Nat)
        BY <1>5, <3>6
      <4>2. QED
        BY <3>7, <4>1
    <3>10. U = T
      BY <1>6, <3>1, <3>8, <3>9
    <3>11. WithItem(A, m + 1) = U
      BY <3>6, <3>7 DEF WithItem
    <3>12. QED
      BY <1>4, <3>1, <3>4, <3>10, <3>11
  <2>7. CASE Filled(m, t) = SegmentSize /\ k > MaxSegments
    <3>1. k1 = k /\ d1 = d + 1
      BY <1>1, <1>2, <2>1, <2>7, NextItem
    <3>2. Segment(m + 1, t + 1) = << m + 1 >> /\ \A g \in Nat : g <= t => Segment(m + 1, g) = Segment(m, g)
      BY <1>1, <2>1, <2>7, Opened
    <3>3. PICK A : A = Append(Tail(S), << >>)
      OBVIOUS
    <3>4. Appended(Ring(m)) = StreamOf(WithItem(A, m + 1), d + 1, m + 1)
      <4>1. RoomIn(S, d, A, d + 1)
        BY <1>5, <2>2, <2>4, <2>7, <3>3 DEF RoomIn
      <4>2. d + 1 \in Nat /\ d \in Nat
        BY <2>2
      <4>3. QED
        <5>1. Appended(StreamOf(S, d, m)) = StreamOf(WithItem(A, m + 1), d + 1, m + 1)
          BY <1>5, <4>1, AppendedFields, ZenonT(60)
        <5>2. QED
          BY <1>3, <5>1
    <3>5. << >> \in Seq(Nat)
      OBVIOUS
    <3>6. Tail(S) \in Seq(Seq(Nat)) /\ Len(Tail(S)) = k - 1 /\ \A j \in 1 .. k - 1 : Tail(S)[j] = S[j + 1]
      BY <1>5, <2>2
    <3>7. A \in Seq(Seq(Nat)) /\ Len(A) = k /\ A[k] = << >> /\ \A j \in 1 .. k - 1 : A[j] = S[j + 1]
      <4>1. PICK V : V = Tail(S)
        OBVIOUS
      <4>2. V \in Seq(Seq(Nat)) /\ Len(V) = k - 1 /\ A = Append(V, << >>)
        BY <3>3, <3>6, <4>1
      <4>3. A \in Seq(Seq(Nat)) /\ Len(A) = k /\ A[k] = << >> /\ \A j \in 1 .. k - 1 : A[j] = V[j]
        BY <1>5, <2>2, <3>5, <4>2
      <4>4. QED
        BY <3>6, <4>1, <4>3
    <3>8. PICK U : U = [A EXCEPT ![k] = << m + 1 >>]
      OBVIOUS
    <3>9. \A j \in 1 .. k : U[j] = Segment(m + 1, ((d + 1) + j) - 1)
      <4> SUFFICES ASSUME NEW j \in 1 .. k PROVE U[j] = Segment(m + 1, ((d + 1) + j) - 1)
        OBVIOUS
      <4>1. CASE j = k
        <5>1. ((d + 1) + j) - 1 = t + 1
          BY <1>5, <2>2, <4>1
        <5>2. U[k] = << m + 1 >>
          BY <1>5, <2>2, <3>7, <3>8
        <5>3. QED
          BY <3>2, <4>1, <5>1, <5>2
      <4>2. CASE j # k
        <5>1. j \in 1 .. k - 1 /\ j + 1 \in 1 .. k /\ ((d + 1) + j) - 1 = (d + (j + 1)) - 1
          BY <1>5, <2>2, <4>2
        <5>2. U[j] = S[j + 1]
          BY <1>5, <3>7, <3>8, <4>2, <5>1
        <5>3. S[j + 1] = Segment(m, (d + (j + 1)) - 1) /\ (d + (j + 1)) - 1 \in Nat /\ (d + (j + 1)) - 1 <= t
          BY <2>3, <5>1
        <5>4. QED
          BY <3>2, <5>1, <5>2, <5>3
      <4>3. QED
        BY <4>1, <4>2
    <3>10. U \in [1 .. k -> Seq(Nat)]
      <4>1. A \in [1 .. k -> Seq(Nat)] /\ << m + 1 >> \in Seq(Nat)
        BY <1>5, <3>7
      <4>2. QED
        BY <3>8, <4>1
    <3>11. U = T
      BY <1>6, <3>1, <3>9, <3>10
    <3>12. WithItem(A, m + 1) = U
      BY <3>7, <3>8 DEF WithItem
    <3>13. QED
      BY <1>4, <3>1, <3>4, <3>11, <3>12
  <2>8. QED
    BY <2>5, <2>6, <2>7
<1>9. QED
  BY <1>7, <1>8

\* The ring after a batch of items: FoldLeft is the only solution of its recursion.
LEMMA AddedRing ==
    ASSUME NEW m \in Nat, NEW n \in Nat
    PROVE  Added(Ring(m), n) = Ring(m + n)
<1> DEFINE D == 1 .. n
           Iter(it) == it = [s \in SUBSET D |-> IF s = {} THEN Ring(m) ELSE Appended(it[s \ {Max(s)}])]
           iter == CHOOSE it : Iter(it)
           After(s) == Ring(m + Cardinality(s))
<1>1. IsFiniteSet(D) /\ Cardinality(D) = n
  BY FS_Interval
<1>2. \A s \in SUBSET D : s # {} => Max(s) \in s
  BY LastIndex
<1>3. \A s \in SUBSET D : /\ s = {} => After(s) = Ring(m)
                          /\ s # {} => After(s) = Appended(After(s \ {Max(s)}))
  <2> SUFFICES ASSUME NEW s \in SUBSET D
               PROVE  /\ s = {} => After(s) = Ring(m)
                      /\ s # {} => After(s) = Appended(After(s \ {Max(s)}))
    OBVIOUS
  <2>1. CASE s = {}
    <3>1. Cardinality(s) = 0 /\ m + 0 = m
      BY <2>1, FS_EmptySet
    <3>2. QED
      BY <2>1, <3>1
  <2>2. CASE s # {}
    <3>1. PICK x \in s : x = Max(s)
      BY <1>2, <2>2
    <3>2. IsFiniteSet(s)
      BY <1>1, FS_Subset
    <3>3. PICK c, k : c = Cardinality(s \ {x}) /\ k = Cardinality(s)
      OBVIOUS
    <3>4. c = k - 1 /\ k \in Nat /\ c \in Nat
      BY <3>2, <3>3, FS_RemoveElement, FS_CardinalityType, FS_Subset
    <3>5. m + c \in Nat /\ (m + c) + 1 = m + k
      BY <3>4
    <3>6. Appended(Ring(m + c)) = Ring((m + c) + 1)
      BY <3>5, AppendedRing
    <3>7. QED
      BY <2>2, <3>1, <3>3, <3>5, <3>6
  <2>3. QED
    BY <2>1, <2>2
<1> HIDE DEF After
<1>4. Iter([s \in SUBSET D |-> After(s)])
  <2> DEFINE g == [s \in SUBSET D |-> After(s)]
  <2>1. ASSUME NEW s \in SUBSET D
        PROVE  g[s] = IF s = {} THEN Ring(m) ELSE Appended(g[s \ {Max(s)}])
    <3>1. s \ {Max(s)} \in SUBSET D
      OBVIOUS
    <3>2. g[s] = After(s) /\ g[s \ {Max(s)}] = After(s \ {Max(s)})
      BY <3>1
    <3> HIDE DEF g
    <3>3. QED
      BY <1>3, <3>2
  <2>2. QED
    BY <2>1
<1>5. Iter(iter)
  BY <1>4
<1>6. Added(Ring(m), n) = iter[D]
  <2>1. DOMAIN [i \in 1 .. n |-> i] = D
    OBVIOUS
  <2>2. QED
    BY <2>1 DEF Added, FoldLeft, MapThenFoldSet
<1> HIDE DEF iter
<1>7. \A s \in SUBSET D : iter[s] = IF s = {} THEN Ring(m) ELSE Appended(iter[s \ {Max(s)}])
  BY <1>5
<1> HIDE DEF D
<1>8. iter[D] = After(D)
  <2> DEFINE differ == {s \in SUBSET D : iter[s] # After(s)}
             R == StrictSubsetOrdering(D)
  <2> SUFFICES ASSUME differ # {} PROVE FALSE
    BY Zenon
  <2>1. IsWellFoundedOn(R, FiniteSubsetsOf(D))
    BY <1>1, FS_StrictSubsetOrderingWellFounded
  <2>2. differ \subseteq FiniteSubsetsOf(D)
    BY <1>1, FS_Subset DEF FiniteSubsetsOf
  <2>3. PICK s \in differ : \A t \in differ : <<t, s>> \notin R
    BY <2>1, <2>2, WFMin
  <2>4. s \in SUBSET D /\ s # {}
    BY <1>3, <1>7, <2>3
  <2>5. PICK t : t = s \ {Max(s)}
    OBVIOUS
  <2>6. t \in SUBSET D /\ <<t, s>> \in R
    BY <1>2, <2>4, <2>5 DEF StrictSubsetOrdering
  <2>7. iter[t] = After(t)
    BY <2>3, <2>6
  <2>8. iter[s] = After(s)
    BY <1>3, <1>7, <2>4, <2>5, <2>7
  <2>9. QED
    BY <2>3, <2>8
<1>9. After(D) = Ring(m + n)
  BY <1>1 DEF After
<1>10. QED
  BY <1>6, <1>8, <1>9

\* What the guard of Add adds up.
AddedInAll(n, ss) == FoldLeft(LAMBDA sum, s : sum + s.added, n, ss)

\* It is no less than what the last stream was given.
LEMMA GuardBounds ==
    ASSUME NEW ss, ss \in Seq({Ring(m) : m \in Nat}), ss # << >>, NEW n \in Nat, NEW b \in Nat,
           AddedInAll(n, ss) <= b
    PROVE  ss[Len(ss)].added + n <= b
<1> DEFINE D == DOMAIN ss
           Iter(it) == it = [s \in SUBSET D |-> IF s = {} THEN n ELSE it[s \ {Max(s)}] + ss[Max(s)].added]
           iter == CHOOSE it : Iter(it)
<1>1. PICK f, k : f = [i \in 1 .. Len(ss) |-> ss[i].added] /\ k = Len(ss)
  OBVIOUS
<1>2. k \in Nat /\ k \in 1 .. k /\ D = 1 .. k /\ IsFiniteSet(1 .. k)
  <2>1. k \in Nat /\ k # 0
    BY <1>1
  <2>2. k \in 1 .. k
    BY <2>1
  <2>3. D = 1 .. k
    BY <1>1
  <2>4. IsFiniteSet(1 .. k)
    BY <2>1, FS_Interval
  <2>5. QED
    BY <2>1, <2>2, <2>3, <2>4
<1>3. \A i \in 1 .. k : f[i] = ss[i].added /\ f[i] \in Nat
  <2> SUFFICES ASSUME NEW i \in 1 .. k PROVE f[i] = ss[i].added /\ f[i] \in Nat
    OBVIOUS
  <2>0. ss[i] \in {Ring(m) : m \in Nat}
    BY <1>1
  <2>1. PICK m \in Nat : ss[i] = Ring(m)
    BY <2>0
  <2>2. ss[i].added = m
    BY <2>1 DEF Ring, StreamOf
  <2>3. f[i] = ss[i].added
    BY <1>1
  <2>4. QED
    BY <2>2, <2>3
<1>4. \A s \in SUBSET D : s # {} => Max(s) \in s
  BY <1>2, LastIndex
<1>5. \A s \in SUBSET D : /\ SumOn(s, f) \in Nat /\ n + SumOn(s, f) \in Nat
                          /\ s = {} => n + SumOn(s, f) = n
                          /\ s # {} => n + SumOn(s, f) = (n + SumOn(s \ {Max(s)}, f)) + ss[Max(s)].added
  <2> SUFFICES ASSUME NEW s \in SUBSET D
               PROVE  /\ SumOn(s, f) \in Nat /\ n + SumOn(s, f) \in Nat
                      /\ s = {} => n + SumOn(s, f) = n
                      /\ s # {} => n + SumOn(s, f) = (n + SumOn(s \ {Max(s)}, f)) + ss[Max(s)].added
    OBVIOUS
  <2>1. IsFiniteSet(s) /\ \A i \in s : f[i] \in Nat
    BY <1>2, <1>3, FS_Subset
  <2>2. SumOn(s, f) \in Nat
    BY <2>1, SumOnType
  <2>3. s = {} => SumOn(s, f) = 0
    BY SumOnEmpty
  <2>4. ASSUME s # {} PROVE n + SumOn(s, f) = (n + SumOn(s \ {Max(s)}, f)) + ss[Max(s)].added
    <3>1. PICK x \in s : x = Max(s)
      BY <1>4, <2>4
    <3>2. SumOn(s, f) = f[x] + SumOn(s \ {x}, f) /\ SumOn(s \ {x}, f) \in Nat
      BY <2>1, SumOnSplit
    <3>3. f[x] \in Nat /\ f[x] = ss[x].added
      BY <1>2, <1>3
    <3>4. PICK u, v : u = f[x] /\ v = SumOn(s \ {x}, f)
      OBVIOUS
    <3>5. n + (u + v) = (n + v) + u
      <4>1. u \in Nat /\ v \in Nat
        BY <3>2, <3>3, <3>4
      <4>2. QED
        BY <4>1
    <3>6. QED
      BY <3>1, <3>2, <3>3, <3>4, <3>5
  <2>5. n + SumOn(s, f) \in Nat /\ n + 0 = n
    BY <2>2
  <2>6. QED
    BY <2>2, <2>3, <2>4, <2>5
<1>6. Iter([s \in SUBSET D |-> n + SumOn(s, f)])
  <2> DEFINE g == [s \in SUBSET D |-> n + SumOn(s, f)]
  <2>1. ASSUME NEW s \in SUBSET D
        PROVE  g[s] = IF s = {} THEN n ELSE g[s \ {Max(s)}] + ss[Max(s)].added
    <3>1. s \ {Max(s)} \in SUBSET D
      OBVIOUS
    <3>2. g[s] = n + SumOn(s, f) /\ g[s \ {Max(s)}] = n + SumOn(s \ {Max(s)}, f)
      BY <3>1
    <3> HIDE DEF g
    <3>3. QED
      BY <1>5, <3>2
  <2>2. QED
    BY <2>1
<1>7. Iter(iter)
  BY <1>6
<1>8. AddedInAll(n, ss) = iter[D]
  BY DEF AddedInAll, FoldLeft, MapThenFoldSet
<1> HIDE DEF iter
<1>9. \A s \in SUBSET D : iter[s] = IF s = {} THEN n ELSE iter[s \ {Max(s)}] + ss[Max(s)].added
  BY <1>7
<1>10. IsFiniteSet(D)
  BY <1>2
<1> HIDE DEF D
<1>11. iter[D] = n + SumOn(D, f)
  <2> DEFINE differ == {s \in SUBSET D : iter[s] # n + SumOn(s, f)}
             R == StrictSubsetOrdering(D)
  <2> SUFFICES ASSUME differ # {} PROVE FALSE
    BY Zenon
  <2>1. IsWellFoundedOn(R, FiniteSubsetsOf(D))
    BY <1>10, FS_StrictSubsetOrderingWellFounded
  <2>2. differ \subseteq FiniteSubsetsOf(D)
    BY <1>10, FS_Subset DEF FiniteSubsetsOf
  <2>3. PICK s \in differ : \A t \in differ : <<t, s>> \notin R
    BY <2>1, <2>2, WFMin
  <2>4. s \in SUBSET D /\ s # {}
    BY <1>5, <1>9, <2>3
  <2>5. PICK t : t = s \ {Max(s)}
    OBVIOUS
  <2>6. t \in SUBSET D /\ <<t, s>> \in R
    BY <1>4, <2>4, <2>5 DEF StrictSubsetOrdering
  <2>7. iter[t] = n + SumOn(t, f)
    BY <2>3, <2>6
  <2>8. iter[s] = n + SumOn(s, f)
    BY <1>5, <1>9, <2>4, <2>5, <2>7
  <2>9. QED
    BY <2>3, <2>8
<1>12. SumOn(D, f) = f[k] + SumOn(D \ {k}, f) /\ SumOn(D \ {k}, f) \in Nat
  <2>1. \A i \in D : f[i] \in Nat
    BY <1>2, <1>3
  <2>2. k \in D
    BY <1>2
  <2>3. QED
    BY <1>10, <2>1, <2>2, SumOnSplit
<1>13. PICK u, v : u = f[k] /\ v = SumOn(D \ {k}, f)
  OBVIOUS
<1>14. u \in Nat /\ v \in Nat /\ n + (u + v) <= b /\ u = ss[k].added
  BY <1>2, <1>3, <1>8, <1>11, <1>12, <1>13
<1>15. u + n <= b
  BY <1>14, SMTT(40)
<1>16. QED
  BY <1>1, <1>14, <1>15

(***************************************************************************)
(* What is retained.                                                       *)
(***************************************************************************)
\* The n items after the p-th.
Run(p, n) == [j \in 1 .. n |-> p + j]

\* Runs that follow each other make one.
LEMMA RunsJoin ==
    ASSUME NEW p \in Nat, NEW a \in Nat, NEW b \in Nat
    PROVE  Run(p, a) \o Run(p + a, b) = Run(p, a + b)
<1>1. PICK s, t, u : s = Run(p, a) /\ t = Run(p + a, b) /\ u = Run(p, a + b)
  OBVIOUS
<1>2. s \in [1 .. a -> Nat] /\ t \in [1 .. b -> Nat] /\ u \in [1 .. a + b -> Nat]
  BY <1>1 DEF Run
<1>3. s \in Seq(Nat) /\ Len(s) = a /\ t \in Seq(Nat) /\ Len(t) = b
  <2>1. s \in Seq(Nat) /\ Len(s) = a
    BY <1>2
  <2>2. t \in Seq(Nat) /\ Len(t) = b
    BY <1>2
  <2>3. QED
    BY <2>1, <2>2
<1>4. (\A j \in 1 .. a : s[j] = p + j) /\ (\A j \in 1 .. b : t[j] = (p + a) + j) /\ (\A j \in 1 .. a + b : u[j] = p + j)
  BY <1>1 DEF Run
<1>5. PICK c : c = s \o t
  OBVIOUS
<1>6. /\ c \in Seq(Nat) /\ Len(c) = a + b
      /\ \A j \in 1 .. a + b : c[j] = IF j <= a THEN s[j] ELSE t[j - a]
  <2>1. Len(s \o t) = a + b /\ \A j \in 1 .. a + b : (s \o t)[j] = IF j <= a THEN s[j] ELSE t[j - a]
    BY <1>3, ConcatProperties
  <2>2. s \o t \in Seq(Nat)
    BY <1>3
  <2>3. QED
    BY <1>5, <2>1, <2>2
<1>7. \A j \in 1 .. a + b : c[j] = u[j]
  <2> SUFFICES ASSUME NEW j \in 1 .. a + b PROVE c[j] = u[j]
    OBVIOUS
  <2>1. CASE j <= a
    <3>1. j \in 1 .. a
      BY <2>1
    <3>2. QED
      BY <1>4, <1>6, <2>1, <3>1
  <2>2. CASE ~ (j <= a)
    <3>1. j - a \in 1 .. b /\ (p + a) + (j - a) = p + j
      BY <2>2
    <3>2. QED
      BY <1>4, <1>6, <2>2, <3>1
  <2>3. QED
    BY <2>1, <2>2
<1>8. c = u
  <2>1. c \in [1 .. a + b -> Nat]
    BY <1>6
  <2>2. QED
    BY <1>2, <1>7, <2>1
<1>9. QED
  BY <1>1, <1>5, <1>8

\* The segments of a ring hold one run of items, up to the last one.
LEMMA Flattened ==
    ASSUME NEW m \in Nat
    PROVE  /\ Pruned(m) * SegmentSize \in Nat /\ Pruned(m) * SegmentSize <= m
           /\ Retained(Ring(m)) = Run(Pruned(m) * SegmentSize, m - Pruned(m) * SegmentSize)
<1>1. PICK S, k, d, t, p : /\ S = Segments(m) /\ k = Kept(m) /\ d = Pruned(m) /\ t = LastSeg(m)
                           /\ p = d * SegmentSize
  OBVIOUS
<1>2. Retained(Ring(m)) = FlattenSeq(S)
  BY <1>1 DEF Retained, Ring, StreamOf
<1>3. S \in Seq(Seq(Nat)) /\ Len(S) = k /\ k \in Nat
  BY <1>1, SegmentsShape
<1>4. CASE m = 0
  <2>1. S = << >> /\ d = 0 /\ k = 0
    BY <1>1, <1>4, NoRing
  <2>2. p = 0 /\ m - p = 0
    BY <1>1, <1>4, <2>1, Sizes
  <2>3. FlattenSeq(S) = << >>
    BY <1>3, <2>1 DEF FlattenSeq
  <2>4. Run(0, 0) = << >>
    BY DEF Run
  <2>5. QED
    BY <1>1, <1>2, <1>4, <2>2, <2>3, <2>4
<1>5. CASE m # 0
  <2> DEFINE Iter(it) == it = [i \in 1 .. Len(S) |-> IF i = 1 THEN S[i] ELSE it[i - 1] \o S[i]]
             iter == CHOOSE it : Iter(it)
             End(i) == ((d + i) - 1) * SegmentSize + Filled(m, (d + i) - 1)
             First(i) == Run(p, End(i) - p)
  <2>0. m \in Nat \ {0}
    BY <1>5
  <2>1. t \in Nat /\ d \in Nat /\ k > 0 /\ d + k = t + 1 /\ p \in Nat
    <3>1. t \in Nat /\ d \in Nat /\ k > 0 /\ d + k = t + 1
      BY <1>1, <2>0, RingNumbers
    <3>2. QED
      BY <1>1, <3>1, Sizes
  <2>2. ASSUME NEW i \in 1 .. k
        PROVE  /\ S[i] = Run(((d + i) - 1) * SegmentSize, Filled(m, (d + i) - 1))
               /\ End(i) \in Nat /\ End(i) >= p /\ End(i) <= m
               /\ Filled(m, (d + i) - 1) \in Nat
               /\ i < k => End(i) = (d + i) * SegmentSize
               /\ i = k => End(i) = m
    <3>1. PICK g : g = (d + i) - 1
      OBVIOUS
    <3>2. g \in Nat /\ g <= t /\ (i < k => g < t) /\ (i = k => g = t) /\ d <= g /\ g + 1 = d + i
      BY <1>3, <2>1, <3>1
    <3>3. S[i] = Segment(m, g)
      BY <1>1, <3>1, SegmentsShape
    <3>4. PICK q, f : q = g * SegmentSize /\ f = Filled(m, g)
      OBVIOUS
    <3>5. f \in Nat /\ q \in Nat /\ (g < t => f = SegmentSize) /\ (g = t => q + f = m) /\ q + f <= m
      BY <1>1, <2>0, <3>2, <3>4, SegmentShape
    <3>6. p <= q
      BY <1>1, <2>1, <3>2, <3>4, Sizes, Monotone
    <3>7. (g + 1) * SegmentSize = q + SegmentSize
      BY <3>2, <3>4, Sizes, NextProduct
    <3>8. S[i] = Run(q, f)
      BY <3>3, <3>4 DEF Segment, Run
    <3>9. q + f \in Nat /\ q + f >= p
      BY <2>1, <3>5, <3>6
    <3>10. i < k => q + f = (d + i) * SegmentSize
      BY <3>2, <3>5, <3>7
    <3>11. QED
      BY <3>1, <3>2, <3>4, <3>5, <3>8, <3>9, <3>10
  <2>3. \A i \in 1 .. k : First(i) = IF i = 1 THEN S[i] ELSE First(i - 1) \o S[i]
    <3> SUFFICES ASSUME NEW i \in 1 .. k
                 PROVE  First(i) = IF i = 1 THEN S[i] ELSE First(i - 1) \o S[i]
      OBVIOUS
    <3>1. CASE i = 1
      <4>1. (d + i) - 1 = d
        BY <2>1, <3>1
      <4>2. PICK f : f = Filled(m, d)
        OBVIOUS
      <4>3. S[i] = Run(p, f) /\ f \in Nat
        BY <1>1, <2>2, <4>1, <4>2
      <4>4. End(i) = p + f /\ (p + f) - p = f
        BY <1>1, <2>1, <4>1, <4>2, <4>3
      <4>5. QED
        BY <3>1, <4>3, <4>4
    <3>2. CASE i # 1
      <4>1. i - 1 \in 1 .. k /\ i - 1 < k /\ d + (i - 1) = (d + i) - 1 /\ i \in Nat
        BY <1>3, <2>1, <3>2
      <4>2. PICK q, f : q = ((d + i) - 1) * SegmentSize /\ f = Filled(m, (d + i) - 1)
        OBVIOUS
      <4>3. S[i] = Run(q, f) /\ f \in Nat /\ End(i) = q + f
        BY <2>2, <4>2
      <4>4. End(i - 1) = q /\ q \in Nat /\ q >= p
        BY <2>2, <4>1, <4>2
      <4>5. PICK a : a = q - p
        OBVIOUS
      <4>6. a \in Nat /\ p + a = q /\ (q + f) - p = a + f
        BY <2>1, <4>3, <4>4, <4>5
      <4>7. Run(p, a) \o Run(p + a, f) = Run(p, a + f)
        BY <2>1, <4>3, <4>6, RunsJoin, ZenonT(60)
      <4>8. First(i) = Run(p, a + f) /\ First(i - 1) = Run(p, a)
        BY <4>3, <4>4, <4>5, <4>6
      <4>9. QED
        BY <3>2, <4>3, <4>6, <4>7, <4>8
    <3>3. QED
      BY <3>1, <3>2
  <2>4. First(k) = Run(p, m - p) /\ p <= m
    <3>1. k \in 1 .. k
      BY <1>3, <2>1
    <3>2. End(k) = m /\ End(k) >= p
      BY <2>2, <3>1
    <3>3. QED
      BY <3>2
  <2> HIDE DEF First
  <2>5. Iter([i \in 1 .. k |-> First(i)])
    <3> DEFINE g == [i \in 1 .. k |-> First(i)]
    <3>1. ASSUME NEW i \in 1 .. k
          PROVE  g[i] = IF i = 1 THEN S[i] ELSE g[i - 1] \o S[i]
      <4>1. g[i] = First(i) /\ (i # 1 => g[i - 1] = First(i - 1))
        <5>1. i # 1 => i - 1 \in 1 .. k
          BY <1>3
        <5>2. QED
          BY <5>1
      <4> HIDE DEF g
      <4>2. QED
        BY <2>3, <4>1
    <3>2. g = [i \in 1 .. k |-> IF i = 1 THEN S[i] ELSE g[i - 1] \o S[i]]
      BY <3>1
    <3>3. QED
      BY <1>3, <3>2
  <2>6. Iter(iter)
    BY <2>5
  <2>7. FlattenSeq(S) = iter[k]
    BY <1>3, <2>1 DEF FlattenSeq
  <2> HIDE DEF iter
  <2>8. \A i \in 1 .. k : iter[i] = IF i = 1 THEN S[i] ELSE iter[i - 1] \o S[i]
    BY <1>3, <2>6
  <2>9. iter[k] = First(k)
    <3> DEFINE R == {q \in Nat \X Nat : q[1] < q[2]}
               differ == {i \in 1 .. k : iter[i] # First(i)}
    <3> SUFFICES ASSUME differ # {} PROVE FALSE
      <4>1. k \in 1 .. k
        BY <1>3, <2>1
      <4>2. QED
        BY <4>1, Zenon
    <3>1. IsWellFoundedOn(R, Nat)
      <4>1. OpToRel(<, Nat) = R
        BY DEF OpToRel
      <4>2. QED
        BY <4>1, NatLessThanWellFounded
    <3>2. differ \subseteq Nat
      OBVIOUS
    <3>3. PICK i \in differ : \A j \in differ : <<j, i>> \notin R
      BY <3>1, <3>2, WFMin
    <3>4. i \in 1 .. k /\ iter[i] # First(i)
      OBVIOUS
    <3>5. i # 1
      BY <2>3, <2>8, <3>4
    <3>6. i - 1 \in 1 .. k /\ <<i - 1, i>> \in R
      BY <1>3, <3>4, <3>5
    <3>7. iter[i - 1] = First(i - 1)
      BY <3>3, <3>6
    <3>8. QED
      BY <2>3, <2>8, <3>4, <3>5, <3>7
  <2>10. QED
    BY <1>1, <1>2, <2>1, <2>4, <2>7, <2>9
<1>6. QED
  BY <1>4, <1>5

\* The fields of a ring.
LEMMA RingFields ==
    ASSUME NEW m \in Nat
    PROVE  /\ Ring(m).segments = Segments(m) /\ Ring(m).segmentOffset = Pruned(m) /\ Ring(m).added = m
           /\ Length(Ring(m)) = Kept(m)
<1>1. Ring(m).segments = Segments(m) /\ Ring(m).segmentOffset = Pruned(m) /\ Ring(m).added = m
  BY DEF Ring, StreamOf
<1>2. QED
  BY <1>1, SegmentsShape DEF Length

\* The id of the last item is their number.
LEMMA LastIdIsCount ==
    ASSUME NEW m \in Nat
    PROVE  lastID(Ring(m)) = m
<1>1. PICK S, k, d, t : S = Segments(m) /\ k = Kept(m) /\ d = Pruned(m) /\ t = LastSeg(m)
  OBVIOUS
<1>2. S \in Seq(Seq(Nat)) /\ Len(S) = k /\ k \in Nat
  BY <1>1, SegmentsShape
<1>3. Ring(m).segments = S /\ Ring(m).segmentOffset = d /\ Length(Ring(m)) = k
  BY <1>1, RingFields
<1>4. CASE m = 0
  BY <1>1, <1>3, <1>4, NoRing DEF lastID
<1>5. CASE m # 0
  <2>1. m \in Nat \ {0}
    BY <1>5
  <2>2. t \in Nat /\ d \in Nat /\ k > 0 /\ d + k = t + 1
    BY <1>1, <2>1, RingNumbers
  <2>3. k \in 1 .. k /\ (d + k) - 1 = t /\ d + (k - 1) = t /\ t <= t /\ k # 0
    BY <1>2, <2>2
  <2>4. S[k] = Segment(m, t)
    <3>1. S[k] = Segment(m, (d + k) - 1)
      BY <1>1, <2>3, SegmentsShape
    <3>2. QED
      BY <2>3, <3>1
  <2>5. Len(Segment(m, t)) = Filled(m, t) /\ t * SegmentSize + Filled(m, t) = m
    BY <1>1, <2>1, <2>2, <2>3, SegmentShape
  <2>6. Last(S) = S[k]
    BY <1>2 DEF Last
  <2>7. lastID(Ring(m)) = (d + k - 1) * SegmentSize + Len(Last(S))
    BY <1>3, <2>3 DEF lastID
  <2>8. QED
    BY <2>3, <2>4, <2>5, <2>6, <2>7
<1>6. QED
  BY <1>4, <1>5

\* The capacity of a ring is used before anything is pruned.
LEMMA RetainsEnough ==
    ASSUME NEW m \in Nat
    PROVE  /\ Len(Retained(Ring(m))) = m - Pruned(m) * SegmentSize
           /\ Len(Retained(Ring(m))) >= IF m < MaxSegments * SegmentSize THEN m ELSE MaxSegments * SegmentSize
           /\ Earliest(Ring(m)) = Pruned(m) * SegmentSize + 1
           /\ Retained(Ring(m)) = [i \in 1 .. Len(Retained(Ring(m))) |-> Earliest(Ring(m)) + i - 1]
<1>1. PICK d, p, M, n : d = Pruned(m) /\ p = d * SegmentSize /\ M = MaxSegments * SegmentSize /\ n = m - p
  OBVIOUS
<1>2. p \in Nat /\ p <= m /\ Retained(Ring(m)) = Run(p, n)
  BY <1>1, Flattened
<1>3. n \in Nat /\ M \in Nat
  BY <1>1, <1>2, Sizes
<1>4. Len(Run(p, n)) = n
  <2>1. Run(p, n) \in [1 .. n -> Nat]
    BY <1>2, <1>3 DEF Run
  <2>2. Run(p, n) \in Seq(Nat)
    BY <1>3, <2>1
  <2>3. DOMAIN Run(p, n) = 1 .. n
    BY DEF Run
  <2>4. QED
    BY <1>3, <2>2, <2>3
<1>5. Earliest(Ring(m)) = p + 1
  <2>1. Earliest(Ring(m)) = m - n + 1
    BY <1>2, <1>4, RingFields DEF Earliest
  <2>2. QED
    BY <1>1, <1>2, <2>1
<1>6. n >= IF m < M THEN m ELSE M
  <2>1. CASE d = 0
    <3>1. p = 0
      BY <1>1, <2>1, Sizes
    <3>2. n = m
      BY <1>1, <3>1
    <3>3. QED
      BY <1>3, <3>2
  <2>2. CASE d # 0
    <3>1. m # 0
      BY <1>1, <2>2, NoRing
    <3>2. m \in Nat \ {0}
      BY <3>1
    <3>3. PICK t, e : t = LastSeg(m) /\ e = t * SegmentSize
      OBVIOUS
    <3>4. t \in Nat /\ e \in Nat /\ e < m /\ d \in Nat /\ d + Kept(m) = t + 1 /\ (d > 0 => Kept(m) = MaxSegments + 1)
      BY <1>1, <3>2, <3>3, RingNumbers
    <3>5. t = d + MaxSegments
      BY <2>2, <3>4, Sizes
    <3>6. e = p + M
      <4>1. (d + MaxSegments) * SegmentSize = d * SegmentSize + MaxSegments * SegmentSize
        BY <3>4, Sizes
      <4>2. QED
        BY <1>1, <3>3, <3>5, <4>1
    <3>7. QED
      BY <1>1, <1>2, <1>3, <3>4, <3>6
  <2>3. QED
    BY <2>1, <2>2
<1>7. Run(p, n) = [i \in 1 .. n |-> (p + 1) + i - 1]
  <2>1. \A i \in 1 .. n : (p + 1) + i - 1 = p + i
    BY <1>2, <1>3
  <2>2. QED
    BY <2>1 DEF Run
<1>8. QED
  BY <1>1, <1>2, <1>4, <1>5, <1>6, <1>7, ZenonT(60)

(***************************************************************************)
(* What a reader is given.                                                 *)
(***************************************************************************)
\* The segment that an offset is read from.
Source(m, o) == IF o \div SegmentSize < Pruned(m) THEN Pruned(m) ELSE o \div SegmentSize

\* There is nothing to read there.
Beyond(m, o) == m = 0 \/ Source(m, o) > LastSeg(m) \/ o % SegmentSize = Filled(m, Source(m, o))

\* Nothing is read before the first offset, and the answer is the last id.
LEMMA NothingReadFields ==
    ASSUME NEW m \in Nat
    PROVE  /\ NothingRead(Ring(m)).items = << >> /\ NothingRead(Ring(m)).offset = m
           /\ NothingRead(Ring(m)).panics = FALSE
           /\ [NothingRead(Ring(m)) EXCEPT !.panics = TRUE].offset = m
           /\ doRead(Ring(m), -1) = NothingRead(Ring(m))
<1>1. lastID(Ring(m)) = m
  BY LastIdIsCount
<1>2. doRead(Ring(m), -1) = NothingRead(Ring(m))
  BY DEF doRead
<1>3. QED
  BY <1>1, <1>2 DEF NothingRead

\* A read by its cases.
LEMMA ReadCases ==
    ASSUME NEW m \in Nat, NEW o \in Nat
    PROVE  /\ Beyond(m, o) => doRead(Ring(m), o) = NothingRead(Ring(m))
           /\ ~ Beyond(m, o) =>
                /\ Source(m, o) \in Nat /\ Source(m, o) <= LastSeg(m)
                /\ o % SegmentSize > Filled(m, Source(m, o)) =>
                     doRead(Ring(m), o) = [NothingRead(Ring(m)) EXCEPT !.panics = TRUE]
                /\ o % SegmentSize < Filled(m, Source(m, o)) =>
                     doRead(Ring(m), o) =
                       [items |-> SubSeq(Segment(m, Source(m, o)), (o % SegmentSize) + 1, Filled(m, Source(m, o))),
                        offset |-> Source(m, o) * SegmentSize + Filled(m, Source(m, o)), panics |-> FALSE]
<1>1. PICK s, S, k, d, t, q, r : /\ s = Ring(m) /\ S = Segments(m) /\ k = Kept(m) /\ d = Pruned(m)
                                 /\ t = LastSeg(m) /\ q = o \div SegmentSize /\ r = o % SegmentSize
  OBVIOUS
<1>2. s.segments = S /\ s.segmentOffset = d /\ Length(s) = k
  BY <1>1, RingFields
<1>3. q \in Nat /\ r \in Nat
  BY <1>1, Quotient, Sizes
<1>4. PICK e : e = IF q - d < 0 THEN 0 ELSE q - d
  OBVIOUS
<1>5. doRead(s, o) =
        IF k = 0 \/ o < 0 \/ e >= k THEN NothingRead(s)
        ELSE IF r > Len(S[e + 1]) THEN [NothingRead(s) EXCEPT !.panics = TRUE]
        ELSE IF r = Len(S[e + 1]) THEN NothingRead(s)
        ELSE [items |-> SubSeq(S[e + 1], r + 1, Len(S[e + 1])),
              offset |-> (d + e) * SegmentSize + Len(S[e + 1]), panics |-> FALSE]
  BY <1>1, <1>2, <1>4 DEF doRead
<1>6. CASE m = 0
  <2>1. k = 0
    BY <1>1, <1>6, NoRing
  <2>2. QED
    BY <1>1, <1>5, <1>6, <2>1 DEF Beyond
<1>7. CASE m # 0
  <2>1. m \in Nat \ {0}
    BY <1>7
  <2>2. t \in Nat /\ d \in Nat /\ k \in Nat /\ k > 0 /\ d + k = t + 1
    BY <1>1, <2>1, RingNumbers
  <2>3. PICK g : g = Source(m, o)
    OBVIOUS
  <2>4. g = d + e /\ e \in Nat /\ g \in Nat /\ (e >= k <=> g > t)
    <3>1. g = IF q < d THEN d ELSE q
      BY <1>1, <2>3 DEF Source
    <3>2. QED
      BY <1>3, <1>4, <2>2, <3>1
  <2>5. CASE g > t
    BY <1>1, <1>5, <2>3, <2>4, <2>5 DEF Beyond
  <2>6. CASE ~ (g > t)
    <3>1. e + 1 \in 1 .. k /\ (d + (e + 1)) - 1 = g /\ g <= t /\ ~ (e >= k) /\ k # 0 /\ ~ (o < 0)
      BY <2>2, <2>4, <2>6
    <3>2. S[e + 1] = Segment(m, g)
      <4>1. S[e + 1] = Segment(m, (d + (e + 1)) - 1)
        BY <1>1, <3>1, SegmentsShape
      <4>2. QED
        BY <3>1, <4>1
    <3>3. PICK f : f = Filled(m, g)
      OBVIOUS
    <3>4. Len(S[e + 1]) = f /\ f \in Nat
      <4>1. Len(Segment(m, g)) = Filled(m, g) /\ Filled(m, g) \in Nat
        BY <1>1, <2>1, <2>4, <3>1, SegmentShape
      <4>2. QED
        BY <3>2, <3>3, <4>1
    <3>5. doRead(s, o) =
            IF r > f THEN [NothingRead(s) EXCEPT !.panics = TRUE]
            ELSE IF r = f THEN NothingRead(s)
            ELSE [items |-> SubSeq(Segment(m, g), r + 1, f), offset |-> g * SegmentSize + f, panics |-> FALSE]
      BY <1>5, <2>4, <3>1, <3>2, <3>4
    <3>6. Beyond(m, o) <=> r = f
      BY <1>1, <1>7, <2>3, <2>6, <3>3 DEF Beyond
    <3>7. (r > f => r # f) /\ (r < f => ~ (r > f) /\ r # f) /\ ~ (f > f)
      BY <1>3, <3>4
    <3>8. QED
      BY <1>1, <2>3, <2>4, <3>1, <3>3, <3>5, <3>6, <3>7
  <2>7. QED
    BY <2>5, <2>6
<1>8. QED
  BY <1>6, <1>7

\* Whatever the offset, the next one is that of an item of the stream.
LEMMA ReadOffset ==
    ASSUME NEW m \in Nat, NEW o \in Int, o >= -1
    PROVE  doRead(Ring(m), o).offset \in Nat /\ doRead(Ring(m), o).offset <= m
<1>1. NothingRead(Ring(m)).offset = m /\ [NothingRead(Ring(m)) EXCEPT !.panics = TRUE].offset = m
  BY NothingReadFields
<1>2. CASE o = -1
  <2>1. doRead(Ring(m), o) = NothingRead(Ring(m))
    BY <1>2, NothingReadFields
  <2>2. QED
    BY <1>1, <2>1
<1>3. CASE o # -1
  <2>1. o \in Nat
    BY <1>3
  <2>2. PICK g, f, r : g = Source(m, o) /\ f = Filled(m, g) /\ r = o % SegmentSize
    OBVIOUS
  <2>3. CASE Beyond(m, o)
    BY <1>1, <2>1, <2>3, ReadCases
  <2>4. CASE ~ Beyond(m, o)
    <3>1. g \in Nat /\ g <= LastSeg(m) /\ m \in Nat \ {0} /\ r \in Nat /\ r # f
      <4>1. g \in Nat /\ g <= LastSeg(m)
        BY <2>1, <2>2, <2>4, ReadCases
      <4>2. r \in Nat
        BY <2>1, <2>2, Quotient, Sizes
      <4>3. m # 0 /\ r # f
        BY <2>2, <2>4 DEF Beyond
      <4>4. QED
        BY <4>1, <4>2, <4>3
    <3>2. f \in Nat /\ g * SegmentSize \in Nat /\ g * SegmentSize + f <= m
      BY <2>2, <3>1, SegmentShape
    <3>3. CASE r > f
      <4>1. doRead(Ring(m), o) = [NothingRead(Ring(m)) EXCEPT !.panics = TRUE]
        BY <2>1, <2>2, <2>4, <3>3, ReadCases
      <4>2. doRead(Ring(m), o).offset = m
        BY <1>1, <4>1
      <4>3. QED
        BY <4>2
    <3>4. CASE r < f
      <4>1. doRead(Ring(m), o).offset = g * SegmentSize + f
        <5>1. PICK u, v : u = SubSeq(Segment(m, g), r + 1, f) /\ v = g * SegmentSize + f
          OBVIOUS
        <5>2. doRead(Ring(m), o) = [items |-> u, offset |-> v, panics |-> FALSE]
          BY <2>1, <2>2, <2>4, <3>4, <5>1, ReadCases
        <5>3. QED
          BY <5>1, <5>2
      <4>2. QED
        BY <3>2, <4>1
    <3>5. QED
      BY <3>1, <3>2, <3>3, <3>4
  <2>5. QED
    BY <2>3, <2>4
<1>4. QED
  BY <1>2, <1>3

\* An offset that is not ahead of the stream is in the segment it is read from, at its
\* end only if it is the last.
LEMMA SourceBounds ==
    ASSUME NEW m \in Nat \ {0}, NEW o \in Nat, o <= m
    PROVE  /\ Source(m, o) \in Nat
           /\ Source(m, o) > LastSeg(m) => o = m
           /\ Source(m, o) <= LastSeg(m) =>
                /\ o % SegmentSize <= Filled(m, Source(m, o))
                /\ o % SegmentSize = Filled(m, Source(m, o)) <=> o = m
           /\ o >= Pruned(m) * SegmentSize => Source(m, o) * SegmentSize + (o % SegmentSize) = o
           /\ ~ (o >= Pruned(m) * SegmentSize) => Source(m, o) = Pruned(m)
<1>1. PICK k, d, t, q, r, g, f : /\ k = Kept(m) /\ d = Pruned(m) /\ t = LastSeg(m) /\ g = Source(m, o)
                                 /\ q = o \div SegmentSize /\ r = o % SegmentSize /\ f = Filled(m, g)
  OBVIOUS
<1>2. PICK e, x, p, z : e = t * SegmentSize /\ x = q * SegmentSize /\ p = d * SegmentSize /\ z = g * SegmentSize
  OBVIOUS
<1>3. q \in Nat /\ r \in Nat /\ r < SegmentSize /\ o = x + r
  BY <1>1, <1>2, Quotient, Sizes
<1>4. t \in Nat /\ d \in Nat /\ k \in Nat /\ k > 0 /\ d + k = t + 1 /\ (d > 0 => k = MaxSegments + 1)
  BY <1>1, RingNumbers
<1>5. e \in Nat /\ e < m /\ m <= e + SegmentSize
  BY <1>1, <1>2, RingNumbers
<1>6. g = IF q < d THEN d ELSE q
  BY <1>1 DEF Source
<1>7. x \in Nat /\ p \in Nat /\ z \in Nat /\ g \in Nat
  <2>1. g \in Nat
    BY <1>3, <1>4, <1>6
  <2>2. QED
    BY <1>2, <1>3, <1>4, <2>1, Sizes
<1>8. (q < d => x + SegmentSize <= p) /\ (~ (q < d) => p <= x)
  <2>1. ASSUME q < d PROVE x + SegmentSize <= p
    <3>1. q + 1 \in Nat /\ q + 1 <= d
      BY <1>3, <1>4, <2>1
    <3>2. (q + 1) * SegmentSize <= p
      BY <1>2, <1>4, <3>1, Sizes, Monotone
    <3>3. (q + 1) * SegmentSize = x + SegmentSize
      BY <1>2, <1>3, Sizes, NextProduct
    <3>4. QED
      BY <3>2, <3>3
  <2>2. ASSUME ~ (q < d) PROVE p <= x
    <3>1. d <= q
      BY <1>3, <1>4, <2>2
    <3>2. QED
      BY <1>2, <1>3, <1>4, <3>1, Sizes, Monotone
  <2>3. QED
    BY <2>1, <2>2
<1>9. o >= p <=> ~ (q < d)
  BY <1>3, <1>7, <1>8, Sizes
<1>10. ~ (q < d) => g = q /\ z = x
  BY <1>2, <1>6
<1>11. ASSUME g > t PROVE o = m
  <2>1. g = q /\ t + 1 <= q /\ t + 1 \in Nat
    BY <1>3, <1>4, <1>6, <1>11
  <2>2. (t + 1) * SegmentSize <= x
    BY <1>2, <1>3, <2>1, Sizes, Monotone
  <2>3. (t + 1) * SegmentSize = e + SegmentSize
    BY <1>2, <1>4, Sizes, NextProduct
  <2>4. QED
    BY <1>3, <1>5, <1>7, <2>2, <2>3, Sizes
<1>12. ASSUME g <= t PROVE r <= f /\ (r = f <=> o = m)
  <2>1. f \in Nat /\ (g < t => f = SegmentSize) /\ (g = t => z + f = m) /\ z + f <= m
    BY <1>1, <1>2, <1>7, <1>12, SegmentShape
  <2>2. CASE q < d
    <3>1. g < t
      BY <1>3, <1>4, <1>6, <2>2, Sizes
    <3>2. f = SegmentSize
      BY <2>1, <3>1
    <3>3. z = p /\ p <= m
      BY <1>2, <1>6, <1>7, <2>1, <2>2
    <3>4. x + SegmentSize <= p
      BY <1>8, <2>2
    <3>5. o < m
      BY <1>3, <1>7, <3>3, <3>4, Sizes
    <3>6. QED
      BY <1>3, <3>2, <3>5, Sizes
  <2>3. CASE ~ (q < d)
    <3>1. z = x
      BY <1>10, <2>3
    <3>2. CASE g < t
      <4>1. f = SegmentSize
        BY <2>1, <3>2
      <4>2. QED
        BY <1>3, <1>7, <2>1, <3>1, <4>1, Sizes
    <3>3. CASE g = t
      BY <1>3, <1>7, <2>1, <3>1, <3>3
    <3>4. QED
      BY <1>4, <1>7, <1>12, <3>2, <3>3
  <2>4. QED
    BY <2>2, <2>3
<1>13. (o >= p => z + r = o) /\ (~ (o >= p) => g = d)
  BY <1>3, <1>6, <1>9, <1>10
<1>14. QED
  BY <1>1, <1>2, <1>7, <1>11, <1>12, <1>13

\* What ReadsNext says of a stream and an offset.
Serves(s, o) ==
    LET res == doRead(s, o)
        n   == Len(res.items)
    IN  /\ ~ res.panics
        /\ n = 0 <=> o = s.added
        /\ \A i \in 1 .. n : res.items[i] = res.offset - n + i
        /\ n > 0 => IF o + 1 >= Earliest(s) THEN res.items[1] = o + 1
                    ELSE res.items[1] - Earliest(s) \in 0 .. SegmentSize - 1

\* A reader that is not ahead of a stream is served by it.
LEMMA RingServes ==
    ASSUME NEW m \in Nat, NEW o \in Nat, o <= m
    PROVE  Serves(Ring(m), o)
<1>1. PICK s, res, n : s = Ring(m) /\ res = doRead(s, o) /\ n = Len(res.items)
  OBVIOUS
<1>2. s.added = m
  BY <1>1, RingFields
<1>3. CASE Beyond(m, o)
  <2>1. o = m
    <3>1. CASE m = 0
      BY <3>1
    <3>2. CASE m # 0
      <4>1. m \in Nat \ {0}
        BY <3>2
      <4>2. Source(m, o) \in Nat /\ LastSeg(m) \in Nat
        BY <4>1, SourceBounds, RingNumbers
      <4>3. CASE Source(m, o) > LastSeg(m)
        BY <4>1, <4>3, SourceBounds
      <4>4. CASE ~ (Source(m, o) > LastSeg(m))
        <5>1. Source(m, o) <= LastSeg(m) /\ o % SegmentSize = Filled(m, Source(m, o))
          BY <1>3, <3>2, <4>2, <4>4 DEF Beyond
        <5>2. QED
          BY <4>1, <5>1, SourceBounds
      <4>5. QED
        BY <4>3, <4>4
    <3>3. QED
      BY <3>1, <3>2
  <2>2. res = NothingRead(s)
    BY <1>1, <1>3, ReadCases
  <2>3. res.items = << >> /\ res.panics = FALSE
    BY <1>1, <2>2, NothingReadFields
  <2>4. n = 0 /\ ~ (n > 0) /\ 1 .. n = {}
    BY <1>1, <2>3
  <2>5. QED
    BY <1>1, <1>2, <2>1, <2>3, <2>4 DEF Serves
<1>4. CASE ~ Beyond(m, o)
  <2>1. PICK g, f, r, z, p : /\ g = Source(m, o) /\ f = Filled(m, g) /\ r = o % SegmentSize
                             /\ z = g * SegmentSize /\ p = Pruned(m) * SegmentSize
    OBVIOUS
  <2>2. g \in Nat /\ g <= LastSeg(m) /\ m \in Nat \ {0} /\ r # f
    <3>1. g \in Nat /\ g <= LastSeg(m)
      BY <1>4, <2>1, ReadCases
    <3>2. m # 0 /\ r # f
      BY <1>4, <2>1 DEF Beyond
    <3>3. QED
      BY <3>1, <3>2
  <2>3. r \in Nat /\ r < SegmentSize
    BY <2>1, Quotient, Sizes
  <2>4. /\ f \in Nat /\ z \in Nat /\ z + f <= m
        /\ Segment(m, g) \in Seq(Nat) /\ Len(Segment(m, g)) = f
        /\ \A j \in 1 .. f : Segment(m, g)[j] = z + j
    BY <2>1, <2>2, SegmentShape
  <2>5. r <= f /\ (r = f <=> o = m) /\ (o >= p => z + r = o) /\ (~ (o >= p) => g = Pruned(m))
    BY <2>1, <2>2, SourceBounds
  <2>6. r < f /\ o # m
    BY <2>2, <2>3, <2>4, <2>5
  <2>7. PICK u, v, seg : u = SubSeq(seg, r + 1, f) /\ v = z + f /\ seg = Segment(m, g)
    OBVIOUS
  <2>8. res = [items |-> u, offset |-> v, panics |-> FALSE]
    BY <1>1, <1>4, <2>1, <2>6, <2>7, ReadCases
  <2>9. res.items = u /\ res.offset = v /\ ~ res.panics
    BY <2>8
  <2>10. Len(u) = f - r /\ \A i \in 1 .. f - r : u[i] = z + (r + i)
    <3>1. seg \in Seq(Nat) /\ Len(seg) = f /\ r + 1 \in 1 .. f
      BY <2>3, <2>4, <2>6, <2>7
    <3>2. Len(u) = f - r /\ \A i \in 1 .. f - r : u[i] = seg[r + i]
      BY <2>3, <2>4, <2>6, <2>7, <3>1
    <3>3. \A i \in 1 .. f - r : r + i \in 1 .. f
      BY <2>3, <2>4
    <3>4. QED
      BY <2>4, <2>7, <3>2, <3>3
  <2>11. n = f - r /\ n \in Nat /\ n > 0
    BY <1>1, <2>3, <2>4, <2>6, <2>9, <2>10
  <2>12. \A i \in 1 .. n : u[i] = v - n + i
    <3> SUFFICES ASSUME NEW i \in 1 .. n PROVE u[i] = v - n + i
      OBVIOUS
    <3>1. u[i] = z + (r + i) /\ i \in Nat
      BY <2>10, <2>11
    <3>2. QED
      BY <2>3, <2>4, <2>7, <2>11, <3>1
  <2>13. u[1] = (z + r) + 1
    <3>1. 1 \in 1 .. f - r
      BY <2>11
    <3>2. u[1] = z + (r + 1)
      BY <2>10, <3>1
    <3>3. QED
      BY <2>3, <2>4, <3>2
  <2>14. Earliest(s) = p + 1 /\ p \in Nat
    BY <1>1, <2>1, RetainsEnough, Flattened
  <2>15. IF o + 1 >= p + 1 THEN u[1] = o + 1 ELSE u[1] - (p + 1) \in 0 .. SegmentSize - 1
    <3>1. CASE o >= p
      <4>1. z + r = o /\ o + 1 >= p + 1
        BY <2>5, <2>14, <3>1
      <4>2. QED
        BY <2>13, <4>1
    <3>2. CASE ~ (o >= p)
      <4>1. z = p
        BY <2>1, <2>5, <3>2
      <4>2. ~ (o + 1 >= p + 1)
        BY <2>14, <3>2
      <4>3. u[1] - (p + 1) = r
        BY <2>3, <2>13, <2>14, <4>1
      <4>4. r \in 0 .. SegmentSize - 1
        BY <2>3, Sizes
      <4>5. QED
        BY <4>2, <4>3, <4>4
    <3>3. QED
      BY <3>1, <3>2
  <2>16. n = 0 <=> o = m
    BY <2>6, <2>11
  <2>17. QED
    BY <1>1, <1>2, <2>9, <2>12, <2>14, <2>15, <2>16 DEF Serves
<1>5. QED
  BY <1>3, <1>4

(***************************************************************************)
(* The steps of a reader that leave the streams as they are.               *)
(***************************************************************************)
Holding == {"read", "unlocked", "waiting", "callback", "installed", "polling"}

\* Reader r, outside initSubscriptions, goes to l with stream a and offset o.
Moves(r, l, a, o) ==
    /\ pc' = [pc EXCEPT ![r] = l] /\ at' = [at EXCEPT ![r] = a] /\ offset' = [offset EXCEPT ![r] = o]
    /\ UNCHANGED <<header, streams, blocks, events, failed>>
    /\ woken' \subseteq Readers /\ cancelled' \subseteq Subscribers
    /\ ~ InInit(r) /\ l \in Labels \ {"makeLogs", "subscribeBlocks", "subscribeLogs"}
    /\ l \in Holding => a # 0

\* The stream is there, and the offset one that it may have given.
HeldWell(a, o) ==
    /\ a \in Nat /\ a <= Len(streams)
    /\ o \in Int /\ o >= -1 /\ o <= MaxItems
    /\ a = 0 => o = -1

\* It does not begin initSubscriptions with somebody in it, and nothing goes wrong.
InTurnFor(l, a, o) ==
    /\ l # "panicked"
    /\ l = "makeHeaders" => ~ header /\ \A q \in Readers : ~ InInit(q)
    /\ l = "return" \/ a # 0 => Settled
    /\ a # 0 => o <= streams[a].added

\* What raced may become.
RacedMore == raced' \in BOOLEAN /\ (raced => raced')

\* Such a move keeps the invariant.
LEMMA MovesInv ==
    ASSUME Inv, NEW r \in Readers, NEW l, NEW a, NEW o,
           Moves(r, l, a, o), HeldWell(a, o), RacedMore, ~ raced' => InTurnFor(l, a, o)
    PROVE  Inv'
<1>1. Flags /\ Places /\ Rings /\ Offsets /\ Given /\ (~ raced => InTurn)
  BY DEF Inv
<1>2. /\ pc' = [pc EXCEPT ![r] = l] /\ at' = [at EXCEPT ![r] = a] /\ offset' = [offset EXCEPT ![r] = o]
      /\ header' = header /\ streams' = streams /\ blocks' = blocks /\ events' = events /\ failed' = failed
      /\ woken' \subseteq Readers /\ cancelled' \subseteq Subscribers
      /\ ~ InInit(r) /\ l \in Labels /\ l \notin {"makeLogs", "subscribeBlocks", "subscribeLogs"}
      /\ l \in Holding => a # 0
  BY DEF Moves
<1>3. pc \in [Readers -> Labels] /\ at \in [Readers -> Nat] /\ offset \in [Readers -> Int]
  BY <1>1 DEF Places, Offsets
<1>4. /\ pc' \in [Readers -> Labels] /\ at' \in [Readers -> Nat] /\ offset' \in [Readers -> Int]
      /\ pc'[r] = l /\ at'[r] = a /\ offset'[r] = o
      /\ \A q \in Readers : q # r => pc'[q] = pc[q] /\ at'[q] = at[q] /\ offset'[q] = offset[q]
  <2>1. a \in Nat /\ o \in Int
    BY DEF HeldWell
  <2>2. pc' \in [Readers -> Labels] /\ pc'[r] = l /\ \A q \in Readers : q # r => pc'[q] = pc[q]
    BY <1>2, <1>3
  <2>3. at' \in [Readers -> Nat] /\ at'[r] = a /\ \A q \in Readers : q # r => at'[q] = at[q]
    BY <1>2, <1>3, <2>1
  <2>4. offset' \in [Readers -> Int] /\ offset'[r] = o /\ \A q \in Readers : q # r => offset'[q] = offset[q]
    BY <1>2, <1>3, <2>1
  <2>5. QED
    BY <2>2, <2>3, <2>4
<1>5. Flags'
  BY <1>1, <1>2 DEF Flags, RacedMore
<1>6. Places'
  <2>1. \A q \in Readers : at'[q] <= Len(streams)
    BY <1>1, <1>4 DEF Places, HeldWell
  <2>2. QED
    BY <1>1, <1>2, <1>4, <2>1 DEF Places
<1>7. Rings'
  BY <1>1, <1>2 DEF Rings
<1>8. Offsets'
  BY <1>1, <1>4 DEF Offsets, HeldWell
<1>9. Given'
  <2>1. events' # "none" => streams' # << >>
    BY <1>1, <1>2 DEF Given
  <2>2. ASSUME NEW q \in Readers
        PROVE  /\ pc'[q] \in {"subscribeBlocks", "subscribeLogs"} => streams' # << >>
               /\ pc'[q] \in Holding => at'[q] # 0
    <3>1. CASE q = r
      BY <1>2, <1>4, <3>1
    <3>2. CASE q # r
      BY <1>1, <1>2, <1>4, <3>2 DEF Given, Holding
    <3>3. QED
      BY <3>1, <3>2
  <2>3. QED
    BY <2>1, <2>2 DEF Given, Holding
<1>10. ASSUME ~ raced' PROVE InTurn'
  <2>1. InTurn /\ InTurnFor(l, a, o)
    BY <1>1, <1>10 DEF RacedMore, Flags
  <2>2. \A q \in Readers : InInit(q)' <=> IF q = r THEN l = "makeHeaders" ELSE InInit(q)
    BY <1>2, <1>4 DEF InInit
  <2>3. l = "makeHeaders" => ~ header /\ \A q \in Readers : ~ InInit(q)
    BY <2>1 DEF InTurnFor
  <2>4. \A q, p \in Readers : InInit(q)' /\ InInit(p)' => q = p
    BY <2>1, <2>2, <2>3 DEF InTurn
  <2>5. Len(streams') <= 1 /\ (~ header' => streams' = << >>)
    BY <1>2, <2>1 DEF InTurn
  <2>6. Settled' => Settled
    BY <1>2, <2>2 DEF Settled
  <2>7. Settled => Settled'
    BY <1>2, <2>2, <2>3 DEF Settled
  <2>8. /\ Settled' => streams' # << >> /\ (events' = "none" <=> failed' # {})
        /\ failed' # {} => Settled'
        /\ \A q, p \in failed' : q = p
    BY <1>2, <2>1, <2>6, <2>7 DEF InTurn
  <2>9. ASSUME NEW q \in Readers
        PROVE  /\ pc'[q] = "panicked" => q \in failed'
               /\ pc'[q] = "makeHeaders" => ~ header'
               /\ pc'[q] = "makeLogs" => header' /\ streams' = << >>
               /\ pc'[q] \in {"subscribeBlocks", "subscribeLogs"} => header' /\ events' = "none"
               /\ pc'[q] = "return" \/ at'[q] # 0 => Settled'
               /\ at'[q] # 0 => offset'[q] <= streams'[at'[q]].added
    <3>1. CASE q = r
      BY <1>2, <1>4, <2>1, <2>7, <3>1 DEF InTurnFor
    <3>2. CASE q # r
      BY <1>2, <1>4, <2>1, <2>7, <3>2 DEF InTurn
    <3>3. QED
      BY <3>1, <3>2
  <2>10. QED
    BY <2>4, <2>5, <2>8, <2>9 DEF InTurn
<1>11. QED
  BY <1>5, <1>6, <1>7, <1>8, <1>9, <1>10 DEF Inv

\* A move that changes nothing but where a reader is.
LEMMA GotoInv ==
    ASSUME Inv, NEW r \in Readers, NEW l, pc' = [pc EXCEPT ![r] = l], UNCHANGED <<header, streams, blocks, events, at, offset, failed>>,
           woken' \subseteq Readers, cancelled' \subseteq Subscribers, ~ InInit(r), RacedMore,
           l \in Labels \ {"makeLogs", "subscribeBlocks", "subscribeLogs"}, l \in Holding => at[r] # 0,
           ~ raced' => /\ l # "panicked"
                       /\ l = "makeHeaders" => ~ header /\ \A q \in Readers : ~ InInit(q)
                       /\ l = "return" => Settled
    PROVE  Inv'
<1>1. PICK a, o : a = at[r] /\ o = offset[r]
  OBVIOUS
<1>2. Flags /\ Places /\ Rings /\ Offsets /\ Given /\ (~ raced => InTurn)
  BY DEF Inv
<1>3. at' = [at EXCEPT ![r] = a] /\ offset' = [offset EXCEPT ![r] = o]
  <2>1. at \in [Readers -> Nat] /\ offset \in [Readers -> Int]
    BY <1>2 DEF Places, Offsets
  <2>2. at = [at EXCEPT ![r] = a] /\ offset = [offset EXCEPT ![r] = o]
    BY <1>1, <2>1
  <2>3. QED
    BY <2>2
<1>4. Moves(r, l, a, o)
  BY <1>1, <1>3 DEF Moves
<1>5. HeldWell(a, o)
  <2>1. a \in Nat /\ a <= Len(streams)
    BY <1>1, <1>2 DEF Places
  <2>2. o \in Int /\ o >= -1 /\ o <= MaxItems /\ (a = 0 => o = -1)
    BY <1>1, <1>2 DEF Offsets
  <2>3. QED
    BY <2>1, <2>2 DEF HeldWell
<1>6. ~ raced' => InTurnFor(l, a, o)
  <2> SUFFICES ASSUME ~ raced' PROVE InTurnFor(l, a, o)
    OBVIOUS
  <2>1. InTurn
    BY <1>2 DEF RacedMore, Flags
  <2>2. a # 0 => Settled /\ o <= streams[a].added
    BY <1>1, <2>1 DEF InTurn
  <2>3. QED
    BY <2>2 DEF InTurnFor
<1>7. QED
  BY <1>4, <1>5, <1>6, MovesInv

\* The streams a reader may be at.
LEMMA StreamIsRing ==
    ASSUME Inv, NEW i \in 1 .. Len(streams)
    PROVE  \E m \in Nat : streams[i] = Ring(m) /\ streams[i].added = m /\ m <= MaxItems
<1>1. Rings
  BY DEF Inv
<1>2. streams[i] \in {Ring(m) : m \in Nat}
  BY <1>1 DEF Rings
<1>3. PICK m \in Nat : streams[i] = Ring(m)
  BY <1>2
<1>4. streams[i].added = m
  BY <1>3, RingFields
<1>5. m <= MaxItems
  BY <1>1, <1>4 DEF Rings
<1>6. QED
  BY <1>3, <1>4, <1>5

\* There are streams, one of them the last, when somebody is at one.
LEMMA LastStream ==
    ASSUME Inv, streams # << >>
    PROVE  /\ Len(streams) \in Nat /\ Len(streams) # 0 /\ Len(streams) \in 1 .. Len(streams)
           /\ Last(streams) = streams[Len(streams)]
<1>1. streams \in Seq({Ring(m) : m \in Nat})
  BY DEF Inv, Rings
<1>2. PICK n : n = Len(streams)
  OBVIOUS
<1>3. n \in Nat /\ n # 0
  BY <1>1, <1>2
<1>4. n \in 1 .. n
  BY <1>3
<1>5. QED
  BY <1>2, <1>3, <1>4 DEF Last

\* The check at the start of initSubscriptions keeps the invariant.
LEMMA InitSubscriptionsInv ==
    ASSUME Inv, NEW r \in Readers, initSubscriptions(r)
    PROVE  Inv'
<1>1. PICK l : l = IF header THEN "return" ELSE "makeHeaders"
  OBVIOUS
<1>2. /\ pc[r] = "idle" /\ pc' = [pc EXCEPT ![r] = l]
      /\ raced' = (raced \/ \E o \in Readers \ {r} : InInit(o))
      /\ UNCHANGED <<header, streams, blocks, events, at, offset, woken, cancelled, failed>>
  BY <1>1 DEF initSubscriptions, Goto
<1>3. ~ InInit(r)
  BY <1>2 DEF InInit
<1>4. RacedMore
  BY <1>2 DEF Inv, Flags, RacedMore
<1>5. l \in Labels \ {"makeLogs", "subscribeBlocks", "subscribeLogs"} /\ l \notin Holding /\ l # "panicked"
  BY <1>1 DEF Labels, Holding
<1>6. ~ raced' => /\ l = "makeHeaders" => ~ header /\ \A q \in Readers : ~ InInit(q)
                  /\ l = "return" => Settled
  <2> SUFFICES ASSUME ~ raced'
               PROVE  /\ l = "makeHeaders" => ~ header /\ \A q \in Readers : ~ InInit(q)
                      /\ l = "return" => Settled
    OBVIOUS
  <2>1. ~ raced /\ \A q \in Readers : ~ InInit(q)
    BY <1>2, <1>3
  <2>2. InTurn
    BY <2>1 DEF Inv
  <2>3. QED
    BY <1>1, <2>1, <2>2 DEF InTurn, Settled
<1>7. woken' \subseteq Readers /\ cancelled' \subseteq Subscribers
  BY <1>2 DEF Inv, Places
<1>8. QED
  BY <1>2, <1>3, <1>4, <1>5, <1>6, <1>7, GotoInv

\* The steps of a reader between two reads keep the invariant.
LEMMA WaitInv ==
    ASSUME Inv, NEW r \in Readers, NEW ok,
           \/ Wait(r) \/ Wake(r) \/ WaitCancelled(r) \/ Callback(r, ok)
           \/ GetFilterChanges(r) \/ UninstallFilter(r)
    PROVE  Inv'
<1>1. PICK l : pc' = [pc EXCEPT ![r] = l] /\ l \in {"waiting", "read", "ended", "polling"}
  BY DEF Wait, Wake, WaitCancelled, Callback, GetFilterChanges, UninstallFilter, Goto
<1>2. pc[r] \in Holding /\ UNCHANGED <<header, streams, blocks, events, at, offset, cancelled, failed, raced>> /\ woken' \subseteq woken
  BY DEF Wait, Wake, WaitCancelled, Callback, GetFilterChanges, UninstallFilter, Holding
<1>3. at[r] # 0
  BY <1>2 DEF Inv, Given, Holding
<1>4. ~ InInit(r) /\ l \in Labels \ {"makeLogs", "subscribeBlocks", "subscribeLogs"} /\ l # "panicked" /\ l # "makeHeaders" /\ l # "return"
  BY <1>1, <1>2 DEF InInit, Holding, Labels
<1>5. RacedMore /\ woken' \subseteq Readers /\ cancelled' \subseteq Subscribers
  BY <1>2 DEF Inv, Flags, Places, RacedMore
<1>6. QED
  BY <1>1, <1>2, <1>3, <1>4, <1>5, GotoInv

\* Cancel keeps the invariant.
LEMMA CancelInv ==
    ASSUME Inv, NEW r \in Readers, Cancel(r)
    PROVE  Inv'
<1>1. /\ cancelled' \subseteq Subscribers
      /\ UNCHANGED <<header, streams, blocks, events, pc, at, offset, woken, failed, raced>>
  BY DEF Cancel, Inv, Places
<1>2. Flags' /\ Places' /\ Rings'
  BY <1>1 DEF Inv, Flags, Places, Rings
<1>3. Offsets' /\ Given'
  BY <1>1 DEF Inv, Offsets, Given
<1>4. ~ raced' => InTurn'
  BY <1>1 DEF Inv, InTurn, InInit, Settled
<1>5. QED
  BY <1>2, <1>3, <1>4 DEF Inv

\* The end of the events keeps the invariant.
LEMMA CloseInv ==
    ASSUME Inv, Close
    PROVE  Inv'
<1>1. /\ events' = IF events = "on" THEN "closed" ELSE events
      /\ blocks' = FALSE
      /\ UNCHANGED <<header, streams, pc, at, offset, woken, cancelled, failed, raced>>
  BY DEF Close, UnsubscribeAll
<1>2. Flags' /\ Places' /\ Rings'
  BY <1>1 DEF Inv, Flags, Places, Rings
<1>3. Offsets' /\ Given'
  BY <1>1 DEF Inv, Offsets, Given
<1>4. ~ raced' => InTurn'
  BY <1>1 DEF Inv, InTurn, InInit, Settled
<1>5. QED
  BY <1>2, <1>3, <1>4 DEF Inv

\* The return of LogStream() keeps the invariant.
LEMMA LogStreamInv ==
    ASSUME Inv, NEW r \in Readers, LogStream(r)
    PROVE  Inv'
<1>1. /\ pc[r] = "return" /\ at' = [at EXCEPT ![r] = Len(streams)]
      /\ UNCHANGED <<header, streams, blocks, events, woken, cancelled, failed, raced>>
  BY DEF LogStream
<1>2. at[r] \in Nat /\ at[r] <= Len(streams) /\ woken \subseteq Readers /\ cancelled \subseteq Subscribers
  BY DEF Inv, Places
<1>3. offset[r] \in Int /\ offset[r] >= -1 /\ offset[r] <= MaxItems /\ (at[r] = 0 => offset[r] = -1)
  BY DEF Inv, Offsets
<1>4. offset \in [Readers -> Int] /\ offset = [offset EXCEPT ![r] = offset[r]]
  <2>1. offset \in [Readers -> Int]
    BY DEF Inv, Offsets
  <2>2. QED
    BY <2>1
<1>5. ~ InInit(r)
  BY <1>1 DEF InInit
<1>6. RacedMore
  BY <1>1 DEF Inv, Flags, RacedMore
<1>7. CASE streams = << >>
  <2>1. Len(streams) = 0
    BY <1>7
  <2>2. pc' = [pc EXCEPT ![r] = "panicked"] /\ offset' = offset
    BY <1>7 DEF LogStream, Goto
  <2>3. at[r] = 0 /\ offset[r] = -1
    BY <1>2, <1>3, <2>1
  <2>4. Moves(r, "panicked", 0, -1)
    <3>1. "panicked" \in Labels \ {"makeLogs", "subscribeBlocks", "subscribeLogs"} /\ "panicked" \notin Holding
      BY DEF Labels, Holding
    <3>2. offset' = [offset EXCEPT ![r] = -1] /\ at' = [at EXCEPT ![r] = 0]
      BY <1>1, <1>4, <2>1, <2>2, <2>3
    <3>3. QED
      BY <1>1, <1>2, <1>5, <2>2, <3>1, <3>2 DEF Moves
  <2>5. HeldWell(0, -1)
    BY <2>1, Sizes DEF HeldWell
  <2>6. raced'
    BY <1>1, <1>7 DEF Inv, InTurn, Settled
  <2>7. QED
    BY <1>6, <2>4, <2>5, <2>6, MovesInv
<1>8. CASE streams # << >>
  <2>1. PICK a : a = Len(streams)
    OBVIOUS
  <2>2. a \in Nat /\ a # 0 /\ a \in 1 .. a /\ Last(streams) = streams[a]
    BY <1>8, <2>1, LastStream
  <2>3. PICK m \in Nat : streams[a] = Ring(m) /\ streams[a].added = m /\ m <= MaxItems
    BY <2>1, <2>2, StreamIsRing
  <2>4. PICK l, o : /\ pc' = [pc EXCEPT ![r] = l] /\ offset' = [offset EXCEPT ![r] = o]
                    /\ l \in {"installed", "read"}
                    /\ o = offset[r] \/ o = doRead(Last(streams), -1).offset
    BY <1>4, <1>8 DEF LogStream, Goto
  <2>5. doRead(Last(streams), -1).offset = m
    <3>1. doRead(Ring(m), -1) = NothingRead(Ring(m)) /\ NothingRead(Ring(m)).offset = m
      BY NothingReadFields
    <3>2. QED
      BY <2>2, <2>3, <3>1
  <2>6. o \in Int /\ o >= -1 /\ o <= MaxItems
    BY <1>3, <2>3, <2>4, <2>5
  <2>7. Moves(r, l, a, o)
    <3>1. l \in Labels \ {"makeLogs", "subscribeBlocks", "subscribeLogs"}
      BY <2>4 DEF Labels
    <3>2. QED
      BY <1>1, <1>2, <1>5, <2>1, <2>2, <2>4, <3>1 DEF Moves
  <2>8. HeldWell(a, o)
    BY <2>1, <2>2, <2>6 DEF HeldWell
  <2>9. ~ raced' => InTurnFor(l, a, o)
    <3> SUFFICES ASSUME ~ raced' PROVE InTurnFor(l, a, o)
      OBVIOUS
    <3>1. InTurn
      BY <1>1 DEF Inv
    <3>2. l # "panicked" /\ l # "makeHeaders" /\ l # "return"
      BY <2>4
    <3>3. offset[r] <= streams[a].added
      <4>1. CASE at[r] = 0
        BY <1>3, <2>3, <4>1
      <4>2. CASE at[r] # 0
        <5>1. a <= 1 /\ offset[r] <= streams[at[r]].added
          BY <2>1, <3>1, <4>2 DEF InTurn
        <5>2. at[r] = a
          BY <1>2, <2>1, <2>2, <4>2, <5>1
        <5>3. QED
          BY <5>1, <5>2
      <4>3. QED
        BY <4>1, <4>2
    <3>4. o <= streams[a].added
      BY <2>3, <2>4, <2>5, <3>3
    <3>5. Settled
      BY <1>1, <3>1 DEF InTurn
    <3>6. QED
      BY <3>2, <3>4, <3>5 DEF InTurnFor
  <2>10. QED
    BY <1>6, <2>7, <2>8, <2>9, MovesInv
<1>9. QED
  BY <1>7, <1>8

\* A read of the stream a, which is the one of the reader if nobody raced.
LEMMA ReadInv ==
    ASSUME Inv, NEW r \in Readers, NEW a \in 1 .. Len(streams), NEW l, NEW res,
           res = doRead(streams[a], offset[r]),
           pc' = [pc EXCEPT ![r] = l], at' = [at EXCEPT ![r] = a], offset' = [offset EXCEPT ![r] = res.offset],
           UNCHANGED <<header, streams, blocks, events, woken, cancelled, failed, raced>>, ~ InInit(r),
           l \in {"panicked", "unlocked", "callback", "installed", "polling"}, l = "panicked" => res.panics,
           ~ raced => a = at[r]
    PROVE  Inv'
<1>1. PICK m \in Nat : streams[a] = Ring(m) /\ streams[a].added = m /\ m <= MaxItems
  BY StreamIsRing
<1>2. PICK o, p : o = offset[r] /\ p = res.offset
  OBVIOUS
<1>3. o \in Int /\ o >= -1
  BY <1>2 DEF Inv, Offsets
<1>4. p \in Nat /\ p <= m
  BY <1>1, <1>2, <1>3, ReadOffset
<1>5. a \in Nat /\ a # 0 /\ a <= Len(streams)
  <2>1. Len(streams) \in Nat
    BY DEF Inv, Rings
  <2>2. QED
    BY <2>1
<1>6. HeldWell(a, p)
  BY <1>1, <1>4, <1>5, Sizes DEF HeldWell
<1>7. Moves(r, l, a, p)
  <2>1. l \in Labels \ {"makeLogs", "subscribeBlocks", "subscribeLogs"}
    BY DEF Labels
  <2>2. woken' \subseteq Readers /\ cancelled' \subseteq Subscribers
    BY DEF Inv, Places
  <2>3. QED
    BY <1>2, <1>5, <2>1, <2>2 DEF Moves
<1>8. RacedMore
  BY DEF Inv, Flags, RacedMore
<1>9. ~ raced' => InTurnFor(l, a, p)
  <2> SUFFICES ASSUME ~ raced PROVE InTurnFor(l, a, p)
    OBVIOUS
  <2>1. o <= m
    <3>1. at[r] # 0 => offset[r] <= streams[at[r]].added
      BY DEF Inv, InTurn
    <3>2. QED
      BY <1>1, <1>2, <1>5, <3>1
  <2>2. ~ res.panics
    <3>1. CASE o = -1
      <4>1. res = NothingRead(Ring(m))
        BY <1>1, <1>2, <3>1, NothingReadFields
      <4>2. QED
        BY <4>1, NothingReadFields
    <3>2. CASE o # -1
      <4>1. o \in Nat
        BY <1>3, <3>2
      <4>2. Serves(Ring(m), o)
        BY <2>1, <4>1, RingServes
      <4>3. QED
        BY <1>1, <1>2, <4>2 DEF Serves
    <3>3. QED
      BY <3>1, <3>2
  <2>3. l # "panicked" /\ l # "makeHeaders" /\ l # "return"
    BY <2>2
  <2>4. p <= streams[a].added
    BY <1>1, <1>4
  <2>5. Settled
    BY <1>5 DEF Inv, InTurn
  <2>6. QED
    BY <2>3, <2>4, <2>5 DEF InTurnFor
<1>10. QED
  BY <1>6, <1>7, <1>8, <1>9, MovesInv

\* The read of a subscriber keeps the invariant.
LEMMA ReadBlockingInv ==
    ASSUME Inv, NEW r \in Readers, ReadBlocking(r)
    PROVE  Inv'
<1>1. PICK a, res, l : /\ a = at[r] /\ res = doRead(streams[a], offset[r])
                       /\ l = IF res.panics THEN "panicked" ELSE IF res.items = << >> THEN "unlocked" ELSE "callback"
  OBVIOUS
<1>2. /\ pc[r] = "read" /\ offset' = [offset EXCEPT ![r] = res.offset] /\ pc' = [pc EXCEPT ![r] = l]
      /\ UNCHANGED <<header, streams, blocks, events, at, woken, cancelled, failed, raced>>
  BY <1>1 DEF ReadBlocking, Goto
<1>3. a \in 1 .. Len(streams)
  <2>1. at[r] \in Nat /\ at[r] <= Len(streams) /\ Len(streams) \in Nat
    BY DEF Inv, Places, Rings
  <2>2. at[r] # 0
    BY <1>2 DEF Inv, Given
  <2>3. QED
    BY <1>1, <2>1, <2>2
<1>4. at' = [at EXCEPT ![r] = a]
  <2>1. at \in [Readers -> Nat]
    BY DEF Inv, Places
  <2>2. at = [at EXCEPT ![r] = a]
    BY <1>1, <2>1
  <2>3. QED
    BY <1>2, <2>2
<1>5. l \in {"panicked", "unlocked", "callback", "installed", "polling"} /\ (l = "panicked" => res.panics)
  BY <1>1
<1>6. ~ InInit(r)
  BY <1>2 DEF InInit
<1>7. QED
  BY <1>1, <1>2, <1>3, <1>4, <1>5, <1>6, ReadInv

\* The read of a filter keeps the invariant.
LEMMA ReadNonBlockingInv ==
    ASSUME Inv, NEW r \in Readers, ReadNonBlocking(r)
    PROVE  Inv'
<1>1. pc[r] = "polling"
  BY DEF ReadNonBlocking
<1>2. at[r] # 0 /\ at[r] \in Nat /\ at[r] <= Len(streams) /\ Len(streams) \in Nat
  <2>1. at[r] # 0
    BY <1>1 DEF Inv, Given
  <2>2. at[r] \in Nat /\ at[r] <= Len(streams) /\ Len(streams) \in Nat
    BY DEF Inv, Places, Rings
  <2>3. QED
    BY <2>1, <2>2
<1>3. streams # << >>
  BY <1>2
<1>4. PICK a : a = Len(streams)
  OBVIOUS
<1>5. a \in 1 .. Len(streams) /\ Last(streams) = streams[a]
  BY <1>3, <1>4, LastStream
<1>6. PICK res, l : /\ res = doRead(streams[a], offset[r])
                    /\ l = IF res.panics THEN "panicked" ELSE IF res.items = << >> THEN "installed" ELSE "polling"
  OBVIOUS
<1>7. /\ at' = [at EXCEPT ![r] = a] /\ offset' = [offset EXCEPT ![r] = res.offset] /\ pc' = [pc EXCEPT ![r] = l]
      /\ UNCHANGED <<header, streams, blocks, events, woken, cancelled, failed, raced>>
  BY <1>4, <1>5, <1>6 DEF ReadNonBlocking, Goto
<1>8. l \in {"panicked", "unlocked", "callback", "installed", "polling"} /\ (l = "panicked" => res.panics)
  BY <1>6
<1>9. ~ InInit(r)
  BY <1>1 DEF InInit
<1>10. ~ raced => a = at[r]
  <2>1. ~ raced => Len(streams) <= 1
    BY DEF Inv, InTurn
  <2>2. QED
    BY <1>2, <1>4, <2>1
<1>11. QED
  BY <1>5, <1>6, <1>7, <1>8, <1>9, <1>10, ReadInv

(***************************************************************************)
(* The steps of initSubscriptions, and Add.                                *)
(***************************************************************************)
\* A step that moves one reader and no stream or offset of a reader.
LEMMA PcStep ==
    ASSUME Inv, NEW r \in Readers, NEW l \in Labels, pc' = [pc EXCEPT ![r] = l]
    PROVE  pc' \in [Readers -> Labels] /\ pc'[r] = l /\ \A q \in Readers : q # r => pc'[q] = pc[q]
<1>1. pc \in [Readers -> Labels]
  BY DEF Inv, Places
<1>2. QED
  BY <1>1

\* The first assignment of initSubscriptions keeps the invariant.
LEMMA MakeHeaderStreamInv ==
    ASSUME Inv, NEW r \in Readers, MakeHeaderStream(r)
    PROVE  Inv'
<1>1. /\ pc[r] = "makeHeaders" /\ header' = TRUE /\ pc' = [pc EXCEPT ![r] = "makeLogs"]
      /\ UNCHANGED <<streams, blocks, events, at, offset, woken, cancelled, failed, raced>>
  BY DEF MakeHeaderStream, Goto
<1>2. pc' \in [Readers -> Labels] /\ pc'[r] = "makeLogs" /\ \A q \in Readers : q # r => pc'[q] = pc[q]
  <2>1. "makeLogs" \in Labels
    BY DEF Labels
  <2>2. QED
    BY <1>1, <2>1, PcStep
<1>3. Flags' /\ Places' /\ Rings' /\ Offsets'
  BY <1>1, <1>2 DEF Inv, Flags, Places, Rings, Offsets
<1>4. Given'
  BY <1>1, <1>2 DEF Inv, Given
<1>5. ASSUME ~ raced' PROVE InTurn'
  <2>1. InTurn
    BY <1>1, <1>5 DEF Inv
  <2>2. \A q \in Readers : InInit(q)' <=> InInit(q)
    BY <1>1, <1>2 DEF InInit
  <2>3. InInit(r) /\ ~ header /\ streams = << >>
    BY <1>1, <2>1 DEF InInit, InTurn
  <2>4. \A q \in Readers : InInit(q) => q = r
    BY <2>1, <2>3 DEF InTurn
  <2>5. \A q, p \in Readers : InInit(q)' /\ InInit(p)' => q = p
    BY <2>2, <2>4
  <2>6. ~ Settled /\ ~ Settled' /\ failed = {}
    BY <2>1, <2>2, <2>3 DEF InTurn, Settled
  <2>7. Len(streams') <= 1 /\ header' /\ failed' = {}
    BY <1>1, <2>1, <2>6 DEF InTurn
  <2>8. ASSUME NEW q \in Readers
        PROVE  /\ pc'[q] # "panicked"
               /\ pc'[q] = "makeHeaders" => ~ header'
               /\ pc'[q] = "makeLogs" => header' /\ streams' = << >>
               /\ pc'[q] \notin {"subscribeBlocks", "subscribeLogs", "return"} /\ at'[q] = 0
    <3>1. CASE q = r
      BY <1>1, <1>2, <2>1, <2>3, <2>6, <3>1 DEF InTurn
    <3>2. CASE q # r
      <4>1. ~ InInit(q) /\ pc'[q] = pc[q]
        BY <1>2, <2>4, <3>2
      <4>2. QED
        BY <1>1, <2>1, <2>6, <4>1 DEF InTurn, InInit
    <3>3. QED
      BY <3>1, <3>2
  <2>9. QED
    BY <2>5, <2>6, <2>7, <2>8 DEF InTurn
<1>6. QED
  BY <1>3, <1>4, <1>5 DEF Inv

\* A new stream keeps the invariant: it is a ring of nothing.
LEMMA MakeLogStreamInv ==
    ASSUME Inv, NEW r \in Readers, MakeLogStream(r)
    PROVE  Inv'
<1>1. /\ pc[r] = "makeLogs" /\ streams' = Append(streams, NewStream) /\ pc' = [pc EXCEPT ![r] = "subscribeBlocks"]
      /\ UNCHANGED <<header, blocks, events, at, offset, woken, cancelled, failed, raced>>
  BY DEF MakeLogStream, Goto
<1>2. pc' \in [Readers -> Labels] /\ pc'[r] = "subscribeBlocks" /\ \A q \in Readers : q # r => pc'[q] = pc[q]
  <2>1. "subscribeBlocks" \in Labels
    BY DEF Labels
  <2>2. QED
    BY <1>1, <2>1, PcStep
<1>3. PICK n, ss, tt : n = Len(streams) /\ ss = streams /\ tt = streams'
  OBVIOUS
<1>4. NewStream = Ring(0) /\ Ring(0) \in {Ring(m) : m \in Nat} /\ Ring(0).added = 0
  BY NoRing, RingFields
<1>5. ss \in Seq({Ring(m) : m \in Nat}) /\ tt = Append(ss, Ring(0)) /\ n = Len(ss)
  BY <1>1, <1>3, <1>4 DEF Inv, Rings
<1>6. /\ tt \in Seq({Ring(m) : m \in Nat}) /\ n \in Nat /\ Len(tt) = n + 1 /\ tt[n + 1] = Ring(0)
      /\ \A i \in 1 .. n : tt[i] = ss[i]
  <2> DEFINE Rs == {Ring(m) : m \in Nat}
  <2>1. ss \in Seq(Rs) /\ Ring(0) \in Rs
    BY <1>4, <1>5
  <2> HIDE DEF Rs
  <2>2. tt \in Seq(Rs) /\ n \in Nat /\ Len(tt) = n + 1 /\ tt[n + 1] = Ring(0) /\ \A i \in 1 .. n : tt[i] = ss[i]
    BY <1>5, <2>1
  <2>3. QED
    BY <2>2 DEF Rs
<1>7. tt # << >>
  BY <1>6
<1>8. Flags' /\ Offsets'
  BY <1>1 DEF Inv, Flags, Offsets
<1>9. Places'
  <2>1. \A q \in Readers : at[q] \in Nat /\ at[q] <= n
    BY <1>3 DEF Inv, Places
  <2>2. \A q \in Readers : at[q] <= n + 1
    BY <1>6, <2>1
  <2>3. QED
    BY <1>1, <1>2, <1>3, <1>6, <2>2 DEF Inv, Places
<1>10. Rings'
  <2>1. \A i \in 1 .. n : ss[i].added <= MaxItems
    BY <1>3 DEF Inv, Rings
  <2>2. ASSUME NEW i \in 1 .. n + 1 PROVE tt[i].added <= MaxItems
    <3>1. CASE i = n + 1
      BY <1>4, <1>6, <3>1, Sizes
    <3>2. CASE i # n + 1
      <4>1. i \in 1 .. n
        BY <1>6, <3>2
      <4>2. QED
        BY <1>6, <2>1, <4>1
    <3>3. QED
      BY <3>1, <3>2
  <2>3. QED
    BY <1>3, <1>6, <2>2 DEF Rings
<1>11. Given'
  BY <1>1, <1>2, <1>3, <1>7 DEF Inv, Given
<1>12. ASSUME ~ raced' PROVE InTurn'
  <2>1. InTurn
    BY <1>1, <1>12 DEF Inv
  <2>2. \A q \in Readers : InInit(q)' <=> InInit(q)
    BY <1>1, <1>2 DEF InInit
  <2>3. InInit(r) /\ header /\ streams = << >>
    BY <1>1, <2>1 DEF InInit, InTurn
  <2>4. \A q \in Readers : InInit(q) => q = r
    BY <2>1, <2>3 DEF InTurn
  <2>5. \A q, p \in Readers : InInit(q)' /\ InInit(p)' => q = p
    BY <2>2, <2>4
  <2>6. n = 0 /\ Len(streams') <= 1 /\ header' /\ streams' # << >>
    <3>1. n = 0
      BY <1>3, <2>3
    <3>2. QED
      BY <1>1, <1>3, <1>6, <1>7, <2>3, <3>1
  <2>7. events' = "none"
    BY <1>1, <2>3 DEF Inv, Given
  <2>8. \A q \in Readers : at'[q] = 0
    <3>1. \A q \in Readers : at[q] \in Nat /\ at[q] <= n
      BY <1>3 DEF Inv, Places
    <3>2. QED
      BY <1>1, <2>6, <3>1
  <2>9. ~ Settled /\ ~ Settled' /\ failed = {} /\ failed' = {}
    BY <1>1, <2>1, <2>2, <2>3 DEF InTurn, Settled
  <2>10. ASSUME NEW q \in Readers
        PROVE  /\ pc'[q] \notin {"panicked", "makeHeaders", "makeLogs", "return"}
               /\ pc'[q] \in {"subscribeBlocks", "subscribeLogs"} => header' /\ events' = "none"
    <3>1. CASE q = r
      BY <1>2, <2>6, <2>7, <3>1
    <3>2. CASE q # r
      <4>1. ~ InInit(q) /\ pc'[q] = pc[q]
        BY <1>2, <2>4, <3>2
      <4>2. QED
        BY <1>1, <2>1, <2>6, <2>9, <4>1 DEF InTurn, InInit
    <3>3. QED
      BY <3>1, <3>2
  <2>11. QED
    BY <2>5, <2>6, <2>8, <2>9, <2>10 DEF InTurn
<1>13. QED
  BY <1>8, <1>9, <1>10, <1>11, <1>12 DEF Inv

\* A step of the reader that subscribes, to l, which leaves the streams as they are and is
\* refused or has l as its next label, keeps the invariant.
LEMMA SubscribeInv ==
    ASSUME Inv, NEW r \in Readers, NEW l \in {"subscribeLogs", "return", "panicked"},
           pc[r] \in {"subscribeBlocks", "subscribeLogs"}, pc' = [pc EXCEPT ![r] = l],
           UNCHANGED <<header, streams, at, offset, woken, cancelled, raced>>,
           blocks' \in BOOLEAN, events' \in {"none", "on", "closed"},
           failed' = IF l = "panicked" THEN failed \cup {r} ELSE failed,
           l = "return" => events' = "on",
           l # "return" => events' = (IF events = "on" THEN "closed" ELSE events) \/ events' = events
    PROVE  Inv'
<1>1. pc' \in [Readers -> Labels] /\ pc'[r] = l /\ \A q \in Readers : q # r => pc'[q] = pc[q]
  <2>1. l \in Labels
    BY DEF Labels
  <2>2. QED
    BY <2>1, PcStep
<1>2. streams # << >> /\ streams' # << >>
  BY DEF Inv, Given
<1>3. Flags' /\ Places' /\ Rings' /\ Offsets'
  BY <1>1 DEF Inv, Flags, Places, Rings, Offsets
<1>4. Given'
  <2>1. l \notin {"read", "unlocked", "waiting", "callback", "installed", "polling"}
    OBVIOUS
  <2>2. QED
    BY <1>1, <1>2, <2>1 DEF Inv, Given
<1>5. ASSUME ~ raced' PROVE InTurn'
  <2>1. InTurn
    BY <1>5 DEF Inv
  <2>2. InInit(r) /\ header /\ events = "none"
    BY <2>1 DEF InInit, InTurn
  <2>3. \A q \in Readers : InInit(q) => q = r
    BY <2>1, <2>2 DEF InTurn
  <2>4. ~ Settled /\ failed = {}
    BY <2>1, <2>2 DEF Settled, InTurn
  <2>5. \A q \in Readers : InInit(q)' <=> q = r /\ l = "subscribeLogs"
    BY <1>1, <2>2, <2>3 DEF InInit
  <2>6. Settled' <=> l # "subscribeLogs"
    BY <2>2, <2>5 DEF Settled
  <2>7. events' = IF l = "return" THEN "on" ELSE "none"
    BY <2>2
  <2>8. failed' = IF l = "panicked" THEN {r} ELSE {}
    BY <2>4
  <2>9. /\ Settled' => streams' # << >> /\ (events' = "none" <=> failed' # {})
        /\ failed' # {} => Settled'
        /\ \A q, p \in failed' : q = p
    BY <1>2, <2>6, <2>7, <2>8
  <2>10. \A q, p \in Readers : InInit(q)' /\ InInit(p)' => q = p
    BY <2>5
  <2>11. Len(streams') <= 1 /\ header'
    BY <2>1, <2>2 DEF InTurn
  <2>12. ASSUME NEW q \in Readers
         PROVE  /\ pc'[q] = "panicked" => q \in failed'
                /\ pc'[q] \notin {"makeHeaders", "makeLogs", "subscribeBlocks"}
                /\ pc'[q] = "subscribeLogs" => events' = "none"
                /\ pc'[q] = "return" => Settled'
                /\ at'[q] = 0
    <3>1. at[q] = 0
      BY <2>1, <2>4 DEF InTurn
    <3>2. CASE q = r
      BY <1>1, <2>6, <2>7, <2>8, <3>1, <3>2
    <3>3. CASE q # r
      <4>1. ~ InInit(q) /\ pc'[q] = pc[q]
        BY <1>1, <2>3, <3>3
      <4>2. pc[q] # "return" /\ pc[q] # "panicked"
        BY <2>1, <2>4 DEF InTurn
      <4>3. QED
        BY <3>1, <4>1, <4>2 DEF InInit
    <3>4. QED
      BY <3>2, <3>3
  <2>13. QED
    BY <2>9, <2>10, <2>11, <2>12 DEF InTurn
<1>6. QED
  BY <1>3, <1>4, <1>5 DEF Inv

\* The subscription to block events, granted or refused, keeps the invariant.
LEMMA SubscribeBlocksInv ==
    ASSUME Inv, NEW r \in Readers, NEW ok \in BOOLEAN, SubscribeBlocks(r, ok)
    PROVE  Inv'
<1>1. PICK l : l = IF ok THEN "subscribeLogs" ELSE "panicked"
  OBVIOUS
<1>2. /\ pc[r] = "subscribeBlocks" /\ pc' = [pc EXCEPT ![r] = l]
      /\ blocks' = (blocks \/ ok) /\ events' = events
      /\ UNCHANGED <<header, streams, at, offset, woken, cancelled, raced>>
  BY <1>1 DEF SubscribeBlocks, Goto
<1>3. failed' = IF l = "panicked" THEN failed \cup {r} ELSE failed
  BY <1>1 DEF SubscribeBlocks
<1>4. blocks' \in BOOLEAN /\ events' \in {"none", "on", "closed"}
  BY <1>2 DEF Inv, Places
<1>5. l \in {"subscribeLogs", "return", "panicked"} /\ l # "return"
  BY <1>1
<1>6. QED
  BY <1>2, <1>3, <1>4, <1>5, SubscribeInv

\* The subscription to transaction events, granted or refused, keeps the invariant.
LEMMA SubscribeLogsInv ==
    ASSUME Inv, NEW r \in Readers, NEW ok \in BOOLEAN, SubscribeLogs(r, ok)
    PROVE  Inv'
<1>1. PICK l : l = IF ok THEN "return" ELSE "panicked"
  OBVIOUS
<1>2. /\ pc[r] = "subscribeLogs" /\ pc' = [pc EXCEPT ![r] = l]
      /\ UNCHANGED <<header, streams, at, offset, woken, cancelled, raced>>
  BY <1>1 DEF SubscribeLogs, Goto
<1>3. blocks \in BOOLEAN /\ events \in {"none", "on", "closed"}
  BY DEF Inv, Flags, Places
<1>4. CASE ok
  <2>1. l = "return" /\ events' = "on" /\ blocks' = blocks /\ failed' = failed
    BY <1>1, <1>4 DEF SubscribeLogs
  <2>2. QED
    BY <1>2, <1>3, <2>1, SubscribeInv
<1>5. CASE ~ ok
  <2>1. /\ l = "panicked" /\ failed' = failed \cup {r} /\ (blocks' = FALSE \/ blocks' = blocks)
        /\ events' = (IF events = "on" THEN "closed" ELSE events) \/ events' = events
    BY <1>1, <1>5 DEF SubscribeLogs, UnsubscribeAll
  <2>2. blocks' \in BOOLEAN /\ events' \in {"none", "on", "closed"}
    BY <1>3, <2>1
  <2>3. QED
    BY <1>2, <2>1, <2>2, SubscribeInv
<1>6. QED
  BY <1>4, <1>5

\* Add keeps the invariant: a ring stays one, and nobody gets ahead of it.
LEMMA AddInv ==
    ASSUME Inv, NEW n \in 1 .. MaxBatch, Add(n)
    PROVE  Inv'
<1>1. /\ events = "on" /\ AddedInAll(n, streams) <= MaxItems
      /\ streams' = [streams EXCEPT ![Len(streams)] = Added(streams[Len(streams)], n)]
      /\ woken' = woken \cup {r \in Readers : pc[r] = "waiting" /\ at[r] = Len(streams)}
      /\ UNCHANGED <<header, blocks, events, pc, at, offset, cancelled, failed, raced>>
  BY Zenon DEF Add, AddedInAll
<1> HIDE DEF Add
<1>2. streams # << >>
  BY <1>1 DEF Inv, Given
<1>3. PICK k, ss, tt : k = Len(streams) /\ ss = streams /\ tt = streams'
  OBVIOUS
<1>4. k \in Nat /\ k # 0 /\ k \in 1 .. k
  BY <1>2, <1>3, LastStream
<1>5. PICK m \in Nat : ss[k] = Ring(m) /\ ss[k].added = m
  BY <1>3, <1>4, StreamIsRing
<1>6. n \in Nat /\ m + n \in Nat /\ m <= m + n
  BY <1>5, Sizes
<1>7. Added(ss[k], n) = Ring(m + n)
  BY <1>5, <1>6, AddedRing
<1>8. m + n <= MaxItems
  <2>1. ss \in Seq({Ring(i) : i \in Nat}) /\ ss # << >> /\ AddedInAll(n, ss) <= MaxItems
    BY <1>1, <1>2, <1>3 DEF Inv, Rings
  <2>2. ss[Len(ss)].added + n <= MaxItems
    BY <1>6, <2>1, GuardBounds, Sizes
  <2>3. QED
    BY <1>3, <1>5, <2>2
<1>9. tt = [ss EXCEPT ![k] = Ring(m + n)]
  BY <1>1, <1>3, <1>7
<1>10. /\ tt \in Seq({Ring(i) : i \in Nat}) /\ Len(tt) = k /\ tt[k] = Ring(m + n)
       /\ \A i \in 1 .. k : i # k => tt[i] = ss[i]
  <2> DEFINE Rs == {Ring(i) : i \in Nat}
  <2>1. ss \in Seq(Rs) /\ Ring(m + n) \in Rs /\ Len(ss) = k
    BY <1>3, <1>6 DEF Inv, Rings
  <2> HIDE DEF Rs
  <2>2. ss \in [1 .. k -> Rs]
    BY <2>1
  <2>3. tt \in [1 .. k -> Rs] /\ tt[k] = Ring(m + n) /\ \A i \in 1 .. k : i # k => tt[i] = ss[i]
    BY <1>4, <1>9, <2>1, <2>2
  <2>4. tt \in Seq(Rs) /\ Len(tt) = k
    BY <1>4, <2>3
  <2>5. QED
    BY <2>3, <2>4 DEF Rs
<1>11. Ring(m + n).added = m + n
  BY <1>6, RingFields
<1>12. tt # << >>
  BY <1>4, <1>10
<1>13. Flags' /\ Offsets'
  BY <1>1 DEF Inv, Flags, Offsets
<1>14. Places'
  <2>1. woken' \subseteq Readers
    BY <1>1 DEF Inv, Places
  <2>2. QED
    BY <1>1, <1>3, <1>10, <2>1 DEF Inv, Places
<1>15. Rings'
  <2>1. \A i \in 1 .. k : ss[i].added <= MaxItems
    BY <1>3 DEF Inv, Rings
  <2>2. \A i \in 1 .. k : tt[i].added <= MaxItems
    BY <1>8, <1>10, <1>11, <2>1
  <2>3. QED
    BY <1>3, <1>10, <2>2 DEF Rings
<1>16. Given'
  BY <1>1, <1>3, <1>12 DEF Inv, Given
<1>17. ASSUME ~ raced' PROVE InTurn'
  <2>1. InTurn
    BY <1>1, <1>17 DEF Inv
  <2>2. \A q \in Readers : InInit(q)' <=> InInit(q)
    BY <1>1 DEF InInit
  <2>3. Len(streams') <= 1 /\ header' /\ streams' # << >>
    BY <1>1, <1>2, <1>3, <1>10, <1>12, <2>1 DEF InTurn
  <2>4. \A q \in Readers : pc[q] # "makeLogs"
    BY <1>2, <2>1 DEF InTurn
  <2>5. ASSUME NEW q \in Readers, at[q] # 0 PROVE offset[q] <= tt[at[q]].added
    <3>1. at[q] \in Nat /\ at[q] <= k /\ k <= 1 /\ offset[q] \in Int
      BY <1>3, <2>1 DEF Inv, Places, Offsets, InTurn
    <3>2. at[q] = k
      BY <1>4, <2>5, <3>1
    <3>3. offset[q] <= m
      BY <1>3, <1>5, <2>1, <2>5, <3>2 DEF InTurn
    <3>4. QED
      BY <1>6, <1>10, <1>11, <3>1, <3>2, <3>3
  <2>6. \A q \in Readers : at'[q] # 0 => offset'[q] <= streams'[at'[q]].added
    BY <1>1, <1>3, <2>5
  <2>7. Settled' <=> Settled
    BY <1>1, <2>2 DEF Settled
  <2>8. QED
    BY <1>1, <2>1, <2>2, <2>3, <2>4, <2>6, <2>7 DEF InTurn
<1>18. QED
  BY <1>13, <1>14, <1>15, <1>16, <1>17 DEF Inv

(***************************************************************************)
(* The invariant, and what follows from it.                                *)
(***************************************************************************)
\* There is no stream before the first subscription.
LEMMA InitInv == Init => Inv
<1> SUFFICES ASSUME Init PROVE Inv
  OBVIOUS
<1>1. /\ header = FALSE /\ streams = << >> /\ blocks = FALSE /\ events = "none" /\ pc = [r \in Readers |-> "idle"]
      /\ at = [r \in Readers |-> 0] /\ offset = [r \in Readers |-> -1]
      /\ woken = {} /\ cancelled = {} /\ failed = {} /\ raced = FALSE
  BY DEF Init
<1>2. Flags
  BY <1>1 DEF Flags
<1>3. Places
  <2>1. pc \in [Readers -> Labels]
    BY <1>1 DEF Labels
  <2>2. at \in [Readers -> Nat] /\ \A r \in Readers : at[r] <= Len(streams)
    BY <1>1
  <2>3. QED
    BY <1>1, <2>1, <2>2 DEF Places
<1>4. Rings
  BY <1>1 DEF Rings
<1>5. Offsets
  BY <1>1, Sizes DEF Offsets
<1>6. Given
  BY <1>1 DEF Given
<1>7. InTurn
  BY <1>1 DEF InTurn, InInit, Settled
<1>8. QED
  BY <1>2, <1>3, <1>4, <1>5, <1>6, <1>7 DEF Inv

\* A step that changes nothing keeps the invariant.
LEMMA StutterInv ==
    ASSUME Inv, UNCHANGED vars
    PROVE  Inv'
<1>1. UNCHANGED <<header, streams, blocks, events, pc, at, offset, woken, cancelled, failed, raced>>
  BY DEF vars
<1>2. Flags' /\ Places' /\ Rings'
  BY <1>1 DEF Inv, Flags, Places, Rings
<1>3. Offsets' /\ Given'
  BY <1>1 DEF Inv, Offsets, Given
<1>4. ~ raced' => InTurn'
  BY <1>1 DEF Inv, InTurn, InInit, Settled
<1>5. QED
  BY <1>2, <1>3, <1>4 DEF Inv

\* Every step keeps the invariant.
LEMMA StepInv == Inv /\ [Next]_vars => Inv'
<1> SUFFICES ASSUME Inv, [Next]_vars PROVE Inv'
  OBVIOUS
<1>1. ASSUME NEW n \in 1 .. MaxBatch, Add(n) PROVE Inv'
  BY <1>1, AddInv
<1>2. CASE Close
  BY <1>2, CloseInv
<1>3. ASSUME NEW r \in Readers, Serve(r) PROVE Inv'
  <2>1. CASE MakeHeaderStream(r)
    BY <2>1, MakeHeaderStreamInv
  <2>2. CASE MakeLogStream(r)
    BY <2>2, MakeLogStreamInv
  <2>3. CASE \E ok \in BOOLEAN : SubscribeBlocks(r, ok) \/ SubscribeLogs(r, ok)
    BY <2>3, SubscribeBlocksInv, SubscribeLogsInv
  <2>4. CASE LogStream(r)
    BY <2>4, LogStreamInv
  <2>5. CASE ReadBlocking(r)
    BY <2>5, ReadBlockingInv
  <2>6. CASE Wait(r) \/ Wake(r) \/ WaitCancelled(r)
    BY <2>6, WaitInv
  <2>7. CASE ReadNonBlocking(r)
    BY <2>7, ReadNonBlockingInv
  <2>8. QED
    BY <1>3, <2>1, <2>2, <2>3, <2>4, <2>5, <2>6, <2>7 DEF Serve
<1>4. ASSUME NEW r \in Readers,
             \/ initSubscriptions(r) \/ Cancel(r) \/ GetFilterChanges(r) \/ UninstallFilter(r)
             \/ \E ok \in BOOLEAN : Callback(r, ok)
      PROVE  Inv'
  BY <1>4, InitSubscriptionsInv, CancelInv, WaitInv
<1>5. CASE UNCHANGED vars
  BY <1>5, StutterInv
<1>6. QED
  BY <1>1, <1>2, <1>3, <1>4, <1>5 DEF Next

\* The invariant gives the type invariant: segments are neither empty nor over-full.
LEMMA InvType == Inv => TypeOK
<1> SUFFICES ASSUME Inv PROVE TypeOK
  OBVIOUS
<1>1. Flags /\ Places /\ Rings /\ Offsets
  BY DEF Inv
<1>2. at \in [Readers -> 0 .. Len(streams)]
  <2>1. Len(streams) \in Nat
    BY <1>1 DEF Rings
  <2>2. \A r \in Readers : at[r] \in 0 .. Len(streams)
    BY <1>1, <2>1 DEF Places
  <2>3. QED
    BY <1>1, <2>2 DEF Places
<1>3. offset \in [Readers -> -1 .. MaxItems]
  <2>1. \A r \in Readers : offset[r] \in -1 .. MaxItems
    BY <1>1, Sizes DEF Offsets
  <2>2. QED
    BY <1>1, <2>1 DEF Offsets
<1>4. ASSUME NEW s \in Range(streams)
      PROVE  /\ Length(s) <= MaxSegments + 1
             /\ \A i \in 1 .. Length(s) : Len(s.segments[i]) \in 1 .. SegmentSize
  <2>1. PICK j \in 1 .. Len(streams) : s = streams[j]
    <3>1. DOMAIN streams = 1 .. Len(streams)
      BY <1>1 DEF Rings
    <3>2. QED
      BY <3>1 DEF Range
  <2>2. PICK m \in Nat : s = Ring(m)
    BY <2>1, StreamIsRing
  <2>3. s.segments = Segments(m) /\ Length(s) = Kept(m)
    BY <2>2, RingFields
  <2>4. Kept(m) <= MaxSegments + 1
    <3>1. CASE m = 0
      BY <3>1, NoRing, Sizes
    <3>2. CASE m # 0
      <4>1. m \in Nat \ {0}
        BY <3>2
      <4>2. QED
        BY <4>1, RingNumbers
    <3>3. QED
      BY <3>1, <3>2
  <2>5. ASSUME NEW i \in 1 .. Kept(m) PROVE Len(Segments(m)[i]) \in 1 .. SegmentSize
    <3>1. PICK g : g = (Pruned(m) + i) - 1
      OBVIOUS
    <3>2. Segments(m)[i] = Segment(m, g) /\ g \in Nat /\ g <= LastSeg(m)
      BY <3>1, SegmentsShape
    <3>3. m # 0
      <4>1. ASSUME m = 0 PROVE FALSE
        <5>1. Kept(m) = 0
          BY <4>1, NoRing
        <5>2. QED
          BY <5>1
      <4>2. QED
        BY <4>1
    <3>4. m \in Nat \ {0}
      BY <3>3
    <3>5. Len(Segment(m, g)) = Filled(m, g) /\ Filled(m, g) \in Nat /\ Filled(m, g) > 0 /\ Filled(m, g) <= SegmentSize
      BY <3>2, <3>4, SegmentShape
    <3>6. QED
      BY <3>2, <3>5, Sizes
  <2>6. QED
    BY <2>3, <2>4, <2>5
<1>5. /\ pc \in [Readers -> Labels] /\ events \in {"none", "on", "closed"} /\ woken \subseteq Readers /\ cancelled \subseteq Subscribers
      /\ failed \subseteq Readers
  BY <1>1 DEF Places
<1>6. header \in BOOLEAN /\ blocks \in BOOLEAN /\ raced \in BOOLEAN
  BY <1>1 DEF Flags
<1>7. QED
  BY <1>2, <1>3, <1>4, <1>5, <1>6 DEF TypeOK, Labels

\* A ring keeps the newest items.
LEMMA InvKeeps == Inv => KeepsNewest
<1> SUFFICES ASSUME Inv, NEW s \in Range(streams)
             PROVE  /\ lastID(s) = s.added
                    /\ Len(Retained(s)) >= IF s.added < MaxSegments * SegmentSize THEN s.added
                                           ELSE MaxSegments * SegmentSize
                    /\ Retained(s) = [i \in 1 .. Len(Retained(s)) |-> Earliest(s) + i - 1]
  BY DEF KeepsNewest
<1>1. PICK j \in 1 .. Len(streams) : s = streams[j]
  <2>1. DOMAIN streams = 1 .. Len(streams)
    BY DEF Inv, Rings
  <2>2. QED
    BY <2>1 DEF Range
<1>2. PICK m \in Nat : s = Ring(m) /\ s.added = m
  BY <1>1, StreamIsRing
<1>3. lastID(Ring(m)) = m
  BY LastIdIsCount
<1>4. /\ Len(Retained(Ring(m))) >= IF m < MaxSegments * SegmentSize THEN m ELSE MaxSegments * SegmentSize
      /\ Retained(Ring(m)) = [i \in 1 .. Len(Retained(Ring(m))) |-> Earliest(Ring(m)) + i - 1]
  BY RetainsEnough
<1>5. QED
  BY <1>2, <1>3, <1>4

\* Nobody who waited for the streams is ahead of one.
LEMMA InvReads == Inv => ReadsNext
<1> SUFFICES ASSUME Inv, ~ raced, NEW r \in Readers, at[r] # 0, offset[r] >= 0
             PROVE  Serves(streams[at[r]], offset[r])
  BY DEF ReadsNext, Serves
<1>1. at[r] \in 1 .. Len(streams)
  <2>1. at[r] \in Nat /\ at[r] <= Len(streams) /\ Len(streams) \in Nat
    BY DEF Inv, Places, Rings
  <2>2. QED
    BY <2>1
<1>2. PICK m \in Nat : streams[at[r]] = Ring(m) /\ streams[at[r]].added = m
  BY <1>1, StreamIsRing
<1>3. offset[r] \in Nat
  BY DEF Inv, Offsets
<1>4. offset[r] <= m
  BY <1>2 DEF Inv, InTurn
<1>5. QED
  BY <1>2, <1>3, <1>4, RingServes

\* Inv is an invariant of the streams and their readers: every stream is what its number
\* of items makes it, and unless two readers were in initSubscriptions at once they took
\* turns there.
THEOREM Invariance == Spec => []Inv
<1>1. QED
  BY InitInv, StepInv, PTL DEF Spec

\* For any number of readers, segments of any size and any batches: a stream keeps the
\* newest items in order, at least its capacity of them, and a reader that comes back with
\* its offset gets the very next items once, nothing only when nothing is new, and never a
\* slice beyond the end of a segment.
THEOREM ReadersAlwaysServed == Spec => []ReadersServed
<1>1. Inv => ReadersServed
  BY InvType, InvKeeps, InvReads DEF ReadersServed
<1>2. QED
  BY <1>1, Invariance, PTL

\* Unless two readers were in initSubscriptions at once, at most one reader panics, the one
\* that was refused a subscription; all others hold one and the same stream, which the
\* events go to exactly when nobody was refused.
THEOREM AlwaysFedUnlessRaced == Spec => []FedUnlessRaced
<1>1. Inv => FedUnlessRaced
  <2> SUFFICES ASSUME Inv, ~ raced PROVE FedUnlessRaced
    BY DEF FedUnlessRaced
  <2>1. InTurn
    BY DEF Inv
  <2>2. ASSUME NEW r \in Readers, at[r] # 0
        PROVE  at[r] = Len(streams) /\ (events = "none" <=> failed # {})
    <3>1. Len(streams) <= 1 /\ Settled
      BY <2>1, <2>2 DEF InTurn
    <3>2. at[r] \in Nat /\ at[r] <= Len(streams) /\ Len(streams) \in Nat
      BY DEF Inv, Places, Rings
    <3>3. at[r] = Len(streams)
      BY <2>2, <3>1, <3>2
    <3>4. QED
      BY <2>1, <3>1, <3>3 DEF InTurn
  <2>3. QED
    BY <2>1, <2>2 DEF FedUnlessRaced, InTurn
<1>2. QED
  BY <1>1, Invariance, PTL
=============================================================================
