------------------------------- MODULE Stream -------------------------------
(***************************************************************************)
(* rpc/stream and its readers: the stream of logs that CometBFT events     *)
(* feed, websocket subscribers that block on it, and filters that poll it. *)
(* The streams are made, and the events subscribed to, by the first reader *)
(* that asks for one (initSubscriptions), without a lock.                  *)
(*                                                                         *)
(* The items of a stream are 1, 2, 3, ..., in the order Add was given      *)
(* them, so an item is the id it should have.  Filter criteria and the     *)
(* other two streams, which differ in how they are fed, are left out.      *)
(***************************************************************************)
EXTENDS Integers, Sequences, SequencesExt

CONSTANTS
    Subscribers,  \* websocket subscriptions (eth_subscribe)
    Pollers,      \* filters (eth_newFilter)
    SegmentSize, MaxSegments,
    MaxBatch,     \* bound: logs of a transaction
    MaxItems      \* bound: items added to the streams

ASSUME ParameterAssumption ==
    /\ Subscribers \cap Pollers = {}
    /\ {SegmentSize, MaxSegments, MaxBatch} \subseteq Nat \ {0}
    /\ MaxItems \in Nat

VARIABLES
    header,     \* s.headerStream is set
    streams,    \* the log streams made so far; s.logStream is the last of them
    blocks,     \* the subscription to block events is on
    events,     \* the subscription to transaction events: "none", "on" or "closed"
    pc,         \* where each reader is
    at,         \* the stream each reader holds, 0 for nil
    offset,     \* the offset each reader keeps
    woken,      \* readers whose channel a Broadcast has closed
    cancelled,  \* subscribers whose context is done
    failed,     \* history: readers that were refused a subscription
    raced       \* history: a reader began initSubscriptions while another was in it

vars == <<header, streams, blocks, events, pc, at, offset, woken, cancelled, failed, raced>>

Readers == Subscribers \cup Pollers

NewStream == [segments |-> << >>, segmentOffset |-> 0, added |-> 0]

(***************************************************************************)
(* The ring of segments.                                                   *)
(***************************************************************************)
Length(s) == Len(s.segments)

lastID(s) ==
    IF Length(s) = 0 THEN 0
    ELSE (s.segmentOffset + Length(s) - 1) * SegmentSize + Len(Last(s.segments))

\* A full or missing tail gets a new segment, made of the oldest one at the limit.
MakeRoom(s) ==
    IF Length(s) = 0 \/ Len(Last(s.segments)) = SegmentSize
    THEN IF Length(s) > MaxSegments
         THEN [s EXCEPT !.segments = Append(Tail(@), << >>), !.segmentOffset = @ + 1]
         ELSE [s EXCEPT !.segments = Append(@, << >>)]
    ELSE s

Appended(s) ==
    LET room == MakeRoom(s)
    IN  [room EXCEPT !.segments[Length(room)] = Append(@, s.added + 1), !.added = @ + 1]

Added(s, n) == FoldLeft(LAMBDA acc, i : Appended(acc), s, [i \in 1 .. n |-> i])

NothingRead(s) == [items |-> << >>, offset |-> lastID(s), panics |-> FALSE]

\* Mutant of doRead: the offset of what was read, as if the segment were the first.
OffsetInSegment(s, o) ==
    LET segment == (o \div SegmentSize) - s.segmentOffset
        earliest == IF segment < 0 THEN 0 ELSE segment
        seg == s.segments[earliest + 1]
    IN  IF Length(s) = 0 \/ o < 0 \/ earliest >= Length(s) THEN NothingRead(s)
        ELSE IF o % SegmentSize = Len(seg) THEN NothingRead(s)
        ELSE [items |-> SubSeq(seg, (o % SegmentSize) + 1, Len(seg)),
              offset |-> earliest * SegmentSize + Len(seg), panics |-> FALSE]

\* The rest of the segment the offset is in, or of the earliest one if that is pruned.
\* Slicing a segment beyond its end panics.
doRead(s, o) ==
    LET segment == (o \div SegmentSize) - s.segmentOffset
        earliest == IF segment < 0 THEN 0 ELSE segment
        seg == s.segments[earliest + 1]
    IN  IF Length(s) = 0 \/ o < 0 \/ earliest >= Length(s) THEN NothingRead(s)
        ELSE IF o % SegmentSize > Len(seg) THEN [NothingRead(s) EXCEPT !.panics = TRUE]
        ELSE IF o % SegmentSize = Len(seg) THEN NothingRead(s)
        ELSE [items |-> SubSeq(seg, (o % SegmentSize) + 1, Len(seg)),
              offset |-> (s.segmentOffset + earliest) * SegmentSize + Len(seg),
              panics |-> FALSE]

(***************************************************************************)
(* RPCStream.  LogStream() calls initSubscriptions and returns s.logStream *)
(* as it is then.  Polls call it every time.                               *)
(***************************************************************************)
Init ==
    /\ header = FALSE /\ streams = << >> /\ blocks = FALSE /\ events = "none"
    /\ pc = [r \in Readers |-> "idle"]
    /\ at = [r \in Readers |-> 0]
    /\ offset = [r \in Readers |-> -1]
    /\ woken = {} /\ cancelled = {} /\ failed = {} /\ raced = FALSE

Goto(r, label) == pc' = [pc EXCEPT ![r] = label]

InInit(r) == pc[r] \in {"makeHeaders", "makeLogs", "subscribeBlocks", "subscribeLogs"}

\* Filters are served under filtersMu, which NewFilter holds over LogStream().
FiltersFree(r) == r \in Pollers => \A p \in Pollers \ {r} : pc[p] \in {"idle", "installed", "ended", "panicked"}

\* Mutant of initSubscriptions: no check for a stream that exists already.
MadeEveryTime(r) ==
    /\ pc[r] = "idle" /\ FiltersFree(r)
    /\ Goto(r, "makeHeaders")
    /\ raced' = (raced \/ \E o \in Readers \ {r} : InInit(o))
    /\ UNCHANGED <<header, streams, blocks, events, at, offset, woken, cancelled, failed>>

\* The check for a stream that exists already.
initSubscriptions(r) ==
    /\ pc[r] = "idle" /\ FiltersFree(r)
    /\ Goto(r, IF header THEN "return" ELSE "makeHeaders")
    /\ raced' = (raced \/ \E o \in Readers \ {r} : InInit(o))
    /\ UNCHANGED <<header, streams, blocks, events, at, offset, woken, cancelled, failed>>

MakeHeaderStream(r) ==
    /\ pc[r] = "makeHeaders"
    /\ header' = TRUE
    /\ Goto(r, "makeLogs")
    /\ UNCHANGED <<streams, blocks, events, at, offset, woken, cancelled, failed, raced>>

MakeLogStream(r) ==
    /\ pc[r] = "makeLogs"
    /\ streams' = Append(streams, NewStream)
    /\ Goto(r, "subscribeBlocks")
    /\ UNCHANGED <<header, blocks, events, at, offset, woken, cancelled, failed, raced>>

\* Subscriptions of the client under its one name, those of other readers included.
UnsubscribeAll ==
    /\ blocks' = FALSE
    /\ events' = IF events = "on" THEN "closed" ELSE events

\* Whether the bus accepts a subscription: never a second one of the same client, and it
\* may refuse for other reasons (a client that was not started, a closed connection).
Accepts(on, ok) == ok => ~ on

\* Any error is a panic, and the server drops the request; the streams are set by then.
SubscribeBlocks(r, ok) ==
    /\ pc[r] = "subscribeBlocks" /\ Accepts(blocks, ok)
    /\ blocks' = (blocks \/ ok)
    /\ failed' = IF ok THEN failed ELSE failed \cup {r}
    /\ Goto(r, IF ok THEN "subscribeLogs" ELSE "panicked")
    /\ UNCHANGED <<header, streams, events, at, offset, woken, cancelled, raced>>

\* An error here first gives up all subscriptions, or fails to.
SubscribeLogs(r, ok) ==
    /\ pc[r] = "subscribeLogs" /\ Accepts(events = "on", ok)
    /\ \/ ok /\ events' = "on" /\ UNCHANGED <<blocks, failed>>
       \/ ~ ok /\ failed' = failed \cup {r} /\ (UnsubscribeAll \/ UNCHANGED <<blocks, events>>)
    /\ Goto(r, IF ok THEN "return" ELSE "panicked")
    /\ UNCHANGED <<header, streams, at, offset, woken, cancelled, raced>>

\* A subscriber keeps the stream it was given; a new filter reads its last id.
LogStream(r) ==
    /\ pc[r] = "return"
    /\ at' = [at EXCEPT ![r] = Len(streams)]
    /\ IF streams = << >> THEN Goto(r, "panicked") /\ UNCHANGED offset
       ELSE IF r \in Pollers
       THEN /\ Goto(r, "installed")
            /\ offset' = [offset EXCEPT ![r] = doRead(Last(streams), -1).offset]
       ELSE Goto(r, "read") /\ UNCHANGED offset
    /\ UNCHANGED <<header, streams, blocks, events, woken, cancelled, failed, raced>>

\* The goroutine start receives the event of a transaction with n logs.
Add(n) ==
    /\ events = "on"
    /\ FoldLeft(LAMBDA sum, s : sum + s.added, n, streams) <= MaxItems
    /\ streams' = [streams EXCEPT ![Len(streams)] = Added(@, n)]
    /\ woken' = woken \cup {r \in Readers : pc[r] = "waiting" /\ at[r] = Len(streams)}
    /\ UNCHANGED <<header, blocks, events, pc, at, offset, cancelled, failed, raced>>

\* UnsubscribeAll closes the channels of start, which ends with an UnsubscribeAll of its
\* own: another Close.
Close ==
    /\ header /\ (blocks \/ events = "on")
    /\ UnsubscribeAll
    /\ UNCHANGED <<header, streams, pc, at, offset, woken, cancelled, failed, raced>>

(***************************************************************************)
(* Subscribe: ReadBlocking and the callback, until the context is done or  *)
(* the callback fails.                                                     *)
(***************************************************************************)
ReadBlocking(r) ==
    LET res == doRead(streams[at[r]], offset[r])
    IN  /\ pc[r] = "read" /\ r \in Subscribers
        /\ offset' = [offset EXCEPT ![r] = res.offset]
        /\ Goto(r, IF res.panics THEN "panicked"
                   ELSE IF res.items = << >> THEN "unlocked" ELSE "callback")
        /\ UNCHANGED <<header, streams, blocks, events, at, woken, cancelled, failed, raced>>

\* Cond.Wait takes the channel after the lock of the stream was released.
Wait(r) ==
    /\ pc[r] = "unlocked"
    /\ Goto(r, "waiting")
    /\ UNCHANGED <<header, streams, blocks, events, at, offset, woken, cancelled, failed, raced>>

Wake(r) ==
    /\ pc[r] = "waiting" /\ r \in woken
    /\ woken' = woken \ {r}
    /\ Goto(r, "read")
    /\ UNCHANGED <<header, streams, blocks, events, at, offset, cancelled, failed, raced>>

\* Mutant of Done: a wait like that of sync.Cond, which knows no context.
ContextIgnored(r) == FALSE

Done(r) == r \in cancelled

WaitCancelled(r) ==
    /\ pc[r] = "waiting" /\ Done(r)
    /\ Goto(r, "ended")
    /\ UNCHANGED <<header, streams, blocks, events, at, offset, woken, cancelled, failed, raced>>

\* The connection takes the items, or fails and the subscription ends.
Callback(r, ok) ==
    /\ pc[r] = "callback"
    /\ Goto(r, IF ok THEN "read" ELSE "ended")
    /\ UNCHANGED <<header, streams, blocks, events, at, offset, woken, cancelled, failed, raced>>

\* eth_unsubscribe, or the end of the connection.
Cancel(r) ==
    /\ r \in Subscribers \ cancelled /\ pc[r] \notin {"idle", "ended"}
    /\ at[r] # 0
    /\ cancelled' = cancelled \cup {r}
    /\ UNCHANGED <<header, streams, blocks, events, pc, at, offset, woken, failed, raced>>

(***************************************************************************)
(* Filters.  GetFilterChanges reads segment after segment until nothing is *)
(* left; ReadAllNonBlocking does so in one step.                           *)
(***************************************************************************)
GetFilterChanges(r) ==
    /\ r \in Pollers /\ pc[r] = "installed" /\ FiltersFree(r)
    /\ Goto(r, "polling")
    /\ UNCHANGED <<header, streams, blocks, events, at, offset, woken, cancelled, failed, raced>>

ReadNonBlocking(r) ==
    LET res == doRead(Last(streams), offset[r])
    IN  /\ pc[r] = "polling"
        /\ at' = [at EXCEPT ![r] = Len(streams)]
        /\ offset' = [offset EXCEPT ![r] = res.offset]
        /\ Goto(r, IF res.panics THEN "panicked"
                   ELSE IF res.items = << >> THEN "installed" ELSE "polling")
        /\ UNCHANGED <<header, streams, blocks, events, woken, cancelled, failed, raced>>

\* UninstallFilter, or timeoutLoop after a deadline without a poll.
UninstallFilter(r) ==
    /\ pc[r] = "installed" /\ FiltersFree(r)
    /\ Goto(r, "ended")
    /\ UNCHANGED <<header, streams, blocks, events, at, offset, woken, cancelled, failed, raced>>

Serve(r) ==
    \/ MakeHeaderStream(r) \/ MakeLogStream(r)
    \/ \E ok \in BOOLEAN : SubscribeBlocks(r, ok) \/ SubscribeLogs(r, ok)
    \/ LogStream(r)
    \/ ReadBlocking(r) \/ Wait(r) \/ Wake(r) \/ WaitCancelled(r)
    \/ ReadNonBlocking(r)

Next ==
    \/ \E n \in 1 .. MaxBatch : Add(n)
    \/ Close
    \/ \E r \in Readers :
         \/ initSubscriptions(r) \/ Serve(r)
         \/ \E ok \in BOOLEAN : Callback(r, ok)
         \/ Cancel(r) \/ GetFilterChanges(r) \/ UninstallFilter(r)

\* Goroutines run; nobody has to subscribe, poll or cancel, no log has to come, and the
\* write to a connection has no deadline: Callback need not end.
Fairness == \A r \in Readers : WF_vars(Serve(r))

Spec == Init /\ [][Next]_vars /\ Fairness

(***************************************************************************)
(* Properties.                                                             *)
(***************************************************************************)
TypeOK ==
    /\ header \in BOOLEAN /\ blocks \in BOOLEAN /\ raced \in BOOLEAN
    /\ events \in {"none", "on", "closed"}
    /\ pc \in [Readers -> {"idle", "makeHeaders", "makeLogs", "subscribeBlocks",
                           "subscribeLogs", "return", "read", "unlocked", "waiting",
                           "callback", "installed", "polling", "ended", "panicked"}]
    /\ at \in [Readers -> 0 .. Len(streams)]
    /\ offset \in [Readers -> -1 .. MaxItems]
    /\ woken \subseteq Readers /\ cancelled \subseteq Subscribers
    /\ failed \subseteq Readers
    /\ \A s \in Range(streams) :
         /\ Length(s) <= MaxSegments + 1
         /\ \A i \in 1 .. Length(s) : Len(s.segments[i]) \in 1 .. SegmentSize

Retained(s) == FlattenSeq(s.segments)
Earliest(s) == s.added - Len(Retained(s)) + 1

\* The stream keeps the newest items in the order Add was given them, at least as many
\* as its capacity, and lastID is the id of the newest: the reuse of a segment and the
\* count of pruned ones stay in step.
KeepsNewest ==
    \A s \in Range(streams) :
        /\ lastID(s) = s.added
        /\ Len(Retained(s)) >= IF s.added < MaxSegments * SegmentSize THEN s.added
                               ELSE MaxSegments * SegmentSize
        /\ Retained(s) = [i \in 1 .. Len(Retained(s)) |-> Earliest(s) + i - 1]

\* A reader that comes back with the offset it was given gets the very next items, in
\* order and once, and the offset of the last of them; nothing only when there is
\* nothing new.  When its next item was pruned meanwhile, it may also miss items of the
\* earliest segment, but never a whole segment that is still there.
ReadsNext ==
    ~ raced =>
        \A r \in Readers : at[r] # 0 /\ offset[r] >= 0 =>
            LET s   == streams[at[r]]
                res == doRead(s, offset[r])
                n   == Len(res.items)
            IN  /\ ~ res.panics
                /\ n = 0 <=> offset[r] = s.added
                /\ \A i \in 1 .. n : res.items[i] = res.offset - n + i
                /\ n > 0 => IF offset[r] + 1 >= Earliest(s) THEN res.items[1] = offset[r] + 1
                            ELSE res.items[1] - Earliest(s) \in 0 .. SegmentSize - 1

\* The stream keeps what it promises and its readers get it.
ReadersServed == TypeOK /\ KeepsNewest /\ ReadsNext

\* Unless two readers were in initSubscriptions at once, only the one reader that was
\* refused a subscription panics, and all others hold the same stream, to which the events
\* go; after that one refusal nobody subscribes again, and their stream is never fed.
FedUnlessRaced ==
    ~ raced =>
        /\ \A r, o \in failed : r = o
        /\ \A r \in Readers :
             /\ pc[r] = "panicked" => r \in failed
             /\ at[r] # 0 => at[r] = Len(streams) /\ (events = "none" <=> failed # {})

\* What a stream "backed by cometbft event subscription" (RPCStream) means to its readers:
\* who was given a log stream, by a server nobody raced in, was given one with a
\* subscription behind it.
BackedByEvents == ~ raced => \A r \in Readers : at[r] # 0 => events # "none"

\* The peer of a subscriber takes each write in the end, or its connection fails.
Responsive(r) == []<>(pc[r] # "callback")

\* A responsive subscriber woken by Add gets everything added until then, what it slept
\* over included, unless its connection fails or it is cancelled first: also when other
\* subscribers are stuck in their callbacks.
WokenCatchesUp ==
    \A r \in Subscribers : Responsive(r) =>
        \A k \in 1 .. MaxItems :
            (pc[r] = "waiting" /\ r \in woken /\ streams[at[r]].added = k) ~>
                (offset[r] >= k \/ pc[r] = "ended")

\* A responsive subscriber that is cancelled stops, wherever it was, once no more logs come
\* (MaxItems ends them): the context is looked at only when nothing is left to read.
CancelEnds ==
    \A r \in Subscribers : Responsive(r) => (r \in cancelled ~> pc[r] \in {"ended", "panicked"})

\* A poll returns once no more logs come, whatever subscribers are stuck.
PollReturns == \A r \in Pollers : pc[r] = "polling" ~> pc[r] \in {"installed", "panicked"}

\* A peer that does not read holds up its own subscription only: every other reader that
\* was woken, cancelled or asked once gets on.
ReadersReturn == WokenCatchesUp /\ CancelEnds /\ PollReturns

\* Everything added is passed to every responsive subscriber in the end: Subscribe "only
\* stops if the context is canceled".  Add may come between the release of the lock and
\* Wait, whose signal is then missed.
EverythingArrives ==
    \A r \in Subscribers : Responsive(r) =>
        \A k \in 1 .. MaxItems :
            (pc[r] = "waiting" /\ streams[at[r]].added >= k) ~> (offset[r] >= k \/ pc[r] = "ended")
=============================================================================
