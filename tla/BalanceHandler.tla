--------------------------- MODULE BalanceHandler ---------------------------
(***************************************************************************)
(* precompiles/common: how the balance changes that the native code of a   *)
(* precompile makes reach the StateDB.  BeforeBalanceChange stores the     *)
(* number of events the context has; AfterBalanceChange replays the bank   *)
(* events emitted since on the StateDB.                                    *)
(*                                                                         *)
(* The number is a field of the precompile.  A static precompile is one    *)
(* instance for the node, so calls of transactions, of simulations and of  *)
(* eth_call queries share it, and so do a call and one nested in it; an    *)
(* ERC20 precompile is made anew for every call.  HandlerOf says which     *)
(* calls share.                                                            *)
(***************************************************************************)
EXTENDS Integers, Sequences, FiniteSets, SequencesExt

CONSTANTS
    Calls,            \* executions of precompiles, interleaved
    Handlers,         \* instances of BalanceHandler
    HandlerOf,        \* the instance a call uses
    Addr,
    Blocked,          \* addresses nobody may send to: the events on them are skipped
    ConversionFactor, \* extended units in an integer coin
    MaxPrior,         \* bound: events in the context before the call
    MaxEvents         \* bound: events of a call

ASSUME ParameterAssumption ==
    /\ IsFiniteSet(Calls) /\ HandlerOf \in [Calls -> Handlers]
    /\ IsFiniteSet(Addr) /\ Blocked \subseteq Addr
    /\ ConversionFactor \in Nat \ {0} /\ {MaxPrior, MaxEvents} \subseteq Nat

VARIABLES
    pc,            \* where a call is
    events,        \* the events of its context
    native,        \* what its native code did to each balance, in extended units
    mirror,        \* what was done to each balance of its StateDB
    prevEventsLen, \* the field of each handler
    overwritten    \* history: calls another call stored the number of meanwhile

vars == <<pc, events, native, mirror, prevEventsLen, overwritten>>

(***************************************************************************)
(* Events: x/bank reports integer coins, x/precisebank the change of a     *)
(* fractional balance; any other event is of no interest.                  *)
(***************************************************************************)
BankEvent == [type: {"coin_spent", "coin_received"}, addr: Addr, amount: {1}]
FractionalEvent == [type: {"fractional_balance_change"}, addr: Addr, amount: {-1, 1}]
Event == BankEvent \cup FractionalEvent \cup {[type |-> "other"]}

\* What the bank operation that emits an event does to a balance.
Effect(e, a) ==
    CASE e.type = "other" -> 0
      [] e.type # "other" /\ e.addr # a -> 0
      [] e.type = "coin_spent" /\ e.addr = a -> - (ConversionFactor * e.amount)
      [] e.type = "coin_received" /\ e.addr = a -> ConversionFactor * e.amount
      [] e.type = "fractional_balance_change" /\ e.addr = a -> e.amount

\* The amount of an event of x/bank, in 18 decimals.
ParseAmount(e) == ConversionFactor * e.amount

Bypassed(e) == e.addr \in Blocked

AddBalance(balance, a, n) == [balance EXCEPT ![a] = @ + n]

Replay(balance, e) ==
    IF e.type = "other" \/ Bypassed(e) THEN balance
    ELSE CASE e.type = "coin_spent" -> AddBalance(balance, e.addr, - ParseAmount(e))
           [] e.type = "coin_received" -> AddBalance(balance, e.addr, ParseAmount(e))
           [] e.type = "fractional_balance_change" -> AddBalance(balance, e.addr, e.amount)

(***************************************************************************)
(* Run of a precompile.                                                    *)
(***************************************************************************)
\* The context holds the events of earlier calls of the transaction.
RunSetup(c, prior) ==
    /\ pc[c] = "called"
    /\ pc' = [pc EXCEPT ![c] = "ready"]
    /\ events' = [events EXCEPT ![c] = prior]
    /\ UNCHANGED <<native, mirror, prevEventsLen, overwritten>>

\* The other calls between their two steps on the instance of c.
Overlapped(c) == {d \in Calls \ {c} : pc[d] = "running" /\ HandlerOf[d] = HandlerOf[c]}

\* Mutant of BeforeBalanceChange: the number is not stored.
NotStored(c) ==
    /\ pc[c] = "ready"
    /\ pc' = [pc EXCEPT ![c] = "running"]
    /\ UNCHANGED <<events, native, mirror, prevEventsLen, overwritten>>

BeforeBalanceChange(c) ==
    /\ pc[c] = "ready"
    /\ pc' = [pc EXCEPT ![c] = "running"]
    /\ prevEventsLen' = [prevEventsLen EXCEPT ![HandlerOf[c]] = Len(events[c])]
    /\ overwritten' = overwritten \cup Overlapped(c)
    /\ UNCHANGED <<events, native, mirror>>

\* The native code changes a balance and emits the event of it.
HandleMethod(c, e) ==
    /\ pc[c] = "running"
    /\ Len(events[c]) < MaxPrior + MaxEvents
    /\ events' = [events EXCEPT ![c] = Append(@, e)]
    /\ native' = [native EXCEPT ![c] = [a \in Addr |-> @[a] + Effect(e, a)]]
    /\ UNCHANGED <<pc, mirror, prevEventsLen, overwritten>>

\* The method fails, or runs out of gas.
ReturnRevertError(c) ==
    /\ pc[c] = "running"
    /\ pc' = [pc EXCEPT ![c] = "reverted"]
    /\ UNCHANGED <<events, native, mirror, prevEventsLen, overwritten>>

\* A number beyond the events is a slice out of range.
AfterBalanceChange(c) ==
    LET prev == prevEventsLen[HandlerOf[c]]
    IN  /\ pc[c] = "running"
        /\ pc' = [pc EXCEPT ![c] = IF prev <= Len(events[c]) THEN "done" ELSE "panicked"]
        /\ mirror' = [mirror EXCEPT ![c] =
                         FoldLeft(Replay, @, SubSeq(events[c], prev + 1, Len(events[c])))]
        /\ UNCHANGED <<events, native, prevEventsLen, overwritten>>

NoChange == [a \in Addr |-> 0]

Init ==
    /\ pc = [c \in Calls |-> "called"]
    /\ events = [c \in Calls |-> << >>]
    /\ native = [c \in Calls |-> NoChange]
    /\ mirror = [c \in Calls |-> NoChange]
    /\ prevEventsLen = [h \in Handlers |-> 0]
    /\ overwritten = {}

Next ==
    \E c \in Calls :
        \/ \E prior \in BoundedSeq(Event, MaxPrior) : RunSetup(c, prior)
        \/ BeforeBalanceChange(c)
        \/ \E e \in Event : HandleMethod(c, e)
        \/ ReturnRevertError(c)
        \/ AfterBalanceChange(c)

Spec == Init /\ [][Next]_vars

(***************************************************************************)
(* Properties.                                                             *)
(***************************************************************************)
\* A call that returns has changed the balances of its StateDB by what its native
\* code did to them, those of blocked addresses not at all, unless a call on the same
\* instance began meanwhile: no event of an earlier call is replayed and none of this
\* call is missed, whatever number an earlier call or a failed one left in the handler
\* (BeforeBalanceChange, AfterBalanceChange).  Nor does it slice its events beyond
\* their end.
MirrorsTheCall ==
    \A c \in Calls \ overwritten :
        /\ pc[c] # "panicked"
        /\ pc[c] = "done" =>
              \A a \in Addr : mirror[c][a] = IF a \in Blocked THEN 0 ELSE native[c][a]
=============================================================================
