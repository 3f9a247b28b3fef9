---------------------------- MODULE ExtendedBank ----------------------------
(***************************************************************************)
(* What x/precisebank promises its callers: a bank with one coin of full   *)
(* precision.  There is no reserve, no fraction and no remainder; a call   *)
(* succeeds exactly when the account that pays has the money, moves        *)
(* exactly the amount asked for, and has no effect outside a transaction   *)
(* that fails.                                                             *)
(***************************************************************************)
EXTENDS Integers

CONSTANT Holders   \* the accounts with an extended balance

VARIABLES
    balance,   \* extended balance of every holder
    total,     \* extended units in circulation
    committed, \* the balances and the total a rollback returns to
    phase      \* "idle", "open" or "failed"

vars == <<balance, total, committed, phase>>

(***************************************************************************)
(* The operations on balances b: whether they succeed, and with what.      *)
(***************************************************************************)
Mint(b, a, n) == [ok |-> TRUE, bal |-> [b EXCEPT ![a] = @ + n]]

Burn(b, a, n) == [ok |-> b[a] >= n, bal |-> [b EXCEPT ![a] = @ - n]]

Move(b, a, c, n) ==
    [ok |-> b[a] >= n, bal |-> [[b EXCEPT ![a] = @ - n] EXCEPT ![c] = @ + n]]

Assign(b, a, n) == [ok |-> TRUE, bal |-> [b EXCEPT ![a] = n]]

(***************************************************************************)
(* The state machine.                                                      *)
(***************************************************************************)
Init ==
    /\ balance \in [Holders -> Nat]
    /\ total \in Nat
    /\ committed = <<balance, total>>
    /\ phase = "idle"

Begin == phase = "idle" /\ phase' = "open" /\ UNCHANGED <<balance, total, committed>>

Commit == /\ phase = "open" /\ phase' = "idle"
          /\ committed' = <<balance, total>>
          /\ UNCHANGED <<balance, total>>

\* The transaction is over, or can only be rolled back.
Abandon(next) == /\ phase' = next
                 /\ <<balance', total'>> = committed
                 /\ UNCHANGED committed

Rollback == phase \in {"open", "failed"} /\ Abandon("idle")

Fail == phase = "open" /\ Abandon("failed")

\* A call that succeeds changes at most one balance and the total alike, or
\* two balances in opposite ways and not the total.
Apply(o, delta) ==
    /\ phase = "open"
    /\ o.ok
    /\ balance' = o.bal
    /\ total' = total + delta
    /\ UNCHANGED <<committed, phase>>

Amount(a) == balance'[a] - balance[a]

Issue == \E a \in Holders : Amount(a) >= 0 /\ Apply(Mint(balance, a, Amount(a)), Amount(a))

Retire == \E a \in Holders : Amount(a) <= 0 /\ Apply(Burn(balance, a, -Amount(a)), Amount(a))

Pay == \E a, c \in Holders : Apply(Move(balance, a, c, Amount(c)), 0)

Next == Begin \/ Commit \/ Rollback \/ Fail \/ Issue \/ Retire \/ Pay

Spec == Init /\ [][Next]_vars
=============================================================================
