---------------------------- MODULE PreciseBank ----------------------------
(***************************************************************************)
(* x/precisebank: an extended coin with CF sub-units per integer coin, on  *)
(* top of x/bank.  An account holds whole coins in x/bank and a fraction   *)
(* below one coin in this module; the module account, the Reserve, holds   *)
(* the whole coins that back all fractions plus a remainder that is minted *)
(* in x/bank but not yet in circulation.                                   *)
(*                                                                         *)
(* A keeper method is an operator from a ledger to an outcome: the ledger  *)
(* after the writes it made and how it returned.  A method that returns an *)
(* error keeps the writes made before it, as in the code: they are undone  *)
(* only when the transaction around it is rolled back.                     *)
(***************************************************************************)
EXTENDS Integers, FiniteSets

CONSTANTS
    Addr,       \* account addresses, module accounts included
    Reserve,    \* the account of the x/precisebank module
    EvmModule,  \* the account of the x/vm module
    Modules,    \* the addresses that belong to module accounts
    Minters,    \* module accounts with the minter permission
    Burners,    \* module accounts with the burner permission
    Blocked,    \* addresses x/bank lets nobody send to
    SendEnabled, \* the x/bank parameter for the coin, checked by MsgSend only
    CF,         \* ConversionFactor: extended units per integer coin
    MaxGenesis, \* bound: integer coins of an account at genesis
    MaxSupply,  \* bound: integer coins in existence
    MaxInt,     \* bound: integer coins in one call
    MaxExt,     \* bound: extended units in one call
    MaxOps      \* bound: calls in one transaction

ASSUME ConversionFactorAssumption == CF \in Nat \ {0}

ASSUME AddrAssumption ==
    /\ IsFiniteSet(Addr)
    /\ Modules \subseteq Addr
    /\ {Reserve, EvmModule} \subseteq Modules
    /\ Reserve # EvmModule
    /\ Minters \subseteq Modules
    /\ Burners \subseteq Modules
    /\ Blocked \subseteq Addr
    /\ SendEnabled \in BOOLEAN

ASSUME BoundAssumption ==
    {MaxGenesis, MaxSupply, MaxInt, MaxExt, MaxOps} \subseteq Nat

VARIABLES
    ledger,  \* the state the running transaction sees and writes
    saved,   \* the committed state a rollback returns to
    mode,    \* "idle", "open", "failed" (an error was returned), "broken"
    ops      \* calls made in the running transaction

vars == <<ledger, saved, mode, ops>>

(***************************************************************************)
(* The ledger.  bal and supply belong to x/bank; frac and rem to           *)
(* x/precisebank.  surplus is a history variable: the whole coins that     *)
(* reached the reserve outside the accounting of fractions.                *)
(***************************************************************************)
\* Mutant: the range check of a fraction is off by one.
FractionTooSmall == 0 .. CF - 2

Fraction == 0 .. CF - 1

Ledger == [bal: [Addr -> Nat], frac: [Addr -> Fraction], rem: Fraction,
           supply: Nat, surplus: Nat]

\* The sum of f over all accounts: one cell per unit, counted.
Column(a, n) == {a} \X (0 .. n - 1)
Cells(f) == UNION {Column(a, f[a]) : a \in Addr}
SumOf(f) == Cardinality(Cells(f))

\* GetBalance of the extended denom; the reserve shows nothing.
GetBalance(s, a) == IF a = Reserve THEN 0 ELSE s.bal[a] * CF + s.frac[a]

Ok(s)  == [st |-> s, res |-> "ok"]
Err(s) == [st |-> s, res |-> "err"]
\* A panic or an error that only an inconsistent state can cause.
Bug(s) == [st |-> s, res |-> "bug"]

(***************************************************************************)
(* x/bank, as x/precisebank uses it for the integer denom.                 *)
(***************************************************************************)
Credit(f, a, n) == [f EXCEPT ![a] = @ + n]

BankSend(s, from, to, n) ==
    IF s.bal[from] < n THEN Err(s)
    ELSE Ok([s EXCEPT !.bal = Credit(Credit(s.bal, from, -n), to, n)])

BankMint(s, m, n) ==
    Ok([s EXCEPT !.bal = Credit(s.bal, m, n), !.supply = @ + n])

BankBurn(s, m, n) ==
    IF s.bal[m] < n THEN Err(s)
    ELSE Ok([s EXCEPT !.bal = Credit(s.bal, m, -n), !.supply = @ - n])

(***************************************************************************)
(* The module's own store.                                                 *)
(***************************************************************************)
SetFractionalBalance(s, a, v) ==
    IF v \in Fraction THEN Ok([s EXCEPT !.frac = [s.frac EXCEPT ![a] = v]]) ELSE Bug(s)

\* Mutant: the new remainder is computed but not stored.
RemainderNotStored(s, v) == Ok(s)

SetRemainderAmount(s, v) ==
    IF v \in Fraction THEN Ok([s EXCEPT !.rem = v]) ELSE Bug(s)

(***************************************************************************)
(* Mint.  m is the receiving module.                                       *)
(***************************************************************************)
mintExtendedCoin(s, m, amt) ==
    LET fractional == amt % CF
        carries    == s.frac[m] + fractional >= CF
        short      == s.rem < fractional
        integer    == amt \div CF + (IF carries /\ short THEN 1 ELSE 0)
        newFrac    == s.frac[m] + fractional - (IF carries THEN CF ELSE 0)
        newRem     == s.rem - fractional + (IF short THEN CF ELSE 0)
        carried    == IF carries /\ ~short THEN BankSend(s, Reserve, m, 1) ELSE Ok(s)
        minted     == BankMint(carried.st, m, integer)
        set        == SetFractionalBalance(minted.st, m, newFrac)
        backed     == IF short /\ ~carries THEN BankMint(set.st, Reserve, 1) ELSE set
    IN  IF carried.res # "ok" THEN Bug(carried.st)
        ELSE IF set.res # "ok" THEN set
        ELSE SetRemainderAmount(backed.st, newRem)

\* The integer coins of amt pass through to x/bank before the extended ones.
MintCoins(s, m, amt) ==
    IF m = Reserve \/ m \notin Minters THEN Err(s)
    ELSE LET passed == BankMint(s, m, amt.int)
         IN  IF amt.ext > 0 THEN mintExtendedCoin(passed.st, m, amt.ext) ELSE passed

(***************************************************************************)
(* Burn.  A failure of the last burn leaves the borrowed coin in the       *)
(* reserve, or the reserve one coin short.                                 *)
(***************************************************************************)
burnExtendedCoin(s, m, amt) ==
    LET fractional  == amt % CF
        borrows     == s.frac[m] < fractional
        overflows   == s.rem + fractional >= CF
        integer     == amt \div CF + (IF borrows /\ overflows THEN 1 ELSE 0)
        newFrac     == s.frac[m] - fractional + (IF borrows THEN CF ELSE 0)
        newRem      == s.rem + fractional - (IF overflows THEN CF ELSE 0)
        borrowed    == IF borrows /\ ~overflows THEN BankSend(s, m, Reserve, 1) ELSE Ok(s)
        released    == IF ~borrows /\ overflows THEN BankBurn(borrowed.st, Reserve, 1)
                       ELSE borrowed
        burned      == BankBurn(released.st, m, integer)
        set         == SetFractionalBalance(burned.st, m, newFrac)
    IN  IF borrowed.res # "ok" THEN borrowed
        ELSE IF released.res # "ok" THEN Bug(released.st)
        ELSE IF burned.res # "ok" THEN burned
        ELSE IF set.res # "ok" THEN set
        ELSE SetRemainderAmount(set.st, newRem)

BurnCoins(s, m, amt) ==
    IF m = Reserve \/ m \notin Burners THEN Err(s)
    ELSE LET passed == BankBurn(s, m, amt.int)
         IN  IF passed.res = "ok" /\ amt.ext > 0
             THEN burnExtendedCoin(passed.st, m, amt.ext) ELSE passed

(***************************************************************************)
(* Send.                                                                   *)
(***************************************************************************)
\* Whole coins that reach the reserve are not accounted as fractions.
ToReserve(o, to, n) ==
    IF o.res = "ok" /\ to = Reserve THEN [o EXCEPT !.st.surplus = @ + n] ELSE o

sendBetweenAccounts(s, from, to, amt) ==
    LET fractional == amt % CF
        borrows    == s.frac[from] < fractional
        carries    == s.frac[to] + fractional >= CF
        integer    == amt \div CF + (IF borrows /\ carries THEN 1 ELSE 0)
        fromFrac   == s.frac[from] - fractional + (IF borrows THEN CF ELSE 0)
        toFrac     == s.frac[to] + fractional - (IF carries THEN CF ELSE 0)
        sent       == BankSend(s, from, to, integer)
        borrowed   == IF borrows /\ ~carries THEN BankSend(sent.st, from, Reserve, 1)
                      ELSE sent
        carried    == IF carries /\ ~borrows THEN BankSend(borrowed.st, Reserve, to, 1)
                      ELSE borrowed
        setFrom    == SetFractionalBalance(carried.st, from, fromFrac)
    IN  IF sent.res # "ok" THEN sent
        ELSE IF borrowed.res # "ok" THEN borrowed
        ELSE IF carried.res # "ok" THEN Bug(carried.st)
        ELSE IF setFrom.res # "ok" THEN setFrom
        ELSE SetFractionalBalance(setFrom.st, to, toFrac)

\* Mutant: the payer's whole coins alone must cover the amount.
FractionIgnored(s, from, to, amt) ==
    IF s.bal[from] < (amt + CF - 1) \div CF THEN Err(s)
    ELSE IF Reserve \in {from, to} \/ from = to THEN Ok(s)
    ELSE sendBetweenAccounts(s, from, to, amt)

\* A transfer with the reserve moves whole coins only; one to self is a no-op.
sendExtendedCoins(s, from, to, amt) ==
    IF Reserve \in {from, to}
    THEN ToReserve(BankSend(s, from, to, amt \div CF), to, amt \div CF)
    ELSE IF from = to THEN Ok(s)
    ELSE sendBetweenAccounts(s, from, to, amt)

SendCoins(s, from, to, amt) ==
    LET passed == ToReserve(BankSend(s, from, to, amt.int), to, amt.int)
    IN  IF passed.res = "ok" /\ amt.ext > 0
        THEN sendExtendedCoins(passed.st, from, to, amt.ext) ELSE passed

SendCoinsFromAccountToModule(s, from, m, amt) ==
    IF m = Reserve THEN Err(s) ELSE SendCoins(s, from, m, amt)

SendCoinsFromModuleToAccount(s, m, to, amt) ==
    IF m = Reserve \/ to \in Blocked THEN Err(s) ELSE SendCoins(s, m, to, amt)

\* Only the recipient is refused: the reserve as sender passes this method.
SendCoinsFromModuleToModule(s, m, n, amt) ==
    IF n = Reserve THEN Err(s) ELSE SendCoins(s, m, n, amt)

\* The handler of MsgSend.
Send(s, from, to, amt) ==
    IF amt.int + amt.ext = 0 \/ ~SendEnabled \/ to \in Blocked THEN Err(s)
    ELSE SendCoins(s, from, to, amt)

(***************************************************************************)
(* x/vm on top of it: Commit of the EVM state writes a balance by minting  *)
(* or burning the difference through the x/vm module account.              *)
(***************************************************************************)
Extended(n) == [int |-> 0, ext |-> n]

\* Mutant: only the whole coins of what was minted reach the account.
MintedFractionKept(s, a, n) ==
    LET minted == MintCoins(s, EvmModule, Extended(n))
    IN  IF minted.res = "ok"
        THEN SendCoinsFromModuleToAccount(minted.st, EvmModule, a, Extended(n - (n % CF)))
        ELSE minted

MintAmountToAccount(s, a, n) ==
    LET minted == MintCoins(s, EvmModule, Extended(n))
    IN  IF minted.res = "ok"
        THEN SendCoinsFromModuleToAccount(minted.st, EvmModule, a, Extended(n))
        ELSE minted

BurnAmountFromAccount(s, a, n) ==
    LET taken == SendCoinsFromAccountToModule(s, a, EvmModule, Extended(n))
    IN  IF taken.res = "ok" THEN BurnCoins(taken.st, EvmModule, Extended(n)) ELSE taken

SetBalance(s, a, amount) ==
    LET delta == amount - GetBalance(s, a)
    IN  IF delta > 0 THEN MintAmountToAccount(s, a, delta)
        ELSE IF delta < 0 THEN BurnAmountFromAccount(s, a, -delta)
        ELSE Ok(s)

(***************************************************************************)
(* Genesis.  The fractions and the remainder add up to whole coins and the *)
(* reserve holds exactly those; only the empty genesis state is let        *)
(* through, with a warning, over a reserve that holds something.           *)
(***************************************************************************)
\* Mutant: the reserve is not compared with the fractions.
ReserveNotChecked(bal, frac, rem) ==
    ledger = [bal |-> bal, frac |-> frac, rem |-> rem, supply |-> SumOf(bal),
              surplus |-> bal[Reserve] - (SumOf(frac) + rem) \div CF]

InitGenesis(bal, frac, rem) ==
    LET total == SumOf(frac) + rem
    IN  /\ total % CF = 0
        /\ \/ total = bal[Reserve] * CF
           \/ rem = 0 /\ \A a \in Addr : frac[a] = 0
        /\ ledger = [bal |-> bal, frac |-> frac, rem |-> rem,
                     supply |-> SumOf(bal),
                     surplus |-> bal[Reserve] - total \div CF]

Init ==
    /\ \E bal \in [Addr -> 0 .. MaxGenesis], frac \in [Addr -> Fraction], rem \in Fraction :
           InitGenesis(bal, frac, rem)
    /\ saved = ledger
    /\ mode = "idle"
    /\ ops = 0

(***************************************************************************)
(* Transactions: calls on a cached state, committed as a whole or, after   *)
(* an error or on the caller's decision, dropped as a whole.               *)
(***************************************************************************)
Coins == [int: 0 .. MaxInt, ext: 0 .. MaxExt]

\* An account other than the reserve: nobody signs or acts for the reserve.
Sender == Addr \ {Reserve}

BeginTx ==
    /\ mode = "idle"
    /\ mode' = "open"
    /\ ops' = 0
    /\ UNCHANGED <<ledger, saved>>

CommitTx ==
    /\ mode = "open"
    /\ mode' = "idle"
    /\ saved' = ledger
    /\ ops' = 0
    /\ UNCHANGED ledger

RollbackTx ==
    /\ mode \in {"open", "failed"}
    /\ mode' = "idle"
    /\ ledger' = saved
    /\ ops' = 0
    /\ UNCHANGED saved

\* One keeper call with outcome o.
Call(o) ==
    /\ mode = "open"
    /\ ops < MaxOps
    /\ o.st.supply <= MaxSupply
    /\ ledger' = o.st
    /\ mode' = [ok |-> "open", err |-> "failed", bug |-> "broken"][o.res]
    /\ ops' = ops + 1
    /\ UNCHANGED saved

Mint == \E m \in Modules, amt \in Coins : Call(MintCoins(ledger, m, amt))
Burn == \E m \in Modules, amt \in Coins : Call(BurnCoins(ledger, m, amt))
Transfer ==
    \E from \in Sender, to \in Addr, amt \in Coins : Call(SendCoins(ledger, from, to, amt))
AccountToModule ==
    \E from \in Sender, m \in Modules, amt \in Coins :
        Call(SendCoinsFromAccountToModule(ledger, from, m, amt))
ModuleToAccount ==
    \E m \in Modules, to \in Addr, amt \in Coins :
        Call(SendCoinsFromModuleToAccount(ledger, m, to, amt))
ModuleToModule ==
    \E m \in Modules \ {Reserve}, n \in Modules, amt \in Coins :
        Call(SendCoinsFromModuleToModule(ledger, m, n, amt))
MsgSend ==
    \E from \in Sender, to \in Addr, amt \in Coins : Call(Send(ledger, from, to, amt))
WriteBalance ==
    \E a \in Addr, amount \in 0 .. MaxExt : Call(SetBalance(ledger, a, amount))

Next ==
    \/ BeginTx \/ CommitTx \/ RollbackTx
    \/ Mint \/ Burn
    \/ Transfer \/ AccountToModule \/ ModuleToAccount \/ ModuleToModule \/ MsgSend
    \/ WriteBalance

Spec == Init /\ [][Next]_vars

(***************************************************************************)
(* Properties.                                                             *)
(***************************************************************************)
\* Type correctness of the committed and the running state: fractions and the
\* remainder stay below one coin, x/bank balances never go negative.
TypeOK ==
    /\ ledger \in Ledger
    /\ saved \in Ledger
    /\ mode \in {"idle", "open", "failed", "broken"}
    /\ ops \in 0 .. MaxOps

Backed(s) == SumOf(s.frac) + s.rem + s.surplus * CF = s.bal[Reserve] * CF

\* The reserve backs every fraction and the remainder exactly, in every
\* committed state and, unless a call has just failed half-way, in every state
\* between two calls: mint, burn and send keep the reserve in step with the
\* fractions through every combination of carry, borrow and remainder overflow.
ReserveBacked == Backed(saved) /\ (mode \in {"idle", "open"} => Backed(ledger))

\* The checks that only an inconsistent state can fail never fail: the reserve
\* always has the coin to carry (the panic in sendExtendedCoins, the errors of
\* reserve transfers and burns) and no stored amount is out of range (the
\* panics of SetFractionalBalance and SetRemainderAmount).
NeverBroken == mode # "broken"

(***************************************************************************)
(* The bank the callers see.                                               *)
(***************************************************************************)
Holders == Addr \ {Reserve}
Balances(s) == [a \in Holders |-> GetBalance(s, a)]

\* The supply of the extended coin: what x/bank has minted, less the remainder
\* and the coins the reserve holds for nobody.
ExtendedSupply(s) == (s.supply - s.surplus) * CF - s.rem

Visible == IF mode = "failed" THEN saved ELSE ledger

Abstract == INSTANCE ExtendedBank WITH
    balance   <- Balances(Visible),
    total     <- ExtendedSupply(Visible),
    committed <- <<Balances(saved), ExtendedSupply(saved)>>,
    phase     <- mode

\* Every step is a step of the plain bank with full precision: it changes one
\* balance and the supply alike, or moves an amount between two accounts and
\* leaves the supply alone, and a failed call is undone with its transaction.
ImplementsExtendedBank == Abstract!Spec

Value(amt) == amt.int * CF + amt.ext

Agrees(o, abstract) ==
    /\ (o.res = "ok") = abstract.ok
    /\ o.res = "ok" => Balances(o.st) = abstract.bal

\* Whatever the fractions, a burn or a transfer succeeds exactly when the full
\* balance of the payer covers the amount, and then mint, burn, transfer and
\* SetBalance change the extended balances by exactly what was asked for,
\* though each moves whole coins and fractions along different paths.  (Asked where
\* a transaction starts: every ledger reached can be committed.)
CallsExact ==
    mode = "open" /\ ops = 0 =>
        \A a \in Holders, amt \in Coins :
            /\ a \in Minters =>
                 Agrees(MintCoins(ledger, a, amt), Abstract!Mint(Balances(ledger), a, Value(amt)))
            /\ a \in Burners =>
                 Agrees(BurnCoins(ledger, a, amt), Abstract!Burn(Balances(ledger), a, Value(amt)))
            /\ \A b \in Holders \ {a} :
                 Agrees(SendCoins(ledger, a, b, amt),
                        Abstract!Move(Balances(ledger), a, b, Value(amt)))
            /\ a \notin Blocked /\ EvmModule \in Minters \cap Burners =>
                 Agrees(SetBalance(ledger, a, amt.ext),
                        Abstract!Assign(Balances(ledger), a, amt.ext))

============================================================================
