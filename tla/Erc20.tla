------------------------------- MODULE Erc20 -------------------------------
(***************************************************************************)
(* x/erc20: token pairs between bank coins and ERC20 contracts, their      *)
(* conversion in both directions, the ERC20 precompiles of IBC vouchers    *)
(* with their allowances, and the two IBC hooks: MsgTransfer, which        *)
(* converts before it sends, and the ICS20 middleware, which converts on   *)
(* receipt and on refund.                                                  *)
(*                                                                         *)
(* A message that returns an error changes nothing and is no step here.    *)
(* The exceptions are the callbacks that swallow an error and so keep what *)
(* was written before it: that is why a conversion is an operator that     *)
(* returns its partial writes.  Fees, gas, events and telemetry are left   *)
(* out, but for the Approval event.                                        *)
(***************************************************************************)
EXTENDS Integers, FiniteSets, FiniteSetsExt

CONSTANTS
    Accounts,    \* accounts of users
    ModuleAccts, \* those among them that are module accounts, not blocked
    Contracts,   \* ERC20 contracts deployed by users
    Vouchers,    \* IBC vouchers, named by the address derived from the denom
    Factory,     \* the vouchers of token factory denoms
    Module,      \* the x/erc20 module account, a blocked address
    Escrow,      \* the escrow account of the transfer channel
    None,
    Behaviours,  \* what a call of transfer on a contract may do
    Ops,         \* the operations exercised
    Versions,    \* the IBC middlewares in use: subset of {1, 2}
    Supply,      \* the tokens a contract gives each account when it is deployed
    MaxAmount,   \* bound: amount of an operation
    MaxPackets   \* bound: packets in flight

ASSUME ParameterAssumption ==
    /\ IsFiniteSet(Accounts) /\ IsFiniteSet(Contracts) /\ IsFiniteSet(Vouchers)
    /\ ModuleAccts \subseteq Accounts /\ Factory \subseteq Vouchers
    /\ Contracts \cap Vouchers = {}
    /\ Module \notin Accounts /\ Escrow \notin Accounts /\ Module # Escrow
    /\ Behaviours \subseteq {"moves", "keepsFee", "takesMore", "silent", "fails"}
    /\ Supply \in [Accounts -> Nat]
    /\ Versions \subseteq {1, 2}
    /\ MaxAmount \in Nat \ {0} /\ MaxPackets \in Nat

VARIABLES
    params,    \* [enabled, permissionless]
    reg,       \* the module's store: pairs, the two indexes, precompiles, allowances
    metadata,  \* denoms with bank metadata
    coins,     \* bank balances
    tokens,    \* balances kept by the contracts
    status,    \* of a contract: "live", "destroyed" or "redeployed"
    noSend,    \* denoms x/bank has disabled sending of
    packets,   \* packets sent and neither acknowledged nor timed out
    remote,    \* what the other chain holds of each denom
    granted,   \* history: the last approved value
    pulled,    \* history: what was transferred under it
    skimmed    \* history: what a contract took of the module's tokens on top of
               \* what it was asked to transfer

vars == <<params, reg, metadata, coins, tokens, status, noSend,
          packets, remote, granted, pulled, skimmed>>

outside == <<status, noSend>>
ibc     == <<packets, remote>>
grants  == <<granted, pulled>>
history == <<grants, skimmed>>

Amounts == 1 .. MaxAmount

(***************************************************************************)
(* Names.  A contract and a voucher have an address; a denom is made from  *)
(* either.                                                                 *)
(***************************************************************************)
Addresses == Contracts \cup Vouchers
CreateDenom(c) == <<"erc20", c>>
IBCDenom(v) == <<"ibc", v>>
NativeDenoms == {CreateDenom(c) : c \in Contracts}
VoucherDenoms == {IBCDenom(v) : v \in Vouchers}
Denoms == NativeDenoms \cup VoucherDenoms
Holders == Accounts \cup {Module, Escrow}
Ids == Addresses \X Denoms
Grants == Vouchers \X Accounts \X Accounts

TokenPair == [erc20: Addresses, denom: Denoms, enabled: BOOLEAN, owner: {"module", "external"}]
GetID(pair) == <<pair.erc20, pair.denom>>

\* Nothing found is neither an id nor a pair, and no denom is written like an address.
ASSUME NamesAssumption ==
    /\ None \notin Ids /\ None \notin TokenPair
    /\ Addresses \cap Denoms = {}

IsNativeERC20(pair) == pair.owner = "external"

NewTokenPair(c) == [erc20 |-> c, denom |-> CreateDenom(c), enabled |-> TRUE, owner |-> "external"]
NewTokenPairSTRv2(v) == [erc20 |-> v, denom |-> IBCDenom(v), enabled |-> TRUE, owner |-> "module"]

(***************************************************************************)
(* The store of the module.                                                *)
(***************************************************************************)
EmptyStore == [pairs |-> [id \in Ids |-> None],
               denomMap |-> [d \in Denoms |-> None],
               erc20Map |-> [a \in Addresses |-> None],
               dynamic |-> {},
               allowances |-> [g \in Grants |-> 0]]

GetTokenPairID(token) ==
    IF token \in Addresses THEN reg.erc20Map[token] ELSE reg.denomMap[token]

GetTokenPair(r, id) == IF id = None THEN None ELSE r.pairs[id]

PairOf(token) == GetTokenPair(reg, GetTokenPairID(token))

SetToken(r, pair) ==
    IF r.denomMap[pair.denom] # None \/ r.erc20Map[pair.erc20] # None
    THEN [ok |-> FALSE, r |-> r]
    ELSE [ok |-> TRUE,
          r |-> [r EXCEPT !.pairs[GetID(pair)] = pair,
                          !.denomMap[pair.denom] = GetID(pair),
                          !.erc20Map[pair.erc20] = GetID(pair)]]

deleteAllowances(r, address) ==
    [g \in Grants |-> IF g[1] = address THEN 0 ELSE r.allowances[g]]

\* Mutant of DeleteTokenPair: the denom index is left behind.
DenomMapKept(r, pair) ==
    [r EXCEPT !.pairs[GetID(pair)] = None,
              !.erc20Map[pair.erc20] = None,
              !.allowances = deleteAllowances(r, pair.erc20)]

DeleteTokenPair(r, pair) ==
    [r EXCEPT !.pairs[GetID(pair)] = None,
              !.erc20Map[pair.erc20] = None,
              !.denomMap[pair.denom] = None,
              !.allowances = deleteAllowances(r, pair.erc20)]

setAllowance(r, g, value, allowDisabledTokenPair) ==
    LET pair == GetTokenPair(r, r.erc20Map[g[1]])
    IN  IF pair = None THEN [ok |-> FALSE, r |-> r]
        ELSE IF (~ allowDisabledTokenPair /\ ~ pair.enabled) \/ value < 0 THEN [ok |-> FALSE, r |-> r]
        ELSE [ok |-> TRUE, r |-> [r EXCEPT !.allowances[g] = value]]

SetAllowance(r, g, value) == setAllowance(r, g, value, FALSE)

\* Mutant of UnsafeSetAllowance: a disabled pair is refused.
EnabledPairsOnly(r, g, value) == setAllowance(r, g, value, FALSE)

UnsafeSetAllowance(r, g, value) == setAllowance(r, g, value, TRUE)

(***************************************************************************)
(* Export and import of the module's genesis.  InitGenesis stops, and      *)
(* reports nothing, at a pair it cannot store.                             *)
(***************************************************************************)
EnableDynamicPrecompile(r, address) == [r EXCEPT !.dynamic = @ \cup {address}]

GetTokenPairs(r) == {r.pairs[id] : id \in Ids} \ {None}

GetAllowances(r) == {g \in Grants : r.allowances[g] # 0}

InitGenesis(r) ==
    LET Store(pair, acc) == IF acc.ok THEN SetToken(acc.r, pair) ELSE acc
        Allow(g, acc) == IF acc.ok THEN UnsafeSetAllowance(acc.r, g, r.allowances[g]) ELSE acc
        stored == FoldSet(Store, [ok |-> TRUE, r |-> EmptyStore], GetTokenPairs(r))
        Enable(a, acc) == [acc EXCEPT !.r = EnableDynamicPrecompile(acc.r, a)]
        active == FoldSet(Enable, stored, IF stored.ok THEN r.dynamic ELSE {})
    IN  FoldSet(Allow, active, GetAllowances(r))

\* What the command that checks a genesis file asks of it, and InitGenesis does not.
Validate(r) ==
    /\ \A p, q \in GetTokenPairs(r) : p # q => p.erc20 # q.erc20 /\ p.denom # q.denom
    /\ \A a \in r.dynamic : \E p \in GetTokenPairs(r) : p.erc20 = a /\ p.enabled
    /\ \A g \in GetAllowances(r) : \E p \in GetTokenPairs(r) : p.erc20 = g[1]

(***************************************************************************)
(* Balances.                                                               *)
(***************************************************************************)
Move(bal, from, to, n) ==
    LET debited == [bal EXCEPT ![from] = @ - n]
    IN  [debited EXCEPT ![to] = @ + n]

\* A call of transfer: ok if it did not fail and returned true (or nothing,
\* with a Transfer event).  A contract may keep a fee of what it moves or take
\* one on top of it.
Transfer(bal, from, to, n, how) ==
    CASE how = "moves" /\ bal[from] >= n ->
            [ok |-> TRUE, bal |-> Move(bal, from, to, n)]
      [] how = "keepsFee" /\ bal[from] >= n ->
            [ok |-> TRUE, bal |-> [Move(bal, from, to, n) EXCEPT ![to] = @ - 1]]
      [] how = "takesMore" /\ bal[from] >= n + 1 ->
            [ok |-> TRUE, bal |-> [Move(bal, from, to, n) EXCEPT ![from] = @ - 1]]
      [] how = "silent" -> [ok |-> TRUE, bal |-> bal]
      [] OTHER -> [ok |-> FALSE, bal |-> bal]

\* What the contracts have taken on top, after transfers out of the module's
\* tokens that left the balances ts.
Skimmed(ts, how) ==
    [c \in Contracts |->
        skimmed[c] + IF how = "takesMore" /\ ts[c] # tokens[c] THEN 1 ELSE 0]

(***************************************************************************)
(* The checks before a conversion: the pair, or None.                      *)
(***************************************************************************)
MintingEnabled(sender, receiver, token) ==
    LET pair == PairOf(token)
    IN  IF /\ params.enabled
           /\ pair # None
           /\ pair.enabled
           /\ receiver # Module
           /\ sender = receiver \/ pair.denom \notin noSend
        THEN pair ELSE None

(***************************************************************************)
(* Conversions.  A contract without code has no balance to read.           *)
(***************************************************************************)
IsContract(c) == status[c] # "destroyed"

BalanceOf(c, h) == IF IsContract(c) THEN tokens[c][h] ELSE None

\* Mutant of EscrowGrew: the returned value is believed.
ReturnTrusted(before, after, n) == TRUE

EscrowGrew(before, after, n) == after[Module] = before[Module] + n

convertERC20IntoCoinsForNativeToken(pair, n, receiver, sender, how) ==
    LET c    == pair.erc20
        call == Transfer(tokens[c], sender, Module, n, how)
    IN  [ok |-> BalanceOf(c, Module) # None /\ call.ok /\ EscrowGrew(tokens[c], call.bal, n),
         coins |-> [coins EXCEPT ![pair.denom][receiver] = @ + n],
         tokens |-> [tokens EXCEPT ![c] = call.bal]]

ConvertCoinNativeERC20(cs, pair, n, receiver, sender, how) ==
    LET c        == pair.erc20
        escrowed == [cs EXCEPT ![pair.denom] = Move(@, sender, Module, n)]
        call     == Transfer(tokens[c], Module, receiver, n, how)
        called   == [tokens EXCEPT ![c] = call.bal]
    IN  IF BalanceOf(c, receiver) = None \/ cs[pair.denom][sender] < n
        THEN [ok |-> FALSE, coins |-> cs, tokens |-> tokens]
        ELSE IF ~ call.ok \/ call.bal[receiver] # BalanceOf(c, receiver) + n
        THEN [ok |-> FALSE, coins |-> escrowed, tokens |-> called]
        ELSE [ok |-> TRUE,
              coins |-> [escrowed EXCEPT ![pair.denom][Module] = @ - n],
              tokens |-> called]

(***************************************************************************)
(* Messages.                                                               *)
(***************************************************************************)
\* A pair of a contract without code is deleted, and the message succeeds.
DeleteDestroyed(pair) ==
    /\ ~ IsContract(pair.erc20)
    /\ reg' = DeleteTokenPair(reg, pair)
    /\ UNCHANGED <<params, metadata, coins, tokens, outside, ibc, history>>

ConvertERC20(sender, receiver, address, n, how) ==
    LET pair == MintingEnabled(sender, receiver, address)
        done == convertERC20IntoCoinsForNativeToken(pair, n, receiver, sender, how)
    IN  /\ "convert" \in Ops
        /\ pair # None
        /\ IsNativeERC20(pair)
        /\ \/ DeleteDestroyed(pair)
           \/ /\ IsContract(pair.erc20)
              /\ done.ok
              /\ coins' = done.coins /\ tokens' = done.tokens
              /\ UNCHANGED <<params, reg, metadata, outside, ibc, history>>

ConvertCoin(sender, receiver, token, n, how) ==
    LET pair == MintingEnabled(sender, receiver, token)
        done == ConvertCoinNativeERC20(coins, pair, n, receiver, sender, how)
    IN  /\ "convert" \in Ops
        /\ pair # None
        /\ IsNativeERC20(pair)
        /\ \/ DeleteDestroyed(pair)
           \/ /\ IsContract(pair.erc20)
              /\ done.ok
              /\ coins' = done.coins /\ tokens' = done.tokens
              /\ skimmed' = Skimmed(done.tokens, how)
              /\ UNCHANGED <<params, reg, metadata, outside, ibc, grants>>

\* Name, symbol and decimals of the contract can be read.
QueryERC20(c) == IsContract(c)

\* Mutant of CreateCoinMetadata: metadata of an earlier registration is no obstacle.
MetadataOverwritten(c) == QueryERC20(c) /\ reg.denomMap[CreateDenom(c)] = None

CreateCoinMetadata(c) ==
    /\ QueryERC20(c)
    /\ CreateDenom(c) \notin metadata
    /\ reg.denomMap[CreateDenom(c)] = None

registerERC20(c) ==
    LET set == SetToken(reg, NewTokenPair(c))
    IN  /\ reg.erc20Map[c] = None
        /\ CreateCoinMetadata(c)
        /\ set.ok
        /\ reg' = set.r
        /\ metadata' = metadata \cup {CreateDenom(c)}

validateAuthority(signer) == signer = "authority"

RegisterERC20(signer, c) ==
    /\ "register" \in Ops
    /\ params.permissionless \/ validateAuthority(signer)
    /\ params.enabled
    /\ registerERC20(c)
    /\ UNCHANGED <<params, coins, tokens, outside, ibc, history>>

toggleConversion(token) ==
    /\ PairOf(token) # None
    /\ reg' = [reg EXCEPT !.pairs[GetID(PairOf(token))].enabled = ~ @]

ToggleConversion(signer, token) ==
    /\ "toggle" \in Ops
    /\ params.enabled
    /\ validateAuthority(signer)
    /\ toggleConversion(token)
    /\ UNCHANGED <<params, metadata, coins, tokens, outside, ibc, history>>

SetParams(enabled, permissionless) ==
    params' = [enabled |-> enabled, permissionless |-> permissionless]

UpdateParams(signer, enabled, permissionless) ==
    /\ "params" \in Ops
    /\ validateAuthority(signer)
    /\ SetParams(enabled, permissionless)
    /\ UNCHANGED <<reg, metadata, coins, tokens, outside, ibc, history>>

(***************************************************************************)
(* The ERC20 precompile of a voucher: a view of the bank, with allowances  *)
(* kept by the module.                                                     *)
(***************************************************************************)
GetERC20PrecompileInstance(v) == v \in reg.dynamic /\ PairOf(v) # None

Approve(v, owner, spender, n) ==
    LET g   == <<v, owner, spender>>
        set == IF reg.allowances[g] = 0 /\ n = 0 THEN [ok |-> TRUE, r |-> reg]
               ELSE SetAllowance(reg, g, n)
    IN  /\ "allowance" \in Ops
        /\ GetERC20PrecompileInstance(v)
        /\ set.ok
        /\ reg' = set.r
        /\ granted' = [granted EXCEPT ![g] = n]
        /\ pulled' = [pulled EXCEPT ![g] = 0]
        /\ UNCHANGED <<params, metadata, coins, tokens, outside, ibc, skimmed>>

PrecompileTransfer(v, from, to, n) ==
    /\ "allowance" \in Ops
    /\ GetERC20PrecompileInstance(v)
    /\ IBCDenom(v) \notin noSend
    /\ coins[IBCDenom(v)][from] >= n
    /\ coins' = [coins EXCEPT ![IBCDenom(v)] = Move(@, from, to, n)]
    /\ UNCHANGED <<params, reg, metadata, tokens, outside, ibc, history>>

\* Mutant of SpendAllowance: an allowance used up is not deleted.
ZeroNotStored(r, g, n) ==
    IF r.allowances[g] = n THEN [ok |-> TRUE, r |-> r]
    ELSE SetAllowance(r, g, r.allowances[g] - n)

\* The allowance left; 0 deletes it.
SpendAllowance(r, g, n) == SetAllowance(r, g, r.allowances[g] - n)

TransferFrom(v, spender, from, to, n) ==
    LET g   == <<v, from, spender>>
        set == SpendAllowance(reg, g, n)
    IN  /\ "allowance" \in Ops
        /\ GetERC20PrecompileInstance(v)
        /\ reg.allowances[g] >= n
        /\ set.ok
        /\ IBCDenom(v) \notin noSend
        /\ coins[IBCDenom(v)][from] >= n
        /\ reg' = set.r
        /\ coins' = [coins EXCEPT ![IBCDenom(v)] = Move(@, from, to, n)]
        /\ pulled' = [pulled EXCEPT ![g] = @ + n]
        /\ UNCHANGED <<params, metadata, tokens, outside, ibc, granted, skimmed>>

(***************************************************************************)
(* Sending by IBC: MsgTransfer converts what the sender lacks in coins.    *)
(***************************************************************************)
\* ICS20: a coin of this chain is escrowed, a voucher is burnt.
Sent(cs, d, from, n) ==
    IF d \in NativeDenoms THEN [cs EXCEPT ![d] = Move(@, from, Escrow, n)]
    ELSE [cs EXCEPT ![d][from] = @ - n]

\* ICS20: the coins come back from the escrow, or are minted.
Arrived(cs, d, to, n) ==
    IF d \in NativeDenoms THEN [cs EXCEPT ![d] = Move(@, Escrow, to, n)]
    ELSE [cs EXCEPT ![d][to] = @ + n]

SentPacket(d, n, sender, cs) ==
    /\ d \notin noSend
    /\ cs[d][sender] >= n
    /\ Cardinality(packets) < MaxPackets
    /\ LET seq == Min((1 .. MaxPackets) \ {p.seq : p \in packets})
       IN  packets' = packets \cup {[seq |-> seq, denom |-> d, amount |-> n,
                                     sender |-> sender, state |-> "sent"]}
    /\ coins' = Sent(cs, d, sender, n)

TransferMsg(sender, d, n, how) ==
    LET pair    == PairOf(IF d \in NativeDenoms THEN d[2] ELSE d)
        convert == /\ pair # None
                   /\ pair.enabled
                   /\ params.enabled
                   /\ IsNativeERC20(pair)
                   /\ coins[d][sender] < n
        done    == convertERC20IntoCoinsForNativeToken(pair, n - coins[d][sender], sender, sender, how)
    IN  /\ "ibc" \in Ops
        /\ \/ ~ convert /\ SentPacket(d, n, sender, coins) /\ UNCHANGED tokens
           \/ /\ convert
              /\ MintingEnabled(sender, sender, d[2]) # None
              /\ done.ok
              /\ SentPacket(d, n, sender, done.coins)
              /\ tokens' = done.tokens
        /\ UNCHANGED <<params, reg, metadata, outside, remote, history>>

(***************************************************************************)
(* The other chain takes or refuses a packet.                              *)
(***************************************************************************)
RemoteTakes(p, result) ==
    /\ p.state = "sent"
    /\ packets' = (packets \ {p}) \cup {[p EXCEPT !.state = result]}
    /\ remote' = IF result = "received" THEN [remote EXCEPT ![p.denom] = @ + p.amount] ELSE remote
    /\ UNCHANGED <<params, reg, metadata, coins, tokens, outside, history>>

(***************************************************************************)
(* Refunds: ICS20 gives the coins back, then the middleware converts them. *)
(* An error of the conversion is dropped, what it wrote is not.            *)
(***************************************************************************)
\* A voucher's packet has the full path of the denom, which no index has.
ConvertCoinToERC20FromPacket(cs, p, how) ==
    LET pair == IF p.denom \in NativeDenoms THEN PairOf(p.denom) ELSE None
    IN  IF \/ pair = None
           \/ ~ IsNativeERC20(pair)
           \/ ~ params.enabled
           \/ p.sender \in ModuleAccts
        THEN [coins |-> cs, tokens |-> tokens]
        ELSE ConvertCoinNativeERC20(cs, pair, p.amount, p.sender, p.sender, how)

Refund(p, how) ==
    LET done == ConvertCoinToERC20FromPacket(Arrived(coins, p.denom, p.sender, p.amount), p, how)
    IN  /\ packets' = packets \ {p}
        /\ coins' = done.coins /\ tokens' = done.tokens
        /\ skimmed' = Skimmed(done.tokens, how)
        /\ UNCHANGED <<params, reg, metadata, outside, remote, grants>>

\* Mutant of OnAcknowledgementPacket: an error is taken for a success.
ErrorIgnored(p, how) ==
    /\ p.state # "sent"
    /\ packets' = packets \ {p}
    /\ UNCHANGED <<params, reg, metadata, coins, tokens, outside, remote, history>>

OnAcknowledgementPacket(p, how) ==
    \/ p.state = "rejected" /\ Refund(p, how)
    \/ /\ p.state = "received"
       /\ packets' = packets \ {p}
       /\ UNCHANGED <<params, reg, metadata, coins, tokens, outside, remote, history>>

OnTimeoutPacket(p, how) == p.state = "sent" /\ Refund(p, how)

(***************************************************************************)
(* Receipt: ICS20 credits the coins, then the keeper converts them or      *)
(* registers the precompile of a new voucher.  The result has ok FALSE     *)
(* for an error acknowledgement.                                           *)
(***************************************************************************)
\* The address must have no code, and a precompile's has.
CreateNewTokenPair(v) ==
    IF v \in reg.dynamic THEN [ok |-> FALSE, r |-> reg] ELSE SetToken(reg, NewTokenPairSTRv2(v))

RegisterERC20Extension(v) ==
    LET set == CreateNewTokenPair(v)
    IN  IF set.ok THEN [set EXCEPT !.r = EnableDynamicPrecompile(set.r, v)] ELSE set

OnRecv(cs, d, sender, receiver, n, how) ==
    LET pair  == PairOf(d)
        asIs  == [ok |-> TRUE, r |-> reg, coins |-> cs, tokens |-> tokens]
        error == [asIs EXCEPT !.ok = FALSE]
    IN  CASE \/ ~ params.enabled
             \/ receiver \in ModuleAccts
             \/ d \in VoucherDenoms /\ d[2] \in Factory -> asIs
          [] OTHER ->
             IF pair = None
             THEN IF d \in VoucherDenoms
                  THEN LET ext == RegisterERC20Extension(d[2])
                       IN  [asIs EXCEPT !.ok = ext.ok, !.r = ext.r]
                  ELSE asIs
             ELSE IF ~ IsNativeERC20(pair) \/ ~ pair.enabled THEN asIs
             ELSE IF MintingEnabled(sender, receiver, d) = None THEN error
             ELSE LET done == ConvertCoinNativeERC20(cs, pair, n, receiver, receiver, how)
                  IN  [ok |-> done.ok, r |-> reg, coins |-> done.coins, tokens |-> done.tokens]

Received(got, d, n, how) ==
    /\ reg' = got.r /\ coins' = got.coins /\ tokens' = got.tokens
    /\ skimmed' = Skimmed(got.tokens, how)
    /\ remote' = [remote EXCEPT ![d] = @ - n]
    /\ UNCHANGED <<params, metadata, outside, packets, grants>>

\* Mutant of OnRecvPacket: the keeper's acknowledgement is not returned.
AckIgnored(d, sender, receiver, n, how) ==
    /\ "ibc" \in Ops /\ 1 \in Versions
    /\ remote[d] >= n
    /\ Received(OnRecv(Arrived(coins, d, receiver, n), d, sender, receiver, n, how), d, n, how)

\* The keeper's acknowledgement is returned, and IBC drops the writes of an error.
OnRecvPacket(d, sender, receiver, n, how) ==
    LET got == OnRecv(Arrived(coins, d, receiver, n), d, sender, receiver, n, how)
    IN  /\ "ibc" \in Ops /\ 1 \in Versions
        /\ remote[d] >= n
        /\ got.ok
        /\ Received(got, d, n, how)

\* In the middleware for IBC v2 the keeper's acknowledgement is dropped and the
\* result of ICS20 is returned.
OnRecvPacketV2(d, sender, receiver, n, how) ==
    /\ "ibc" \in Ops /\ 2 \in Versions
    /\ remote[d] >= n
    /\ Received(OnRecv(Arrived(coins, d, receiver, n), d, sender, receiver, n, how), d, n, how)

(***************************************************************************)
(* What happens outside the module: x/bank, the contracts.                 *)
(***************************************************************************)
SetSendEnabled(d) ==
    /\ "send" \in Ops
    /\ noSend' = IF d \in noSend THEN noSend \ {d} ELSE noSend \cup {d}
    /\ UNCHANGED <<params, reg, metadata, coins, tokens, status, ibc, history>>

SendCoin(d, from, to, n) ==
    /\ "send" \in Ops
    /\ d \notin noSend
    /\ coins[d][from] >= n
    /\ coins' = [coins EXCEPT ![d] = Move(@, from, to, n)]
    /\ UNCHANGED <<params, reg, metadata, tokens, outside, ibc, history>>

\* Anyone may send tokens to the module's address.
SendToken(c, from, to, n) ==
    /\ "send" \in Ops
    /\ IsContract(c)
    /\ tokens[c][from] >= n
    /\ tokens' = [tokens EXCEPT ![c] = Move(@, from, to, n)]
    /\ UNCHANGED <<params, reg, metadata, coins, outside, ibc, history>>

NewSupply == [h \in Holders |-> IF h \in Accounts THEN Supply[h] ELSE 0]

SelfDestruct(c) ==
    /\ "destroy" \in Ops
    /\ status[c] = "live"
    /\ status' = [status EXCEPT ![c] = "destroyed"]
    /\ tokens' = [tokens EXCEPT ![c] = [h \in Holders |-> 0]]
    /\ UNCHANGED <<params, reg, metadata, coins, noSend, ibc, history>>

\* CREATE2 gives the same address again.
Redeploy(c) ==
    /\ "destroy" \in Ops
    /\ status[c] = "destroyed"
    /\ status' = [status EXCEPT ![c] = "redeployed"]
    /\ tokens' = [tokens EXCEPT ![c] = NewSupply]
    /\ UNCHANGED <<params, reg, metadata, coins, noSend, ibc, history>>

(***************************************************************************)
(* The specification.  The chain starts with no pair; the other chain has  *)
(* MaxAmount of every voucher's coin.                                      *)
(***************************************************************************)
Init ==
    /\ params = [enabled |-> TRUE, permissionless |-> TRUE]
    /\ reg = EmptyStore
    /\ metadata = {}
    /\ coins = [d \in Denoms |-> [h \in Holders |-> 0]]
    /\ tokens = [c \in Contracts |-> NewSupply]
    /\ status = [c \in Contracts |-> "live"]
    /\ noSend = {}
    /\ packets = {}
    /\ remote = [d \in Denoms |-> IF d \in VoucherDenoms THEN MaxAmount ELSE 0]
    /\ granted = [g \in Grants |-> 0]
    /\ pulled = [g \in Grants |-> 0]
    /\ skimmed = [c \in Contracts |-> 0]

Convert ==
    \E a, b \in Accounts, n \in Amounts, how \in Behaviours :
        \/ \E t \in Addresses : ConvertERC20(a, b, t, n, how)
        \/ \E t \in Addresses \cup Denoms : ConvertCoin(a, b, t, n, how)

Govern ==
    \E signer \in {"authority", "user"} :
        \/ \E c \in Contracts : RegisterERC20(signer, c)
        \/ \E t \in Addresses \cup Denoms : ToggleConversion(signer, t)
        \/ \E enabled, permissionless \in BOOLEAN : UpdateParams(signer, enabled, permissionless)

Precompile ==
    \E v \in Vouchers, a, b \in Accounts :
        \/ \E n \in 0 .. MaxAmount : Approve(v, a, b, n)
        \/ \E n \in Amounts : PrecompileTransfer(v, a, b, n)
        \/ \E n \in Amounts, to \in Accounts : TransferFrom(v, a, b, to, n)

IBC ==
    \/ \E d \in Denoms, a \in Accounts, n \in Amounts, how \in Behaviours : TransferMsg(a, d, n, how)
    \/ \E p \in packets : \E result \in {"received", "rejected"} : RemoteTakes(p, result)
    \/ \E p \in packets, how \in Behaviours : OnAcknowledgementPacket(p, how)
    \/ \E p \in packets, how \in Behaviours : OnTimeoutPacket(p, how)
    \/ \E d \in Denoms, a, b \in Accounts, n \in Amounts, how \in Behaviours :
          OnRecvPacket(d, a, b, n, how) \/ OnRecvPacketV2(d, a, b, n, how)

Outside ==
    \/ \E d \in Denoms : SetSendEnabled(d)
    \/ \E d \in Denoms, a, b \in Accounts, n \in Amounts : SendCoin(d, a, b, n)
    \/ \E c \in Contracts, a \in Accounts, b \in Accounts \cup {Module}, n \in Amounts : SendToken(c, a, b, n)
    \/ \E c \in Contracts : SelfDestruct(c) \/ Redeploy(c)

Next == Convert \/ Govern \/ Precompile \/ IBC \/ Outside

Spec == Init /\ [][Next]_vars

(***************************************************************************)
(* Properties.                                                             *)
(***************************************************************************)
\* Every variable has its type, no balance is negative and no more than one
\* packet has a sequence number.
TypeOK ==
    /\ params \in [enabled: BOOLEAN, permissionless: BOOLEAN]
    /\ reg.pairs \in [Ids -> TokenPair \cup {None}]
    /\ reg.denomMap \in [Denoms -> Ids \cup {None}]
    /\ reg.erc20Map \in [Addresses -> Ids \cup {None}]
    /\ reg.dynamic \subseteq Vouchers
    /\ reg.allowances \in [Grants -> Nat]
    /\ metadata \subseteq Denoms
    /\ coins \in [Denoms -> [Holders -> Nat]]
    /\ tokens \in [Contracts -> [Holders -> Nat]]
    /\ status \in [Contracts -> {"live", "destroyed", "redeployed"}]
    /\ noSend \subseteq Denoms
    /\ packets \subseteq [seq: 1 .. MaxPackets, denom: Denoms, amount: Amounts, sender: Accounts,
                          state: {"sent", "received", "rejected"}]
    /\ \A p, q \in packets : p.seq = q.seq => p = q
    /\ remote \in [Denoms -> Nat]

Circulating(d) == MapThenSumSet(LAMBDA h : coins[d][h], Holders \ {Module})

\* The coins of a contract never destroyed, those escrowed for IBC included, are
\* backed by the tokens the module holds and what the contract has taken of them on
\* top of transfers, which no conversion looks at: whichever of its transfers move
\* less, more or nothing, a conversion mints no more than arrived, asks for no more
\* than is burnt, and a refund whose conversion fails half way adds no coin.
Backed ==
    \A c \in Contracts :
        status[c] = "live" => tokens[c][Module] + skimmed[c] >= Circulating(CreateDenom(c))

\* The three stores of token pairs agree: each pair is under its own id, both
\* indexes lead to it, and an index leads nowhere else.
MapsAgree ==
    /\ \A id \in Ids :
          reg.pairs[id] # None =>
              /\ GetID(reg.pairs[id]) = id
              /\ reg.erc20Map[id[1]] = id
              /\ reg.denomMap[id[2]] = id
    /\ \A a \in Addresses : reg.erc20Map[a] # None => reg.pairs[reg.erc20Map[a]] # None
    /\ \A d \in Denoms : reg.denomMap[d] # None => reg.pairs[reg.denomMap[d]] # None

\* The stores have their types and agree, after every message, packet and hook.
RegistrySound == TypeOK /\ MapsAgree

PrecompileDisabled == \E a \in reg.dynamic : PairOf(a) # None /\ ~ PairOf(a).enabled

\* Importing the genesis the module exports gives its store back, at any time: no
\* pair is refused, and every allowance still has a pair, even one of a disabled pair.
\* The check of a genesis file accepts what is exported except while the pair of a
\* precompile is disabled, which ToggleConversion allows and InitGenesis takes.
GenesisRoundTrip ==
    LET imported == InitGenesis(reg)
    IN  imported.ok /\ imported.r = reg /\ (Validate(reg) <=> ~ PrecompileDisabled)

\* A spender never transfers more than the owner last approved.
WithinGrant == \A g \in Grants : pulled[g] <= granted[g]

\* A pair just registered has no coins in circulation: the coins of a contract that
\* was destroyed cannot be redeemed from the escrow of one deployed at its address
\* and registered anew.
FreshPairs ==
    [][\A id \in Ids :
          reg.pairs[id] = None /\ reg'.pairs[id] # None /\ id[2] \in NativeDenoms
              => Circulating(id[2]) = 0]_vars

\* What an account has of a denom, as coins and as tokens.
Holding(a, d) == coins[d][a] + IF d \in NativeDenoms THEN tokens[d[2]][a] ELSE 0

\* A packet refused or timed out gives the sender the amount back, as tokens or, if
\* the conversion fails, as coins (OnAcknowledgementPacket, OnTimeoutPacket).
RefundReachesSender ==
    [][\A p \in packets :
          (p \notin packets' /\ p.state # "received" /\ \A q \in packets' : q.seq # p.seq)
              => Holding(p.sender, p.denom)' = Holding(p.sender, p.denom) + p.amount]_vars

\* A packet received with success gives someone its amount, as tokens or as coins
\* (OnRecvPacket of the middleware).
ReceiptPays ==
    [][\A d \in Denoms :
          remote'[d] < remote[d] =>
              \E a \in Accounts : Holding(a, d)' - Holding(a, d) = remote[d] - remote'[d]]_vars
=============================================================================
