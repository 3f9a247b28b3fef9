----------------------------- MODULE Erc20Proofs -----------------------------
(***************************************************************************)
(* Proofs about Erc20 for every set of accounts, contracts and vouchers,   *)
(* whatever the contracts' transfers do, and every bound.                  *)
(***************************************************************************)
EXTENDS Erc20, Sums

(***************************************************************************)
(* The inductive invariant.                                                *)
(***************************************************************************)
Stores ==
    [pairs: [Ids -> TokenPair \cup {None}], denomMap: [Denoms -> Ids \cup {None}],
     erc20Map: [Addresses -> Ids \cup {None}], dynamic: SUBSET Vouchers,
     allowances: [Grants -> Nat]]

\* A pair the module owns is of a voucher, any other of a contract, and the denom is
\* made from the address: GetID loses nothing.
Shaped(pair) ==
    \/ pair.owner = "external" /\ pair.denom \in NativeDenoms /\ pair.erc20 = pair.denom[2]
    \/ pair.owner = "module" /\ pair.denom \in VoucherDenoms /\ pair.erc20 = pair.denom[2]

\* MapsAgree, and an index has an entry under the name its pair has.
PairsFiled(r) ==
    /\ \A id \in Ids :
          r.pairs[id] # None =>
              /\ GetID(r.pairs[id]) = id /\ Shaped(r.pairs[id])
              /\ r.erc20Map[id[1]] = id /\ r.denomMap[id[2]] = id
    /\ \A a \in Addresses :
          r.erc20Map[a] # None => r.erc20Map[a][1] = a /\ r.pairs[r.erc20Map[a]] # None
    /\ \A d \in Denoms :
          r.denomMap[d] # None => r.denomMap[d][2] = d /\ r.pairs[r.denomMap[d]] # None

\* The denom of a contract's pair has metadata.
Described(r, md) ==
    \A id \in Ids : r.pairs[id] # None /\ id[2] \in NativeDenoms => id[2] \in md

\* The coins of a denom without metadata have never been minted.
Unissued(cs, md) == \A d \in NativeDenoms \ md : \A h \in Holders : cs[d][h] = 0

Packet == [seq: 1 .. MaxPackets, denom: Denoms, amount: Amounts, sender: Accounts,
           state: {"sent", "received", "rejected"}]

Numbered(ps) == ps \subseteq Packet /\ \A p, q \in ps : p.seq = q.seq => p = q

\* What a packet that may still be refunded holds in escrow, by sequence number.
Unsettled(ps, d) ==
    [s \in 1 .. MaxPackets |->
        IF \E p \in ps : p.seq = s /\ p.denom = d /\ p.state # "received"
        THEN (CHOOSE p \in ps : p.seq = s).amount ELSE 0]

InFlight(ps, d) == SumOn(1 .. MaxPackets, Unsettled(ps, d))

\* The escrow can pay what the other chain holds and every packet that may come back.
Escrowed(cs, ps, far) ==
    \A d \in NativeDenoms : cs[d][Escrow] >= far[d] + InFlight(ps, d)

Held(b) == SumOn(Holders \ {Module}, b)

\* Backed, by denom.
Covered(cs, ts, st, sk) ==
    \A d \in NativeDenoms : st[d[2]] = "live" => ts[d[2]][Module] + sk[d[2]] >= Held(cs[d])

\* What is left of an allowance and what was taken are no more than was granted.
Within(r, given, taken) ==
    \A g \in Grants : r.allowances[g] + taken[g] <= given[g]

CoinBalances  == [Denoms -> [Holders -> Nat]]
TokenBalances == [Contracts -> [Holders -> Nat]]
Skims == [Contracts -> Nat]
Statuses == [Contracts -> {"live", "destroyed", "redeployed"}]

ParamsOK  == params \in [enabled: BOOLEAN, permissionless: BOOLEAN]
StoreOK   == reg \in Stores /\ PairsFiled(reg) /\ Described(reg, metadata)
NamesOK   == metadata \subseteq Denoms /\ noSend \subseteq Denoms /\ status \in Statuses
CoinsOK   == coins \in CoinBalances /\ Unissued(coins, metadata)
TokensOK  == /\ tokens \in TokenBalances /\ skimmed \in Skims
             /\ Covered(coins, tokens, status, skimmed)
PacketsOK == /\ Numbered(packets) /\ remote \in [Denoms -> Nat]
             /\ Escrowed(coins, packets, remote)
GrantsOK  == /\ granted \in [Grants -> Nat] /\ pulled \in [Grants -> Nat]
             /\ Within(reg, granted, pulled)

Inv == ParamsOK /\ StoreOK /\ NamesOK /\ CoinsOK /\ TokensOK /\ PacketsOK /\ GrantsOK

(***************************************************************************)
(* Names.                                                                  *)
(***************************************************************************)
\* A denom of a contract or a voucher tells which it is and of which.
LEMMA Names ==
    /\ \A c \in Contracts :
          CreateDenom(c) \in NativeDenoms /\ CreateDenom(c) \in Denoms /\ CreateDenom(c)[2] = c
    /\ \A v \in Vouchers :
          IBCDenom(v) \in VoucherDenoms /\ IBCDenom(v) \in Denoms /\ IBCDenom(v)[2] = v
    /\ \A d \in NativeDenoms :
          /\ d \in Denoms /\ d \notin VoucherDenoms /\ d \notin Addresses
          /\ d[2] \in Contracts /\ d[2] \in Addresses /\ CreateDenom(d[2]) = d
    /\ \A d \in VoucherDenoms :
          /\ d \in Denoms /\ d \notin NativeDenoms /\ d \notin Addresses
          /\ d[2] \in Vouchers /\ d[2] \in Addresses /\ IBCDenom(d[2]) = d
    /\ \A d \in Denoms : d \in NativeDenoms \/ d \in VoucherDenoms
    /\ \A c, d \in NativeDenoms : c[2] = d[2] => c = d
  BY NamesAssumption DEF NativeDenoms, VoucherDenoms, Denoms, CreateDenom, IBCDenom, Addresses

\* The sets of holders whose balances are summed are finite.
LEMMA HoldersFinite ==
    /\ IsFiniteSet(Holders \ {Module})
    /\ Accounts \subseteq Holders \ {Module} /\ Escrow \in Holders \ {Module}
    /\ Module \in Holders /\ Module \notin Accounts /\ Escrow \notin Accounts /\ Escrow # Module
<1>1. IsFiniteSet(Accounts \cup {Escrow})
  BY FS_AddElement, ParameterAssumption
<1>2. Holders \ {Module} \subseteq Accounts \cup {Escrow}
  BY DEF Holders
<1>3. IsFiniteSet(Holders \ {Module})
  BY <1>1, <1>2, FS_Subset
<1>4. QED
  BY <1>3, ParameterAssumption DEF Holders

(***************************************************************************)
(* The store.                                                              *)
(***************************************************************************)
\* An id is the two names of its pair.
LEMMA IdType ==
    ASSUME NEW pair \in TokenPair
    PROVE  /\ GetID(pair) \in Ids /\ GetID(pair)[1] = pair.erc20 /\ GetID(pair)[2] = pair.denom
           /\ pair # None /\ GetID(pair) # None
           /\ pair.erc20 \in Addresses /\ pair.denom \in Denoms
  BY NamesAssumption DEF GetID, Ids, TokenPair

\* What the store has of a name is a pair filed under it.
LEMMA PairFound ==
    ASSUME NEW r \in Stores, PairsFiled(r)
    PROVE  /\ \A a \in Addresses : GetTokenPair(r, r.erc20Map[a]) # None =>
                /\ GetTokenPair(r, r.erc20Map[a]) \in TokenPair
                /\ Shaped(GetTokenPair(r, r.erc20Map[a]))
                /\ r.pairs[GetID(GetTokenPair(r, r.erc20Map[a]))] = GetTokenPair(r, r.erc20Map[a])
                /\ GetTokenPair(r, r.erc20Map[a]).erc20 = a
           /\ \A d \in Denoms : GetTokenPair(r, r.denomMap[d]) # None =>
                /\ GetTokenPair(r, r.denomMap[d]) \in TokenPair
                /\ Shaped(GetTokenPair(r, r.denomMap[d]))
                /\ r.pairs[GetID(GetTokenPair(r, r.denomMap[d]))] = GetTokenPair(r, r.denomMap[d])
                /\ GetTokenPair(r, r.denomMap[d]).denom = d
<1>1. /\ r.pairs \in [Ids -> TokenPair \cup {None}]
      /\ r.denomMap \in [Denoms -> Ids \cup {None}]
      /\ r.erc20Map \in [Addresses -> Ids \cup {None}]
  BY DEF Stores
<1>2. ASSUME NEW a \in Addresses, GetTokenPair(r, r.erc20Map[a]) # None
      PROVE  /\ GetTokenPair(r, r.erc20Map[a]) \in TokenPair
             /\ Shaped(GetTokenPair(r, r.erc20Map[a]))
             /\ r.pairs[GetID(GetTokenPair(r, r.erc20Map[a]))] = GetTokenPair(r, r.erc20Map[a])
             /\ GetTokenPair(r, r.erc20Map[a]).erc20 = a
  <2>1. PICK id : id = r.erc20Map[a]
    OBVIOUS
  <2>2. id # None /\ id \in Ids /\ GetTokenPair(r, id) = r.pairs[id] /\ r.pairs[id] # None
    BY <1>1, <1>2, <2>1 DEF GetTokenPair
  <2>3. id[1] = a /\ GetID(r.pairs[id]) = id /\ Shaped(r.pairs[id]) /\ r.pairs[id] \in TokenPair
    BY <1>1, <2>1, <2>2 DEF PairsFiled
  <2>4. QED
    BY <2>1, <2>2, <2>3, IdType
<1>3. ASSUME NEW d \in Denoms, GetTokenPair(r, r.denomMap[d]) # None
      PROVE  /\ GetTokenPair(r, r.denomMap[d]) \in TokenPair
             /\ Shaped(GetTokenPair(r, r.denomMap[d]))
             /\ r.pairs[GetID(GetTokenPair(r, r.denomMap[d]))] = GetTokenPair(r, r.denomMap[d])
             /\ GetTokenPair(r, r.denomMap[d]).denom = d
  <2>1. PICK id : id = r.denomMap[d]
    OBVIOUS
  <2>2. id # None /\ id \in Ids /\ GetTokenPair(r, id) = r.pairs[id] /\ r.pairs[id] # None
    BY <1>1, <1>3, <2>1 DEF GetTokenPair
  <2>3. id[2] = d /\ GetID(r.pairs[id]) = id /\ Shaped(r.pairs[id]) /\ r.pairs[id] \in TokenPair
    BY <1>1, <2>1, <2>2 DEF PairsFiled
  <2>4. QED
    BY <2>1, <2>2, <2>3, IdType
<1>4. QED
  BY <1>2, <1>3

\* SetToken files a pair of the right shape, or changes nothing.
LEMMA SetTokenFiles ==
    ASSUME NEW r \in Stores, PairsFiled(r), NEW pair \in TokenPair, Shaped(pair)
    PROVE  /\ SetToken(r, pair).ok \in BOOLEAN
           /\ SetToken(r, pair).r \in Stores /\ PairsFiled(SetToken(r, pair).r)
           /\ SetToken(r, pair).r.allowances = r.allowances
           /\ \A id \in Ids : SetToken(r, pair).r.pairs[id] # None =>
                 r.pairs[id] # None \/ (SetToken(r, pair).ok /\ id = GetID(pair))
           /\ \A id \in Ids : r.pairs[id] # None => SetToken(r, pair).r.pairs[id] # None
<1>1. CASE r.denomMap[pair.denom] # None \/ r.erc20Map[pair.erc20] # None
  BY <1>1 DEF SetToken
<1>2. CASE ~ (r.denomMap[pair.denom] # None \/ r.erc20Map[pair.erc20] # None)
  <2>1. PICK id : id = GetID(pair)
    OBVIOUS
  <2>2. /\ id \in Ids /\ id[1] = pair.erc20 /\ id[2] = pair.denom /\ pair # None /\ id # None
        /\ pair.erc20 \in Addresses /\ pair.denom \in Denoms
    BY <2>1, IdType
  <2>3. /\ r.pairs \in [Ids -> TokenPair \cup {None}]
        /\ r.denomMap \in [Denoms -> Ids \cup {None}]
        /\ r.erc20Map \in [Addresses -> Ids \cup {None}]
        /\ r = [pairs |-> r.pairs, denomMap |-> r.denomMap, erc20Map |-> r.erc20Map,
                dynamic |-> r.dynamic, allowances |-> r.allowances]
    BY DEF Stores
  <2> DEFINE ps == [r.pairs EXCEPT ![id] = pair]
             dm == [r.denomMap EXCEPT ![pair.denom] = id]
             em == [r.erc20Map EXCEPT ![pair.erc20] = id]
             t == [pairs |-> ps, denomMap |-> dm, erc20Map |-> em,
                   dynamic |-> r.dynamic, allowances |-> r.allowances]
  <2>4. SetToken(r, pair).ok = TRUE /\ SetToken(r, pair).r = t
    BY <1>2, <2>1, <2>3 DEF SetToken
  <2>5. /\ ps \in [Ids -> TokenPair \cup {None}]
        /\ dm \in [Denoms -> Ids \cup {None}]
        /\ em \in [Addresses -> Ids \cup {None}]
    BY <2>2, <2>3
  <2>6. t \in Stores
    BY <2>5 DEF Stores
  <2>7. PairsFiled(t)
    <3>1. ASSUME NEW i \in Ids, ps[i] # None
          PROVE  GetID(ps[i]) = i /\ Shaped(ps[i]) /\ em[i[1]] = i /\ dm[i[2]] = i
      <4>1. CASE i = id
        BY <2>1, <2>2, <2>3, <4>1
      <4>2. CASE i # id
        <5>1. /\ GetID(r.pairs[i]) = i /\ Shaped(r.pairs[i])
              /\ r.erc20Map[i[1]] = i /\ r.denomMap[i[2]] = i /\ ps[i] = r.pairs[i]
          BY <2>2, <2>3, <3>1, <4>2 DEF PairsFiled
        <5>2. i[1] # pair.erc20 /\ i[2] # pair.denom /\ i[1] \in Addresses /\ i[2] \in Denoms
          BY <1>2, <5>1, NamesAssumption DEF Ids
        <5>3. QED
          BY <2>2, <2>3, <5>1, <5>2
      <4>3. QED
        BY <4>1, <4>2
    <3>2. ASSUME NEW a \in Addresses, em[a] # None
          PROVE  em[a][1] = a /\ ps[em[a]] # None
      BY <2>2, <2>3, <3>2 DEF PairsFiled
    <3>3. ASSUME NEW d \in Denoms, dm[d] # None
          PROVE  dm[d][2] = d /\ ps[dm[d]] # None
      BY <2>2, <2>3, <3>3 DEF PairsFiled
    <3>4. QED
      BY <3>1, <3>2, <3>3 DEF PairsFiled
  <2>8. \A i \in Ids : (ps[i] # None => r.pairs[i] # None \/ i = id) /\ (r.pairs[i] # None => ps[i] # None)
    BY <2>2, <2>3
  <2>9. t.pairs = ps /\ t.allowances = r.allowances
    OBVIOUS
  <2> HIDE DEF t, ps
  <2>10. SetToken(r, pair).ok \in BOOLEAN
    BY <2>4
  <2>11. QED
    BY <2>1, <2>4, <2>6, <2>7, <2>8, <2>9, <2>10
<1>3. QED
  BY <1>1, <1>2

\* DeleteTokenPair removes the pair and its indexes, and leaves allowances or drops them.
LEMMA DeleteFiles ==
    ASSUME NEW r \in Stores, PairsFiled(r), NEW pair \in TokenPair, r.pairs[GetID(pair)] = pair
    PROVE  /\ DeleteTokenPair(r, pair) \in Stores /\ PairsFiled(DeleteTokenPair(r, pair))
           /\ \A g \in Grants : DeleteTokenPair(r, pair).allowances[g] <= r.allowances[g]
           /\ \A id \in Ids : DeleteTokenPair(r, pair).pairs[id] # None => r.pairs[id] # None
<1>1. PICK id : id = GetID(pair)
  OBVIOUS
<1>2. /\ id \in Ids /\ id[1] = pair.erc20 /\ id[2] = pair.denom /\ pair # None /\ id # None
      /\ pair.erc20 \in Addresses /\ pair.denom \in Denoms
  BY <1>1, IdType
<1>3. /\ r.pairs \in [Ids -> TokenPair \cup {None}]
      /\ r.denomMap \in [Denoms -> Ids \cup {None}]
      /\ r.erc20Map \in [Addresses -> Ids \cup {None}]
      /\ r.allowances \in [Grants -> Nat] /\ r.dynamic \in SUBSET Vouchers
      /\ r = [pairs |-> r.pairs, denomMap |-> r.denomMap, erc20Map |-> r.erc20Map,
              dynamic |-> r.dynamic, allowances |-> r.allowances]
  BY DEF Stores
<1> DEFINE ps == [r.pairs EXCEPT ![id] = None]
           dm == [r.denomMap EXCEPT ![pair.denom] = None]
           em == [r.erc20Map EXCEPT ![pair.erc20] = None]
           al == deleteAllowances(r, pair.erc20)
           t == [pairs |-> ps, denomMap |-> dm, erc20Map |-> em,
                 dynamic |-> r.dynamic, allowances |-> al]
<1>4. DeleteTokenPair(r, pair) = t
  <2>1. PICK a : a = al
    OBVIOUS
  <2>2. DeleteTokenPair(r, pair) = [r EXCEPT !.pairs[id] = None, !.erc20Map[pair.erc20] = None,
                                             !.denomMap[pair.denom] = None, !.allowances = a]
    BY <1>1, <2>1 DEF DeleteTokenPair
  <2>3. QED
    BY <1>3, <2>1, <2>2
<1>5. /\ ps \in [Ids -> TokenPair \cup {None}]
      /\ dm \in [Denoms -> Ids \cup {None}]
      /\ em \in [Addresses -> Ids \cup {None}]
  BY <1>2, <1>3
<1>6. al \in [Grants -> Nat] /\ \A g \in Grants : al[g] <= r.allowances[g]
  BY <1>3 DEF deleteAllowances
<1>7. t \in Stores
  BY <1>3, <1>5, <1>6 DEF Stores
<1>8. r.denomMap[pair.denom] = id /\ r.erc20Map[pair.erc20] = id
  BY <1>1, <1>2 DEF PairsFiled
<1>9. PairsFiled(t)
  <2>1. ASSUME NEW i \in Ids, ps[i] # None
        PROVE  GetID(ps[i]) = i /\ Shaped(ps[i]) /\ em[i[1]] = i /\ dm[i[2]] = i
    <3>1. /\ i # id /\ ps[i] = r.pairs[i] /\ GetID(r.pairs[i]) = i /\ Shaped(r.pairs[i])
          /\ r.erc20Map[i[1]] = i /\ r.denomMap[i[2]] = i /\ i[1] \in Addresses /\ i[2] \in Denoms
      BY <1>2, <1>3, <2>1 DEF PairsFiled, Ids
    <3>2. i[1] # pair.erc20 /\ i[2] # pair.denom
      BY <1>8, <3>1
    <3>3. QED
      BY <1>2, <1>3, <3>1, <3>2
  <2>2. ASSUME NEW a \in Addresses, em[a] # None
        PROVE  em[a][1] = a /\ ps[em[a]] # None
    <3>1. a # pair.erc20 /\ em[a] = r.erc20Map[a] /\ r.erc20Map[a][1] = a
          /\ r.pairs[r.erc20Map[a]] # None /\ r.erc20Map[a] \in Ids
      BY <1>2, <1>3, <2>2 DEF PairsFiled
    <3>2. r.erc20Map[a] # id
      BY <1>2, <3>1
    <3>3. QED
      BY <1>3, <3>1, <3>2
  <2>3. ASSUME NEW d \in Denoms, dm[d] # None
        PROVE  dm[d][2] = d /\ ps[dm[d]] # None
    <3>1. d # pair.denom /\ dm[d] = r.denomMap[d] /\ r.denomMap[d][2] = d
          /\ r.pairs[r.denomMap[d]] # None /\ r.denomMap[d] \in Ids
      BY <1>2, <1>3, <2>3 DEF PairsFiled
    <3>2. r.denomMap[d] # id
      BY <1>2, <3>1
    <3>3. QED
      BY <1>3, <3>1, <3>2
  <2>4. QED
    BY <2>1, <2>2, <2>3 DEF PairsFiled
<1>10. \A i \in Ids : ps[i] # None => r.pairs[i] # None
  BY <1>3
<1>11. QED
  BY <1>4, <1>6, <1>7, <1>9, <1>10

\* An allowance is set without touching a pair, to the value asked for.
LEMMA AllowanceSet ==
    ASSUME NEW r \in Stores, PairsFiled(r), NEW g \in Grants, NEW n \in Int,
           SetAllowance(r, g, n).ok
    PROVE  /\ SetAllowance(r, g, n).r \in Stores /\ PairsFiled(SetAllowance(r, g, n).r)
           /\ n >= 0
           /\ SetAllowance(r, g, n).r.allowances = [r.allowances EXCEPT ![g] = n]
           /\ SetAllowance(r, g, n).r.pairs = r.pairs
<1>1. /\ SetAllowance(r, g, n).r = [r EXCEPT !.allowances[g] = n]
      /\ ~ (n < 0)
  BY DEF SetAllowance, setAllowance
<1>2. PICK t : t = [r EXCEPT !.allowances[g] = n]
  OBVIOUS
<1>3. r.allowances \in [Grants -> Nat]
  BY DEF Stores
<1>4. /\ t.pairs = r.pairs /\ t.denomMap = r.denomMap /\ t.erc20Map = r.erc20Map
      /\ t.dynamic = r.dynamic /\ t.allowances = [r.allowances EXCEPT ![g] = n]
      /\ t = [pairs |-> t.pairs, denomMap |-> t.denomMap, erc20Map |-> t.erc20Map,
              dynamic |-> t.dynamic, allowances |-> t.allowances]
  BY <1>2 DEF Stores
<1>5. [r.allowances EXCEPT ![g] = n] \in [Grants -> Nat]
  BY <1>1, <1>3
<1>6. t \in Stores
  BY <1>4, <1>5 DEF Stores
<1>7. PairsFiled(t)
  BY <1>4 DEF PairsFiled
<1>8. QED
  BY <1>1, <1>2, <1>4, <1>6, <1>7

Toggled(r, id) == [r EXCEPT !.pairs[id].enabled = ~ @]

\* A pair is enabled or disabled in its place.
LEMMA ToggleFiles ==
    ASSUME NEW r \in Stores, PairsFiled(r), NEW pair \in TokenPair, r.pairs[GetID(pair)] = pair,
           NEW t, t = Toggled(r, GetID(pair))
    PROVE  /\ t \in Stores /\ PairsFiled(t)
           /\ t.allowances = r.allowances
           /\ \A id \in Ids : t.pairs[id] # None <=> r.pairs[id] # None
<1>1. PICK id : id = GetID(pair)
  OBVIOUS
<1>2. id \in Ids /\ pair # None
  BY <1>1, IdType
<1>3. PICK q : q = [pair EXCEPT !.enabled = ~ @]
  OBVIOUS
<1>4. q \in TokenPair /\ q.erc20 = pair.erc20 /\ q.denom = pair.denom /\ q.owner = pair.owner
  BY <1>3 DEF TokenPair
<1>5. GetID(q) = id /\ q # None /\ (Shaped(pair) => Shaped(q))
  BY <1>1, <1>4, IdType DEF GetID, Shaped
<1>6. r.pairs \in [Ids -> TokenPair \cup {None}]
  BY DEF Stores
<1>7. /\ t.pairs = [r.pairs EXCEPT ![id] = q] /\ t.denomMap = r.denomMap
      /\ t.erc20Map = r.erc20Map /\ t.dynamic = r.dynamic /\ t.allowances = r.allowances
      /\ t = [pairs |-> t.pairs, denomMap |-> t.denomMap, erc20Map |-> t.erc20Map,
              dynamic |-> t.dynamic, allowances |-> t.allowances]
  BY <1>1, <1>2, <1>3, <1>6 DEF Stores, Toggled
<1>8. t.pairs \in [Ids -> TokenPair \cup {None}]
  BY <1>2, <1>4, <1>6, <1>7
<1>9. t \in Stores
  BY <1>7, <1>8 DEF Stores
<1>10. \A i \in Ids : t.pairs[i] = IF i = id THEN q ELSE r.pairs[i]
  BY <1>2, <1>6, <1>7
<1>11. \A i \in Ids : t.pairs[i] # None <=> r.pairs[i] # None
  BY <1>1, <1>2, <1>5, <1>10
<1>12. PairsFiled(t)
  <2>1. ASSUME NEW i \in Ids, t.pairs[i] # None
        PROVE  /\ GetID(t.pairs[i]) = i /\ Shaped(t.pairs[i])
               /\ t.erc20Map[i[1]] = i /\ t.denomMap[i[2]] = i
    <3>1. /\ GetID(r.pairs[i]) = i /\ Shaped(r.pairs[i])
          /\ r.erc20Map[i[1]] = i /\ r.denomMap[i[2]] = i
      BY <1>11, <2>1 DEF PairsFiled
    <3>2. QED
      BY <1>1, <1>5, <1>7, <1>10, <3>1
  <2>2. \A a \in Addresses :
          t.erc20Map[a] # None => t.erc20Map[a][1] = a /\ t.pairs[t.erc20Map[a]] # None
    <3>1. r.erc20Map \in [Addresses -> Ids \cup {None}]
      BY DEF Stores
    <3>2. QED
      BY <1>7, <1>11, <3>1 DEF PairsFiled
  <2>3. \A d \in Denoms :
          t.denomMap[d] # None => t.denomMap[d][2] = d /\ t.pairs[t.denomMap[d]] # None
    <3>1. r.denomMap \in [Denoms -> Ids \cup {None}]
      BY DEF Stores
    <3>2. QED
      BY <1>7, <1>11, <3>1 DEF PairsFiled
  <2>4. QED
    BY <2>1, <2>2, <2>3 DEF PairsFiled
<1>13. QED
  BY <1>7, <1>9, <1>11, <1>12

(***************************************************************************)
(* Balances.                                                               *)
(***************************************************************************)
\* Move takes from one and gives to the other, if they are two.
LEMMA MoveType ==
    ASSUME NEW b \in [Holders -> Nat], NEW from \in Holders, NEW to \in Holders, NEW n \in Nat,
           b[from] >= n
    PROVE  /\ Move(b, from, to, n) \in [Holders -> Nat]
           /\ \A h \in Holders : Move(b, from, to, n)[h] =
                 IF from = to \/ h \notin {from, to} THEN b[h]
                 ELSE IF h = from THEN b[h] - n ELSE b[h] + n
  BY DEF Move

\* What is held outside the module does not change when it moves there, and falls by
\* what is moved to the module.
LEMMA MoveHeld ==
    ASSUME NEW b \in [Holders -> Nat], NEW from \in Holders \ {Module}, NEW to \in Holders,
           NEW n \in Nat, b[from] >= n
    PROVE  /\ Held(b) \in Nat
           /\ Held(Move(b, from, to, n)) = IF to = Module THEN Held(b) - n ELSE Held(b)
<1> DEFINE S == Holders \ {Module}
<1>1. IsFiniteSet(S)
  BY HoldersFinite
<1>2. PICK g : g = Move(b, from, to, n)
  OBVIOUS
<1>3. /\ g \in [Holders -> Nat]
      /\ \A h \in Holders : g[h] = IF from = to \/ h \notin {from, to} THEN b[h]
                                   ELSE IF h = from THEN b[h] - n ELSE b[h] + n
  BY <1>2, MoveType
<1>4. \A h \in S : b[h] \in Nat /\ g[h] \in Nat
  BY <1>3
<1>5. SumOn(S, b) \in Nat
  BY <1>1, <1>4, SumOnType
<1>6. CASE from = to
  <2>1. \A h \in S : g[h] = b[h]
    BY <1>3, <1>6
  <2>2. SumOn(S, g) = SumOn(S, b)
    BY <2>1, SumOnEqual
  <2>3. QED
    BY <1>2, <1>5, <1>6, <2>2 DEF Held
<1>7. CASE from # to /\ to = Module
  <2>1. \A h \in S : h # from => g[h] = b[h]
    BY <1>3, <1>7
  <2>2. SumOn(S, g) = SumOn(S, b) - b[from] + g[from]
    BY <1>1, <1>4, <2>1, SumOnChange
  <2>3. g[from] = b[from] - n /\ b[from] \in Nat
    BY <1>3, <1>7
  <2>4. QED
    BY <1>2, <1>5, <1>7, <2>2, <2>3 DEF Held
<1>8. CASE from # to /\ to # Module
  <2>1. /\ from \in S /\ to \in S
        /\ \A h \in S : b[h] \in Nat /\ g[h] \in Nat /\ (h # from /\ h # to => g[h] = b[h])
    BY <1>3, <1>8
  <2> HIDE DEF S
  <2>2. SumOn(S, g) = SumOn(S, b) - b[from] + g[from] - b[to] + g[to]
    BY <1>1, <1>8, <2>1, SumOnTransfer
  <2>3. g[from] = b[from] - n /\ b[from] \in Nat /\ g[to] = b[to] + n /\ b[to] \in Nat
    BY <1>3, <1>8
  <2>4. QED
    BY <1>2, <1>5, <1>8, <2>2, <2>3 DEF Held, S
<1>9. QED
  BY <1>6, <1>7, <1>8

\* Minting for a holder adds as much to what is held.
LEMMA MintHeld ==
    ASSUME NEW b \in [Holders -> Nat], NEW h \in Holders \ {Module}, NEW n \in Nat
    PROVE  /\ [b EXCEPT ![h] = @ + n] \in [Holders -> Nat]
           /\ Held(b) \in Nat
           /\ Held([b EXCEPT ![h] = @ + n]) = Held(b) + n
<1> DEFINE S == Holders \ {Module}
<1>1. IsFiniteSet(S)
  BY HoldersFinite
<1>2. PICK g : g = [b EXCEPT ![h] = @ + n]
  OBVIOUS
<1>3. g \in [Holders -> Nat] /\ g[h] = b[h] + n /\ \A i \in S : i # h => g[i] = b[i]
  BY <1>2
<1>4. \A i \in S : b[i] \in Nat /\ g[i] \in Nat
  BY <1>3
<1>5. SumOn(S, g) = SumOn(S, b) - b[h] + g[h] /\ SumOn(S, b) \in Nat
  BY <1>1, <1>3, <1>4, SumOnChange
<1>6. QED
  BY <1>2, <1>3, <1>4, <1>5 DEF Held

\* What is held is at least what one holder has.
LEMMA HeldBound ==
    ASSUME NEW b \in [Holders -> Nat], NEW h \in Holders \ {Module}
    PROVE  Held(b) >= b[h] /\ Held(b) \in Nat
<1>1. IsFiniteSet(Holders \ {Module}) /\ \A i \in Holders \ {Module} : b[i] \in Nat
  BY HoldersFinite
<1>2. QED
  BY <1>1, SumOnChange DEF Held

\* What a contract takes from an account on top of what it transfers for it.
OnTop(b, from, n, how) == IF how = "takesMore" /\ b[from] >= n + 1 THEN 1 ELSE 0

\* Whatever a contract's transfer does, balances stay natural numbers, the module
\* loses no more than it sends and what is taken on top, in a call that succeeds, and
\* loses nothing when it is sent something.
LEMMA TransferBalances ==
    ASSUME NEW b \in [Holders -> Nat], NEW from \in Holders, NEW to \in Holders, from # to,
           NEW n \in Nat \ {0}, NEW how
    PROVE  /\ Transfer(b, from, to, n, how).bal \in [Holders -> Nat]
           /\ from = Module =>
                 Transfer(b, from, to, n, how).bal[Module] + OnTop(b, from, n, how) >= b[Module] - n
           /\ to = Module => Transfer(b, from, to, n, how).bal[Module] >= b[Module]
           /\ \A h \in Holders : h \notin {from, to} => Transfer(b, from, to, n, how).bal[h] = b[h]
           /\ OnTop(b, from, n, how) # 0 => Transfer(b, from, to, n, how).bal # b
<1>1. CASE how = "moves" /\ b[from] >= n
  <2>1. Transfer(b, from, to, n, how).bal = Move(b, from, to, n)
    BY <1>1 DEF Transfer
  <2>2. QED
    BY <1>1, <2>1, MoveType DEF OnTop
<1>2. CASE how = "keepsFee" /\ b[from] >= n
  <2>1. PICK m : m = Move(b, from, to, n)
    OBVIOUS
  <2>2. Transfer(b, from, to, n, how).bal = [m EXCEPT ![to] = @ - 1]
    BY <1>2, <2>1 DEF Transfer
  <2>3. m \in [Holders -> Nat] /\ m[to] = b[to] + n /\ m[from] = b[from] - n
        /\ \A h \in Holders : h \notin {from, to} => m[h] = b[h]
    BY <1>2, <2>1, MoveType
  <2>4. OnTop(b, from, n, how) = 0
    BY <1>2 DEF OnTop
  <2>5. PICK u : u = Transfer(b, from, to, n, how).bal
    OBVIOUS
  <2>6. /\ u \in [Holders -> Nat] /\ u[to] = b[to] + n - 1 /\ u[from] = b[from] - n
        /\ \A h \in Holders : h \notin {from, to} => u[h] = b[h]
    BY <2>2, <2>3, <2>5
  <2>7. QED
    BY <2>4, <2>5, <2>6
<1>3. CASE how = "takesMore" /\ b[from] >= n + 1
  <2>1. PICK m : m = Move(b, from, to, n)
    OBVIOUS
  <2>2. Transfer(b, from, to, n, how).bal = [m EXCEPT ![from] = @ - 1]
    BY <1>3, <2>1 DEF Transfer
  <2>3. m \in [Holders -> Nat] /\ m[to] = b[to] + n /\ m[from] = b[from] - n /\ m[from] >= 1
        /\ \A h \in Holders : h \notin {from, to} => m[h] = b[h]
    BY <1>3, <2>1, MoveType
  <2>4. OnTop(b, from, n, how) = 1
    BY <1>3 DEF OnTop
  <2>5. PICK u : u = Transfer(b, from, to, n, how).bal
    OBVIOUS
  <2>6. /\ u \in [Holders -> Nat] /\ u[to] = b[to] + n /\ u[from] = b[from] - n - 1
        /\ \A h \in Holders : h \notin {from, to} => u[h] = b[h]
    BY <2>2, <2>3, <2>5
  <2>7. b[to] \in Nat /\ b[from] \in Nat /\ u # b
    BY <2>6
  <2>8. QED
    BY <2>4, <2>5, <2>6, <2>7
<1>4. CASE ~ (how = "moves" /\ b[from] >= n) /\ ~ (how = "keepsFee" /\ b[from] >= n)
           /\ ~ (how = "takesMore" /\ b[from] >= n + 1)
  <2>1. Transfer(b, from, to, n, how).bal = b /\ OnTop(b, from, n, how) = 0
    BY <1>4 DEF Transfer, OnTop
  <2>2. QED
    BY <2>1
<1>5. QED
  BY <1>1, <1>2, <1>3, <1>4

\* The module's tokens, from t to u, with those taken on top, from x to y, grow by as
\* much as what is held, from o to b.
Grown(t, x, o, u, y, b) == u[Module] + y >= t[Module] + x + Held(b) - Held(o)

\* A change of one contract's coins and tokens keeps the coins backed when the module's
\* tokens, with those taken on top, grow by as much as what is held.
LEMMA OneDenom ==
    ASSUME NEW cs \in CoinBalances, NEW ts \in TokenBalances, NEW sk \in Skims, NEW st, NEW md,
           Covered(cs, ts, st, sk), Unissued(cs, md), NEW d \in NativeDenoms,
           NEW b \in [Holders -> Nat], NEW u \in [Holders -> Nat], NEW sk2 \in Skims,
           \A c \in Contracts : c # d[2] => sk2[c] = sk[c],
           Grown(ts[d[2]], sk[d[2]], cs[d], u, sk2[d[2]], b),
           d \in md \/ \A h \in Holders : b[h] = 0
    PROVE  /\ [cs EXCEPT ![d] = b] \in CoinBalances /\ [ts EXCEPT ![d[2]] = u] \in TokenBalances
           /\ Covered([cs EXCEPT ![d] = b], [ts EXCEPT ![d[2]] = u], st, sk2)
           /\ Unissued([cs EXCEPT ![d] = b], md)
<1>1. PICK cs2, ts2 : cs2 = [cs EXCEPT ![d] = b] /\ ts2 = [ts EXCEPT ![d[2]] = u]
  OBVIOUS
<1>2. /\ cs2 \in CoinBalances /\ ts2 \in TokenBalances
      /\ cs2[d] = b /\ ts2[d[2]] = u
      /\ \A e \in NativeDenoms : e # d => cs2[e] = cs[e] /\ ts2[e[2]] = ts[e[2]] /\ sk2[e[2]] = sk[e[2]]
  BY <1>1, Names DEF CoinBalances, TokenBalances
<1>3. /\ Held(b) \in Nat /\ Held(cs[d]) \in Nat /\ u[Module] \in Nat /\ ts[d[2]][Module] \in Nat
      /\ sk[d[2]] \in Nat /\ sk2[d[2]] \in Nat
  BY HeldBound, HoldersFinite, Names DEF CoinBalances, TokenBalances, Skims
<1>4. Covered(cs2, ts2, st, sk2)
  <2> SUFFICES ASSUME NEW e \in NativeDenoms, st[e[2]] = "live"
               PROVE  ts2[e[2]][Module] + sk2[e[2]] >= Held(cs2[e])
    BY DEF Covered
  <2>1. ts[e[2]][Module] + sk[e[2]] >= Held(cs[e])
    BY DEF Covered
  <2>2. CASE e = d
    BY <1>2, <1>3, <2>1, <2>2 DEF Grown
  <2>3. CASE e # d
    BY <1>2, <2>1, <2>3
  <2>4. QED
    BY <2>2, <2>3
<1>5. Unissued(cs2, md)
  BY <1>2 DEF Unissued
<1>6. QED
  BY <1>1, <1>2, <1>4, <1>5

\* The same when only coins change.
LEMMA OneDenomCoins ==
    ASSUME NEW cs \in CoinBalances, NEW ts \in TokenBalances, NEW sk \in Skims, NEW st, NEW md,
           Covered(cs, ts, st, sk), Unissued(cs, md), NEW d \in NativeDenoms,
           NEW b \in [Holders -> Nat], Held(b) <= Held(cs[d]),
           d \in md \/ \A h \in Holders : b[h] = 0
    PROVE  /\ [cs EXCEPT ![d] = b] \in CoinBalances
           /\ Covered([cs EXCEPT ![d] = b], ts, st, sk)
           /\ Unissued([cs EXCEPT ![d] = b], md)
<1>1. PICK u : u = ts[d[2]]
  OBVIOUS
<1>2. /\ u \in [Holders -> Nat] /\ ts = [ts EXCEPT ![d[2]] = u] /\ u[Module] \in Nat
      /\ sk[d[2]] \in Nat
  BY <1>1, Names, HoldersFinite DEF TokenBalances, Skims
<1>3. Held(b) \in Nat /\ Held(cs[d]) \in Nat
  BY HeldBound, HoldersFinite, Names DEF CoinBalances
<1>4. Grown(ts[d[2]], sk[d[2]], cs[d], u, sk[d[2]], b)
  BY <1>1, <1>2, <1>3 DEF Grown
<1>5. QED
  BY <1>2, <1>4, OneDenom

\* A voucher's coins back nothing.
LEMMA OneVoucher ==
    ASSUME NEW cs \in CoinBalances, NEW ts, NEW sk, NEW st, NEW md,
           Covered(cs, ts, st, sk), Unissued(cs, md), NEW d \in VoucherDenoms, NEW b \in [Holders -> Nat]
    PROVE  /\ [cs EXCEPT ![d] = b] \in CoinBalances
           /\ Covered([cs EXCEPT ![d] = b], ts, st, sk)
           /\ Unissued([cs EXCEPT ![d] = b], md)
           /\ \A e \in NativeDenoms : [cs EXCEPT ![d] = b][e] = cs[e]
<1>1. PICK cs2 : cs2 = [cs EXCEPT ![d] = b]
  OBVIOUS
<1>2. cs2 \in CoinBalances /\ \A e \in NativeDenoms : cs2[e] = cs[e]
  BY <1>1, Names DEF CoinBalances
<1>3. Covered(cs2, ts, st, sk) /\ Unissued(cs2, md)
  BY <1>2 DEF Covered, Unissued
<1>4. QED
  BY <1>1, <1>2, <1>3

(***************************************************************************)
(* Packets.                                                                *)
(***************************************************************************)
Weight(p, d) == IF p.denom = d /\ p.state # "received" THEN p.amount ELSE 0

\* What the fields of a packet are.
LEMMA PacketFields ==
    ASSUME NEW p \in Packet
    PROVE  /\ p.seq \in 1 .. MaxPackets /\ p.denom \in Denoms /\ p.amount \in Amounts
           /\ p.sender \in Accounts /\ p.state \in {"sent", "received", "rejected"}
           /\ p.amount \in Nat /\ p.amount \in Nat \ {0}
           /\ \A d : Weight(p, d) \in Nat
  BY ParameterAssumption DEF Packet, Amounts, Weight

\* By sequence number, what a set of packets holds in escrow.
LEMMA UnsettledAt ==
    ASSUME NEW ps, Numbered(ps), NEW d
    PROVE  /\ \A p \in ps : Unsettled(ps, d)[p.seq] = Weight(p, d)
           /\ \A s \in 1 .. MaxPackets : (\A p \in ps : p.seq # s) => Unsettled(ps, d)[s] = 0
           /\ \A s \in 1 .. MaxPackets : Unsettled(ps, d)[s] \in Nat
<1>1. ASSUME NEW p \in ps PROVE Unsettled(ps, d)[p.seq] = Weight(p, d)
  <2>1. p.seq \in 1 .. MaxPackets
    BY PacketFields DEF Numbered
  <2>2. (CHOOSE q \in ps : q.seq = p.seq) = p
    BY DEF Numbered
  <2>3. \A q \in ps : q.seq = p.seq => q = p
    BY DEF Numbered
  <2>4. QED
    BY <2>1, <2>2, <2>3 DEF Unsettled, Weight
<1>2. ASSUME NEW s \in 1 .. MaxPackets, \A p \in ps : p.seq # s PROVE Unsettled(ps, d)[s] = 0
  BY <1>2 DEF Unsettled
<1>3. ASSUME NEW s \in 1 .. MaxPackets PROVE Unsettled(ps, d)[s] \in Nat
  <2>1. CASE \A p \in ps : p.seq # s
    BY <1>2, <2>1
  <2>2. CASE \E p \in ps : p.seq = s
    <3>1. PICK p \in ps : p.seq = s
      BY <2>2
    <3>2. Weight(p, d) \in Nat
      BY PacketFields DEF Numbered
    <3>3. QED
      BY <1>1, <3>1, <3>2
  <2>3. QED
    BY <2>1, <2>2
<1>4. QED
  BY <1>1, <1>2, <1>3

\* What is in flight is an amount.
LEMMA InFlightType ==
    ASSUME NEW ps, Numbered(ps), NEW d
    PROVE  InFlight(ps, d) \in Nat
<1>1. IsFiniteSet(1 .. MaxPackets)
  BY FS_Interval, ParameterAssumption
<1>2. QED
  BY <1>1, UnsettledAt, SumOnType DEF InFlight

\* Two sums by sequence number that differ at one.
LEMMA NumberChange ==
    ASSUME NEW f, NEW g, NEW i \in 1 .. MaxPackets,
           \A s \in 1 .. MaxPackets : f[s] \in Nat /\ g[s] \in Nat /\ (s # i => g[s] = f[s])
    PROVE  /\ SumOn(1 .. MaxPackets, g) = SumOn(1 .. MaxPackets, f) - f[i] + g[i]
           /\ SumOn(1 .. MaxPackets, f) \in Nat
<1>1. PICK S : S = 1 .. MaxPackets
  OBVIOUS
<1>2. IsFiniteSet(S)
  BY <1>1, FS_Interval, ParameterAssumption
<1>3. PICK j : j = i
  OBVIOUS
<1>4. j \in S /\ \A s \in S : f[s] \in Nat /\ g[s] \in Nat /\ (s # j => g[s] = f[s])
  BY <1>1, <1>3
<1>5. SumOn(S, g) = SumOn(S, f) - f[j] + g[j] /\ SumOn(S, f) \in Nat
  BY <1>2, <1>4, SumOnChange
<1>6. QED
  BY <1>1, <1>3, <1>5

\* A packet with a new sequence number adds its weight.
LEMMA AddPacket ==
    ASSUME NEW ps, Numbered(ps), NEW p \in Packet, \A q \in ps : q.seq # p.seq
    PROVE  /\ Numbered(ps \cup {p})
           /\ \A d : InFlight(ps \cup {p}, d) = InFlight(ps, d) + Weight(p, d)
<1>1. Numbered(ps \cup {p})
  BY DEF Numbered
<1>2. ASSUME NEW d PROVE InFlight(ps \cup {p}, d) = InFlight(ps, d) + Weight(p, d)
  <2> DEFINE S == 1 .. MaxPackets
  <2>2. PICK f, g : f = Unsettled(ps, d) /\ g = Unsettled(ps \cup {p}, d)
    OBVIOUS
  <2>3. p.seq \in S /\ Weight(p, d) \in Nat
    BY PacketFields
  <2>4. \A s \in S : f[s] \in Nat /\ g[s] \in Nat
    BY <1>1, <2>2, UnsettledAt
  <2>5. f[p.seq] = 0 /\ g[p.seq] = Weight(p, d)
    BY <1>1, <2>2, <2>3, UnsettledAt
  <2>6. ASSUME NEW s \in S, s # p.seq PROVE g[s] = f[s]
    <3>1. CASE \A q \in ps : q.seq # s
      <4>1. \A q \in ps \cup {p} : q.seq # s
        BY <2>6, <3>1
      <4>2. QED
        BY <1>1, <2>2, <3>1, <4>1, UnsettledAt
    <3>2. CASE \E q \in ps : q.seq = s
      BY <1>1, <2>2, <3>2, UnsettledAt
    <3>3. QED
      BY <3>1, <3>2
  <2>7. SumOn(S, g) = SumOn(S, f) - f[p.seq] + g[p.seq] /\ SumOn(S, f) \in Nat
    BY <2>3, <2>4, <2>6, NumberChange
  <2>8. QED
    BY <2>2, <2>3, <2>5, <2>7 DEF InFlight
<1>3. QED
  BY <1>1, <1>2

\* A packet taken out takes its weight out.
LEMMA RemovePacket ==
    ASSUME NEW ps, Numbered(ps), NEW p \in ps
    PROVE  /\ Numbered(ps \ {p}) /\ p \in Packet /\ \A q \in ps \ {p} : q.seq # p.seq
           /\ \A d : InFlight(ps, d) = InFlight(ps \ {p}, d) + Weight(p, d)
           /\ \A d : InFlight(ps \ {p}, d) \in Nat /\ Weight(p, d) \in Nat
<1>1. Numbered(ps \ {p}) /\ p \in Packet /\ \A q \in ps \ {p} : q.seq # p.seq
  BY DEF Numbered
<1>2. (ps \ {p}) \cup {p} = ps
  OBVIOUS
<1>3. \A d : InFlight((ps \ {p}) \cup {p}, d) = InFlight(ps \ {p}, d) + Weight(p, d)
  BY <1>1, AddPacket
<1>4. \A d : InFlight(ps \ {p}, d) \in Nat /\ Weight(p, d) \in Nat
  BY <1>1, InFlightType, PacketFields
<1>5. QED
  BY <1>1, <1>2, <1>3, <1>4

\* When fewer packets than numbers are in use, the smallest number free is free.
LEMMA FreeNumber ==
    ASSUME NEW ps, Numbered(ps), Cardinality(ps) < MaxPackets
    PROVE  LET s == Min((1 .. MaxPackets) \ {p.seq : p \in ps})
           IN  s \in 1 .. MaxPackets /\ \A p \in ps : p.seq # s
<1> DEFINE all == 1 .. MaxPackets
           used == {p.seq : p \in ps}
           free == all \ used
           f == [p \in ps |-> p.seq]
           R == {q \in Nat \X Nat : q[1] < q[2]}
<1>1. MaxPackets \in Nat /\ IsFiniteSet(all) /\ Cardinality(all) = MaxPackets
  BY FS_Interval, ParameterAssumption
<1>2. f \in Injection(ps, all)
  <2>1. f \in [ps -> all]
    BY PacketFields DEF Numbered
  <2>2. \A p, q \in ps : f[p] = f[q] => p = q
    BY DEF Numbered
  <2>3. QED
    BY <2>1, <2>2 DEF Injection, IsInjective
<1>3. IsFiniteSet(ps) /\ Cardinality(ps) \in Nat
  BY <1>1, <1>2, FS_Injection, FS_CardinalityType
<1>4. free # {}
  <2> SUFFICES ASSUME all \subseteq used PROVE FALSE
    OBVIOUS
  <2>1. f \in Surjection(ps, all)
    <3>1. f \in [ps -> all]
      BY PacketFields DEF Numbered
    <3>2. \A s \in all : \E p \in ps : f[p] = s
      OBVIOUS
    <3>3. QED
      BY <3>1, <3>2 DEF Surjection
  <2>2. Cardinality(all) <= Cardinality(ps)
    BY <1>3, <2>1, FS_Surjection
  <2>3. QED
    BY <1>1, <1>3, <2>2
<1>5. IsWellFoundedOn(R, Nat)
  <2>1. OpToRel(<, Nat) = R
    BY DEF OpToRel
  <2>2. QED
    BY <2>1, NatLessThanWellFounded
<1>6. free \subseteq Nat
  BY <1>1
<1> HIDE DEF free
<1>7. PICK s \in free : \A t \in free : <<t, s>> \notin R
  BY <1>4, <1>5, <1>6, WFMin
<1>8. \A t \in free : s <= t
  <2> SUFFICES ASSUME NEW t \in free, t < s PROVE FALSE
    BY <1>6, <1>7
  <2>1. <<t, s>> \in R
    BY <1>6, <1>7
  <2>2. QED
    BY <1>7, <2>1
<1>9. Min(free) \in free
  BY <1>7, <1>8 DEF Min
<1>10. QED
  BY <1>9 DEF free

(***************************************************************************)
(* Conversions and ICS20.                                                  *)
(***************************************************************************)
Money(cs, ts, sk) ==
    /\ cs \in CoinBalances /\ ts \in TokenBalances /\ sk \in Skims
    /\ Covered(cs, ts, status, sk) /\ Unissued(cs, metadata)

\* The names of a contract's pair.
LEMMA NativePair ==
    ASSUME NEW pair \in TokenPair, Shaped(pair)
    PROVE  /\ IsNativeERC20(pair) => pair.denom \in NativeDenoms
           /\ pair.denom \in NativeDenoms =>
                 /\ IsNativeERC20(pair) /\ pair.denom \in Denoms
                 /\ pair.erc20 = pair.denom[2] /\ pair.erc20 \in Contracts
  BY Names DEF Shaped, IsNativeERC20

\* Only c, whose balances became u, can have taken something on top.
SkimmedBy(sk, c, u, how) ==
    /\ sk \in Skims /\ \A x \in Contracts : x # c => sk[x] = skimmed[x]
    /\ sk[c] >= skimmed[c] /\ sk[c] \in Nat /\ skimmed[c] \in Nat
    /\ how = "takesMore" /\ u # tokens[c] => sk[c] = skimmed[c] + 1

\* What is taken on top is counted for the contract whose balances changed.
LEMMA SkimmedOne ==
    ASSUME skimmed \in Skims, tokens \in TokenBalances, NEW c \in Contracts, NEW u, NEW how
    PROVE  SkimmedBy(Skimmed([tokens EXCEPT ![c] = u], how), c, u, how)
<1>1. PICK ts : ts = [tokens EXCEPT ![c] = u]
  OBVIOUS
<1>2. ts[c] = u /\ \A x \in Contracts : x # c => ts[x] = tokens[x]
  BY <1>1 DEF TokenBalances
<1>3. PICK top : top = [x \in Contracts |-> IF how = "takesMore" /\ ts[x] # tokens[x] THEN 1 ELSE 0]
  OBVIOUS
<1>4. \A x \in Contracts : top[x] \in Nat /\ skimmed[x] \in Nat /\ (x # c => top[x] = 0)
  BY <1>2, <1>3 DEF Skims
<1>5. how = "takesMore" /\ u # tokens[c] => top[c] = 1
  BY <1>2, <1>3
<1>6. PICK sk : sk = Skimmed(ts, how)
  OBVIOUS
<1>7. sk = [x \in Contracts |-> skimmed[x] + top[x]]
  BY <1>3, <1>6 DEF Skimmed
<1>8. sk \in Skims /\ \A x \in Contracts : sk[x] = skimmed[x] + top[x]
  BY <1>4, <1>7 DEF Skims
<1>9. SkimmedBy(sk, c, u, how)
  BY <1>4, <1>5, <1>8 DEF SkimmedBy
<1>10. QED
  BY <1>1, <1>6, <1>9

\* Nothing is taken on top where no balance changed.
LEMMA SkimmedStill ==
    ASSUME skimmed \in Skims, NEW how
    PROVE  Skimmed(tokens, how) = skimmed
  BY DEF Skimmed, Skims

\* A conversion of tokens that succeeds mints what the module's tokens grew by.
LEMMA ConvertsIn ==
    ASSUME NEW pair \in TokenPair, Shaped(pair), pair.denom \in NativeDenoms, pair.denom \in metadata,
           Money(coins, tokens, skimmed), NEW n \in Nat \ {0}, NEW receiver \in Accounts, NEW sender \in Accounts,
           NEW how, NEW done,
           done = convertERC20IntoCoinsForNativeToken(pair, n, receiver, sender, how), done.ok
    PROVE  /\ Money(done.coins, done.tokens, skimmed)
           /\ \A e \in NativeDenoms : done.coins[e][Escrow] = coins[e][Escrow]
           /\ done.coins[pair.denom][receiver] = coins[pair.denom][receiver] + n
<1>1. PICK d : d = pair.denom
  OBVIOUS
<1>2. d \in NativeDenoms /\ d \in Denoms /\ pair.erc20 = d[2] /\ d[2] \in Contracts
  BY <1>1, NativePair
<1>3. coins[d] \in [Holders -> Nat] /\ tokens[d[2]] \in [Holders -> Nat]
  BY <1>2 DEF Money, CoinBalances, TokenBalances
<1>4. /\ receiver \in Holders \ {Module} /\ sender \in Holders \ {Module} /\ Module \in Holders
      /\ sender # Module /\ receiver # Escrow
  BY HoldersFinite
<1>5. PICK u : u = Transfer(tokens[d[2]], sender, Module, n, how).bal
  OBVIOUS
<1>6. PICK b : b = [coins[d] EXCEPT ![receiver] = @ + n]
  OBVIOUS
<1>7. /\ done.coins = [coins EXCEPT ![d] = b] /\ done.tokens = [tokens EXCEPT ![d[2]] = u]
      /\ EscrowGrew(tokens[d[2]], u, n)
  <2>1. done.coins = [coins EXCEPT ![d][receiver] = @ + n]
    BY <1>1 DEF convertERC20IntoCoinsForNativeToken
  <2>2. done.coins = [coins EXCEPT ![d] = b]
    BY <1>6, <2>1
  <2>3. done.tokens = [tokens EXCEPT ![d[2]] = u]
    BY <1>2, <1>5 DEF convertERC20IntoCoinsForNativeToken
  <2>4. EscrowGrew(tokens[d[2]], u, n)
    BY <1>2, <1>5 DEF convertERC20IntoCoinsForNativeToken
  <2>5. QED
    BY <2>2, <2>3, <2>4
<1>8. u \in [Holders -> Nat] /\ u[Module] = tokens[d[2]][Module] + n
  BY <1>3, <1>4, <1>5, <1>7, TransferBalances DEF EscrowGrew
<1>9. b \in [Holders -> Nat] /\ Held(coins[d]) \in Nat /\ Held(b) = Held(coins[d]) + n
  BY <1>3, <1>4, <1>6, MintHeld
<1>10. tokens[d[2]][Module] \in Nat /\ skimmed[d[2]] \in Nat
  BY <1>2, <1>3, <1>4 DEF Money, Skims
<1>11. Grown(tokens[d[2]], skimmed[d[2]], coins[d], u, skimmed[d[2]], b)
  BY <1>8, <1>9, <1>10 DEF Grown
<1>12. Money(done.coins, done.tokens, skimmed)
  BY <1>1, <1>2, <1>7, <1>8, <1>9, <1>11, OneDenom DEF Money
<1>13. /\ \A e \in NativeDenoms : done.coins[e][Escrow] = coins[e][Escrow]
       /\ done.coins[d][receiver] = coins[d][receiver] + n
  BY <1>2, <1>3, <1>4, <1>6, <1>7, Names, HoldersFinite DEF Money, CoinBalances
<1>14. QED
  BY <1>1, <1>12, <1>13

\* A conversion of coins, even one that stops half way, releases no more tokens than the
\* coins it takes out of circulation.  One that succeeds gives the receiver the amount.
LEMMA ConvertsOut ==
    ASSUME NEW pair \in TokenPair, Shaped(pair), pair.denom \in NativeDenoms, pair.denom \in metadata,
           NEW cs, Money(cs, tokens, skimmed), NEW n \in Nat \ {0}, NEW receiver \in Accounts,
           NEW sender \in Accounts, NEW how, NEW done,
           done = ConvertCoinNativeERC20(cs, pair, n, receiver, sender, how)
    PROVE  /\ Money(done.coins, done.tokens, Skimmed(done.tokens, how))
           /\ \A e \in NativeDenoms : done.coins[e][Escrow] = cs[e][Escrow]
           /\ done.ok => /\ done.coins[pair.denom][sender] = cs[pair.denom][sender] - n
                         /\ done.tokens[pair.erc20][receiver] = tokens[pair.erc20][receiver] + n
                         /\ cs[pair.denom][sender] >= n
<1>1. PICK d : d = pair.denom
  OBVIOUS
<1>2. d \in NativeDenoms /\ d \in Denoms /\ pair.erc20 = d[2] /\ d[2] \in Contracts
  BY <1>1, NativePair
<1>3. cs[d] \in [Holders -> Nat] /\ tokens[d[2]] \in [Holders -> Nat]
  BY <1>2 DEF Money, CoinBalances, TokenBalances
<1>4. /\ receiver \in Holders \ {Module} /\ sender \in Holders \ {Module} /\ Module \in Holders
      /\ receiver # Module /\ sender # Escrow
  BY HoldersFinite
<1>5. PICK u : u = Transfer(tokens[d[2]], Module, receiver, n, how).bal
  OBVIOUS
<1>6. PICK m : m = Move(cs[d], sender, Module, n)
  OBVIOUS
<1>9. PICK sk :
         /\ sk = Skimmed([tokens EXCEPT ![d[2]] = u], how)
         /\ sk \in Skims /\ \A x \in Contracts : x # d[2] => sk[x] = skimmed[x]
         /\ sk[d[2]] >= skimmed[d[2]] /\ sk[d[2]] \in Nat /\ skimmed[d[2]] \in Nat
         /\ how = "takesMore" /\ u # tokens[d[2]] => sk[d[2]] = skimmed[d[2]] + 1
  <2>1. PICK sk : sk = Skimmed([tokens EXCEPT ![d[2]] = u], how)
    OBVIOUS
  <2>2. SkimmedBy(sk, d[2], u, how)
    BY <1>2, <2>1, SkimmedOne DEF Money
  <2>3. QED
    BY <2>1, <2>2 DEF SkimmedBy
<1>7. CASE BalanceOf(d[2], receiver) = None \/ cs[d][sender] < n
  <2>1. done = [ok |-> FALSE, coins |-> cs, tokens |-> tokens]
    BY <1>1, <1>2, <1>7 DEF ConvertCoinNativeERC20
  <2>2. done.ok = FALSE /\ done.coins = cs /\ done.tokens = tokens
    BY <2>1
  <2>3. Skimmed(done.tokens, how) = skimmed
    BY <2>2, SkimmedStill DEF Money
  <2>4. QED
    BY <2>2, <2>3
<1>8. CASE BalanceOf(d[2], receiver) # None /\ cs[d][sender] >= n
  <2>1. /\ m \in [Holders -> Nat] /\ m[Module] = cs[d][Module] + n /\ m[sender] = cs[d][sender] - n
        /\ m[Escrow] = cs[d][Escrow]
    <3>1. /\ m \in [Holders -> Nat]
          /\ \A h \in Holders : m[h] = IF sender = Module \/ h \notin {sender, Module} THEN cs[d][h]
                                        ELSE IF h = sender THEN cs[d][h] - n ELSE cs[d][h] + n
      BY <1>3, <1>4, <1>6, <1>8, MoveType
    <3>2. sender # Module /\ Escrow \notin {sender, Module} /\ Escrow \in Holders
      BY <1>4, HoldersFinite
    <3>3. QED
      BY <1>4, <3>1, <3>2
  <2>2. Held(cs[d]) \in Nat /\ Held(m) = Held(cs[d]) - n
    BY <1>3, <1>4, <1>6, <1>8, MoveHeld
  <2>3. /\ u \in [Holders -> Nat] /\ u[Module] + sk[d[2]] >= tokens[d[2]][Module] + skimmed[d[2]] - n
        /\ tokens[d[2]][Module] \in Nat /\ u[Module] \in Nat
        /\ sk[d[2]] \in Nat /\ skimmed[d[2]] \in Nat
    <3>1. PICK top : top = OnTop(tokens[d[2]], Module, n, how)
      OBVIOUS
    <3>2. /\ u \in [Holders -> Nat] /\ u[Module] + top >= tokens[d[2]][Module] - n
          /\ (top # 0 => u # tokens[d[2]])
      <4>1. PICK v : v = tokens[d[2]]
        OBVIOUS
      <4>2. v \in [Holders -> Nat] /\ receiver \in Holders /\ Module # receiver
        BY <1>3, <1>4, <4>1
      <4>3. QED
        BY <1>4, <1>5, <3>1, <4>1, <4>2, TransferBalances
    <3>5. tokens[d[2]][Module] \in Nat /\ u[Module] \in Nat
      BY <1>3, <1>4, <3>2
    <3>3. top = 0 \/ (top = 1 /\ how = "takesMore")
      BY <3>1 DEF OnTop
    <3>4. QED
      BY <1>9, <3>2, <3>3, <3>5
  <2>4. /\ BalanceOf(d[2], receiver) = tokens[d[2]][receiver]
        /\ (cs[d][sender] < n) = FALSE /\ (BalanceOf(d[2], receiver) = None) = FALSE
    BY <1>3, <1>4, <1>8 DEF BalanceOf
  <2>5. ASSUME NEW b \in [Holders -> Nat], Held(b) = Held(m), NEW cs2, cs2 = [cs EXCEPT ![d] = b],
               NEW ts2, ts2 = [tokens EXCEPT ![d[2]] = u], b[Escrow] = m[Escrow]
        PROVE  Money(cs2, ts2, sk) /\ \A e \in NativeDenoms : cs2[e][Escrow] = cs[e][Escrow]
    <3>1. Grown(tokens[d[2]], skimmed[d[2]], cs[d], u, sk[d[2]], b)
      BY <2>2, <2>3, <2>5 DEF Grown
    <3>2. Money(cs2, ts2, sk)
      <4>1. /\ cs \in CoinBalances /\ tokens \in TokenBalances /\ skimmed \in Skims
            /\ Covered(cs, tokens, status, skimmed) /\ Unissued(cs, metadata) /\ d \in metadata
        BY <1>1 DEF Money
      <4>2. /\ cs2 \in CoinBalances /\ ts2 \in TokenBalances
            /\ Covered(cs2, ts2, status, sk) /\ Unissued(cs2, metadata)
        <5>1. d \in metadata \/ \A h \in Holders : b[h] = 0
          BY <4>1
        <5>2. \A c \in Contracts : c # d[2] => sk[c] = skimmed[c]
          BY <1>9
        <5>3. u \in [Holders -> Nat] /\ sk \in Skims /\ b \in [Holders -> Nat] /\ d \in NativeDenoms
          BY <1>2, <1>9, <2>3, <2>5
        <5>4. /\ [cs EXCEPT ![d] = b] \in CoinBalances /\ [tokens EXCEPT ![d[2]] = u] \in TokenBalances
              /\ Covered([cs EXCEPT ![d] = b], [tokens EXCEPT ![d[2]] = u], status, sk)
              /\ Unissued([cs EXCEPT ![d] = b], metadata)
          BY <3>1, <4>1, <5>1, <5>2, <5>3, OneDenom
        <5>5. QED
          BY <2>5, <5>4
      <4>3. QED
        BY <1>9, <4>2 DEF Money
    <3>3. QED
      BY <1>2, <2>1, <2>5, <3>2, Names DEF Money, CoinBalances
  <2>6. CASE ~ Transfer(tokens[d[2]], Module, receiver, n, how).ok \/ u[receiver] # tokens[d[2]][receiver] + n
    <3>1. done = [ok |-> FALSE, coins |-> [cs EXCEPT ![d] = m], tokens |-> [tokens EXCEPT ![d[2]] = u]]
      <4>1. done = [ok |-> FALSE, coins |-> [cs EXCEPT ![d] = Move(@, sender, Module, n)],
                    tokens |-> [tokens EXCEPT ![d[2]] = u]]
        BY <1>1, <1>2, <1>5, <2>4, <2>6 DEF ConvertCoinNativeERC20
      <4>2. QED
        BY <1>6, <4>1
    <3>2. done.ok = FALSE /\ done.coins = [cs EXCEPT ![d] = m] /\ done.tokens = [tokens EXCEPT ![d[2]] = u]
      BY <3>1
    <3>3. Skimmed(done.tokens, how) = sk
      BY <1>9, <3>2
    <3>4. QED
      BY <2>1, <2>5, <3>2, <3>3
  <2>7. CASE Transfer(tokens[d[2]], Module, receiver, n, how).ok /\ u[receiver] = tokens[d[2]][receiver] + n
    <3>1. PICK b : b = [m EXCEPT ![Module] = @ - n]
      OBVIOUS
    <3>2. done.coins = [cs EXCEPT ![d] = b] /\ done.tokens = [tokens EXCEPT ![d[2]] = u]
      <4>1. /\ done.coins = [[cs EXCEPT ![d] = Move(@, sender, Module, n)] EXCEPT ![d][Module] = @ - n]
            /\ done.tokens = [tokens EXCEPT ![d[2]] = u]
        BY <1>1, <1>2, <1>5, <2>4, <2>7 DEF ConvertCoinNativeERC20
      <4>2. [cs EXCEPT ![d] = Move(@, sender, Module, n)] = [cs EXCEPT ![d] = m]
        BY <1>6
      <4>3. [[cs EXCEPT ![d] = m] EXCEPT ![d][Module] = @ - n] = [cs EXCEPT ![d] = b]
        BY <1>2, <3>1 DEF Money, CoinBalances
      <4>4. QED
        BY <4>1, <4>2, <4>3
    <3>3. /\ b \in [Holders -> Nat] /\ b[Escrow] = m[Escrow] /\ b[sender] = m[sender]
          /\ \A h \in Holders \ {Module} : b[h] = m[h]
      BY <1>3, <1>4, <2>1, <3>1, HoldersFinite
    <3>4. Held(b) = Held(m)
      BY <3>3, SumOnEqual DEF Held
    <3>5. /\ Money(done.coins, done.tokens, Skimmed(done.tokens, how))
          /\ \A e \in NativeDenoms : done.coins[e][Escrow] = cs[e][Escrow]
      <4>1. Skimmed(done.tokens, how) = sk
        BY <1>9, <3>2
      <4>2. QED
        BY <2>5, <3>2, <3>3, <3>4, <4>1
    <3>6. done.coins[d] = b /\ done.tokens[d[2]] = u
      BY <1>2, <3>2 DEF Money, CoinBalances, TokenBalances
    <3>7. QED
      BY <1>1, <1>2, <1>8, <2>1, <2>7, <3>3, <3>5, <3>6
  <2>8. QED
    BY <2>6, <2>7
<1>11. cs[d][sender] \in Nat
  BY <1>3, <1>4
<1>10. QED
  BY <1>7, <1>8, <1>11

\* A denom one of whose coins somebody has is described.
LEMMA IssuedHasMetadata ==
    ASSUME NEW cs, Unissued(cs, metadata), NEW d \in NativeDenoms, NEW h \in Holders,
           NEW n \in Nat \ {0}, cs[d][h] >= n
    PROVE  d \in metadata
  BY DEF Unissued

\* ICS20 sends: the escrow of a contract's denom grows, what is held does not change.
LEMMA SentSound ==
    ASSUME NEW cs, NEW ts, NEW sk, Money(cs, ts, sk), NEW d \in Denoms, NEW from \in Accounts, NEW n \in Nat \ {0},
           cs[d][from] >= n
    PROVE  /\ Money(Sent(cs, d, from, n), ts, sk)
           /\ \A e \in NativeDenoms : e # d => Sent(cs, d, from, n)[e][Escrow] = cs[e][Escrow]
           /\ d \in NativeDenoms => Sent(cs, d, from, n)[d][Escrow] = cs[d][Escrow] + n
<1>1. /\ from \in Holders \ {Module} /\ Escrow \in Holders \ {Module} /\ Escrow # Module
      /\ from # Escrow
  BY HoldersFinite
<1>2. cs[d] \in [Holders -> Nat]
  BY DEF Money, CoinBalances
<1>9. cs \in CoinBalances /\ ts \in TokenBalances /\ sk \in Skims
  BY DEF Money
<1>3. CASE d \in NativeDenoms
  <2>1. PICK b : b = Move(cs[d], from, Escrow, n)
    OBVIOUS
  <2>2. Sent(cs, d, from, n) = [cs EXCEPT ![d] = b]
    BY <1>3, <2>1 DEF Sent
  <2>3. b \in [Holders -> Nat] /\ b[Escrow] = cs[d][Escrow] + n
    <3>1. PICK o : o = cs[d]
      OBVIOUS
    <3>2. o \in [Holders -> Nat] /\ from \in Holders /\ Escrow \in Holders /\ o[from] >= n /\ n \in Nat
      BY <1>1, <1>2, <3>1
    <3>3. /\ b \in [Holders -> Nat]
          /\ \A h \in Holders : b[h] = IF from = Escrow \/ h \notin {from, Escrow} THEN o[h]
                                        ELSE IF h = from THEN o[h] - n ELSE o[h] + n
      BY <2>1, <3>1, <3>2, MoveType
    <3>4. QED
      BY <1>1, <3>1, <3>2, <3>3
  <2>4. Held(b) = Held(cs[d]) /\ Held(cs[d]) \in Nat
    BY <1>1, <1>2, <2>1, MoveHeld
  <2>5. d \in metadata
    BY <1>1, <1>3, IssuedHasMetadata DEF Money
  <2>6. Money(Sent(cs, d, from, n), ts, sk)
    <3>1. Covered(cs, ts, status, sk) /\ Unissued(cs, metadata) /\ Held(b) <= Held(cs[d])
      BY <2>4 DEF Money
    <3>2. /\ [cs EXCEPT ![d] = b] \in CoinBalances
          /\ Covered([cs EXCEPT ![d] = b], ts, status, sk)
          /\ Unissued([cs EXCEPT ![d] = b], metadata)
      BY <1>3, <1>9, <2>3, <2>5, <3>1, OneDenomCoins
    <3>3. QED
      BY <1>2, <2>2, <3>2, <1>9 DEF Money
  <2>7. QED
    BY <1>2, <1>3, <1>9, <2>2, <2>3, <2>6, Names DEF CoinBalances
<1>4. CASE d \notin NativeDenoms
  <2>1. PICK b : b = [cs[d] EXCEPT ![from] = @ - n]
    OBVIOUS
  <2>2. Sent(cs, d, from, n) = [cs EXCEPT ![d] = b]
    BY <1>4, <2>1 DEF Sent
  <2>3. b \in [Holders -> Nat] /\ d \in VoucherDenoms
    BY <1>1, <1>2, <1>4, <1>9, <2>1, Names
  <2>4. QED
    <3>1. Covered(cs, ts, status, sk) /\ Unissued(cs, metadata)
      BY DEF Money
    <3>2. /\ [cs EXCEPT ![d] = b] \in CoinBalances
          /\ Covered([cs EXCEPT ![d] = b], ts, status, sk)
          /\ Unissued([cs EXCEPT ![d] = b], metadata)
          /\ \A e \in NativeDenoms : [cs EXCEPT ![d] = b][e] = cs[e]
      BY <1>9, <2>3, <3>1, OneVoucher
    <3>3. QED
      BY <1>2, <1>4, <1>9, <2>2, <2>3, <3>2, <1>9 DEF Money
<1>5. QED
  BY <1>3, <1>4

\* ICS20 credits: the escrow of a contract's denom pays, or a voucher is minted.
LEMMA ArrivedSound ==
    ASSUME NEW cs, NEW ts, NEW sk, Money(cs, ts, sk), NEW d \in Denoms, NEW to \in Accounts, NEW n \in Nat \ {0},
           d \in NativeDenoms => cs[d][Escrow] >= n
    PROVE  /\ Money(Arrived(cs, d, to, n), ts, sk)
           /\ \A e \in NativeDenoms : e # d => Arrived(cs, d, to, n)[e][Escrow] = cs[e][Escrow]
           /\ d \in NativeDenoms => Arrived(cs, d, to, n)[d][Escrow] = cs[d][Escrow] - n
           /\ d \in NativeDenoms => d \in metadata
           /\ Arrived(cs, d, to, n)[d][to] = cs[d][to] + n
<1>1. /\ to \in Holders \ {Module} /\ Escrow \in Holders \ {Module} /\ Escrow # Module
      /\ to # Escrow
  BY HoldersFinite
<1>2. cs[d] \in [Holders -> Nat]
  BY DEF Money, CoinBalances
<1>9. cs \in CoinBalances /\ ts \in TokenBalances /\ sk \in Skims
  BY DEF Money
<1>3. CASE d \in NativeDenoms
  <2>1. PICK b : b = Move(cs[d], Escrow, to, n)
    OBVIOUS
  <2>2. Arrived(cs, d, to, n) = [cs EXCEPT ![d] = b]
    BY <1>3, <2>1 DEF Arrived
  <2>3. b \in [Holders -> Nat] /\ b[Escrow] = cs[d][Escrow] - n /\ b[to] = cs[d][to] + n
    <3>1. PICK o : o = cs[d]
      OBVIOUS
    <3>2. o \in [Holders -> Nat] /\ to \in Holders /\ Escrow \in Holders /\ o[Escrow] >= n /\ n \in Nat
      BY <1>1, <1>2, <1>3, <3>1
    <3>3. /\ b \in [Holders -> Nat]
          /\ \A h \in Holders : b[h] = IF Escrow = to \/ h \notin {Escrow, to} THEN o[h]
                                        ELSE IF h = Escrow THEN o[h] - n ELSE o[h] + n
      BY <2>1, <3>1, <3>2, MoveType
    <3>4. QED
      BY <1>1, <3>1, <3>2, <3>3
  <2>4. Held(b) = Held(cs[d]) /\ Held(cs[d]) \in Nat
    BY <1>1, <1>2, <1>3, <2>1, MoveHeld
  <2>5. d \in metadata
    BY <1>1, <1>3, IssuedHasMetadata DEF Money
  <2>6. Money(Arrived(cs, d, to, n), ts, sk)
    <3>1. Covered(cs, ts, status, sk) /\ Unissued(cs, metadata) /\ Held(b) <= Held(cs[d])
      BY <2>4 DEF Money
    <3>2. /\ [cs EXCEPT ![d] = b] \in CoinBalances
          /\ Covered([cs EXCEPT ![d] = b], ts, status, sk)
          /\ Unissued([cs EXCEPT ![d] = b], metadata)
      BY <1>3, <1>9, <2>3, <2>5, <3>1, OneDenomCoins
    <3>3. QED
      BY <1>2, <2>2, <3>2, <1>9 DEF Money
  <2>7. QED
    BY <1>2, <1>3, <1>9, <2>2, <2>3, <2>5, <2>6, Names DEF CoinBalances
<1>4. CASE d \notin NativeDenoms
  <2>1. PICK b : b = [cs[d] EXCEPT ![to] = @ + n]
    OBVIOUS
  <2>2. Arrived(cs, d, to, n) = [cs EXCEPT ![d] = b]
    BY <1>4, <2>1 DEF Arrived
  <2>3. b \in [Holders -> Nat] /\ d \in VoucherDenoms /\ b[to] = cs[d][to] + n
    BY <1>1, <1>2, <1>4, <1>9, <2>1, Names
  <2>4. Arrived(cs, d, to, n)[d] = b
    BY <1>2, <1>9, <2>2 DEF CoinBalances
  <2>5. QED
    <3>1. Covered(cs, ts, status, sk) /\ Unissued(cs, metadata)
      BY DEF Money
    <3>2. /\ [cs EXCEPT ![d] = b] \in CoinBalances
          /\ Covered([cs EXCEPT ![d] = b], ts, status, sk)
          /\ Unissued([cs EXCEPT ![d] = b], metadata)
          /\ \A e \in NativeDenoms : [cs EXCEPT ![d] = b][e] = cs[e]
      BY <1>9, <2>3, <3>1, OneVoucher
    <3>3. QED
      BY <1>2, <1>4, <1>9, <2>2, <2>3, <2>4, <3>2, <1>9 DEF Money
<1>5. QED
  BY <1>3, <1>4

(***************************************************************************)
(* Steps.                                                                  *)
(***************************************************************************)
\* What has to be shown of a step that changes no parameter and no name.
LEMMA StepParts ==
    ASSUME Inv, UNCHANGED <<params, metadata, status, noSend>>,
           reg' \in Stores, PairsFiled(reg'), Described(reg', metadata),
           Money(coins', tokens', skimmed'), Numbered(packets'), remote' \in [Denoms -> Nat],
           Escrowed(coins', packets', remote'),
           granted' \in [Grants -> Nat], pulled' \in [Grants -> Nat], Within(reg', granted', pulled')
    PROVE  Inv'
<1>1. ParamsOK' /\ NamesOK'
  BY DEF Inv, ParamsOK, NamesOK
<1>2. StoreOK'
  BY DEF StoreOK
<1>3. CoinsOK' /\ TokensOK'
  BY DEF CoinsOK, TokensOK, Money
<1>4. PacketsOK' /\ GrantsOK'
  BY DEF PacketsOK, GrantsOK
<1>5. QED
  BY <1>1, <1>2, <1>3, <1>4 DEF Inv

\* A step of coins, tokens and packets.
LEMMA MoneyStep ==
    ASSUME Inv, UNCHANGED <<params, reg, metadata, status, noSend, granted, pulled>>,
           Money(coins', tokens', skimmed'), Numbered(packets'), remote' \in [Denoms -> Nat],
           Escrowed(coins', packets', remote')
    PROVE  Inv'
<1>1. /\ reg' \in Stores /\ PairsFiled(reg') /\ Described(reg', metadata)
      /\ granted' \in [Grants -> Nat] /\ pulled' \in [Grants -> Nat]
      /\ Within(reg', granted', pulled')
  BY DEF Inv, StoreOK, GrantsOK
<1>2. QED
  BY <1>1, StepParts

\* A step of the store and the allowances.
LEMMA StoreStep ==
    ASSUME Inv, UNCHANGED <<params, metadata, coins, tokens, status, noSend, packets, remote, skimmed>>,
           reg' \in Stores, PairsFiled(reg'), Described(reg', metadata),
           granted' \in [Grants -> Nat], pulled' \in [Grants -> Nat], Within(reg', granted', pulled')
    PROVE  Inv'
<1>1. /\ Money(coins', tokens', skimmed') /\ Numbered(packets') /\ remote' \in [Denoms -> Nat]
      /\ Escrowed(coins', packets', remote')
  BY DEF Inv, CoinsOK, TokensOK, PacketsOK, Money
<1>2. QED
  BY <1>1, StepParts

\* A store with no more pairs is described as before.
LEMMA DescribedStill ==
    ASSUME NEW r, NEW t, NEW md, Described(r, md), \A id \in Ids : t.pairs[id] # None => r.pairs[id] # None
    PROVE  Described(t, md)
  BY DEF Described

\* The escrow is untouched, so it still pays for the packets.
LEMMA EscrowStill ==
    ASSUME NEW cs, Escrowed(coins, packets, remote),
           \A e \in NativeDenoms : cs[e][Escrow] = coins[e][Escrow]
    PROVE  Escrowed(cs, packets, remote)
  BY DEF Escrowed

\* The pair of a name is filed under it and, if it is a contract's, described.
LEMMA PairOfType ==
    ASSUME Inv, NEW token \in Addresses \cup Denoms, PairOf(token) # None
    PROVE  /\ PairOf(token) \in TokenPair /\ Shaped(PairOf(token))
           /\ reg.pairs[GetID(PairOf(token))] = PairOf(token)
           /\ token \in Addresses => PairOf(token).erc20 = token
           /\ token \in Denoms => PairOf(token).denom = token
           /\ PairOf(token).denom \in NativeDenoms => PairOf(token).denom \in metadata
<1>1. reg \in Stores /\ PairsFiled(reg) /\ Described(reg, metadata)
  BY DEF Inv, StoreOK
<1>2. PICK pair : pair = PairOf(token)
  OBVIOUS
<1>3. pair \in TokenPair /\ Shaped(pair) /\ reg.pairs[GetID(pair)] = pair
      /\ (token \in Addresses => pair.erc20 = token)
      /\ (token \in Denoms => pair.denom = token)
  <2>1. CASE token \in Addresses
    <3>1. pair = GetTokenPair(reg, reg.erc20Map[token]) /\ token \notin Denoms
      BY <1>2, <2>1, NamesAssumption DEF PairOf, GetTokenPairID
    <3>2. QED
      BY <1>1, <1>2, <2>1, <3>1, PairFound
  <2>2. CASE token \notin Addresses
    <3>1. pair = GetTokenPair(reg, reg.denomMap[token]) /\ token \in Denoms
      BY <1>2, <2>2 DEF PairOf, GetTokenPairID
    <3>2. QED
      BY <1>1, <1>2, <2>2, <3>1, PairFound
  <2>3. QED
    BY <2>1, <2>2
<1>4. GetID(pair) \in Ids /\ GetID(pair)[2] = pair.denom /\ pair # None
  BY <1>3, IdType
<1>5. pair.denom \in NativeDenoms => pair.denom \in metadata
  BY <1>1, <1>3, <1>4 DEF Described
<1>6. QED
  BY <1>2, <1>3, <1>5

\* The parts of the invariant, by name.
LEMMA InvMoney ==
    ASSUME Inv
    PROVE  /\ Money(coins, tokens, skimmed) /\ Numbered(packets) /\ remote \in [Denoms -> Nat]
           /\ Escrowed(coins, packets, remote)
           /\ reg \in Stores /\ PairsFiled(reg) /\ Described(reg, metadata)
           /\ granted \in [Grants -> Nat] /\ pulled \in [Grants -> Nat]
           /\ Within(reg, granted, pulled)
  BY DEF Inv, Money, CoinsOK, TokensOK, PacketsOK, StoreOK, GrantsOK

\* Amounts are positive.
LEMMA AmountType == \A n \in Amounts : n \in Nat \ {0} /\ n \in Nat
  BY ParameterAssumption DEF Amounts

\* A pair that may be converted is the one found.
LEMMA Enabled ==
    ASSUME NEW sender, NEW receiver, NEW token, MintingEnabled(sender, receiver, token) # None
    PROVE  MintingEnabled(sender, receiver, token) = PairOf(token) /\ PairOf(token) # None
  BY DEF MintingEnabled

\* The removal of the pair of a contract that is gone keeps the invariant.
LEMMA DeleteInv ==
    ASSUME Inv, NEW pair \in TokenPair, reg.pairs[GetID(pair)] = pair, DeleteDestroyed(pair)
    PROVE  Inv'
<1>1. /\ reg' = DeleteTokenPair(reg, pair)
      /\ UNCHANGED <<params, metadata, coins, tokens, status, noSend, packets, remote, granted, pulled, skimmed>>
  BY DEF DeleteDestroyed, outside, ibc, history, grants
<1>2. /\ reg' \in Stores /\ PairsFiled(reg')
      /\ \A g \in Grants : reg'.allowances[g] <= reg.allowances[g]
      /\ \A id \in Ids : reg'.pairs[id] # None => reg.pairs[id] # None
  BY <1>1, InvMoney, DeleteFiles
<1>3. Described(reg', metadata)
  BY <1>2, InvMoney, DescribedStill
<1>4. Within(reg', granted', pulled')
  <2> SUFFICES ASSUME NEW g \in Grants PROVE reg'.allowances[g] + pulled[g] <= granted[g]
    BY <1>1 DEF Within
  <2>1. /\ reg'.allowances[g] \in Nat /\ reg.allowances[g] \in Nat
        /\ pulled[g] \in Nat /\ granted[g] \in Nat
    BY <1>2, InvMoney DEF Stores
  <2>2. reg.allowances[g] + pulled[g] <= granted[g]
    BY InvMoney DEF Within
  <2>3. QED
    BY <1>2, <2>1, <2>2
<1>5. QED
  BY <1>1, <1>2, <1>3, <1>4, InvMoney, StoreStep

\* ConvertERC20 keeps the invariant.
LEMMA ConvertERC20Inv ==
    ASSUME Inv, NEW a \in Accounts, NEW b \in Accounts, NEW t \in Addresses, NEW n \in Amounts, NEW how,
           ConvertERC20(a, b, t, n, how)
    PROVE  Inv'
<1>1. PICK pair : pair = MintingEnabled(a, b, t)
  OBVIOUS
<1>2. /\ pair # None /\ IsNativeERC20(pair)
      /\ \/ DeleteDestroyed(pair)
         \/ /\ convertERC20IntoCoinsForNativeToken(pair, n, b, a, how).ok
            /\ coins' = convertERC20IntoCoinsForNativeToken(pair, n, b, a, how).coins
            /\ tokens' = convertERC20IntoCoinsForNativeToken(pair, n, b, a, how).tokens
            /\ UNCHANGED <<params, reg, metadata, outside, ibc, history>>
  BY <1>1 DEF ConvertERC20
<1>3. /\ pair \in TokenPair /\ Shaped(pair) /\ reg.pairs[GetID(pair)] = pair
      /\ pair.denom \in NativeDenoms /\ pair.denom \in metadata
  BY <1>1, <1>2, Enabled, PairOfType, NativePair
<1>4. CASE DeleteDestroyed(pair)
  BY <1>3, <1>4, DeleteInv
<1>5. CASE /\ convertERC20IntoCoinsForNativeToken(pair, n, b, a, how).ok
           /\ coins' = convertERC20IntoCoinsForNativeToken(pair, n, b, a, how).coins
           /\ tokens' = convertERC20IntoCoinsForNativeToken(pair, n, b, a, how).tokens
           /\ UNCHANGED <<params, reg, metadata, outside, ibc, history>>
  <2>1. PICK done : done = convertERC20IntoCoinsForNativeToken(pair, n, b, a, how)
    OBVIOUS
  <2>2. UNCHANGED <<params, reg, metadata, status, noSend, packets, remote, granted, pulled, skimmed>>
    BY <1>5 DEF outside, ibc, history, grants
  <2>3. Money(done.coins, done.tokens, skimmed) /\ \A e \in NativeDenoms : done.coins[e][Escrow] = coins[e][Escrow]
    BY <1>3, <1>5, <2>1, ConvertsIn, AmountType, InvMoney
  <2>4. Escrowed(coins', packets, remote) /\ Money(coins', tokens', skimmed')
    BY <1>5, <2>1, <2>2, <2>3, EscrowStill, InvMoney
  <2>5. QED
    BY <2>2, <2>4, InvMoney, MoneyStep
<1>6. QED
  BY <1>2, <1>4, <1>5

\* ConvertCoin keeps the invariant.
LEMMA ConvertCoinInv ==
    ASSUME Inv, NEW a \in Accounts, NEW b \in Accounts, NEW t \in Addresses \cup Denoms, NEW n \in Amounts,
           NEW how, ConvertCoin(a, b, t, n, how)
    PROVE  Inv'
<1>1. PICK pair : pair = MintingEnabled(a, b, t)
  OBVIOUS
<1>2. /\ pair # None /\ IsNativeERC20(pair)
      /\ \/ DeleteDestroyed(pair)
         \/ /\ coins' = ConvertCoinNativeERC20(coins, pair, n, b, a, how).coins
            /\ tokens' = ConvertCoinNativeERC20(coins, pair, n, b, a, how).tokens
            /\ skimmed' = Skimmed(ConvertCoinNativeERC20(coins, pair, n, b, a, how).tokens, how)
            /\ UNCHANGED <<params, reg, metadata, outside, ibc, grants>>
  BY <1>1 DEF ConvertCoin
<1>3. /\ pair \in TokenPair /\ Shaped(pair) /\ reg.pairs[GetID(pair)] = pair
      /\ pair.denom \in NativeDenoms /\ pair.denom \in metadata
  BY <1>1, <1>2, Enabled, PairOfType, NativePair
<1>4. CASE DeleteDestroyed(pair)
  BY <1>3, <1>4, DeleteInv
<1>5. CASE /\ coins' = ConvertCoinNativeERC20(coins, pair, n, b, a, how).coins
           /\ tokens' = ConvertCoinNativeERC20(coins, pair, n, b, a, how).tokens
           /\ skimmed' = Skimmed(ConvertCoinNativeERC20(coins, pair, n, b, a, how).tokens, how)
           /\ UNCHANGED <<params, reg, metadata, outside, ibc, grants>>
  <2>1. PICK done : done = ConvertCoinNativeERC20(coins, pair, n, b, a, how)
    OBVIOUS
  <2>2. UNCHANGED <<params, reg, metadata, status, noSend, packets, remote, granted, pulled>>
    BY <1>5 DEF outside, ibc, grants
  <2>3. /\ Money(done.coins, done.tokens, Skimmed(done.tokens, how))
        /\ \A e \in NativeDenoms : done.coins[e][Escrow] = coins[e][Escrow]
    BY <1>3, <2>1, ConvertsOut, AmountType, InvMoney
  <2>4. Escrowed(coins', packets, remote) /\ Money(coins', tokens', skimmed')
    BY <1>5, <2>1, <2>3, EscrowStill, InvMoney
  <2>5. QED
    BY <2>2, <2>4, InvMoney, MoneyStep
<1>6. QED
  BY <1>2, <1>4, <1>5

\* Registration of a contract keeps the invariant.
LEMMA RegisterInv ==
    ASSUME Inv, NEW signer, NEW c \in Contracts, RegisterERC20(signer, c)
    PROVE  Inv'
<1>1. PICK pair : pair = NewTokenPair(c)
  OBVIOUS
<1>2. PICK d : d = CreateDenom(c)
  OBVIOUS
<1>3. /\ SetToken(reg, pair).ok /\ reg' = SetToken(reg, pair).r /\ metadata' = metadata \cup {d}
      /\ UNCHANGED <<params, coins, tokens, status, noSend, packets, remote, granted, pulled, skimmed>>
  BY <1>1, <1>2 DEF RegisterERC20, registerERC20, outside, ibc, history, grants
<1>4. d \in NativeDenoms /\ d \in Denoms /\ d[2] = c /\ c \in Addresses
  BY <1>2, Names
<1>5. pair \in TokenPair /\ Shaped(pair) /\ pair.denom = d
  BY <1>1, <1>2, <1>4 DEF NewTokenPair, TokenPair, Shaped
<1>6. GetID(pair) \in Ids /\ GetID(pair)[2] = d
  BY <1>5, IdType
<1>7. /\ reg' \in Stores /\ PairsFiled(reg') /\ reg'.allowances = reg.allowances
      /\ \A id \in Ids : reg'.pairs[id] # None => reg.pairs[id] # None \/ id = GetID(pair)
  BY <1>3, <1>5, InvMoney, SetTokenFiles
<1>8. Described(reg', metadata')
  BY <1>3, <1>6, <1>7, InvMoney DEF Described
<1>9. Within(reg', granted', pulled')
  BY <1>3, <1>7, InvMoney DEF Within
<1>10. StoreOK' /\ GrantsOK'
  BY <1>3, <1>7, <1>8, <1>9, InvMoney DEF StoreOK, GrantsOK
<1>11. ParamsOK' /\ NamesOK'
  BY <1>3, <1>4 DEF Inv, ParamsOK, NamesOK
<1>12. CoinsOK' /\ TokensOK' /\ PacketsOK'
  BY <1>3 DEF Inv, CoinsOK, TokensOK, PacketsOK, Unissued
<1>13. QED
  BY <1>10, <1>11, <1>12 DEF Inv

\* ToggleConversion keeps the invariant.
LEMMA ToggleInv ==
    ASSUME Inv, NEW signer, NEW t \in Addresses \cup Denoms, ToggleConversion(signer, t)
    PROVE  Inv'
<1>1. PICK pair : pair = PairOf(t)
  OBVIOUS
<1>2. /\ pair # None /\ reg' = Toggled(reg, GetID(pair))
      /\ UNCHANGED <<params, metadata, coins, tokens, status, noSend, packets, remote, granted, pulled, skimmed>>
  BY <1>1 DEF ToggleConversion, toggleConversion, Toggled, outside, ibc, history, grants
<1>3. pair \in TokenPair /\ reg.pairs[GetID(pair)] = pair
  BY <1>1, <1>2, PairOfType
<1>4. /\ reg' \in Stores /\ PairsFiled(reg') /\ reg'.allowances = reg.allowances
      /\ \A id \in Ids : reg'.pairs[id] # None <=> reg.pairs[id] # None
  <2>1. reg \in Stores /\ PairsFiled(reg)
    BY InvMoney
  <2>2. QED
    BY <1>2, <1>3, <2>1, ToggleFiles
<1>5. Described(reg', metadata)
  BY <1>4, InvMoney, DescribedStill
<1>6. Within(reg', granted', pulled')
  BY <1>2, <1>4, InvMoney DEF Within
<1>7. QED
  BY <1>2, <1>4, <1>5, <1>6, InvMoney, StoreStep

\* A change of the parameters keeps the invariant.
LEMMA UpdateParamsInv ==
    ASSUME Inv, NEW signer, NEW enabled \in BOOLEAN, NEW permissionless \in BOOLEAN,
           UpdateParams(signer, enabled, permissionless)
    PROVE  Inv'
<1>1. /\ params' = [enabled |-> enabled, permissionless |-> permissionless]
      /\ UNCHANGED <<reg, metadata, coins, tokens, status, noSend, packets, remote, granted, pulled, skimmed>>
  BY DEF UpdateParams, SetParams, outside, ibc, history, grants
<1>2. ParamsOK'
  BY <1>1 DEF ParamsOK
<1>3. StoreOK' /\ NamesOK' /\ CoinsOK'
  BY <1>1 DEF Inv, StoreOK, NamesOK, CoinsOK
<1>4. TokensOK' /\ PacketsOK' /\ GrantsOK'
  BY <1>1 DEF Inv, TokensOK, PacketsOK, GrantsOK
<1>5. QED
  BY <1>2, <1>3, <1>4 DEF Inv

(***************************************************************************)
(* Steps of the precompile.                                                *)
(***************************************************************************)
\* An allowance and what was taken under it change for one grant.
LEMMA GrantStep ==
    ASSUME Inv, NEW r, NEW g \in Grants, NEW x \in Nat, NEW given, NEW taken,
           r.allowances = [reg.allowances EXCEPT ![g] = x],
           \A h \in Grants : h # g => given[h] = granted[h] /\ taken[h] = pulled[h],
           x + taken[g] <= given[g]
    PROVE  Within(r, given, taken)
<1> SUFFICES ASSUME NEW h \in Grants PROVE r.allowances[h] + taken[h] <= given[h]
  BY DEF Within
<1>1. reg.allowances \in [Grants -> Nat]
  BY InvMoney DEF Stores
<1>2. CASE h = g
  BY <1>1, <1>2
<1>3. CASE h # g
  <2>1. r.allowances[h] = reg.allowances[h] /\ given[h] = granted[h] /\ taken[h] = pulled[h]
    BY <1>1, <1>3
  <2>2. QED
    BY <2>1, InvMoney DEF Within
<1>4. QED
  BY <1>2, <1>3

\* Approve keeps the invariant.
LEMMA ApproveInv ==
    ASSUME Inv, NEW v \in Vouchers, NEW a \in Accounts, NEW b \in Accounts, NEW n \in 0 .. MaxAmount,
           Approve(v, a, b, n)
    PROVE  Inv'
<1>1. PICK g \in Grants : g = <<v, a, b>>
  BY DEF Grants
<1>2. PICK set : set = IF reg.allowances[g] = 0 /\ n = 0 THEN [ok |-> TRUE, r |-> reg]
                       ELSE SetAllowance(reg, g, n)
  OBVIOUS
<1>3. /\ set.ok /\ reg' = set.r
      /\ granted' = [granted EXCEPT ![g] = n] /\ pulled' = [pulled EXCEPT ![g] = 0]
      /\ UNCHANGED <<params, metadata, coins, tokens, status, noSend, packets, remote, skimmed>>
  BY <1>1, <1>2 DEF Approve, outside, ibc
<1>4. n \in Nat /\ n \in Int
  BY ParameterAssumption
<1>5. reg \in Stores /\ PairsFiled(reg) /\ Described(reg, metadata) /\ reg.allowances \in [Grants -> Nat]
  BY InvMoney DEF Stores
<1>6. /\ reg' \in Stores /\ PairsFiled(reg') /\ Described(reg', metadata)
      /\ reg'.allowances = [reg.allowances EXCEPT ![g] = n]
  <2>1. CASE reg.allowances[g] = 0 /\ n = 0
    <3>1. reg' = reg
      BY <1>2, <1>3, <2>1
    <3>2. reg.allowances = [reg.allowances EXCEPT ![g] = n]
      BY <1>5, <2>1
    <3>3. QED
      BY <1>5, <3>1, <3>2
  <2>2. CASE ~ (reg.allowances[g] = 0 /\ n = 0)
    <3>1. SetAllowance(reg, g, n).ok /\ reg' = SetAllowance(reg, g, n).r
      BY <1>2, <1>3, <2>2
    <3>2. /\ reg' \in Stores /\ PairsFiled(reg') /\ reg'.pairs = reg.pairs
          /\ reg'.allowances = [reg.allowances EXCEPT ![g] = n]
      BY <1>4, <1>5, <3>1, AllowanceSet
    <3>3. Described(reg', metadata)
      BY <1>5, <3>2 DEF Described
    <3>4. QED
      BY <3>2, <3>3
  <2>3. QED
    BY <2>1, <2>2
<1>7. /\ granted' \in [Grants -> Nat] /\ pulled' \in [Grants -> Nat]
      /\ granted'[g] = n /\ pulled'[g] = 0
      /\ \A h \in Grants : h # g => granted'[h] = granted[h] /\ pulled'[h] = pulled[h]
  BY <1>3, <1>4, InvMoney
<1>8. n + pulled'[g] <= granted'[g]
  BY <1>4, <1>7
<1>9. Within(reg', granted', pulled')
  BY <1>4, <1>6, <1>7, <1>8, GrantStep
<1>10. QED
  BY <1>3, <1>6, <1>7, <1>9, StoreStep

\* Coins that move between users leave everything in order.
LEMMA CoinsMoved ==
    ASSUME Inv, NEW d \in Denoms, NEW a \in Accounts, NEW b \in Accounts, NEW n \in Nat \ {0},
           coins[d][a] >= n, NEW cs, cs = [coins EXCEPT ![d] = Move(@, a, b, n)]
    PROVE  Money(cs, tokens, skimmed) /\ Escrowed(cs, packets, remote)
<1>1. PICK m : m = Move(coins[d], a, b, n)
  OBVIOUS
<1>2. cs = [coins EXCEPT ![d] = m]
  BY <1>1
<1>3. /\ a \in Holders \ {Module} /\ b \in Holders \ {Module} /\ Escrow \in Holders
      /\ a # Escrow /\ b # Escrow
  BY HoldersFinite
<1>4. /\ coins \in CoinBalances /\ tokens \in TokenBalances /\ skimmed \in Skims
      /\ coins[d] \in [Holders -> Nat]
      /\ Covered(coins, tokens, status, skimmed) /\ Unissued(coins, metadata)
  BY InvMoney DEF Money, CoinBalances
<1>5. m \in [Holders -> Nat] /\ m[Escrow] = coins[d][Escrow]
  BY <1>1, <1>3, <1>4, MoveType
<1>6. Held(m) = Held(coins[d]) /\ Held(coins[d]) \in Nat
  BY <1>1, <1>3, <1>4, MoveHeld
<1>7. Money(cs, tokens, skimmed)
  <2>1. CASE d \in NativeDenoms
    <3>1. d \in metadata /\ Held(m) <= Held(coins[d])
      BY <1>3, <1>4, <1>6, <2>1, IssuedHasMetadata
    <3>2. QED
      <4>1. /\ [coins EXCEPT ![d] = m] \in CoinBalances
            /\ Covered([coins EXCEPT ![d] = m], tokens, status, skimmed)
            /\ Unissued([coins EXCEPT ![d] = m], metadata)
        BY <1>4, <1>5, <2>1, <3>1, OneDenomCoins
      <4>2. QED
        BY <1>2, <1>4, <4>1 DEF Money
  <2>2. CASE d \notin NativeDenoms
    <3>1. d \in VoucherDenoms
      BY <2>2, Names
    <3>2. QED
      <4>1. /\ [coins EXCEPT ![d] = m] \in CoinBalances
            /\ Covered([coins EXCEPT ![d] = m], tokens, status, skimmed)
            /\ Unissued([coins EXCEPT ![d] = m], metadata)
        BY <1>4, <1>5, <3>1, OneVoucher
      <4>2. QED
        BY <1>2, <1>4, <4>1 DEF Money
  <2>3. QED
    BY <2>1, <2>2
<1>8. \A e \in NativeDenoms : cs[e][Escrow] = coins[e][Escrow]
  BY <1>2, <1>4, <1>5, Names DEF CoinBalances
<1>9. QED
  BY <1>7, <1>8, InvMoney, EscrowStill

\* A transfer through the precompile keeps the invariant.
LEMMA PrecompileTransferInv ==
    ASSUME Inv, NEW v \in Vouchers, NEW a \in Accounts, NEW b \in Accounts, NEW n \in Amounts,
           PrecompileTransfer(v, a, b, n)
    PROVE  Inv'
<1>1. PICK d \in Denoms : d = IBCDenom(v)
  BY Names
<1>2. /\ coins[d][a] >= n /\ coins' = [coins EXCEPT ![d] = Move(@, a, b, n)]
      /\ UNCHANGED <<params, reg, metadata, tokens, status, noSend, packets, remote, granted, pulled, skimmed>>
  BY <1>1 DEF PrecompileTransfer, outside, ibc, history, grants
<1>3. Money(coins', tokens, skimmed) /\ Escrowed(coins', packets, remote)
  BY <1>2, AmountType, CoinsMoved
<1>4. QED
  BY <1>2, <1>3, InvMoney, MoneyStep

\* TransferFrom keeps the invariant: what is pulled was granted.
LEMMA TransferFromInv ==
    ASSUME Inv, NEW v \in Vouchers, NEW a \in Accounts, NEW b \in Accounts, NEW to \in Accounts,
           NEW n \in Amounts, TransferFrom(v, a, b, to, n)
    PROVE  Inv'
<1>1. PICK g \in Grants : g = <<v, b, a>>
  BY DEF Grants
<1>2. PICK d \in Denoms : d = IBCDenom(v)
  BY Names
<1>3. PICK x : x = reg.allowances[g] - n
  OBVIOUS
<1>4. /\ reg.allowances[g] >= n
      /\ SetAllowance(reg, g, x).ok /\ reg' = SetAllowance(reg, g, x).r
      /\ coins[d][b] >= n /\ coins' = [coins EXCEPT ![d] = Move(@, b, to, n)]
      /\ pulled' = [pulled EXCEPT ![g] = @ + n]
      /\ UNCHANGED <<params, metadata, tokens, status, noSend, packets, remote, granted, skimmed>>
  BY <1>1, <1>2, <1>3 DEF TransferFrom, SpendAllowance, outside, ibc
<1>5. /\ reg \in Stores /\ PairsFiled(reg) /\ Described(reg, metadata)
      /\ reg.allowances[g] \in Nat /\ n \in Nat /\ pulled[g] \in Nat /\ granted[g] \in Nat
  BY AmountType, InvMoney DEF Stores
<1>6. x \in Nat /\ x \in Int
  BY <1>3, <1>4, <1>5
<1>7. /\ reg' \in Stores /\ PairsFiled(reg') /\ reg'.pairs = reg.pairs
      /\ reg'.allowances = [reg.allowances EXCEPT ![g] = x]
  BY <1>4, <1>5, <1>6, AllowanceSet
<1>8. Described(reg', metadata)
  BY <1>5, <1>7 DEF Described
<1>9. /\ granted' \in [Grants -> Nat] /\ pulled' \in [Grants -> Nat]
      /\ granted'[g] = granted[g] /\ pulled'[g] = pulled[g] + n
      /\ \A h \in Grants : h # g => granted'[h] = granted[h] /\ pulled'[h] = pulled[h]
  BY <1>4, <1>5, InvMoney
<1>10. x + pulled'[g] <= granted'[g]
  <2>1. reg.allowances[g] + pulled[g] <= granted[g]
    BY InvMoney DEF Within
  <2>2. QED
    BY <1>3, <1>5, <1>9, <2>1
<1>11. Within(reg', granted', pulled')
  BY <1>6, <1>7, <1>9, <1>10, GrantStep
<1>12. Money(coins', tokens', skimmed') /\ Escrowed(coins', packets', remote')
  <2>1. Money(coins', tokens, skimmed) /\ Escrowed(coins', packets, remote)
    BY <1>4, AmountType, CoinsMoved
  <2>2. QED
    BY <1>4, <2>1
<1>13. Numbered(packets') /\ remote' \in [Denoms -> Nat]
  BY <1>4, InvMoney
<1>14. QED
  BY <1>4, <1>7, <1>8, <1>9, <1>11, <1>12, <1>13, StepParts

(***************************************************************************)
(* Steps of IBC.                                                           *)
(***************************************************************************)
LEMMA SentPacketInv ==
    ASSUME Inv, NEW d \in Denoms, NEW n \in Amounts, NEW a \in Accounts, NEW cs, Money(cs, tokens', skimmed'),
           \A e \in NativeDenoms : cs[e][Escrow] = coins[e][Escrow],
           SentPacket(d, n, a, cs),
           UNCHANGED <<params, reg, metadata, status, noSend, remote, granted, pulled>>
    PROVE  Inv'
<1>1. PICK s : s = Min((1 .. MaxPackets) \ {p.seq : p \in packets})
  OBVIOUS
<1>2. PICK p : p = [seq |-> s, denom |-> d, amount |-> n, sender |-> a, state |-> "sent"]
  OBVIOUS
<1>3. /\ cs[d][a] >= n /\ Cardinality(packets) < MaxPackets
      /\ packets' = packets \cup {p} /\ coins' = Sent(cs, d, a, n)
  BY <1>1, <1>2 DEF SentPacket
<1>4. s \in 1 .. MaxPackets /\ \A q \in packets : q.seq # s
  BY <1>1, <1>3, InvMoney, FreeNumber
<1>5. p \in Packet /\ p.seq = s /\ \A e : Weight(p, e) = IF e = d THEN n ELSE 0
  BY <1>2, <1>4 DEF Packet, Weight
<1>6. Numbered(packets') /\ \A e : InFlight(packets', e) = InFlight(packets, e) + Weight(p, e)
  BY <1>3, <1>4, <1>5, InvMoney, AddPacket
<1>7. /\ Money(coins', tokens', skimmed')
      /\ \A e \in NativeDenoms : e # d => coins'[e][Escrow] = cs[e][Escrow]
      /\ d \in NativeDenoms => coins'[d][Escrow] = cs[d][Escrow] + n
  BY <1>3, AmountType, SentSound
<1>8. Escrowed(coins', packets', remote')
  <2> SUFFICES ASSUME NEW e \in NativeDenoms
               PROVE  coins'[e][Escrow] >= remote[e] + InFlight(packets', e)
    BY DEF Escrowed
  <2>1. coins[e][Escrow] >= remote[e] + InFlight(packets, e)
    BY InvMoney DEF Escrowed
  <2>2. coins[e][Escrow] \in Nat /\ remote[e] \in Nat /\ InFlight(packets, e) \in Nat /\ n \in Nat
    BY InvMoney, Names, HoldersFinite, InFlightType, AmountType DEF Money, CoinBalances
  <2>3. CASE e = d
    <3>1. coins'[e][Escrow] = coins[e][Escrow] + n /\ InFlight(packets', e) = InFlight(packets, e) + n
      BY <1>5, <1>6, <1>7, <2>3
    <3>2. QED
      BY <2>1, <2>2, <3>1
  <2>4. CASE e # d
    <3>1. coins'[e][Escrow] = coins[e][Escrow] /\ InFlight(packets', e) = InFlight(packets, e) + 0
      BY <1>5, <1>6, <1>7, <2>4
    <3>2. QED
      BY <2>1, <2>2, <3>1
  <2>5. QED
    BY <2>3, <2>4
<1>9. QED
  BY <1>6, <1>7, <1>8, InvMoney, MoneyStep

\* An outgoing IBC transfer keeps the invariant: what leaves is escrowed or burnt.
LEMMA TransferMsgInv ==
    ASSUME Inv, NEW a \in Accounts, NEW d \in Denoms, NEW n \in Amounts, NEW how, TransferMsg(a, d, n, how)
    PROVE  Inv'
<1>1. PICK token : token = IF d \in NativeDenoms THEN d[2] ELSE d
  OBVIOUS
<1>2. PICK pair : pair = PairOf(token)
  OBVIOUS
<1>3. PICK k : k = n - coins[d][a]
  OBVIOUS
<1>4. PICK done : done = convertERC20IntoCoinsForNativeToken(pair, k, a, a, how)
  OBVIOUS
<1>5. /\ \/ SentPacket(d, n, a, coins) /\ UNCHANGED tokens
         \/ /\ pair # None /\ IsNativeERC20(pair) /\ coins[d][a] < n /\ done.ok
            /\ SentPacket(d, n, a, done.coins) /\ tokens' = done.tokens
      /\ UNCHANGED <<params, reg, metadata, status, noSend, remote, granted, pulled, skimmed>>
  BY <1>1, <1>2, <1>3, <1>4 DEF TransferMsg, outside, history, grants
<1>6. CASE SentPacket(d, n, a, coins) /\ UNCHANGED tokens
  <2>1. Money(coins, tokens', skimmed')
    BY <1>5, <1>6, InvMoney
  <2>2. QED
    BY <1>5, <1>6, <2>1, SentPacketInv
<1>7. CASE /\ pair # None /\ IsNativeERC20(pair) /\ coins[d][a] < n /\ done.ok
           /\ SentPacket(d, n, a, done.coins) /\ tokens' = done.tokens
  <2>1. token \in Addresses \cup Denoms
    BY <1>1, Names
  <2>2. /\ pair \in TokenPair /\ Shaped(pair) /\ pair.denom \in NativeDenoms
        /\ pair.denom \in metadata
    BY <1>2, <1>7, <2>1, PairOfType, NativePair
  <2>3. coins[d][a] \in Nat
    BY InvMoney, HoldersFinite DEF Money, CoinBalances
  <2>4. k \in Nat \ {0}
    BY <1>3, <1>7, <2>3, AmountType
  <2>5. /\ Money(done.coins, done.tokens, skimmed)
        /\ \A e \in NativeDenoms : done.coins[e][Escrow] = coins[e][Escrow]
    BY <1>4, <1>7, <2>2, <2>4, InvMoney, ConvertsIn
  <2>6. Money(done.coins, tokens', skimmed')
    BY <1>5, <1>7, <2>5
  <2>7. QED
    BY <1>5, <1>7, <2>5, <2>6, SentPacketInv
<1>8. QED
  BY <1>5, <1>6, <1>7

\* The answer of the other chain keeps the invariant.
LEMMA RemoteTakesInv ==
    ASSUME Inv, NEW p \in packets, NEW result \in {"received", "rejected"}, RemoteTakes(p, result)
    PROVE  Inv'
<1>1. PICK q : q = [p EXCEPT !.state = result]
  OBVIOUS
<1>2. /\ p.state = "sent" /\ packets' = (packets \ {p}) \cup {q}
      /\ remote' = IF result = "received" THEN [remote EXCEPT ![p.denom] = @ + p.amount] ELSE remote
      /\ UNCHANGED <<params, reg, metadata, coins, tokens, status, noSend, granted, pulled, skimmed>>
  BY <1>1 DEF RemoteTakes, outside, history, grants
<1>3. /\ Numbered(packets \ {p}) /\ p \in Packet /\ \A o \in packets \ {p} : o.seq # p.seq
      /\ \A d : InFlight(packets, d) = InFlight(packets \ {p}, d) + Weight(p, d)
      /\ \A d : InFlight(packets \ {p}, d) \in Nat /\ Weight(p, d) \in Nat
  BY InvMoney, RemovePacket
<1>4. /\ q \in Packet /\ q.seq = p.seq /\ q.denom = p.denom /\ q.amount = p.amount /\ q.state = result
  BY <1>1, <1>3 DEF Packet
<1>5. /\ Numbered(packets')
      /\ \A d : InFlight(packets', d) = InFlight(packets \ {p}, d) + Weight(q, d)
  <2>1. PICK ps : ps = packets \ {p}
    OBVIOUS
  <2>2. Numbered(ps) /\ q \in Packet /\ \A o \in ps : o.seq # q.seq
    BY <1>3, <1>4, <2>1
  <2>3. Numbered(ps \cup {q}) /\ \A d : InFlight(ps \cup {q}, d) = InFlight(ps, d) + Weight(q, d)
    BY <2>2, AddPacket
  <2>4. packets' = ps \cup {q}
    BY <1>2, <2>1
  <2>5. QED
    BY <2>1, <2>3, <2>4
<1>6. remote' \in [Denoms -> Nat] /\ p.amount \in Nat /\ p.denom \in Denoms
  BY <1>2, <1>3, InvMoney, PacketFields
<1>7. Escrowed(coins', packets', remote')
  <2> SUFFICES ASSUME NEW e \in NativeDenoms
               PROVE  coins[e][Escrow] >= remote'[e] + InFlight(packets', e)
    BY <1>2 DEF Escrowed
  <2>1. coins[e][Escrow] >= remote[e] + InFlight(packets, e)
    BY InvMoney DEF Escrowed
  <2>2. remote[e] \in Nat /\ InFlight(packets \ {p}, e) \in Nat /\ remote'[e] \in Nat
    BY <1>3, <1>6, InvMoney, Names
  <2>3. remote'[e] + Weight(q, e) = remote[e] + Weight(p, e)
    BY <1>2, <1>4, <1>6, <2>2, InvMoney, Names DEF Weight
  <2>4. Weight(q, e) \in Nat /\ Weight(p, e) \in Nat
    BY <1>3, <1>4, PacketFields
  <2>5. remote'[e] + InFlight(packets', e) = remote[e] + InFlight(packets, e)
    <3>1. \A i, v, w, x, y \in Nat : x + w = y + v => x + (i + w) = y + (i + v)
      OBVIOUS
    <3>2. /\ InFlight(packets, e) = InFlight(packets \ {p}, e) + Weight(p, e)
          /\ InFlight(packets', e) = InFlight(packets \ {p}, e) + Weight(q, e)
      BY <1>3, <1>5
    <3>3. QED
      BY <2>2, <2>3, <2>4, <3>1, <3>2
  <2>6. QED
    BY <2>1, <2>5
<1>8. Money(coins', tokens', skimmed')
  BY <1>2, InvMoney
<1>9. QED
  BY <1>2, <1>5, <1>6, <1>7, <1>8, MoneyStep

\* The coins of a refund, converted or not.
LEMMA RefundConverts ==
    ASSUME Inv, NEW p \in Packet, NEW cs, Money(cs, tokens, skimmed), NEW how, NEW done,
           done = ConvertCoinToERC20FromPacket(cs, p, how)
    PROVE  /\ Money(done.coins, done.tokens, Skimmed(done.tokens, how))
           /\ \A e \in NativeDenoms : done.coins[e][Escrow] = cs[e][Escrow]
<1>1. PICK pair : pair = IF p.denom \in NativeDenoms THEN PairOf(p.denom) ELSE None
  OBVIOUS
<1>2. CASE pair = None \/ ~ IsNativeERC20(pair) \/ ~ params.enabled \/ p.sender \in ModuleAccts
  <2>1. done = [coins |-> cs, tokens |-> tokens]
    BY <1>1, <1>2 DEF ConvertCoinToERC20FromPacket
  <2>2. Skimmed(tokens, how) = skimmed
    BY SkimmedStill DEF Money
  <2>3. QED
    BY <2>1, <2>2
<1>3. CASE ~ (pair = None \/ ~ IsNativeERC20(pair) \/ ~ params.enabled \/ p.sender \in ModuleAccts)
  <2>1. done = ConvertCoinNativeERC20(cs, pair, p.amount, p.sender, p.sender, how)
    BY <1>1, <1>3 DEF ConvertCoinToERC20FromPacket
  <2>2. pair = PairOf(p.denom) /\ pair # None /\ p.denom \in Addresses \cup Denoms
    BY <1>1, <1>3, Names
  <2>3. /\ pair \in TokenPair /\ Shaped(pair) /\ pair.denom \in NativeDenoms /\ pair.denom \in metadata
    BY <1>3, <2>2, PairOfType, NativePair
  <2>4. QED
    BY <2>1, <2>3, PacketFields, ConvertsOut
<1>4. QED
  BY <1>2, <1>3

\* A packet that may still be refunded is paid for by the escrow.
LEMMA EscrowPays ==
    ASSUME Inv, NEW p \in packets, p.state # "received"
    PROVE  p.denom \in NativeDenoms => coins[p.denom][Escrow] >= p.amount
<1> SUFFICES ASSUME p.denom \in NativeDenoms PROVE coins[p.denom][Escrow] >= p.amount
  OBVIOUS
<1>1. PICK d : d = p.denom
  OBVIOUS
<1>2. /\ p \in Packet /\ InFlight(packets, d) = InFlight(packets \ {p}, d) + Weight(p, d)
      /\ InFlight(packets \ {p}, d) \in Nat
  BY InvMoney, RemovePacket
<1>3. Weight(p, d) = p.amount /\ p.amount \in Nat
  BY <1>1, <1>2, PacketFields DEF Weight
<1>4. coins[d][Escrow] >= remote[d] + InFlight(packets, d)
  BY <1>1, InvMoney DEF Escrowed
<1>5. coins[d][Escrow] \in Nat /\ remote[d] \in Nat
  BY <1>1, InvMoney, Names, HoldersFinite DEF Money, CoinBalances
<1>6. QED
  BY <1>1, <1>2, <1>3, <1>4, <1>5

\* A refund keeps the invariant.
LEMMA RefundInv ==
    ASSUME Inv, NEW p \in packets, p.state # "received", NEW how, Refund(p, how)
    PROVE  Inv'
<1>1. PICK d, n : d = p.denom /\ n = p.amount
  OBVIOUS
<1>2. PICK cs : cs = Arrived(coins, d, p.sender, n)
  OBVIOUS
<1>3. PICK done : done = ConvertCoinToERC20FromPacket(cs, p, how)
  OBVIOUS
<1>4. /\ packets' = packets \ {p} /\ coins' = done.coins /\ tokens' = done.tokens
      /\ skimmed' = Skimmed(done.tokens, how)
      /\ UNCHANGED <<params, reg, metadata, status, noSend, remote, granted, pulled>>
  BY <1>1, <1>2, <1>3 DEF Refund, outside, grants
<1>5. /\ Numbered(packets') /\ p \in Packet
      /\ \A e : InFlight(packets, e) = InFlight(packets', e) + Weight(p, e)
      /\ \A e : InFlight(packets', e) \in Nat /\ Weight(p, e) \in Nat
  BY <1>4, InvMoney, RemovePacket
<1>6. d \in Denoms /\ p.sender \in Accounts /\ n \in Nat \ {0} /\ n \in Nat
  BY <1>1, <1>5, PacketFields
<1>7. /\ Money(cs, tokens, skimmed)
      /\ \A e \in NativeDenoms : e # d => cs[e][Escrow] = coins[e][Escrow]
      /\ d \in NativeDenoms => cs[d][Escrow] = coins[d][Escrow] - n
  BY <1>1, <1>2, <1>6, EscrowPays, InvMoney, ArrivedSound
<1>8. Money(coins', tokens', skimmed') /\ \A e \in NativeDenoms : coins'[e][Escrow] = cs[e][Escrow]
  BY <1>3, <1>4, <1>5, <1>7, RefundConverts
<1>9. Escrowed(coins', packets', remote')
  <2> SUFFICES ASSUME NEW e \in NativeDenoms
               PROVE  coins'[e][Escrow] >= remote[e] + InFlight(packets', e)
    BY <1>4 DEF Escrowed
  <2>1. coins[e][Escrow] >= remote[e] + InFlight(packets, e)
    BY InvMoney DEF Escrowed
  <2>2. coins[e][Escrow] \in Nat /\ remote[e] \in Nat /\ InFlight(packets', e) \in Nat
    BY <1>5, InvMoney, Names, HoldersFinite DEF Money, CoinBalances
  <2>3. coins'[e][Escrow] = coins[e][Escrow] - Weight(p, e)
    <3>1. CASE e = d
      BY <1>1, <1>7, <1>8, <3>1 DEF Weight
    <3>2. CASE e # d
      BY <1>1, <1>7, <1>8, <2>2, <3>2 DEF Weight
    <3>3. QED
      BY <3>1, <3>2
  <2>4. QED
    BY <1>5, <2>1, <2>2, <2>3
<1>10. QED
  BY <1>4, <1>5, <1>8, <1>9, InvMoney, MoneyStep

\* An acknowledgement keeps the invariant.
LEMMA AcknowledgedInv ==
    ASSUME Inv, NEW p \in packets, NEW how, OnAcknowledgementPacket(p, how)
    PROVE  Inv'
<1>1. CASE p.state = "rejected" /\ Refund(p, how)
  BY <1>1, RefundInv
<1>2. CASE /\ p.state = "received"
           /\ packets' = packets \ {p}
           /\ UNCHANGED <<params, reg, metadata, coins, tokens, outside, remote, history>>
  <2>1. /\ packets' = packets \ {p}
        /\ UNCHANGED <<params, reg, metadata, coins, tokens, status, noSend, remote, granted, pulled, skimmed>>
    BY <1>2 DEF outside, history, grants
  <2>2. /\ Numbered(packets') /\ \A e : InFlight(packets, e) = InFlight(packets', e) + Weight(p, e)
        /\ \A e : InFlight(packets', e) \in Nat
    BY <2>1, InvMoney, RemovePacket
  <2>3. \A e : Weight(p, e) = 0
    BY <1>2 DEF Weight
  <2>4. Escrowed(coins', packets', remote')
    <3>1. \A e : InFlight(packets, e) = InFlight(packets', e)
      BY <2>2, <2>3
    <3>2. QED
      BY <2>1, <3>1, InvMoney DEF Escrowed
  <2>5. Money(coins', tokens', skimmed') /\ remote' \in [Denoms -> Nat]
    BY <2>1, InvMoney
  <2>6. QED
    BY <2>1, <2>2, <2>4, <2>5, MoneyStep
<1>3. QED
  BY <1>1, <1>2 DEF OnAcknowledgementPacket

\* The precompile of a new voucher is filed, or nothing changes.
LEMMA ExtensionFiles ==
    ASSUME Inv, NEW v \in Vouchers, NEW ext, ext = RegisterERC20Extension(v)
    PROVE  /\ ext.r \in Stores /\ PairsFiled(ext.r) /\ Described(ext.r, metadata)
           /\ ext.r.allowances = reg.allowances
           /\ \A id \in Ids : ext.r.pairs[id] # None => reg.pairs[id] # None \/ id[2] \in VoucherDenoms
<1>1. PICK pair : pair = NewTokenPairSTRv2(v)
  OBVIOUS
<1>2. PICK d : d = IBCDenom(v)
  OBVIOUS
<1>3. d \in VoucherDenoms /\ d \in Denoms /\ d[2] = v /\ v \in Addresses /\ d \notin NativeDenoms
  BY <1>2, Names
<1>4. pair \in TokenPair /\ Shaped(pair) /\ pair.denom = d
  BY <1>1, <1>2, <1>3 DEF NewTokenPairSTRv2, TokenPair, Shaped
<1>5. GetID(pair) \in Ids /\ GetID(pair)[2] = d
  BY <1>4, IdType
<1>6. reg \in Stores /\ PairsFiled(reg) /\ Described(reg, metadata)
  BY InvMoney
<1>7. PICK t : t = SetToken(reg, pair)
  OBVIOUS
<1>8. /\ t.r \in Stores /\ PairsFiled(t.r) /\ t.r.allowances = reg.allowances
      /\ \A id \in Ids : t.r.pairs[id] # None => reg.pairs[id] # None \/ id = GetID(pair)
  BY <1>4, <1>6, <1>7, SetTokenFiles
<1>9. Described(t.r, metadata)
  BY <1>3, <1>5, <1>6, <1>8 DEF Described
<1>10. t = [ok |-> t.ok, r |-> t.r]
  BY <1>7 DEF SetToken
<1>11. CASE ext.r = reg
  BY <1>6, <1>11
<1>12. CASE ext.r = EnableDynamicPrecompile(t.r, v)
  <2>1. PICK r : r = t.r
    OBVIOUS
  <2>2. PICK q : q = ext.r
    OBVIOUS
  <2>3. q = [r EXCEPT !.dynamic = @ \cup {v}] /\ r \in Stores
    BY <1>8, <1>12, <2>1, <2>2 DEF EnableDynamicPrecompile
  <2>4. /\ q.pairs = r.pairs /\ q.denomMap = r.denomMap /\ q.erc20Map = r.erc20Map
        /\ q.allowances = r.allowances /\ q \in Stores
    BY <2>3 DEF Stores
  <2>5. PairsFiled(q) /\ Described(q, metadata)
    BY <1>8, <1>9, <2>1, <2>4 DEF PairsFiled, Described
  <2>6. QED
    BY <1>3, <1>5, <1>8, <2>1, <2>2, <2>4, <2>5
<1>13. ext.r = reg \/ ext.r = EnableDynamicPrecompile(t.r, v)
  <2>1. CASE v \in reg.dynamic
    <3>1. CreateNewTokenPair(v) = [ok |-> FALSE, r |-> reg]
      BY <2>1 DEF CreateNewTokenPair
    <3>2. ext = [ok |-> FALSE, r |-> reg]
      BY <3>1 DEF RegisterERC20Extension
    <3>3. QED
      BY <3>2
  <2>2. CASE v \notin reg.dynamic
    <3>1. CreateNewTokenPair(v) = t
      BY <1>1, <1>7, <2>2 DEF CreateNewTokenPair
    <3>2. CASE t.ok
      <4>1. ext = [t EXCEPT !.r = EnableDynamicPrecompile(t.r, v)]
        BY <3>1, <3>2 DEF RegisterERC20Extension
      <4>2. QED
        BY <1>10, <4>1
    <3>3. CASE ~ t.ok
      <4>1. ext = t
        BY <3>1, <3>3 DEF RegisterERC20Extension
      <4>2. t.r = reg
        BY <1>7, <3>3 DEF SetToken
      <4>3. QED
        BY <4>1, <4>2
    <3>4. QED
      BY <3>2, <3>3
  <2>3. QED
    BY <2>1, <2>2
<1>14. QED
  BY <1>11, <1>12, <1>13

\* What an account has of a denom, in given balances.
Has(cs, ts, a, d) == cs[d][a] + IF d \in NativeDenoms THEN ts[d[2]][a] ELSE 0

\* What the keeper makes of a receipt: the store and the balances stay in order whatever
\* it returns, and the receiver keeps the amount when it returns a success.
LEMMA OnRecvSound ==
    ASSUME Inv, NEW cs, Money(cs, tokens, skimmed), NEW d \in Denoms, NEW a \in Accounts, NEW b \in Accounts,
           NEW n \in Amounts, NEW how, NEW got, got = OnRecv(cs, d, a, b, n, how)
    PROVE  /\ got.r \in Stores /\ PairsFiled(got.r) /\ Described(got.r, metadata)
           /\ got.r.allowances = reg.allowances
           /\ \A id \in Ids : got.r.pairs[id] # None => reg.pairs[id] # None \/ id[2] \in VoucherDenoms
           /\ Money(got.coins, got.tokens, Skimmed(got.tokens, how))
           /\ \A e \in NativeDenoms : got.coins[e][Escrow] = cs[e][Escrow]
           /\ got.ok => Has(got.coins, got.tokens, b, d) = Has(cs, tokens, b, d)
<1>1. PICK pair : pair = PairOf(d)
  OBVIOUS
<1>2. reg \in Stores /\ PairsFiled(reg) /\ Described(reg, metadata)
  BY InvMoney
<1>8. Skimmed(tokens, how) = skimmed
  BY SkimmedStill DEF Money
<1>3. CASE got.r = reg /\ got.coins = cs /\ got.tokens = tokens
  BY <1>2, <1>3, <1>8
<1>4. CASE /\ d \in VoucherDenoms /\ got.r = RegisterERC20Extension(d[2]).r
           /\ got.coins = cs /\ got.tokens = tokens
  <2>1. PICK ext : ext = RegisterERC20Extension(d[2])
    OBVIOUS
  <2>2. d[2] \in Vouchers
    BY <1>4, Names
  <2>3. /\ ext.r \in Stores /\ PairsFiled(ext.r) /\ Described(ext.r, metadata)
        /\ ext.r.allowances = reg.allowances
        /\ \A id \in Ids : ext.r.pairs[id] # None => reg.pairs[id] # None \/ id[2] \in VoucherDenoms
    BY <2>1, <2>2, ExtensionFiles
  <2>4. got.r = ext.r
    BY <1>4, <2>1
  <2>5. QED
    BY <1>4, <1>8, <2>3, <2>4
<1>5. CASE /\ pair # None /\ IsNativeERC20(pair) /\ got.r = reg
           /\ got.ok = ConvertCoinNativeERC20(cs, pair, n, b, b, how).ok
           /\ got.coins = ConvertCoinNativeERC20(cs, pair, n, b, b, how).coins
           /\ got.tokens = ConvertCoinNativeERC20(cs, pair, n, b, b, how).tokens
  <2>1. PICK done : done = ConvertCoinNativeERC20(cs, pair, n, b, b, how)
    OBVIOUS
  <2>2. /\ pair \in TokenPair /\ Shaped(pair) /\ pair.denom = d
        /\ pair.denom \in NativeDenoms /\ pair.denom \in metadata
    BY <1>1, <1>5, PairOfType, NativePair
  <2>3. pair.erc20 = d[2] /\ d \in NativeDenoms /\ d[2] \in Contracts
    BY <2>2, NativePair
  <2>4. /\ Money(done.coins, done.tokens, Skimmed(done.tokens, how))
        /\ \A e \in NativeDenoms : done.coins[e][Escrow] = cs[e][Escrow]
        /\ done.ok => /\ done.coins[d][b] = cs[d][b] - n
                      /\ done.tokens[d[2]][b] = tokens[d[2]][b] + n
    BY <2>1, <2>2, <2>3, AmountType, ConvertsOut
  <2>5. cs[d][b] \in Nat /\ tokens[d[2]][b] \in Nat /\ n \in Nat
    BY <2>3, HoldersFinite, AmountType DEF Money, CoinBalances, TokenBalances
  <2>6. done.ok => Has(done.coins, done.tokens, b, d) = Has(cs, tokens, b, d)
    BY <2>3, <2>4, <2>5 DEF Has
  <2>7. QED
    BY <1>2, <1>5, <2>1, <2>4, <2>6
<1>6. \/ got.r = reg /\ got.coins = cs /\ got.tokens = tokens
      \/ /\ d \in VoucherDenoms /\ got.r = RegisterERC20Extension(d[2]).r
         /\ got.coins = cs /\ got.tokens = tokens
      \/ /\ pair # None /\ IsNativeERC20(pair) /\ got.r = reg
         /\ got.ok = ConvertCoinNativeERC20(cs, pair, n, b, b, how).ok
         /\ got.coins = ConvertCoinNativeERC20(cs, pair, n, b, b, how).coins
         /\ got.tokens = ConvertCoinNativeERC20(cs, pair, n, b, b, how).tokens
  BY <1>1 DEF OnRecv
<1>7. QED
  BY <1>3, <1>4, <1>5, <1>6

\* A receipt, as either middleware carries it out.
LEMMA ReceivedInv ==
    ASSUME Inv, NEW d \in Denoms, NEW a \in Accounts, NEW b \in Accounts, NEW n \in Amounts, NEW how,
           remote[d] >= n,
           Received(OnRecv(Arrived(coins, d, b, n), d, a, b, n, how), d, n, how)
    PROVE  Inv'
<1>1. PICK cs : cs = Arrived(coins, d, b, n)
  OBVIOUS
<1>2. PICK got : got = OnRecv(cs, d, a, b, n, how)
  OBVIOUS
<1>3. /\ reg' = got.r /\ coins' = got.coins /\ tokens' = got.tokens
      /\ skimmed' = Skimmed(got.tokens, how)
      /\ remote' = [remote EXCEPT ![d] = @ - n]
      /\ UNCHANGED <<params, metadata, status, noSend, packets, granted, pulled>>
  BY <1>1, <1>2 DEF Received, outside, grants
<1>4. n \in Nat \ {0} /\ n \in Nat /\ remote[d] \in Nat /\ Numbered(packets)
  BY AmountType, InvMoney
<1>5. \A e \in NativeDenoms : /\ coins[e][Escrow] >= remote[e] + InFlight(packets, e)
                              /\ coins[e][Escrow] \in Nat /\ remote[e] \in Nat
                              /\ InFlight(packets, e) \in Nat
  BY InvMoney, Names, HoldersFinite, InFlightType DEF Escrowed, Money, CoinBalances
<1>6. d \in NativeDenoms => coins[d][Escrow] >= n
  BY <1>4, <1>5
<1>7. /\ Money(cs, tokens, skimmed)
      /\ \A e \in NativeDenoms : e # d => cs[e][Escrow] = coins[e][Escrow]
      /\ d \in NativeDenoms => cs[d][Escrow] = coins[d][Escrow] - n
  BY <1>1, <1>4, <1>6, InvMoney, ArrivedSound
<1>8. /\ reg' \in Stores /\ PairsFiled(reg') /\ Described(reg', metadata)
      /\ reg'.allowances = reg.allowances /\ Money(coins', tokens', skimmed')
      /\ \A e \in NativeDenoms : coins'[e][Escrow] = cs[e][Escrow]
  BY <1>2, <1>3, <1>7, OnRecvSound
<1>9. remote' \in [Denoms -> Nat] /\ \A e \in Denoms : remote'[e] = IF e = d THEN remote[e] - n ELSE remote[e]
  BY <1>3, <1>4, InvMoney
<1>10. Escrowed(coins', packets', remote')
  <2> SUFFICES ASSUME NEW e \in NativeDenoms
               PROVE  coins'[e][Escrow] >= remote'[e] + InFlight(packets, e)
    BY <1>3 DEF Escrowed
  <2>1. e \in Denoms
    BY Names
  <2>2. CASE e = d
    <3>1. coins'[e][Escrow] = coins[e][Escrow] - n /\ remote'[e] = remote[e] - n
      BY <1>7, <1>8, <1>9, <2>1, <2>2
    <3>2. QED
      BY <1>4, <1>5, <3>1
  <2>3. CASE e # d
    BY <1>5, <1>7, <1>8, <1>9, <2>1, <2>3
  <2>4. QED
    BY <2>2, <2>3
<1>11. /\ granted' \in [Grants -> Nat] /\ pulled' \in [Grants -> Nat] /\ Numbered(packets')
       /\ Within(reg', granted', pulled')
  BY <1>3, <1>4, <1>8, InvMoney DEF Within
<1>12. QED
  BY <1>3, <1>8, <1>9, <1>10, <1>11, StepParts

(***************************************************************************)
(* Steps outside the module.                                               *)
(***************************************************************************)
LEMMA SetSendEnabledInv ==
    ASSUME Inv, NEW d \in Denoms, SetSendEnabled(d)
    PROVE  Inv'
<1>1. /\ noSend' \subseteq noSend \cup {d}
      /\ UNCHANGED <<params, reg, metadata, coins, tokens, status, packets, remote, granted, pulled, skimmed>>
  BY DEF SetSendEnabled, ibc, history, grants
<1>2. ParamsOK' /\ NamesOK'
  BY <1>1 DEF Inv, ParamsOK, NamesOK
<1>3. StoreOK' /\ CoinsOK' /\ TokensOK'
  BY <1>1 DEF Inv, StoreOK, CoinsOK, TokensOK
<1>4. PacketsOK' /\ GrantsOK'
  BY <1>1 DEF Inv, PacketsOK, GrantsOK
<1>5. QED
  BY <1>2, <1>3, <1>4 DEF Inv

\* A send of coins keeps the invariant.
LEMMA SendCoinInv ==
    ASSUME Inv, NEW d \in Denoms, NEW a \in Accounts, NEW b \in Accounts, NEW n \in Amounts,
           SendCoin(d, a, b, n)
    PROVE  Inv'
<1>1. /\ coins[d][a] >= n /\ coins' = [coins EXCEPT ![d] = Move(@, a, b, n)]
      /\ UNCHANGED <<params, reg, metadata, tokens, status, noSend, packets, remote, granted, pulled, skimmed>>
  BY DEF SendCoin, outside, ibc, history, grants
<1>2. Money(coins', tokens, skimmed) /\ Escrowed(coins', packets, remote)
  BY <1>1, AmountType, CoinsMoved
<1>3. QED
  BY <1>1, <1>2, InvMoney, MoneyStep

\* A transfer of tokens keeps the invariant.
LEMMA SendTokenInv ==
    ASSUME Inv, NEW c \in Contracts, NEW a \in Accounts, NEW b \in Accounts \cup {Module}, NEW n \in Amounts,
           SendToken(c, a, b, n)
    PROVE  Inv'
<1>1. PICK u : u = Move(tokens[c], a, b, n)
  OBVIOUS
<1>2. /\ tokens[c][a] >= n /\ tokens' = [tokens EXCEPT ![c] = u]
      /\ UNCHANGED <<params, reg, metadata, coins, status, noSend, packets, remote, granted, pulled, skimmed>>
  BY <1>1 DEF SendToken, outside, ibc, history, grants
<1>3. /\ a \in Holders /\ b \in Holders /\ Module \in Holders /\ a # Module
      /\ n \in Nat /\ tokens[c] \in [Holders -> Nat] /\ tokens \in TokenBalances
  BY HoldersFinite, AmountType, InvMoney DEF Money, TokenBalances
<1>4. u \in [Holders -> Nat] /\ u[Module] >= tokens[c][Module]
  BY <1>1, <1>2, <1>3, MoveType
<1>5. tokens' \in TokenBalances /\ \A x \in Contracts : tokens'[x][Module] >= tokens[x][Module]
  BY <1>2, <1>3, <1>4 DEF TokenBalances
<1>6. Covered(coins, tokens', status, skimmed)
  <2> SUFFICES ASSUME NEW e \in NativeDenoms, status[e[2]] = "live"
               PROVE  tokens'[e[2]][Module] + skimmed[e[2]] >= Held(coins[e])
    BY DEF Covered
  <2>1. tokens[e[2]][Module] + skimmed[e[2]] >= Held(coins[e])
    BY InvMoney DEF Money, Covered
  <2>2. /\ e[2] \in Contracts /\ tokens[e[2]][Module] \in Nat /\ tokens'[e[2]][Module] \in Nat
        /\ Held(coins[e]) \in Nat
    BY <1>3, <1>5, InvMoney, Names, HeldBound, HoldersFinite DEF Money, TokenBalances, CoinBalances
  <2>4. skimmed[e[2]] \in Nat
    BY <2>2, InvMoney DEF Money, Skims
  <2>3. QED
    BY <1>5, <2>1, <2>2, <2>4
<1>7. Money(coins', tokens', skimmed') /\ Escrowed(coins', packets', remote')
  BY <1>2, <1>5, <1>6, InvMoney DEF Money
<1>8. QED
  BY <1>2, <1>7, InvMoney, MoneyStep

\* A contract destroyed or deployed again is not live: nothing has to back its coins.
LEMMA LifeInv ==
    ASSUME Inv, NEW c \in Contracts, NEW s \in {"destroyed", "redeployed"}, NEW u \in [Holders -> Nat],
           status' = [status EXCEPT ![c] = s], tokens' = [tokens EXCEPT ![c] = u],
           UNCHANGED <<params, reg, metadata, coins, noSend, ibc, history>>
    PROVE  Inv'
<1>1. UNCHANGED <<params, reg, metadata, coins, noSend, packets, remote, granted, pulled, skimmed>>
  BY DEF ibc, history, grants
<1>2. tokens \in TokenBalances /\ status \in Statuses
  BY DEF Inv, TokensOK, NamesOK
<1>3. /\ tokens' \in TokenBalances /\ status' \in Statuses
      /\ \A x \in Contracts : status'[x] = "live" => status[x] = "live" /\ tokens'[x] = tokens[x]
  BY <1>2 DEF TokenBalances, Statuses
<1>4. Covered(coins, tokens', status', skimmed)
  BY <1>3, InvMoney, Names DEF Money, Covered
<1>5. ParamsOK' /\ NamesOK'
  BY <1>1, <1>3 DEF Inv, ParamsOK, NamesOK
<1>6. StoreOK' /\ CoinsOK' /\ TokensOK'
  BY <1>1, <1>3, <1>4 DEF Inv, StoreOK, CoinsOK, TokensOK
<1>7. PacketsOK' /\ GrantsOK'
  BY <1>1 DEF Inv, PacketsOK, GrantsOK
<1>8. QED
  BY <1>5, <1>6, <1>7 DEF Inv

\* The end of a contract keeps the invariant.
LEMMA SelfDestructInv ==
    ASSUME Inv, NEW c \in Contracts, SelfDestruct(c) \/ Redeploy(c)
    PROVE  Inv'
<1>1. NewSupply \in [Holders -> Nat] /\ [h \in Holders |-> 0] \in [Holders -> Nat]
  BY ParameterAssumption DEF NewSupply
<1>2. CASE SelfDestruct(c)
  BY <1>1, <1>2, LifeInv DEF SelfDestruct
<1>3. CASE Redeploy(c)
  BY <1>1, <1>3, LifeInv DEF Redeploy
<1>4. QED
  BY <1>2, <1>3

(***************************************************************************)
(* The invariant holds.                                                    *)
(***************************************************************************)
LEMMA InitInv == Init => Inv
<1> SUFFICES ASSUME Init PROVE Inv
  OBVIOUS
<1>1. ParamsOK /\ NamesOK
  BY DEF Init, ParamsOK, NamesOK, Statuses
<1>2. /\ EmptyStore \in Stores /\ PairsFiled(EmptyStore) /\ Described(EmptyStore, metadata)
      /\ \A g \in Grants : EmptyStore.allowances[g] = 0
  <2>1. PICK e : e = EmptyStore
    OBVIOUS
  <2>2. /\ e.pairs = [id \in Ids |-> None] /\ e.denomMap = [d \in Denoms |-> None]
        /\ e.erc20Map = [a \in Addresses |-> None] /\ e.dynamic = {}
        /\ e.allowances = [g \in Grants |-> 0]
        /\ e = [pairs |-> e.pairs, denomMap |-> e.denomMap, erc20Map |-> e.erc20Map,
                dynamic |-> e.dynamic, allowances |-> e.allowances]
    BY <2>1 DEF EmptyStore
  <2>3. e \in Stores
    BY <2>2 DEF Stores
  <2>4. PairsFiled(e) /\ Described(e, metadata)
    BY <2>2 DEF PairsFiled, Described
  <2>5. QED
    BY <2>1, <2>2, <2>3, <2>4
<1>3. StoreOK /\ reg = EmptyStore
  BY <1>2 DEF Init, StoreOK
<1>4. \A d \in NativeDenoms : d \in Denoms /\ coins[d] = [h \in Holders |-> 0]
  BY Names DEF Init
<1>5. CoinsOK
  BY <1>4 DEF Init, CoinsOK, CoinBalances, Unissued
<1>6. \A d \in NativeDenoms : Held(coins[d]) = 0
  BY <1>4, SumOnZero DEF Held
<1>7. NewSupply \in [Holders -> Nat] /\ NewSupply[Module] = 0
  BY ParameterAssumption, HoldersFinite DEF NewSupply
<1>8. TokensOK
  BY <1>6, <1>7, Names DEF Init, TokensOK, TokenBalances, Skims, Covered
<1>9. \A d : InFlight({}, d) = 0
  <2>1. \A d : \A s \in 1 .. MaxPackets : Unsettled({}, d)[s] = 0
    BY DEF Unsettled
  <2>2. QED
    BY <2>1, SumOnZero DEF InFlight
<1>10. PacketsOK
  <2>1. remote \in [Denoms -> Nat] /\ \A d \in NativeDenoms : remote[d] = 0
    BY Names, ParameterAssumption DEF Init
  <2>2. Numbered(packets) /\ packets = {}
    BY DEF Init, Numbered
  <2>3. Escrowed(coins, packets, remote)
    BY <1>4, <1>9, <2>1, <2>2, HoldersFinite DEF Escrowed
  <2>4. QED
    BY <2>1, <2>2, <2>3 DEF PacketsOK
<1>11. GrantsOK
  BY <1>2, <1>3 DEF Init, GrantsOK, Within
<1>12. QED
  BY <1>1, <1>3, <1>5, <1>8, <1>10, <1>11 DEF Inv

\* Every step keeps the invariant.
LEMMA StepInv == Inv /\ [Next]_vars => Inv'
<1> SUFFICES ASSUME Inv, [Next]_vars PROVE Inv'
  OBVIOUS
<1>1. CASE UNCHANGED vars
  <2>1. UNCHANGED <<params, reg, metadata, coins, tokens, status, noSend, packets, remote, granted, pulled, skimmed>>
    BY <1>1 DEF vars
  <2>2. Money(coins', tokens', skimmed') /\ Numbered(packets') /\ remote' \in [Denoms -> Nat]
        /\ Escrowed(coins', packets', remote')
    BY <2>1, InvMoney
  <2>3. QED
    BY <2>1, <2>2, MoneyStep
<1>2. CASE Convert
  BY <1>2, ConvertERC20Inv, ConvertCoinInv DEF Convert
<1>3. CASE Govern
  BY <1>3, RegisterInv, ToggleInv, UpdateParamsInv DEF Govern
<1>4. CASE Precompile
  BY <1>4, ApproveInv, PrecompileTransferInv, TransferFromInv DEF Precompile
<1>5. CASE IBC
  <2>1. CASE \E d \in Denoms, a \in Accounts, n \in Amounts, how \in Behaviours : TransferMsg(a, d, n, how)
    BY <2>1, TransferMsgInv
  <2>2. CASE \E p \in packets : \E result \in {"received", "rejected"} : RemoteTakes(p, result)
    BY <2>2, RemoteTakesInv
  <2>3. CASE \E p \in packets, how \in Behaviours : OnAcknowledgementPacket(p, how)
    BY <2>3, AcknowledgedInv
  <2>4. CASE \E p \in packets, how \in Behaviours : OnTimeoutPacket(p, how)
    BY <2>4, RefundInv DEF OnTimeoutPacket
  <2>5. CASE \E d \in Denoms, a, b \in Accounts, n \in Amounts, how \in Behaviours :
                OnRecvPacket(d, a, b, n, how) \/ OnRecvPacketV2(d, a, b, n, how)
    BY <2>5, ReceivedInv DEF OnRecvPacket, OnRecvPacketV2
  <2>6. QED
    BY <1>5, <2>1, <2>2, <2>3, <2>4, <2>5 DEF IBC
<1>6. CASE Outside
  BY <1>6, SetSendEnabledInv, SendCoinInv, SendTokenInv, SelfDestructInv DEF Outside
<1>7. QED
  BY <1>1, <1>2, <1>3, <1>4, <1>5, <1>6 DEF Next

\* The invariant holds in every behaviour: the stores agree, every coin of a live contract
\* is backed, and the escrow covers the other chain and every packet that may come back.
THEOREM Invariance == Spec => []Inv
<1>1. Init => Inv
  BY InitInv
<1>2. Inv /\ [Next]_vars => Inv'
  BY StepInv
<1>3. QED
  BY <1>1, <1>2, PTL DEF Spec

\* The invariant gives RegistrySound.
LEMMA InvRegistrySound == Inv => RegistrySound
<1> SUFFICES ASSUME Inv PROVE RegistrySound
  OBVIOUS
<1>1. /\ reg.pairs \in [Ids -> TokenPair \cup {None}]
      /\ reg.denomMap \in [Denoms -> Ids \cup {None}]
      /\ reg.erc20Map \in [Addresses -> Ids \cup {None}]
      /\ reg.dynamic \subseteq Vouchers /\ reg.allowances \in [Grants -> Nat]
  BY InvMoney DEF Stores
<1>2. MapsAgree
  BY InvMoney DEF PairsFiled, MapsAgree
<1>3. coins \in [Denoms -> [Holders -> Nat]] /\ tokens \in [Contracts -> [Holders -> Nat]]
  BY InvMoney DEF Money, CoinBalances, TokenBalances
<1>4. TypeOK
  BY <1>1, <1>3, InvMoney DEF TypeOK, Inv, ParamsOK, NamesOK, Statuses, Numbered, Packet
<1>5. QED
  BY <1>2, <1>4 DEF RegistrySound

\* The three stores of token pairs always agree, no balance is ever negative (the escrow
\* pays every refund and every receipt) and sequence numbers are not used twice, whatever
\* contracts do and however messages, packets and acknowledgements interleave.
THEOREM RegistryAlwaysSound == Spec => []RegistrySound
  BY Invariance, InvRegistrySound, PTL

\* The invariant gives WithinGrant.
LEMMA InvWithinGrant == Inv => WithinGrant
<1> SUFFICES ASSUME Inv, NEW g \in Grants PROVE pulled[g] <= granted[g]
  BY DEF WithinGrant
<1>1. reg.allowances[g] \in Nat /\ pulled[g] \in Nat /\ granted[g] \in Nat
  BY InvMoney DEF Stores
<1>2. reg.allowances[g] + pulled[g] <= granted[g]
  BY InvMoney DEF Within
<1>3. QED
  BY <1>1, <1>2

\* No spender ever transfers more than the owner last approved, whatever happens to the
\* pair, its precompile and the allowance in between.
THEOREM GrantsRespected == Spec => []WithinGrant
  BY Invariance, InvWithinGrant, PTL

\* The fold that counts the coins in circulation is their sum.
LEMMA CirculatingHeld ==
    ASSUME Inv, NEW d \in Denoms
    PROVE  Circulating(d) = Held(coins[d])
<1>1. PICK f : f = coins[d]
  OBVIOUS
<1>2. PICK S : S = Holders \ {Module}
  OBVIOUS
<1>3. IsFiniteSet(S) /\ \A h \in S : f[h] \in Nat
  BY <1>1, <1>2, HoldersFinite, InvMoney DEF Money, CoinBalances
<1>4. MapThenSumSet(LAMBDA h : f[h], S) = SumOn(S, f)
  BY <1>3, MapThenSumIsSum
<1>5. Circulating(d) = MapThenSumSet(LAMBDA h : f[h], S)
  BY <1>1, <1>2 DEF Circulating
<1>6. QED
  BY <1>1, <1>2, <1>4, <1>5 DEF Held

\* The invariant gives Backed.
LEMMA InvBacked == Inv => Backed
<1> SUFFICES ASSUME Inv, NEW c \in Contracts, status[c] = "live"
             PROVE  tokens[c][Module] + skimmed[c] >= Circulating(CreateDenom(c))
  BY DEF Backed
<1>1. PICK d : d = CreateDenom(c)
  OBVIOUS
<1>2. d \in NativeDenoms /\ d \in Denoms /\ d[2] = c
  BY <1>1, Names
<1>3. tokens[c][Module] + skimmed[c] >= Held(coins[d])
  BY <1>2, InvMoney DEF Money, Covered
<1>4. QED
  BY <1>1, <1>2, <1>3, CirculatingHeld

\* The coins of a contract never destroyed are always backed by the tokens the module
\* holds and those the contract took of them on top of transfers, whichever transfers move
\* what they say, less, more or nothing and wherever a conversion stops.
THEOREM AlwaysBacked == Spec => []Backed
  BY Invariance, InvBacked, PTL

\* A receipt is paid for by the escrow.
LEMMA RemotePays ==
    ASSUME Inv, NEW d \in Denoms, NEW b \in Accounts, NEW n \in Amounts, remote[d] >= n
    PROVE  /\ Money(Arrived(coins, d, b, n), tokens, skimmed)
           /\ Arrived(coins, d, b, n)[d][b] = coins[d][b] + n
<1>1. n \in Nat \ {0} /\ n \in Nat /\ remote[d] \in Nat
  BY AmountType, InvMoney
<1>2. d \in NativeDenoms => coins[d][Escrow] >= n
  <2> SUFFICES ASSUME d \in NativeDenoms PROVE coins[d][Escrow] >= n
    OBVIOUS
  <2>1. coins[d][Escrow] >= remote[d] + InFlight(packets, d) /\ coins[d][Escrow] \in Nat
    BY InvMoney, HoldersFinite DEF Escrowed, Money, CoinBalances
  <2>2. InFlight(packets, d) \in Nat
    BY InvMoney, InFlightType
  <2>3. QED
    BY <1>1, <2>1, <2>2
<1>3. QED
  BY <1>1, <1>2, InvMoney, ArrivedSound

(***************************************************************************)
(* Fresh pairs.                                                            *)
(***************************************************************************)
\* Only RegisterERC20 files a pair of a contract.
LEMMA NewPairs ==
    ASSUME Inv, [Next]_vars, NEW id \in Ids, reg.pairs[id] = None, reg'.pairs[id] # None,
           id[2] \in NativeDenoms
    PROVE  id[2] \notin metadata
<1>1. CASE reg' = reg
  BY <1>1
<1>2. ASSUME NEW pair \in TokenPair, reg.pairs[GetID(pair)] = pair, reg' = DeleteTokenPair(reg, pair)
      PROVE  FALSE
  BY <1>2, InvMoney, DeleteFiles
<1>3. ASSUME NEW t \in Addresses \cup Denoms, NEW pair, pair = PairOf(t), pair # None, DeleteDestroyed(pair)
      PROVE  FALSE
  BY <1>2, <1>3, PairOfType DEF DeleteDestroyed
<1>4. CASE Convert
  <2>1. PICK a, b \in Accounts, n \in Amounts, how \in Behaviours :
           \/ \E t \in Addresses : ConvertERC20(a, b, t, n, how)
           \/ \E t \in Addresses \cup Denoms : ConvertCoin(a, b, t, n, how)
    BY <1>4 DEF Convert
  <2>2. ASSUME NEW t \in Addresses, ConvertERC20(a, b, t, n, how) PROVE FALSE
    <3>1. PICK pair : pair = MintingEnabled(a, b, t)
      OBVIOUS
    <3>2. pair # None /\ (DeleteDestroyed(pair) \/ reg' = reg)
      BY <2>2, <3>1 DEF ConvertERC20
    <3>3. QED
      BY <1>1, <1>3, <3>1, <3>2, Enabled
  <2>3. ASSUME NEW t \in Addresses \cup Denoms, ConvertCoin(a, b, t, n, how) PROVE FALSE
    <3>1. PICK pair : pair = MintingEnabled(a, b, t)
      OBVIOUS
    <3>2. pair # None /\ (DeleteDestroyed(pair) \/ reg' = reg)
      BY <2>3, <3>1 DEF ConvertCoin
    <3>3. QED
      BY <1>1, <1>3, <3>1, <3>2, Enabled
  <2>4. QED
    BY <2>1, <2>2, <2>3
<1>5. CASE Govern
  <2>1. ASSUME NEW signer, NEW c \in Contracts, RegisterERC20(signer, c) PROVE id[2] \notin metadata
    <3>1. PICK pair : pair = NewTokenPair(c)
      OBVIOUS
    <3>2. reg' = SetToken(reg, pair).r /\ CreateDenom(c) \notin metadata
      BY <2>1, <3>1 DEF RegisterERC20, registerERC20, CreateCoinMetadata
    <3>3. pair \in TokenPair /\ Shaped(pair) /\ pair.denom = CreateDenom(c)
      BY <3>1, Names DEF NewTokenPair, TokenPair, Shaped, Addresses
    <3>4. id = GetID(pair)
      BY <3>2, <3>3, InvMoney, SetTokenFiles
    <3>5. QED
      BY <3>2, <3>3, <3>4, IdType
  <2>2. ASSUME NEW signer, NEW t \in Addresses \cup Denoms, ToggleConversion(signer, t) PROVE FALSE
    <3>1. PICK pair : pair = PairOf(t)
      OBVIOUS
    <3>2. pair # None /\ reg' = Toggled(reg, GetID(pair))
      BY <2>2, <3>1 DEF ToggleConversion, toggleConversion, Toggled
    <3>3. pair \in TokenPair /\ reg.pairs[GetID(pair)] = pair
      BY <3>1, <3>2, PairOfType
    <3>4. QED
      BY <3>2, <3>3, InvMoney, ToggleFiles
  <2>3. ASSUME NEW signer, NEW enabled, NEW permissionless, UpdateParams(signer, enabled, permissionless)
        PROVE  FALSE
    BY <1>1, <2>3 DEF UpdateParams
  <2>4. QED
    BY <1>5, <2>1, <2>2, <2>3 DEF Govern
<1>6. CASE Precompile
  <2>1. PICK v \in Vouchers, a, b \in Accounts :
           \/ \E n \in 0 .. MaxAmount : Approve(v, a, b, n)
           \/ \E n \in Amounts : PrecompileTransfer(v, a, b, n)
           \/ \E n \in Amounts, to \in Accounts : TransferFrom(v, a, b, to, n)
    BY <1>6 DEF Precompile
  <2>2. <<v, a, b>> \in Grants /\ <<v, b, a>> \in Grants
    BY DEF Grants
  <2>3. ASSUME NEW g \in Grants, NEW x \in Int, SetAllowance(reg, g, x).ok, reg' = SetAllowance(reg, g, x).r
        PROVE  FALSE
    <3>1. reg \in Stores /\ PairsFiled(reg)
      BY InvMoney
    <3>2. SetAllowance(reg, g, x).r.pairs = reg.pairs
      BY <2>3, <3>1, AllowanceSet, ZenonT(60)
    <3>3. QED
      BY <2>3, <3>2
  <2>4. ASSUME NEW n \in 0 .. MaxAmount, Approve(v, a, b, n) PROVE FALSE
    <3>1. PICK g : g = <<v, a, b>>
      OBVIOUS
    <3>2. n \in Int
      BY <2>4
    <3>3. reg' = reg \/ (SetAllowance(reg, g, n).ok /\ reg' = SetAllowance(reg, g, n).r)
      BY <2>4, <3>1 DEF Approve
    <3>4. QED
      BY <1>1, <2>2, <2>3, <3>1, <3>2, <3>3
  <2>5. ASSUME NEW n \in Amounts, PrecompileTransfer(v, a, b, n) PROVE FALSE
    BY <1>1, <2>5 DEF PrecompileTransfer
  <2>6. ASSUME NEW n \in Amounts, NEW to \in Accounts, TransferFrom(v, a, b, to, n) PROVE FALSE
    <3>1. PICK g : g = <<v, b, a>>
      OBVIOUS
    <3>2. PICK x : x = reg.allowances[g] - n
      OBVIOUS
    <3>3. SetAllowance(reg, g, x).ok /\ reg' = SetAllowance(reg, g, x).r
      BY <2>6, <3>1, <3>2 DEF TransferFrom, SpendAllowance
    <3>4. x \in Int /\ g \in Grants
      BY <2>2, <3>1, <3>2, AmountType, InvMoney DEF Stores
    <3>5. QED
      BY <2>3, <3>3, <3>4
  <2>7. QED
    BY <2>1, <2>4, <2>5, <2>6
<1>7. CASE IBC
  <2>1. CASE \E d \in Denoms, a \in Accounts, n \in Amounts, how \in Behaviours : TransferMsg(a, d, n, how)
    BY <1>1, <2>1 DEF TransferMsg
  <2>2. CASE \E p \in packets : \E result \in {"received", "rejected"} : RemoteTakes(p, result)
    BY <1>1, <2>2 DEF RemoteTakes
  <2>3. CASE \E p \in packets, how \in Behaviours : OnAcknowledgementPacket(p, how)
    BY <1>1, <2>3 DEF OnAcknowledgementPacket, Refund
  <2>4. CASE \E p \in packets, how \in Behaviours : OnTimeoutPacket(p, how)
    BY <1>1, <2>4 DEF OnTimeoutPacket, Refund
  <2>5. CASE \E d \in Denoms, a, b \in Accounts, n \in Amounts, how \in Behaviours :
                OnRecvPacket(d, a, b, n, how) \/ OnRecvPacketV2(d, a, b, n, how)
    <3>1. PICK d \in Denoms, a, b \in Accounts, n \in Amounts, how \in Behaviours :
             OnRecvPacket(d, a, b, n, how) \/ OnRecvPacketV2(d, a, b, n, how)
      BY <2>5
    <3>2. PICK cs : cs = Arrived(coins, d, b, n)
      OBVIOUS
    <3>3. PICK got : got = OnRecv(cs, d, a, b, n, how)
      OBVIOUS
    <3>4. remote[d] >= n /\ reg' = got.r
      BY <3>1, <3>2, <3>3 DEF OnRecvPacket, OnRecvPacketV2, Received
    <3>5. Money(cs, tokens, skimmed)
      BY <3>2, <3>4, RemotePays
    <3>6. reg'.pairs[id] # None => reg.pairs[id] # None \/ id[2] \in VoucherDenoms
      BY <3>3, <3>4, <3>5, OnRecvSound
    <3>7. QED
      BY <3>6, Names
  <2>6. QED
    BY <1>7, <2>1, <2>2, <2>3, <2>4, <2>5 DEF IBC
<1>8. CASE Outside
  BY <1>1, <1>8 DEF Outside, SetSendEnabled, SendCoin, SendToken, SelfDestruct, Redeploy
<1>9. CASE UNCHANGED vars
  BY <1>1, <1>9 DEF vars
<1>10. QED
  BY <1>4, <1>5, <1>6, <1>7, <1>8, <1>9 DEF Next

\* A step that leads to FreshPairs' conclusion.
LEMMA FreshStep ==
    ASSUME Inv, [Next]_vars, NEW id \in Ids, reg.pairs[id] = None, reg'.pairs[id] # None,
           id[2] \in NativeDenoms
    PROVE  Circulating(id[2]) = 0
<1>1. PICK d : d = id[2]
  OBVIOUS
<1>2. d \in NativeDenoms /\ d \in Denoms /\ d \notin metadata
  BY <1>1, NewPairs, Names
<1>3. \A h \in Holders \ {Module} : coins[d][h] = 0
  BY <1>2 DEF Inv, CoinsOK, Unissued
<1>4. Held(coins[d]) = 0
  BY <1>3, SumOnZero DEF Held
<1>5. QED
  BY <1>1, <1>2, <1>4, CirculatingHeld

\* A pair just registered never has coins in circulation: a contract deployed again at the
\* address of a destroyed one cannot be registered while its coins are about, because the
\* metadata of the first registration is never removed.
THEOREM PairsAlwaysFresh == Spec => FreshPairs
<1>1. Inv /\ [Next]_vars =>
        [\A id \in Ids :
           reg.pairs[id] = None /\ reg'.pairs[id] # None /\ id[2] \in NativeDenoms
               => Circulating(id[2]) = 0]_vars
  BY FreshStep
<1>2. QED
  BY <1>1, Invariance, PTL DEF Spec, FreshPairs

(***************************************************************************)
(* Receipts.                                                               *)
(***************************************************************************)
\* What an account has of a denom, before and after a step.
LEMMA HoldingHas == \A a, d : Holding(a, d) = Has(coins, tokens, a, d) /\ Holding(a, d)' = Has(coins', tokens', a, d)
  BY DEF Holding, Has

\* The step of the middleware that pays.
LEMMA OnRecvPays ==
    ASSUME Inv, NEW d \in Denoms, NEW a \in Accounts, NEW b \in Accounts, NEW n \in Amounts, NEW how,
           OnRecvPacket(d, a, b, n, how)
    PROVE  /\ Has(coins', tokens', b, d) - Has(coins, tokens, b, d) = n
           /\ remote[d] - remote'[d] = n /\ \A e \in Denoms : e # d => remote'[e] = remote[e]
<1>1. PICK cs : cs = Arrived(coins, d, b, n)
  OBVIOUS
<1>2. PICK got : got = OnRecv(cs, d, a, b, n, how)
  OBVIOUS
<1>3. /\ remote[d] >= n /\ got.ok /\ coins' = got.coins /\ tokens' = got.tokens
      /\ remote' = [remote EXCEPT ![d] = @ - n]
  BY <1>1, <1>2 DEF OnRecvPacket, Received
<1>4. Money(cs, tokens, skimmed) /\ cs[d][b] = coins[d][b] + n
  BY <1>1, <1>3, RemotePays
<1>5. Has(coins', tokens', b, d) = Has(cs, tokens, b, d)
  BY <1>2, <1>3, <1>4, OnRecvSound
<1>6. coins[d][b] \in Nat /\ n \in Nat /\ remote \in [Denoms -> Nat]
  BY InvMoney, HoldersFinite, AmountType DEF Money, CoinBalances
<1>7. (IF d \in NativeDenoms THEN tokens[d[2]][b] ELSE 0) \in Nat
  BY InvMoney, HoldersFinite, Names DEF Money, TokenBalances
<1>8. Has(cs, tokens, b, d) - Has(coins, tokens, b, d) = n
  BY <1>4, <1>6, <1>7 DEF Has
<1>9. QED
  BY <1>3, <1>5, <1>6, <1>8

\* Over version 1 of IBC, what the other chain has less of, an account has more of.
LEMMA ReceiptStep ==
    ASSUME Inv, [Next]_vars, 2 \notin Versions, NEW d \in Denoms, remote'[d] < remote[d]
    PROVE  \E a \in Accounts : Holding(a, d)' - Holding(a, d) = remote[d] - remote'[d]
<1>1. remote \in [Denoms -> Nat]
  BY InvMoney
<1>2. remote' # remote
  BY <1>1
<1>3. CASE \E e \in Denoms, a, b \in Accounts, n \in Amounts, how \in Behaviours :
              OnRecvPacket(e, a, b, n, how)
  <2>1. PICK e \in Denoms, a, b \in Accounts, n \in Amounts, how \in Behaviours :
           OnRecvPacket(e, a, b, n, how)
    BY <1>3
  <2>2. /\ Has(coins', tokens', b, e) - Has(coins, tokens, b, e) = n
        /\ remote[e] - remote'[e] = n /\ \A f \in Denoms : f # e => remote'[f] = remote[f]
    BY <2>1, OnRecvPays
  <2>3. e = d
    BY <1>1, <2>2
  <2>4. QED
    BY <2>2, <2>3, HoldingHas
<1>4. ASSUME NEW p \in packets, NEW result, RemoteTakes(p, result) PROVE FALSE
  <2>1. p.amount \in Nat /\ p.denom \in Denoms
    BY InvMoney, PacketFields DEF Numbered
  <2>2. remote' = remote \/ remote' = [remote EXCEPT ![p.denom] = @ + p.amount]
    BY <1>4 DEF RemoteTakes
  <2>3. QED
    BY <1>1, <2>1, <2>2
<1>5. \/ remote' = remote
      \/ \E p \in packets : \E result \in {"received", "rejected"} : RemoteTakes(p, result)
      \/ \E e \in Denoms, a, b \in Accounts, n \in Amounts, how \in Behaviours :
            OnRecvPacket(e, a, b, n, how)
  <2>1. CASE Convert
    BY <2>1 DEF Convert, ConvertERC20, ConvertCoin, DeleteDestroyed, ibc
  <2>2. CASE Govern
    BY <2>2 DEF Govern, RegisterERC20, ToggleConversion, UpdateParams, ibc
  <2>3. CASE Precompile
    BY <2>3 DEF Precompile, Approve, PrecompileTransfer, TransferFrom, ibc
  <2>4. CASE IBC
    BY <2>4 DEF IBC, TransferMsg, OnAcknowledgementPacket, OnTimeoutPacket, Refund, OnRecvPacketV2
  <2>5. CASE Outside
    BY <2>5 DEF Outside, SetSendEnabled, SendCoin, SendToken, SelfDestruct, Redeploy, ibc
  <2>6. CASE UNCHANGED vars
    BY <2>6 DEF vars
  <2>7. QED
    BY <2>1, <2>2, <2>3, <2>4, <2>5, <2>6 DEF Next
<1>6. QED
  BY <1>2, <1>3, <1>4, <1>5

\* A packet that the middleware of IBC v1 acknowledges with success has given its receiver
\* the amount, as coins or as tokens, whatever the contract does.  (That of IBC v2 drops the
\* keeper's acknowledgement, so nothing of the kind holds of it.)
THEOREM ReceiptsAlwaysPay == 2 \notin Versions /\ Spec => ReceiptPays
<1>1. 2 \notin Versions /\ Inv /\ [Next]_vars =>
        [\A d \in Denoms :
           remote'[d] < remote[d] =>
               \E a \in Accounts : Holding(a, d)' - Holding(a, d) = remote[d] - remote'[d]]_vars
  BY ReceiptStep
<1>2. SUFFICES ASSUME 2 \notin Versions PROVE Spec => ReceiptPays
  OBVIOUS
<1>3. Inv /\ [Next]_vars =>
        [\A d \in Denoms :
           remote'[d] < remote[d] =>
               \E a \in Accounts : Holding(a, d)' - Holding(a, d) = remote[d] - remote'[d]]_vars
  BY <1>1, <1>2
<1>4. QED
  BY <1>3, Invariance, PTL DEF Spec, ReceiptPays

(***************************************************************************)
(* Refunds.                                                                *)
(***************************************************************************)
\* Every contract's transfer does what it says and no contract is destroyed.
Dependable == Behaviours \subseteq {"moves"} /\ "destroy" \notin Ops

\* Every contract is there and has taken nothing on top of a transfer.
Live == \A c \in Contracts : status[c] = "live" /\ skimmed[c] = 0

\* Every contract is there at the start.
LEMMA LiveInit == Init => Live
  BY DEF Init, Live

\* A transfer that does what it says takes nothing on top.
LEMMA NothingOnTop ==
    ASSUME Live, NEW ts, NEW how, how # "takesMore"
    PROVE  \A c \in Contracts : Skimmed(ts, how)[c] = 0
<1> SUFFICES ASSUME NEW c \in Contracts PROVE Skimmed(ts, how)[c] = 0
  OBVIOUS
<1>1. Skimmed(ts, how)[c] = skimmed[c] + IF how = "takesMore" /\ ts[c] # tokens[c] THEN 1 ELSE 0
  BY DEF Skimmed
<1>2. QED
  BY <1>1 DEF Live

\* No contract goes away where none may end, and none takes anything on top.
LEMMA LiveStep == Dependable /\ Live /\ [Next]_vars => Live'
<1> SUFFICES ASSUME Dependable, Live, [Next]_vars PROVE Live'
  OBVIOUS
<1> DEFINE Same == status' = status /\ (skimmed' = skimmed \/ \E ts : skimmed' = Skimmed(ts, "moves"))
<1>1. Same
  <2>1. ASSUME NEW how \in Behaviours PROVE how = "moves"
    BY DEF Dependable
  <2>2. CASE Convert
    <3>1. PICK a, b \in Accounts, n \in Amounts, how \in Behaviours :
             \/ \E t \in Addresses : ConvertERC20(a, b, t, n, how)
             \/ \E t \in Addresses \cup Denoms : ConvertCoin(a, b, t, n, how)
      BY <2>2 DEF Convert
    <3>2. how = "moves"
      BY <2>1
    <3>3. ASSUME NEW t \in Addresses, ConvertERC20(a, b, t, n, how) PROVE Same
      BY <3>3 DEF ConvertERC20, DeleteDestroyed, outside, history
    <3>4. ASSUME NEW t \in Addresses \cup Denoms, ConvertCoin(a, b, t, n, how) PROVE Same
      BY <3>2, <3>4 DEF ConvertCoin, DeleteDestroyed, outside, history
    <3>5. QED
      BY <3>1, <3>3, <3>4
  <2>3. CASE Govern
    BY <2>3 DEF Govern, RegisterERC20, ToggleConversion, UpdateParams, outside, history
  <2>4. CASE Precompile
    BY <2>4 DEF Precompile, Approve, PrecompileTransfer, TransferFrom, outside, history
  <2>5. CASE IBC
    <3>1. CASE \E d \in Denoms, a \in Accounts, n \in Amounts, how \in Behaviours : TransferMsg(a, d, n, how)
      BY <3>1 DEF TransferMsg, outside, history
    <3>2. CASE \E p \in packets : \E result \in {"received", "rejected"} : RemoteTakes(p, result)
      BY <3>2 DEF RemoteTakes, outside, history
    <3>3. ASSUME NEW p \in packets, NEW how \in Behaviours, Refund(p, how) PROVE Same
      BY <2>1, <3>3 DEF Refund, outside
    <3>4. CASE \E p \in packets, how \in Behaviours : OnAcknowledgementPacket(p, how)
      BY <3>3, <3>4 DEF OnAcknowledgementPacket, outside, history
    <3>5. CASE \E p \in packets, how \in Behaviours : OnTimeoutPacket(p, how)
      BY <3>3, <3>5 DEF OnTimeoutPacket
    <3>6. CASE \E d \in Denoms, a, b \in Accounts, n \in Amounts, how \in Behaviours :
                  OnRecvPacket(d, a, b, n, how) \/ OnRecvPacketV2(d, a, b, n, how)
      BY <2>1, <3>6 DEF OnRecvPacket, OnRecvPacketV2, Received, outside
    <3>7. QED
      BY <2>5, <3>1, <3>2, <3>4, <3>5, <3>6 DEF IBC
  <2>6. CASE Outside
    BY <2>6 DEF Outside, SetSendEnabled, SendCoin, SendToken, SelfDestruct, Redeploy, outside, history, Dependable
  <2>7. CASE UNCHANGED vars
    BY <2>7 DEF vars
  <2>8. QED
    BY <2>2, <2>3, <2>4, <2>5, <2>6, <2>7 DEF Next
<1>2. CASE skimmed' = skimmed
  BY <1>1, <1>2 DEF Live
<1>3. CASE \E ts : skimmed' = Skimmed(ts, "moves")
  <2>1. PICK ts : skimmed' = Skimmed(ts, "moves")
    BY <1>3
  <2>2. \A c \in Contracts : skimmed'[c] = 0
    BY <2>1, NothingOnTop
  <2>3. QED
    BY <1>1, <2>2 DEF Live
<1>4. QED
  BY <1>1, <1>2, <1>3

\* The conversion of a refund of a dependable contract is carried out or refused as a whole.
LEMMA ConvertsWhole ==
    ASSUME Inv, Live, NEW pair \in TokenPair, Shaped(pair), pair.denom \in NativeDenoms,
           NEW cs, Money(cs, tokens, skimmed), NEW n \in Nat \ {0}, NEW s \in Accounts, cs[pair.denom][s] >= n,
           NEW done, done = ConvertCoinNativeERC20(cs, pair, n, s, s, "moves")
    PROVE  done.ok \/ (done.coins = cs /\ done.tokens = tokens)
<1>1. PICK d, c : d = pair.denom /\ c = pair.erc20
  OBVIOUS
<1>2. d \in NativeDenoms /\ d \in Denoms /\ c = d[2] /\ c \in Contracts
  BY <1>1, NativePair
<1>3. /\ cs[d] \in [Holders -> Nat] /\ tokens[c] \in [Holders -> Nat]
      /\ s \in Holders \ {Module} /\ Module \in Holders /\ s \in Holders /\ s # Module /\ n \in Nat
  BY <1>2, InvMoney, HoldersFinite DEF Money, CoinBalances, TokenBalances
<1>4. tokens[c][Module] >= Held(cs[d])
  <2>1. tokens[c][Module] + skimmed[c] >= Held(cs[d]) /\ skimmed[c] = 0
    BY <1>2 DEF Money, Covered, Live
  <2>2. tokens[c][Module] \in Nat
    BY <1>3
  <2>3. QED
    BY <2>1, <2>2
<1>5. Held(cs[d]) >= cs[d][s] /\ Held(cs[d]) \in Nat
  BY <1>3, HeldBound
<1>6. tokens[c][Module] >= n
  BY <1>1, <1>3, <1>4, <1>5
<1>7. PICK call : call = Transfer(tokens[c], Module, s, n, "moves")
  OBVIOUS
<1>8. call = [ok |-> TRUE, bal |-> Move(tokens[c], Module, s, n)]
  BY <1>6, <1>7 DEF Transfer
<1>9. Move(tokens[c], Module, s, n)[s] = tokens[c][s] + n
  BY <1>3, <1>6, MoveType
<1>10. BalanceOf(c, s) = tokens[c][s]
  BY <1>2 DEF Live, BalanceOf, IsContract
<1>11. call.ok /\ call.bal[s] = BalanceOf(c, s) + n
  BY <1>8, <1>9, <1>10
<1>12. CASE BalanceOf(c, s) = None \/ cs[d][s] < n
  BY <1>1, <1>12 DEF ConvertCoinNativeERC20
<1>13. CASE ~ (BalanceOf(c, s) = None \/ cs[d][s] < n)
  BY <1>1, <1>7, <1>11, <1>13 DEF ConvertCoinNativeERC20
<1>14. QED
  BY <1>12, <1>13

\* A refund of a dependable contract's coins.
LEMMA RefundPays ==
    ASSUME Inv, Live, NEW p \in packets, p.state # "received", Refund(p, "moves")
    PROVE  Has(coins', tokens', p.sender, p.denom) = Has(coins, tokens, p.sender, p.denom) + p.amount
<1>1. PICK d, n, s : d = p.denom /\ n = p.amount /\ s = p.sender
  OBVIOUS
<1>2. PICK cs : cs = Arrived(coins, d, s, n)
  OBVIOUS
<1>3. PICK done : done = ConvertCoinToERC20FromPacket(cs, p, "moves")
  OBVIOUS
<1>4. coins' = done.coins /\ tokens' = done.tokens
  BY <1>1, <1>2, <1>3 DEF Refund
<1>5. p \in Packet
  BY InvMoney DEF Numbered
<1>6. d \in Denoms /\ s \in Accounts /\ n \in Nat \ {0} /\ n \in Nat
  BY <1>1, <1>5, PacketFields
<1>7. Money(cs, tokens, skimmed) /\ cs[d][s] = coins[d][s] + n /\ (d \in NativeDenoms => d \in metadata)
  BY <1>1, <1>2, <1>6, EscrowPays, InvMoney, ArrivedSound
<1>8. coins[d][s] \in Nat
  BY <1>6, InvMoney, HoldersFinite DEF Money, CoinBalances
<1>9. (IF d \in NativeDenoms THEN tokens[d[2]][s] ELSE 0) \in Nat
  BY <1>6, InvMoney, HoldersFinite, Names DEF Money, TokenBalances
<1>10. Has(cs, tokens, s, d) = Has(coins, tokens, s, d) + n
  BY <1>6, <1>7, <1>8, <1>9 DEF Has
<1>11. CASE done.coins = cs /\ done.tokens = tokens
  BY <1>1, <1>4, <1>10, <1>11
<1>12. PICK pair : pair = IF d \in NativeDenoms THEN PairOf(d) ELSE None
  OBVIOUS
<1>13. CASE pair = None \/ ~ IsNativeERC20(pair) \/ ~ params.enabled \/ s \in ModuleAccts
  <2>1. done = [coins |-> cs, tokens |-> tokens]
    BY <1>1, <1>3, <1>12, <1>13 DEF ConvertCoinToERC20FromPacket
  <2>2. QED
    BY <1>11, <2>1
<1>14. CASE ~ (pair = None \/ ~ IsNativeERC20(pair) \/ ~ params.enabled \/ s \in ModuleAccts)
  <2>1. done = ConvertCoinNativeERC20(cs, pair, n, s, s, "moves")
    BY <1>1, <1>3, <1>12, <1>14 DEF ConvertCoinToERC20FromPacket
  <2>2. pair = PairOf(d) /\ pair # None /\ d \in NativeDenoms
    BY <1>12, <1>14
  <2>3. pair \in TokenPair /\ Shaped(pair) /\ pair.denom = d
    BY <1>6, <2>2, PairOfType
  <2>4. pair.erc20 = d[2] /\ d[2] \in Contracts
    BY <2>2, <2>3, NativePair
  <2>5. cs[pair.denom][s] >= n
    BY <1>6, <1>7, <1>8, <2>3
  <2>6. done.ok \/ (done.coins = cs /\ done.tokens = tokens)
    BY <1>6, <1>7, <2>1, <2>2, <2>3, <2>5, ConvertsWhole
  <2>7. CASE done.ok
    <3>1. pair.denom \in NativeDenoms /\ pair.denom \in metadata
      BY <1>7, <2>2, <2>3
    <3>2. /\ done.coins[pair.denom][s] = cs[pair.denom][s] - n
          /\ done.tokens[pair.erc20][s] = tokens[pair.erc20][s] + n
      BY <1>6, <1>7, <2>1, <2>3, <2>7, <3>1, ConvertsOut
    <3>3. tokens[d[2]][s] \in Nat
      BY <1>9, <2>2
    <3>4. Has(done.coins, done.tokens, s, d) = Has(cs, tokens, s, d)
      BY <1>6, <1>7, <1>8, <2>2, <2>3, <2>4, <3>2, <3>3 DEF Has
    <3>5. QED
      BY <1>1, <1>4, <1>10, <3>4
  <2>8. QED
    BY <1>11, <2>6, <2>7
<1>15. QED
  BY <1>13, <1>14

\* A packet that is gone without having been received was paid back to its sender.
LEMMA RefundStep ==
    ASSUME Inv, Live, Dependable, [Next]_vars, NEW p \in packets, p \notin packets',
           p.state # "received", \A q \in packets' : q.seq # p.seq
    PROVE  Holding(p.sender, p.denom)' = Holding(p.sender, p.denom) + p.amount
<1>1. ASSUME NEW o \in packets, NEW how \in Behaviours, Refund(o, how), o.state # "received"
      PROVE  Holding(p.sender, p.denom)' = Holding(p.sender, p.denom) + p.amount
  <2>1. how = "moves"
    BY DEF Dependable
  <2>2. packets' = packets \ {o}
    BY <1>1 DEF Refund
  <2>3. o = p
    BY <2>2
  <2>4. QED
    BY <1>1, <2>1, <2>3, RefundPays, HoldingHas
<1>2. CASE packets \subseteq packets'
  BY <1>2
<1>3. CASE Convert
  BY <1>2, <1>3 DEF Convert, ConvertERC20, ConvertCoin, DeleteDestroyed, ibc
<1>4. CASE Govern
  BY <1>2, <1>4 DEF Govern, RegisterERC20, ToggleConversion, UpdateParams, ibc
<1>5. CASE Precompile
  BY <1>2, <1>5 DEF Precompile, Approve, PrecompileTransfer, TransferFrom, ibc
<1>6. CASE IBC
  <2>1. CASE \E d \in Denoms, a \in Accounts, n \in Amounts, how \in Behaviours : TransferMsg(a, d, n, how)
    <3>1. \A d, n, a, cs : SentPacket(d, n, a, cs) => packets \subseteq packets'
      BY DEF SentPacket
    <3>2. PICK d \in Denoms, a \in Accounts, n \in Amounts, how \in Behaviours : TransferMsg(a, d, n, how)
      BY <2>1
    <3>3. \E cs : SentPacket(d, n, a, cs)
      BY <3>2 DEF TransferMsg
    <3>4. QED
      BY <1>2, <3>1, <3>3
  <2>2. CASE \E o \in packets : \E result \in {"received", "rejected"} : RemoteTakes(o, result)
    <3>1. PICK o \in packets, result \in {"received", "rejected"} : RemoteTakes(o, result)
      BY <2>2
    <3>2. o \in Packet
      BY InvMoney DEF Numbered
    <3>3. [o EXCEPT !.state = result].seq = o.seq
      BY <3>2 DEF Packet
    <3>4. packets' = (packets \ {o}) \cup {[o EXCEPT !.state = result]}
      BY <3>1 DEF RemoteTakes
    <3>5. QED
      BY <3>3, <3>4
  <2>3. CASE \E o \in packets, how \in Behaviours : OnAcknowledgementPacket(o, how)
    <3>1. PICK o \in packets, how \in Behaviours : OnAcknowledgementPacket(o, how)
      BY <2>3
    <3>2. CASE o.state = "rejected" /\ Refund(o, how)
      BY <1>1, <3>2
    <3>3. CASE o.state = "received" /\ packets' = packets \ {o}
      BY <3>3
    <3>4. QED
      BY <3>1, <3>2, <3>3 DEF OnAcknowledgementPacket
  <2>4. CASE \E o \in packets, how \in Behaviours : OnTimeoutPacket(o, how)
    BY <1>1, <2>4 DEF OnTimeoutPacket
  <2>5. CASE \E d \in Denoms, a, b \in Accounts, n \in Amounts, how \in Behaviours :
                OnRecvPacket(d, a, b, n, how) \/ OnRecvPacketV2(d, a, b, n, how)
    BY <1>2, <2>5 DEF OnRecvPacket, OnRecvPacketV2, Received
  <2>6. QED
    BY <1>6, <2>1, <2>2, <2>3, <2>4, <2>5 DEF IBC
<1>7. CASE Outside
  BY <1>2, <1>7 DEF Outside, SetSendEnabled, SendCoin, SendToken, SelfDestruct, Redeploy, ibc
<1>8. CASE UNCHANGED vars
  BY <1>2, <1>8 DEF vars
<1>9. QED
  BY <1>3, <1>4, <1>5, <1>6, <1>7, <1>8 DEF Next

\* When contracts' transfers do what they say, a packet refused or timed out always gives
\* its sender the amount back, as tokens or as coins: the conversion cannot fail half way,
\* since the module's tokens cover it.  (Without that assumption a conversion can fail after
\* the coins were taken, and what it wrote is kept.)
THEOREM RefundsReachSender == Dependable /\ Spec => RefundReachesSender
<1> SUFFICES ASSUME Dependable PROVE Spec => RefundReachesSender
  OBVIOUS
<1>1. Spec => []Live
  <2>1. Live /\ [Next]_vars => Live'
    BY LiveStep
  <2>2. QED
    BY <2>1, LiveInit, PTL DEF Spec
<1>2. Inv /\ Live /\ [Next]_vars =>
        [\A p \in packets :
           (p \notin packets' /\ p.state # "received" /\ \A q \in packets' : q.seq # p.seq)
               => Holding(p.sender, p.denom)' = Holding(p.sender, p.denom) + p.amount]_vars
  BY RefundStep
<1>3. QED
  BY <1>1, <1>2, Invariance, PTL DEF Spec, RefundReachesSender

(***************************************************************************)
(* Export and import of the store.                                         *)
(***************************************************************************)
\* An allowance is of a voucher whose pair is still there.
Allowed(r) == \A g \in Grants : r.allowances[g] # 0 => r.erc20Map[g[1]] # None

\* What a step may do to the store.
StoreSteps(r, t) ==
    \/ t = r
    \/ \E pair \in TokenPair :
          r.pairs[GetID(pair)] = pair /\ pair.erc20 \in Contracts /\ t = DeleteTokenPair(r, pair)
    \/ \E pair \in TokenPair : t = SetToken(r, pair).r
    \/ \E pair \in TokenPair, v \in Vouchers :
          /\ pair.erc20 = v /\ SetToken(r, pair).ok
          /\ t = EnableDynamicPrecompile(SetToken(r, pair).r, v)
    \/ \E pair \in TokenPair : r.pairs[GetID(pair)] = pair /\ t = Toggled(r, GetID(pair))
    \/ \E g \in Grants, n \in Int : SetAllowance(r, g, n).ok /\ t = SetAllowance(r, g, n).r

\* Each of them keeps the pair of every allowance.
LEMMA AllowedKept ==
    ASSUME NEW r \in Stores, Allowed(r), NEW t, StoreSteps(r, t)
    PROVE  Allowed(t)
<1> SUFFICES ASSUME NEW g \in Grants, t.allowances[g] # 0 PROVE t.erc20Map[g[1]] # None
  BY DEF Allowed
<1>1. /\ r.pairs \in [Ids -> TokenPair \cup {None}]
      /\ r.denomMap \in [Denoms -> Ids \cup {None}]
      /\ r.erc20Map \in [Addresses -> Ids \cup {None}]
      /\ r.allowances \in [Grants -> Nat]
      /\ r = [pairs |-> r.pairs, denomMap |-> r.denomMap, erc20Map |-> r.erc20Map,
              dynamic |-> r.dynamic, allowances |-> r.allowances]
  BY DEF Stores
<1>2. g[1] \in Addresses /\ (r.allowances[g] # 0 => r.erc20Map[g[1]] # None)
  BY DEF Allowed, Grants, Addresses
<1>3. CASE t = r
  BY <1>2, <1>3
<1>4. ASSUME NEW pair \in TokenPair, r.pairs[GetID(pair)] = pair, t = DeleteTokenPair(r, pair)
      PROVE  t.erc20Map[g[1]] # None
  <2>1. PICK a, id : a = deleteAllowances(r, pair.erc20) /\ id = GetID(pair)
    OBVIOUS
  <2>2. t = [r EXCEPT !.pairs[id] = None, !.erc20Map[pair.erc20] = None,
                      !.denomMap[pair.denom] = None, !.allowances = a]
    BY <1>4, <2>1 DEF DeleteTokenPair
  <2>3. t.allowances = a /\ t.erc20Map = [r.erc20Map EXCEPT ![pair.erc20] = None]
    BY <1>1, <2>2
  <2>4. g[1] # pair.erc20 /\ r.allowances[g] # 0
    BY <2>1, <2>3 DEF deleteAllowances
  <2>5. QED
    BY <1>1, <1>2, <2>3, <2>4
<1>5. ASSUME NEW pair \in TokenPair, NEW q, q = SetToken(r, pair).r
      PROVE  /\ q.allowances = r.allowances
             /\ r.erc20Map[g[1]] # None => q.erc20Map[g[1]] # None
             /\ \A v : EnableDynamicPrecompile(q, v).allowances = q.allowances
             /\ \A v : EnableDynamicPrecompile(q, v).erc20Map = q.erc20Map
  <2>1. PICK id : id = GetID(pair)
    OBVIOUS
  <2>2. id # None /\ pair.erc20 \in Addresses
    BY <2>1, IdType
  <2>3. CASE r.denomMap[pair.denom] # None \/ r.erc20Map[pair.erc20] # None
    <3>1. q = r
      BY <1>5, <2>3 DEF SetToken
    <3>2. QED
      BY <1>1, <3>1 DEF EnableDynamicPrecompile
  <2>4. CASE ~ (r.denomMap[pair.denom] # None \/ r.erc20Map[pair.erc20] # None)
    <3>1. q = [r EXCEPT !.pairs[id] = pair, !.denomMap[pair.denom] = id, !.erc20Map[pair.erc20] = id]
      BY <1>5, <2>1, <2>4 DEF SetToken
    <3>2. /\ q.allowances = r.allowances /\ q.erc20Map = [r.erc20Map EXCEPT ![pair.erc20] = id]
          /\ q = [pairs |-> q.pairs, denomMap |-> q.denomMap, erc20Map |-> q.erc20Map,
                  dynamic |-> q.dynamic, allowances |-> q.allowances]
      BY <1>1, <3>1
    <3>3. r.erc20Map[g[1]] # None => q.erc20Map[g[1]] # None
      BY <1>1, <1>2, <2>2, <3>2
    <3>4. QED
      BY <3>2, <3>3 DEF EnableDynamicPrecompile
  <2>5. QED
    BY <2>3, <2>4
<1>6. ASSUME NEW pair \in TokenPair, t = SetToken(r, pair).r PROVE t.erc20Map[g[1]] # None
  BY <1>2, <1>5, <1>6
<1>7. ASSUME NEW pair \in TokenPair, NEW v \in Vouchers, pair.erc20 = v,
             t = EnableDynamicPrecompile(SetToken(r, pair).r, v)
      PROVE  t.erc20Map[g[1]] # None
  <2>1. PICK q : q = SetToken(r, pair).r
    OBVIOUS
  <2>2. QED
    BY <1>2, <1>5, <1>7, <2>1
<1>8. ASSUME NEW pair \in TokenPair, t = Toggled(r, GetID(pair)) PROVE t.erc20Map[g[1]] # None
  <2>1. t.erc20Map = r.erc20Map /\ t.allowances = r.allowances
    BY <1>1, <1>8 DEF Toggled
  <2>2. QED
    BY <1>2, <2>1
<1>9. ASSUME NEW h \in Grants, NEW n \in Int, SetAllowance(r, h, n).ok, t = SetAllowance(r, h, n).r
      PROVE  t.erc20Map[g[1]] # None
  <2>1. t = [r EXCEPT !.allowances[h] = n] /\ r.erc20Map[h[1]] # None
    BY <1>9 DEF SetAllowance, setAllowance, GetTokenPair
  <2>2. t.erc20Map = r.erc20Map /\ t.allowances = [r.allowances EXCEPT ![h] = n]
    BY <1>1, <2>1
  <2>3. g = h \/ t.allowances[g] = r.allowances[g]
    BY <1>1, <2>2
  <2>4. QED
    BY <1>2, <2>1, <2>2, <2>3
<1>10. QED
  BY <1>3, <1>4, <1>6, <1>7, <1>8, <1>9 DEF StoreSteps

\* A precompile is of a voucher whose pair is still there.
Served(r) == \A v \in r.dynamic : r.erc20Map[v] # None

\* Each of them keeps the pair of every precompile: only a contract's pair is deleted.
LEMMA ServedKept ==
    ASSUME NEW r \in Stores, Served(r), NEW t, StoreSteps(r, t)
    PROVE  Served(t)
<1>1. /\ r.erc20Map \in [Addresses -> Ids \cup {None}] /\ r.dynamic \subseteq Vouchers
      /\ Vouchers \cap Contracts = {} /\ Vouchers \subseteq Addresses
      /\ r = [pairs |-> r.pairs, denomMap |-> r.denomMap, erc20Map |-> r.erc20Map,
              dynamic |-> r.dynamic, allowances |-> r.allowances]
  BY ParameterAssumption DEF Stores, Addresses
<1>2. CASE t = r
  BY <1>2
<1>3. ASSUME NEW pair \in TokenPair, pair.erc20 \in Contracts, t = DeleteTokenPair(r, pair)
      PROVE  Served(t)
  <2>1. PICK a, id : a = deleteAllowances(r, pair.erc20) /\ id = GetID(pair)
    OBVIOUS
  <2>2. t = [r EXCEPT !.pairs[id] = None, !.erc20Map[pair.erc20] = None,
                      !.denomMap[pair.denom] = None, !.allowances = a]
    BY <1>3, <2>1 DEF DeleteTokenPair
  <2>3. t.dynamic = r.dynamic /\ t.erc20Map = [r.erc20Map EXCEPT ![pair.erc20] = None]
    BY <1>1, <2>2
  <2>4. QED
    BY <1>1, <1>3, <2>3 DEF Served
<1>4. ASSUME NEW pair \in TokenPair, NEW q, q = SetToken(r, pair).r
      PROVE  /\ q.dynamic = r.dynamic /\ Served(q)
             /\ SetToken(r, pair).ok => q.erc20Map[pair.erc20] # None
             /\ \A v : /\ EnableDynamicPrecompile(q, v).erc20Map = q.erc20Map
                      /\ EnableDynamicPrecompile(q, v).dynamic = q.dynamic \cup {v}
  <2>1. PICK id : id = GetID(pair)
    OBVIOUS
  <2>2. id # None /\ pair.erc20 \in Addresses
    BY <2>1, IdType
  <2>3. CASE r.denomMap[pair.denom] # None \/ r.erc20Map[pair.erc20] # None
    <3>1. q = r /\ SetToken(r, pair).ok = FALSE
      BY <1>4, <2>3 DEF SetToken
    <3>2. QED
      BY <1>1, <3>1 DEF EnableDynamicPrecompile
  <2>4. CASE ~ (r.denomMap[pair.denom] # None \/ r.erc20Map[pair.erc20] # None)
    <3>1. q = [r EXCEPT !.pairs[id] = pair, !.denomMap[pair.denom] = id, !.erc20Map[pair.erc20] = id]
      BY <1>4, <2>1, <2>4 DEF SetToken
    <3>2. /\ q.dynamic = r.dynamic /\ q.erc20Map = [r.erc20Map EXCEPT ![pair.erc20] = id]
          /\ q = [pairs |-> q.pairs, denomMap |-> q.denomMap, erc20Map |-> q.erc20Map,
                  dynamic |-> q.dynamic, allowances |-> q.allowances]
      BY <1>1, <3>1
    <3>3. Served(q) /\ q.erc20Map[pair.erc20] # None
      BY <1>1, <2>2, <3>2 DEF Served
    <3>4. QED
      BY <3>2, <3>3 DEF EnableDynamicPrecompile
  <2>5. QED
    BY <2>3, <2>4
<1>5. ASSUME NEW pair \in TokenPair, t = SetToken(r, pair).r PROVE Served(t)
  BY <1>4, <1>5
<1>6. ASSUME NEW pair \in TokenPair, NEW v \in Vouchers, pair.erc20 = v, SetToken(r, pair).ok,
             t = EnableDynamicPrecompile(SetToken(r, pair).r, v)
      PROVE  Served(t)
  <2>1. PICK q : q = SetToken(r, pair).r
    OBVIOUS
  <2>5. /\ Served(q) /\ (SetToken(r, pair).ok => q.erc20Map[pair.erc20] # None)
        /\ \A w : /\ EnableDynamicPrecompile(q, w).erc20Map = q.erc20Map
                 /\ EnableDynamicPrecompile(q, w).dynamic = q.dynamic \cup {w}
    BY <1>4, <2>1
  <2>2. /\ Served(q) /\ q.erc20Map[v] # None
        /\ EnableDynamicPrecompile(q, v).erc20Map = q.erc20Map
        /\ EnableDynamicPrecompile(q, v).dynamic = q.dynamic \cup {v}
    BY <1>6, <2>5
  <2>3. t.erc20Map = q.erc20Map /\ t.dynamic = q.dynamic \cup {v}
    BY <1>6, <2>1, <2>2
  <2>4. QED
    BY <2>2, <2>3 DEF Served
<1>7. ASSUME NEW pair \in TokenPair, t = Toggled(r, GetID(pair)) PROVE Served(t)
  <2>1. t.erc20Map = r.erc20Map /\ t.dynamic = r.dynamic
    BY <1>1, <1>7 DEF Toggled
  <2>2. QED
    BY <2>1 DEF Served
<1>8. ASSUME NEW h \in Grants, NEW n \in Int, SetAllowance(r, h, n).ok, t = SetAllowance(r, h, n).r
      PROVE  Served(t)
  <2>1. t = [r EXCEPT !.allowances[h] = n]
    BY <1>8 DEF SetAllowance, setAllowance
  <2>2. t.erc20Map = r.erc20Map /\ t.dynamic = r.dynamic
    BY <1>1, <2>1
  <2>3. QED
    BY <2>2 DEF Served
<1>9. QED
  BY <1>2, <1>3, <1>5, <1>6, <1>7, <1>8 DEF StoreSteps

\* Every step is one of them.
LEMMA StepStores ==
    ASSUME Inv, [Next]_vars
    PROVE  StoreSteps(reg, reg')
<1>1. CASE reg' = reg
  BY <1>1 DEF StoreSteps
<1>2. ASSUME NEW t \in Addresses \cup Denoms, NEW pair, pair = PairOf(t), pair # None, IsNativeERC20(pair),
             DeleteDestroyed(pair)
      PROVE  StoreSteps(reg, reg')
  <2>1. pair \in TokenPair /\ reg.pairs[GetID(pair)] = pair /\ pair.erc20 \in Contracts
    BY <1>2, PairOfType, NativePair
  <2>2. reg' = DeleteTokenPair(reg, pair)
    BY <1>2 DEF DeleteDestroyed
  <2>3. QED
    BY <2>1, <2>2 DEF StoreSteps
<1>3. CASE Convert
  <2>1. PICK a, b \in Accounts, n \in Amounts, how \in Behaviours :
           \/ \E t \in Addresses : ConvertERC20(a, b, t, n, how)
           \/ \E t \in Addresses \cup Denoms : ConvertCoin(a, b, t, n, how)
    BY <1>3 DEF Convert
  <2>2. ASSUME NEW t \in Addresses, ConvertERC20(a, b, t, n, how) PROVE StoreSteps(reg, reg')
    <3>1. PICK pair : pair = MintingEnabled(a, b, t)
      OBVIOUS
    <3>2. pair # None /\ IsNativeERC20(pair) /\ (DeleteDestroyed(pair) \/ reg' = reg)
      BY <2>2, <3>1 DEF ConvertERC20
    <3>3. QED
      BY <1>1, <1>2, <3>1, <3>2, Enabled
  <2>3. ASSUME NEW t \in Addresses \cup Denoms, ConvertCoin(a, b, t, n, how) PROVE StoreSteps(reg, reg')
    <3>1. PICK pair : pair = MintingEnabled(a, b, t)
      OBVIOUS
    <3>2. pair # None /\ IsNativeERC20(pair) /\ (DeleteDestroyed(pair) \/ reg' = reg)
      BY <2>3, <3>1 DEF ConvertCoin
    <3>3. QED
      BY <1>1, <1>2, <3>1, <3>2, Enabled
  <2>4. QED
    BY <2>1, <2>2, <2>3
<1>4. CASE Govern
  <2>1. ASSUME NEW signer, NEW c \in Contracts, RegisterERC20(signer, c) PROVE StoreSteps(reg, reg')
    <3>1. PICK pair : pair = NewTokenPair(c)
      OBVIOUS
    <3>2. reg' = SetToken(reg, pair).r
      BY <2>1, <3>1 DEF RegisterERC20, registerERC20
    <3>3. pair \in TokenPair
      BY <3>1, Names DEF NewTokenPair, TokenPair, Addresses
    <3>4. QED
      BY <3>2, <3>3 DEF StoreSteps
  <2>2. ASSUME NEW signer, NEW t \in Addresses \cup Denoms, ToggleConversion(signer, t)
        PROVE  StoreSteps(reg, reg')
    <3>1. PICK pair : pair = PairOf(t)
      OBVIOUS
    <3>2. pair # None /\ reg' = Toggled(reg, GetID(pair))
      BY <2>2, <3>1 DEF ToggleConversion, toggleConversion, Toggled
    <3>3. pair \in TokenPair /\ reg.pairs[GetID(pair)] = pair
      BY <3>1, <3>2, PairOfType
    <3>4. QED
      BY <3>2, <3>3 DEF StoreSteps
  <2>3. ASSUME NEW signer, NEW enabled, NEW permissionless, UpdateParams(signer, enabled, permissionless)
        PROVE  StoreSteps(reg, reg')
    BY <1>1, <2>3 DEF UpdateParams
  <2>4. QED
    BY <1>4, <2>1, <2>2, <2>3 DEF Govern
<1>5. CASE Precompile
  <2>1. PICK v \in Vouchers, a, b \in Accounts :
           \/ \E n \in 0 .. MaxAmount : Approve(v, a, b, n)
           \/ \E n \in Amounts : PrecompileTransfer(v, a, b, n)
           \/ \E n \in Amounts, to \in Accounts : TransferFrom(v, a, b, to, n)
    BY <1>5 DEF Precompile
  <2>2. <<v, a, b>> \in Grants /\ <<v, b, a>> \in Grants
    BY DEF Grants
  <2>3. ASSUME NEW g \in Grants, NEW x \in Int, SetAllowance(reg, g, x).ok, reg' = SetAllowance(reg, g, x).r
        PROVE  StoreSteps(reg, reg')
    BY <2>3 DEF StoreSteps
  <2>4. ASSUME NEW n \in 0 .. MaxAmount, Approve(v, a, b, n) PROVE StoreSteps(reg, reg')
    <3>1. PICK g : g = <<v, a, b>>
      OBVIOUS
    <3>2. n \in Int
      BY <2>4
    <3>3. reg' = reg \/ (SetAllowance(reg, g, n).ok /\ reg' = SetAllowance(reg, g, n).r)
      BY <2>4, <3>1 DEF Approve
    <3>4. QED
      BY <1>1, <2>2, <2>3, <3>1, <3>2, <3>3
  <2>5. ASSUME NEW n \in Amounts, PrecompileTransfer(v, a, b, n) PROVE StoreSteps(reg, reg')
    BY <1>1, <2>5 DEF PrecompileTransfer
  <2>6. ASSUME NEW n \in Amounts, NEW to \in Accounts, TransferFrom(v, a, b, to, n)
        PROVE  StoreSteps(reg, reg')
    <3>1. PICK g : g = <<v, b, a>>
      OBVIOUS
    <3>2. PICK x : x = reg.allowances[g] - n
      OBVIOUS
    <3>3. SetAllowance(reg, g, x).ok /\ reg' = SetAllowance(reg, g, x).r
      BY <2>6, <3>1, <3>2 DEF TransferFrom, SpendAllowance
    <3>4. x \in Int /\ g \in Grants
      BY <2>2, <3>1, <3>2, AmountType, InvMoney DEF Stores
    <3>5. QED
      BY <2>3, <3>3, <3>4
  <2>7. QED
    BY <2>1, <2>4, <2>5, <2>6
<1>6. CASE IBC
  <2>1. CASE \E d \in Denoms, a \in Accounts, n \in Amounts, how \in Behaviours : TransferMsg(a, d, n, how)
    BY <1>1, <2>1 DEF TransferMsg
  <2>2. CASE \E p \in packets : \E result \in {"received", "rejected"} : RemoteTakes(p, result)
    BY <1>1, <2>2 DEF RemoteTakes
  <2>3. CASE \E p \in packets, how \in Behaviours : OnAcknowledgementPacket(p, how)
    BY <1>1, <2>3 DEF OnAcknowledgementPacket, Refund
  <2>4. CASE \E p \in packets, how \in Behaviours : OnTimeoutPacket(p, how)
    BY <1>1, <2>4 DEF OnTimeoutPacket, Refund
  <2>5. CASE \E d \in Denoms, a, b \in Accounts, n \in Amounts, how \in Behaviours :
                OnRecvPacket(d, a, b, n, how) \/ OnRecvPacketV2(d, a, b, n, how)
    <3>1. PICK d \in Denoms, a, b \in Accounts, n \in Amounts, how \in Behaviours :
             OnRecvPacket(d, a, b, n, how) \/ OnRecvPacketV2(d, a, b, n, how)
      BY <2>5
    <3>2. PICK got : got = OnRecv(Arrived(coins, d, b, n), d, a, b, n, how)
      OBVIOUS
    <3>3. reg' = got.r
      BY <3>1, <3>2 DEF OnRecvPacket, OnRecvPacketV2, Received
    <3>4. got.r = reg \/ (d \in VoucherDenoms /\ got.r = RegisterERC20Extension(d[2]).r)
      BY <3>2 DEF OnRecv
    <3>5. CASE d \in VoucherDenoms /\ got.r = RegisterERC20Extension(d[2]).r
      <4>1. PICK v, pair : v = d[2] /\ pair = NewTokenPairSTRv2(v)
        OBVIOUS
      <4>2. v \in Vouchers /\ d \in Denoms /\ IBCDenom(v) \in Denoms
        BY <3>5, <4>1, Names
      <4>3. pair \in TokenPair
        BY <4>1, <4>2 DEF NewTokenPairSTRv2, TokenPair, Addresses
      <4>4. PICK s : s = SetToken(reg, pair)
        OBVIOUS
      <4>5. s = [ok |-> s.ok, r |-> s.r] /\ (~ s.ok => s.r = reg)
        BY <4>4 DEF SetToken
      <4>6. PICK e : e = EnableDynamicPrecompile(s.r, v)
        OBVIOUS
      <4>7. RegisterERC20Extension(v).r \in {reg, s.r} \/ (s.ok /\ RegisterERC20Extension(v).r = e)
        BY <4>1, <4>4, <4>5, <4>6 DEF RegisterERC20Extension, CreateNewTokenPair
      <4>8. reg' = reg \/ reg' = SetToken(reg, pair).r
                \/ (SetToken(reg, pair).ok /\ reg' = EnableDynamicPrecompile(SetToken(reg, pair).r, v))
        BY <3>3, <3>5, <4>1, <4>4, <4>6, <4>7
      <4>9. pair.erc20 = v
        BY <4>1 DEF NewTokenPairSTRv2
      <4>10. QED
        BY <1>1, <4>2, <4>3, <4>8, <4>9 DEF StoreSteps
    <3>6. QED
      BY <1>1, <3>3, <3>4, <3>5
  <2>6. QED
    BY <1>6, <2>1, <2>2, <2>3, <2>4, <2>5 DEF IBC
<1>7. CASE Outside
  BY <1>1, <1>7 DEF Outside, SetSendEnabled, SendCoin, SendToken, SelfDestruct, Redeploy
<1>8. CASE UNCHANGED vars
  BY <1>1, <1>8 DEF vars
<1>9. QED
  BY <1>3, <1>4, <1>5, <1>6, <1>7, <1>8 DEF Next

\* The store with the pairs in Q only, and nothing else.
PartStore(r, Q) ==
    [pairs |-> [id \in Ids |-> IF r.pairs[id] \in Q THEN r.pairs[id] ELSE None],
     denomMap |-> [d \in Denoms |-> IF \E q \in Q : q.denom = d THEN r.denomMap[d] ELSE None],
     erc20Map |-> [a \in Addresses |-> IF \E q \in Q : q.erc20 = a THEN r.erc20Map[a] ELSE None],
     dynamic |-> {},
     allowances |-> [g \in Grants |-> 0]]

\* An exported pair is under its id, and both indexes lead to it.
LEMMA ExportedPair ==
    ASSUME NEW r \in Stores, PairsFiled(r), NEW pair \in GetTokenPairs(r)
    PROVE  /\ pair \in TokenPair /\ r.pairs[GetID(pair)] = pair
           /\ r.denomMap[pair.denom] = GetID(pair) /\ r.erc20Map[pair.erc20] = GetID(pair)
<1>1. PICK id \in Ids : pair = r.pairs[id] /\ pair # None
  BY DEF GetTokenPairs
<1>2. pair \in TokenPair
  BY <1>1 DEF Stores
<1>3. GetID(pair) = id /\ r.erc20Map[id[1]] = id /\ r.denomMap[id[2]] = id
  BY <1>1 DEF PairsFiled
<1>4. QED
  BY <1>1, <1>2, <1>3, IdType

\* SetToken takes a pair that is not there yet: no two pairs share a name.
LEMMA PairStored ==
    ASSUME NEW r \in Stores, PairsFiled(r), NEW Q \in SUBSET GetTokenPairs(r), NEW pair \in Q
    PROVE  SetToken(PartStore(r, Q \ {pair}), pair) = [ok |-> TRUE, r |-> PartStore(r, Q)]
<1>1. PICK s, id : s = PartStore(r, Q \ {pair}) /\ id = GetID(pair)
  OBVIOUS
<1>2. /\ pair \in TokenPair /\ r.pairs[id] = pair
      /\ r.denomMap[pair.denom] = id /\ r.erc20Map[pair.erc20] = id
  BY <1>1, ExportedPair
<1>3. id \in Ids /\ pair # None /\ id # None /\ pair.erc20 \in Addresses /\ pair.denom \in Denoms
  BY <1>1, <1>2, IdType
<1>4. ASSUME NEW q \in Q, q.denom = pair.denom \/ q.erc20 = pair.erc20 PROVE q = pair
  <2>1. /\ r.pairs[GetID(q)] = q
        /\ r.denomMap[q.denom] = GetID(q) /\ r.erc20Map[q.erc20] = GetID(q)
    BY ExportedPair
  <2>2. GetID(q) = id
    BY <1>2, <1>4, <2>1
  <2>3. QED
    BY <1>2, <2>1, <2>2
<1>5. s.denomMap[pair.denom] = None /\ s.erc20Map[pair.erc20] = None
  BY <1>1, <1>3, <1>4 DEF PartStore
<1>6. SetToken(s, pair) = [ok |-> TRUE,
                           r |-> [s EXCEPT !.pairs[id] = pair, !.denomMap[pair.denom] = id,
                                           !.erc20Map[pair.erc20] = id]]
  BY <1>1, <1>5 DEF SetToken
<1>7. ASSUME NEW i \in Ids
      PROVE  [s.pairs EXCEPT ![id] = pair][i] = IF r.pairs[i] \in Q THEN r.pairs[i] ELSE None
  <2>1. s.pairs = [j \in Ids |-> IF r.pairs[j] \in Q \ {pair} THEN r.pairs[j] ELSE None]
    BY <1>1 DEF PartStore
  <2>2. r.pairs[i] = pair => i = id
    <3>1. r.pairs[i] # None => GetID(r.pairs[i]) = i
      BY DEF PairsFiled
    <3>2. QED
      BY <1>1, <1>3, <3>1
  <2>3. QED
    BY <1>2, <1>3, <2>1, <2>2
<1>8. ASSUME NEW d \in Denoms
      PROVE  [s.denomMap EXCEPT ![pair.denom] = id][d] = IF \E q \in Q : q.denom = d THEN r.denomMap[d] ELSE None
  <2>1. s.denomMap = [e \in Denoms |-> IF \E q \in Q \ {pair} : q.denom = e THEN r.denomMap[e] ELSE None]
    BY <1>1 DEF PartStore
  <2>2. CASE d = pair.denom
    BY <1>2, <2>1, <2>2
  <2>3. CASE d # pair.denom
    <3>1. (\E q \in Q \ {pair} : q.denom = d) <=> (\E q \in Q : q.denom = d)
      BY <2>3
    <3>2. QED
      BY <2>1, <2>3, <3>1
  <2>4. QED
    BY <2>2, <2>3
<1>9. ASSUME NEW a \in Addresses
      PROVE  [s.erc20Map EXCEPT ![pair.erc20] = id][a] = IF \E q \in Q : q.erc20 = a THEN r.erc20Map[a] ELSE None
  <2>1. s.erc20Map = [e \in Addresses |-> IF \E q \in Q \ {pair} : q.erc20 = e THEN r.erc20Map[e] ELSE None]
    BY <1>1 DEF PartStore
  <2>2. CASE a = pair.erc20
    BY <1>2, <2>1, <2>2
  <2>3. CASE a # pair.erc20
    <3>1. (\E q \in Q \ {pair} : q.erc20 = a) <=> (\E q \in Q : q.erc20 = a)
      BY <2>3
    <3>2. QED
      BY <2>1, <2>3, <3>1
  <2>4. QED
    BY <2>2, <2>3
<1>10. PICK t : t = [s EXCEPT !.pairs[id] = pair, !.denomMap[pair.denom] = id, !.erc20Map[pair.erc20] = id]
  OBVIOUS
<1>11. /\ t.pairs = [s.pairs EXCEPT ![id] = pair] /\ t.denomMap = [s.denomMap EXCEPT ![pair.denom] = id]
       /\ t.erc20Map = [s.erc20Map EXCEPT ![pair.erc20] = id]
       /\ t.dynamic = {} /\ t.allowances = [g \in Grants |-> 0]
       /\ t = [pairs |-> t.pairs, denomMap |-> t.denomMap, erc20Map |-> t.erc20Map,
               dynamic |-> t.dynamic, allowances |-> t.allowances]
  BY <1>1, <1>10 DEF PartStore
<1>12. /\ DOMAIN s.pairs = Ids /\ DOMAIN s.denomMap = Denoms /\ DOMAIN s.erc20Map = Addresses
  BY <1>1 DEF PartStore
<1>13. t.pairs = [i \in Ids |-> IF r.pairs[i] \in Q THEN r.pairs[i] ELSE None]
  BY <1>7, <1>11, <1>12
<1>14. t.denomMap = [d \in Denoms |-> IF \E q \in Q : q.denom = d THEN r.denomMap[d] ELSE None]
  BY <1>8, <1>11, <1>12
<1>15. t.erc20Map = [a \in Addresses |-> IF \E q \in Q : q.erc20 = a THEN r.erc20Map[a] ELSE None]
  BY <1>9, <1>11, <1>12
<1>16. t = PartStore(r, Q)
  BY <1>11, <1>13, <1>14, <1>15 DEF PartStore
<1>17. QED
  BY <1>1, <1>6, <1>10, <1>16

\* Ids and grants are finite, and so is what a store has of them.
LEMMA NamesFinite ==
    /\ IsFiniteSet(Ids) /\ IsFiniteSet(Grants)
    /\ \A r \in Stores : /\ IsFiniteSet(GetTokenPairs(r)) /\ IsFiniteSet(GetAllowances(r))
                         /\ IsFiniteSet(r.dynamic)
<1>1. IsFiniteSet(Accounts) /\ IsFiniteSet(Contracts) /\ IsFiniteSet(Vouchers)
  BY ParameterAssumption
<1>2. IsFiniteSet(NativeDenoms)
  <2>1. [c \in Contracts |-> CreateDenom(c)] \in Surjection(Contracts, NativeDenoms)
    BY DEF NativeDenoms, Surjection
  <2>2. QED
    BY <1>1, <2>1, FS_Surjection
<1>3. IsFiniteSet(VoucherDenoms)
  <2>1. [v \in Vouchers |-> IBCDenom(v)] \in Surjection(Vouchers, VoucherDenoms)
    BY DEF VoucherDenoms, Surjection
  <2>2. QED
    BY <1>1, <2>1, FS_Surjection
<1>4. IsFiniteSet(Addresses) /\ IsFiniteSet(Denoms)
  BY <1>1, <1>2, <1>3, FS_Union DEF Addresses, Denoms
<1>5. IsFiniteSet(Ids)
  BY <1>4, FS_Product DEF Ids
<1>6. IsFiniteSet(Grants)
  <2>1. PICK S : S = (Vouchers \X Accounts) \X Accounts
    OBVIOUS
  <2>2. IsFiniteSet(S)
    BY <1>1, <2>1, FS_Product
  <2>3. [p \in S |-> <<p[1][1], p[1][2], p[2]>>] \in Surjection(S, Grants)
    <3>1. \A p \in S : <<p[1][1], p[1][2], p[2]>> \in Grants
      BY <2>1 DEF Grants
    <3>2. ASSUME NEW g \in Grants
          PROVE  \E p \in S : <<p[1][1], p[1][2], p[2]>> = g
      <4>1. PICK v \in Vouchers, a \in Accounts, b \in Accounts : g = <<v, a, b>>
        BY DEF Grants
      <4>2. <<<<v, a>>, b>> \in S
        BY <2>1
      <4>3. QED
        BY <4>1, <4>2
    <3>3. QED
      BY <3>1, <3>2 DEF Surjection
  <2>4. QED
    BY <2>2, <2>3, FS_Surjection
<1>7. ASSUME NEW r \in Stores
      PROVE  /\ IsFiniteSet(GetTokenPairs(r)) /\ IsFiniteSet(GetAllowances(r))
             /\ IsFiniteSet(r.dynamic)
  <2>1. PICK T : T = {r.pairs[id] : id \in Ids}
    OBVIOUS
  <2>2. [id \in Ids |-> r.pairs[id]] \in Surjection(Ids, T)
    BY <2>1 DEF Surjection
  <2>3. IsFiniteSet(T)
    BY <1>5, <2>2, FS_Surjection
  <2>4. GetTokenPairs(r) \subseteq T /\ GetAllowances(r) \subseteq Grants /\ r.dynamic \subseteq Vouchers
    BY <2>1 DEF GetTokenPairs, GetAllowances, Stores
  <2>5. QED
    BY <1>1, <1>6, <2>3, <2>4, FS_Subset
<1>8. QED
  BY <1>5, <1>6, <1>7

\* InitGenesis by parts: the pairs, the precompiles, the allowances.
StorePair(pair, acc) == IF acc.ok THEN SetToken(acc.r, pair) ELSE acc

EnablePrecompile(a, acc) == [acc EXCEPT !.r = EnableDynamicPrecompile(acc.r, a)]

AllowGrant(r, g, acc) == IF acc.ok THEN UnsafeSetAllowance(acc.r, g, r.allowances[g]) ELSE acc

PairsStored(P) == FoldSet(LAMBDA pair, acc : StorePair(pair, acc), [ok |-> TRUE, r |-> EmptyStore], P)

PrecompilesEnabled(base, D) == FoldSet(LAMBDA a, acc : EnablePrecompile(a, acc), base, D)

AllowancesSet(r, base, G) == FoldSet(LAMBDA g, acc : AllowGrant(r, g, acc), base, G)

\* The parts in turn are InitGenesis when no pair was refused.
LEMMA GenesisParts ==
    ASSUME NEW r, NEW stored, stored = PairsStored(GetTokenPairs(r)), stored.ok
    PROVE  InitGenesis(r) = AllowancesSet(r, PrecompilesEnabled(stored, r.dynamic), GetAllowances(r))
<1>1. InitGenesis(r) = AllowancesSet(r, PrecompilesEnabled(PairsStored(GetTokenPairs(r)),
                                                           IF PairsStored(GetTokenPairs(r)).ok THEN r.dynamic ELSE {}),
                                     GetAllowances(r))
  BY Zenon DEF InitGenesis, PairsStored, PrecompilesEnabled, AllowancesSet, StorePair, EnablePrecompile, AllowGrant
<1>2. QED
  BY <1>1

\* All pairs are stored, each once.
LEMMA PairsImported ==
    ASSUME NEW r \in Stores, PairsFiled(r), NEW P, P = GetTokenPairs(r)
    PROVE  PairsStored(P) = [ok |-> TRUE, r |-> PartStore(r, P)]
<1> DEFINE base == [ok |-> TRUE, r |-> EmptyStore]
           Iter(it) == it = [x \in SUBSET P |->
                                IF x = {} THEN base
                                ELSE StorePair(CHOOSE y \in x : TRUE, it[x \ {CHOOSE y \in x : TRUE}])]
           iter == CHOOSE it : Iter(it)
           pick == [x \in SUBSET P |-> CHOOSE y \in x : TRUE]
           closed == [x \in SUBSET P |-> [ok |-> TRUE, r |-> PartStore(r, x)]]
<1>1. IsFiniteSet(P)
  BY NamesFinite
<1>2. \A x \in SUBSET P : x # {} => /\ pick[x] \in x /\ pick[x] = CHOOSE y \in x : TRUE
                                    /\ x \ {pick[x]} \in SUBSET P
  OBVIOUS
<1>3. closed[{}] = base
  BY DEF PartStore, EmptyStore
<1>4. ASSUME NEW x \in SUBSET P, NEW q \in x
      PROVE  StorePair(q, closed[x \ {q}]) = closed[x]
  <2>1. closed[x \ {q}] = [ok |-> TRUE, r |-> PartStore(r, x \ {q})]
    OBVIOUS
  <2>2. SetToken(PartStore(r, x \ {q}), q) = [ok |-> TRUE, r |-> PartStore(r, x)]
    BY PairStored
  <2>3. QED
    BY <2>1, <2>2 DEF StorePair
<1>5. closed = [x \in SUBSET P |-> closed[x]]
  OBVIOUS
<1>6. PairsStored(P) = iter[P]
  BY DEF PairsStored, FoldSet, MapThenFoldSet
<1> HIDE DEF base, closed, pick
<1>7. \A x \in SUBSET P : closed[x] = IF x = {} THEN base
                                      ELSE StorePair(pick[x], closed[x \ {pick[x]}])
  BY <1>2, <1>3, <1>4
<1>8. Iter(closed)
  BY <1>2, <1>5, <1>7
<1>9. Iter(iter)
  <2> HIDE DEF Iter
  <2>1. QED
    BY <1>8
<1> HIDE DEF iter
<1>10. \A x \in SUBSET P : iter[x] = IF x = {} THEN base
                                     ELSE StorePair(pick[x], iter[x \ {pick[x]}])
  BY <1>2, <1>9
<1>11. iter[{}] = closed[{}]
  BY <1>3, <1>10
<1>12. \A x \in SUBSET P : x # {} => /\ pick[x] \in x
                                     /\ iter[x \ {pick[x]}] = closed[x \ {pick[x]}] => iter[x] = closed[x]
  BY <1>2, <1>7, <1>10
<1>13. iter[P] = closed[P]
  <2>1. SameSteps(P, pick, iter, closed)
    BY <1>11, <1>12 DEF SameSteps
  <2>2. QED
    BY <1>1, <2>1, FoldIs
<1>14. QED
  BY <1>6, <1>13 DEF closed

\* The store after its pairs, the precompiles in D and the allowances in G are imported.
Imported(r, D, G) ==
    [pairs |-> r.pairs, denomMap |-> r.denomMap, erc20Map |-> r.erc20Map, dynamic |-> D,
     allowances |-> [g \in Grants |-> IF g \in G THEN r.allowances[g] ELSE 0]]

\* The exported pairs with their names are all of the pairs and both indexes.
LEMMA AllPairs ==
    ASSUME NEW r \in Stores, PairsFiled(r)
    PROVE  PartStore(r, GetTokenPairs(r)) = Imported(r, {}, {})
<1>1. /\ r.pairs \in [Ids -> TokenPair \cup {None}]
      /\ r.denomMap \in [Denoms -> Ids \cup {None}]
      /\ r.erc20Map \in [Addresses -> Ids \cup {None}]
  BY DEF Stores
<1>2. \A id \in Ids : r.pairs[id] # None <=> r.pairs[id] \in GetTokenPairs(r)
  BY DEF GetTokenPairs
<1>3. r.pairs = [id \in Ids |-> IF r.pairs[id] \in GetTokenPairs(r) THEN r.pairs[id] ELSE None]
  BY <1>1, <1>2
<1>4. ASSUME NEW d \in Denoms, r.denomMap[d] # None
      PROVE  \E q \in GetTokenPairs(r) : q.denom = d
  <2>1. PICK id : id = r.denomMap[d]
    OBVIOUS
  <2>2. id \in Ids /\ id[2] = d /\ r.pairs[id] # None
    BY <1>1, <1>4, <2>1 DEF PairsFiled
  <2>3. r.pairs[id] \in TokenPair /\ GetID(r.pairs[id]) = id
    BY <1>1, <2>2 DEF PairsFiled
  <2>4. QED
    BY <1>2, <2>2, <2>3, IdType
<1>5. ASSUME NEW a \in Addresses, r.erc20Map[a] # None
      PROVE  \E q \in GetTokenPairs(r) : q.erc20 = a
  <2>1. PICK id : id = r.erc20Map[a]
    OBVIOUS
  <2>2. id \in Ids /\ id[1] = a /\ r.pairs[id] # None
    BY <1>1, <1>5, <2>1 DEF PairsFiled
  <2>3. r.pairs[id] \in TokenPair /\ GetID(r.pairs[id]) = id
    BY <1>1, <2>2 DEF PairsFiled
  <2>4. QED
    BY <1>2, <2>2, <2>3, IdType
<1>6. r.denomMap = [d \in Denoms |-> IF \E q \in GetTokenPairs(r) : q.denom = d THEN r.denomMap[d] ELSE None]
  BY <1>1, <1>4
<1>7. r.erc20Map = [a \in Addresses |-> IF \E q \in GetTokenPairs(r) : q.erc20 = a THEN r.erc20Map[a] ELSE None]
  BY <1>1, <1>5
<1>8. PICK P : P = GetTokenPairs(r)
  OBVIOUS
<1>9. QED
  BY <1>3, <1>6, <1>7 DEF PartStore, Imported

\* A result keeps its outcome when its store is replaced.
LEMMA StoreReplaced ==
    ASSUME NEW outcome, NEW before, NEW after
    PROVE  [[ok |-> outcome, r |-> before] EXCEPT !.r = after] = [ok |-> outcome, r |-> after]
OBVIOUS

\* All precompiles are enabled.
LEMMA PrecompilesImported ==
    ASSUME NEW r \in Stores
    PROVE  PrecompilesEnabled([ok |-> TRUE, r |-> Imported(r, {}, {})], r.dynamic)
               = [ok |-> TRUE, r |-> Imported(r, r.dynamic, {})]
<1> DEFINE D == r.dynamic
           base == [ok |-> TRUE, r |-> Imported(r, {}, {})]
           Iter(it) == it = [x \in SUBSET D |->
                                IF x = {} THEN base
                                ELSE EnablePrecompile(CHOOSE y \in x : TRUE, it[x \ {CHOOSE y \in x : TRUE}])]
           iter == CHOOSE it : Iter(it)
           pick == [x \in SUBSET D |-> CHOOSE y \in x : TRUE]
           closed == [x \in SUBSET D |-> [ok |-> TRUE, r |-> Imported(r, x, {})]]
<1>1. IsFiniteSet(D)
  BY NamesFinite
<1>2. \A x \in SUBSET D : x # {} => /\ pick[x] \in x /\ pick[x] = CHOOSE y \in x : TRUE
                                    /\ x \ {pick[x]} \in SUBSET D
  OBVIOUS
<1>3. closed[{}] = base
  OBVIOUS
<1>4. ASSUME NEW x \in SUBSET D, NEW q \in x
      PROVE  EnablePrecompile(q, closed[x \ {q}]) = closed[x]
  <2>1. PICK s, acc : s = Imported(r, x \ {q}, {}) /\ acc = [ok |-> TRUE, r |-> s]
    OBVIOUS
  <2>2. closed[x \ {q}] = acc /\ closed[x] = [ok |-> TRUE, r |-> Imported(r, x, {})]
    BY <2>1
  <2>3. (x \ {q}) \cup {q} = x
    OBVIOUS
  <2>4. EnableDynamicPrecompile(s, q) = Imported(r, x, {})
    <3>1. PICK e : e = [g \in Grants |-> IF g \in {} THEN r.allowances[g] ELSE 0]
      OBVIOUS
    <3>2. s = [pairs |-> r.pairs, denomMap |-> r.denomMap, erc20Map |-> r.erc20Map, dynamic |-> x \ {q},
               allowances |-> e]
      BY <2>1, <3>1, Zenon DEF Imported
    <3>3. Imported(r, x, {}) = [pairs |-> r.pairs, denomMap |-> r.denomMap, erc20Map |-> r.erc20Map,
                                dynamic |-> x, allowances |-> e]
      BY <3>1, Zenon DEF Imported
    <3>4. s.dynamic = x \ {q}
      BY <3>2
    <3>5. EnableDynamicPrecompile(s, q) = [s EXCEPT !.dynamic = x]
      BY <2>3, <3>4, Zenon DEF EnableDynamicPrecompile
    <3>6. QED
      BY <3>2, <3>3, <3>5
  <2>5. EnablePrecompile(q, acc) = [ok |-> TRUE, r |-> Imported(r, x, {})]
    <3>1. acc.r = s
      BY <2>1
    <3>2. PICK after : after = EnableDynamicPrecompile(s, q)
      OBVIOUS
    <3>3. [acc EXCEPT !.r = after] = [ok |-> TRUE, r |-> after]
      BY <2>1, StoreReplaced, Zenon
    <3>4. EnablePrecompile(q, acc) = [acc EXCEPT !.r = after]
      BY <3>1, <3>2, Zenon DEF EnablePrecompile
    <3>5. QED
      BY <2>4, <3>2, <3>3, <3>4, Zenon
  <2>6. QED
    BY <2>2, <2>5
<1>5. closed = [x \in SUBSET D |-> closed[x]]
  OBVIOUS
<1>6. PrecompilesEnabled(base, D) = iter[D]
  BY DEF PrecompilesEnabled, FoldSet, MapThenFoldSet
<1> HIDE DEF closed, pick
<1>7. \A x \in SUBSET D : closed[x] = IF x = {} THEN base
                                      ELSE EnablePrecompile(pick[x], closed[x \ {pick[x]}])
  BY <1>2, <1>3, <1>4
<1>8. Iter(closed)
  <2>1. \A x \in SUBSET D : closed[x] = IF x = {} THEN base
                                        ELSE EnablePrecompile(CHOOSE y \in x : TRUE, closed[x \ {CHOOSE y \in x : TRUE}])
    BY <1>2, <1>7
  <2>2. QED
    BY <1>5, <2>1
<1>9. Iter(iter)
  <2> HIDE DEF Iter
  <2>1. QED
    BY <1>8
<1> HIDE DEF iter
<1>10. \A x \in SUBSET D : iter[x] = IF x = {} THEN base
                                     ELSE EnablePrecompile(pick[x], iter[x \ {pick[x]}])
  BY <1>2, <1>9
<1>11. iter[{}] = closed[{}]
  BY <1>3, <1>10
<1>12. \A x \in SUBSET D : x # {} => /\ pick[x] \in x
                                     /\ iter[x \ {pick[x]}] = closed[x \ {pick[x]}] => iter[x] = closed[x]
  BY <1>2, <1>7, <1>10
<1>13. iter[D] = closed[D]
  <2> HIDE DEF Iter, base, D
  <2>1. SameSteps(D, pick, iter, closed)
    BY <1>11, <1>12 DEF SameSteps
  <2>2. QED
    BY <1>1, <2>1, FoldIs
<1>14. QED
  BY <1>6, <1>13 DEF closed

\* All allowances are set: each has its pair, enabled or not.
LEMMA AllowancesImported ==
    ASSUME NEW r \in Stores, PairsFiled(r), Allowed(r)
    PROVE  AllowancesSet(r, [ok |-> TRUE, r |-> Imported(r, r.dynamic, {})], GetAllowances(r))
               = [ok |-> TRUE, r |-> Imported(r, r.dynamic, GetAllowances(r))]
<1> DEFINE G == GetAllowances(r)
           base == [ok |-> TRUE, r |-> Imported(r, r.dynamic, {})]
           Iter(it) == it = [x \in SUBSET G |->
                                IF x = {} THEN base
                                ELSE AllowGrant(r, CHOOSE y \in x : TRUE, it[x \ {CHOOSE y \in x : TRUE}])]
           iter == CHOOSE it : Iter(it)
           pick == [x \in SUBSET G |-> CHOOSE y \in x : TRUE]
           closed == [x \in SUBSET G |-> [ok |-> TRUE, r |-> Imported(r, r.dynamic, x)]]
<1>1. IsFiniteSet(G)
  BY NamesFinite
<1>2. \A x \in SUBSET G : x # {} => /\ pick[x] \in x /\ pick[x] = CHOOSE y \in x : TRUE
                                    /\ x \ {pick[x]} \in SUBSET G
  OBVIOUS
<1>3. closed[{}] = base
  OBVIOUS
<1>4. ASSUME NEW x \in SUBSET G, NEW q \in x
      PROVE  AllowGrant(r, q, closed[x \ {q}]) = closed[x]
  <2>1. PICK s : s = Imported(r, r.dynamic, x \ {q})
    OBVIOUS
  <2>2. closed[x \ {q}] = [ok |-> TRUE, r |-> s]
    BY <2>1
  <2>3. /\ q \in Grants /\ q[1] \in Addresses /\ r.allowances[q] # 0 /\ r.allowances[q] \in Nat
    BY DEF GetAllowances, Grants, Addresses, Stores
  <2>4. s.erc20Map[q[1]] # None /\ GetTokenPair(s, s.erc20Map[q[1]]) # None
    BY <2>1, <2>3 DEF Imported, Allowed, PairsFiled, GetTokenPair
  <2>5. UnsafeSetAllowance(s, q, r.allowances[q]) = [ok |-> TRUE, r |-> [s EXCEPT !.allowances[q] = r.allowances[q]]]
    BY <2>3, <2>4 DEF UnsafeSetAllowance, setAllowance
  <2>6. [s EXCEPT !.allowances[q] = r.allowances[q]] = Imported(r, r.dynamic, x)
    <3>1. s.allowances = [g \in Grants |-> IF g \in x \ {q} THEN r.allowances[g] ELSE 0]
      BY <2>1 DEF Imported
    <3>2. [s.allowances EXCEPT ![q] = r.allowances[q]] = [g \in Grants |-> IF g \in x THEN r.allowances[g] ELSE 0]
      BY <2>3, <3>1
    <3>3. PICK al : al = [s.allowances EXCEPT ![q] = r.allowances[q]]
      OBVIOUS
    <3>4. [s EXCEPT !.allowances[q] = r.allowances[q]]
              = [pairs |-> r.pairs, denomMap |-> r.denomMap, erc20Map |-> r.erc20Map,
                 dynamic |-> r.dynamic, allowances |-> al]
      BY <2>1, <3>3 DEF Imported
    <3>5. QED
      BY <3>2, <3>3, <3>4 DEF Imported
  <2>7. QED
    BY <2>2, <2>5, <2>6 DEF AllowGrant
<1>5. closed = [x \in SUBSET G |-> closed[x]]
  OBVIOUS
<1>6. AllowancesSet(r, base, G) = iter[G]
  BY DEF AllowancesSet, FoldSet, MapThenFoldSet
<1> HIDE DEF closed, pick
<1>7. \A x \in SUBSET G : closed[x] = IF x = {} THEN base
                                      ELSE AllowGrant(r, pick[x], closed[x \ {pick[x]}])
  BY <1>2, <1>3, <1>4
<1>8. Iter(closed)
  BY <1>2, <1>5, <1>7
<1>9. Iter(iter)
  <2> HIDE DEF Iter
  <2>1. QED
    BY <1>8
<1> HIDE DEF iter
<1>10. \A x \in SUBSET G : iter[x] = IF x = {} THEN base
                                     ELSE AllowGrant(r, pick[x], iter[x \ {pick[x]}])
  BY <1>2, <1>9
<1>11. iter[{}] = closed[{}]
  BY <1>3, <1>10
<1>12. \A x \in SUBSET G : x # {} => /\ pick[x] \in x
                                     /\ iter[x \ {pick[x]}] = closed[x \ {pick[x]}] => iter[x] = closed[x]
  BY <1>2, <1>7, <1>10
<1>13. iter[G] = closed[G]
  <2> HIDE DEF Iter, base, G
  <2>1. SameSteps(G, pick, iter, closed)
    BY <1>11, <1>12 DEF SameSteps
  <2>2. QED
    BY <1>1, <2>1, FoldIs
<1>14. QED
  BY <1>6, <1>13 DEF closed

\* The check of the genesis file refuses a reachable store only for a pair of a
\* precompile that is disabled.
LEMMA Validated ==
    ASSUME Inv, Allowed(reg), Served(reg)
    PROVE  Validate(reg) <=> ~ PrecompileDisabled
<1>1. /\ reg \in Stores /\ PairsFiled(reg) /\ reg.dynamic \subseteq Addresses
      /\ \A g \in Grants : g[1] \in Addresses
  BY InvMoney DEF Stores, Addresses, Grants
<1>2. \A a \in Addresses : PairOf(a) = GetTokenPair(reg, reg.erc20Map[a])
  BY DEF PairOf, GetTokenPairID
<1>3. ASSUME NEW a \in Addresses, reg.erc20Map[a] # None
      PROVE  PairOf(a) # None /\ PairOf(a) \in GetTokenPairs(reg) /\ PairOf(a).erc20 = a
  <2>1. reg.erc20Map[a] \in Ids /\ reg.pairs[reg.erc20Map[a]] # None
    BY <1>1, <1>3 DEF Stores, PairsFiled
  <2>2. PairOf(a) = reg.pairs[reg.erc20Map[a]]
    BY <1>2, <1>3 DEF GetTokenPair
  <2>3. PairOf(a) # None /\ PairOf(a) \in GetTokenPairs(reg)
    BY <2>1, <2>2 DEF GetTokenPairs
  <2>4. QED
    BY <2>3, PairOfType
<1>4. ASSUME NEW p \in GetTokenPairs(reg), NEW q \in GetTokenPairs(reg), p.erc20 = q.erc20 \/ p.denom = q.denom
      PROVE  p = q
  <2>1. /\ reg.pairs[GetID(p)] = p /\ reg.denomMap[p.denom] = GetID(p) /\ reg.erc20Map[p.erc20] = GetID(p)
        /\ reg.pairs[GetID(q)] = q /\ reg.denomMap[q.denom] = GetID(q) /\ reg.erc20Map[q.erc20] = GetID(q)
    BY <1>1, ExportedPair
  <2>2. GetID(p) = GetID(q)
    BY <1>4, <2>1
  <2>3. QED
    BY <2>1, <2>2
<1>5. \A g \in GetAllowances(reg) : \E p \in GetTokenPairs(reg) : p.erc20 = g[1]
  BY <1>1, <1>3 DEF GetAllowances, Allowed
<1>6. Validate(reg) <=> \A a \in reg.dynamic : \E p \in GetTokenPairs(reg) : p.erc20 = a /\ p.enabled
  BY <1>4, <1>5 DEF Validate
<1>7. ASSUME NEW a \in reg.dynamic
      PROVE  (\E p \in GetTokenPairs(reg) : p.erc20 = a /\ p.enabled) <=> ~ (PairOf(a) # None /\ ~ PairOf(a).enabled)
  <2>1. PairOf(a) # None /\ PairOf(a) \in GetTokenPairs(reg) /\ PairOf(a).erc20 = a
    BY <1>1, <1>3 DEF Served
  <2>2. \A p \in GetTokenPairs(reg) : p.erc20 = a => p = PairOf(a)
    BY <1>4, <2>1
  <2>3. QED
    BY <2>1, <2>2
<1>8. QED
  BY <1>6, <1>7 DEF PrecompileDisabled

\* Every reachable store comes back: Inv, Allowed and Served give GenesisRoundTrip.
LEMMA RoundTrip == Inv /\ Allowed(reg) /\ Served(reg) => GenesisRoundTrip
<1> SUFFICES ASSUME Inv, Allowed(reg), Served(reg) PROVE GenesisRoundTrip
  OBVIOUS
<1>1. reg \in Stores /\ PairsFiled(reg)
  BY InvMoney
<1>2. PICK stored : stored = PairsStored(GetTokenPairs(reg))
  OBVIOUS
<1>3. stored = [ok |-> TRUE, r |-> Imported(reg, {}, {})]
  BY <1>1, <1>2, PairsImported, AllPairs
<1>4. PICK active : active = PrecompilesEnabled(stored, reg.dynamic)
  OBVIOUS
<1>5. active = [ok |-> TRUE, r |-> Imported(reg, reg.dynamic, {})]
  BY <1>1, <1>3, <1>4, PrecompilesImported
<1>6. AllowancesSet(reg, active, GetAllowances(reg)) = [ok |-> TRUE, r |-> Imported(reg, reg.dynamic, GetAllowances(reg))]
  BY <1>1, <1>5, AllowancesImported
<1>7. Imported(reg, reg.dynamic, GetAllowances(reg)) = reg
  <2>1. /\ reg.allowances \in [Grants -> Nat]
        /\ reg = [pairs |-> reg.pairs, denomMap |-> reg.denomMap, erc20Map |-> reg.erc20Map,
                  dynamic |-> reg.dynamic, allowances |-> reg.allowances]
    BY <1>1 DEF Stores
  <2>2. [g \in Grants |-> IF g \in GetAllowances(reg) THEN reg.allowances[g] ELSE 0] = reg.allowances
    BY <2>1 DEF GetAllowances
  <2>3. QED
    BY <2>1, <2>2 DEF Imported
<1>8. stored.ok
  BY <1>3
<1>9. InitGenesis(reg) = AllowancesSet(reg, active, GetAllowances(reg))
  BY <1>2, <1>4, <1>8, GenesisParts
<1>10. InitGenesis(reg) = [ok |-> TRUE, r |-> reg]
  BY <1>6, <1>7, <1>9
<1>11. Validate(reg) <=> ~ PrecompileDisabled
  BY Validated
<1>12. QED
  BY <1>10, <1>11 DEF GenesisRoundTrip

\* Importing the genesis the module exports gives its store back, whenever it is exported:
\* the two indexes let SetToken take every pair, and deleting a pair deletes its
\* allowances, without which InitGenesis would stop at the first of them.  The check of a
\* genesis file refuses it exactly while the pair of a precompile is disabled.
THEOREM GenesisAlwaysRoundTrips == Spec => []GenesisRoundTrip
<1>1. Init => Allowed(reg) /\ Served(reg)
  <2> SUFFICES ASSUME Init PROVE Allowed(reg) /\ Served(reg)
    OBVIOUS
  <2>1. reg.dynamic = {} /\ \A g \in Grants : reg.allowances[g] = 0
    BY DEF Init, EmptyStore
  <2>2. QED
    BY <2>1 DEF Allowed, Served
<1>2. Inv /\ Allowed(reg) /\ Served(reg) /\ [Next]_vars => (Allowed(reg) /\ Served(reg))'
  <2> SUFFICES ASSUME Inv, Allowed(reg), Served(reg), [Next]_vars PROVE Allowed(reg') /\ Served(reg')
    BY DEF Allowed, Served
  <2>1. reg \in Stores /\ StoreSteps(reg, reg')
    BY InvMoney, StepStores
  <2>2. QED
    BY <2>1, AllowedKept, ServedKept
<1>3. QED
  BY <1>1, <1>2, Invariance, RoundTrip, PTL DEF Spec
=============================================================================
