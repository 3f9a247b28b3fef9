----------------------------- MODULE MCEvmBlock -----------------------------
(* Two chains for TLC.  On one, two users send calls, creations and          *)
(* transfers in a block of a chain with post-transaction hooks.  On the      *)
(* other, without hooks, one user fills three blocks while governance        *)
(* changes the fee market.  The constants of EvmBlock are those of the first *)
(* chain but for the bounds its properties name, which cover both.           *)
EXTENDS EvmBlock

CONSTANTS A, B, M

VARIABLE chain  \* "hooks" or "market": which of the two this is

P(no, height, fee, min) ==
    [noBaseFee |-> no, enableHeight |-> height, baseFee |-> fee, minGasPrice |-> min]

OneMarket   == {P(FALSE, 0, 4, 2)}
SomeMarkets == {P(FALSE, 0, 4, 2), P(FALSE, 2, 0, 0), P(FALSE, 0, 0, 0)}
Changes     == {P(FALSE, 2, 2, 0), P(FALSE, 0, 0, 6), P(TRUE, 0, 4, 2)}
NoChanges   == {}
Anyone      == {A, B, M, Create}

Hooks == INSTANCE EvmBlock WITH Gas <- {1, 4}, MaxHeight <- 1

Market == INSTANCE EvmBlock WITH
    HasHooks <- FALSE, Genesis <- SomeMarkets, Proposals <- Changes,
    Senders <- {A}, Recipients <- {A, Create}, Gas <- {4, 40}, Values <- {0}, Funds <- 17, MaxLogs <- 0

MCInit ==
    \/ chain = "hooks" /\ Hooks!Init
    \/ chain = "market" /\ Market!Init

MCNext ==
    /\ \/ chain = "hooks" /\ Hooks!Next
       \/ chain = "market" /\ Market!Next
    /\ UNCHANGED chain

MCSpec == MCInit /\ [][MCNext]_<<vars, chain>>

\* The base fee of either chain follows the demand of the block before, whatever
\* parameters governance set at the end of that block (CalculateBaseFee).
FeeFollowsDemandWithChanges == Market!FeeFollowsDemand
=============================================================================
