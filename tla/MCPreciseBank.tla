--------------------------- MODULE MCPreciseBank ---------------------------
(* Instances of PreciseBank for TLC: the reserve, the x/vm module and two users. *)
EXTENDS PreciseBank, TLC
CONSTANTS user1, user2

MCAddr == {Reserve, EvmModule, user1, user2}
MCModules == {Reserve, EvmModule}
MCMinters == {EvmModule, Reserve}
MCBlocked == {Reserve, EvmModule}

\* No action tells the users apart.
Users == Permutations({user1, user2})
============================================================================
