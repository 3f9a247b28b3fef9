-------------------------- MODULE MCBalanceHandler --------------------------
(***************************************************************************)
(* An instance of BalanceHandler for TLC: two calls on one instance, as of *)
(* a static precompile.                                                    *)
(***************************************************************************)
EXTENDS BalanceHandler

CONSTANTS P, Q, H1, user, module

Shared == (P :> H1) @@ (Q :> H1)
=============================================================================
