------------------------------ MODULE MCErc20 ------------------------------
(***************************************************************************)
(* Instances of Erc20 for TLC.                                             *)
(***************************************************************************)
EXTENDS Erc20, TLC

CONSTANTS A, B, C, V, W

\* What the users have of a new contract: the same, or one more than the other.
Even == [a \in Accounts |-> 1]
Uneven == A :> 2 @@ B :> 1

\* Bound: a contract takes on top of a transfer once, and is not destroyed afterwards.
SkimmedOnce == \A c \in Contracts : skimmed[c] <= IF status[c] = "live" THEN 1 ELSE 0
=============================================================================
