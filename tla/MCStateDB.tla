----------------------------- MODULE MCStateDB -----------------------------
(***************************************************************************)
(* Kinds of transaction for TLC.                                           *)
(***************************************************************************)
EXTENDS StateDB

CONSTANTS A, B, M, K1, K2, C1

Kind(ops, named, journal, revisions) ==
    [ops |-> ops, named |-> named, journal |-> journal, revisions |-> revisions]

\* Coins moved by the EVM and by precompile calls; or the journal entries that belong to
\* no account, under nested revisions, with an access list that names a slot of B.
CallKinds ==
    {Kind({"balance", "precompile", "stop"}, {}, 4, 1),
     Kind({"transient", "refund", "log", "access"}, {<<B, K1>>}, 3, 2)}

\* A contract made, written and destructed around precompile calls.
ContractKinds ==
    {Kind({"create", "nonce", "contract", "destruct", "balance", "code", "storage",
           "precompile", "stop"}, {}, 5, 1)}
=============================================================================
