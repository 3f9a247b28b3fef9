---------------------------- MODULE MCLegacyPool ----------------------------
(* The legacy pool, and what a proposer is given of it beside Cosmos pools   *)
(* of up to two transactions.                                                *)
EXTENDS MempoolIterator, TLC

\* Accounts are told apart by nothing but their transactions.
Symmetry == Permutations(Account)

\* Bound: when a run and Remove have written in turns, only behaviours in which one
\* account has done anything, and offers one price, are followed further.
CrossedAlone ==
    crossed =>
        /\ \E a \in Account : \A o \in Account \ {a} :
              /\ nonce[o] = 0 /\ o \notin dirty
              /\ Of(pool.pending \cup pool.queue \cup pool.all, o) = {}
        /\ \A t, u \in pool.all : t.price = u.price

Fee(fee, gas) == [fee |-> fee, gas |-> gas]
SomeLists == {<< >>, <<Fee(24, 2), Fee(21, 2)>>, <<Fee(10, 1), Fee(11, 1)>>}
=============================================================================
