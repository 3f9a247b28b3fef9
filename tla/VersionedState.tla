--------------------------- MODULE VersionedState ---------------------------
(***************************************************************************)
(* What Snapshot and RevertToSnapshot of x/vm/statedb promise the EVM: a    *)
(* state that changes freely, a stack of full copies of it, and going back *)
(* to one of them, which drops it and the later ones.                      *)
(***************************************************************************)
EXTENDS Naturals, Sequences

VARIABLES
    state,     \* everything the EVM can observe
    versions,  \* the copies that can be gone back to, the oldest first
    done       \* the transaction has been committed or has failed

vvars == <<state, versions, done>>

Init == versions = << >> /\ ~done

Change == ~done /\ ~done' /\ UNCHANGED versions

Snapshot == ~done /\ versions' = Append(versions, state) /\ UNCHANGED <<state, done>>

GoBack(i) ==
    /\ ~done
    /\ state' = versions[i]
    /\ versions' = SubSeq(versions, 1, i - 1)
    /\ UNCHANGED done

Finish == ~done /\ done' /\ UNCHANGED versions

Next == Change \/ Snapshot \/ (\E i \in DOMAIN versions : GoBack(i)) \/ Finish

Spec == Init /\ [][Next]_vvars
=============================================================================
