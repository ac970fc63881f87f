---------------------------- MODULE MCRecovery ----------------------------
(***************************************************************************)
(* Instances of Recovery for TLC: transactions are numbered, the zero      *)
(* bytes of an empty slot are transaction number 0, and pages, which the   *)
(* log never orders, are interchangeable.                                  *)
(***************************************************************************)
EXTENDS Recovery, TLC

CONSTANTS p1, p2

Pages == Permutations(PageId)

\* Bound: transactions begin in the order of their ids, as MVCCManager hands them
\* out.
IdsAscend == \A t, u \in Txn : t < u /\ status[u] # "new" => status[t] # "new"
=============================================================================
