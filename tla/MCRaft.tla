------------------------------- MODULE MCRaft -------------------------------
(***************************************************************************)
(* Instances of RaftCluster for TLC.  The commands are interchangeable: the*)
(* code never looks at one except to see whether it is empty.  The view    *)
(* leaves out what no guard reads before it is written again: leader_id_,  *)
(* and next_index_ and match_index_ of a node that is not leader, which    *)
(* BecomeLeader sets anew.                                                 *)
(***************************************************************************)
EXTENDS RaftCluster, TLC

CONSTANTS a, b, none

View == <<persistVars, applyVars, role, clusterVars, op, elected,
    [n \in Node |-> IF role[n] = Leader THEN <<nextIndex[n], matchIndex[n]>> ELSE <<>>]>>

Commands == Permutations({a, b})
=============================================================================
