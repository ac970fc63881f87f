------------------------------- MODULE Filter -------------------------------
(***************************************************************************)
(* The elements of a sequence at the indices of a set, in their order: what*)
(* a loop that copies the elements passing a test leaves.  It is SelectSeq,*)
(* defined by counting and not by recursion.                               *)
(***************************************************************************)
EXTENDS Integers, Sequences, FiniteSets

\* The nth smallest index of I.
NthIndex(I, n) == CHOOSE i \in I : Cardinality({j \in I : j <= i}) = n

AtIndices(s, I) == [n \in 1..Cardinality(I) |-> s[NthIndex(I, n)]]
=============================================================================
