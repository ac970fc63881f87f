------------------------------- MODULE MCMvcc -------------------------------
(***************************************************************************)
(* Instances of Mvcc for TLC.  Sessions are interchangeable; transactions  *)
(* are numbered in the order in which they begin.                          *)
(***************************************************************************)
EXTENDS Mvcc, TLC

CONSTANTS s1, s2, s3

Sessions == Permutations(Session)
=============================================================================
