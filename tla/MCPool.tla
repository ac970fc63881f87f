------------------------------- MODULE MCPool -------------------------------
(***************************************************************************)
(* Instances of BufferPool for TLC.  Callers are interchangeable; pages and *)
(* frames are not, as AllocatePage and the free list hand them out in order. *)
(***************************************************************************)
EXTENDS BufferPool, TLC

CONSTANTS c1, c2

Clients == Permutations({c1, c2})

\* After a race no one writes, and contents decide nothing.
View ==
    <<pageId, pinCount, dirty, loading, poolVars, numPages, call, hold, raced,
      IF raced THEN <<>> ELSE <<data, disk, latest>> >>
=============================================================================
