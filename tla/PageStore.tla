----------------------------- MODULE PageStore -----------------------------
(***************************************************************************)
(* What the buffer pool promises its callers: a set of pages that behaves  *)
(* as if there were no cache.  A page changes only when a caller writes    *)
(* it; at any time the page may be made durable as it is; a crash leaves   *)
(* every page as it was last made durable.  A page is the number of writes *)
(* its content is the result of.                                           *)
(***************************************************************************)
EXTENDS Naturals

CONSTANT PageId   \* the page ids

VARIABLES
    content,   \* what reading each page returns
    durable    \* what reading it would return after a crash

Init ==
    /\ content = [p \in PageId |-> 0]
    /\ durable = content

\* A caller that has the page modifies it.
WriteOnce(p) ==
    /\ content' = [content EXCEPT ![p] = @ + 1]
    /\ UNCHANGED durable

\* Eviction, FlushPage or FlushAllPages: only the current content goes to disk.
MakeDurable(p) ==
    /\ durable' = [durable EXCEPT ![p] = content[p]]
    /\ UNCHANGED content

Crash ==
    /\ content' = durable
    /\ UNCHANGED durable

Next ==
    \/ \E p \in PageId : WriteOnce(p)
    \/ \E p \in PageId : MakeDurable(p)
    \/ Crash

Spec == Init /\ [][Next]_<<content, durable>>
=============================================================================
