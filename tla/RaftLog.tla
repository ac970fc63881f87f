------------------------------- MODULE RaftLog -------------------------------
(***************************************************************************)
(* The replicated log of one node (src/src/raft/raft_log.h, raft_log.cpp): *)
(* the operations of class RaftLog as operators on a sequence of entries.  *)
(*                                                                         *)
(* The code keeps a sentinel at index 0 with term 0; here index 0 is the   *)
(* position before the first element, and TermAt gives it term 0.  The     *)
(* index an entry carries is its position, so an entry is its term and its *)
(* command.  Every method takes log_mutex_, so each one is a single step.  *)
(***************************************************************************)
EXTENDS Integers, Sequences, FiniteSetsExt

\* GetLastIndex: entries_.size() - 1, the sentinel not counted.
LastIndex(l) == Len(l)

\* GetTermAt: 0 for the sentinel and for an index past the end.
TermAt(l, i) == IF i \in 1..Len(l) THEN l[i].term ELSE 0

\* GetLastTerm: entries_.back() is the sentinel in an empty log.
LastTerm(l) == TermAt(l, Len(l))

\* GetEntriesFrom, for a start index of at least 1.
EntriesFrom(l, start) == SubSeq(l, start, Len(l))

\* The offsets of `entries` whose place in the log is taken by another term.
Conflicts(l, prev, entries) ==
    {i \in 1..Len(entries) : /\ prev + i <= Len(l)
                             /\ l[prev + i].term # entries[i].term}

\* Mutant: an entry of another term is kept instead of being cut.
AppendEntriesKeepAll(l, prev, entries) ==
    l \o SubSeq(entries, (Len(l) - prev) + 1, Len(entries))

(***************************************************************************)
(* AppendEntries, for prev <= Len(l).  The loop leaves every entry that    *)
(* agrees in term alone, cuts the log at the first one that does not, and  *)
(* pushes every entry from there on (after the cut the log is too short    *)
(* for any later one), or, without a conflict, the entries past the end.   *)
(***************************************************************************)
AppendEntries(l, prev, entries) ==
    LET bad  == Conflicts(l, prev, entries)
        keep == IF bad = {} THEN Len(l) ELSE prev + Min(bad) - 1
    IN  SubSeq(l, 1, keep) \o SubSeq(entries, (keep - prev) + 1, Len(entries))

\* IsLogUpToDate: a candidate's last entry against this log.
UpToDate(l, lastIndex, lastTerm) ==
    \/ lastTerm > LastTerm(l)
    \/ lastTerm = LastTerm(l) /\ lastIndex >= LastIndex(l)

\* The follower's walk back to the first entry of the term found at index i.
FirstOfTerm(l, i) ==
    CHOOSE j \in 1..i : /\ \A k \in j..i : l[k].term = l[i].term
                        /\ j > 1 => l[j - 1].term # l[i].term

\* The leader's search, from the end, for its last entry of a term: {} or one index.
LastOfTerm(l, t) ==
    {i \in 1..Len(l) : l[i].term = t /\ \A k \in (i + 1)..Len(l) : l[k].term # t}
=============================================================================
