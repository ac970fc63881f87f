-------------------------- MODULE RaftClusterProofs --------------------------
(***************************************************************************)
(* Theorems about RaftCluster, for every set of nodes, every fault         *)
(* schedule and every bound.                                               *)
(*                                                                         *)
(* TypeOK is not inductive alone: the indices an AppendEntries call is     *)
(* built from are in range only while the caller is a leader whose         *)
(* next_index_ is, and a caller in an append round is a leader only        *)
(* because nothing disturbs a round.  Inv is the three together.           *)
(***************************************************************************)
EXTENDS RaftCluster, IndexProofs, SequenceTheorems, TLAPS

-----------------------------------------------------------------------------
(***************************************************************************)
(* The log operations of RaftLog, for every log: what the follower's       *)
(* AppendEntries returns and what the backup searches find.                *)
(***************************************************************************)

\* The follower's walk back stops at an index it has passed.
LEMMA FirstOfTermInRange ==
    ASSUME NEW E, NEW l \in Seq(E), NEW i \in 1..Len(l)
    PROVE  FirstOfTerm(l, i) \in 1..i
<1> DEFINE S == {j \in 1..i : \A k \in j..i : l[k].term = l[i].term}
           f == Min(S)
<1>1. i \in S /\ S \subseteq Nat
  OBVIOUS
<1>2. f \in S /\ \A y \in S : f <= y
  BY <1>1, MinIsLeast
<1>3. ASSUME f > 1 PROVE l[f - 1].term # l[i].term
  <2>1. f - 1 \in 1..i /\ f - 1 \notin S
    BY <1>2, <1>3
  <2>2. PICK k \in (f - 1)..i : l[k].term # l[i].term
    BY <2>1
  <2>3. k \notin f..i
    BY <1>2, <2>2
  <2>4. QED
    BY <1>2, <2>2, <2>3
<1>4. \E j \in 1..i : /\ \A k \in j..i : l[k].term = l[i].term
                      /\ j > 1 => l[j - 1].term # l[i].term
  BY <1>2, <1>3
<1>5. QED
  BY <1>4 DEF FirstOfTerm

\* Where AppendEntries stops keeping the follower's own entries.
Kept(l, prev, entries) ==
    IF Conflicts(l, prev, entries) = {} THEN Len(l)
    ELSE prev + Min(Conflicts(l, prev, entries)) - 1

\* AppendEntries keeps the log up to prev and replaces only a suffix.
LEMMA KeptInRange ==
    ASSUME NEW E, NEW l \in Seq(E), NEW entries \in Seq(E), NEW prev \in 0..Len(l)
    PROVE  /\ Kept(l, prev, entries) \in prev..Len(l)
           /\ \A i \in 1..Len(entries) : prev + i <= Kept(l, prev, entries)
                 => l[prev + i].term = entries[i].term
<1> DEFINE bad == Conflicts(l, prev, entries)
<1>1. bad \subseteq Nat
  BY DEF Conflicts
<1>2. CASE bad = {}
  BY <1>2 DEF Kept, Conflicts
<1>3. CASE bad # {}
  <2>1. Min(bad) \in bad /\ \A y \in bad : Min(bad) <= y
    BY <1>1, <1>3, MinIsLeast
  <2>2. Min(bad) \in 1..Len(entries) /\ prev + Min(bad) <= Len(l)
    BY <2>1 DEF Conflicts
  <2>3. Kept(l, prev, entries) = prev + Min(bad) - 1
    BY <1>3 DEF Kept
  <2>4. ASSUME NEW i \in 1..Len(entries), prev + i <= Kept(l, prev, entries)
        PROVE  l[prev + i].term = entries[i].term
    <3>1. i \notin bad
      BY <2>1, <2>2, <2>3, <2>4
    <3>2. prev + i <= Len(l)
      BY <2>2, <2>3, <2>4
    <3>3. QED
      BY <3>1, <3>2 DEF Conflicts
  <2>5. Kept(l, prev, entries) \in prev..Len(l)
    <3>1. Len(l) \in Nat /\ Len(entries) \in Nat
      OBVIOUS
    <3> HIDE DEF bad
    <3>2. QED
      BY <2>2, <2>3, <3>1
  <2>6. QED
    BY <2>4, <2>5
<1>4. QED
  BY <1>2, <1>3

\* What AppendEntries returns: the kept part of the log, then what is left of
\* the entries; a log of the same kind, at least as long as prev + entries.
LEMMA AppendEntriesResult ==
    ASSUME NEW E, NEW l \in Seq(E), NEW entries \in Seq(E), NEW prev \in 0..Len(l)
    PROVE  LET keep == Kept(l, prev, entries)
               new  == AppendEntries(l, prev, entries)
           IN  /\ new \in Seq(E)
               /\ Len(new) = IF keep > prev + Len(entries) THEN keep
                             ELSE prev + Len(entries)
               /\ \A i \in 1..keep : new[i] = l[i]
               /\ \A i \in (keep + 1)..Len(new) : new[i] = entries[i - prev]
<1> DEFINE keep == Kept(l, prev, entries)
           left == SubSeq(l, 1, keep)
           right == SubSeq(entries, (keep - prev) + 1, Len(entries))
<1>1. keep \in prev..Len(l)
  BY KeptInRange
<1>2. AppendEntries(l, prev, entries) = left \o right
  BY DEF AppendEntries, Kept
<1> HIDE DEF keep
<1>3. left \in Seq(E) /\ Len(left) = keep /\ \A i \in 1..keep : left[i] = l[i]
  BY <1>1, SubSeqProperties
<1>4. /\ right \in Seq(E)
      /\ Len(right) = IF keep - prev < Len(entries) THEN Len(entries) - (keep - prev) ELSE 0
      /\ \A i \in 1..Len(right) : right[i] = entries[(keep - prev) + i]
  <2>1. \A i \in ((keep - prev) + 1)..Len(entries) : entries[i] \in E
    BY <1>1
  <2>2. /\ right \in Seq(E)
        /\ Len(right) = IF (keep - prev) + 1 <= Len(entries)
                        THEN Len(entries) - ((keep - prev) + 1) + 1 ELSE 0
        /\ \A i \in 1..(Len(entries) - ((keep - prev) + 1) + 1) :
              right[i] = entries[((keep - prev) + 1) + i - 1]
    BY <1>1, <2>1, SubSeqProperties
  <2> HIDE DEF right
  <2>3. PICK sent : sent = Len(entries)
    OBVIOUS
  <2>4. keep \in Nat /\ prev \in Nat /\ sent \in Nat
    BY <1>1, <2>3, LenProperties
  <2>5. /\ (keep - prev) + 1 <= sent <=> keep - prev < sent
        /\ sent - ((keep - prev) + 1) + 1 = sent - (keep - prev)
        /\ \A i \in Nat : ((keep - prev) + 1) + i - 1 = (keep - prev) + i
    BY <2>4
  <2>6. Len(right) = IF keep - prev < sent THEN sent - (keep - prev) ELSE 0
    BY <2>2, <2>3, <2>5
  <2>7. \A i \in 1..Len(right) : right[i] = entries[(keep - prev) + i]
    <3>1. \A i \in 1..Len(right) : i \in Nat /\ i \in 1..(sent - ((keep - prev) + 1) + 1)
      BY <2>4, <2>5, <2>6
    <3>2. QED
      BY <2>2, <2>3, <2>5, <3>1
  <2>8. QED
    BY <2>2, <2>3, <2>6, <2>7
<1> HIDE DEF left, right
<1>5. /\ left \o right \in Seq(E)
      /\ Len(left \o right) = Len(left) + Len(right)
      /\ \A i \in 1..(Len(left) + Len(right)) :
            (left \o right)[i] = IF i <= Len(left) THEN left[i] ELSE right[i - Len(left)]
  BY <1>3, <1>4, ConcatProperties
<1> DEFINE new == left \o right
<1> HIDE DEF new
<1>6. Len(new) = IF keep > prev + Len(entries) THEN keep ELSE prev + Len(entries)
  <2>1. PICK sent : sent = Len(entries)
    OBVIOUS
  <2>2. keep \in Nat /\ prev \in Nat /\ sent \in Nat
    BY <1>1, <2>1, LenProperties
  <2>3. Len(new) = keep + (IF keep - prev < sent THEN sent - (keep - prev) ELSE 0)
    BY <1>3, <1>4, <1>5, <2>1 DEF new
  <2>4. keep + (IF keep - prev < sent THEN sent - (keep - prev) ELSE 0)
          = IF keep > prev + sent THEN keep ELSE prev + sent
    BY <2>2
  <2>5. QED
    BY <2>1, <2>3, <2>4
<1>7. \A i \in 1..keep : new[i] = l[i]
  BY <1>1, <1>3, <1>4, <1>5 DEF new
<1>8. ASSUME NEW i \in (keep + 1)..Len(new) PROVE new[i] = entries[i - prev]
  <2>0. keep \in Nat /\ Len(right) \in Nat /\ Len(new) = keep + Len(right)
    BY <1>1, <1>3, <1>4, <1>5, LenProperties DEF new
  <2>1. new[i] = right[i - keep] /\ i - keep \in 1..Len(right)
    <3>1. i \in 1..(Len(left) + Len(right)) /\ ~(i <= Len(left)) /\ i - keep \in 1..Len(right)
      BY <1>3, <2>0
    <3>2. QED
      BY <1>3, <1>5, <3>1 DEF new
  <2>2. (keep - prev) + (i - keep) = i - prev
    BY <1>1
  <2>3. right[i - keep] = entries[(keep - prev) + (i - keep)]
    BY <1>4, <2>1
  <2>4. QED
    BY <2>1, <2>2, <2>3
<1>9. QED
  BY <1>2, <1>5, <1>6, <1>7, <1>8 DEF keep, new

-----------------------------------------------------------------------------
(***************************************************************************)
(* Types, rounds and indices.                                              *)
(***************************************************************************)

Inv == TypeOK /\ RoundUndisturbed /\ NextIndexInRange

\* What the calls of a round have to do with the callee.
LEMMA DeliversFacts ==
    ASSUME NEW n \in Node, NEW p \in Node, NEW kind \in {"vote", "append"},
           TypeOK, Delivers(n, p, kind)
    PROVE  n # p /\ p \in Peers(n) /\ op[n].kind = kind
BY DEF Delivers, Idle, Peers

\* Terms are numbers, and so is the term after one.
LEMMA TermType ==
    ASSUME TypeOK, NEW n \in Node
    PROVE  currentTerm[n] \in Nat /\ currentTerm[n] + 1 \in Nat
<1>1. currentTerm \in [Node -> Nat]
  BY DEF TypeOK
<1>2. QED
  BY <1>1

\* The rest of a log from `next` on.
LEMMA SuffixProperties ==
    ASSUME NEW l \in Seq(Entry), NEW next \in 1..(Len(l) + 1)
    PROVE  LET rest == SubSeq(l, next, Len(l))
           IN  /\ rest \in Seq(Entry)
               /\ Len(rest) = Len(l) - next + 1
               /\ \A i \in 1..(Len(l) - next + 1) : rest[i] = l[next + i - 1]
<1>1. Len(l) \in Nat
  OBVIOUS
<1>2. \A i \in next..Len(l) : l[i] \in Entry
  BY <1>1, ElementOfSeq
<1>3. QED
  BY <1>1, <1>2, SubSeqProperties

\* The records that op takes on: a round that begins, and one more call made.
LEMMA RoundType ==
    ASSUME NEW n \in Node, NEW kind \in {"vote", "append"}, NEW term \in Nat,
           NEW votes, votes \subseteq Node
    PROVE  Round(n, kind, term, votes) \in RoundRecord
BY DEF Round, RoundRecord

LEMMA CallType ==
    ASSUME TypeOK, NEW n \in Node, NEW p \in Node
    PROVE  /\ [op EXCEPT ![n].todo = @ \ {p}] \in [Node -> RoundRecord]
           /\ [op EXCEPT ![n].todo = @ \ {p}, ![n].votes = @ \cup {p}]
                \in [Node -> RoundRecord]
<1>1. op[n] \in RoundRecord /\ op \in [Node -> RoundRecord]
  BY DEF TypeOK
<1>2. op[n].todo \ {p} \subseteq Node /\ op[n].votes \cup {p} \subseteq Node
  BY <1>1 DEF RoundRecord
<1>3. [op[n] EXCEPT !.todo = @ \ {p}] \in RoundRecord
  BY <1>1, <1>2 DEF RoundRecord
<1>4. [op[n] EXCEPT !.todo = @ \ {p}, !.votes = @ \cup {p}] \in RoundRecord
  BY <1>1, <1>2 DEF RoundRecord
<1>5. QED
  BY <1>1, <1>3, <1>4

\* One more call made: only the caller's todo set and its votes change.
LEMMA CallFields ==
    ASSUME TypeOK, NEW n \in Node, NEW p \in Node,
           \/ op' = [op EXCEPT ![n].todo = @ \ {p}]
           \/ op' = [op EXCEPT ![n].todo = @ \ {p}, ![n].votes = @ \cup {p}]
    PROVE  /\ \A m \in Node : op'[m].kind = op[m].kind /\ op'[m].term = op[m].term
           /\ \A m \in Node \ {n} : op'[m] = op[m]
           /\ op'[n].todo = op[n].todo \ {p}
<1>1. op[n] \in RoundRecord /\ op \in [Node -> RoundRecord]
  BY DEF TypeOK
<1>2. \/ op'[n] = [op[n] EXCEPT !.todo = @ \ {p}]
      \/ op'[n] = [op[n] EXCEPT !.todo = @ \ {p}, !.votes = @ \cup {p}]
  BY <1>1, Zenon
<1>3. \A m \in Node \ {n} : op'[m] = op[m]
  BY <1>1
<1>4. op'[n].kind = op[n].kind /\ op'[n].term = op[n].term /\ op'[n].todo = op[n].todo \ {p}
  BY <1>1, <1>2, Zenon DEF RoundRecord
<1>5. QED
  BY <1>3, <1>4

LEMMA InitInv == Init => Inv
<1> SUFFICES ASSUME Init PROVE Inv
  OBVIOUS
<1> USE NodeAssumption DEF Init
<1>1. TypeOK
  BY DEF TypeOK, Entry, RoundRecord, Idle, Follower, Candidate, Leader
<1>2. RoundUndisturbed
  BY DEF RoundUndisturbed, Idle
<1>3. NextIndexInRange
  BY DEF NextIndexInRange, Follower, Leader
<1>4. QED
  BY <1>1, <1>2, <1>3 DEF Inv

\* Elections and the start of a round keep the types.
LEMMA ElectionStepType ==
    ASSUME TypeOK, NEW n \in Node, NEW p \in Node,
           \/ ElectionTimeout(n) \/ RequestVoteLost(n, p) \/ RequestVoteStale(n, p)
           \/ RequestVoteDenied(n, p) \/ RequestVoteGranted(n, p)
           \/ EndElection(n) \/ HeartbeatTimeout(n) \/ AppendEntriesStale(n, p)
    PROVE  TypeOK'
<1> USE DEF TypeOK
<1>1. op[n] \in RoundRecord /\ op[n].term \in Nat /\ Idle \in RoundRecord
  BY DEF RoundRecord, Idle
<1>2. CASE ElectionTimeout(n)
  <2>1. NextTerm(n) \in Nat
    BY TermType DEF NextTerm
  <2>2. Round(n, "vote", NextTerm(n), {n}) \in RoundRecord
    BY <2>1, RoundType
  <2>3. QED
    BY <1>2, <2>1, <2>2 DEF ElectionTimeout, Candidate, applyVars, leaderVars, clusterVars
<1>3. CASE RequestVoteLost(n, p)
  <2>1. op' \in [Node -> RoundRecord]
    BY <1>3, CallType DEF RequestVoteLost
  <2>2. QED
    BY <1>3, <2>1 DEF RequestVoteLost, persistVars, applyVars, leaderVars, roleVars,
       clusterVars
<1>4. CASE RequestVoteStale(n, p) \/ AppendEntriesStale(n, p)
  <2>1. /\ BecomeFollower(n, currentTerm[p])
        /\ UNCHANGED <<log, applyVars, leaderVars, clusterVars, elected>>
    BY <1>4 DEF RequestVoteStale, AppendEntriesStale
  <2>2. QED
    BY <1>1, <2>1 DEF BecomeFollower, Follower, applyVars, leaderVars, clusterVars
<1>5. CASE RequestVoteDenied(n, p)
  <2>1. op' \in [Node -> RoundRecord]
    BY <1>5, CallType DEF RequestVoteDenied
  <2>2. QED
    BY <1>1, <1>5, <2>1 DEF RequestVoteDenied, TakeTermAndVote, RoleSeenBy,
       LeaderSeenBy, Follower, applyVars, leaderVars, clusterVars
<1>6. CASE RequestVoteGranted(n, p)
  <2>1. op' \in [Node -> RoundRecord]
    BY <1>6, CallType DEF RequestVoteGranted
  <2>2. QED
    BY <1>1, <1>6, <2>1 DEF RequestVoteGranted, TakeTermAndVote, RoleSeenBy,
       LeaderSeenBy, Follower, applyVars, leaderVars, clusterVars
<1>7. CASE HeartbeatTimeout(n)
  <2>1. Round(n, "append", currentTerm[n], {}) \in RoundRecord
    BY RoundType
  <2>2. QED
    BY <1>7, <2>1 DEF HeartbeatTimeout, persistVars, applyVars, leaderVars, roleVars,
       clusterVars
<1>8. CASE EndElection(n)
  BY <1>1, <1>8 DEF EndElection, persistVars, applyVars, leaderVars, roleVars,
     clusterVars
<1>9. QED
  BY <1>2, <1>3, <1>4, <1>5, <1>6, <1>7, <1>8

\* What an append round calls its peers with.
LEMMA AppendArguments ==
    ASSUME Inv, NEW n \in Node, NEW p \in Peers(n), op[n].kind = "append"
    PROVE  /\ role[n] = Leader /\ currentTerm[n] = op[n].term
           /\ nextIndex[n][p] \in 1..(Len(log[n]) + 1)
           /\ PrevIndex(n, p) \in 0..Len(log[n])
           /\ EntriesTo(n, p) \in Seq(Entry)
           /\ Len(EntriesTo(n, p)) = Len(log[n]) - PrevIndex(n, p)
           /\ \A i \in 1..Len(EntriesTo(n, p)) :
                 EntriesTo(n, p)[i] = log[n][PrevIndex(n, p) + i]
<1>1. log[n] \in Seq(Entry) /\ p \in Node
  BY DEF Inv, TypeOK, Peers
<1>2. role[n] = Leader /\ currentTerm[n] = op[n].term
  BY DEF Inv, RoundUndisturbed
<1>3. nextIndex[n][p] \in 1..(Len(log[n]) + 1)
  BY <1>2 DEF Inv, NextIndexInRange, LastIndex
<1> DEFINE next == nextIndex[n][p]
<1> HIDE DEF next
<1>4. next \in 1..(Len(log[n]) + 1) /\ Len(log[n]) \in Nat
  BY <1>1, <1>3 DEF next
<1>5. /\ SubSeq(log[n], next, Len(log[n])) \in Seq(Entry)
      /\ Len(SubSeq(log[n], next, Len(log[n]))) = Len(log[n]) - next + 1
      /\ \A i \in 1..(Len(log[n]) - next + 1) :
            SubSeq(log[n], next, Len(log[n]))[i] = log[n][next + i - 1]
  BY <1>1, <1>4, SuffixProperties
<1>6. EntriesTo(n, p) = SubSeq(log[n], next, Len(log[n]))
  BY DEF EntriesTo, EntriesFrom, next
<1>7. PrevIndex(n, p) = next - 1 /\ PrevIndex(n, p) \in 0..Len(log[n])
  BY <1>4 DEF PrevIndex, next
<1>8. Len(EntriesTo(n, p)) = Len(log[n]) - PrevIndex(n, p)
  BY <1>4, <1>5, <1>6, <1>7
<1>9. ASSUME NEW i \in 1..Len(EntriesTo(n, p))
      PROVE  EntriesTo(n, p)[i] = log[n][PrevIndex(n, p) + i]
  <2>1. i \in 1..(Len(log[n]) - next + 1) /\ next + i - 1 = PrevIndex(n, p) + i
    BY <1>4, <1>7, <1>8
  <2>2. QED
    BY <2>1, <1>5, <1>6
<1>10. QED
  BY <1>2, <1>3, <1>5, <1>6, <1>7, <1>8, <1>9

\* A call that passes rule 2 appends at a place within the callee's log.
LEMMA ConsistentPrev ==
    ASSUME Inv, NEW n \in Node, NEW p \in Peers(n), op[n].kind = "append",
           Consistent(n, p)
    PROVE  PrevIndex(n, p) \in 0..Len(log[p])
<1>1. PrevIndex(n, p) \in Nat /\ p \in Node
  BY AppendArguments DEF Peers
<1>2. Len(log[p]) \in Nat
  BY <1>1 DEF Inv, TypeOK
<1>3. QED
  BY <1>1, <1>2 DEF Consistent, LastIndex

\* The commands that are applied are commands, or the empty one.
LEMMA CommandsOfType ==
    ASSUME NEW l \in Seq(Entry), NEW from \in Nat, NEW to \in Nat
    PROVE  CommandsOf(l, from, to) \in Seq(Command \cup {EmptyCommand})
<1> DEFINE k == IF from <= to THEN to - from ELSE 0
<1>1. k \in Nat /\ 1..(to - from) = 1..k
  OBVIOUS
<1>2. ASSUME NEW i \in 1..k, from + i <= Len(l)
      PROVE  l[from + i].command \in Command
  <2>1. from + i \in 1..Len(l)
    BY <1>1, <1>2
  <2>2. l[from + i] \in Entry
    BY <2>1, ElementOfSeq
  <2>3. QED
    BY <2>2 DEF Entry
<1>3. CommandsOf(l, from, to) \in [1..k -> Command \cup {EmptyCommand}]
  BY <1>1, <1>2 DEF CommandsOf
<1> HIDE DEF k
<1>4. QED
  BY <1>1, <1>3, SeqDef

LEMMA AppliedType ==
    ASSUME TypeOK, NEW p \in Node, NEW l \in Seq(Entry), NEW from \in Nat, NEW to \in Nat
    PROVE  applied[p] \o CommandsOf(l, from, to) \in Seq(Command \cup {EmptyCommand})
BY CommandsOfType, ConcatProperties DEF TypeOK

\* The backup never leaves the leader's log, nor goes below its first entry.
LEMMA NextAfterConflictInRange ==
    ASSUME Inv, NEW n \in Node, NEW p \in Peers(n), op[n].kind = "append",
           ~Consistent(n, p)
    PROVE  NextAfterConflict(n, p) \in 1..(Len(log[n]) + 1)
<1>1. log[n] \in Seq(Entry) /\ log[p] \in Seq(Entry)
  BY DEF Inv, TypeOK, Peers
<1> DEFINE prev == PrevIndex(n, p)
           mine == LastOfTerm(log[n], TermAt(log[p], prev))
<1>2. prev \in 1..Len(log[n])
  BY AppendArguments DEF Consistent
<1>3. CASE prev > LastIndex(log[p])
  <2>1. Len(log[p]) + 1 \in 1..(Len(log[n]) + 1)
    BY <1>1, <1>2, <1>3 DEF LastIndex
  <2>2. QED
    BY <1>3, <2>1 DEF NextAfterConflict, LastIndex
<1>4. CASE ~(prev > LastIndex(log[p])) /\ mine = {}
  <2>1. prev \in 1..Len(log[p])
    BY <1>1, <1>2, <1>4 DEF LastIndex
  <2>2. FirstOfTerm(log[p], prev) \in 1..prev
    BY <1>1, <2>1, FirstOfTermInRange
  <2>3. NextAfterConflict(n, p) = FirstOfTerm(log[p], prev)
    BY <1>4 DEF NextAfterConflict
  <2> HIDE DEF prev
  <2>4. QED
    BY <1>1, <1>2, <2>2, <2>3
<1>5. CASE ~(prev > LastIndex(log[p])) /\ mine # {}
  <2>1. (CHOOSE i \in mine : TRUE) \in mine
    BY <1>5
  <2>2. (CHOOSE i \in mine : TRUE) \in 1..Len(log[n])
    BY <2>1 DEF LastOfTerm
  <2>3. NextAfterConflict(n, p) = (CHOOSE i \in mine : TRUE) + 1
    BY <1>5 DEF NextAfterConflict
  <2> HIDE DEF mine
  <2>4. QED
    BY <1>1, <2>2, <2>3
<1>6. QED
  BY <1>3, <1>4, <1>5

\* The commit index a leader settles on at the end of a round.
LEMMA CommittableMax ==
    ASSUME TypeOK, NEW n \in Node, Committable(n) # {}
    PROVE  /\ Max(Committable(n)) \in Committable(n)
           /\ Max(Committable(n)) \in (commitIndex[n] + 1)..Len(log[n])
<1>1. Len(log[n]) \in Nat /\ commitIndex[n] \in Nat
  BY DEF TypeOK
<1>2. Committable(n) \subseteq (commitIndex[n] + 1)..Len(log[n])
  BY DEF Committable
<1>3. Committable(n) \subseteq 0..Len(log[n])
  BY <1>1, <1>2
<1>4. QED
  BY <1>1, <1>2, <1>3, MaxIsGreatest

\* Winning, proposing and the replies of an append round keep the types.
LEMMA ReplicationStepType ==
    ASSUME Inv, NEW n \in Node, NEW p \in Node,
           \/ BecomeLeader(n, p) \/ AppendEntriesLost(n, p)
           \/ AppendEntriesConflict(n, p) \/ AppendEntriesAccepted(n, p)
           \/ EndHeartbeats(n) \/ \E c \in Command : Propose(n, c)
    PROVE  TypeOK'
<1>0. TypeOK
  BY DEF Inv
<1>1. /\ op[n].term \in Nat /\ currentTerm[n] \in Nat
      /\ log[n] \in Seq(Entry) /\ Len(log[n]) \in Nat
      /\ lastApplied[n] \in Nat /\ commitIndex[n] \in Nat
  <2>1. op[n] \in RoundRecord /\ log[n] \in Seq(Entry)
    BY <1>0 DEF TypeOK
  <2>2. op[n].term \in Nat /\ Len(log[n]) \in Nat
    BY <2>1 DEF RoundRecord
  <2>3. QED
    BY <1>0, <2>1, <2>2 DEF TypeOK
<1>2. CASE BecomeLeader(n, p)
  <2>1. Round(n, "append", op[n].term, {}) \in RoundRecord
    BY <1>1 DEF Round, RoundRecord
  <2>2. op' \in [Node -> RoundRecord] /\ role' \in [Node -> {Follower, Candidate, Leader}]
    BY <1>0, <1>2, <2>1 DEF BecomeLeader, RoleSeenBy, TypeOK
  <2>3. leaderId' \in [Node -> Node \cup {0}] /\ elected' \subseteq [term : Nat, node : Node]
    <3>1. elected' = elected \cup {[term |-> op[n].term, node |-> n]}
      BY <1>2 DEF BecomeLeader
    <3>2. leaderId' \in [Node -> Node \cup {0}]
      BY <1>0, <1>2 DEF BecomeLeader, LeaderSeenBy, TypeOK
    <3>3. [term |-> op[n].term, node |-> n] \in [term : Nat, node : Node]
      BY <1>1
    <3>4. elected \subseteq [term : Nat, node : Node]
      BY <1>0 DEF TypeOK
    <3>5. QED
      BY <3>1, <3>2, <3>3, <3>4
  <2>4. /\ nextIndex' \in [Node -> [Node -> Nat]]
        /\ matchIndex' \in [Node -> [Node -> Nat]]
    <3>1. LastIndex(log[n]) + 1 \in Nat
      BY <1>1 DEF LastIndex
    <3>2. /\ [q \in Node |-> LastIndex(log[n]) + 1] \in [Node -> Nat]
          /\ [q \in Node |-> 0] \in [Node -> Nat]
      BY <3>1
    <3>3. QED
      BY <1>0, <1>2, <3>2 DEF BecomeLeader, TypeOK
  <2>5. currentTerm' \in [Node -> Nat] /\ votedFor' \in [Node -> Node \cup {0}]
    BY <1>0, <1>1, <1>2 DEF BecomeLeader, TakeTermAndVote, TypeOK
  <2>6. QED
    BY <1>0, <1>2, <2>2, <2>3, <2>4, <2>5 DEF BecomeLeader, TypeOK, applyVars, clusterVars
<1>3. CASE \E c \in Command : Propose(n, c)
  <2> PICK c \in Command : Propose(n, c)
    BY <1>3
  <2>1. Round(n, "append", currentTerm[n], {}) \in RoundRecord
    BY <1>1 DEF Round, RoundRecord
  <2>2. Append(log[n], [term |-> currentTerm[n], command |-> c]) \in Seq(Entry)
    BY <1>1, AppendProperties DEF Entry
  <2>3. QED
    BY <1>0, <2>1, <2>2 DEF Propose, TypeOK, applyVars, leaderVars, roleVars,
       clusterVars
<1>4. CASE AppendEntriesLost(n, p)
  <2>1. op' \in [Node -> RoundRecord]
    BY <1>0, <1>4, CallType DEF AppendEntriesLost
  <2>2. QED
    BY <1>0, <1>4, <2>1 DEF AppendEntriesLost, NextAfterLoss, TypeOK, persistVars,
       applyVars, roleVars, clusterVars
<1>5. ASSUME Acknowledge(n, p)
      PROVE  /\ currentTerm' \in [Node -> Nat]
             /\ role' \in [Node -> {Follower, Candidate, Leader}]
             /\ leaderId' \in [Node -> Node \cup {0}]
             /\ votedFor' \in [Node -> Node \cup {0}]
  BY <1>0, <1>1, <1>5 DEF Acknowledge, TypeOK
<1>6. CASE AppendEntriesConflict(n, p)
  <2>1. p \in Peers(n) /\ op[n].kind = "append" /\ ~Consistent(n, p)
    BY <1>0, <1>6, DeliversFacts DEF AppendEntriesConflict
  <2>2. NextAfterConflict(n, p) \in Nat
    BY <1>1, <2>1, NextAfterConflictInRange
  <2>3. op' \in [Node -> RoundRecord]
    BY <1>0, <1>6, CallType DEF AppendEntriesConflict
  <2>4. nextIndex' \in [Node -> [Node -> Nat]]
    BY <1>0, <1>6, <2>2 DEF AppendEntriesConflict, TypeOK
  <2>5. QED
    BY <1>0, <1>5, <1>6, <2>3, <2>4 DEF AppendEntriesConflict, TypeOK, applyVars,
       clusterVars
<1>7. CASE AppendEntriesAccepted(n, p)
  <2> DEFINE newLog == AppendEntries(log[p], PrevIndex(n, p), EntriesTo(n, p))
             commit == CommitAfterAppend(n, p)
             upto   == IF commit > lastApplied[p] THEN commit ELSE lastApplied[p]
  <2>1. p \in Peers(n) /\ op[n].kind = "append" /\ Consistent(n, p)
    BY <1>0, <1>7, DeliversFacts DEF AppendEntriesAccepted
  <2>2. newLog \in Seq(Entry)
    <3>1. PrevIndex(n, p) \in 0..Len(log[p]) /\ EntriesTo(n, p) \in Seq(Entry)
      BY <2>1, ConsistentPrev, AppendArguments
    <3>2. log[p] \in Seq(Entry)
      BY <1>0 DEF TypeOK
    <3>3. QED
      BY <3>1, <3>2, AppendEntriesResult
  <2>3. commit \in Nat /\ lastApplied[p] \in Nat
    <3>1. PrevIndex(n, p) + Len(EntriesTo(n, p)) \in Nat
      BY <1>1, <2>1, AppendArguments
    <3>2. QED
      BY <1>0, <1>1, <3>1 DEF CommitAfterAppend, TypeOK
  <2> HIDE DEF newLog, commit
  <2>4. upto \in Nat
    BY <2>3
  <2> HIDE DEF upto
  <2>5. applied[p] \o CommandsOf(newLog, lastApplied[p], upto)
          \in Seq(Command \cup {EmptyCommand})
    BY <1>0, <2>2, <2>3, <2>4, AppliedType
  <2>6. /\ log' = [log EXCEPT ![p] = newLog]
        /\ commitIndex' = [commitIndex EXCEPT ![p] = commit]
        /\ lastApplied' = [lastApplied EXCEPT ![p] = upto]
        /\ applied' = [applied EXCEPT ![p] = @ \o CommandsOf(newLog, lastApplied[p], upto)]
        /\ UNCHANGED <<clusterVars, elected>> /\ Acknowledge(n, p)
    BY <1>7 DEF AppendEntriesAccepted, newLog, commit, upto
  <2>7. op' \in [Node -> RoundRecord]
    BY <1>0, <1>7, CallType DEF AppendEntriesAccepted
  <2>8. nextIndex' \in [Node -> [Node -> Nat]] /\ matchIndex' \in [Node -> [Node -> Nat]]
    <3>1. LastIndex(log[n]) \in Nat /\ LastIndex(log[n]) + 1 \in Nat
      BY <1>1 DEF LastIndex
    <3>2. \/ /\ nextIndex' = [nextIndex EXCEPT ![n][p] = LastIndex(log[n]) + 1]
             /\ matchIndex' = [matchIndex EXCEPT ![n][p] = LastIndex(log[n])]
          \/ UNCHANGED <<nextIndex, matchIndex>>
      BY <1>7 DEF AppendEntriesAccepted, leaderVars
    <3> DEFINE last == LastIndex(log[n])
    <3> HIDE DEF last
    <3>3. CASE UNCHANGED <<nextIndex, matchIndex>>
      BY <1>0, <3>3 DEF TypeOK
    <3>4. CASE /\ nextIndex' = [nextIndex EXCEPT ![n][p] = last + 1]
               /\ matchIndex' = [matchIndex EXCEPT ![n][p] = last]
      <4>1. last \in Nat /\ last + 1 \in Nat
        BY <3>1 DEF last
      <4>2. nextIndex' \in [Node -> [Node -> Nat]]
        BY <1>0, <3>4, <4>1 DEF TypeOK
      <4>3. matchIndex' \in [Node -> [Node -> Nat]]
        BY <1>0, <3>4, <4>1 DEF TypeOK
      <4>4. QED
        BY <4>2, <4>3
    <3>5. QED
      BY <3>2, <3>3, <3>4 DEF last
  <2>9. /\ log' \in [Node -> Seq(Entry)] /\ commitIndex' \in [Node -> Nat]
        /\ lastApplied' \in [Node -> Nat]
        /\ applied' \in [Node -> Seq(Command \cup {EmptyCommand})]
    BY <1>0, <2>2, <2>3, <2>4, <2>5, <2>6 DEF TypeOK
  <2>10. QED
    BY <1>0, <1>5, <2>6, <2>7, <2>8, <2>9 DEF TypeOK, clusterVars
<1>8. CASE EndHeartbeats(n)
  <2> DEFINE commit == IF Committable(n) = {} THEN commitIndex[n] ELSE Max(Committable(n))
             upto   == IF commit > commitIndex[n] /\ commit > lastApplied[n]
                       THEN commit ELSE lastApplied[n]
  <2>1. commit \in Nat
    BY <1>0, <1>1, CommittableMax
  <2> HIDE DEF commit
  <2>2. upto \in Nat
    BY <1>1, <2>1
  <2> HIDE DEF upto
  <2>3. applied[n] \o CommandsOf(log[n], lastApplied[n], upto)
          \in Seq(Command \cup {EmptyCommand})
    BY <1>0, <1>1, <2>2, AppliedType
  <2>4. /\ commitIndex' = [commitIndex EXCEPT ![n] = commit]
        /\ lastApplied' = [lastApplied EXCEPT ![n] = upto]
        /\ applied' = [applied EXCEPT ![n] = @ \o CommandsOf(log[n], lastApplied[n], upto)]
        /\ op' = [op EXCEPT ![n] = Idle]
        /\ UNCHANGED <<persistVars, leaderVars, roleVars, clusterVars, elected>>
    BY <1>8 DEF EndHeartbeats, commit, upto
  <2>5. op' \in [Node -> RoundRecord]
    BY <1>0, <2>4 DEF TypeOK, Idle, RoundRecord
  <2>6. QED
    BY <1>0, <2>1, <2>2, <2>3, <2>4, <2>5 DEF TypeOK, persistVars, leaderVars, roleVars,
       clusterVars
<1>9. QED
  BY <1>2, <1>3, <1>4, <1>6, <1>7, <1>8

\* Control calls change only the sets of crashed nodes and of cut links.
LEMMA ControlStepType ==
    ASSUME TypeOK, NEW n \in Node, NEW m \in Node, Control(n, m)
    PROVE  /\ TypeOK'
           /\ UNCHANGED <<persistVars, applyVars, leaderVars, roleVars, op, elected>>
           /\ Quiet
<1>1. /\ UNCHANGED <<persistVars, applyVars, leaderVars, roleVars, op, elected>>
      /\ Quiet
  BY DEF Control, CrashNode, RestartNode, Disconnect, Reconnect, IsolateNode,
     RecoverNode, ChangeCut
<1>2. LinksOf(n) \subseteq SUBSET Node
  BY DEF LinksOf, Peers
<1>3. crashed' \subseteq Node /\ cut' \subseteq SUBSET Node
  BY <1>2 DEF Control, CrashNode, RestartNode, Disconnect, Reconnect, IsolateNode,
     RecoverNode, ChangeCut, TypeOK
<1>4. QED
  BY <1>1, <1>3 DEF TypeOK, persistVars, applyVars, leaderVars, roleVars

\* A callee that is in no round of its own may change freely; the caller's role
\* and term change only where its round ends.
LEMMA CalleeFree ==
    ASSUME Inv, NEW n \in Node, NEW p \in Node, NEW kind \in {"vote", "append"},
           Delivers(n, p, kind),
           \/ op' = [op EXCEPT ![n].todo = @ \ {p}]
           \/ op' = [op EXCEPT ![n].todo = @ \ {p}, ![n].votes = @ \cup {p}],
           \A m \in Node \ {p} : role'[m] = role[m] /\ currentTerm'[m] = currentTerm[m]
    PROVE  RoundUndisturbed'
<1>1. n # p /\ op[p].kind = "idle"
  BY DeliversFacts DEF Inv, Delivers, Idle
<1>2. \A m \in Node : op'[m].kind = op[m].kind /\ op'[m].term = op[m].term
  BY CallFields DEF Inv
<1>3. QED
  BY <1>1, <1>2 DEF Inv, RoundUndisturbed

LEMMA UndisturbedStep ==
    ASSUME Inv, NEW n \in Node, NEW p \in Node,
           \/ ElectionTimeout(n) \/ HeartbeatTimeout(n) \/ RoundStep(n, p)
           \/ EndElection(n) \/ EndHeartbeats(n) \/ \E c \in Command : Propose(n, c)
    PROVE  RoundUndisturbed'
<1>0. /\ op \in [Node -> RoundRecord] /\ role \in [Node -> {Follower, Candidate, Leader}]
      /\ currentTerm \in [Node -> Nat]
  BY DEF Inv, TypeOK
<1>1. CASE ElectionTimeout(n)
  BY <1>0, <1>1 DEF ElectionTimeout, Round, Inv, RoundUndisturbed
<1>2. CASE HeartbeatTimeout(n) \/ \E c \in Command : Propose(n, c)
  <2>1. /\ op' = [op EXCEPT ![n] = Round(n, "append", currentTerm[n], {})]
        /\ role[n] = Leader
        /\ UNCHANGED <<role, currentTerm>>
    BY <1>2 DEF HeartbeatTimeout, Propose, roleVars, persistVars
  <2>2. QED
    BY <1>0, <2>1 DEF Round, Inv, RoundUndisturbed
<1>3. CASE EndElection(n) \/ EndHeartbeats(n)
  <2>1. op' = [op EXCEPT ![n] = Idle] /\ UNCHANGED <<role, currentTerm>>
    BY <1>3 DEF EndElection, EndHeartbeats, roleVars, persistVars
  <2>2. QED
    BY <1>0, <2>1 DEF Idle, Inv, RoundUndisturbed
<1>4. CASE RequestVoteLost(n, p) \/ AppendEntriesLost(n, p)
  <2>1. op' = [op EXCEPT ![n].todo = @ \ {p}] /\ UNCHANGED <<role, currentTerm>>
    BY <1>4 DEF RequestVoteLost, AppendEntriesLost, roleVars, persistVars
  <2>2. \A m \in Node : op'[m].kind = op[m].kind /\ op'[m].term = op[m].term
    BY <2>1, CallFields DEF Inv
  <2>3. QED
    BY <2>1, <2>2 DEF Inv, RoundUndisturbed
<1>5. CASE RequestVoteStale(n, p) \/ AppendEntriesStale(n, p)
  <2>1. BecomeFollower(n, currentTerm[p])
    BY <1>5 DEF RequestVoteStale, AppendEntriesStale
  <2>2. QED
    BY <1>0, <2>1 DEF BecomeFollower, Idle, Inv, RoundUndisturbed
<1>6. CASE RequestVoteDenied(n, p)
  <2>1. Delivers(n, p, "vote") /\ op' = [op EXCEPT ![n].todo = @ \ {p}]
    BY <1>6 DEF RequestVoteDenied
  <2>2. \A m \in Node \ {p} : role'[m] = role[m] /\ currentTerm'[m] = currentTerm[m]
    BY <1>0, <1>6 DEF RequestVoteDenied, TakeTermAndVote
  <2>3. QED
    BY <2>1, <2>2, CalleeFree
<1>7. CASE RequestVoteGranted(n, p)
  <2>1. /\ Delivers(n, p, "vote")
        /\ op' = [op EXCEPT ![n].todo = @ \ {p}, ![n].votes = @ \cup {p}]
    BY <1>7 DEF RequestVoteGranted
  <2>2. \A m \in Node \ {p} : role'[m] = role[m] /\ currentTerm'[m] = currentTerm[m]
    BY <1>0, <1>7 DEF RequestVoteGranted, TakeTermAndVote
  <2>3. QED
    BY <2>1, <2>2, CalleeFree
<1>8. CASE BecomeLeader(n, p)
  <2>1. n # p /\ op[p].kind = "idle" /\ op[n].kind = "vote"
    BY <1>8, DeliversFacts DEF BecomeLeader, Delivers, Inv, Idle
  <2>2. currentTerm[n] = op[n].term
    BY <2>1 DEF Inv, RoundUndisturbed
  <2>3. op'[n].kind = "append" /\ op'[n].term = op[n].term
    BY <1>0, <1>8 DEF BecomeLeader, Round
  <2>4. \A m \in Node \ {n} : op'[m] = op[m]
    BY <1>0, <1>8 DEF BecomeLeader
  <2>5. /\ role'[n] = Leader /\ currentTerm'[n] = currentTerm[n]
        /\ \A m \in Node \ {n, p} : role'[m] = role[m] /\ currentTerm'[m] = currentTerm[m]
    BY <1>0, <1>8, <2>1 DEF BecomeLeader, TakeTermAndVote
  <2>6. QED
    BY <2>1, <2>2, <2>3, <2>4, <2>5 DEF Inv, RoundUndisturbed
<1>9. CASE AppendEntriesConflict(n, p) \/ AppendEntriesAccepted(n, p)
  <2>1. /\ Delivers(n, p, "append") /\ op' = [op EXCEPT ![n].todo = @ \ {p}]
        /\ Acknowledge(n, p)
    BY <1>9 DEF AppendEntriesConflict, AppendEntriesAccepted
  <2>2. \A m \in Node \ {p} : role'[m] = role[m] /\ currentTerm'[m] = currentTerm[m]
    BY <1>0, <2>1 DEF Acknowledge
  <2>3. QED
    BY <2>1, <2>2, CalleeFree
<1>10. QED
  BY <1>1, <1>2, <1>3, <1>4, <1>5, <1>6, <1>7, <1>8, <1>9 DEF RoundStep

\* Whoever leads after the step led before it, with the same log and indices.
LEMMA LeadersKept ==
    ASSUME Inv,
           \A m \in Node : role'[m] = Leader =>
              role[m] = Leader /\ log'[m] = log[m] /\ nextIndex'[m] = nextIndex[m]
    PROVE  NextIndexInRange'
BY DEF Inv, NextIndexInRange, LastIndex, Peers

LEMMA NextIndexStep ==
    ASSUME Inv, NEW n \in Node, NEW p \in Node,
           \/ ElectionTimeout(n) \/ HeartbeatTimeout(n) \/ RoundStep(n, p)
           \/ EndElection(n) \/ EndHeartbeats(n) \/ \E c \in Command : Propose(n, c)
    PROVE  NextIndexInRange'
<1>0. /\ role \in [Node -> {Follower, Candidate, Leader}] /\ log \in [Node -> Seq(Entry)]
      /\ nextIndex \in [Node -> [Node -> Nat]]
  BY DEF Inv, TypeOK
<1>1. CASE \/ ElectionTimeout(n) \/ RequestVoteStale(n, p) \/ AppendEntriesStale(n, p)
  <2>1. role'[n] # Leader /\ (\A m \in Node \ {n} : role'[m] = role[m])
    BY <1>0, <1>1 DEF ElectionTimeout, RequestVoteStale, AppendEntriesStale,
       BecomeFollower, Follower, Candidate, Leader
  <2>2. UNCHANGED <<log, nextIndex>>
    BY <1>1 DEF ElectionTimeout, RequestVoteStale, AppendEntriesStale, leaderVars
  <2>3. QED
    BY <2>1, <2>2, LeadersKept
<1>2. CASE \/ HeartbeatTimeout(n) \/ RequestVoteLost(n, p)
           \/ EndElection(n) \/ EndHeartbeats(n)
  <2>1. UNCHANGED <<role, log, nextIndex>>
    BY <1>2 DEF HeartbeatTimeout, RequestVoteLost, EndElection, EndHeartbeats,
       persistVars, roleVars, leaderVars
  <2>2. QED
    BY <2>1 DEF Inv, NextIndexInRange
<1>3. CASE RequestVoteDenied(n, p) \/ RequestVoteGranted(n, p)
  <2>1. /\ role' = [role EXCEPT ![p] = RoleSeenBy(n, p)]
        /\ UNCHANGED <<log, nextIndex>>
    BY <1>3 DEF RequestVoteDenied, RequestVoteGranted, leaderVars
  <2>2. \A m \in Node : role'[m] = Leader => role[m] = Leader
    BY <1>0, <2>1 DEF RoleSeenBy, Follower, Leader
  <2>3. QED
    BY <2>1, <2>2, LeadersKept
<1>4. CASE BecomeLeader(n, p)
  <2>1. \A m \in Node \ {n} : /\ role'[m] = Leader => role[m] = Leader
                              /\ nextIndex'[m] = nextIndex[m]
    BY <1>0, <1>4 DEF BecomeLeader, RoleSeenBy, Follower, Leader
  <2>2. \A q \in Node : nextIndex'[n][q] = Len(log[n]) + 1
    BY <1>0, <1>4 DEF BecomeLeader, LastIndex
  <2>3. log' = log /\ Len(log[n]) \in Nat
    BY <1>0, <1>4 DEF BecomeLeader
  <2>4. QED
    BY <2>1, <2>2, <2>3 DEF Inv, NextIndexInRange, LastIndex, Peers
<1>5. CASE \E c \in Command : Propose(n, c)
  <2> PICK c \in Command : Propose(n, c)
    BY <1>5
  <2>1. /\ UNCHANGED <<role, nextIndex>> /\ role[n] = Leader
        /\ log' = [log EXCEPT ![n] = Append(@, [term |-> currentTerm[n], command |-> c])]
    BY DEF Propose, roleVars, leaderVars
  <2>2. Len(log'[n]) = Len(log[n]) + 1 /\ Len(log[n]) \in Nat
    BY <1>0, <2>1
  <2>3. \A m \in Node \ {n} : log'[m] = log[m]
    BY <1>0, <2>1
  <2>4. QED
    BY <2>1, <2>2, <2>3 DEF Inv, NextIndexInRange, LastIndex, Peers
<1>6. ASSUME NEW x, x \in 1..(Len(log[n]) + 1),
             nextIndex' = [nextIndex EXCEPT ![n][p] = x],
             \A m \in Node : /\ role'[m] = Leader => role[m] = Leader
                             /\ role'[m] = Leader => log'[m] = log[m]
      PROVE  NextIndexInRange'
  <2>1. \A m, q \in Node : nextIndex'[m][q] = IF m = n /\ q = p THEN x ELSE nextIndex[m][q]
    BY <1>0, <1>6
  <2>2. ASSUME NEW m \in Node, role'[m] = Leader, NEW q \in Peers(m)
        PROVE  nextIndex'[m][q] \in 1..(Len(log'[m]) + 1)
    <3>1. role[m] = Leader /\ log'[m] = log[m] /\ q \in Node
      BY <1>6, <2>2, Zenon DEF Peers
    <3>2. nextIndex[m][q] \in 1..(LastIndex(log[m]) + 1)
      BY <2>2, <3>1 DEF Inv, NextIndexInRange
    <3>3. (nextIndex'[m][q] = x /\ m = n) \/ nextIndex'[m][q] = nextIndex[m][q]
      BY <2>1, <3>1
    <3>4. QED
      BY <1>6, <3>1, <3>2, <3>3 DEF LastIndex
  <2>3. QED
    BY <2>2 DEF NextIndexInRange, LastIndex, Peers
<1>7. CASE AppendEntriesLost(n, p)
  <2>1. 1 \in 1..(Len(log[n]) + 1)
    BY <1>0
  <2>2. QED
    BY <1>6, <1>7, <2>1 DEF AppendEntriesLost, NextAfterLoss, roleVars, persistVars
<1>8. CASE AppendEntriesConflict(n, p)
  <2>1. NextAfterConflict(n, p) \in 1..(Len(log[n]) + 1)
    BY <1>8, DeliversFacts, NextAfterConflictInRange DEF AppendEntriesConflict, Inv
  <2>2. \A m \in Node : role'[m] = Leader => role[m] = Leader
    BY <1>0, <1>8 DEF AppendEntriesConflict, Acknowledge, Follower, Leader
  <2>3. QED
    BY <1>6, <1>8, <2>1, <2>2 DEF AppendEntriesConflict
<1>9. CASE AppendEntriesAccepted(n, p)
  <2>1. role' = [role EXCEPT ![p] = Follower]
    BY <1>9 DEF AppendEntriesAccepted, Acknowledge
  <2>2. \A m \in Node : /\ role'[m] = Leader => role[m] = Leader
                        /\ role'[m] = Leader => log'[m] = log[m]
    BY <1>0, <1>9, <2>1 DEF AppendEntriesAccepted, Follower, Leader
  <2>3. \/ nextIndex' = [nextIndex EXCEPT ![n][p] = LastIndex(log[n]) + 1]
        \/ UNCHANGED nextIndex
    BY <1>9 DEF AppendEntriesAccepted, leaderVars
  <2>4. LastIndex(log[n]) + 1 \in 1..(Len(log[n]) + 1)
    <3>1. Len(log[n]) \in Nat
      BY <1>0
    <3>2. QED
      BY <3>1 DEF LastIndex
  <2>5. CASE UNCHANGED nextIndex
    <3>1. \A m \in Node : role'[m] = Leader =>
             role[m] = Leader /\ log'[m] = log[m] /\ nextIndex'[m] = nextIndex[m]
      BY <2>2, <2>5, Zenon
    <3>2. QED
      BY <3>1, LeadersKept
  <2>6. QED
    BY <1>6, <2>2, <2>3, <2>4, <2>5
<1>10. QED
  BY <1>1, <1>2, <1>3, <1>4, <1>5, <1>7, <1>8, <1>9 DEF RoundStep

\* Inv is inductive.
LEMMA InvStep == Inv /\ [Next]_vars => Inv'
<1> SUFFICES ASSUME Inv, [Next]_vars PROVE Inv'
  OBVIOUS
<1>1. ASSUME NEW n \in Node, NEW p \in Node,
             \/ ElectionTimeout(n) \/ HeartbeatTimeout(n) \/ RoundStep(n, p)
             \/ EndElection(n) \/ EndHeartbeats(n) \/ \E c \in Command : Propose(n, c)
      PROVE  Inv'
  <2>1. TypeOK'
    BY <1>1, ElectionStepType, ReplicationStepType DEF RoundStep, Inv
  <2>2. QED
    BY <1>1, <2>1, UndisturbedStep, NextIndexStep DEF Inv
<1>2. ASSUME NEW n \in Node, NEW m \in Node, Control(n, m)
      PROVE  Inv'
  <2>1. TypeOK' /\ UNCHANGED <<persistVars, leaderVars, roleVars, op>>
    BY <1>2, ControlStepType DEF Inv
  <2>2. QED
    BY <2>1 DEF Inv, RoundUndisturbed, NextIndexInRange, LastIndex, persistVars,
       leaderVars, roleVars
<1>3. CASE UNCHANGED vars
  BY <1>3 DEF vars, Inv, TypeOK, RoundUndisturbed, NextIndexInRange, LastIndex,
     persistVars, applyVars, leaderVars, roleVars, clusterVars
<1>4. QED
  BY <1>1, <1>2, <1>3 DEF Next

LEMMA InvInvariant == Spec => []Inv
<1>1. QED
  BY InitInv, InvStep, PTL DEF Spec

\* Every variable keeps the type of the member it stands for.
THEOREM TypeCorrect == Spec => []TypeOK
BY InvInvariant, PTL DEF Inv

\* The next - 1 of SendHeartbeats never wraps around and its reads of the
\* leader's log stay inside it, whatever the peers answer or do not answer.
THEOREM NextIndexSafe == Spec => []NextIndexInRange
BY InvInvariant, PTL DEF Inv

\* A node in the middle of StartElection or SendHeartbeats is still the
\* candidate or leader of the term it started in, also when several threads
\* drive the cluster: the checks after each RPC never fire.
THEOREM RoundsUndisturbed == Spec => []RoundUndisturbed
BY InvInvariant, PTL DEF Inv

-----------------------------------------------------------------------------
(***************************************************************************)
(* The terms in a log.  A node's own term only grows, a leader appends     *)
(* entries of its own term, and what an accepted call leaves behind is a   *)
(* prefix of the follower's log that agrees, at its last index, with the   *)
(* leader's log, followed by the rest of that log.                         *)
(***************************************************************************)

Ordered(l) == \A i, j \in 1..Len(l) : i <= j => l[i].term <= l[j].term
BoundedBy(l, t) == \A i \in 1..Len(l) : l[i].term <= t

LEMMA EntryTerms ==
    ASSUME NEW l \in Seq(Entry)
    PROVE  Len(l) \in Nat /\ \A i \in 1..Len(l) : l[i].term \in Nat
<1>1. ASSUME NEW i \in 1..Len(l) PROVE l[i].term \in Nat
  <2>1. l[i] \in Entry
    BY ElementOfSeq
  <2>2. QED
    BY <2>1 DEF Entry
<1>2. QED
  BY <1>1

\* The node's own log grows by an entry of its own term.
LEMMA AppendOrdered ==
    ASSUME NEW l \in Seq(Entry), NEW t \in Nat, NEW c \in Command,
           Ordered(l), BoundedBy(l, t)
    PROVE  LET new == Append(l, [term |-> t, command |-> c])
           IN  Ordered(new) /\ BoundedBy(new, t)
<1> DEFINE e == [term |-> t, command |-> c]
           new == Append(l, e)
<1>1. e \in Entry /\ e.term = t
  BY DEF Entry
<1> HIDE DEF e
<1>2. /\ Len(l) \in Nat /\ Len(new) = Len(l) + 1 /\ new[Len(l) + 1] = e
      /\ \A i \in 1..Len(l) : new[i] = l[i]
  BY <1>1, AppendProperties
<1>3. \A i \in 1..Len(l) : l[i].term \in Nat
  BY EntryTerms
<1> HIDE DEF new
<1>4. \A i \in 1..Len(new) : (i \in 1..Len(l) /\ new[i] = l[i]) \/ (i = Len(l) + 1 /\ new[i] = e)
  BY <1>2
<1>5. BoundedBy(new, t)
  BY <1>1, <1>4 DEF BoundedBy
<1>6. Ordered(new)
  BY <1>1, <1>2, <1>3, <1>4 DEF Ordered, BoundedBy
<1>7. QED
  BY <1>5, <1>6 DEF new, e

\* AppendEntriesResult and KeptInRange for logs of entries.
LEMMA AppendedLog ==
    ASSUME NEW l \in Seq(Entry), NEW es \in Seq(Entry), NEW prev \in 0..Len(l)
    PROVE  /\ Kept(l, prev, es) \in prev..Len(l)
           /\ \A i \in 1..Len(es) : prev + i <= Kept(l, prev, es)
                 => l[prev + i].term = es[i].term
           /\ AppendEntries(l, prev, es) \in Seq(Entry)
           /\ Len(AppendEntries(l, prev, es)) =
                 IF Kept(l, prev, es) > prev + Len(es) THEN Kept(l, prev, es)
                 ELSE prev + Len(es)
           /\ \A i \in 1..Kept(l, prev, es) : AppendEntries(l, prev, es)[i] = l[i]
           /\ \A i \in (Kept(l, prev, es) + 1)..Len(AppendEntries(l, prev, es)) :
                 AppendEntries(l, prev, es)[i] = es[i - prev]
<1>1. /\ Kept(l, prev, es) \in prev..Len(l)
      /\ \A i \in 1..Len(es) : prev + i <= Kept(l, prev, es)
            => l[prev + i].term = es[i].term
  BY KeptInRange
<1>2. LET keep == Kept(l, prev, es)
          new  == AppendEntries(l, prev, es)
      IN  /\ new \in Seq(Entry)
          /\ Len(new) = IF keep > prev + Len(es) THEN keep ELSE prev + Len(es)
          /\ \A i \in 1..keep : new[i] = l[i]
          /\ \A i \in (keep + 1)..Len(new) : new[i] = es[i - prev]
  BY AppendEntriesResult
<1>3. QED
  BY <1>1, <1>2

\* An accepted AppendEntries leaves an ordered log: leader's log L, follower's
\* log l, agreeing in term at prev, the entries being L from prev + 1 on.
LEMMA AppendEntriesOrdered ==
    ASSUME NEW l \in Seq(Entry), NEW L \in Seq(Entry), NEW es \in Seq(Entry),
           NEW prev \in 0..Len(l), NEW t \in Nat, NEW u \in Nat, u <= t,
           prev <= Len(L), Len(es) = Len(L) - prev,
           \A i \in 1..Len(es) : es[i] = L[prev + i],
           prev > 0 => l[prev].term = L[prev].term,
           Ordered(l), BoundedBy(l, u), Ordered(L), BoundedBy(L, t)
    PROVE  Ordered(AppendEntries(l, prev, es)) /\ BoundedBy(AppendEntries(l, prev, es), t)
<1> DEFINE keep == Kept(l, prev, es)
           new  == AppendEntries(l, prev, es)
<1>1. /\ keep \in prev..Len(l)
      /\ \A i \in 1..Len(es) : prev + i <= keep => l[prev + i].term = es[i].term
  BY AppendedLog
<1>2. /\ new \in Seq(Entry)
      /\ Len(new) = IF keep > prev + Len(es) THEN keep ELSE prev + Len(es)
      /\ \A i \in 1..keep : new[i] = l[i]
      /\ \A i \in (keep + 1)..Len(new) : new[i] = es[i - prev]
  BY AppendedLog
<1> HIDE DEF keep, new
<1>3. /\ Len(l) \in Nat /\ Len(L) \in Nat /\ Len(es) \in Nat
      /\ \A i \in 1..Len(l) : l[i].term \in Nat
      /\ \A i \in 1..Len(L) : L[i].term \in Nat
  BY EntryTerms
<1>4. ASSUME NEW i \in (keep + 1)..Len(new)
      PROVE  i \in 1..Len(L) /\ new[i] = L[i] /\ keep <= Len(L)
  <2>1. i - prev \in 1..Len(es) /\ prev + (i - prev) = i /\ i \in 1..Len(L) /\ keep <= Len(L)
    BY <1>1, <1>2, <1>3
  <2>2. new[i] = es[i - prev]
    BY <1>2
  <2>3. es[i - prev] = L[prev + (i - prev)]
    BY <2>1
  <2>4. QED
    BY <2>1, <2>2, <2>3
<1>5. ASSUME keep > 0, keep <= Len(L) PROVE l[keep].term = L[keep].term
  <2>1. CASE keep = prev
    BY <1>5, <2>1
  <2>2. CASE keep > prev
    <3>1. keep - prev \in 1..Len(es) /\ prev + (keep - prev) = keep
      BY <1>1, <1>3, <1>5, <2>2
    <3> DEFINE k == keep - prev
    <3> HIDE DEF k
    <3>2. k \in 1..Len(es) /\ prev + k = keep
      BY <3>1 DEF k
    <3>3. l[prev + k].term = es[k].term /\ es[k] = L[prev + k]
      BY <1>1, <1>3, <3>2
    <3>4. QED
      BY <3>2, <3>3
  <2>3. QED
    BY <1>1, <2>1, <2>2
<1>6. BoundedBy(new, t)
  <2>1. ASSUME NEW i \in 1..Len(new) PROVE new[i].term <= t
    <3>1. CASE i <= keep
      <4>1. new[i] = l[i] /\ i \in 1..Len(l)
        BY <1>1, <1>2, <1>3, <3>1
      <4>2. l[i].term <= u /\ l[i].term \in Nat
        BY <1>3, <4>1 DEF BoundedBy
      <4>3. QED
        BY <4>1, <4>2
    <3>2. CASE ~(i <= keep)
      <4>1. i \in (keep + 1)..Len(new)
        BY <1>1, <1>3, <3>2
      <4>2. QED
        BY <1>4, <4>1 DEF BoundedBy
    <3>3. QED
      BY <3>1, <3>2
  <2>2. QED
    BY <2>1 DEF BoundedBy
<1>7. Ordered(new)
  <2>1. ASSUME NEW i \in 1..Len(new), NEW j \in 1..Len(new), i <= j
        PROVE  new[i].term <= new[j].term
    <3>0. keep \in Nat
      BY <1>1, <1>3
    <3>1. CASE j <= keep
      <4>1. new[i] = l[i] /\ new[j] = l[j] /\ i \in 1..Len(l) /\ j \in 1..Len(l)
        BY <1>1, <1>2, <1>3, <2>1, <3>0, <3>1
      <4>2. QED
        BY <2>1, <4>1 DEF Ordered
    <3>2. CASE i > keep
      <4>1. i \in (keep + 1)..Len(new) /\ j \in (keep + 1)..Len(new)
        BY <2>1, <3>0, <3>2
      <4>2. new[i] = L[i] /\ new[j] = L[j] /\ i \in 1..Len(L) /\ j \in 1..Len(L)
        BY <1>4, <4>1
      <4>3. QED
        BY <2>1, <4>2 DEF Ordered
    <3>3. CASE i <= keep /\ j > keep
      <4>1. j \in (keep + 1)..Len(new) /\ keep > 0
        BY <3>0, <3>3
      <4>2. new[j] = L[j] /\ j \in 1..Len(L) /\ keep \in 1..Len(L)
        BY <1>4, <3>0, <4>1
      <4>3. new[i] = l[i] /\ i \in 1..Len(l) /\ keep \in 1..Len(l)
        BY <1>1, <1>2, <1>3, <3>3, <4>1
      <4>4. l[keep].term = L[keep].term
        BY <1>5, <4>1, <4>2
      <4>5. l[i].term <= l[keep].term /\ L[keep].term <= L[j].term
        BY <3>0, <3>3, <4>2, <4>3 DEF Ordered
      <4>6. l[i].term \in Nat /\ l[keep].term \in Nat /\ L[j].term \in Nat
        BY <1>3, <4>2, <4>3
      <4>7. l[i].term <= L[j].term
        BY <4>4, <4>5, <4>6, SMTT(30)
      <4>8. QED
        BY <4>2, <4>3, <4>7
    <3>4. QED
      BY <3>0, <3>1, <3>2, <3>3
  <2>2. QED
    BY <2>1 DEF Ordered
<1>8. QED
  BY <1>6, <1>7 DEF new

LogsOrdered == \A n \in Node : Ordered(log[n]) /\ BoundedBy(log[n], currentTerm[n])

LEMMA LogsOrderedIs == LogsOrdered <=> LogTermsOrdered
BY DEF LogsOrdered, Ordered, BoundedBy, LogTermsOrdered

\* No node ever goes back to an older term.
LEMMA TermsGrow ==
    ASSUME Inv, [Next]_vars
    PROVE  \A m \in Node : /\ currentTerm[m] \in Nat /\ currentTerm'[m] \in Nat
                           /\ currentTerm[m] <= currentTerm'[m]
<1> USE DEF persistVars
<1>0. /\ currentTerm \in [Node -> Nat] /\ op \in [Node -> RoundRecord]
      /\ \A m \in Node : op[m].term \in Nat
  <2>1. op \in [Node -> RoundRecord] /\ currentTerm \in [Node -> Nat]
    BY DEF Inv, TypeOK
  <2>2. QED
    BY <2>1 DEF RoundRecord
<1>1. ASSUME NEW n \in Node, NEW p \in Node, RoundStep(n, p)
      PROVE  \A m \in Node : currentTerm'[m] \in Nat /\ currentTerm[m] <= currentTerm'[m]
  <2>1. CASE RequestVoteLost(n, p) \/ AppendEntriesLost(n, p)
    BY <1>0, <2>1 DEF RequestVoteLost, AppendEntriesLost
  <2>2. CASE RequestVoteStale(n, p) \/ AppendEntriesStale(n, p)
    <3>1. /\ currentTerm' = [currentTerm EXCEPT ![n] = currentTerm[p]]
          /\ op[n].term < currentTerm[p] /\ op[n].kind \in {"vote", "append"}
      BY <2>2 DEF RequestVoteStale, AppendEntriesStale, BecomeFollower, Delivers
    <3>2. op[n].term = currentTerm[n]
      BY <3>1 DEF Inv, RoundUndisturbed
    <3>3. QED
      BY <1>0, <3>1, <3>2
  <2>3. CASE \/ RequestVoteDenied(n, p) \/ RequestVoteGranted(n, p) \/ BecomeLeader(n, p)
             \/ AppendEntriesConflict(n, p) \/ AppendEntriesAccepted(n, p)
    <3>1. /\ currentTerm' = [currentTerm EXCEPT ![p] = op[n].term]
          /\ op[n].term >= currentTerm[p]
      BY <2>3 DEF RequestVoteDenied, RequestVoteGranted, BecomeLeader, TakeTermAndVote,
         AppendEntriesConflict, AppendEntriesAccepted, Acknowledge
    <3>2. QED
      BY <1>0, <3>1
  <2>4. QED
    BY <1>1, <2>1, <2>2, <2>3 DEF RoundStep
<1>2. ASSUME NEW n \in Node, ElectionTimeout(n)
      PROVE  \A m \in Node : currentTerm'[m] \in Nat /\ currentTerm[m] <= currentTerm'[m]
  BY <1>0, <1>2 DEF ElectionTimeout, NextTerm
<1>3. ASSUME NEW n \in Node,
             \/ HeartbeatTimeout(n) \/ EndElection(n) \/ EndHeartbeats(n)
             \/ \E c \in Command : Propose(n, c)
             \/ \E m \in Node : Control(n, m)
      PROVE  UNCHANGED currentTerm
  BY <1>3 DEF HeartbeatTimeout, EndElection, EndHeartbeats, Propose, Control, CrashNode,
     RestartNode, Disconnect, Reconnect, IsolateNode, RecoverNode, ChangeCut
<1>4. QED
  BY <1>0, <1>1, <1>2, <1>3 DEF Next, vars

\* A step that writes no log keeps the logs ordered, terms only growing.
LEMMA LogsOrderedKept ==
    ASSUME Inv, LogsOrdered, [Next]_vars, UNCHANGED log
    PROVE  LogsOrdered'
<1>1. ASSUME NEW m \in Node
      PROVE  Ordered(log'[m]) /\ BoundedBy(log'[m], currentTerm'[m])
  <2>1. log[m] \in Seq(Entry) /\ log'[m] = log[m]
    BY DEF Inv, TypeOK
  <2>2. /\ currentTerm[m] \in Nat /\ currentTerm'[m] \in Nat
        /\ currentTerm[m] <= currentTerm'[m]
    BY TermsGrow
  <2>3. \A i \in 1..Len(log[m]) : log[m][i].term \in Nat
    BY <2>1, EntryTerms
  <2>4. BoundedBy(log[m], currentTerm'[m])
    BY <2>2, <2>3 DEF LogsOrdered, BoundedBy
  <2>5. QED
    BY <2>1, <2>4 DEF LogsOrdered
<1>2. QED
  BY <1>1 DEF LogsOrdered, Ordered, BoundedBy

LEMMA LogsOrderedStep == Inv /\ LogsOrdered /\ [Next]_vars => LogsOrdered'
<1> SUFFICES ASSUME Inv, LogsOrdered, [Next]_vars PROVE LogsOrdered'
  OBVIOUS
<1> USE DEF persistVars
<1>0. /\ log \in [Node -> Seq(Entry)] /\ currentTerm \in [Node -> Nat]
      /\ op \in [Node -> RoundRecord]
  BY DEF Inv, TypeOK
<1>1. ASSUME NEW n \in Node, NEW c \in Command, Propose(n, c)
      PROVE  LogsOrdered'
  <2> DEFINE new == Append(log[n], [term |-> currentTerm[n], command |-> c])
  <2>1. Ordered(new) /\ BoundedBy(new, currentTerm[n])
    BY <1>0, AppendOrdered DEF LogsOrdered
  <2>2. log' = [log EXCEPT ![n] = new] /\ UNCHANGED currentTerm
    BY <1>1 DEF Propose
  <2> HIDE DEF new
  <2>3. \A m \in Node : Ordered(log'[m]) /\ BoundedBy(log'[m], currentTerm'[m])
    BY <1>0, <2>1, <2>2 DEF LogsOrdered
  <2>4. QED
    BY <2>3 DEF LogsOrdered, Ordered, BoundedBy
<1>2. ASSUME NEW n \in Node, NEW p \in Node, AppendEntriesAccepted(n, p)
      PROVE  LogsOrdered'
  <2> DEFINE new == AppendEntries(log[p], PrevIndex(n, p), EntriesTo(n, p))
  <2>1. p \in Peers(n) /\ op[n].kind = "append" /\ Consistent(n, p)
    BY <1>2, DeliversFacts DEF AppendEntriesAccepted, Inv
  <2>2. /\ log' = [log EXCEPT ![p] = new]
        /\ currentTerm' = [currentTerm EXCEPT ![p] = op[n].term]
        /\ op[n].term >= currentTerm[p]
    BY <1>2 DEF AppendEntriesAccepted, Acknowledge
  <2>3. /\ PrevIndex(n, p) \in 0..Len(log[p]) /\ PrevIndex(n, p) <= Len(log[n])
        /\ EntriesTo(n, p) \in Seq(Entry)
        /\ Len(EntriesTo(n, p)) = Len(log[n]) - PrevIndex(n, p)
        /\ \A i \in 1..Len(EntriesTo(n, p)) :
              EntriesTo(n, p)[i] = log[n][PrevIndex(n, p) + i]
        /\ currentTerm[n] = op[n].term
    BY <2>1, AppendArguments, ConsistentPrev
  <2>4. PrevIndex(n, p) > 0 => log[p][PrevIndex(n, p)].term = log[n][PrevIndex(n, p)].term
    BY <2>1, <2>3 DEF Consistent, TermAt, LastIndex
  <2>5. /\ log[p] \in Seq(Entry) /\ log[n] \in Seq(Entry)
        /\ currentTerm[n] \in Nat /\ currentTerm[p] \in Nat
        /\ Ordered(log[p]) /\ BoundedBy(log[p], currentTerm[p])
        /\ Ordered(log[n]) /\ BoundedBy(log[n], currentTerm[n])
        /\ currentTerm[p] <= currentTerm[n]
    BY <1>0, <2>2, <2>3 DEF LogsOrdered
  <2>6. Ordered(new) /\ BoundedBy(new, currentTerm[n])
    BY <2>3, <2>4, <2>5, AppendEntriesOrdered
  <2> HIDE DEF new
  <2>7. \A m \in Node : Ordered(log'[m]) /\ BoundedBy(log'[m], currentTerm'[m])
    BY <1>0, <2>2, <2>3, <2>6 DEF LogsOrdered
  <2>8. QED
    BY <2>7 DEF LogsOrdered, Ordered, BoundedBy
<1>3. ASSUME NEW n \in Node, NEW p \in Node, RoundStep(n, p)
      PROVE  UNCHANGED log \/ AppendEntriesAccepted(n, p)
  BY <1>3 DEF RoundStep, RequestVoteLost, RequestVoteStale, RequestVoteDenied,
     RequestVoteGranted, BecomeLeader, AppendEntriesLost, AppendEntriesStale,
     AppendEntriesConflict
<1>4. ASSUME NEW n \in Node,
             \/ ElectionTimeout(n) \/ HeartbeatTimeout(n) \/ EndElection(n)
             \/ EndHeartbeats(n) \/ \E m \in Node : Control(n, m)
      PROVE  UNCHANGED log
  BY <1>4 DEF ElectionTimeout, HeartbeatTimeout, EndElection, EndHeartbeats, Control,
     CrashNode, RestartNode, Disconnect, Reconnect, IsolateNode, RecoverNode, ChangeCut
<1>5. QED
  BY <1>1, <1>2, <1>3, <1>4, LogsOrderedKept DEF Next, vars

\* In every log the terms never decrease, and none is newer than the term of
\* the node that holds it: the shape that UpToDate, the fast backup and the
\* election restriction rely on, under every fault and every interleaving.
THEOREM LogTermsAlwaysOrdered == Spec => []LogTermsOrdered
<1>1. Init => LogsOrdered
  BY DEF Init, LogsOrdered, Ordered, BoundedBy
<1>2. Inv /\ LogsOrdered /\ [Next]_vars => LogsOrdered'
  BY LogsOrderedStep
<1>3. Spec => []LogsOrdered
  BY <1>1, <1>2, InvInvariant, PTL DEF Spec
<1>4. QED
  BY <1>3, LogsOrderedIs, PTL

-----------------------------------------------------------------------------
(***************************************************************************)
(* One leader per term, for one driver thread and faults that are never    *)
(* healed.  Votes alone do not give it, because an accepted AppendEntries  *)
(* makes a voter forget its vote; what gives it is that every round        *)
(* reaches every connected node before the next one starts.  The connected *)
(* nodes therefore stand in one term between rounds, and the term a        *)
(* candidate enters is newer than any term that has had a leader.          *)
(***************************************************************************)

Isolated  == {n \in Node : LinksOf(n) \subseteq cut}
Connected == Node \ (crashed \cup Isolated)

\* Every cut link belongs to an isolated node, and one node at most is in a
\* round, which it entered while it was up.
CrashStop ==
    /\ \A n, m \in Node : {n, m} \in cut /\ n # m => n \in Isolated \/ m \in Isolated
    /\ \A n, m \in Node : op[n] # Idle /\ op[m] # Idle => n = m
    /\ \A n \in Node : op[n] # Idle => n \notin crashed

\* Nobody connected is in a round.
Between == \A n \in Connected : op[n] = Idle

\* Between rounds all connected nodes share a term; during one, those that
\* were called have the caller's and the others have none that is newer.
OneTerm ==
    /\ Between => \A m, n \in Connected : currentTerm[m] = currentTerm[n]
    /\ \A n \in Connected : op[n] # Idle =>
          \A m \in Connected : /\ currentTerm[m] <= op[n].term
                               /\ m \notin op[n].todo => currentTerm[m] = op[n].term

\* No term that had a leader is newer than the connected nodes' term, and
\* none is as new as the term of an election that is going on.
Fresh ==
    \A e \in elected, n \in Connected :
        /\ Between => e.term <= currentTerm[n]
        /\ op[n].kind = "append" => e.term <= op[n].term
        /\ op[n].kind = "vote"   => e.term < op[n].term

\* A leader of the current term is in the history.
LeadersElected ==
    \A n \in Node : role[n] = Leader => [term |-> currentTerm[n], node |-> n] \in elected

LockStep == CrashStop /\ OneTerm /\ Fresh /\ LeadersElected /\ ElectionSafety

\* A call is delivered only between connected nodes, and the callee is idle.
LEMMA CallIsConnected ==
    ASSUME Inv, CrashStop, NEW n \in Node, NEW p \in Node, NEW kind \in {"vote", "append"},
           Delivers(n, p, kind)
    PROVE  /\ n \in Connected /\ p \in Connected /\ n # p
           /\ \A m \in Node \ {n} : op[m] = Idle
           /\ op[n] # Idle /\ p \in op[n].todo
<1>1. n # p /\ op[n] # Idle /\ p \in op[n].todo /\ op[p] = Idle
  BY DeliversFacts DEF Inv, Delivers, Idle, IsNextPeer
<1>2. p \notin crashed /\ {n, p} \notin cut
  BY DEF Delivers, Reachable
<1>3. {n, p} \in LinksOf(n) /\ {n, p} \in LinksOf(p)
  <2>1. {n, p} = {p, n}
    OBVIOUS
  <2>2. QED
    BY <1>1, <2>1 DEF LinksOf, Peers
<1>4. n \notin Isolated /\ p \notin Isolated
  BY <1>2, <1>3 DEF Isolated
<1>5. QED
  BY <1>1, <1>2, <1>4 DEF CrashStop, Connected

\* A call between connected nodes is never lost.
LEMMA LostIsOutside ==
    ASSUME Inv, CrashStop, NEW n \in Connected, NEW p \in Node, p # n, ~Reachable(n, p)
    PROVE  p \notin Connected
BY DEF Reachable, CrashStop, Connected

\* A step of node n's own round, or one that starts or ends it.
LEMMA CrashStopKept ==
    ASSUME CrashStop, UNCHANGED <<crashed, cut>>, NEW n \in Node, n \notin crashed,
           \A m \in Node \ {n} : op'[m] = Idle
    PROVE  CrashStop' /\ Connected' = Connected
BY DEF CrashStop, Isolated, Connected

\* Types, spelled out for the steps below.
LEMMA LockStepTypes ==
    ASSUME Inv
    PROVE  /\ op \in [Node -> RoundRecord] /\ currentTerm \in [Node -> Nat]
           /\ role \in [Node -> {Follower, Candidate, Leader}]
           /\ \A m \in Node : op[m].term \in Nat /\ currentTerm[m] \in Nat
           /\ \A e \in elected : e.term \in Nat /\ e.node \in Node
           /\ Connected \subseteq Node
<1>1. /\ op \in [Node -> RoundRecord] /\ currentTerm \in [Node -> Nat]
      /\ role \in [Node -> {Follower, Candidate, Leader}]
      /\ elected \subseteq [term : Nat, node : Node]
  BY DEF Inv, TypeOK
<1>2. \A m \in Node : op[m].term \in Nat /\ currentTerm[m] \in Nat
  BY <1>1 DEF RoundRecord
<1>3. \A e \in elected : e.term \in Nat /\ e.node \in Node
  BY <1>1
<1>4. QED
  BY <1>1, <1>2, <1>3 DEF Connected

\* What a node outside the connected ones does on its own changes nothing.
LEMMA OutsideStep ==
    ASSUME Inv, LockStep, NEW n \in Node, n \notin Connected, n \notin crashed,
           \A m \in Node \ {n} : op[m] = Idle /\ op'[m] = Idle,
           \A m \in Node \ {n} : currentTerm'[m] = currentTerm[m],
           UNCHANGED <<crashed, cut, elected>>
    PROVE  CrashStop' /\ OneTerm' /\ Fresh'
<1>1. CrashStop' /\ Connected' = Connected
  BY CrashStopKept DEF LockStep
<1>2. Between /\ Between'
  BY <1>1 DEF Between, Connected
<1>3. \A m \in Connected : op'[m] = Idle /\ currentTerm'[m] = currentTerm[m]
  BY DEF Connected
<1>4. OneTerm'
  BY <1>1, <1>2, <1>3 DEF LockStep, OneTerm
<1>5. Fresh'
  BY <1>1, <1>2, <1>3 DEF LockStep, Fresh, Idle
<1>6. QED
  BY <1>1, <1>4, <1>5

\* Nobody becomes leader and no leader changes its term.
LEMMA ElectedKept ==
    ASSUME Inv, LockStep, UNCHANGED elected,
           \A m \in Node : role'[m] = Leader =>
              role[m] = Leader /\ currentTerm'[m] = currentTerm[m]
    PROVE  LeadersElected' /\ ElectionSafety'
BY DEF LockStep, LeadersElected, ElectionSafety

\* StartElection: the candidate's new term is newer than the connected term.
LEMMA ElectionTimeoutLockStep ==
    ASSUME Inv, LockStep, Concurrent = FALSE, NEW n \in Node, ElectionTimeout(n)
    PROVE  LockStep'
<1>1. /\ \A m \in Node : op[m] = Idle
      /\ n \notin crashed /\ UNCHANGED <<crashed, cut, elected>>
      /\ role' = [role EXCEPT ![n] = Candidate]
      /\ currentTerm' = [currentTerm EXCEPT ![n] = currentTerm[n] + 1]
      /\ op' = [op EXCEPT ![n] = Round(n, "vote", currentTerm[n] + 1, {n})]
  BY DEF ElectionTimeout, MayEnter, NextTerm, clusterVars
<1>2. /\ op'[n].kind = "vote" /\ op'[n].term = currentTerm[n] + 1
      /\ op'[n].todo = Node \ {n} /\ op'[n] # Idle
      /\ \A m \in Node \ {n} : op'[m] = Idle /\ currentTerm'[m] = currentTerm[m]
      /\ currentTerm'[n] = currentTerm[n] + 1
  BY <1>1, LockStepTypes DEF Round, Idle
<1>3. LeadersElected' /\ ElectionSafety'
  <2>1. \A m \in Node : role'[m] = Leader =>
           role[m] = Leader /\ currentTerm'[m] = currentTerm[m]
    BY <1>1, <1>2, LockStepTypes DEF Leader, Candidate
  <2>2. QED
    BY <1>1, <2>1, ElectedKept
<1>4. CASE n \notin Connected
  BY <1>1, <1>2, <1>3, <1>4, OutsideStep DEF LockStep
<1>5. CASE n \in Connected
  <2>1. CrashStop' /\ Connected' = Connected
    BY <1>1, <1>2, CrashStopKept DEF LockStep
  <2>2. Between /\ ~Between'
    BY <1>1, <1>2, <1>5, <2>1, LockStepTypes DEF Between
  <2>3. \A m \in Connected : currentTerm[m] = currentTerm[n]
    BY <1>5, <2>2 DEF LockStep, OneTerm
  <2>4. OneTerm'
    BY <1>2, <1>5, <2>1, <2>2, <2>3, LockStepTypes DEF OneTerm
  <2>5. \A e \in elected : e.term <= currentTerm[n]
    BY <1>5, <2>2 DEF LockStep, Fresh
  <2>6. Fresh'
    BY <1>1, <1>2, <2>1, <2>2, <2>5, LockStepTypes DEF Fresh, Idle
  <2>7. QED
    BY <1>3, <2>1, <2>4, <2>6 DEF LockStep
<1>6. QED
  BY <1>4, <1>5

\* A heartbeat or a proposal starts a round in the connected term.
LEMMA StartAppendLockStep ==
    ASSUME Inv, LockStep, Concurrent = FALSE, NEW n \in Node,
           HeartbeatTimeout(n) \/ \E c \in Command : Propose(n, c)
    PROVE  LockStep'
<1>1. /\ \A m \in Node : op[m] = Idle
      /\ n \notin crashed /\ UNCHANGED <<crashed, cut, elected, role, currentTerm>>
      /\ op' = [op EXCEPT ![n] = Round(n, "append", currentTerm[n], {})]
  BY DEF HeartbeatTimeout, Propose, MayEnter, clusterVars, roleVars, persistVars
<1>2. /\ op'[n].kind = "append" /\ op'[n].term = currentTerm[n] /\ op'[n] # Idle
      /\ \A m \in Node \ {n} : op'[m] = Idle
  BY <1>1, LockStepTypes DEF Round, Idle
<1>3. LeadersElected' /\ ElectionSafety'
  BY <1>1, ElectedKept
<1>4. CASE n \notin Connected
  BY <1>1, <1>2, <1>3, <1>4, OutsideStep DEF LockStep
<1>5. CASE n \in Connected
  <2>1. CrashStop' /\ Connected' = Connected
    BY <1>1, <1>2, CrashStopKept DEF LockStep
  <2>2. Between /\ ~Between'
    BY <1>1, <1>2, <1>5, <2>1, LockStepTypes DEF Between
  <2>3. \A m \in Connected : currentTerm[m] = currentTerm[n]
    BY <1>5, <2>2 DEF LockStep, OneTerm
  <2>4. OneTerm'
    BY <1>1, <1>2, <1>5, <2>1, <2>2, <2>3, LockStepTypes DEF OneTerm
  <2>5. \A e \in elected : e.term <= currentTerm[n]
    BY <1>5, <2>2 DEF LockStep, Fresh
  <2>6. Fresh'
    BY <1>1, <1>2, <2>1, <2>2, <2>5, LockStepTypes DEF Fresh, Idle
  <2>7. QED
    BY <1>3, <2>1, <2>4, <2>6 DEF LockStep
<1>6. QED
  BY <1>4, <1>5

\* A lost call: the peer is outside, so it need not have the caller's term.
LEMMA LostLockStep ==
    ASSUME Inv, LockStep, NEW n \in Node, NEW p \in Node,
           RequestVoteLost(n, p) \/ AppendEntriesLost(n, p)
    PROVE  LockStep'
<1>1. /\ op[n].kind \in {"vote", "append"} /\ ~Reachable(n, p)
      /\ UNCHANGED <<crashed, cut, elected, role, currentTerm>>
      /\ op' = [op EXCEPT ![n].todo = @ \ {p}]
  BY DEF RequestVoteLost, AppendEntriesLost, clusterVars, roleVars, persistVars
<1>2. /\ \A m \in Node : op'[m].kind = op[m].kind /\ op'[m].term = op[m].term
      /\ \A m \in Node \ {n} : op'[m] = op[m]
      /\ op'[n].todo = op[n].todo \ {p}
  BY <1>1, CallFields DEF Inv
<1>3. /\ op[n] # Idle /\ op'[n] # Idle /\ n \notin crashed
      /\ \A m \in Node \ {n} : op[m] = Idle /\ op'[m] = Idle
  BY <1>1, <1>2 DEF LockStep, CrashStop, Idle
<1>4. currentTerm[n] = op[n].term
  BY <1>1 DEF Inv, RoundUndisturbed
<1>5. LeadersElected' /\ ElectionSafety'
  BY <1>1, ElectedKept
<1>6. CASE n \notin Connected
  BY <1>1, <1>3, <1>5, <1>6, OutsideStep DEF LockStep
<1>7. CASE n \in Connected
  <2>1. CrashStop' /\ Connected' = Connected
    BY <1>1, <1>3, CrashStopKept DEF LockStep
  <2>2. ~Between /\ ~Between'
    BY <1>3, <1>7, <2>1 DEF Between
  <2>3. p # n => p \notin Connected
    BY <1>1, <1>7, LostIsOutside DEF LockStep
  <2>4. \A m \in Connected : /\ currentTerm[m] <= op[n].term
                             /\ m \notin op[n].todo => currentTerm[m] = op[n].term
    BY <1>3, <1>7 DEF LockStep, OneTerm
  <2>5. OneTerm'
    BY <1>1, <1>2, <1>3, <1>4, <2>1, <2>2, <2>3, <2>4, LockStepTypes DEF OneTerm
  <2>6. Fresh'
    BY <1>1, <1>2, <2>1, <2>2, LockStepTypes DEF LockStep, Fresh
  <2>7. QED
    BY <1>5, <2>1, <2>5, <2>6 DEF LockStep
<1>8. QED
  BY <1>6, <1>7

\* The end of a round: every connected node was called.
LEMMA EndLockStep ==
    ASSUME Inv, LockStep, NEW n \in Node, EndElection(n) \/ EndHeartbeats(n)
    PROVE  LockStep'
<1>1. /\ op[n].kind \in {"vote", "append"} /\ op[n].todo = {}
      /\ UNCHANGED <<crashed, cut, elected, role, currentTerm>>
      /\ op' = [op EXCEPT ![n] = Idle]
  BY DEF EndElection, EndHeartbeats, clusterVars, roleVars, persistVars
<1>2. /\ op[n] # Idle /\ n \notin crashed
      /\ \A m \in Node \ {n} : op[m] = Idle
      /\ \A m \in Node : op'[m] = Idle
  <2>1. op[n] # Idle
    BY <1>1 DEF Idle
  <2>2. n \notin crashed /\ \A m \in Node \ {n} : op[m] = Idle
    BY <2>1 DEF LockStep, CrashStop
  <2>3. QED
    BY <1>1, <2>1, <2>2, LockStepTypes
<1>3. LeadersElected' /\ ElectionSafety'
  BY <1>1, ElectedKept
<1>4. CASE n \notin Connected
  BY <1>1, <1>2, <1>3, <1>4, OutsideStep DEF LockStep
<1>5. CASE n \in Connected
  <2>1. CrashStop' /\ Connected' = Connected
    BY <1>1, <1>2, CrashStopKept DEF LockStep
  <2>2. \A m \in Connected : currentTerm[m] = op[n].term
    BY <1>1, <1>2, <1>5 DEF LockStep, OneTerm
  <2>3. OneTerm'
    BY <1>1, <1>2, <2>1, <2>2, LockStepTypes DEF OneTerm
  <2>4. \A e \in elected : e.term <= op[n].term
    BY <1>1, <1>5, LockStepTypes DEF LockStep, Fresh
  <2>5. Fresh'
    BY <1>1, <1>2, <2>1, <2>2, <2>4, LockStepTypes DEF Fresh, Idle
  <2>6. QED
    BY <1>3, <2>1, <2>3, <2>5 DEF LockStep
<1>6. QED
  BY <1>4, <1>5

\* A callee never has a newer term than the caller: no round is refused.
LEMMA NeverStale ==
    ASSUME Inv, LockStep, NEW n \in Node, NEW p \in Node
    PROVE  ~RequestVoteStale(n, p) /\ ~AppendEntriesStale(n, p)
<1>1. ASSUME NEW kind \in {"vote", "append"}, Delivers(n, p, kind), op[n].term < currentTerm[p]
      PROVE  FALSE
  <2>1. n \in Connected /\ p \in Connected /\ op[n] # Idle
    BY <1>1, CallIsConnected DEF LockStep
  <2>2. currentTerm[p] <= op[n].term
    BY <2>1 DEF LockStep, OneTerm
  <2>3. QED
    BY <1>1, <2>2, LockStepTypes
<1>2. QED
  BY <1>1 DEF RequestVoteStale, AppendEntriesStale

\* A reply that leaves the caller in its round: the callee takes its term.
LEMMA ReplyLockStep ==
    ASSUME Inv, LockStep, NEW n \in Node, NEW p \in Node,
           \/ RequestVoteDenied(n, p) \/ RequestVoteGranted(n, p)
           \/ AppendEntriesConflict(n, p) \/ AppendEntriesAccepted(n, p)
    PROVE  LockStep'
<1>1. /\ Delivers(n, p, "vote") \/ Delivers(n, p, "append")
      /\ op[n].term >= currentTerm[p]
      /\ UNCHANGED <<crashed, cut, elected>>
      /\ role' = [role EXCEPT ![p] = RoleSeenBy(n, p)]
            \/ role' = [role EXCEPT ![p] = Follower]
      /\ currentTerm' = [currentTerm EXCEPT ![p] = op[n].term]
      /\ \/ op' = [op EXCEPT ![n].todo = @ \ {p}]
         \/ op' = [op EXCEPT ![n].todo = @ \ {p}, ![n].votes = @ \cup {p}]
  BY DEF RequestVoteDenied, RequestVoteGranted, AppendEntriesConflict,
     AppendEntriesAccepted, Acknowledge, TakeTermAndVote, clusterVars
<1>2. /\ n \in Connected /\ p \in Connected /\ n # p
      /\ \A m \in Node \ {n} : op[m] = Idle
      /\ op[n] # Idle /\ op[n].kind \in {"vote", "append"}
  BY <1>1, CallIsConnected DEF LockStep, Delivers
<1>3. /\ \A m \in Node : op'[m].kind = op[m].kind /\ op'[m].term = op[m].term
      /\ \A m \in Node \ {n} : op'[m] = Idle
      /\ op'[n].todo = op[n].todo \ {p} /\ op'[n] # Idle
  BY <1>1, <1>2, CallFields DEF Inv, Idle
<1>4. /\ \A m \in Node \ {p} : currentTerm'[m] = currentTerm[m] /\ role'[m] = role[m]
      /\ currentTerm'[p] = op[n].term
  BY <1>1, LockStepTypes
<1>5. LeadersElected' /\ ElectionSafety'
  <2>1. role'[p] = Leader => role[p] = Leader /\ op[n].term = currentTerm[p]
    <3>1. role'[p] = RoleSeenBy(n, p) \/ role'[p] = Follower
      BY <1>1, LockStepTypes
    <3>2. op[n].term \in Nat /\ currentTerm[p] \in Nat
      BY LockStepTypes
    <3>3. QED
      BY <1>1, <3>1, <3>2 DEF RoleSeenBy, Follower, Leader
  <2>2. \A m \in Node : role'[m] = Leader =>
           role[m] = Leader /\ currentTerm'[m] = currentTerm[m]
    BY <1>4, <2>1
  <2>3. QED
    BY <1>1, <2>2, ElectedKept
<1>6. CrashStop' /\ Connected' = Connected
  BY <1>1, <1>2, <1>3, CrashStopKept DEF LockStep, Connected
<1>7. ~Between /\ ~Between'
  BY <1>2, <1>3, <1>6 DEF Between
<1>8. \A m \in Connected : /\ currentTerm[m] <= op[n].term
                           /\ m \notin op[n].todo => currentTerm[m] = op[n].term
  BY <1>2 DEF LockStep, OneTerm
<1>9. OneTerm'
  BY <1>2, <1>3, <1>4, <1>6, <1>7, <1>8, LockStepTypes DEF OneTerm
<1>10. Fresh'
  BY <1>1, <1>3, <1>6, <1>7, LockStepTypes DEF LockStep, Fresh
<1>11. QED
  BY <1>5, <1>6, <1>9, <1>10 DEF LockStep

\* The new leader's term is newer than any that had a leader.
LEMMA BecomeLeaderLockStep ==
    ASSUME Inv, LockStep, NEW n \in Node, NEW p \in Node, BecomeLeader(n, p)
    PROVE  LockStep'
<1>1. /\ Delivers(n, p, "vote") /\ op[n].term >= currentTerm[p]
      /\ UNCHANGED <<crashed, cut>>
      /\ elected' = elected \cup {[term |-> op[n].term, node |-> n]}
      /\ role' = [role EXCEPT ![p] = RoleSeenBy(n, p), ![n] = Leader]
      /\ currentTerm' = [currentTerm EXCEPT ![p] = op[n].term]
      /\ op' = [op EXCEPT ![n] = Round(n, "append", op[n].term, {})]
  BY DEF BecomeLeader, TakeTermAndVote, clusterVars
<1>2. /\ n \in Connected /\ p \in Connected /\ n # p
      /\ \A m \in Node \ {n} : op[m] = Idle
      /\ op[n] # Idle /\ op[n].kind = "vote"
  BY <1>1, CallIsConnected DEF LockStep, Delivers
<1>3. /\ op'[n].kind = "append" /\ op'[n].term = op[n].term /\ op'[n] # Idle
      /\ op'[n].todo = Node \ {n}
      /\ \A m \in Node \ {n} : op'[m] = Idle
  BY <1>1, <1>2, LockStepTypes DEF Round, Idle
<1>4. /\ \A m \in Node \ {p} : currentTerm'[m] = currentTerm[m]
      /\ \A m \in Node \ {n, p} : role'[m] = role[m]
      /\ currentTerm'[p] = op[n].term /\ currentTerm[n] = op[n].term
      /\ role'[p] = RoleSeenBy(n, p)
  BY <1>1, <1>2, LockStepTypes DEF Inv, RoundUndisturbed
<1>5. \A e \in elected : e.term < op[n].term
  BY <1>2 DEF LockStep, Fresh
<1>6. ElectionSafety'
  BY <1>1, <1>5, LockStepTypes DEF LockStep, ElectionSafety
<1>7. LeadersElected'
  <2>1. role'[p] = Leader => role[p] = Leader /\ op[n].term = currentTerm[p]
    BY <1>1, <1>4, LockStepTypes DEF RoleSeenBy, Follower, Leader
  <2>2. QED
    BY <1>1, <1>2, <1>4, <2>1 DEF LockStep, LeadersElected
<1>8. CrashStop' /\ Connected' = Connected
  BY <1>1, <1>2, <1>3, CrashStopKept DEF LockStep, Connected
<1>9. ~Between'
  BY <1>2, <1>3, <1>8 DEF Between
<1>10. \A m \in Connected : currentTerm[m] <= op[n].term
  BY <1>2 DEF LockStep, OneTerm
<1>11. OneTerm'
  BY <1>2, <1>3, <1>4, <1>8, <1>9, <1>10, LockStepTypes DEF OneTerm
<1>12. Fresh'
  BY <1>1, <1>3, <1>5, <1>8, <1>9, LockStepTypes DEF Fresh, Idle
<1>13. QED
  BY <1>6, <1>7, <1>8, <1>11, <1>12 DEF LockStep

\* A crash or an isolation only takes nodes away from the connected ones.
LEMMA ControlLockStep ==
    ASSUME Inv, LockStep, Faults \subseteq {"crash", "isolate"},
           NEW n \in Node, NEW m \in Node, Control(n, m)
    PROVE  LockStep'
<1>1. CrashNode(n) \/ IsolateNode(n)
  BY DEF Control, RestartNode, Disconnect, Reconnect, RecoverNode
<1>2. /\ UNCHANGED <<role, currentTerm, op, elected>>
      /\ \A k \in Node : op[k] = Idle
      /\ crashed \subseteq crashed'
      /\ cut' = cut \/ cut' = cut \cup LinksOf(n)
  BY <1>1 DEF CrashNode, IsolateNode, ChangeCut, Quiet, persistVars, roleVars
<1>3. Isolated \subseteq Isolated' /\ (cut' # cut => n \in Isolated')
  BY <1>2 DEF Isolated, LinksOf, Peers
<1>4. CrashStop'
  <2>1. ASSUME NEW i \in Node, NEW j \in Node, {i, j} \in cut', i # j
        PROVE  i \in Isolated' \/ j \in Isolated'
    <3>1. CASE {i, j} \in cut
      BY <1>3, <2>1, <3>1 DEF LockStep, CrashStop
    <3>2. CASE {i, j} \notin cut
      <4>1. {i, j} \in LinksOf(n) /\ n \in Isolated'
        BY <1>2, <1>3, <2>1, <3>2
      <4>2. n \in {i, j}
        BY <4>1 DEF LinksOf
      <4>3. QED
        BY <4>1, <4>2
    <3>3. QED
      BY <3>1, <3>2
  <2>2. QED
    BY <1>2, <2>1 DEF CrashStop, Isolated
<1>5. Connected' \subseteq Connected
  BY <1>2, <1>3 DEF Connected
<1>6. Between /\ Between'
  BY <1>2, <1>5 DEF Between, Connected
<1>7. OneTerm' /\ Fresh'
  BY <1>2, <1>5, <1>6, LockStepTypes DEF LockStep, OneTerm, Fresh, Idle
<1>8. LeadersElected' /\ ElectionSafety'
  BY <1>2, ElectedKept
<1>9. QED
  BY <1>4, <1>7, <1>8 DEF LockStep

LEMMA LockStepStep ==
    ASSUME Concurrent = FALSE, Faults \subseteq {"crash", "isolate"},
           Inv, LockStep, [Next]_vars
    PROVE  LockStep'
<1>1. CASE UNCHANGED vars
  BY <1>1 DEF vars, persistVars, roleVars, clusterVars, LockStep, CrashStop, OneTerm,
     Fresh, LeadersElected, ElectionSafety, Between, Connected, Isolated
<1>2. ASSUME NEW n \in Node, NEW p \in Node, RoundStep(n, p) PROVE LockStep'
  BY <1>2, LostLockStep, NeverStale, ReplyLockStep, BecomeLeaderLockStep DEF RoundStep
<1>3. ASSUME NEW n \in Node,
             \/ ElectionTimeout(n) \/ HeartbeatTimeout(n)
             \/ \E c \in Command : Propose(n, c)
             \/ EndElection(n) \/ EndHeartbeats(n)
      PROVE  LockStep'
  BY <1>3, ElectionTimeoutLockStep, StartAppendLockStep, EndLockStep
<1>4. QED
  BY <1>1, <1>2, <1>3, ControlLockStep DEF Next

LEMMA LockStepInvariant ==
    ASSUME Concurrent = FALSE, Faults \subseteq {"crash", "isolate"}
    PROVE  Spec => []LockStep
<1>1. Init => LockStep
  BY DEF Init, LockStep, CrashStop, OneTerm, Fresh, LeadersElected, ElectionSafety,
     Follower, Leader, Idle, Connected
<1>2. Inv /\ LockStep /\ [Next]_vars => LockStep'
  BY LockStepStep
<1>3. QED
  BY <1>1, <1>2, InvInvariant, PTL DEF Spec

\* Driven by one thread, with nodes that crash or are isolated for good, the
\* cluster elects at most one leader in a term, over its whole history.
THEOREM ElectionSafeWithoutHealing ==
    ASSUME Concurrent = FALSE, Faults \subseteq {"crash", "isolate"}
    PROVE  Spec => []ElectionSafety
BY LockStepInvariant, PTL DEF LockStep

\* In the same regime no two nodes ever hold the leadership of one term at the
\* same time; RaftTwoLeaders shows that a restart is enough to lose this.
THEOREM OneLeaderWithoutHealing ==
    ASSUME Concurrent = FALSE, Faults \subseteq {"crash", "isolate"}
    PROVE  Spec => []OneLeaderPerTerm
<1>1. LockStep => OneLeaderPerTerm
  BY DEF LockStep, LeadersElected, ElectionSafety, OneLeaderPerTerm
<1>2. QED
  BY <1>1, LockStepInvariant, PTL
=============================================================================
