------------------------- MODULE RaftMatchingProofs -------------------------
(***************************************************************************)
(* What the logs of a cluster have to do with each other, for every set of *)
(* nodes, every fault schedule and overlapping rounds, as long as no term  *)
(* has had two leaders: two logs agree up to any index at which they agree *)
(* in term, and a leader counts a follower only for entries it holds.      *)
(***************************************************************************)
EXTENDS RaftClusterProofs

\* An entry is of a term that had a leader.
EntriesElected ==
    \A n \in Node : \A i \in 1..Len(log[n]) : \E e \in elected : e.term = log[n][i].term

\* A node is not in an older term than one that it led, and campaigns in newer
\* terms only.
ElectedBefore ==
    \A e \in elected :
        /\ e.term <= currentTerm[e.node]
        /\ role[e.node] = Candidate => e.term < currentTerm[e.node]

\* The log l begins as the log L does, up to any index where the terms agree.
Agree(l, L) ==
    \A i \in 1..Len(l) : i <= Len(L) /\ l[i].term = L[i].term => \A j \in 1..i : l[j] = L[j]

LogsAgree == \A m, n \in Node : Agree(log[m], log[n])

\* The leader of a term has every entry of that term.
LeadersHaveTerm ==
    \A n \in Node : role[n] = Leader =>
        \A m \in Node : \A i \in 1..Len(log[m]) :
            log[m][i].term = currentTerm[n]
                => i <= Len(log[n]) /\ log[n][i].term = currentTerm[n]

\* A peer the leader counts for an index has been in the leader's term; while it
\* is, it holds the entries up to there.
PeersHold ==
    \A n \in Node : role[n] = Leader =>
        \A p \in Peers(n) :
            /\ matchIndex[n][p] <= Len(log[n])
            /\ matchIndex[n][p] > 0 => currentTerm[n] <= currentTerm[p]
            /\ currentTerm[p] = currentTerm[n] =>
                  /\ matchIndex[n][p] <= Len(log[p])
                  /\ \A k \in 1..matchIndex[n][p] : log[p][k] = log[n][k]

TermsInv == LeadersElected /\ ElectedBefore
LogsInv  == ElectionSafety => EntriesElected /\ LogsAgree /\ LeadersHaveTerm /\ PeersHold

-----------------------------------------------------------------------------
(***************************************************************************)
(* The steps, by what they do to logs and leaders.                         *)
(***************************************************************************)

\* A step that writes no log and elects nobody.
QuietStep ==
    /\ UNCHANGED <<log, matchIndex, elected>>
    /\ \A m \in Node : role'[m] = Leader => role[m] = Leader /\ currentTerm'[m] = currentTerm[m]
    /\ \A m \in Node : role'[m] = Candidate =>
          \/ role[m] = Candidate
          \/ currentTerm[m] < currentTerm'[m]

LEMMA StepKinds ==
    ASSUME Inv, [Next]_vars
    PROVE  \/ QuietStep
           \/ \E n \in Node, c \in Command : Propose(n, c)
           \/ \E n, p \in Node : BecomeLeader(n, p) \/ AppendEntriesAccepted(n, p)
<1>0. /\ currentTerm \in [Node -> Nat] /\ op \in [Node -> RoundRecord]
      /\ role \in [Node -> {Follower, Candidate, Leader}]
      /\ \A m \in Node : op[m].term \in Nat
  <2>1. op \in [Node -> RoundRecord]
    BY DEF Inv, TypeOK
  <2>2. QED
    BY <2>1 DEF Inv, TypeOK, RoundRecord
<1>1. ASSUME NEW n \in Node, ElectionTimeout(n) PROVE QuietStep
  BY <1>0, <1>1 DEF ElectionTimeout, NextTerm, QuietStep, leaderVars, Candidate, Leader
<1>2. ASSUME NEW n \in Node,
             HeartbeatTimeout(n) \/ EndElection(n) \/ EndHeartbeats(n)
      PROVE  QuietStep
  BY <1>2 DEF HeartbeatTimeout, EndElection, EndHeartbeats, QuietStep, persistVars,
     leaderVars, roleVars
<1>3. ASSUME NEW n \in Node, NEW m \in Node, Control(n, m) PROVE QuietStep
  BY <1>3, ControlStepType DEF Inv, QuietStep, persistVars, leaderVars, roleVars
<1>4. ASSUME NEW n \in Node, NEW p \in Node,
             RequestVoteLost(n, p) \/ AppendEntriesLost(n, p)
      PROVE  QuietStep
  BY <1>4 DEF RequestVoteLost, AppendEntriesLost, QuietStep, persistVars, leaderVars, roleVars
<1>5. ASSUME NEW n \in Node, NEW p \in Node,
             RequestVoteStale(n, p) \/ AppendEntriesStale(n, p)
      PROVE  QuietStep
  BY <1>0, <1>5 DEF RequestVoteStale, AppendEntriesStale, BecomeFollower, QuietStep,
     leaderVars, Follower, Candidate, Leader
<1>6. ASSUME NEW n \in Node, NEW p \in Node,
             RequestVoteDenied(n, p) \/ RequestVoteGranted(n, p)
      PROVE  QuietStep
  <2>1. /\ UNCHANGED <<log, matchIndex, elected>>
        /\ role' = [role EXCEPT ![p] = RoleSeenBy(n, p)]
        /\ currentTerm' = [currentTerm EXCEPT ![p] = op[n].term]
        /\ op[n].term >= currentTerm[p]
    BY <1>6 DEF RequestVoteDenied, RequestVoteGranted, TakeTermAndVote, leaderVars
  <2>2. RoleSeenBy(n, p) \in {Leader, Candidate} =>
           op[n].term = currentTerm[p] /\ RoleSeenBy(n, p) = role[p]
    BY <1>0, <2>1 DEF RoleSeenBy, Follower, Candidate, Leader
  <2>3. QED
    BY <1>0, <2>1, <2>2 DEF QuietStep
<1>7. ASSUME NEW n \in Node, NEW p \in Node, AppendEntriesConflict(n, p)
      PROVE  QuietStep
  BY <1>0, <1>7 DEF AppendEntriesConflict, Acknowledge, QuietStep, Follower, Candidate, Leader
<1>8. CASE UNCHANGED vars
  BY <1>8 DEF vars, persistVars, leaderVars, roleVars, QuietStep
<1>9. QED
  BY <1>1, <1>2, <1>3, <1>4, <1>5, <1>6, <1>7, <1>8 DEF Next, RoundStep

\* BecomeLeader: only n becomes leader, in the term of its round, in which it had
\* led nobody.
LEMMA BecomeLeaderFacts ==
    ASSUME Inv, NEW n \in Node, NEW p \in Node, BecomeLeader(n, p)
    PROVE  /\ UNCHANGED log
           /\ role[n] = Candidate /\ n # p /\ currentTerm'[n] = currentTerm[n]
           /\ elected' = elected \cup {[term |-> currentTerm[n], node |-> n]}
           /\ \A m \in Node \ {n} : role'[m] = Leader =>
                 role[m] = Leader /\ currentTerm'[m] = currentTerm[m]
           /\ \A m \in Node : role'[m] = Candidate =>
                 role[m] = Candidate /\ currentTerm'[m] = currentTerm[m]
           /\ role'[n] = Leader
           /\ \A m \in Node \ {n} : matchIndex'[m] = matchIndex[m]
           /\ \A q \in Node : matchIndex'[n][q] = 0
<1>1. /\ UNCHANGED log
      /\ role' = [role EXCEPT ![p] = RoleSeenBy(n, p), ![n] = Leader]
      /\ currentTerm' = [currentTerm EXCEPT ![p] = op[n].term]
      /\ op[n].term >= currentTerm[p]
      /\ elected' = elected \cup {[term |-> op[n].term, node |-> n]}
      /\ matchIndex' = [matchIndex EXCEPT ![n] = [q \in Node |-> 0]]
      /\ Delivers(n, p, "vote")
  BY DEF BecomeLeader, TakeTermAndVote
<1>2. /\ currentTerm \in [Node -> Nat] /\ op[n].term \in Nat
      /\ role \in [Node -> {Follower, Candidate, Leader}]
      /\ matchIndex \in [Node -> [Node -> Nat]]
  <2>1. op[n] \in RoundRecord
    BY DEF Inv, TypeOK
  <2>2. QED
    BY <2>1 DEF Inv, TypeOK, RoundRecord
<1>3. n # p /\ role[n] = Candidate /\ currentTerm[n] = op[n].term
  BY <1>1, DeliversFacts DEF Inv, RoundUndisturbed
<1>4. RoleSeenBy(n, p) \in {Leader, Candidate} =>
         op[n].term = currentTerm[p] /\ RoleSeenBy(n, p) = role[p]
  <2>1. currentTerm[p] \in Nat
    BY <1>2
  <2>2. CASE op[n].term > currentTerm[p]
    BY <2>2 DEF RoleSeenBy, Follower, Candidate, Leader
  <2>3. CASE op[n].term = currentTerm[p]
    BY <1>2, <2>1, <2>3 DEF RoleSeenBy
  <2>4. op[n].term > currentTerm[p] \/ op[n].term = currentTerm[p]
    <3>1. op[n].term >= currentTerm[p] /\ op[n].term \in Nat
      BY <1>1, <1>2
    <3>2. QED
      BY <2>1, <3>1
  <2>5. QED
    BY <2>2, <2>3, <2>4
<1>5. /\ \A m \in Node \ {n, p} : role'[m] = role[m] /\ currentTerm'[m] = currentTerm[m]
      /\ role'[n] = Leader /\ currentTerm'[n] = currentTerm[n]
      /\ role'[p] = RoleSeenBy(n, p) /\ currentTerm'[p] = op[n].term
  BY <1>1, <1>2, <1>3
<1>6. QED
  BY <1>1, <1>2, <1>3, <1>4, <1>5 DEF Candidate, Leader

LEMMA ProposeFacts ==
    ASSUME Inv, NEW n \in Node, NEW c \in Command, Propose(n, c)
    PROVE  LET new == Append(log[n], [term |-> currentTerm[n], command |-> c])
           IN  /\ role[n] = Leader /\ UNCHANGED <<currentTerm, role, elected, matchIndex>>
               /\ log'[n] = new /\ new \in Seq(Entry) /\ Len(new) = Len(log[n]) + 1
               /\ \A i \in 1..Len(log[n]) : new[i] = log[n][i]
               /\ new[Len(log[n]) + 1].term = currentTerm[n]
               /\ \A m \in Node \ {n} : log'[m] = log[m]
<1> DEFINE e == [term |-> currentTerm[n], command |-> c]
           new == Append(log[n], e)
<1>1. log \in [Node -> Seq(Entry)] /\ e \in Entry /\ e.term = currentTerm[n]
  BY DEF Inv, TypeOK, Entry
<1>2. log' = [log EXCEPT ![n] = Append(@, e)]
  BY DEF Propose
<1> HIDE DEF e
<1>3. /\ new \in Seq(Entry) /\ Len(new) = Len(log[n]) + 1
      /\ \A i \in 1..Len(log[n]) : new[i] = log[n][i]
      /\ new[Len(log[n]) + 1] = e
  BY <1>1, AppendProperties
<1>4. log'[n] = new /\ \A m \in Node \ {n} : log'[m] = log[m]
  BY <1>1, <1>2
<1>5. role[n] = Leader /\ UNCHANGED <<currentTerm, role, elected, matchIndex>>
  BY DEF Propose, roleVars, leaderVars
<1>6. QED
  BY <1>1, <1>3, <1>4, <1>5 DEF e

\* The walk stops before the end of the log only at a conflict.
LEMMA KeptToEnd ==
    ASSUME NEW l \in Seq(Entry), NEW es \in Seq(Entry), NEW prev \in 0..Len(l)
    PROVE  Kept(l, prev, es) >= prev + Len(es) => Kept(l, prev, es) = Len(l)
<1> DEFINE bad == Conflicts(l, prev, es)
<1>1. CASE bad = {}
  BY <1>1 DEF Kept
<1>2. CASE bad # {}
  <2>1. bad \subseteq Nat
    BY DEF Conflicts
  <2>2. Min(bad) \in bad
    BY <1>2, <2>1, MinIsLeast
  <2>3. Min(bad) \in 1..Len(es)
    BY <2>2 DEF Conflicts
  <2>4. Kept(l, prev, es) = prev + Min(bad) - 1
    BY <1>2 DEF Kept
  <2>5. prev \in Nat /\ Len(es) \in Nat
    OBVIOUS
  <2> HIDE DEF bad
  <2>6. QED
    BY <2>3, <2>4, <2>5
<1>3. QED
  BY <1>1, <1>2

\* An accepted AppendEntries leaves the leader's log, or the follower's own if
\* that has the whole of the leader's.
LEMMA AppendEntriesAgrees ==
    ASSUME NEW l \in Seq(Entry), NEW L \in Seq(Entry), NEW es \in Seq(Entry),
           NEW prev \in 0..Len(l), prev <= Len(L), Len(es) = Len(L) - prev,
           \A i \in 1..Len(es) : es[i] = L[prev + i],
           prev > 0 => l[prev].term = L[prev].term,
           Agree(l, L)
    PROVE  \/ AppendEntries(l, prev, es) = L
           \/ /\ AppendEntries(l, prev, es) = l
              /\ Len(L) <= Len(l)
              /\ \A i \in 1..Len(L) : l[i] = L[i]
<1> DEFINE keep == Kept(l, prev, es)
           new  == AppendEntries(l, prev, es)
<1>1. /\ keep \in prev..Len(l)
      /\ \A i \in 1..Len(es) : prev + i <= keep => l[prev + i].term = es[i].term
      /\ new \in Seq(Entry)
      /\ Len(new) = IF keep > prev + Len(es) THEN keep ELSE prev + Len(es)
      /\ \A i \in 1..keep : new[i] = l[i]
      /\ \A i \in (keep + 1)..Len(new) : new[i] = es[i - prev]
  BY AppendedLog
<1>2. keep >= prev + Len(es) => keep = Len(l)
  BY KeptToEnd
<1> HIDE DEF keep, new
<1>3. Len(l) \in Nat /\ Len(L) \in Nat /\ Len(es) \in Nat
  OBVIOUS
<1>4. ASSUME NEW i \in 1..keep, i <= Len(L)
      PROVE  l[i] = L[i]
  <2>1. CASE i <= prev
    <3>1. prev \in 1..Len(l) /\ prev <= Len(L) /\ l[prev].term = L[prev].term /\ i \in 1..prev
      BY <1>3, <2>1
    <3>2. QED
      BY <3>1 DEF Agree
  <2>2. CASE i > prev
    <3>1. i - prev \in 1..Len(es) /\ prev + (i - prev) = i /\ i \in 1..Len(l)
      BY <1>1, <1>3, <1>4, <2>2
    <3>2. l[i].term = L[i].term
      <4>1. l[prev + (i - prev)].term = es[i - prev].term
        BY <1>1, <3>1
      <4>2. es[i - prev] = L[prev + (i - prev)]
        BY <3>1
      <4>3. QED
        BY <3>1, <4>1, <4>2
    <3>3. i \in 1..i
      BY <1>1, <1>4
    <3>4. QED
      BY <1>4, <3>1, <3>2, <3>3 DEF Agree
  <2>3. QED
    BY <1>1, <1>4, <2>1, <2>2
<1>5. ASSUME NEW i \in (keep + 1)..Len(new)
      PROVE  i \in 1..Len(L) /\ new[i] = L[i]
  <2>1. i - prev \in 1..Len(es) /\ prev + (i - prev) = i /\ i \in 1..Len(L)
    BY <1>1, <1>3, <1>5
  <2>2. new[i] = es[i - prev]
    BY <1>1, <1>5
  <2>3. QED
    BY <2>1, <2>2
<1>6. CASE keep > Len(L)
  <2>1. keep = Len(l) /\ Len(new) = Len(l)
    BY <1>1, <1>2, <1>3, <1>6
  <2>2. new = l
    BY <1>1, <2>1, SeqEqual
  <2>3. \A i \in 1..Len(L) : l[i] = L[i]
    BY <1>1, <1>3, <1>4, <1>6
  <2>4. Len(L) <= Len(l)
    BY <1>1, <1>3, <1>6
  <2>5. QED
    BY <2>2, <2>3, <2>4 DEF new
<1>7. CASE keep <= Len(L)
  <2>1. Len(new) = Len(L)
    BY <1>1, <1>3, <1>7
  <2>2. ASSUME NEW i \in 1..Len(new) PROVE new[i] = L[i]
    <3>1. CASE i \in 1..keep
      BY <1>1, <1>4, <2>1, <3>1
    <3>2. CASE i \in (keep + 1)..Len(new)
      BY <1>5, <3>2
    <3>3. QED
      BY <1>1, <2>2, <3>1, <3>2
  <2>3. new = L
    BY <1>1, <2>1, <2>2, SeqEqual
  <2>4. QED
    BY <2>3 DEF new
<1>8. QED
  BY <1>1, <1>3, <1>6, <1>7

LEMMA AcceptedFacts ==
    ASSUME Inv, NEW n \in Node, NEW p \in Node, AppendEntriesAccepted(n, p)
    PROVE  /\ p \in Peers(n) /\ role[n] = Leader /\ role'[n] = Leader
           /\ currentTerm'[n] = currentTerm[n]
           /\ role'[p] = Follower /\ currentTerm'[p] = currentTerm[n]
           /\ \A m \in Node \ {p} : /\ role'[m] = role[m] /\ currentTerm'[m] = currentTerm[m]
                                    /\ log'[m] = log[m]
           /\ UNCHANGED elected
           /\ Agree(log[p], log[n]) =>
                 \/ log'[p] = log[n]
                 \/ /\ log'[p] = log[p] /\ Len(log[n]) <= Len(log[p])
                    /\ \A i \in 1..Len(log[n]) : log[p][i] = log[n][i]
           /\ \A m, q \in Node : matchIndex'[m][q] = matchIndex[m][q] \/ (m = n /\ q = p)
           /\ matchIndex'[n][p] \in {matchIndex[n][p], Len(log[n])}
<1> DEFINE newLog == AppendEntries(log[p], PrevIndex(n, p), EntriesTo(n, p))
<1>1. /\ Delivers(n, p, "append") /\ Consistent(n, p)
      /\ log' = [log EXCEPT ![p] = newLog]
      /\ role' = [role EXCEPT ![p] = Follower]
      /\ currentTerm' = [currentTerm EXCEPT ![p] = op[n].term]
      /\ UNCHANGED elected
      /\ \/ matchIndex' = [matchIndex EXCEPT ![n][p] = Len(log[n])]
         \/ matchIndex' = matchIndex
  BY DEF AppendEntriesAccepted, Acknowledge, leaderVars, LastIndex
<1>2. p \in Peers(n) /\ n # p /\ op[n].kind = "append"
  BY <1>1, DeliversFacts DEF Inv
<1>3. /\ role[n] = Leader /\ currentTerm[n] = op[n].term
      /\ PrevIndex(n, p) \in 0..Len(log[n])
      /\ EntriesTo(n, p) \in Seq(Entry)
      /\ Len(EntriesTo(n, p)) = Len(log[n]) - PrevIndex(n, p)
      /\ \A i \in 1..Len(EntriesTo(n, p)) :
            EntriesTo(n, p)[i] = log[n][PrevIndex(n, p) + i]
  BY <1>2, AppendArguments
<1>4. PrevIndex(n, p) \in 0..Len(log[p])
  BY <1>1, <1>2, ConsistentPrev
<1>5. /\ log \in [Node -> Seq(Entry)] /\ role \in [Node -> {Follower, Candidate, Leader}]
      /\ currentTerm \in [Node -> Nat] /\ matchIndex \in [Node -> [Node -> Nat]]
  BY DEF Inv, TypeOK
<1>6. PrevIndex(n, p) > 0 => log[p][PrevIndex(n, p)].term = log[n][PrevIndex(n, p)].term
  <2>1. PrevIndex(n, p) > 0 =>
           PrevIndex(n, p) \in 1..Len(log[p]) /\ PrevIndex(n, p) \in 1..Len(log[n])
    BY <1>3, <1>4
  <2>2. QED
    BY <1>1, <2>1 DEF Consistent, TermAt
<1>7. Agree(log[p], log[n]) =>
         \/ newLog = log[n]
         \/ /\ newLog = log[p] /\ Len(log[n]) <= Len(log[p])
            /\ \A i \in 1..Len(log[n]) : log[p][i] = log[n][i]
  <2> DEFINE l == log[p]  L == log[n]  prev == PrevIndex(n, p)  es == EntriesTo(n, p)
  <2>1. /\ l \in Seq(Entry) /\ L \in Seq(Entry) /\ es \in Seq(Entry)
        /\ prev \in 0..Len(l) /\ prev <= Len(L)
    BY <1>3, <1>4, <1>5
  <2>2. /\ Len(es) = Len(L) - prev /\ \A i \in 1..Len(es) : es[i] = L[prev + i]
        /\ prev > 0 => l[prev].term = L[prev].term
    BY <1>3, <1>6
  <2>3. newLog = AppendEntries(l, prev, es)
    OBVIOUS
  <2> HIDE DEF l, L, prev, es
  <2>4. Agree(l, L) =>
           \/ AppendEntries(l, prev, es) = L
           \/ /\ AppendEntries(l, prev, es) = l /\ Len(L) <= Len(l)
              /\ \A i \in 1..Len(L) : l[i] = L[i]
    BY <2>1, <2>2, AppendEntriesAgrees
  <2>5. QED
    BY <2>3, <2>4 DEF l, L
<1> HIDE DEF newLog
<1>8. log'[p] = newLog /\ \A m \in Node \ {p} : log'[m] = log[m]
  BY <1>1, <1>5
<1>9. /\ \A m, q \in Node : matchIndex'[m][q] = matchIndex[m][q] \/ (m = n /\ q = p)
      /\ matchIndex'[n][p] \in {matchIndex[n][p], Len(log[n])}
  <2>1. CASE matchIndex' = matchIndex
    <3>1. \A m, q \in Node : matchIndex'[m][q] = matchIndex[m][q]
      BY <2>1
    <3>2. matchIndex'[n][p] \in {matchIndex[n][p], Len(log[n])}
      BY <3>1
    <3>3. QED
      BY <3>1, <3>2
  <2>2. CASE matchIndex' = [matchIndex EXCEPT ![n][p] = Len(log[n])]
    <3>1. p \in Node /\ matchIndex[n] \in [Node -> Nat]
      BY <1>5
    <3>2. /\ matchIndex'[n] = [matchIndex[n] EXCEPT ![p] = Len(log[n])]
          /\ \A m \in Node \ {n} : matchIndex'[m] = matchIndex[m]
      BY <1>5, <2>2
    <3>3. /\ matchIndex'[n][p] = Len(log[n])
          /\ \A q \in Node \ {p} : matchIndex'[n][q] = matchIndex[n][q]
      BY <3>1, <3>2
    <3>4. matchIndex'[n][p] \in {matchIndex[n][p], Len(log[n])}
      BY <3>3
    <3>5. ASSUME NEW m \in Node, NEW q \in Node
          PROVE  matchIndex'[m][q] = matchIndex[m][q] \/ (m = n /\ q = p)
      <4>1. CASE m = n
        BY <3>3, <4>1
      <4>2. CASE m # n
        BY <3>2, <4>2
      <4>3. QED
        BY <4>1, <4>2
    <3>6. QED
      BY <3>4, <3>5
  <2>3. QED
    BY <1>1, <2>1, <2>2
<1>10. QED
  BY <1>1, <1>2, <1>3, <1>5, <1>7, <1>8, <1>9

-----------------------------------------------------------------------------
(***************************************************************************)
(* TermsInv and LogsInv are inductive.                                     *)
(***************************************************************************)

LEMMA MatchingTypes ==
    ASSUME Inv
    PROVE  /\ \A m \in Node : currentTerm[m] \in Nat
           /\ \A m \in Node : log[m] \in Seq(Entry) /\ Len(log[m]) \in Nat
           /\ \A m, q \in Node : matchIndex[m][q] \in Nat
           /\ \A e \in elected : e.term \in Nat /\ e.node \in Node
<1>1. /\ log \in [Node -> Seq(Entry)] /\ currentTerm \in [Node -> Nat]
      /\ matchIndex \in [Node -> [Node -> Nat]]
      /\ elected \subseteq [term : Nat, node : Node]
  BY DEF Inv, TypeOK
<1>2. \A m \in Node : log[m] \in Seq(Entry) /\ Len(log[m]) \in Nat
  BY <1>1
<1>3. QED
  BY <1>1, <1>2

\* Two leaders of one term are one node.
LEMMA SameLeader ==
    ASSUME LeadersElected, ElectionSafety, NEW m \in Node, NEW n \in Node,
           role[m] = Leader, role[n] = Leader, currentTerm[m] = currentTerm[n]
    PROVE  m = n
<1>1. /\ [term |-> currentTerm[m], node |-> m] \in elected
      /\ [term |-> currentTerm[n], node |-> n] \in elected
  BY DEF LeadersElected
<1>2. [term |-> currentTerm[m], node |-> m] = [term |-> currentTerm[n], node |-> n]
  BY <1>1 DEF ElectionSafety
<1>3. QED
  BY <1>2

\* While a leader and its indices stay as they are and the logs too, it goes on
\* counting a peer only for what the peer holds.
LEMMA PeersHoldKept ==
    ASSUME Inv, [Next]_vars, PeersHold, UNCHANGED log, NEW n \in Node, NEW p \in Peers(n),
           role[n] = Leader, currentTerm'[n] = currentTerm[n],
           matchIndex'[n] = matchIndex[n]
    PROVE  /\ matchIndex'[n][p] <= Len(log'[n])
           /\ matchIndex'[n][p] > 0 => currentTerm'[n] <= currentTerm'[p]
           /\ currentTerm'[p] = currentTerm'[n] =>
                 /\ matchIndex'[n][p] <= Len(log'[p])
                 /\ \A k \in 1..matchIndex'[n][p] : log'[p][k] = log'[n][k]
<1>1. p \in Node
  BY DEF Peers
<1>2. /\ currentTerm[n] \in Nat /\ currentTerm[p] \in Nat /\ currentTerm'[p] \in Nat
      /\ currentTerm[p] <= currentTerm'[p]
      /\ matchIndex[n][p] \in Nat /\ Len(log[p]) \in Nat
  BY <1>1, TermsGrow, MatchingTypes
<1>3. /\ matchIndex[n][p] <= Len(log[n])
      /\ matchIndex[n][p] > 0 => currentTerm[n] <= currentTerm[p]
      /\ currentTerm[p] = currentTerm[n] =>
            /\ matchIndex[n][p] <= Len(log[p])
            /\ \A k \in 1..matchIndex[n][p] : log[p][k] = log[n][k]
  BY DEF PeersHold
<1>4. CASE matchIndex[n][p] > 0
  BY <1>2, <1>3, <1>4
<1>5. CASE matchIndex[n][p] = 0
  BY <1>2, <1>3, <1>5
<1>6. QED
  BY <1>2, <1>4, <1>5

LEMMA QuietMatching ==
    ASSUME Inv, [Next]_vars, TermsInv, LogsInv, QuietStep
    PROVE  TermsInv' /\ LogsInv'
<1>1. LeadersElected'
  BY DEF TermsInv, LeadersElected, QuietStep
<1>2. ElectedBefore'
  <2> SUFFICES ASSUME NEW e \in elected
               PROVE  /\ e.term <= currentTerm'[e.node]
                      /\ role'[e.node] = Candidate => e.term < currentTerm'[e.node]
    BY DEF ElectedBefore, QuietStep
  <2>1. /\ e.term \in Nat /\ e.node \in Node
        /\ e.term <= currentTerm[e.node]
        /\ role[e.node] = Candidate => e.term < currentTerm[e.node]
    BY MatchingTypes DEF TermsInv, ElectedBefore
  <2>2. /\ currentTerm[e.node] \in Nat /\ currentTerm'[e.node] \in Nat
        /\ currentTerm[e.node] <= currentTerm'[e.node]
    BY <2>1, TermsGrow
  <2>3. role'[e.node] = Candidate =>
           role[e.node] = Candidate \/ currentTerm[e.node] < currentTerm'[e.node]
    BY <2>1 DEF QuietStep
  <2>4. QED
    BY <2>1, <2>2, <2>3
<1>3. ASSUME ElectionSafety'
      PROVE  EntriesElected' /\ LogsAgree' /\ LeadersHaveTerm' /\ PeersHold'
  <2>1. EntriesElected /\ LogsAgree /\ LeadersHaveTerm /\ PeersHold
    BY <1>3 DEF LogsInv, ElectionSafety, QuietStep
  <2>2. EntriesElected' /\ LogsAgree' /\ LeadersHaveTerm'
    BY <2>1 DEF EntriesElected, LogsAgree, Agree, LeadersHaveTerm, QuietStep
  <2>3. PeersHold'
    <3>1. ASSUME NEW n \in Node, role'[n] = Leader, NEW p \in Peers(n)
          PROVE  /\ matchIndex'[n][p] <= Len(log'[n])
                 /\ matchIndex'[n][p] > 0 => currentTerm'[n] <= currentTerm'[p]
                 /\ currentTerm'[p] = currentTerm'[n] =>
                       /\ matchIndex'[n][p] <= Len(log'[p])
                       /\ \A k \in 1..matchIndex'[n][p] : log'[p][k] = log'[n][k]
      <4>1. /\ role[n] = Leader /\ currentTerm'[n] = currentTerm[n]
            /\ UNCHANGED log /\ matchIndex'[n] = matchIndex[n]
        BY <3>1 DEF QuietStep
      <4>2. QED
        BY <2>1, <4>1, PeersHoldKept
    <3>2. QED
      BY <3>1 DEF PeersHold
  <2>4. QED
    BY <2>2, <2>3
<1>4. QED
  BY <1>1, <1>2, <1>3 DEF TermsInv, LogsInv

\* A new leader's term had no leader, so no log has an entry of it yet.
LEMMA NewTermUnused ==
    ASSUME Inv, TermsInv, LogsInv, ElectionSafety', NEW n \in Node, NEW p \in Node,
           BecomeLeader(n, p), NEW m \in Node, NEW i \in 1..Len(log[m])
    PROVE  log[m][i].term # currentTerm[n]
<1> SUFFICES ASSUME log[m][i].term = currentTerm[n] PROVE FALSE
  OBVIOUS
<1> DEFINE f == [term |-> currentTerm[n], node |-> n]
<1>1. role[n] = Candidate /\ elected' = elected \cup {f}
  BY BecomeLeaderFacts
<1>2. ElectionSafety
  BY <1>1 DEF ElectionSafety
<1>3. PICK e \in elected : e.term = currentTerm[n]
  BY <1>2 DEF LogsInv, EntriesElected
<1>4. e = f
  <2>1. e \in elected' /\ f \in elected' /\ e.term = f.term
    BY <1>1, <1>3
  <2>2. QED
    BY <2>1 DEF ElectionSafety
<1>5. e.term < currentTerm[n]
  BY <1>1, <1>4 DEF TermsInv, ElectedBefore
<1>6. QED
  BY <1>3, <1>5, MatchingTypes

LEMMA BecomeLeaderMatching ==
    ASSUME Inv, [Next]_vars, TermsInv, LogsInv, NEW n \in Node, NEW p \in Node,
           BecomeLeader(n, p)
    PROVE  TermsInv' /\ LogsInv'
<1> DEFINE f == [term |-> currentTerm[n], node |-> n]
<1>1. /\ UNCHANGED log
      /\ role[n] = Candidate /\ n # p /\ currentTerm'[n] = currentTerm[n]
      /\ elected' = elected \cup {f}
      /\ \A m \in Node \ {n} : role'[m] = Leader =>
            role[m] = Leader /\ currentTerm'[m] = currentTerm[m]
      /\ \A m \in Node : role'[m] = Candidate =>
            role[m] = Candidate /\ currentTerm'[m] = currentTerm[m]
      /\ role'[n] = Leader
      /\ \A m \in Node \ {n} : matchIndex'[m] = matchIndex[m]
      /\ \A q \in Node : matchIndex'[n][q] = 0
  BY BecomeLeaderFacts
<1>2. LeadersElected'
  BY <1>1 DEF TermsInv, LeadersElected
<1>3. ElectedBefore'
  <2> SUFFICES ASSUME NEW e \in elected'
               PROVE  /\ e.term <= currentTerm'[e.node]
                      /\ role'[e.node] = Candidate => e.term < currentTerm'[e.node]
    BY DEF ElectedBefore
  <2>1. CASE e = f
    <3>1. e.term = currentTerm[n] /\ e.node = n /\ currentTerm[n] \in Nat
      BY <2>1, MatchingTypes
    <3>2. QED
      BY <1>1, <3>1 DEF Candidate, Leader
  <2>2. CASE e \in elected
    <3>1. /\ e.term \in Nat /\ e.node \in Node
          /\ e.term <= currentTerm[e.node]
          /\ role[e.node] = Candidate => e.term < currentTerm[e.node]
      BY <2>2, MatchingTypes DEF TermsInv, ElectedBefore
    <3>2. /\ currentTerm[e.node] \in Nat /\ currentTerm'[e.node] \in Nat
          /\ currentTerm[e.node] <= currentTerm'[e.node]
      BY <3>1, TermsGrow
    <3>3. QED
      BY <1>1, <3>1, <3>2
  <2>3. QED
    BY <1>1, <2>1, <2>2
<1>4. ASSUME ElectionSafety'
      PROVE  EntriesElected' /\ LogsAgree' /\ LeadersHaveTerm' /\ PeersHold'
  <2>1. EntriesElected /\ LogsAgree /\ LeadersHaveTerm /\ PeersHold
    BY <1>1, <1>4 DEF LogsInv, ElectionSafety
  <2>2. EntriesElected' /\ LogsAgree'
    BY <1>1, <2>1 DEF EntriesElected, LogsAgree, Agree
  <2>3. ASSUME NEW m \in Node, NEW i \in 1..Len(log[m])
        PROVE  log[m][i].term # currentTerm[n]
    BY <1>4, NewTermUnused
  <2>4. LeadersHaveTerm'
    <3>1. ASSUME NEW l \in Node, role'[l] = Leader, NEW m \in Node, NEW i \in 1..Len(log[m]),
                 log[m][i].term = currentTerm'[l]
          PROVE  i <= Len(log[l]) /\ log[l][i].term = currentTerm'[l]
      <4>1. CASE l = n
        BY <1>1, <2>3, <3>1, <4>1
      <4>2. CASE l # n
        BY <1>1, <2>1, <3>1, <4>2 DEF LeadersHaveTerm
      <4>3. QED
        BY <4>1, <4>2
    <3>2. QED
      BY <1>1, <3>1 DEF LeadersHaveTerm
  <2>5. PeersHold'
    <3>1. ASSUME NEW l \in Node, role'[l] = Leader, NEW q \in Peers(l)
          PROVE  /\ matchIndex'[l][q] <= Len(log'[l])
                 /\ matchIndex'[l][q] > 0 => currentTerm'[l] <= currentTerm'[q]
                 /\ currentTerm'[q] = currentTerm'[l] =>
                       /\ matchIndex'[l][q] <= Len(log'[q])
                       /\ \A k \in 1..matchIndex'[l][q] : log'[q][k] = log'[l][k]
      <4>1. CASE l = n
        <5>1. q \in Node /\ matchIndex'[l][q] = 0 /\ Len(log'[l]) \in Nat /\ Len(log'[q]) \in Nat
          BY <1>1, <4>1, MatchingTypes DEF Peers
        <5>2. QED
          BY <5>1
      <4>2. CASE l # n
        BY <1>1, <2>1, <3>1, <4>2, PeersHoldKept
      <4>3. QED
        BY <4>1, <4>2
    <3>2. QED
      BY <3>1 DEF PeersHold
  <2>6. QED
    BY <2>2, <2>4, <2>5
<1>5. QED
  BY <1>2, <1>3, <1>4 DEF TermsInv, LogsInv

\* A proposal is of the leader's own term, of which no other log holds more.
LEMMA ProposeMatching ==
    ASSUME Inv, [Next]_vars, TermsInv, LogsInv, NEW n \in Node, NEW c \in Command,
           Propose(n, c)
    PROVE  TermsInv' /\ LogsInv'
<1> DEFINE new == Append(log[n], [term |-> currentTerm[n], command |-> c])
           last == Len(log[n]) + 1
<1>1. /\ role[n] = Leader /\ UNCHANGED <<currentTerm, role, elected, matchIndex>>
      /\ log'[n] = new /\ Len(new) = last
      /\ \A i \in 1..Len(log[n]) : new[i] = log[n][i]
      /\ new[last].term = currentTerm[n]
      /\ \A m \in Node \ {n} : log'[m] = log[m]
  BY ProposeFacts
<1>2. /\ Len(log[n]) \in Nat
      /\ \A i \in 1..Len(new) : i \in 1..Len(log[n]) \/ i = last
  BY <1>1, MatchingTypes
<1> HIDE DEF new, last
<1>3. LeadersElected' /\ ElectedBefore'
  BY <1>1 DEF TermsInv, LeadersElected, ElectedBefore
<1>4. ASSUME ElectionSafety'
      PROVE  EntriesElected' /\ LogsAgree' /\ LeadersHaveTerm' /\ PeersHold'
  <2>1. ElectionSafety /\ EntriesElected /\ LogsAgree /\ LeadersHaveTerm /\ PeersHold
    BY <1>1, <1>4 DEF LogsInv, ElectionSafety
  <2>2. ASSUME NEW m \in Node, last \in 1..Len(log[m])
        PROVE  log[m][last].term # currentTerm[n]
    <3>1. log[m][last].term = currentTerm[n] => last <= Len(log[n])
      BY <1>1, <2>1, <2>2 DEF LeadersHaveTerm
    <3>2. QED
      BY <1>2, <3>1 DEF last
  <2>3. ASSUME NEW m \in Node, role[m] = Leader, currentTerm[m] = currentTerm[n]
        PROVE  m = n
    BY <1>1, <2>1, <2>3, SameLeader DEF TermsInv
  <2>4. LogsAgree'
    <3>1. ASSUME NEW m \in Node, NEW k \in Node, NEW i \in 1..Len(log'[m]),
                 i <= Len(log'[k]), log'[m][i].term = log'[k][i].term, NEW j \in 1..i
          PROVE  log'[m][j] = log'[k][j]
      <4>1. Len(log[m]) \in Nat /\ Len(log[k]) \in Nat /\ i \in 1..Len(log'[k])
        BY <3>1, MatchingTypes
      <4>2. CASE m = k
        BY <4>2
      <4>3. CASE m = n /\ k # n
        <5>1. i # last
          BY <1>1, <2>2, <3>1, <4>1, <4>3
        <5>2. i \in 1..Len(log[n]) /\ j \in 1..Len(log[n])
          BY <1>1, <1>2, <3>1, <4>3, <5>1
        <5>3. log[n][i].term = log[k][i].term /\ i <= Len(log[k])
          BY <1>1, <3>1, <4>3, <5>2
        <5>4. log[n][j] = log[k][j]
          BY <2>1, <5>2, <5>3 DEF LogsAgree, Agree
        <5>5. QED
          BY <1>1, <4>3, <5>2, <5>4
      <4>4. CASE m # n /\ k = n
        <5>1. i # last
          BY <1>1, <2>2, <3>1, <4>4
        <5>2. i \in 1..Len(log[n]) /\ j \in 1..Len(log[n])
          BY <1>1, <1>2, <3>1, <4>1, <4>4, <5>1
        <5>3. log[m][i].term = log[n][i].term /\ i <= Len(log[n]) /\ i \in 1..Len(log[m])
          BY <1>1, <3>1, <4>4, <5>2
        <5>4. log[m][j] = log[n][j]
          BY <2>1, <5>3 DEF LogsAgree, Agree
        <5>5. QED
          BY <1>1, <4>4, <5>2, <5>4
      <4>5. CASE m # n /\ k # n
        <5>1. log'[m] = log[m] /\ log'[k] = log[k]
          BY <1>1, <4>5
        <5>2. QED
          BY <2>1, <3>1, <5>1 DEF LogsAgree, Agree
      <4>6. QED
        BY <4>2, <4>3, <4>4, <4>5
    <3>2. QED
      BY <3>1 DEF LogsAgree, Agree
  <2>5. LeadersHaveTerm'
    <3>1. ASSUME NEW l \in Node, role[l] = Leader, NEW m \in Node, NEW i \in 1..Len(log'[m]),
                 log'[m][i].term = currentTerm[l]
          PROVE  i <= Len(log'[l]) /\ log'[l][i].term = currentTerm[l]
      <4>1. CASE m = l
        BY <3>1, <4>1
      <4>2. CASE m # l /\ m # n
        <5>1. i <= Len(log[l]) /\ log[l][i].term = currentTerm[l] /\ i \in Nat /\ i > 0
          BY <1>1, <2>1, <3>1, <4>2 DEF LeadersHaveTerm
        <5>2. CASE l = n
          <6>1. i \in 1..Len(log[n]) /\ i <= last
            BY <1>2, <5>1, <5>2 DEF last
          <6>2. QED
            BY <1>1, <5>1, <5>2, <6>1
        <5>3. CASE l # n
          BY <1>1, <5>1, <5>3
        <5>4. QED
          BY <5>2, <5>3
      <4>3. CASE m = n /\ l # n
        <5>1. i # last
          BY <1>1, <2>3, <3>1, <4>3
        <5>2. i \in 1..Len(log[n])
          BY <1>1, <1>2, <3>1, <4>3, <5>1
        <5>3. log[n][i].term = currentTerm[l]
          BY <1>1, <3>1, <4>3, <5>2
        <5>4. QED
          BY <1>1, <2>1, <3>1, <4>3, <5>2, <5>3 DEF LeadersHaveTerm
      <4>4. QED
        BY <4>1, <4>2, <4>3
    <3>2. QED
      BY <1>1, <3>1 DEF LeadersHaveTerm
  <2>6. PeersHold'
    <3>1. ASSUME NEW l \in Node, role[l] = Leader, NEW q \in Peers(l)
          PROVE  /\ matchIndex[l][q] <= Len(log'[l])
                 /\ matchIndex[l][q] > 0 => currentTerm[l] <= currentTerm[q]
                 /\ currentTerm[q] = currentTerm[l] =>
                       /\ matchIndex[l][q] <= Len(log'[q])
                       /\ \A k \in 1..matchIndex[l][q] : log'[q][k] = log'[l][k]
      <4>1. q \in Node /\ q # l
        BY DEF Peers
      <4>2. /\ matchIndex[l][q] <= Len(log[l])
            /\ matchIndex[l][q] > 0 => currentTerm[l] <= currentTerm[q]
            /\ currentTerm[q] = currentTerm[l] =>
                  /\ matchIndex[l][q] <= Len(log[q])
                  /\ \A k \in 1..matchIndex[l][q] : log[q][k] = log[l][k]
        BY <2>1, <3>1 DEF PeersHold
      <4>3. matchIndex[l][q] \in Nat /\ Len(log[q]) \in Nat /\ Len(log[l]) \in Nat
        BY <4>1, MatchingTypes
      <4>4. \A m \in Node : /\ Len(log[m]) <= Len(log'[m])
                            /\ \A k \in 1..Len(log[m]) : log'[m][k] = log[m][k]
        <5>1. ASSUME NEW m \in Node
              PROVE  /\ Len(log[m]) <= Len(log'[m])
                     /\ \A k \in 1..Len(log[m]) : log'[m][k] = log[m][k]
          <6>1. CASE m = n
            BY <1>1, <1>2, <6>1 DEF last
          <6>2. CASE m # n
            BY <1>1, <6>2, MatchingTypes
          <6>3. QED
            BY <6>1, <6>2
        <5>2. QED
          BY <5>1
      <4>5. Len(log'[l]) \in Nat /\ Len(log'[q]) \in Nat
        <5>1. \A m \in Node : Len(log'[m]) \in Nat
          BY <1>1, <1>2, MatchingTypes DEF last
        <5>2. QED
          BY <4>1, <5>1
      <4>6. matchIndex[l][q] <= Len(log'[l])
        BY <4>2, <4>3, <4>4, <4>5
      <4>7. ASSUME currentTerm[q] = currentTerm[l]
            PROVE  /\ matchIndex[l][q] <= Len(log'[q])
                   /\ \A k \in 1..matchIndex[l][q] : log'[q][k] = log'[l][k]
        <5>1. matchIndex[l][q] <= Len(log'[q])
          BY <4>1, <4>2, <4>3, <4>4, <4>5, <4>7
        <5>2. ASSUME NEW k \in 1..matchIndex[l][q]
              PROVE  log'[q][k] = log'[l][k]
          <6>1. k \in 1..Len(log[q]) /\ k \in 1..Len(log[l]) /\ log[q][k] = log[l][k]
            BY <4>2, <4>3, <4>7
          <6>2. QED
            BY <4>1, <4>4, <6>1
        <5>3. QED
          BY <5>1, <5>2
      <4>8. QED
        BY <4>2, <4>6, <4>7
    <3>2. QED
      BY <1>1, <3>1 DEF PeersHold
  <2>7. EntriesElected'
    <3>1. [term |-> currentTerm[n], node |-> n] \in elected
      BY <1>1 DEF TermsInv, LeadersElected
    <3>2. \E e \in elected : e.term = currentTerm[n]
      BY <3>1
    <3>3. ASSUME NEW m \in Node, NEW i \in 1..Len(log'[m])
          PROVE  \E e \in elected : e.term = log'[m][i].term
      <4>1. CASE m # n
        BY <1>1, <2>1, <3>3, <4>1 DEF EntriesElected
      <4>2. CASE m = n /\ i \in 1..Len(log[n])
        BY <1>1, <2>1, <4>2 DEF EntriesElected
      <4>3. CASE m = n /\ i = last
        BY <1>1, <3>2, <4>3
      <4>4. QED
        BY <1>1, <1>2, <3>3, <4>1, <4>2, <4>3
    <3>4. QED
      BY <1>1, <3>3 DEF EntriesElected
  <2>8. QED
    BY <2>4, <2>5, <2>6, <2>7
<1>5. QED
  BY <1>3, <1>4 DEF TermsInv, LogsInv

\* The follower's log becomes one of the logs there were.
LEMMA AcceptedMatching ==
    ASSUME Inv, [Next]_vars, TermsInv, LogsInv, NEW n \in Node, NEW p \in Node,
           AppendEntriesAccepted(n, p)
    PROVE  TermsInv' /\ LogsInv'
<1>1. /\ p \in Peers(n) /\ role[n] = Leader /\ role'[n] = Leader
      /\ currentTerm'[n] = currentTerm[n]
      /\ role'[p] = Follower /\ currentTerm'[p] = currentTerm[n]
      /\ \A m \in Node \ {p} : /\ role'[m] = role[m] /\ currentTerm'[m] = currentTerm[m]
                               /\ log'[m] = log[m]
      /\ UNCHANGED elected
      /\ \A m, q \in Node : matchIndex'[m][q] = matchIndex[m][q] \/ (m = n /\ q = p)
      /\ matchIndex'[n][p] \in {matchIndex[n][p], Len(log[n])}
  BY AcceptedFacts
<1>2. LeadersElected'
  BY <1>1 DEF TermsInv, LeadersElected, Follower, Leader
<1>3. ElectedBefore'
  <2> SUFFICES ASSUME NEW e \in elected
               PROVE  /\ e.term <= currentTerm'[e.node]
                      /\ role'[e.node] = Candidate => e.term < currentTerm'[e.node]
    BY <1>1 DEF ElectedBefore
  <2>1. /\ e.term \in Nat /\ e.node \in Node
        /\ e.term <= currentTerm[e.node]
        /\ role[e.node] = Candidate => e.term < currentTerm[e.node]
    BY MatchingTypes DEF TermsInv, ElectedBefore
  <2>2. /\ currentTerm[e.node] \in Nat /\ currentTerm'[e.node] \in Nat
        /\ currentTerm[e.node] <= currentTerm'[e.node]
    BY <2>1, TermsGrow
  <2>3. role'[e.node] = Candidate => role[e.node] = Candidate
    BY <1>1, <2>1 DEF Follower, Candidate
  <2>4. QED
    BY <2>1, <2>2, <2>3
<1>4. ASSUME ElectionSafety'
      PROVE  EntriesElected' /\ LogsAgree' /\ LeadersHaveTerm' /\ PeersHold'
  <2>1. ElectionSafety /\ EntriesElected /\ LogsAgree /\ LeadersHaveTerm /\ PeersHold
    BY <1>1, <1>4 DEF LogsInv, ElectionSafety
  <2>2. /\ n \in Node /\ p \in Node /\ n # p
        /\ \/ log'[p] = log[n]
           \/ /\ log'[p] = log[p] /\ Len(log[n]) <= Len(log[p])
              /\ \A i \in 1..Len(log[n]) : log[p][i] = log[n][i]
    <3>1. Agree(log[p], log[n])
      BY <2>1 DEF LogsAgree
    <3>2. QED
      BY <3>1, AcceptedFacts DEF Peers
  <2>3. ASSUME NEW m \in Node PROVE \E w \in Node : log'[m] = log[w]
    BY <1>1, <2>2
  <2>4. EntriesElected'
    <3>1. ASSUME NEW m \in Node, NEW i \in 1..Len(log'[m])
          PROVE  \E e \in elected : e.term = log'[m][i].term
      <4>1. PICK w \in Node : log'[m] = log[w]
        BY <2>3
      <4>2. QED
        BY <2>1, <3>1, <4>1 DEF EntriesElected
    <3>2. QED
      BY <1>1, <3>1 DEF EntriesElected
  <2>5. LogsAgree'
    <3>1. ASSUME NEW l \in Node, NEW m \in Node PROVE Agree(log'[l], log'[m])
      <4>1. PICK v \in Node : log'[l] = log[v]
        BY <2>3
      <4>2. PICK w \in Node : log'[m] = log[w]
        BY <2>3
      <4>3. Agree(log[v], log[w])
        BY <2>1 DEF LogsAgree
      <4>4. QED
        BY <4>1, <4>2, <4>3 DEF Agree
    <3>2. QED
      BY <3>1 DEF LogsAgree, Agree
  <2>6. ASSUME NEW l \in Node, role'[l] = Leader
        PROVE  /\ l # p /\ role[l] = Leader /\ currentTerm'[l] = currentTerm[l]
               /\ log'[l] = log[l]
    BY <1>1, <2>6 DEF Follower, Leader
  <2>7. LeadersHaveTerm'
    <3>1. ASSUME NEW l \in Node, role'[l] = Leader, NEW m \in Node, NEW i \in 1..Len(log'[m]),
                 log'[m][i].term = currentTerm'[l]
          PROVE  i <= Len(log'[l]) /\ log'[l][i].term = currentTerm'[l]
      <4>1. PICK w \in Node : log'[m] = log[w]
        BY <2>3
      <4>2. role[l] = Leader /\ currentTerm'[l] = currentTerm[l] /\ log'[l] = log[l]
        BY <2>6, <3>1
      <4>3. QED
        BY <2>1, <3>1, <4>1, <4>2 DEF LeadersHaveTerm
    <3>2. QED
      BY <3>1 DEF LeadersHaveTerm
  <2>8. PeersHold'
    <3>1. ASSUME NEW l \in Node, role'[l] = Leader, NEW q \in Peers(l)
          PROVE  /\ matchIndex'[l][q] <= Len(log'[l])
                 /\ matchIndex'[l][q] > 0 => currentTerm'[l] <= currentTerm'[q]
                 /\ currentTerm'[q] = currentTerm'[l] =>
                       /\ matchIndex'[l][q] <= Len(log'[q])
                       /\ \A k \in 1..matchIndex'[l][q] : log'[q][k] = log'[l][k]
      <4>1. q \in Node /\ q # l
        BY DEF Peers
      <4>2. l # p /\ role[l] = Leader /\ currentTerm'[l] = currentTerm[l] /\ log'[l] = log[l]
        BY <2>6, <3>1
      <4>3. /\ matchIndex[l][q] <= Len(log[l])
            /\ matchIndex[l][q] > 0 => currentTerm[l] <= currentTerm[q]
            /\ currentTerm[q] = currentTerm[l] =>
                  /\ matchIndex[l][q] <= Len(log[q])
                  /\ \A k \in 1..matchIndex[l][q] : log[q][k] = log[l][k]
        BY <2>1, <4>2 DEF PeersHold
      <4>4. /\ matchIndex[l][q] \in Nat /\ Len(log[l]) \in Nat
            /\ currentTerm[l] \in Nat /\ currentTerm[q] \in Nat /\ currentTerm'[q] \in Nat
            /\ currentTerm[q] <= currentTerm'[q]
        BY <4>1, MatchingTypes, TermsGrow
      <4>5. CASE q # p
        <5>1. /\ currentTerm'[q] = currentTerm[q] /\ log'[q] = log[q]
              /\ matchIndex'[l][q] = matchIndex[l][q]
          BY <1>1, <4>1, <4>5
        <5>2. QED
          BY <4>2, <4>3, <5>1
      <4>6. CASE q = p /\ l # n
        <5>1. currentTerm[l] # currentTerm[n]
          BY <1>1, <2>1, <2>2, <4>2, <4>6, SameLeader DEF TermsInv
        <5>2. matchIndex'[l][q] = matchIndex[l][q] /\ currentTerm'[q] = currentTerm[n]
          BY <1>1, <2>2, <4>6
        <5>3. currentTerm'[q] # currentTerm'[l]
          BY <4>2, <5>1, <5>2
        <5>4. matchIndex[l][q] > 0 => currentTerm[l] <= currentTerm'[q]
          BY <4>3, <4>4
        <5>5. QED
          BY <4>2, <4>3, <5>2, <5>3, <5>4
      <4>7. CASE q = p /\ l = n
        <5>1. currentTerm'[q] = currentTerm'[l] /\ currentTerm'[l] \in Nat
          BY <1>1, <4>2, <4>4, <4>7
        <5>2. matchIndex'[l][q] <= Len(log[l]) /\ matchIndex'[l][q] \in Nat
          BY <1>1, <4>3, <4>4, <4>7
        <5>3. /\ Len(log[l]) <= Len(log'[q])
              /\ \A k \in 1..Len(log[l]) : log'[q][k] = log[l][k]
          BY <2>2, <4>4, <4>7
        <5>4. Len(log'[q]) \in Nat
          BY <2>2, <4>7, MatchingTypes
        <5>5. matchIndex'[l][q] <= Len(log'[q])
          BY <4>4, <5>2, <5>3, <5>4
        <5>6. ASSUME NEW k \in 1..matchIndex'[l][q] PROVE log'[q][k] = log'[l][k]
          <6>1. k \in 1..Len(log[l])
            BY <4>4, <5>2
          <6>2. QED
            BY <4>2, <5>3, <6>1
        <5>7. QED
          BY <4>2, <5>1, <5>2, <5>5, <5>6
      <4>8. QED
        BY <4>5, <4>6, <4>7
    <3>2. QED
      BY <3>1 DEF PeersHold
  <2>9. QED
    BY <2>4, <2>5, <2>7, <2>8
<1>5. QED
  BY <1>2, <1>3, <1>4 DEF TermsInv, LogsInv

LEMMA MatchingStep == Inv /\ TermsInv /\ LogsInv /\ [Next]_vars => TermsInv' /\ LogsInv'
BY StepKinds, QuietMatching, BecomeLeaderMatching, ProposeMatching, AcceptedMatching

LEMMA MatchingInvariant == Spec => [](Inv /\ TermsInv /\ LogsInv)
<1>1. Init => TermsInv /\ LogsInv
  <2> SUFFICES ASSUME Init PROVE TermsInv /\ LogsInv
    OBVIOUS
  <2>1. /\ \A n \in Node : role[n] = Follower /\ log[n] = <<>>
        /\ elected = {}
    BY DEF Init
  <2>2. Follower # Leader /\ Len(<<>>) = 0
    BY DEF Follower, Leader
  <2>3. QED
    BY <2>1, <2>2 DEF TermsInv, LeadersElected, ElectedBefore, LogsInv, EntriesElected,
       LogsAgree, Agree, LeadersHaveTerm, PeersHold
<1>2. QED
  BY <1>1, MatchingStep, InvInvariant, PTL DEF Spec

-----------------------------------------------------------------------------
\* Two logs that hold an entry of one term at one index hold the same entries
\* up to there: what HandleAppendEntries' check of prev_log_term is for.
THEOREM LogsAlwaysMatch == Spec => []LogMatching
<1>1. Inv /\ LogsInv => LogMatching
  <2> SUFFICES ASSUME Inv, LogsInv, ElectionSafety,
                      NEW m \in Node, NEW n \in Node, NEW i \in 1..Len(log[m]),
                      i <= Len(log[n]), log[m][i].term = log[n][i].term
               PROVE  SubSeq(log[m], 1, i) = SubSeq(log[n], 1, i)
    BY DEF LogMatching
  <2>1. \A j \in 1..i : log[m][j] = log[n][j]
    BY DEF LogsInv, LogsAgree, Agree
  <2>2. /\ log[m] \in Seq(Entry) /\ Len(log[m]) \in Nat
        /\ log[n] \in Seq(Entry) /\ Len(log[n]) \in Nat
    BY MatchingTypes
  <2>3. i \in 1..Len(log[n])
    BY <2>2
  <2>4. \A j \in 1..i : log[m][j] \in Entry /\ log[n][j] \in Entry
    BY <2>2, <2>3, ElementOfSeq
  <2>5. /\ SubSeq(log[m], 1, i) = [j \in 1..i |-> log[m][j]]
        /\ SubSeq(log[n], 1, i) = [j \in 1..i |-> log[n][j]]
    BY <2>2, <2>3
  <2>6. QED
    BY <2>1, <2>5
<1>2. QED
  BY <1>1, MatchingInvariant, PTL

\* What UpdateCommitIndex counts is there: a follower in the leader's term holds
\* every entry up to its match_index_.
THEOREM MatchIndexAlwaysSound == Spec => []MatchIndexSound
<1>1. Inv /\ LogsInv => MatchIndexSound
  <2> SUFFICES ASSUME Inv, LogsInv, ElectionSafety,
                      NEW n \in Node, role[n] = Leader, NEW p \in Peers(n),
                      currentTerm[p] = currentTerm[n], NEW k \in 1..matchIndex[n][p]
               PROVE  k <= Len(log[p]) /\ k <= Len(log[n]) /\ log[p][k] = log[n][k]
    BY DEF MatchIndexSound
  <2>1. /\ matchIndex[n][p] <= Len(log[n]) /\ matchIndex[n][p] <= Len(log[p])
        /\ log[p][k] = log[n][k]
    BY DEF LogsInv, PeersHold
  <2>2. p \in Node
    BY DEF Peers
  <2>3. matchIndex[n][p] \in Nat /\ Len(log[n]) \in Nat /\ Len(log[p]) \in Nat
    BY <2>2, MatchingTypes
  <2>4. QED
    BY <2>1, <2>3
<1>2. QED
  BY <1>1, MatchingInvariant, PTL
=============================================================================
