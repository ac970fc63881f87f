-------------------------- MODULE RaftCommitProofs --------------------------
(***************************************************************************)
(* What is committed stays committed, for every finite set of nodes, every *)
(* fault schedule and overlapping rounds, as long as no term has had two   *)
(* leaders.                                                                *)
(*                                                                         *)
(* An entry is named by its index k and its term t: LogsAgree makes the    *)
(* two determine the log up to there.  Secured(k, t, Q) says that the      *)
(* nodes Q hold the entry, that whoever is elected after term t holds it,  *)
(* and that a candidate with a vote from Q does.  An entry is secured by a *)
(* quorum from the moment UpdateCommitIndex commits it; before, it is      *)
(* secured by the nodes the leader counts for it, as long as these and the *)
(* nodes that may still be counted are a quorum (Able).                    *)
(***************************************************************************)
EXTENDS RaftMatchingProofs, FiniteSetTheorems

IsQuorum(Q) == 2 * Cardinality(Q) > Cardinality(Node)

\* The log l has an entry of term t at index k.
Has(l, k, t) == k \in 1..Len(l) /\ l[k].term = t

\* An index that holds a term in one log holds it in every log that has a later
\* entry of that term.
TermsShared ==
    \A m, n \in Node : \A i \in 1..Len(log[m]), j \in 1..Len(log[n]) :
        i <= j /\ log[m][i].term = log[n][j].term => log[n][i].term = log[m][i].term

\* Whoever has voted for a candidate is in its term or a newer one.
VotersInTerm ==
    \A n \in Node : op[n].kind = "vote" =>
        \A v \in op[n].votes : op[n].term <= currentTerm[v]

\* A majority has reached every term that had a leader.
MajorityReached ==
    \A e \in elected : IsQuorum({v \in Node : e.term <= currentTerm[v]})

Holding(k, t, Q) == \A v \in Q : Has(log[v], k, t)

LeadersHold(k, t) ==
    \A m \in Node : role[m] = Leader /\ t < currentTerm[m] => Has(log[m], k, t)

LaterLogsHold(k, t) ==
    \A m \in Node : \A i \in 1..Len(log[m]) : t < log[m][i].term => Has(log[m], k, t)

CandidatesHold(k, t, Q) ==
    \A m \in Node : op[m].kind = "vote" /\ t < op[m].term =>
        \A v \in op[m].votes : v \in Q => Has(log[m], k, t)

Secured(k, t, Q) ==
    Holding(k, t, Q) /\ LeadersHold(k, t) /\ LaterLogsHold(k, t) /\ CandidatesHold(k, t, Q)

\* The nodes of Q, and those that may still accept an entry in term t.
Able(t, Q) == Q \cup {v \in Node : currentTerm[v] <= t}

\* The nodes UpdateCommitIndex counts for index k.
Counted(n, k) == {n} \cup {p \in Peers(n) : matchIndex[n][p] >= k}

UncommittedSecured ==
    \A n \in Node : role[n] = Leader =>
        \A k \in 1..Len(log[n]) :
            log[n][k].term = currentTerm[n] /\ IsQuorum(Able(currentTerm[n], Counted(n, k)))
                => Secured(k, currentTerm[n], Counted(n, k))

\* Some quorum has secured the log of n up to index c.
CommittedUpTo(n, c) ==
    c > 0 =>
        /\ c <= Len(log[n])
        /\ \E Q \in SUBSET Node : IsQuorum(Q) /\ Secured(c, log[n][c].term, Q)

CommittedSecured == \A n \in Node : CommittedUpTo(n, commitIndex[n])

ReachInv  == VotersInTerm /\ MajorityReached
CommitInv == ElectionSafety => TermsShared /\ UncommittedSecured /\ CommittedSecured

-----------------------------------------------------------------------------
(***************************************************************************)
(* Quorums.                                                                *)
(***************************************************************************)

LEMMA CardinalityIsNat ==
    ASSUME NEW Q, Q \subseteq Node
    PROVE  IsFiniteSet(Q) /\ Cardinality(Q) \in Nat /\ Cardinality(Node) \in Nat
<1>1. IsFiniteSet(Node) /\ IsFiniteSet(Q)
  BY NodeAssumption, FS_Subset
<1>2. QED
  BY <1>1, FS_CardinalityType

LEMMA QuorumsMeet ==
    ASSUME NEW P, NEW Q, P \subseteq Node, Q \subseteq Node, IsQuorum(P), IsQuorum(Q)
    PROVE  \E v \in Node : v \in P /\ v \in Q
<1>1. /\ Cardinality(P) \in Nat /\ Cardinality(Q) \in Nat /\ Cardinality(Node) \in Nat
      /\ 2 * Cardinality(P) > Cardinality(Node) /\ 2 * Cardinality(Q) > Cardinality(Node)
  BY CardinalityIsNat DEF IsQuorum
<1>2. Cardinality(P) + Cardinality(Q) > Cardinality(Node)
  BY <1>1
<1>3. P \cap Q # {}
  BY <1>2, NodeAssumption, FS_MajoritiesIntersect
<1>4. QED
  BY <1>3

LEMMA QuorumGrows ==
    ASSUME NEW P, NEW Q, P \subseteq Q, Q \subseteq Node, IsQuorum(P)
    PROVE  IsQuorum(Q)
<1>1. /\ Cardinality(P) \in Nat /\ Cardinality(Q) \in Nat /\ Cardinality(Node) \in Nat
      /\ 2 * Cardinality(P) > Cardinality(Node)
  BY CardinalityIsNat DEF IsQuorum
<1>2. IsFiniteSet(Q)
  BY CardinalityIsNat
<1>3. Cardinality(P) <= Cardinality(Q)
  BY <1>2, FS_Subset
<1>4. QED
  BY <1>1, <1>3 DEF IsQuorum

\* StartElection's votes_needed and UpdateCommitIndex's count.
LEMMA MajorityIsQuorum ==
    ASSUME NEW Q, Q \subseteq Node, Cardinality(Q) > Cardinality(Node) \div 2
    PROVE  IsQuorum(Q)
<1>1. Cardinality(Q) \in Nat /\ Cardinality(Node) \in Nat
  BY CardinalityIsNat
<1>2. QED
  BY <1>1 DEF IsQuorum

\* An entry that a majority may still accept is of the newest term there was.
LEMMA NoLaterTerm ==
    ASSUME Inv, MajorityReached, NEW t \in Nat, NEW Q, Q \subseteq Node,
           \A v \in Q : currentTerm[v] <= t, IsQuorum(Q), NEW e \in elected
    PROVE  e.term <= t
<1> DEFINE R == {v \in Node : e.term <= currentTerm[v]}
<1>1. IsQuorum(R) /\ R \subseteq Node
  BY DEF MajorityReached
<1>2. PICK v \in Node : v \in Q /\ v \in R
  BY <1>1, QuorumsMeet
<1>3. e.term \in Nat /\ currentTerm[v] \in Nat
  BY MatchingTypes
<1>4. QED
  BY <1>2, <1>3

-----------------------------------------------------------------------------
(***************************************************************************)
(* The steps, by what they do to votes.                                    *)
(***************************************************************************)

LEMMA RoundTypes ==
    ASSUME Inv
    PROVE  /\ op \in [Node -> RoundRecord] /\ log \in [Node -> Seq(Entry)]
           /\ currentTerm \in [Node -> Nat]
           /\ \A m \in Node : op[m].term \in Nat /\ op[m].votes \subseteq Node
<1>1. op \in [Node -> RoundRecord]
  BY DEF Inv, TypeOK
<1>2. QED
  BY <1>1 DEF Inv, TypeOK, RoundRecord

\* The campaign of n goes on as it was.
SameVotes(n) ==
    /\ op[n].kind = "vote" /\ op'[n].term = op[n].term /\ op'[n].votes = op[n].votes
    /\ log'[n] = log[n]

\* It starts, with the candidate's own vote, in a term that is new to it.
FirstVote(n) ==
    /\ op'[n].term = currentTerm[n] + 1 /\ currentTerm'[n] = currentTerm[n] + 1
    /\ op'[n].votes = {n} /\ log'[n] = log[n]

\* It gets the vote of p.
VoteOf(n, p) ==
    /\ op[n].kind = "vote" /\ op'[n].term = op[n].term /\ op'[n].votes = op[n].votes \cup {p}
    /\ Grants(n, p) /\ currentTerm[p] <= op[n].term /\ currentTerm'[p] = op[n].term
    /\ log' = log

VoteStep(n) == SameVotes(n) \/ FirstVote(n) \/ \E p \in Node : VoteOf(n, p)

LEMMA VoteFacts ==
    ASSUME Inv, [Next]_vars
    PROVE  \A n \in Node : op'[n].kind = "vote" => VoteStep(n)
<1> SUFFICES ASSUME NEW n \in Node, op'[n].kind = "vote" PROVE VoteStep(n)
  OBVIOUS
<1>0. /\ op \in [Node -> RoundRecord] /\ log \in [Node -> Seq(Entry)]
      /\ currentTerm \in [Node -> Nat]
  BY RoundTypes
<1>1. ASSUME NEW m \in Node, ElectionTimeout(m) PROVE VoteStep(n)
  <2>1. /\ op' = [op EXCEPT ![m] = Round(m, "vote", currentTerm[m] + 1, {m})]
        /\ currentTerm' = [currentTerm EXCEPT ![m] = currentTerm[m] + 1]
        /\ log' = log
    BY <1>1 DEF ElectionTimeout, NextTerm
  <2>2. CASE m = n
    <3>1. op'[n] = Round(n, "vote", currentTerm[n] + 1, {n})
      BY <1>0, <2>1, <2>2
    <3>2. op'[n].term = currentTerm[n] + 1 /\ op'[n].votes = {n}
      BY <3>1 DEF Round
    <3>3. QED
      BY <1>0, <2>1, <2>2, <3>2 DEF VoteStep, FirstVote
  <2>3. CASE m # n
    <3>1. op'[n] = op[n]
      BY <1>0, <2>1, <2>3
    <3>2. QED
      BY <2>1, <3>1 DEF VoteStep, SameVotes
  <2>4. QED
    BY <2>2, <2>3
<1>2. ASSUME NEW m \in Node,
             HeartbeatTimeout(m) \/ EndElection(m) \/ EndHeartbeats(m)
             \/ \E c \in Command : Propose(m, c)
      PROVE  VoteStep(n)
  <2>1. /\ \/ op' = [op EXCEPT ![m] = Round(m, "append", currentTerm[m], {})]
           \/ op' = [op EXCEPT ![m] = Idle]
        /\ \A l \in Node \ {m} : log'[l] = log[l]
    BY <1>0, <1>2 DEF HeartbeatTimeout, EndElection, EndHeartbeats, Propose, persistVars
  <2>2. m # n /\ op'[n] = op[n]
    BY <1>0, <2>1 DEF Idle, Round
  <2>3. QED
    BY <2>1, <2>2 DEF VoteStep, SameVotes
<1>3. ASSUME NEW m \in Node, NEW l \in Node, Control(m, l) PROVE VoteStep(n)
  BY <1>3, ControlStepType DEF Inv, persistVars, VoteStep, SameVotes
<1>4. ASSUME NEW m \in Node, NEW p \in Node,
             \/ RequestVoteLost(m, p) \/ RequestVoteDenied(m, p)
             \/ AppendEntriesLost(m, p) \/ AppendEntriesConflict(m, p)
      PROVE  VoteStep(n)
  <2>1. op' = [op EXCEPT ![m].todo = @ \ {p}] /\ log' = log
    BY <1>4 DEF RequestVoteLost, RequestVoteDenied, AppendEntriesLost,
       AppendEntriesConflict, persistVars
  <2>2. op'[n].kind = op[n].kind /\ op'[n].term = op[n].term /\ op'[n].votes = op[n].votes
    BY <1>0, <2>1 DEF RoundRecord
  <2>3. QED
    BY <2>1, <2>2 DEF VoteStep, SameVotes
<1>5. ASSUME NEW m \in Node, NEW p \in Node,
             RequestVoteStale(m, p) \/ AppendEntriesStale(m, p) \/ BecomeLeader(m, p)
      PROVE  VoteStep(n)
  <2>1. /\ \/ op' = [op EXCEPT ![m] = Round(m, "append", op[m].term, {})]
           \/ op' = [op EXCEPT ![m] = Idle]
        /\ log' = log
    BY <1>5 DEF RequestVoteStale, AppendEntriesStale, BecomeFollower, BecomeLeader
  <2>2. m # n /\ op'[n] = op[n]
    BY <1>0, <2>1 DEF Idle, Round
  <2>3. QED
    BY <2>1, <2>2 DEF VoteStep, SameVotes
<1>6. ASSUME NEW m \in Node, NEW p \in Node, RequestVoteGranted(m, p)
      PROVE  VoteStep(n)
  <2>1. /\ op' = [op EXCEPT ![m].todo = @ \ {p}, ![m].votes = @ \cup {p}]
        /\ log' = log /\ Grants(m, p) /\ op[m].kind = "vote"
        /\ op[m].term >= currentTerm[p]
        /\ currentTerm' = [currentTerm EXCEPT ![p] = op[m].term]
    BY <1>6 DEF RequestVoteGranted, TakeTermAndVote, Delivers
  <2>2. CASE m = n
    <3>1. /\ op'[n].term = op[n].term
          /\ op'[n].votes = op[n].votes \cup {p}
      BY <1>0, <2>1, <2>2 DEF RoundRecord
    <3>2. currentTerm[p] <= op[n].term /\ currentTerm'[p] = op[n].term
      BY <1>0, <2>1, <2>2, RoundTypes
    <3>3. VoteOf(n, p)
      BY <2>1, <2>2, <3>1, <3>2 DEF VoteOf
    <3>4. QED
      BY <3>3 DEF VoteStep
  <2>3. CASE m # n
    <3>1. op'[n] = op[n]
      BY <1>0, <2>1, <2>3
    <3>2. QED
      BY <2>1, <3>1 DEF VoteStep, SameVotes
  <2>4. QED
    BY <2>2, <2>3
<1>7. ASSUME NEW m \in Node, NEW p \in Node, AppendEntriesAccepted(m, p)
      PROVE  VoteStep(n)
  <2>1. op' = [op EXCEPT ![m].todo = @ \ {p}] /\ op[p] = Idle
    BY <1>7 DEF AppendEntriesAccepted, Delivers
  <2>2. op'[n].kind = op[n].kind /\ op'[n].term = op[n].term /\ op'[n].votes = op[n].votes
    BY <1>0, <2>1 DEF RoundRecord
  <2>3. n # p
    BY <2>1, <2>2 DEF Idle
  <2>4. log'[n] = log[n]
    BY <1>7, <2>3, AcceptedFacts
  <2>5. QED
    BY <2>2, <2>4 DEF VoteStep, SameVotes
<1>8. CASE UNCHANGED vars
  BY <1>8 DEF vars, persistVars, VoteStep, SameVotes
<1>9. QED
  BY <1>1, <1>2, <1>3, <1>4, <1>5, <1>6, <1>7, <1>8 DEF Next, RoundStep

\* BecomeLeader: the votes n had and the one of p are a majority.
LEMMA BecomeLeaderVotes ==
    ASSUME Inv, NEW n \in Node, NEW p \in Node, BecomeLeader(n, p)
    PROVE  /\ op[n].kind = "vote" /\ op[n].term = currentTerm[n]
           /\ IsQuorum(op[n].votes \cup {p})
           /\ Grants(n, p) /\ currentTerm[p] <= op[n].term /\ currentTerm'[p] = op[n].term
<1>1. /\ Cardinality(op[n].votes \cup {p}) >= Majority
      /\ Grants(n, p) /\ op[n].kind = "vote" /\ op[n].term >= currentTerm[p]
      /\ currentTerm' = [currentTerm EXCEPT ![p] = op[n].term]
  BY DEF BecomeLeader, TakeTermAndVote, Delivers
<1>2. /\ op[n].votes \cup {p} \subseteq Node /\ currentTerm \in [Node -> Nat]
      /\ op[n].term \in Nat
  BY RoundTypes
<1>3. op[n].term = currentTerm[n]
  BY <1>1 DEF Inv, RoundUndisturbed
<1>4. /\ Cardinality(op[n].votes \cup {p}) \in Nat
      /\ Cardinality(Node) \in Nat
  BY <1>2, CardinalityIsNat
<1>5. Cardinality(op[n].votes \cup {p}) > Cardinality(Node) \div 2
  BY <1>1, <1>4 DEF Majority
<1>6. QED
  BY <1>1, <1>2, <1>3, <1>5, MajorityIsQuorum

LEMMA VotersInTermStep == Inv /\ VotersInTerm /\ [Next]_vars => VotersInTerm'
<1> SUFFICES ASSUME Inv, VotersInTerm, [Next]_vars,
                    NEW n \in Node, op'[n].kind = "vote", NEW v \in op'[n].votes
             PROVE  op'[n].term <= currentTerm'[v]
  BY DEF VotersInTerm
<1>1. VoteStep(n)
  BY VoteFacts
<1>2. /\ op[n].votes \subseteq Node /\ op[n].term \in Nat
      /\ \A m \in Node : /\ currentTerm[m] \in Nat /\ currentTerm'[m] \in Nat
                         /\ currentTerm[m] <= currentTerm'[m]
  BY RoundTypes, TermsGrow
<1>3. ASSUME op[n].kind = "vote", v \in op[n].votes
      PROVE  op[n].term <= currentTerm'[v]
  <2>1. op[n].term <= currentTerm[v] /\ v \in Node
    BY <1>2, <1>3 DEF VotersInTerm
  <2>2. QED
    BY <1>2, <2>1
<1>4. CASE SameVotes(n)
  BY <1>3, <1>4 DEF SameVotes
<1>5. CASE FirstVote(n)
  BY <1>2, <1>5 DEF FirstVote
<1>6. ASSUME NEW p \in Node, VoteOf(n, p) PROVE op'[n].term <= currentTerm'[v]
  BY <1>2, <1>3, <1>6 DEF VoteOf
<1>7. QED
  BY <1>1, <1>4, <1>5, <1>6 DEF VoteStep

LEMMA MajorityReachedStep ==
    Inv /\ VotersInTerm /\ MajorityReached /\ [Next]_vars => MajorityReached'
<1> SUFFICES ASSUME Inv, VotersInTerm, MajorityReached, [Next]_vars, NEW e \in elected'
             PROVE  IsQuorum({v \in Node : e.term <= currentTerm'[v]})
  BY DEF MajorityReached
<1> DEFINE R == {v \in Node : e.term <= currentTerm'[v]}
<1>0. \A m \in Node : /\ currentTerm[m] \in Nat /\ currentTerm'[m] \in Nat
                      /\ currentTerm[m] <= currentTerm'[m]
  BY TermsGrow
<1>1. CASE e \in elected
  <2>1. e.term \in Nat
    BY <1>1, MatchingTypes
  <2>2. {v \in Node : e.term <= currentTerm[v]} \subseteq R
    BY <1>0, <2>1
  <2>3. IsQuorum({v \in Node : e.term <= currentTerm[v]})
    BY <1>1 DEF MajorityReached
  <2>4. QED
    BY <2>2, <2>3, QuorumGrows
<1>2. ASSUME e \notin elected,
             NEW n \in Node, NEW p \in Node, BecomeLeader(n, p)
      PROVE  IsQuorum(R)
  <2>1. e = [term |-> currentTerm[n], node |-> n]
    BY <1>2, BecomeLeaderFacts
  <2>2. /\ op[n].kind = "vote" /\ op[n].term = currentTerm[n]
        /\ IsQuorum(op[n].votes \cup {p}) /\ currentTerm'[p] = op[n].term
    BY <1>2, BecomeLeaderVotes
  <2>3. op[n].votes \subseteq Node
    BY RoundTypes
  <2>4. ASSUME NEW v \in op[n].votes \cup {p} PROVE v \in R
    <3>1. e.term = op[n].term /\ e.term \in Nat /\ v \in Node
      BY <1>0, <2>1, <2>2, <2>3
    <3>2. v \in op[n].votes => op[n].term <= currentTerm[v]
      BY <2>2 DEF VotersInTerm
    <3>3. QED
      BY <1>0, <2>2, <3>1, <3>2
  <2>5. op[n].votes \cup {p} \subseteq R /\ R \subseteq Node
    BY <2>4
  <2> HIDE DEF R
  <2>6. QED
    BY <2>2, <2>5, QuorumGrows
<1>3. e \in elected \/ \E n, p \in Node : BecomeLeader(n, p)
  <2>1. CASE QuietStep
    BY <2>1 DEF QuietStep
  <2>2. ASSUME NEW n \in Node, NEW c \in Command, Propose(n, c) PROVE e \in elected
    BY <2>2 DEF Propose
  <2>3. ASSUME NEW n \in Node, NEW p \in Node, AppendEntriesAccepted(n, p)
        PROVE  e \in elected
    BY <2>3 DEF AppendEntriesAccepted
  <2>4. QED
    BY <2>1, <2>2, <2>3, StepKinds
<1>4. QED
  BY <1>1, <1>2, <1>3

-----------------------------------------------------------------------------
(***************************************************************************)
(* The steps, by what they do to logs.                                     *)
(***************************************************************************)

\* The log of n is what some log was, and that was the log of a leader that n
\* now follows or its own; or n is a leader and has appended an entry.
KeptLog(n) == log'[n] = log[n]
CopiedFrom(n, w) ==
    /\ role[w] = Leader /\ currentTerm[n] <= currentTerm[w] /\ log'[n] = log[w]
    /\ role'[n] # Leader
AppendedOwn(n) ==
    /\ role[n] = Leader /\ Len(log'[n]) = Len(log[n]) + 1
    /\ \A i \in 1..Len(log[n]) : log'[n][i] = log[n][i]
    /\ log'[n][Len(log[n]) + 1].term = currentTerm[n]

LogStep(n) == KeptLog(n) \/ (\E w \in Node : CopiedFrom(n, w)) \/ AppendedOwn(n)

LEMMA LogFacts ==
    ASSUME Inv, LogsInv, ElectionSafety, [Next]_vars
    PROVE  \A n \in Node : LogStep(n)
<1> SUFFICES ASSUME NEW n \in Node PROVE LogStep(n)
  OBVIOUS
<1>1. CASE QuietStep
  BY <1>1 DEF QuietStep, LogStep, KeptLog
<1>2. ASSUME NEW m \in Node, NEW c \in Command, Propose(m, c) PROVE LogStep(n)
  <2>1. CASE m = n
    <3> DEFINE new == Append(log[n], [term |-> currentTerm[n], command |-> c])
    <3>1. /\ role[n] = Leader /\ log'[n] = new /\ Len(new) = Len(log[n]) + 1
          /\ \A i \in 1..Len(log[n]) : new[i] = log[n][i]
          /\ new[Len(log[n]) + 1].term = currentTerm[n]
      BY <1>2, <2>1, ProposeFacts
    <3> HIDE DEF new
    <3>2. QED
      BY <3>1 DEF LogStep, AppendedOwn
  <2>2. CASE m # n
    BY <1>2, <2>2, ProposeFacts DEF LogStep, KeptLog
  <2>3. QED
    BY <2>1, <2>2
<1>3. ASSUME NEW m \in Node, NEW p \in Node, BecomeLeader(m, p) PROVE LogStep(n)
  BY <1>3, BecomeLeaderFacts DEF LogStep, KeptLog
<1>4. ASSUME NEW m \in Node, NEW p \in Node, AppendEntriesAccepted(m, p) PROVE LogStep(n)
  <2>1. CASE p # n
    BY <1>4, <2>1, AcceptedFacts DEF LogStep, KeptLog
  <2>2. CASE p = n
    <3>1. Agree(log[p], log[m])
      BY DEF LogsInv, LogsAgree
    <3>2. log'[n] = log[m] \/ log'[n] = log[n]
      BY <1>4, <2>2, <3>1, AcceptedFacts
    <3>3. role[m] = Leader /\ currentTerm'[n] = currentTerm[m] /\ role'[n] # Leader
      BY <1>4, <2>2, AcceptedFacts DEF Follower, Leader
    <3>4. currentTerm[n] <= currentTerm[m]
      BY <3>3, TermsGrow
    <3>5. QED
      BY <3>2, <3>3, <3>4 DEF LogStep, KeptLog, CopiedFrom
  <2>3. QED
    BY <2>1, <2>2
<1>5. QED
  BY <1>1, <1>2, <1>3, <1>4, StepKinds

LEMMA LogLengths ==
    ASSUME Inv, [Next]_vars
    PROVE  \A n \in Node : Len(log[n]) \in Nat /\ Len(log'[n]) \in Nat
<1>1. \A n \in Node : log[n] \in Seq(Entry)
  BY DEF Inv, TypeOK
<1>2. Inv'
  BY InvStep
<1>3. \A n \in Node : log'[n] \in Seq(Entry)
  BY <1>2 DEF Inv, TypeOK
<1>4. QED
  BY <1>1, <1>3

\* Terms stay shared.
LEMMA TermsSharedStep ==
    ASSUME Inv, TermsInv, LogsInv, ElectionSafety, TermsShared, [Next]_vars
    PROVE  TermsShared'
<1> SUFFICES ASSUME NEW m \in Node, NEW n \in Node,
                    NEW i \in 1..Len(log'[m]), NEW j \in 1..Len(log'[n]),
                    i <= j, log'[m][i].term = log'[n][j].term
             PROVE  log'[n][i].term = log'[m][i].term
  BY DEF TermsShared
<1>1. \A l \in Node : LogStep(l) /\ Len(log[l]) \in Nat /\ Len(log'[l]) \in Nat
  BY LogFacts, LogLengths
<1>2. ASSUME NEW l \in Node, NEW x \in 1..Len(log'[l]), ~(AppendedOwn(l) /\ x = Len(log[l]) + 1)
      PROVE  \E w \in Node : /\ x \in 1..Len(log[w])
                             /\ \A y \in 1..x : log'[l][y] = log[w][y]
  <2>1. CASE KeptLog(l)
    BY <2>1 DEF KeptLog
  <2>2. CASE \E w \in Node : CopiedFrom(l, w)
    BY <2>2 DEF CopiedFrom
  <2>3. CASE AppendedOwn(l)
    <3>1. x \in 1..Len(log[l])
      BY <1>1, <1>2, <2>3 DEF AppendedOwn
    <3>2. \A y \in 1..x : y \in 1..Len(log[l])
      BY <1>1, <3>1
    <3>3. QED
      BY <2>3, <3>1, <3>2 DEF AppendedOwn
  <2>4. QED
    BY <1>1, <2>1, <2>2, <2>3 DEF LogStep
<1>3. i \in 1..Len(log'[n]) /\ i \in Nat /\ j \in Nat
  BY <1>1
<1>4. CASE AppendedOwn(n) /\ j = Len(log[n]) + 1
  <2>1. log'[n][j].term = currentTerm[n] /\ role[n] = Leader
    BY <1>4 DEF AppendedOwn
  <2>2. CASE i = j
    BY <2>1, <2>2
  <2>3. CASE i # j
    <3>1. i \in 1..Len(log[n]) /\ log'[n][i] = log[n][i]
      BY <1>1, <1>3, <1>4, <2>3 DEF AppendedOwn
    <3>2. CASE AppendedOwn(m) /\ i = Len(log[m]) + 1
      <4>1. role[m] = Leader /\ currentTerm[m] = currentTerm[n]
        BY <2>1, <3>2 DEF AppendedOwn
      <4>2. m = n
        BY <2>1, <4>1, SameLeader DEF TermsInv
      <4>3. QED
        BY <1>4, <2>3, <3>2, <4>2
    <3>3. CASE ~(AppendedOwn(m) /\ i = Len(log[m]) + 1)
      <4>1. PICK w \in Node : i \in 1..Len(log[w]) /\ \A y \in 1..i : log'[m][y] = log[w][y]
        BY <1>2, <3>3
      <4>2. log[w][i].term = currentTerm[n]
        BY <1>3, <2>1, <4>1
      <4>3. log[n][i].term = currentTerm[n]
        BY <2>1, <4>1, <4>2 DEF LogsInv, LeadersHaveTerm
      <4>4. QED
        BY <2>1, <3>1, <4>3
    <3>4. QED
      BY <3>2, <3>3
  <2>4. QED
    BY <2>2, <2>3
<1>5. CASE ~(AppendedOwn(n) /\ j = Len(log[n]) + 1)
  <2>1. PICK w \in Node : j \in 1..Len(log[w]) /\ \A y \in 1..j : log'[n][y] = log[w][y]
    BY <1>2, <1>5
  <2>2. j \in 1..j /\ i \in 1..j
    BY <1>3
  <2>3. log'[n][j] = log[w][j] /\ log'[n][i] = log[w][i]
    BY <2>1, <2>2
  <2>4. CASE AppendedOwn(m) /\ i = Len(log[m]) + 1
    <3>1. log'[m][i].term = currentTerm[m] /\ role[m] = Leader
      BY <2>4 DEF AppendedOwn
    <3>2. j <= Len(log[m])
      BY <2>1, <2>3, <3>1 DEF LogsInv, LeadersHaveTerm
    <3>3. QED
      BY <1>1, <1>3, <2>4, <3>2
  <2>5. CASE ~(AppendedOwn(m) /\ i = Len(log[m]) + 1)
    <3>1. PICK v \in Node : i \in 1..Len(log[v]) /\ \A y \in 1..i : log'[m][y] = log[v][y]
      BY <1>2, <2>5
    <3>2. log'[m][i] = log[v][i]
      BY <1>3, <3>1
    <3>3. log[w][i].term = log[v][i].term
      BY <2>1, <2>3, <3>1, <3>2 DEF TermsShared
    <3>4. QED
      BY <2>3, <3>2, <3>3
  <2>6. QED
    BY <2>4, <2>5
<1>6. QED
  BY <1>4, <1>5

-----------------------------------------------------------------------------
(***************************************************************************)
(* A secured entry stays secured.                                          *)
(***************************************************************************)

\* A log loses no entry that the later leaders hold.
LEMMA HoldsKept ==
    ASSUME Inv, LogsOrdered, LogsInv, ElectionSafety, [Next]_vars,
           NEW k, NEW t \in Nat, LeadersHold(k, t), NEW n \in Node, Has(log[n], k, t)
    PROVE  Has(log'[n], k, t)
<1>0. /\ LogStep(n) /\ Len(log[n]) \in Nat /\ Len(log'[n]) \in Nat
      /\ \A m \in Node : currentTerm[m] \in Nat
  BY LogFacts, LogLengths, TermsGrow
<1>1. CASE KeptLog(n)
  BY <1>1 DEF KeptLog
<1>2. ASSUME NEW w \in Node, CopiedFrom(n, w) PROVE Has(log'[n], k, t)
  <2>1. role[w] = Leader /\ currentTerm[n] <= currentTerm[w] /\ log'[n] = log[w]
    BY <1>2 DEF CopiedFrom
  <2>2. t <= currentTerm[n]
    BY DEF LogsOrdered, BoundedBy, Has
  <2>3. CASE t < currentTerm[w]
    BY <2>1, <2>3 DEF LeadersHold
  <2>4. CASE t = currentTerm[w]
    <3>1. k \in 1..Len(log[n]) /\ log[n][k].term = currentTerm[w]
      BY <2>4 DEF Has
    <3>2. k <= Len(log[w]) /\ log[w][k].term = currentTerm[w]
      BY <2>1, <3>1 DEF LogsInv, LeadersHaveTerm
    <3>3. Len(log[w]) \in Nat
      BY LogLengths
    <3>4. QED
      BY <2>1, <2>4, <3>1, <3>2, <3>3 DEF Has
  <2>5. QED
    BY <1>0, <2>1, <2>2, <2>3, <2>4
<1>3. CASE AppendedOwn(n)
  <2>1. k \in 1..Len(log[n]) /\ log[n][k].term = t
    BY DEF Has
  <2>2. k \in 1..Len(log'[n]) /\ log'[n][k] = log[n][k]
    BY <1>0, <1>3, <2>1 DEF AppendedOwn
  <2>3. QED
    BY <2>1, <2>2 DEF Has
<1>4. QED
  BY <1>0, <1>1, <1>2, <1>3 DEF LogStep

\* The election restriction: a voter votes only for candidates that hold what it
\* holds, when that is held by every log with a later term.
LEMMA GrantHolds ==
    ASSUME Inv, LogsOrdered, TermsShared, NEW k, NEW t \in Nat, LaterLogsHold(k, t),
           NEW n \in Node, NEW p \in Node, Grants(n, p), Has(log[p], k, t)
    PROVE  Has(log[n], k, t)
<1>1. /\ Len(log[n]) \in Nat /\ Len(log[p]) \in Nat
      /\ log[n] \in Seq(Entry) /\ log[p] \in Seq(Entry)
  BY MatchingTypes
<1>2. /\ \A i \in 1..Len(log[n]) : log[n][i].term \in Nat
      /\ \A i \in 1..Len(log[p]) : log[p][i].term \in Nat
  BY <1>1, EntryTerms
<1>3. k \in 1..Len(log[p]) /\ log[p][k].term = t
  BY DEF Has
<1>4. Len(log[p]) \in 1..Len(log[p]) /\ k <= Len(log[p])
  BY <1>1, <1>3
<1>5. t <= log[p][Len(log[p])].term
  BY <1>3, <1>4 DEF LogsOrdered, Ordered
<1>6. LastTerm(log[p]) = log[p][Len(log[p])].term
  BY <1>4 DEF LastTerm, TermAt
<1>7. \/ LastTerm(log[n]) > LastTerm(log[p])
      \/ LastTerm(log[n]) = LastTerm(log[p]) /\ Len(log[n]) >= Len(log[p])
  BY DEF Grants, UpToDate, LastIndex
<1>8. CASE Len(log[n]) = 0
  <2>1. LastTerm(log[n]) = 0
    BY <1>8 DEF LastTerm, TermAt
  <2>2. log[p][Len(log[p])].term \in Nat
    BY <1>2, <1>4
  <2>3. QED
    BY <1>1, <1>3, <1>4, <1>5, <1>6, <1>7, <1>8, <2>1, <2>2
<1>9. CASE Len(log[n]) # 0
  <2> DEFINE j == Len(log[n])
  <2>1. j \in 1..Len(log[n]) /\ LastTerm(log[n]) = log[n][j].term
    BY <1>1, <1>9 DEF LastTerm, TermAt
  <2>2. log[n][j].term \in Nat /\ log[p][Len(log[p])].term \in Nat
    BY <1>2, <1>4, <2>1
  <2>3. CASE t < log[n][j].term
    BY <2>1, <2>3 DEF LaterLogsHold
  <2>4. CASE ~(t < log[n][j].term)
    <3>1. log[n][j].term = t /\ k <= j
      <4> DEFINE ln == log[n][j].term  lp == log[p][Len(log[p])].term  Lp == Len(log[p])
      <4>1. /\ ln \in Nat /\ lp \in Nat /\ j \in Nat /\ Lp \in Nat /\ k \in Nat
            /\ t <= lp /\ ~(t < ln) /\ k <= Lp
        BY <1>1, <1>3, <1>4, <1>5, <2>2, <2>4
      <4>2. ln > lp \/ (ln = lp /\ j >= Lp)
        BY <1>6, <1>7, <2>1
      <4> HIDE DEF ln, lp, Lp, j
      <4>3. ln = t /\ k <= j
        BY <4>1, <4>2
      <4>4. QED
        BY <4>3 DEF ln, j
    <3>2. log[n][k].term = t
      BY <1>3, <2>1, <3>1 DEF TermsShared
    <3>3. k \in 1..Len(log[n])
      BY <1>1, <1>3, <3>1
    <3>4. QED
      BY <3>2, <3>3 DEF Has
  <2>5. QED
    BY <2>3, <2>4
<1>10. QED
  BY <1>8, <1>9

SafeState == Inv /\ LogsOrdered /\ TermsInv /\ LogsInv /\ ReachInv /\ ElectionSafety /\ TermsShared

\* A candidate that a node of Q has voted for holds the entry.
LEMMA CandidatesHoldStep ==
    ASSUME SafeState, [Next]_vars, NEW k, NEW t \in Nat, NEW Q, Q \subseteq Node,
           Secured(k, t, Q)
    PROVE  CandidatesHold(k, t, Q)'
<1> USE DEF SafeState
<1> SUFFICES ASSUME NEW n \in Node, op'[n].kind = "vote", t < op'[n].term,
                    NEW v \in op'[n].votes, v \in Q
             PROVE  Has(log'[n], k, t)
  BY DEF CandidatesHold
<1>1. VoteStep(n)
  BY VoteFacts
<1>2. ASSUME op[n].kind = "vote", op'[n].term = op[n].term, v \in op[n].votes,
             log'[n] = log[n]
      PROVE  Has(log'[n], k, t)
  BY <1>2 DEF Secured, CandidatesHold
<1>3. CASE SameVotes(n)
  BY <1>2, <1>3 DEF SameVotes
<1>4. CASE FirstVote(n)
  BY <1>4 DEF FirstVote, Secured, Holding
<1>5. ASSUME NEW p \in Node, VoteOf(n, p) PROVE Has(log'[n], k, t)
  <2>1. CASE v \in op[n].votes
    BY <1>2, <1>5, <2>1 DEF VoteOf
  <2>2. CASE v = p
    <3>1. Has(log[p], k, t) /\ LaterLogsHold(k, t)
      BY <2>2 DEF Secured, Holding
    <3>2. Has(log[n], k, t)
      BY <1>5, <3>1, GrantHolds DEF VoteOf
    <3>3. QED
      BY <1>5, <3>2 DEF VoteOf
  <2>3. QED
    BY <1>5, <2>1, <2>2 DEF VoteOf
<1>6. QED
  BY <1>1, <1>3, <1>4, <1>5 DEF VoteStep

\* A new leader was voted for by a node that holds the entry, or by one that
\* can no longer accept it; and those that can are not enough.
LEMMA LeadersHoldStep ==
    ASSUME SafeState, [Next]_vars, NEW k, NEW t \in Nat, NEW Q, Q \subseteq Node,
           Secured(k, t, Q), IsQuorum(Able(t, Q)')
    PROVE  LeadersHold(k, t)'
<1> USE DEF SafeState
<1> SUFFICES ASSUME NEW n \in Node, role'[n] = Leader, t < currentTerm'[n]
             PROVE  Has(log'[n], k, t)
  BY DEF LeadersHold
<1>0. Secured(k, t, Q) => LeadersHold(k, t)
  BY DEF Secured
<1>1. CASE role[n] = Leader /\ currentTerm'[n] = currentTerm[n]
  <2>1. Has(log[n], k, t)
    BY <1>0, <1>1 DEF LeadersHold
  <2>2. QED
    BY <1>0, <2>1, HoldsKept
<1>2. ASSUME NEW p \in Node, BecomeLeader(n, p)
      PROVE  Has(log'[n], k, t)
  <2>1. /\ UNCHANGED log /\ currentTerm'[n] = currentTerm[n]
        /\ op[n].kind = "vote" /\ op[n].term = currentTerm[n]
        /\ IsQuorum(op[n].votes \cup {p})
        /\ Grants(n, p) /\ currentTerm'[p] = op[n].term
    BY <1>2, BecomeLeaderFacts, BecomeLeaderVotes
  <2>2. /\ op[n].votes \subseteq Node /\ op[n].term \in Nat
        /\ \A m \in Node : /\ currentTerm[m] \in Nat /\ currentTerm'[m] \in Nat
                           /\ currentTerm[m] <= currentTerm'[m]
    BY RoundTypes, TermsGrow
  <2>3. Able(t, Q)' = Q \cup {v \in Node : currentTerm'[v] <= t}
    BY DEF Able
  <2>4. PICK v \in Node : /\ v \in op[n].votes \cup {p}
                          /\ v \in Q \cup {w \in Node : currentTerm'[w] <= t}
    <3> DEFINE P == op[n].votes \cup {p}
               R == Q \cup {w \in Node : currentTerm'[w] <= t}
    <3>1. P \subseteq Node /\ R \subseteq Node /\ IsQuorum(P) /\ IsQuorum(R)
      BY <2>1, <2>2, <2>3
    <3> HIDE DEF P, R
    <3>2. \E v \in Node : v \in P /\ v \in R
      BY <3>1, QuorumsMeet
    <3>3. QED
      BY <3>2 DEF P, R
  <2>5. t < currentTerm'[v]
    <3>1. v \in op[n].votes => op[n].term <= currentTerm[v]
      BY <2>1 DEF ReachInv, VotersInTerm
    <3>2. QED
      BY <2>1, <2>2, <2>4, <3>1
  <2>6. v \in Q
    BY <2>2, <2>4, <2>5
  <2>7. CASE v \in op[n].votes
    BY <2>1, <2>6, <2>7 DEF Secured, CandidatesHold
  <2>8. CASE v = p
    <3>1. Has(log[p], k, t) /\ LaterLogsHold(k, t)
      BY <2>6, <2>8 DEF Secured, Holding
    <3>2. Has(log[n], k, t)
      BY <2>1, <3>1, GrantHolds
    <3>3. QED
      BY <2>1, <3>2
  <2>9. QED
    BY <2>4, <2>7, <2>8
<1>3. \/ role[n] = Leader /\ currentTerm'[n] = currentTerm[n]
      \/ \E p \in Node : BecomeLeader(n, p)
  <2>1. CASE QuietStep
    BY <2>1 DEF QuietStep
  <2>2. ASSUME NEW m \in Node, NEW c \in Command, Propose(m, c)
        PROVE  role[n] = Leader /\ currentTerm'[n] = currentTerm[n]
    BY <2>2, ProposeFacts
  <2>3. ASSUME NEW m \in Node, NEW p \in Node, AppendEntriesAccepted(m, p)
        PROVE  role[n] = Leader /\ currentTerm'[n] = currentTerm[n]
    <3>1. n # p
      BY <2>3, AcceptedFacts DEF Follower, Leader
    <3>2. QED
      BY <2>3, <3>1, AcceptedFacts
  <2>4. ASSUME NEW m \in Node, NEW p \in Node, BecomeLeader(m, p), m # n
        PROVE  role[n] = Leader /\ currentTerm'[n] = currentTerm[n]
    BY <2>4, BecomeLeaderFacts
  <2>5. QED
    BY <2>1, <2>2, <2>3, <2>4, StepKinds
<1>4. QED
  BY <1>1, <1>2, <1>3

LEMMA LaterLogsHoldStep ==
    ASSUME SafeState, [Next]_vars, NEW k, NEW t \in Nat, LeadersHold(k, t), LaterLogsHold(k, t)
    PROVE  LaterLogsHold(k, t)'
<1> USE DEF SafeState
<1> SUFFICES ASSUME NEW n \in Node, NEW i \in 1..Len(log'[n]), t < log'[n][i].term
             PROVE  Has(log'[n], k, t)
  BY DEF LaterLogsHold
<1>1. LogStep(n) /\ Len(log[n]) \in Nat
  BY LogFacts, LogLengths
<1>2. CASE KeptLog(n)
  BY <1>2 DEF KeptLog, LaterLogsHold
<1>3. ASSUME NEW w \in Node, CopiedFrom(n, w) PROVE Has(log'[n], k, t)
  BY <1>3 DEF CopiedFrom, LaterLogsHold
<1>4. CASE AppendedOwn(n)
  <2>1. CASE i \in 1..Len(log[n])
    <3>1. t < log[n][i].term
      BY <1>4, <2>1 DEF AppendedOwn
    <3>2. Has(log[n], k, t)
      BY <2>1, <3>1 DEF LaterLogsHold
    <3>3. QED
      BY <3>2, HoldsKept
  <2>2. CASE i = Len(log[n]) + 1
    <3>1. role[n] = Leader /\ t < currentTerm[n]
      BY <1>4, <2>2 DEF AppendedOwn
    <3>2. Has(log[n], k, t)
      BY <3>1 DEF LeadersHold
    <3>3. QED
      BY <3>2, HoldsKept
  <2>3. QED
    BY <1>1, <1>4, <2>1, <2>2 DEF AppendedOwn
<1>5. QED
  BY <1>1, <1>2, <1>3, <1>4 DEF LogStep

LEMMA SecuredStep ==
    ASSUME SafeState, [Next]_vars, NEW k, NEW t \in Nat, NEW Q, Q \subseteq Node,
           Secured(k, t, Q), IsQuorum(Able(t, Q)')
    PROVE  Secured(k, t, Q)'
<1>1. LeadersHold(k, t) /\ LaterLogsHold(k, t) /\ Holding(k, t, Q)
  BY DEF Secured
<1>2. Holding(k, t, Q)'
  BY <1>1, HoldsKept DEF Holding, SafeState
<1>3. LeadersHold(k, t)' /\ LaterLogsHold(k, t)' /\ CandidatesHold(k, t, Q)'
  BY <1>1, LeadersHoldStep, LaterLogsHoldStep, CandidatesHoldStep
<1>4. QED
  BY <1>2, <1>3 DEF Secured

-----------------------------------------------------------------------------
(***************************************************************************)
(* What the leader counts is secured.                                      *)
(***************************************************************************)

LEMMA ReachStep ==
    Inv /\ LogsOrdered /\ TermsInv /\ LogsInv /\ ReachInv /\ [Next]_vars
        => Inv' /\ LogsOrdered' /\ TermsInv' /\ LogsInv' /\ ReachInv'
BY InvStep, LogsOrderedStep, MatchingStep, VotersInTermStep, MajorityReachedStep DEF ReachInv

\* A step of Next leaves a leader of before with the log it had, or appends to it.
LEMMA LeaderSteps ==
    ASSUME SafeState, [Next]_vars, NEW n \in Node, role'[n] = Leader,
           ~(\E p \in Node : BecomeLeader(n, p))
    PROVE  /\ role[n] = Leader /\ currentTerm'[n] = currentTerm[n]
           /\ \/ log'[n] = log[n]
              \/ \E c \in Command : Propose(n, c)
<1> USE DEF SafeState
<1>1. CASE QuietStep
  BY <1>1 DEF QuietStep
<1>2. ASSUME NEW m \in Node, NEW c \in Command, Propose(m, c)
      PROVE  /\ role[n] = Leader /\ currentTerm'[n] = currentTerm[n]
             /\ log'[n] = log[n] \/ \E d \in Command : Propose(n, d)
  <2>1. /\ UNCHANGED <<currentTerm, role>>
        /\ \A l \in Node \ {m} : log'[l] = log[l]
    BY <1>2, ProposeFacts
  <2>2. QED
    BY <1>2, <2>1
<1>3. ASSUME NEW m \in Node, NEW p \in Node, AppendEntriesAccepted(m, p)
      PROVE  role[n] = Leader /\ currentTerm'[n] = currentTerm[n] /\ log'[n] = log[n]
  <2>1. n # p
    BY <1>3, AcceptedFacts DEF Follower, Leader
  <2>2. QED
    BY <1>3, <2>1, AcceptedFacts
<1>4. ASSUME NEW m \in Node, NEW p \in Node, BecomeLeader(m, p)
      PROVE  role[n] = Leader /\ currentTerm'[n] = currentTerm[n] /\ log'[n] = log[n]
  <2>1. m # n
    BY <1>4
  <2>2. QED
    BY <1>4, <2>1, BecomeLeaderFacts
<1>5. QED
  BY <1>1, <1>2, <1>3, <1>4, StepKinds

\* UpdateCommitIndex counts one more node for an index only when that node has
\* accepted the leader's whole log.
LEMMA CountedFacts ==
    ASSUME SafeState, [Next]_vars, NEW n \in Node, role[n] = Leader, role'[n] = Leader,
           NEW k \in 1..Len(log[n]), NEW v \in Counted(n, k)', v \notin Counted(n, k)
    PROVE  v \in Node /\ AppendEntriesAccepted(n, v)
<1> USE DEF SafeState
<1>1. v \in Peers(n) /\ v \in Node /\ matchIndex'[n][v] >= k /\ ~(matchIndex[n][v] >= k)
  BY DEF Counted, Peers
<1>2. matchIndex'[n][v] # matchIndex[n][v]
  BY <1>1
<1>3. ASSUME NEW m \in Node, NEW p \in Node, BecomeLeader(m, p) PROVE FALSE
  <2>1. m # n
    BY <1>3, BecomeLeaderFacts DEF Candidate, Leader
  <2>2. matchIndex'[n] = matchIndex[n]
    BY <1>3, <2>1, BecomeLeaderFacts
  <2>3. QED
    BY <1>2, <2>2
<1>4. ASSUME NEW m \in Node, NEW p \in Node, AppendEntriesAccepted(m, p)
      PROVE  m = n /\ p = v
  BY <1>1, <1>2, <1>4, AcceptedFacts
<1>5. ~QuietStep /\ \A m \in Node, c \in Command : ~Propose(m, c)
  BY <1>2, ProposeFacts DEF QuietStep
<1>6. QED
  BY <1>1, <1>3, <1>4, <1>5, StepKinds

\* And it counts no fewer.
LEMMA CountedKept ==
    ASSUME SafeState, [Next]_vars, NEW n \in Node, role[n] = Leader, role'[n] = Leader,
           NEW k \in 1..Len(log[n])
    PROVE  Counted(n, k) \subseteq Counted(n, k)'
<1> USE DEF SafeState
<1> SUFFICES ASSUME NEW v \in Peers(n), matchIndex[n][v] >= k
             PROVE  matchIndex'[n][v] >= k
  BY DEF Counted
<1>0. v \in Node /\ k <= Len(log[n])
  BY DEF Peers
<1>1. CASE QuietStep
  BY <1>1 DEF QuietStep
<1>2. ASSUME NEW m \in Node, NEW p \in Node, BecomeLeader(m, p)
      PROVE  matchIndex'[n] = matchIndex[n]
  <2>1. m # n
    BY <1>2, BecomeLeaderFacts DEF Candidate, Leader
  <2>2. QED
    BY <1>2, <2>1, BecomeLeaderFacts
<1>3. ASSUME NEW m \in Node, NEW p \in Node, AppendEntriesAccepted(m, p)
      PROVE  matchIndex'[n][v] \in {matchIndex[n][v], Len(log[n])}
  BY <1>0, <1>3, AcceptedFacts
<1>4. ASSUME NEW m \in Node, NEW c \in Command, Propose(m, c)
      PROVE  matchIndex'[n][v] = matchIndex[n][v]
  BY <1>4, ProposeFacts
<1>5. Len(log[n]) \in Nat /\ Len(log[n]) >= k
  BY <1>0, MatchingTypes
<1>6. QED
  BY <1>1, <1>2, <1>3, <1>4, <1>5, StepKinds

\* An accepted call leaves the callee with every entry of the caller's log.
LEMMA AcceptedHolds ==
    ASSUME SafeState, NEW n \in Node, NEW p \in Node, AppendEntriesAccepted(n, p),
           NEW k, NEW t \in Nat, Has(log[n], k, t)
    PROVE  Has(log'[p], k, t)
<1> USE DEF SafeState
<1>1. Agree(log[p], log[n])
  BY DEF LogsInv, LogsAgree
<1>2. \/ log'[p] = log[n]
      \/ /\ log'[p] = log[p] /\ Len(log[n]) <= Len(log[p])
         /\ \A i \in 1..Len(log[n]) : log[p][i] = log[n][i]
  BY <1>1, AcceptedFacts
<1>3. /\ k \in 1..Len(log[n]) /\ log[n][k].term = t
      /\ Len(log[n]) \in Nat /\ Len(log[p]) \in Nat
  BY MatchingTypes DEF Has
<1>4. QED
  BY <1>2, <1>3 DEF Has

\* An entry the leader had already: the nodes it counts hold it, and the one it
\* counts from now on votes for no candidate of a later term.
LEMMA UncommittedKept ==
    ASSUME SafeState, UncommittedSecured, [Next]_vars, NEW n \in Node,
           role[n] = Leader, role'[n] = Leader, currentTerm'[n] = currentTerm[n],
           NEW k \in 1..Len(log[n]), log[n][k].term = currentTerm[n],
           IsQuorum(Able(currentTerm[n], Counted(n, k))')
    PROVE  Secured(k, currentTerm[n], Counted(n, k))'
<1> USE DEF SafeState
<1>1. PICK t \in Nat : t = currentTerm[n]
  BY MatchingTypes
<1>2. PICK Q : Q = Counted(n, k)
  OBVIOUS
<1>3. PICK R : R = Counted(n, k)'
  OBVIOUS
<1>4. Q \subseteq R /\ R \subseteq Node
  BY <1>2, <1>3, CountedKept DEF Counted, Peers
<1>5. ASSUME NEW v \in R, v \notin Q
      PROVE  v \in Node /\ AppendEntriesAccepted(n, v) /\ currentTerm'[v] = t
  <2>1. v \in Node /\ AppendEntriesAccepted(n, v)
    BY <1>2, <1>3, <1>5, CountedFacts
  <2>2. QED
    BY <1>1, <2>1, AcceptedFacts
<1>6. \A v \in Node : /\ currentTerm[v] \in Nat /\ currentTerm'[v] \in Nat
                      /\ currentTerm[v] <= currentTerm'[v]
  BY TermsGrow
<1>7. IsQuorum(R \cup {v \in Node : currentTerm'[v] <= t})
  BY <1>1, <1>3 DEF Able
<1>8. R \cup {v \in Node : currentTerm'[v] <= t} = Q \cup {v \in Node : currentTerm'[v] <= t}
  BY <1>1, <1>4, <1>5, <1>6
<1>9. IsQuorum(Able(t, Q)')
  BY <1>7, <1>8 DEF Able
<1>10. IsQuorum(Able(t, Q))
  <2> DEFINE P == Q \cup {v \in Node : currentTerm'[v] <= t}
             S == Q \cup {v \in Node : currentTerm[v] <= t}
  <2>1. P \subseteq S /\ S \subseteq Node
    BY <1>1, <1>4, <1>6
  <2>2. IsQuorum(P)
    BY <1>7, <1>8
  <2> HIDE DEF P
  <2>3. IsQuorum(S)
    BY <2>1, <2>2, QuorumGrows
  <2>4. QED
    BY <2>3 DEF Able
<1>11. Secured(k, t, Q)
  BY <1>1, <1>2, <1>10 DEF UncommittedSecured
<1>12. Secured(k, t, Q)'
  BY <1>4, <1>9, <1>11, SecuredStep
<1>13. Holding(k, t, R)'
  <2> SUFFICES ASSUME NEW v \in R PROVE Has(log'[v], k, t)
    BY DEF Holding
  <2>1. CASE v \in Q
    BY <1>12, <2>1 DEF Secured, Holding
  <2>2. CASE v \notin Q
    <3>1. v \in Node /\ AppendEntriesAccepted(n, v)
      BY <1>5, <2>2
    <3>2. Has(log[n], k, t)
      BY <1>1 DEF Has
    <3>3. QED
      BY <3>1, <3>2, AcceptedHolds
  <2>3. QED
    BY <2>1, <2>2
<1>14. CandidatesHold(k, t, R)'
  <2> SUFFICES ASSUME NEW m \in Node, op'[m].kind = "vote", t < op'[m].term,
                      NEW v \in op'[m].votes, v \in R
               PROVE  Has(log'[m], k, t)
    BY DEF CandidatesHold
  <2>1. CASE v \in Q
    BY <1>12, <2>1 DEF Secured, CandidatesHold
  <2>2. CASE v \notin Q
    <3>1. v \in Node /\ currentTerm'[v] = t
      BY <1>5, <2>2
    <3>2. op'[m].term <= currentTerm'[v]
      BY ReachStep DEF ReachInv, VotersInTerm
    <3>3. op'[m].term \in Nat
      <4>1. Inv'
        BY InvStep
      <4>2. op' \in [Node -> RoundRecord]
        BY <4>1 DEF Inv, TypeOK
      <4>3. QED
        BY <4>2 DEF RoundRecord
    <3>4. QED
      BY <3>1, <3>2, <3>3
  <2>3. QED
    BY <2>1, <2>2
<1>15. Secured(k, t, R)'
  BY <1>12, <1>13, <1>14 DEF Secured
<1>16. QED
  BY <1>1, <1>3, <1>15

\* A new entry: if a quorum may still accept it, there is no later term yet.
LEMMA ProposedSecured ==
    ASSUME SafeState, [Next]_vars, NEW n \in Node, NEW c \in Command, Propose(n, c),
           NEW k, k = Len(log[n]) + 1, IsQuorum(Able(currentTerm[n], Counted(n, k))')
    PROVE  Secured(k, currentTerm[n], Counted(n, k))'
<1> USE DEF SafeState
<1>1. PICK t \in Nat : t = currentTerm[n]
  BY MatchingTypes
<1>2. /\ UNCHANGED <<currentTerm, role, elected, matchIndex>> /\ role[n] = Leader
      /\ Len(log'[n]) = k /\ log'[n][k].term = t
  BY <1>1, ProposeFacts
<1>3. Counted(n, k)' = {n}
  <2>1. ASSUME NEW p \in Peers(n) PROVE ~(matchIndex'[n][p] >= k)
    <3>1. p \in Node /\ matchIndex'[n][p] = matchIndex[n][p]
      BY <1>2 DEF Peers
    <3>2. matchIndex[n][p] <= Len(log[n]) /\ matchIndex[n][p] \in Nat /\ Len(log[n]) \in Nat
      BY <1>2, <3>1, MatchingTypes DEF LogsInv, PeersHold
    <3>3. QED
      BY <3>1, <3>2
  <2>2. QED
    BY <2>1 DEF Counted
<1>4. Inv' /\ LogsOrdered' /\ TermsInv' /\ LogsInv' /\ ReachInv' /\ ElectionSafety'
  BY <1>2, ReachStep DEF ElectionSafety
<1>5. \A m \in Node : /\ op'[m].term \in Nat /\ currentTerm'[m] \in Nat
                      /\ \A i \in 1..Len(log'[m]) : log'[m][i].term \in Nat
  <2>1. op' \in [Node -> RoundRecord]
    BY <1>4 DEF Inv, TypeOK
  <2>2. \A m \in Node : op'[m].term \in Nat
    BY <2>1 DEF RoundRecord
  <2>3. log' \in [Node -> Seq(Entry)]
    BY <1>4 DEF Inv, TypeOK
  <2>4. ASSUME NEW m \in Node, NEW i \in 1..Len(log'[m]) PROVE log'[m][i].term \in Nat
    <3>1. log'[m] \in Seq(Entry)
      BY <2>3
    <3>2. log'[m][i] \in Entry
      BY <3>1, ElementOfSeq
    <3>3. QED
      BY <3>2 DEF Entry
  <2>5. QED
    BY <2>2, <2>4, TermsGrow
<1>6. ASSUME NEW e \in elected PROVE e.term <= t
  <2> DEFINE S == {v \in Node : currentTerm[v] <= t}
  <2>1. Able(currentTerm[n], Counted(n, k))' = {n} \cup {v \in Node : currentTerm'[v] <= t}
    BY <1>1, <1>2, <1>3 DEF Able
  <2>2. {n} \cup {v \in Node : currentTerm'[v] <= t} = S
    BY <1>1, <1>2
  <2>3. IsQuorum(S) /\ S \subseteq Node /\ \A v \in S : currentTerm[v] <= t
    BY <2>1, <2>2
  <2> HIDE DEF S
  <2>4. QED
    BY <2>3, NoLaterTerm DEF ReachInv
<1>7. Holding(k, t, {n})'
  <2>1. k \in 1..k
    BY <1>2, MatchingTypes
  <2>2. QED
    BY <1>2, <2>1 DEF Holding, Has
<1>8. LeadersHold(k, t)'
  <2> SUFFICES ASSUME NEW m \in Node, role'[m] = Leader, t < currentTerm'[m] PROVE FALSE
    BY DEF LeadersHold
  <2>1. [term |-> currentTerm'[m], node |-> m] \in elected'
    BY <1>4 DEF TermsInv, LeadersElected
  <2>2. currentTerm'[m] <= t
    BY <1>2, <1>6, <2>1
  <2>3. QED
    BY <1>5, <2>2
<1>9. LaterLogsHold(k, t)'
  <2> SUFFICES ASSUME NEW m \in Node, NEW i \in 1..Len(log'[m]), t < log'[m][i].term
               PROVE  FALSE
    BY DEF LaterLogsHold
  <2>1. \E e \in elected' : e.term = log'[m][i].term
    BY <1>4 DEF LogsInv, EntriesElected
  <2>2. log'[m][i].term <= t
    BY <1>2, <1>6, <2>1
  <2>3. QED
    BY <1>5, <2>2
<1>10. CandidatesHold(k, t, {n})'
  <2> SUFFICES ASSUME NEW m \in Node, op'[m].kind = "vote", t < op'[m].term,
                      n \in op'[m].votes
               PROVE  FALSE
    BY DEF CandidatesHold
  <2>1. op'[m].term <= currentTerm'[n]
    BY <1>4 DEF ReachInv, VotersInTerm
  <2>2. QED
    BY <1>1, <1>2, <1>5, <2>1
<1>11. Secured(k, t, {n})'
  BY <1>7, <1>8, <1>9, <1>10 DEF Secured
<1>12. QED
  BY <1>1, <1>2, <1>3, <1>11

LEMMA UncommittedStep ==
    ASSUME SafeState, ElectionSafety', UncommittedSecured, [Next]_vars
    PROVE  UncommittedSecured'
<1> SUFFICES ASSUME NEW n \in Node, role'[n] = Leader, NEW k \in 1..Len(log'[n]),
                    log'[n][k].term = currentTerm'[n],
                    IsQuorum(Able(currentTerm[n], Counted(n, k))')
             PROVE  Secured(k, currentTerm[n], Counted(n, k))'
  BY DEF UncommittedSecured
<1>0. Len(log[n]) \in Nat /\ Len(log'[n]) \in Nat
  BY LogLengths DEF SafeState
<1>1. ASSUME NEW p \in Node, BecomeLeader(n, p) PROVE FALSE
  <2>1. UNCHANGED log /\ currentTerm'[n] = currentTerm[n]
    BY <1>1, BecomeLeaderFacts DEF SafeState
  <2>2. log[n][k].term # currentTerm[n]
    BY <1>1, <2>1, NewTermUnused DEF SafeState
  <2>3. QED
    BY <2>1, <2>2
<1>2. /\ role[n] = Leader /\ currentTerm'[n] = currentTerm[n]
      /\ \/ log'[n] = log[n]
         \/ \E c \in Command : Propose(n, c)
  BY <1>1, LeaderSteps
<1>3. CASE k \in 1..Len(log[n]) /\ log[n][k].term = currentTerm[n]
  BY <1>2, <1>3, UncommittedKept
<1>4. ASSUME NEW c \in Command, Propose(n, c), ~(k \in 1..Len(log[n]))
      PROVE  Secured(k, currentTerm[n], Counted(n, k))'
  <2>1. Len(log'[n]) = Len(log[n]) + 1
    BY <1>4, ProposeFacts DEF SafeState
  <2>2. k = Len(log[n]) + 1
    BY <1>0, <1>4, <2>1
  <2>3. QED
    BY <1>2, <1>4, <2>2, ProposedSecured
<1>5. ASSUME NEW c \in Command, Propose(n, c), k \in 1..Len(log[n])
      PROVE  log[n][k].term = currentTerm[n]
  <2>1. log'[n][k] = log[n][k]
    BY <1>5, ProposeFacts DEF SafeState
  <2>2. log'[n][k].term = currentTerm[n]
    BY <1>2
  <2>3. QED
    BY <2>1, <2>2
<1>6. CASE log'[n] = log[n]
  <2>1. k \in 1..Len(log[n])
    BY <1>6
  <2>2. log[n][k].term = currentTerm[n]
    BY <1>2, <1>6
  <2>3. QED
    BY <1>3, <2>1, <2>2
<1>7. QED
  BY <1>2, <1>3, <1>4, <1>5, <1>6

-----------------------------------------------------------------------------
(***************************************************************************)
(* What is committed stays secured.                                        *)
(***************************************************************************)

\* What a log holds up to such an entry, it keeps.
LEMMA PrefixKept ==
    ASSUME Inv, LogsOrdered, LogsInv, ElectionSafety, [Next]_vars,
           NEW k, NEW t \in Nat, LeadersHold(k, t), NEW n \in Node, Has(log[n], k, t)
    PROVE  /\ Has(log'[n], k, t)
           /\ \A i \in 1..k : log'[n][i] = log[n][i]
<1>0. Has(log'[n], k, t)
  BY HoldsKept
<1>1. /\ LogStep(n) /\ k \in 1..Len(log[n]) /\ log[n][k].term = t
      /\ k \in 1..Len(log'[n]) /\ log'[n][k].term = t
      /\ Len(log[n]) \in Nat /\ Len(log'[n]) \in Nat
  BY <1>0, LogFacts, LogLengths DEF Has
<1>2. CASE KeptLog(n)
  BY <1>0, <1>2 DEF KeptLog
<1>3. ASSUME NEW w \in Node, CopiedFrom(n, w) PROVE \A i \in 1..k : log'[n][i] = log[n][i]
  <2>1. log'[n] = log[w] /\ Agree(log[n], log[w])
    BY <1>3 DEF CopiedFrom, LogsInv, LogsAgree
  <2>2. k <= Len(log[w]) /\ log[n][k].term = log[w][k].term
    BY <1>1, <2>1
  <2>3. \A i \in 1..k : log[n][i] = log[w][i]
    BY <1>1, <2>1, <2>2 DEF Agree
  <2>4. QED
    BY <2>1, <2>3
<1>4. CASE AppendedOwn(n)
  BY <1>0, <1>1, <1>4 DEF AppendedOwn
<1>5. QED
  BY <1>0, <1>1, <1>2, <1>3, <1>4 DEF LogStep

\* What a step does to the commit index of n.
TakesCommitOf(n, w) ==
    /\ commitIndex[w] > commitIndex[n]
    /\ commitIndex'[n] = commitIndex[w]
    /\ \A k \in 1..Len(log[w]) : Has(log'[n], k, log[w][k].term)
CommitsOwn(n) ==
    /\ role[n] = Leader /\ log'[n] = log[n]
    /\ commitIndex'[n] > commitIndex[n]
    /\ commitIndex'[n] \in Committable(n)
CommitStep(n) ==
    \/ commitIndex'[n] = commitIndex[n]
    \/ \E w \in Node : TakesCommitOf(n, w)
    \/ CommitsOwn(n)

\* ... and to what n has applied.
AppliesCommitted(n) ==
    \/ /\ commitIndex'[n] = commitIndex[n] /\ lastApplied'[n] = lastApplied[n]
       /\ applied'[n] = applied[n]
    \/ /\ lastApplied[n] = commitIndex[n] =>
             /\ commitIndex'[n] >= commitIndex[n] /\ lastApplied'[n] = commitIndex'[n]
             /\ applied'[n] = applied[n] \o CommandsOf(log'[n], commitIndex[n], commitIndex'[n])

LEMMA CommitTypes ==
    ASSUME Inv
    PROVE  /\ \A n \in Node : commitIndex[n] \in Nat /\ lastApplied[n] \in Nat
           /\ commitIndex \in [Node -> Nat] /\ lastApplied \in [Node -> Nat]
           /\ applied \in [Node -> Seq(Command \cup {EmptyCommand})]
BY DEF Inv, TypeOK

LEMMA CommitFacts ==
    ASSUME SafeState, CommittedSecured, [Next]_vars
    PROVE  \A n \in Node : CommitStep(n) /\ AppliesCommitted(n)
<1> USE DEF SafeState
<1> SUFFICES ASSUME NEW n \in Node PROVE CommitStep(n) /\ AppliesCommitted(n)
  OBVIOUS
<1>0. /\ \A m \in Node : commitIndex[m] \in Nat /\ lastApplied[m] \in Nat /\ Len(log[m]) \in Nat
      /\ commitIndex \in [Node -> Nat] /\ lastApplied \in [Node -> Nat]
      /\ applied \in [Node -> Seq(Command \cup {EmptyCommand})]
      /\ log \in [Node -> Seq(Entry)]
  BY CommitTypes, RoundTypes, MatchingTypes
<1>1. ASSUME /\ commitIndex'[n] = commitIndex[n] /\ lastApplied'[n] = lastApplied[n]
             /\ applied'[n] = applied[n]
      PROVE  CommitStep(n) /\ AppliesCommitted(n)
  BY <1>1 DEF CommitStep, AppliesCommitted
<1>2. ASSUME NEW m \in Node, NEW p \in Node, AppendEntriesAccepted(m, p)
      PROVE  CommitStep(n) /\ AppliesCommitted(n)
  <2> DEFINE newLog == AppendEntries(log[p], PrevIndex(m, p), EntriesTo(m, p))
             commit == CommitAfterAppend(m, p)
             upto   == IF commit > lastApplied[p] THEN commit ELSE lastApplied[p]
  <2>1. /\ Delivers(m, p, "append")
        /\ log' = [log EXCEPT ![p] = newLog]
        /\ commitIndex' = [commitIndex EXCEPT ![p] = commit]
        /\ lastApplied' = [lastApplied EXCEPT ![p] = upto]
        /\ applied' = [applied EXCEPT ![p] = @ \o CommandsOf(newLog, lastApplied[p], upto)]
    BY <1>2 DEF AppendEntriesAccepted
  <2> HIDE DEF newLog, commit, upto
  <2>2. CASE n # p
    <3>1. /\ commitIndex'[n] = commitIndex[n] /\ lastApplied'[n] = lastApplied[n]
          /\ applied'[n] = applied[n]
      BY <1>0, <2>1, <2>2
    <3>2. QED
      BY <1>1, <3>1
  <2>3. CASE n = p
    <3>1. /\ commitIndex'[n] = commit /\ lastApplied'[n] = upto /\ log'[n] = newLog
          /\ applied'[n] = applied[n] \o CommandsOf(newLog, lastApplied[n], upto)
      BY <1>0, <2>1, <2>3
    <3>2. commit = IF commitIndex[m] > commitIndex[n] THEN commitIndex[m] ELSE commitIndex[n]
      <4>1. p \in Peers(m) /\ op[m].kind = "append"
        BY <2>1, DeliversFacts DEF Inv
      <4>2. /\ PrevIndex(m, p) \in 0..Len(log[m])
            /\ Len(EntriesTo(m, p)) = Len(log[m]) - PrevIndex(m, p)
        BY <4>1, AppendArguments
      <4>3. PrevIndex(m, p) + Len(EntriesTo(m, p)) = Len(log[m])
        <5>1. PICK len, prev, sent : /\ len = Len(log[m]) /\ prev = PrevIndex(m, p)
                                     /\ sent = Len(EntriesTo(m, p))
          OBVIOUS
        <5>2. len \in Nat /\ prev \in 0..len /\ sent = len - prev
          BY <1>0, <4>2, <5>1
        <5>3. prev + sent = len
          BY <5>2
        <5>4. QED
          BY <5>1, <5>3
      <4>4. commitIndex[m] <= Len(log[m])
        BY <1>0 DEF CommittedSecured, CommittedUpTo
      <4>5. QED
        BY <1>0, <2>3, <4>3, <4>4 DEF CommitAfterAppend, commit
    <3>3. CommitStep(n)
      <4>1. CASE commitIndex[m] > commitIndex[n]
        <5>1. ASSUME NEW k \in 1..Len(log[m]) PROVE Has(log'[n], k, log[m][k].term)
          <6>1. log[m][k].term \in Nat
            BY <1>0, EntryTerms
          <6>2. Has(log[m], k, log[m][k].term)
            BY DEF Has
          <6>3. QED
            BY <1>2, <2>3, <6>1, <6>2, AcceptedHolds
        <5>2. TakesCommitOf(n, m)
          BY <3>1, <3>2, <4>1, <5>1 DEF TakesCommitOf
        <5>3. QED
          BY <5>2 DEF CommitStep
      <4>2. CASE ~(commitIndex[m] > commitIndex[n])
        BY <3>1, <3>2, <4>2 DEF CommitStep
      <4>3. QED
        BY <4>1, <4>2
    <3>4. AppliesCommitted(n)
      <4>1. SUFFICES ASSUME lastApplied[n] = commitIndex[n]
                     PROVE  commit >= commitIndex[n] /\ upto = commit
        BY <3>1, <4>1 DEF AppliesCommitted
      <4>2. commit >= commitIndex[n] /\ commit \in Nat
        BY <1>0, <3>2
      <4>3. upto = IF commit > commitIndex[n] THEN commit ELSE commitIndex[n]
        BY <2>3, <4>1 DEF upto
      <4>4. QED
        BY <1>0, <4>2, <4>3
    <3>5. QED
      BY <3>3, <3>4
  <2>4. QED
    BY <2>2, <2>3
<1>3. ASSUME NEW m \in Node, EndHeartbeats(m)
      PROVE  CommitStep(n) /\ AppliesCommitted(n)
  <2> DEFINE commit == IF Committable(m) = {} THEN commitIndex[m] ELSE Max(Committable(m))
             upto   == IF commit > commitIndex[m] /\ commit > lastApplied[m]
                       THEN commit ELSE lastApplied[m]
  <2>1. /\ op[m].kind = "append" /\ log' = log
        /\ commitIndex' = [commitIndex EXCEPT ![m] = commit]
        /\ lastApplied' = [lastApplied EXCEPT ![m] = upto]
        /\ applied' = [applied EXCEPT ![m] = @ \o CommandsOf(log[m], lastApplied[m], upto)]
    BY <1>3 DEF EndHeartbeats, persistVars
  <2>2. /\ commit \in Nat /\ commit >= commitIndex[m]
        /\ commit # commitIndex[m] => commit \in Committable(m)
    <3>1. CASE Committable(m) = {}
      BY <1>0, <3>1
    <3>2. CASE Committable(m) # {}
      <4>1. /\ Max(Committable(m)) \in Committable(m)
            /\ Max(Committable(m)) \in (commitIndex[m] + 1)..Len(log[m])
        BY <3>2, CommittableMax DEF Inv
      <4>2. commit = Max(Committable(m))
        BY <3>2
      <4> HIDE DEF commit
      <4>3. QED
        BY <1>0, <4>1, <4>2
    <3>3. QED
      BY <3>1, <3>2
  <2>3. lastApplied[m] = commitIndex[m] => upto = commit
    <3>1. upto = IF commit > commitIndex[m] /\ commit > lastApplied[m]
                 THEN commit ELSE lastApplied[m]
      OBVIOUS
    <3> HIDE DEF commit, upto
    <3>2. QED
      BY <1>0, <2>2, <3>1
  <2> HIDE DEF commit, upto
  <2>4. CASE n # m
    <3>1. /\ commitIndex'[n] = commitIndex[n] /\ lastApplied'[n] = lastApplied[n]
          /\ applied'[n] = applied[n]
      BY <1>0, <2>1, <2>4
    <3>2. QED
      BY <1>1, <3>1
  <2>5. CASE n = m
    <3>1. /\ commitIndex'[n] = commit /\ lastApplied'[n] = upto /\ log'[n] = log[n]
          /\ applied'[n] = applied[n] \o CommandsOf(log[n], lastApplied[n], upto)
      BY <1>0, <2>1, <2>5
    <3>2. role[n] = Leader
      BY <2>1, <2>5 DEF Inv, RoundUndisturbed
    <3>3. commit # commitIndex[n] => commit > commitIndex[n]
      BY <1>0, <2>2, <2>5
    <3>4. CommitStep(n)
      BY <2>2, <2>5, <3>1, <3>2, <3>3 DEF CommitStep, CommitsOwn
    <3>5. AppliesCommitted(n)
      BY <2>2, <2>3, <2>5, <3>1 DEF AppliesCommitted
    <3>6. QED
      BY <3>4, <3>5
  <2>6. QED
    BY <2>4, <2>5
<1>4. ASSUME UNCHANGED applyVars PROVE CommitStep(n) /\ AppliesCommitted(n)
  BY <1>1, <1>4 DEF applyVars
<1>5. ASSUME NEW m \in Node, NEW p \in Node, RoundStep(m, p), ~AppendEntriesAccepted(m, p)
      PROVE  UNCHANGED applyVars
  BY <1>5 DEF RoundStep, RequestVoteLost, RequestVoteStale, RequestVoteDenied,
     RequestVoteGranted, BecomeLeader, AppendEntriesLost, AppendEntriesStale,
     AppendEntriesConflict
<1>6. ASSUME NEW m \in Node,
             \/ ElectionTimeout(m) \/ HeartbeatTimeout(m) \/ EndElection(m)
             \/ (\E c \in Command : Propose(m, c)) \/ (\E p \in Node : Control(m, p))
      PROVE  UNCHANGED applyVars
  BY <1>6 DEF ElectionTimeout, HeartbeatTimeout, EndElection, Propose, Control, CrashNode,
     RestartNode, Disconnect, Reconnect, IsolateNode, RecoverNode, ChangeCut
<1>7. CASE UNCHANGED vars
  BY <1>4, <1>7 DEF vars
<1>8. QED
  BY <1>2, <1>3, <1>4, <1>5, <1>6, <1>7 DEF Next

\* A committed index stays secured, in the log of its node and in any log that
\* comes to hold that entry.
LEMMA CommittedMoves ==
    ASSUME SafeState, [Next]_vars, NEW m \in Node, NEW n \in Node, NEW c \in Nat,
           CommittedUpTo(m, c),
           m = n \/ (\A k \in 1..Len(log[m]) : Has(log'[n], k, log[m][k].term))
    PROVE  CommittedUpTo(n, c)'
<1> USE DEF SafeState
<1> SUFFICES ASSUME c > 0
             PROVE  /\ c <= Len(log'[n])
                    /\ \E Q \in SUBSET Node : IsQuorum(Q) /\ Secured(c, log[n][c].term, Q)'
  BY DEF CommittedUpTo
<1>0. /\ Len(log[m]) \in Nat /\ Len(log'[n]) \in Nat /\ log[m] \in Seq(Entry)
      /\ c \in 1..Len(log[m])
  <2>1. Len(log[m]) \in Nat /\ Len(log'[n]) \in Nat /\ log[m] \in Seq(Entry)
    BY LogLengths, MatchingTypes
  <2>2. QED
    BY <2>1 DEF CommittedUpTo
<1>1. PICK t \in Nat : t = log[m][c].term
  BY <1>0, EntryTerms
<1>2. PICK Q \in SUBSET Node : IsQuorum(Q) /\ Secured(c, t, Q)
  BY <1>1 DEF CommittedUpTo
<1>3. IsQuorum(Able(t, Q)')
  <2> DEFINE P == Q \cup {v \in Node : currentTerm'[v] <= t}
  <2>1. Q \subseteq P /\ P \subseteq Node
    OBVIOUS
  <2> HIDE DEF P
  <2>2. IsQuorum(P)
    BY <1>2, <2>1, QuorumGrows
  <2>3. QED
    BY <2>2 DEF P, Able
<1>4. Secured(c, t, Q)'
  BY <1>2, <1>3, SecuredStep
<1>5. Has(log'[n], c, t)
  <2>1. CASE m = n
    <3>1. Has(log[m], c, t)
      BY <1>0, <1>1 DEF Has
    <3>2. LeadersHold(c, t)
      BY <1>2 DEF Secured
    <3>3. QED
      BY <2>1, <3>1, <3>2, HoldsKept
  <2>2. CASE \A k \in 1..Len(log[m]) : Has(log'[n], k, log[m][k].term)
    BY <1>0, <1>1, <2>2
  <2>3. QED
    BY <2>1, <2>2
<1>6. c <= Len(log'[n]) /\ log'[n][c].term = t
  BY <1>0, <1>5 DEF Has
<1>7. QED
  BY <1>2, <1>4, <1>6

\* UpdateCommitIndex: a majority holds an entry of the leader's own term.
LEMMA CommitsSecured ==
    ASSUME SafeState, UncommittedSecured, NEW n \in Node, role[n] = Leader,
           NEW c \in Committable(n)
    PROVE  CommittedUpTo(n, c)
<1> USE DEF SafeState
<1> DEFINE P == {p \in Peers(n) : matchIndex[n][p] >= c}
           Q == Counted(n, c)
<1>1. /\ c \in (commitIndex[n] + 1)..Len(log[n]) /\ log[n][c].term = currentTerm[n]
      /\ Cardinality(P) + 1 > Cardinality(Node) \div 2
  BY DEF Committable
<1>2. P \subseteq Node /\ Q = P \cup {n} /\ n \notin P /\ Q \subseteq Node
  BY DEF Counted, Peers
<1>3. IsFiniteSet(P) /\ Cardinality(P) \in Nat
  BY <1>2, CardinalityIsNat
<1> HIDE DEF P, Q
<1>4. Cardinality(Q) = Cardinality(P) + 1
  BY <1>2, <1>3, FS_AddElement
<1>5. IsQuorum(Q)
  BY <1>1, <1>2, <1>4, MajorityIsQuorum
<1>6. IsQuorum(Able(currentTerm[n], Q))
  <2> DEFINE R == Q \cup {v \in Node : currentTerm[v] <= currentTerm[n]}
  <2>1. Q \subseteq R /\ R \subseteq Node
    BY <1>2
  <2> HIDE DEF R
  <2>2. IsQuorum(R)
    BY <1>5, <2>1, QuorumGrows
  <2>3. QED
    BY <2>2 DEF R, Able
<1>7. c \in 1..Len(log[n]) /\ c \in Nat
  BY <1>1, CommitTypes, MatchingTypes
<1>8. Secured(c, currentTerm[n], Q)
  BY <1>1, <1>6, <1>7 DEF UncommittedSecured, Q
<1>9. QED
  BY <1>1, <1>2, <1>5, <1>7, <1>8 DEF CommittedUpTo

LEMMA CommittedStep ==
    ASSUME SafeState, UncommittedSecured, CommittedSecured, [Next]_vars
    PROVE  CommittedSecured'
<1> SUFFICES ASSUME NEW n \in Node PROVE CommittedUpTo(n, commitIndex[n])'
  BY DEF CommittedSecured
<1>1. PICK c : c = commitIndex'[n]
  OBVIOUS
<1>2. CommitStep(n) /\ \A m \in Node : commitIndex[m] \in Nat
  BY CommitFacts, CommitTypes DEF SafeState
<1>3. CASE commitIndex'[n] = commitIndex[n]
  <2>1. c \in Nat /\ CommittedUpTo(n, c)
    BY <1>1, <1>2, <1>3 DEF CommittedSecured
  <2>2. CommittedUpTo(n, c)'
    BY <2>1, CommittedMoves
  <2>3. QED
    BY <1>1, <2>2
<1>4. ASSUME NEW w \in Node, TakesCommitOf(n, w)
      PROVE  CommittedUpTo(n, commitIndex[n])'
  <2>1. c \in Nat /\ CommittedUpTo(w, c)
    BY <1>1, <1>2, <1>4 DEF CommittedSecured, TakesCommitOf
  <2>2. CommittedUpTo(n, c)'
    BY <1>4, <2>1, CommittedMoves DEF TakesCommitOf
  <2>3. QED
    BY <1>1, <2>2
<1>5. CASE CommitsOwn(n)
  <2>1. CommittedUpTo(n, c)
    BY <1>1, <1>5, CommitsSecured DEF CommitsOwn
  <2>2. c \in Nat
    <3>1. c \in (commitIndex[n] + 1)..Len(log[n])
      BY <1>1, <1>5 DEF CommitsOwn, Committable
    <3>2. Len(log[n]) \in Nat
      BY LogLengths DEF SafeState
    <3>3. QED
      BY <1>2, <3>1, <3>2
  <2>3. CommittedUpTo(n, c)'
    BY <2>1, <2>2, CommittedMoves
  <2>4. QED
    BY <1>1, <2>3
<1>6. QED
  BY <1>2, <1>3, <1>4, <1>5 DEF CommitStep

CommitState ==
    Inv /\ LogsOrdered /\ TermsInv /\ LogsInv /\ ReachInv /\ CommitInv

LEMMA CommitStateStep == CommitState /\ [Next]_vars => CommitState'
<1> SUFFICES ASSUME CommitState, [Next]_vars PROVE CommitState'
  OBVIOUS
<1>1. Inv' /\ LogsOrdered' /\ TermsInv' /\ LogsInv' /\ ReachInv'
  BY ReachStep DEF CommitState
<1>2. ASSUME ElectionSafety'
      PROVE  TermsShared' /\ UncommittedSecured' /\ CommittedSecured'
  <2>1. elected \subseteq elected'
    BY StepKinds, BecomeLeaderFacts, ProposeFacts, AcceptedFacts DEF CommitState, QuietStep
  <2>2. ElectionSafety
    BY <1>2, <2>1 DEF ElectionSafety
  <2>3. SafeState /\ UncommittedSecured /\ CommittedSecured
    BY <2>2 DEF SafeState, CommitState, CommitInv
  <2>4. TermsShared'
    BY <2>3, TermsSharedStep DEF SafeState
  <2>5. QED
    BY <1>2, <2>3, <2>4, UncommittedStep, CommittedStep
<1>3. QED
  BY <1>1, <1>2 DEF CommitState, CommitInv

LEMMA CommitStateInit == Init => CommitState
<1> SUFFICES ASSUME Init PROVE CommitState
  OBVIOUS
<1>1. /\ \A n \in Node : /\ role[n] = Follower /\ log[n] = <<>> /\ commitIndex[n] = 0
                         /\ op[n].kind = "idle"
      /\ elected = {}
  BY DEF Init, Idle
<1>2. Follower # Leader /\ Len(<<>>) = 0 /\ 1..0 = {}
  BY DEF Follower, Leader
<1>3. Inv
  BY InitInv
<1>4. LogsOrdered
  BY <1>1, <1>2 DEF LogsOrdered, Ordered, BoundedBy
<1>5. TermsInv /\ LogsInv
  BY <1>1, <1>2 DEF TermsInv, LeadersElected, ElectedBefore, LogsInv, EntriesElected,
     LogsAgree, Agree, LeadersHaveTerm, PeersHold
<1>6. ReachInv
  BY <1>1 DEF ReachInv, VotersInTerm, MajorityReached
<1>7. CommitInv
  BY <1>1, <1>2 DEF CommitInv, TermsShared, UncommittedSecured, CommittedSecured, CommittedUpTo
<1>8. QED
  BY <1>3, <1>4, <1>5, <1>6, <1>7 DEF CommitState

LEMMA CommitStateInvariant == Spec => []CommitState
BY CommitStateInit, CommitStateStep, PTL DEF Spec

-----------------------------------------------------------------------------
\* A leader of a term as new as n's holds what n has committed: the point of the
\* up-to-date check on votes and of UpdateCommitIndex counting own entries only.
THEOREM LeadersAlwaysComplete == Spec => []LeaderCompleteness
<1>1. CommitState => LeaderCompleteness
  <2> SUFFICES ASSUME CommitState, ElectionSafety, NEW m \in Node, NEW n \in Node,
                      role[m] = Leader, currentTerm[n] <= currentTerm[m]
               PROVE  /\ commitIndex[n] <= Len(log[m])
                      /\ \A k \in 1..commitIndex[n] : log[m][k] = log[n][k]
    BY DEF LeaderCompleteness
  <2> USE DEF CommitState
  <2>0. /\ Len(log[m]) \in Nat /\ Len(log[n]) \in Nat /\ commitIndex[n] \in Nat
        /\ currentTerm[m] \in Nat /\ currentTerm[n] \in Nat /\ log[n] \in Seq(Entry)
    BY MatchingTypes, CommitTypes
  <2>1. CASE commitIndex[n] = 0
    BY <2>0, <2>1
  <2>2. CASE commitIndex[n] > 0
    <3> DEFINE c == commitIndex[n]
    <3>1. PICK Q \in SUBSET Node : Secured(c, log[n][c].term, Q)
      BY <2>2 DEF CommitInv, CommittedSecured, CommittedUpTo
    <3>2. c \in 1..Len(log[n])
      BY <2>0, <2>2 DEF CommitInv, CommittedSecured, CommittedUpTo
    <3>3. log[n][c].term <= currentTerm[n] /\ log[n][c].term \in Nat
      BY <2>0, <3>2, EntryTerms DEF LogsOrdered, BoundedBy
    <3>4. c <= Len(log[m]) /\ log[m][c].term = log[n][c].term
      <4>1. CASE log[n][c].term < currentTerm[m]
        <5>1. Has(log[m], c, log[n][c].term)
          BY <3>1, <4>1 DEF Secured, LeadersHold
        <5>2. QED
          BY <2>0, <5>1 DEF Has
      <4>2. CASE log[n][c].term = currentTerm[m]
        BY <3>2, <4>2 DEF LogsInv, LeadersHaveTerm
      <4> DEFINE x == log[n][c].term
      <4>3. x \in Nat /\ x <= currentTerm[n]
        BY <3>3
      <4> HIDE DEF x
      <4>4. x < currentTerm[m] \/ x = currentTerm[m]
        BY <2>0, <4>3
      <4>5. QED
        BY <4>1, <4>2, <4>4 DEF x
    <3>5. \A k \in 1..c : log[n][k] = log[m][k]
      BY <3>2, <3>4 DEF LogsInv, LogsAgree, Agree
    <3>6. QED
      BY <3>4, <3>5
  <2>3. QED
    BY <2>0, <2>1, <2>2
<1>2. QED
  BY <1>1, CommitStateInvariant, PTL

-----------------------------------------------------------------------------
(***************************************************************************)
(* What was applied.                                                       *)
(***************************************************************************)

LEMMA CommandsOfFacts ==
    ASSUME NEW l \in Seq(Entry), NEW from \in Nat, NEW to \in Nat, from <= to
    PROVE  /\ CommandsOf(l, from, to) \in Seq(Command \cup {EmptyCommand})
           /\ Len(CommandsOf(l, from, to)) = to - from
           /\ \A i \in 1..(to - from) : CommandsOf(l, from, to)[i] =
                 IF from + i <= Len(l) THEN l[from + i].command ELSE EmptyCommand
<1>1. CommandsOf(l, from, to) \in Seq(Command \cup {EmptyCommand})
  BY CommandsOfType
<1>2. DOMAIN CommandsOf(l, from, to) = 1..(to - from) /\ to - from \in Nat
  BY DEF CommandsOf
<1>3. Len(CommandsOf(l, from, to)) = to - from
  BY <1>1, <1>2, LenProperties
<1>4. QED
  BY <1>1, <1>3 DEF CommandsOf

\* What a log had applied up to c and what another, that begins with the same
\* entries, applies from there on.
LEMMA CommandsOfSplit ==
    ASSUME NEW l \in Seq(Entry), NEW L \in Seq(Entry), NEW c \in Nat, NEW d \in Nat,
           c <= d, c <= Len(l), c <= Len(L), \A i \in 1..c : L[i] = l[i]
    PROVE  CommandsOf(l, 0, c) \o CommandsOf(L, c, d) = CommandsOf(L, 0, d)
<1> DEFINE a == CommandsOf(l, 0, c)
           b == CommandsOf(L, c, d)
           e == CommandsOf(L, 0, d)
           T == Command \cup {EmptyCommand}
<1>1. /\ a \in Seq(T) /\ Len(a) = c /\ b \in Seq(T) /\ Len(b) = d - c
      /\ e \in Seq(T) /\ Len(e) = d
      /\ \A i \in 1..c : a[i] = IF i <= Len(l) THEN l[i].command ELSE EmptyCommand
      /\ \A i \in 1..(d - c) : b[i] = IF c + i <= Len(L) THEN L[c + i].command ELSE EmptyCommand
      /\ \A i \in 1..d : e[i] = IF i <= Len(L) THEN L[i].command ELSE EmptyCommand
  <2>0. 0 \in Nat /\ 0 <= c /\ 0 <= d
    OBVIOUS
  <2>1. /\ a \in Seq(T) /\ Len(a) = c - 0
        /\ \A i \in 1..(c - 0) : a[i] = IF 0 + i <= Len(l) THEN l[0 + i].command ELSE EmptyCommand
    BY <2>0, CommandsOfFacts, Zenon
  <2>2. /\ e \in Seq(T) /\ Len(e) = d - 0
        /\ \A i \in 1..(d - 0) : e[i] = IF 0 + i <= Len(L) THEN L[0 + i].command ELSE EmptyCommand
    BY <2>0, CommandsOfFacts, Zenon
  <2>3. /\ b \in Seq(T) /\ Len(b) = d - c
        /\ \A i \in 1..(d - c) : b[i] = IF c + i <= Len(L) THEN L[c + i].command ELSE EmptyCommand
    BY CommandsOfFacts
  <2>4. /\ c - 0 = c /\ d - 0 = d /\ \A i \in 1..c : 0 + i = i
        /\ \A i \in 1..d : 0 + i = i
    OBVIOUS
  <2> HIDE DEF a, b, e, T
  <2>5. QED
    BY <2>1, <2>2, <2>3, <2>4
<1> HIDE DEF a, b, e, T
<1>2. /\ a \o b \in Seq(T) /\ Len(a \o b) = d
      /\ \A i \in 1..d : (a \o b)[i] = IF i <= c THEN a[i] ELSE b[i - c]
  <2>1. Len(a) + Len(b) = d
    BY <1>1
  <2>2. QED
    BY <1>1, <2>1, ConcatProperties
<1>3. ASSUME NEW i \in 1..d PROVE (a \o b)[i] = e[i]
  <2>0. Len(L) \in Nat /\ Len(l) \in Nat
    OBVIOUS
  <2>1. CASE i <= c
    <3>1. i \in 1..c /\ i <= Len(l) /\ i <= Len(L)
      BY <2>0, <2>1
    <3>2. a[i] = l[i].command /\ e[i] = L[i].command /\ L[i] = l[i]
      BY <1>1, <3>1
    <3>3. QED
      BY <1>2, <2>1, <3>2
  <2>2. CASE ~(i <= c)
    <3>1. i - c \in 1..(d - c) /\ c + (i - c) = i
      BY <2>2
    <3>2. b[i - c] = IF i <= Len(L) THEN L[i].command ELSE EmptyCommand
      BY <1>1, <3>1
    <3>3. QED
      BY <1>1, <1>2, <2>2, <3>2
  <2>3. QED
    BY <2>1, <2>2
<1>4. a \o b = e
  BY <1>1, <1>2, <1>3, SeqEqual
<1>5. QED
  BY <1>4 DEF a, b, e

LEMMA AppliedStep ==
    ASSUME CommitState, ElectionSafety', AppliedIsLog, [Next]_vars
    PROVE  AppliedIsLog'
<1>0. ElectionSafety
  <2>1. elected \subseteq elected'
    BY StepKinds, BecomeLeaderFacts, ProposeFacts, AcceptedFacts DEF CommitState, QuietStep
  <2>2. QED
    BY <2>1 DEF ElectionSafety
<1>1. SafeState /\ CommittedSecured /\ Inv /\ LogsOrdered /\ LogsInv
  BY <1>0 DEF SafeState, CommitState, CommitInv
<1>2. Inv' /\ CommittedSecured'
  BY CommitStateStep DEF CommitState, CommitInv
<1> SUFFICES ASSUME NEW n \in Node
             PROVE  /\ lastApplied'[n] = commitIndex'[n]
                    /\ commitIndex'[n] <= Len(log'[n])
                    /\ applied'[n] = CommandsOf(log'[n], 0, commitIndex'[n])
  BY DEF AppliedIsLog
<1>3. /\ log[n] \in Seq(Entry) /\ log'[n] \in Seq(Entry)
      /\ Len(log[n]) \in Nat /\ Len(log'[n]) \in Nat
      /\ commitIndex[n] \in Nat /\ commitIndex'[n] \in Nat
  <2>1. commitIndex' \in [Node -> Nat] /\ log' \in [Node -> Seq(Entry)]
    BY <1>2 DEF Inv, TypeOK
  <2>2. log'[n] \in Seq(Entry)
    BY <2>1
  <2>3. QED
    BY <1>1, <2>1, <2>2, CommitTypes, MatchingTypes
<1>4. /\ lastApplied[n] = commitIndex[n] /\ commitIndex[n] <= Len(log[n])
      /\ applied[n] = CommandsOf(log[n], 0, commitIndex[n])
  BY <1>0 DEF AppliedIsLog
<1>5. commitIndex'[n] <= Len(log'[n])
  BY <1>2, <1>3 DEF CommittedSecured, CommittedUpTo
<1> DEFINE c == commitIndex[n]
           d == commitIndex'[n]
<1>6. c <= Len(log'[n]) /\ \A i \in 1..c : log'[n][i] = log[n][i]
  <2>1. CASE c = 0
    BY <1>3, <2>1
  <2>2. CASE c > 0
    <3>1. PICK Q \in SUBSET Node : Secured(c, log[n][c].term, Q)
      BY <1>1, <2>2 DEF CommittedSecured, CommittedUpTo
    <3>2. c \in 1..Len(log[n])
      BY <1>3, <1>4, <2>2
    <3>3. PICK t \in Nat : t = log[n][c].term
      BY <1>3, <3>2, EntryTerms
    <3>4. PICK k : k = c
      OBVIOUS
    <3>5. LeadersHold(k, t) /\ Has(log[n], k, t)
      BY <3>1, <3>2, <3>3, <3>4 DEF Secured, Has
    <3>6. Has(log'[n], k, t) /\ \A i \in 1..k : log'[n][i] = log[n][i]
      BY <1>0, <1>1, <3>5, PrefixKept
    <3>7. QED
      BY <1>3, <3>4, <3>6 DEF Has
  <2>3. QED
    BY <1>3, <2>1, <2>2
<1>7. AppliesCommitted(n)
  BY <1>1, CommitFacts
<1>8. CASE /\ commitIndex'[n] = commitIndex[n] /\ lastApplied'[n] = lastApplied[n]
           /\ applied'[n] = applied[n]
  <2>1. ASSUME NEW i \in 1..(c - 0)
        PROVE  /\ 0 + i <= Len(log[n]) /\ 0 + i <= Len(log'[n])
               /\ log'[n][0 + i].command = log[n][0 + i].command
    <3>1. 0 + i \in 1..c /\ c <= Len(log[n]) /\ c <= Len(log'[n])
      BY <1>3, <1>4, <1>6
    <3>2. QED
      BY <1>3, <1>6, <3>1
  <2>2. CommandsOf(log[n], 0, c) = CommandsOf(log'[n], 0, c)
    BY <2>1 DEF CommandsOf
  <2>3. QED
    BY <1>4, <1>5, <1>8, <2>2
<1>9. CASE /\ commitIndex'[n] >= commitIndex[n] /\ lastApplied'[n] = commitIndex'[n]
           /\ applied'[n] = applied[n] \o CommandsOf(log'[n], commitIndex[n], commitIndex'[n])
  <2>1. c <= d
    BY <1>3, <1>9
  <2>2. PICK l, L \in Seq(Entry) : l = log[n] /\ L = log'[n]
    BY <1>3
  <2>3. PICK x, y \in Nat : x = c /\ y = d
    BY <1>3
  <2>4. /\ x <= y /\ x <= Len(l) /\ x <= Len(L) /\ \A i \in 1..x : L[i] = l[i]
    BY <1>4, <1>6, <2>1, <2>2, <2>3
  <2>5. CommandsOf(l, 0, x) \o CommandsOf(L, x, y) = CommandsOf(L, 0, y)
    BY <2>4, CommandsOfSplit
  <2>6. QED
    BY <1>4, <1>5, <1>9, <2>2, <2>3, <2>5
<1>10. QED
  BY <1>4, <1>7, <1>8, <1>9 DEF AppliesCommitted

LEMMA AppliedInvariant == Spec => [](CommitState /\ AppliedIsLog)
<1>1. Init => AppliedIsLog
  <2> SUFFICES ASSUME Init, NEW n \in Node
               PROVE  /\ lastApplied[n] = commitIndex[n] /\ commitIndex[n] <= Len(log[n])
                      /\ applied[n] = CommandsOf(log[n], 0, commitIndex[n])
    BY DEF AppliedIsLog
  <2>1. lastApplied[n] = 0 /\ commitIndex[n] = 0 /\ log[n] = <<>> /\ applied[n] = <<>>
    BY DEF Init
  <2>2. CommandsOf(log[n], 0, 0) = <<>>
    <3>1. log[n] \in Seq(Entry) /\ 0 \in Nat /\ 0 <= 0
      BY <2>1, EmptySeq
    <3>2. /\ CommandsOf(log[n], 0, 0) \in Seq(Command \cup {EmptyCommand})
          /\ Len(CommandsOf(log[n], 0, 0)) = 0 - 0
      BY <3>1, CommandsOfFacts
    <3>3. QED
      BY <3>2, EmptySeq
  <2>3. QED
    BY <2>1, <2>2
<1>2. CommitState /\ AppliedIsLog /\ [Next]_vars => AppliedIsLog'
  <2> SUFFICES ASSUME CommitState, AppliedIsLog, [Next]_vars PROVE AppliedIsLog'
    OBVIOUS
  <2>1. CASE ElectionSafety'
    BY <2>1, AppliedStep
  <2>2. CASE ~ElectionSafety'
    BY <2>2 DEF AppliedIsLog
  <2>3. QED
    BY <2>1, <2>2
<1>3. QED
  BY <1>1, <1>2, CommitStateInvariant, PTL DEF Spec

\* Nothing a node has applied is overwritten or lost: ApplyCommitted hands out
\* every index once, and the log keeps it.
THEOREM AppliedAlwaysLog == Spec => []AppliedIsLog
BY AppliedInvariant, PTL

\* Two committed indices: a node in both quorums holds both entries, so the logs
\* begin with the same entries up to the smaller one.
LEMMA CommittedAgree ==
    ASSUME CommitState, ElectionSafety, NEW m \in Node, NEW n \in Node,
           commitIndex[m] <= commitIndex[n]
    PROVE  /\ commitIndex[m] <= Len(log[m]) /\ commitIndex[m] <= Len(log[n])
           /\ \A i \in 1..commitIndex[m] : log[m][i] = log[n][i]
<1> USE DEF CommitState
<1>0. /\ Len(log[m]) \in Nat /\ Len(log[n]) \in Nat
      /\ \A v \in Node : commitIndex[v] \in Nat /\ Len(log[v]) \in Nat
  BY MatchingTypes, CommitTypes
<1>1. CASE commitIndex[m] = 0
  BY <1>0, <1>1
<1>2. CASE commitIndex[m] # 0
  <2>1. PICK c, d \in Nat : c = commitIndex[m] /\ d = commitIndex[n]
    BY <1>0
  <2>2. c > 0 /\ d > 0 /\ c <= d
    BY <1>2, <2>1
  <2>3. CommittedUpTo(m, c) /\ CommittedUpTo(n, d)
    BY <2>1 DEF CommitInv, CommittedSecured
  <2>4. c <= Len(log[m]) /\ d <= Len(log[n])
    BY <2>2, <2>3 DEF CommittedUpTo
  <2>5. PICK P \in SUBSET Node : IsQuorum(P) /\ Secured(c, log[m][c].term, P)
    BY <2>2, <2>3 DEF CommittedUpTo
  <2>6. PICK Q \in SUBSET Node : IsQuorum(Q) /\ Secured(d, log[n][d].term, Q)
    BY <2>2, <2>3 DEF CommittedUpTo
  <2>7. PICK v \in Node : v \in P /\ v \in Q
    BY <2>5, <2>6, QuorumsMeet
  <2>8. Has(log[v], c, log[m][c].term) /\ Has(log[v], d, log[n][d].term)
    BY <2>5, <2>6, <2>7 DEF Secured, Holding
  <2>9. Agree(log[m], log[v]) /\ Agree(log[n], log[v])
    BY DEF CommitInv, LogsInv, LogsAgree
  <2>10. c \in 1..Len(log[m]) /\ d \in 1..Len(log[n]) /\ c <= Len(log[v]) /\ d <= Len(log[v])
    BY <1>0, <2>2, <2>4, <2>8 DEF Has
  <2>11. \A i \in 1..c : log[m][i] = log[v][i]
    BY <2>8, <2>9, <2>10 DEF Agree, Has
  <2>12. \A i \in 1..d : log[n][i] = log[v][i]
    BY <2>8, <2>9, <2>10 DEF Agree, Has
  <2>13. \A i \in 1..c : i \in 1..d
    BY <2>2
  <2>14. c <= Len(log[n])
    BY <1>0, <2>2, <2>4
  <2>15. QED
    BY <2>1, <2>4, <2>11, <2>12, <2>13, <2>14
<1>3. QED
  BY <1>1, <1>2

LEMMA AppliedPrefix ==
    ASSUME CommitState, ElectionSafety, AppliedIsLog, NEW m \in Node, NEW n \in Node,
           commitIndex[m] <= commitIndex[n]
    PROVE  IsPrefix(AppliedCommands(m), AppliedCommands(n))
<1> DEFINE T == Command \cup {EmptyCommand}
           s == applied[m]
           t == applied[n]
<1>1. /\ Inv /\ commitIndex[m] \in Nat /\ commitIndex[n] \in Nat
      /\ log[m] \in Seq(Entry) /\ log[n] \in Seq(Entry)
  BY MatchingTypes, CommitTypes DEF CommitState
<1>2. PICK c, d \in Nat : c = commitIndex[m] /\ d = commitIndex[n]
  BY <1>1
<1>3. /\ c <= d /\ c <= Len(log[m]) /\ c <= Len(log[n])
      /\ \A i \in 1..c : log[m][i] = log[n][i]
  BY <1>2, CommittedAgree
<1>4. s = CommandsOf(log[m], 0, c) /\ t = CommandsOf(log[n], 0, d)
  BY <1>2 DEF AppliedIsLog
<1>5. 0 \in Nat /\ 0 <= c /\ 0 <= d /\ c - 0 = c /\ d - 0 = d
  OBVIOUS
<1>6. /\ s \in Seq(T) /\ Len(s) = c - 0
      /\ \A i \in 1..(c - 0) : s[i] =
            IF 0 + i <= Len(log[m]) THEN log[m][0 + i].command ELSE EmptyCommand
  <2> DEFINE e == CommandsOf(log[m], 0, c)
  <2>1. /\ e \in Seq(T) /\ Len(e) = c - 0
        /\ \A i \in 1..(c - 0) : e[i] =
              IF 0 + i <= Len(log[m]) THEN log[m][0 + i].command ELSE EmptyCommand
    BY <1>1, <1>5, CommandsOfFacts, Zenon
  <2> HIDE DEF e
  <2>2. s = e
    BY <1>4 DEF e
  <2>3. QED
    BY <2>1, <2>2
<1>7. /\ t \in Seq(T) /\ Len(t) = d - 0
      /\ \A i \in 1..(d - 0) : t[i] =
            IF 0 + i <= Len(log[n]) THEN log[n][0 + i].command ELSE EmptyCommand
  <2> DEFINE e == CommandsOf(log[n], 0, d)
  <2>1. /\ e \in Seq(T) /\ Len(e) = d - 0
        /\ \A i \in 1..(d - 0) : e[i] =
              IF 0 + i <= Len(log[n]) THEN log[n][0 + i].command ELSE EmptyCommand
    BY <1>1, <1>5, CommandsOfFacts, Zenon
  <2> HIDE DEF e
  <2>2. t = e
    BY <1>4 DEF e
  <2>3. QED
    BY <2>1, <2>2
<1> HIDE DEF s, t, T
<1>8. ASSUME NEW i \in 1..c PROVE s[i] = t[i]
  <2>1. /\ 0 + i = i /\ i \in 1..(c - 0) /\ i \in 1..(d - 0)
        /\ i <= Len(log[m]) /\ i <= Len(log[n])
    BY <1>1, <1>3, <1>5
  <2>2. s[i] = log[m][i].command
    BY <1>6, <2>1
  <2>3. t[i] = log[n][i].command
    BY <1>7, <2>1
  <2>4. log[m][i] = log[n][i]
    BY <1>3
  <2>5. QED
    BY <2>2, <2>3, <2>4
<1>9. Len(s) = c /\ Len(t) = d /\ Len(s) <= Len(t)
  BY <1>3, <1>5, <1>6, <1>7
<1> DEFINE I == {i \in DOMAIN s : s[i] # EmptyCommand}
           J == {i \in DOMAIN t : t[i] # EmptyCommand}
<1>10. DOMAIN s = 1..c /\ DOMAIN t = 1..d
  BY <1>6, <1>7, <1>9, LenProperties
<1>11. I = {i \in J : i <= Len(s)} /\ I \subseteq 1..Len(s) /\ J \subseteq 1..Len(t)
  <2>1. \A i : i \in 1..c <=> i \in 1..d /\ i <= c
    BY <1>3
  <2>2. QED
    BY <1>8, <1>9, <1>10, <2>1
<1> HIDE DEF I, J
<1> DEFINE a == AtIndices(s, I)
           b == AtIndices(t, J)
<1>12. Len(a) <= Len(b) /\ \A i \in 1..Len(a) : a[i] = b[i]
  <2>1. \A i \in 1..Len(s) : s[i] = t[i]
    BY <1>8, <1>9
  <2>2. s \in Seq(T) /\ t \in Seq(T) /\ Len(s) <= Len(t)
    BY <1>6, <1>7, <1>9
  <2>3. /\ J \subseteq 1..Len(t) /\ I \subseteq J /\ I \subseteq 1..Len(s)
        /\ \A j \in J : j <= Len(s) => j \in I
    BY <1>11
  <2>4. Begins(t, s)
    BY <2>1, <2>2 DEF Begins
  <2>5. Begins(AtIndices(t, J), AtIndices(s, I))
    BY <2>2, <2>3, <2>4, AtIndicesPrefix
  <2>6. QED
    BY <2>5 DEF Begins
<1>13. a \in Seq(T) /\ b \in Seq(T)
  BY <1>6, <1>7, <1>11, AtIndicesType
<1>14. AppliedCommands(m) = a /\ AppliedCommands(n) = b
  BY DEF AppliedCommands, I, J, s, t
<1> HIDE DEF a, b
<1>15. SubSeq(a, 1, Len(a)) = SubSeq(b, 1, Len(a))
  <2>1. Len(a) \in Nat /\ Len(b) \in Nat
    BY <1>13
  <2>2. \A i \in 1..Len(a) : a[i] \in T /\ b[i] \in T
    BY <1>12, <1>13, ElementOfSeq
  <2>3. /\ SubSeq(a, 1, Len(a)) = [i \in 1..Len(a) |-> a[i]]
        /\ SubSeq(b, 1, Len(a)) = [i \in 1..Len(a) |-> b[i]]
    BY <1>12, <1>13, <2>1, <2>2
  <2>4. QED
    BY <1>12, <2>3
<1>16. QED
  BY <1>12, <1>14, <1>15 DEF IsPrefix

\* CheckConsistency: whatever two nodes have applied, crashed ones too, one has
\* applied what the other has, and perhaps more.
THEOREM AppliedAlwaysAgree == Spec => []AppliedAgree
<1>1. CommitState /\ AppliedIsLog => AppliedAgree
  <2> SUFFICES ASSUME CommitState, AppliedIsLog, ElectionSafety,
                      NEW m \in Node, NEW n \in Node
               PROVE  \/ IsPrefix(AppliedCommands(m), AppliedCommands(n))
                      \/ IsPrefix(AppliedCommands(n), AppliedCommands(m))
    BY DEF AppliedAgree
  <2>1. commitIndex[m] <= commitIndex[n] \/ commitIndex[n] <= commitIndex[m]
    BY CommitTypes DEF CommitState
  <2>2. QED
    BY <2>1, AppliedPrefix
<1>2. QED
  BY <1>1, AppliedInvariant, PTL
=============================================================================
