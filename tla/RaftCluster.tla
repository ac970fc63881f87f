----------------------------- MODULE RaftCluster -----------------------------
(***************************************************************************)
(* The Raft cluster simulator: src/src/raft/raft_node.cpp (class RaftNode) *)
(* driven by src/src/raft/raft_cluster.cpp (class RaftCluster).            *)
(*                                                                         *)
(* An RPC is a direct call: the caller keeps its own node_mutex_ while the *)
(* callee's handler runs under the callee's.  A call of Tick or Propose is *)
(* therefore a round, one RPC after another in the order of peer_ids_, and *)
(* op[n] records the round node n is in; node n's mutex is held exactly    *)
(* while op[n] # Idle.  One action is one RPC, or the code that starts or  *)
(* ends a round.  Timers are left out: any node may time out at any time,  *)
(* which a driver brings about with TickNode.                              *)
(***************************************************************************)
EXTENDS Integers, FiniteSets, SequencesExt, RaftLog, Filter

CONSTANTS
    Node,          \* node ids, 1..node_count in the code
    Command,       \* the commands clients propose
    EmptyCommand,  \* the empty string: replicated but never applied
    Faults,        \* the control calls the driver makes, by name
    Concurrent,    \* FALSE: one driver thread; TRUE: rounds may overlap
    MaxTerm,       \* bound: no election beyond this term
    MaxLog,        \* bound: no proposal beyond this log length
    MaxDown        \* bound: at most this many nodes are crashed at once

ASSUME NodeAssumption == Node \subseteq Nat \ {0} /\ IsFiniteSet(Node)
ASSUME ConcurrentAssumption == Concurrent \in BOOLEAN
ASSUME BoundAssumption == MaxTerm \in Nat /\ MaxLog \in Nat /\ MaxDown \in Nat

FaultNames == {"crash", "restart", "disconnect", "reconnect", "isolate", "recover"}

ASSUME FaultsAssumption == Faults \subseteq FaultNames

VARIABLES
    currentTerm,   \* current_term_
    votedFor,      \* voted_for_, 0 when has_voted_ is false
    role,          \* role_
    leaderId,      \* leader_id_, 0 when unknown
    log,           \* log_
    commitIndex,   \* commit_index_
    lastApplied,   \* last_applied_
    applied,       \* what was applied at each index up to last_applied_
    nextIndex,     \* next_index_ (an absent key is 0)
    matchIndex,    \* match_index_ (an absent key is 0)
    op,            \* the round a node is in the middle of, or Idle
    crashed,       \* crashed_nodes_
    cut,           \* disconnected_pairs_, as sets {a, b}
    elected        \* history: every [term, node] that ever became leader

persistVars == <<currentTerm, votedFor, log>>
applyVars   == <<commitIndex, lastApplied, applied>>
leaderVars  == <<nextIndex, matchIndex>>
roleVars    == <<role, leaderId>>
clusterVars == <<crashed, cut>>
vars == <<persistVars, applyVars, leaderVars, roleVars, clusterVars, op, elected>>

Follower  == "FOLLOWER"
Candidate == "CANDIDATE"
Leader    == "LEADER"

Idle == [kind |-> "idle", term |-> 0, todo |-> {}, votes |-> {}]

\* A round of `kind` that still has every peer to call.
Round(n, kind, term, votes) ==
    [kind |-> kind, term |-> term, todo |-> Node \ {n}, votes |-> votes]

Peers(n) == Node \ {n}

\* Both loops and UpdateCommitIndex: total_nodes / 2 + 1.
Majority == (Cardinality(Node) \div 2) + 1

\* SendRequestVote and SendAppendEntries look at the callee and at the link,
\* never at whether the caller itself has crashed.
Reachable(n, p) == p \notin crashed /\ {n, p} \notin cut

\* peer_ids_ is ascending: the next peer is the smallest one not yet called.
IsNextPeer(n, p) == p \in op[n].todo /\ \A q \in op[n].todo : p <= q

\* A driver thread may enter node n: its mutex is free, and it is the only
\* thread unless the run has several.
MayEnter(n) ==
    /\ op[n] = Idle
    /\ Concurrent \/ \A m \in Node : op[m] = Idle

\* Control calls touch the cluster's unsynchronised maps: never during a round.
Quiet == \A m \in Node : op[m] = Idle

Init ==
    /\ currentTerm = [n \in Node |-> 0]
    /\ votedFor    = [n \in Node |-> 0]
    /\ role        = [n \in Node |-> Follower]
    /\ leaderId    = [n \in Node |-> 0]
    /\ log         = [n \in Node |-> <<>>]
    /\ commitIndex = [n \in Node |-> 0]
    /\ lastApplied = [n \in Node |-> 0]
    /\ applied     = [n \in Node |-> <<>>]
    /\ nextIndex   = [n \in Node |-> [p \in Node |-> 0]]
    /\ matchIndex  = [n \in Node |-> [p \in Node |-> 0]]
    /\ op          = [n \in Node |-> Idle]
    /\ crashed     = {}
    /\ cut         = {}
    /\ elected     = {}

-----------------------------------------------------------------------------
(***************************************************************************)
(* Elections: Tick's follower branch, StartElection, HandleRequestVote.    *)
(***************************************************************************)

\* Mutant: the candidate campaigns in the term it is already in.
NextTermUnchanged(n) == currentTerm[n]

\* current_term_++
NextTerm(n) == currentTerm[n] + 1

\* Tick finds election_elapsed_ >= election_timeout_ and calls StartElection.
ElectionTimeout(n) ==
    /\ MayEnter(n)
    /\ n \notin crashed
    /\ role[n] # Leader
    /\ currentTerm[n] < MaxTerm
    /\ role' = [role EXCEPT ![n] = Candidate]
    /\ currentTerm' = [currentTerm EXCEPT ![n] = NextTerm(n)]
    /\ votedFor' = [votedFor EXCEPT ![n] = n]
    /\ op' = [op EXCEPT ![n] = Round(n, "vote", NextTerm(n), {n})]
    /\ UNCHANGED <<leaderId, log, applyVars, leaderVars, clusterVars, elected>>

\* The peer is down or cut off: the reply is {term 0, not granted}.
RequestVoteLost(n, p) ==
    /\ op[n].kind = "vote"
    /\ IsNextPeer(n, p)
    /\ ~Reachable(n, p)
    /\ op' = [op EXCEPT ![n].todo = @ \ {p}]
    /\ UNCHANGED <<persistVars, applyVars, leaderVars, roleVars, clusterVars, elected>>

\* The RPC reaches p, whose handler waits for p's mutex.
Delivers(n, p, kind) ==
    /\ op[n].kind = kind
    /\ IsNextPeer(n, p)
    /\ Reachable(n, p)
    /\ op[p] = Idle

\* Mutant: the round goes on after the step down (the return is missing).
BecomeFollowerGoesOn(n, t) ==
    /\ role' = [role EXCEPT ![n] = Follower]
    /\ currentTerm' = [currentTerm EXCEPT ![n] = t]
    /\ votedFor' = [votedFor EXCEPT ![n] = 0]
    /\ leaderId' = [leaderId EXCEPT ![n] = 0]
    /\ op' = [op EXCEPT ![n].todo = {}]

\* BecomeFollower(t), called by a node that learns of a newer term from a reply.
BecomeFollower(n, t) ==
    /\ role' = [role EXCEPT ![n] = Follower]
    /\ currentTerm' = [currentTerm EXCEPT ![n] = t]
    /\ votedFor' = [votedFor EXCEPT ![n] = 0]
    /\ leaderId' = [leaderId EXCEPT ![n] = 0]
    /\ op' = [op EXCEPT ![n] = Idle]

\* Rule 1: p has a newer term and refuses; the candidate steps down on the reply.
RequestVoteStale(n, p) ==
    /\ Delivers(n, p, "vote")
    /\ op[n].term < currentTerm[p]
    /\ BecomeFollower(n, currentTerm[p])
    /\ UNCHANGED <<log, applyVars, leaderVars, clusterVars, elected>>

\* Mutant: the election restriction is dropped.
GrantsShortLogs(n, p) == op[n].term > currentTerm[p] \/ votedFor[p] \in {0, n}

\* Rule 3, after rule 2 has cleared the vote of an older term.
Grants(n, p) ==
    /\ op[n].term > currentTerm[p] \/ votedFor[p] \in {0, n}
    /\ UpToDate(log[p], LastIndex(log[n]), LastTerm(log[n]))

\* Rule 2 and p's vote: what HandleRequestVote leaves in p's term and vote.
TakeTermAndVote(n, p, vote) ==
    /\ currentTerm' = [currentTerm EXCEPT ![p] = op[n].term]
    /\ votedFor' = [votedFor EXCEPT ![p] = vote]

RoleSeenBy(n, p)   == IF op[n].term > currentTerm[p] THEN Follower ELSE role[p]
LeaderSeenBy(n, p) == IF op[n].term > currentTerm[p] THEN 0 ELSE leaderId[p]

RequestVoteDenied(n, p) ==
    /\ Delivers(n, p, "vote")
    /\ op[n].term >= currentTerm[p]
    /\ ~Grants(n, p)
    /\ TakeTermAndVote(n, p, IF op[n].term > currentTerm[p] THEN 0 ELSE votedFor[p])
    /\ role' = [role EXCEPT ![p] = RoleSeenBy(n, p)]
    /\ leaderId' = [leaderId EXCEPT ![p] = LeaderSeenBy(n, p)]
    /\ op' = [op EXCEPT ![n].todo = @ \ {p}]
    /\ UNCHANGED <<log, applyVars, leaderVars, clusterVars, elected>>

RequestVoteGranted(n, p) ==
    /\ Delivers(n, p, "vote")
    /\ op[n].term >= currentTerm[p]
    /\ Grants(n, p)
    /\ Cardinality(op[n].votes \cup {p}) < Majority
    /\ TakeTermAndVote(n, p, n)
    /\ role' = [role EXCEPT ![p] = RoleSeenBy(n, p)]
    /\ leaderId' = [leaderId EXCEPT ![p] = LeaderSeenBy(n, p)]
    /\ op' = [op EXCEPT ![n].todo = @ \ {p}, ![n].votes = @ \cup {p}]
    /\ UNCHANGED <<log, applyVars, leaderVars, clusterVars, elected>>

\* The vote that makes a majority: BecomeLeader resets the peer indices and
\* goes straight on to SendHeartbeats, the candidate's mutex still held.
BecomeLeader(n, p) ==
    /\ Delivers(n, p, "vote")
    /\ op[n].term >= currentTerm[p]
    /\ Grants(n, p)
    /\ Cardinality(op[n].votes \cup {p}) >= Majority
    /\ TakeTermAndVote(n, p, n)
    /\ role' = [role EXCEPT ![p] = RoleSeenBy(n, p), ![n] = Leader]
    /\ leaderId' = [leaderId EXCEPT ![p] = LeaderSeenBy(n, p), ![n] = n]
    /\ nextIndex' = [nextIndex EXCEPT ![n] = [q \in Node |-> LastIndex(log[n]) + 1]]
    /\ matchIndex' = [matchIndex EXCEPT ![n] = [q \in Node |-> 0]]
    /\ elected' = elected \cup {[term |-> op[n].term, node |-> n]}
    /\ op' = [op EXCEPT ![n] = Round(n, "append", op[n].term, {})]
    /\ UNCHANGED <<log, applyVars, clusterVars>>

\* Every peer was asked and no majority came together: still a candidate.
EndElection(n) ==
    /\ op[n].kind = "vote"
    /\ op[n].todo = {}
    /\ op' = [op EXCEPT ![n] = Idle]
    /\ UNCHANGED <<persistVars, applyVars, leaderVars, roleVars, clusterVars, elected>>

-----------------------------------------------------------------------------
(***************************************************************************)
(* Replication: Tick's leader branch, Propose, SendHeartbeats,             *)
(* HandleAppendEntries, UpdateCommitIndex.                                 *)
(***************************************************************************)

\* Tick finds heartbeat_elapsed_ >= heartbeat_timeout_ and calls SendHeartbeats.
HeartbeatTimeout(n) ==
    /\ MayEnter(n)
    /\ n \notin crashed
    /\ role[n] = Leader
    /\ op' = [op EXCEPT ![n] = Round(n, "append", currentTerm[n], {})]
    /\ UNCHANGED <<persistVars, applyVars, leaderVars, roleVars, clusterVars, elected>>

\* Propose on a live leader: append to the own log and replicate at once.
Propose(n, c) ==
    /\ MayEnter(n)
    /\ n \notin crashed
    /\ role[n] = Leader
    /\ Len(log[n]) < MaxLog
    /\ log' = [log EXCEPT ![n] = Append(@, [term |-> currentTerm[n], command |-> c])]
    /\ op' = [op EXCEPT ![n] = Round(n, "append", currentTerm[n], {})]
    /\ UNCHANGED <<currentTerm, votedFor, applyVars, leaderVars, roleVars,
                   clusterVars, elected>>

\* The arguments of the AppendEntries call that n makes to p.
PrevIndex(n, p) == nextIndex[n][p] - 1
EntriesTo(n, p) == EntriesFrom(log[n], nextIndex[n][p])

\* Mutant: next_index_ is counted down past 0 instead of clamped.
NextAfterLossUnclamped == 0 - 1

\* The peer is down or cut off: {not successful, conflict 0/0} sets next_index_
\* to conflict_index, that is 0, which is then raised to 1.
NextAfterLoss == 1

AppendEntriesLost(n, p) ==
    /\ op[n].kind = "append"
    /\ IsNextPeer(n, p)
    /\ ~Reachable(n, p)
    /\ nextIndex' = [nextIndex EXCEPT ![n][p] = NextAfterLoss]
    /\ op' = [op EXCEPT ![n].todo = @ \ {p}]
    /\ UNCHANGED <<persistVars, applyVars, matchIndex, roleVars, clusterVars, elected>>

\* Rule 1: p has a newer term and refuses; the leader steps down on the reply.
AppendEntriesStale(n, p) ==
    /\ Delivers(n, p, "append")
    /\ op[n].term < currentTerm[p]
    /\ BecomeFollower(n, currentTerm[p])
    /\ UNCHANGED <<log, applyVars, leaderVars, clusterVars, elected>>

\* Mutant: the leader is accepted but its term is not taken over.
AcknowledgeKeepingTerm(n, p) ==
    /\ role' = [role EXCEPT ![p] = Follower]
    /\ leaderId' = [leaderId EXCEPT ![p] = n]
    /\ votedFor' = [votedFor EXCEPT ![p] = 0]
    /\ UNCHANGED currentTerm

\* p accepts n as leader.  The vote is forgotten even when p's term is n's own.
Acknowledge(n, p) ==
    /\ currentTerm' = [currentTerm EXCEPT ![p] = op[n].term]
    /\ role' = [role EXCEPT ![p] = Follower]
    /\ leaderId' = [leaderId EXCEPT ![p] = n]
    /\ votedFor' = [votedFor EXCEPT ![p] = 0]

\* Rule 2: p's log holds the entry before the ones sent.
Consistent(n, p) ==
    PrevIndex(n, p) > 0 =>
        /\ PrevIndex(n, p) <= LastIndex(log[p])
        /\ TermAt(log[p], PrevIndex(n, p)) = TermAt(log[n], PrevIndex(n, p))

\* Mutant: where the terms differ, the leader keeps probing at the same place.
NextAfterConflictStuck(n, p) ==
    IF PrevIndex(n, p) > LastIndex(log[p]) THEN LastIndex(log[p]) + 1 ELSE nextIndex[n][p]

\* The fast backup: past p's end, after the leader's own last entry of the
\* term p holds there, or to the first entry p holds of that term.
NextAfterConflict(n, p) ==
    IF PrevIndex(n, p) > LastIndex(log[p])
    THEN LastIndex(log[p]) + 1
    ELSE LET prev == PrevIndex(n, p)
             mine == LastOfTerm(log[n], TermAt(log[p], prev))
         IN  IF mine = {} THEN FirstOfTerm(log[p], prev)
             ELSE (CHOOSE i \in mine : TRUE) + 1

AppendEntriesConflict(n, p) ==
    /\ Delivers(n, p, "append")
    /\ op[n].term >= currentTerm[p]
    /\ Acknowledge(n, p)
    /\ ~Consistent(n, p)
    /\ nextIndex' = [nextIndex EXCEPT ![n][p] = NextAfterConflict(n, p)]
    /\ op' = [op EXCEPT ![n].todo = @ \ {p}]
    /\ UNCHANGED <<log, applyVars, matchIndex, clusterVars, elected>>

\* What applying the entries from+1..to of l hands to the state machine, by
\* index: an index past the end reads as an empty entry (GetEntry's LogEntry{}).
CommandsOf(l, from, to) ==
    [i \in 1..(to - from) |->
        IF from + i <= Len(l) THEN l[from + i].command ELSE EmptyCommand]

\* Rule 4: min(leader_commit, last new entry), when that leader is ahead.
CommitAfterAppend(n, p) ==
    LET lastNew == PrevIndex(n, p) + Len(EntriesTo(n, p))
    IN  IF commitIndex[n] > commitIndex[p]
        THEN IF commitIndex[n] < lastNew THEN commitIndex[n] ELSE lastNew
        ELSE commitIndex[p]

\* Rules 3 and 4, then the entries up to the commit index are applied; on the
\* reply the leader moves both indices, but only if it sent any entries.
AppendEntriesAccepted(n, p) ==
    LET newLog == AppendEntries(log[p], PrevIndex(n, p), EntriesTo(n, p))
        commit == CommitAfterAppend(n, p)
        upto   == IF commit > lastApplied[p] THEN commit ELSE lastApplied[p]
    IN  /\ Delivers(n, p, "append")
        /\ op[n].term >= currentTerm[p]
        /\ Acknowledge(n, p)
        /\ Consistent(n, p)
        /\ log' = [log EXCEPT ![p] = newLog]
        /\ commitIndex' = [commitIndex EXCEPT ![p] = commit]
        /\ lastApplied' = [lastApplied EXCEPT ![p] = upto]
        /\ applied' = [applied EXCEPT ![p] = @ \o CommandsOf(newLog, lastApplied[p], upto)]
        /\ IF EntriesTo(n, p) # <<>>
           THEN /\ nextIndex' = [nextIndex EXCEPT ![n][p] = LastIndex(log[n]) + 1]
                /\ matchIndex' = [matchIndex EXCEPT ![n][p] = LastIndex(log[n])]
           ELSE UNCHANGED leaderVars
        /\ op' = [op EXCEPT ![n].todo = @ \ {p}]
        /\ UNCHANGED <<clusterVars, elected>>

\* Mutant: an entry of an older term may be committed by counting copies.
CommittableAnyTerm(n) ==
    {k \in (commitIndex[n] + 1)..Len(log[n]) :
        Cardinality({p \in Peers(n) : matchIndex[n][p] >= k}) + 1
            > Cardinality(Node) \div 2}

\* UpdateCommitIndex: entries of the own term that a majority holds.
Committable(n) ==
    {k \in (commitIndex[n] + 1)..Len(log[n]) :
        /\ log[n][k].term = currentTerm[n]
        /\ Cardinality({p \in Peers(n) : matchIndex[n][p] >= k}) + 1
             > Cardinality(Node) \div 2}

\* The end of SendHeartbeats: UpdateCommitIndex and ApplyCommitted.
EndHeartbeats(n) ==
    LET commit == IF Committable(n) = {} THEN commitIndex[n] ELSE Max(Committable(n))
        upto   == IF commit > commitIndex[n] /\ commit > lastApplied[n]
                  THEN commit ELSE lastApplied[n]
    IN  /\ op[n].kind = "append"
        /\ op[n].todo = {}
        /\ commitIndex' = [commitIndex EXCEPT ![n] = commit]
        /\ lastApplied' = [lastApplied EXCEPT ![n] = upto]
        /\ applied' = [applied EXCEPT ![n] = @ \o CommandsOf(log[n], lastApplied[n], upto)]
        /\ op' = [op EXCEPT ![n] = Idle]
        /\ UNCHANGED <<persistVars, leaderVars, roleVars, clusterVars, elected>>

-----------------------------------------------------------------------------
(***************************************************************************)
(* The driver's control calls.  CrashNode and RestartNode only change the  *)
(* set of crashed nodes: a node comes back with everything it had.         *)
(***************************************************************************)

CrashNode(n) ==
    /\ "crash" \in Faults /\ Quiet
    /\ n \notin crashed
    /\ Cardinality(crashed) < MaxDown
    /\ crashed' = crashed \cup {n}
    /\ UNCHANGED <<persistVars, applyVars, leaderVars, roleVars, cut, op, elected>>

RestartNode(n) ==
    /\ "restart" \in Faults /\ Quiet
    /\ n \in crashed
    /\ crashed' = crashed \ {n}
    /\ UNCHANGED <<persistVars, applyVars, leaderVars, roleVars, cut, op, elected>>

LinksOf(n) == {{n, m} : m \in Peers(n)}

ChangeCut(newCut) ==
    /\ Quiet
    /\ newCut # cut
    /\ cut' = newCut
    /\ UNCHANGED <<persistVars, applyVars, leaderVars, roleVars, crashed, op, elected>>

Disconnect(a, b) == "disconnect" \in Faults /\ a # b /\ ChangeCut(cut \cup {{a, b}})
Reconnect(a, b)  == "reconnect" \in Faults /\ a # b /\ ChangeCut(cut \ {{a, b}})
IsolateNode(n)   == "isolate" \in Faults /\ ChangeCut(cut \cup LinksOf(n))
RecoverNode(n)   == "recover" \in Faults /\ ChangeCut(cut \ LinksOf(n))

-----------------------------------------------------------------------------
RoundStep(n, p) ==
    \/ RequestVoteLost(n, p)
    \/ RequestVoteStale(n, p)
    \/ RequestVoteDenied(n, p)
    \/ RequestVoteGranted(n, p)
    \/ BecomeLeader(n, p)
    \/ AppendEntriesLost(n, p)
    \/ AppendEntriesStale(n, p)
    \/ AppendEntriesConflict(n, p)
    \/ AppendEntriesAccepted(n, p)

Control(n, m) ==
    \/ CrashNode(n)
    \/ RestartNode(n)
    \/ Disconnect(n, m)
    \/ Reconnect(n, m)
    \/ IsolateNode(n)
    \/ RecoverNode(n)

Next ==
    \/ \E n \in Node : ElectionTimeout(n)
    \/ \E n \in Node : HeartbeatTimeout(n)
    \/ \E n \in Node, c \in Command : Propose(n, c)
    \/ \E n, p \in Node : RoundStep(n, p)
    \/ \E n \in Node : EndElection(n)
    \/ \E n \in Node : EndHeartbeats(n)
    \/ \E n, m \in Node : Control(n, m)

Spec == Init /\ [][Next]_vars

\* A round that was started runs to its end, and TickAll keeps ticking every
\* live node, so that a leader's heartbeat falls due again and again although
\* the rounds of other nodes come between.
Fairness ==
    /\ WF_vars(\E n, p \in Node : RoundStep(n, p))
    /\ WF_vars(\E n \in Node : EndElection(n) \/ EndHeartbeats(n))
    /\ \A n \in Node : SF_vars(HeartbeatTimeout(n))

FairSpec == Spec /\ Fairness

-----------------------------------------------------------------------------
(***************************************************************************)
(* Properties.                                                             *)
(***************************************************************************)

Entry == [term : Nat, command : Command]
RoundRecord == [kind : {"idle", "vote", "append"}, term : Nat,
                todo : SUBSET Node, votes : SUBSET Node]

\* Every variable has the type of the member it stands for.
TypeOK ==
    /\ currentTerm \in [Node -> Nat]
    /\ votedFor \in [Node -> Node \cup {0}]
    /\ role \in [Node -> {Follower, Candidate, Leader}]
    /\ leaderId \in [Node -> Node \cup {0}]
    /\ log \in [Node -> Seq(Entry)]
    /\ commitIndex \in [Node -> Nat]
    /\ lastApplied \in [Node -> Nat]
    /\ applied \in [Node -> Seq(Command \cup {EmptyCommand})]
    /\ nextIndex \in [Node -> [Node -> Nat]]
    /\ matchIndex \in [Node -> [Node -> Nat]]
    /\ op \in [Node -> RoundRecord]
    /\ crashed \subseteq Node
    /\ cut \subseteq SUBSET Node
    /\ elected \subseteq [term : Nat, node : Node]

\* A term has at most one leader, over the whole history.
ElectionSafety == \A e, f \in elected : e.term = f.term => e = f

\* At no moment are two nodes leader of the same term.
OneLeaderPerTerm ==
    \A m, n \in Node :
        role[m] = Leader /\ role[n] = Leader /\ currentTerm[m] = currentTerm[n]
            => m = n

\* The leader's index arithmetic stays inside its log: SendHeartbeats computes
\* next - 1 on unsigned integers and reads the log from next on.
NextIndexInRange ==
    \A n \in Node : role[n] = Leader =>
        \A p \in Peers(n) : nextIndex[n][p] \in 1..(LastIndex(log[n]) + 1)

\* The terms of a log never decrease and never pass the node's own term.
LogTermsOrdered ==
    \A n \in Node :
        /\ \A i, j \in 1..Len(log[n]) : i <= j => log[n][i].term <= log[n][j].term
        /\ \A i \in 1..Len(log[n]) : log[n][i].term <= currentTerm[n]

\* Nothing changes a node behind the back of its own round.
RoundUndisturbed ==
    \A n \in Node :
        /\ op[n].kind = "vote"   => role[n] = Candidate /\ currentTerm[n] = op[n].term
        /\ op[n].kind = "append" => role[n] = Leader /\ currentTerm[n] = op[n].term

\* The safety of Raft as the code's own comments state it, given that no term
\* had two leaders: acknowledging a leader of its own term makes a node forget
\* its vote, so ElectionSafety fails once a node that missed an election comes
\* back.  These properties say that nothing else is wrong.

\* Two logs that agree on the term at an index agree up to that index.
LogMatching ==
    ElectionSafety =>
        \A m, n \in Node : \A i \in 1..Len(log[m]) :
            i <= Len(log[n]) /\ log[m][i].term = log[n][i].term
                => SubSeq(log[m], 1, i) = SubSeq(log[n], 1, i)

\* applied_commands_: empty commands are not pushed.
AppliedCommands(n) ==
    AtIndices(applied[n], {i \in DOMAIN applied[n] : applied[n][i] # EmptyCommand})

\* CheckConsistency, for crashed nodes too: no two nodes have applied different
\* commands at the same position.
AppliedAgree ==
    ElectionSafety =>
        \A m, n \in Node :
            \/ IsPrefix(AppliedCommands(m), AppliedCommands(n))
            \/ IsPrefix(AppliedCommands(n), AppliedCommands(m))

\* What a node has applied is what its log still holds up to its commit index:
\* no entry is overwritten after it was applied.
AppliedIsLog ==
    ElectionSafety =>
        \A n \in Node :
            /\ lastApplied[n] = commitIndex[n]
            /\ commitIndex[n] <= Len(log[n])
            /\ applied[n] = CommandsOf(log[n], 0, commitIndex[n])

\* A leader holds everything committed by a node that is not ahead of its term.
LeaderCompleteness ==
    ElectionSafety =>
        \A m, n \in Node :
            role[m] = Leader /\ currentTerm[n] <= currentTerm[m]
                => /\ commitIndex[n] <= Len(log[m])
                   /\ \A k \in 1..commitIndex[n] : log[m][k] = log[n][k]

\* Nor can a node without a committed entry become leader: whoever has a log that a
\* majority would vote for, leader now or not, holds what any node has committed
\* (the election restriction, HandleRequestVote, and the rule of raft_node.cpp:327
\* that an entry of an older term is not committed by counting).
CanBeElected(m) ==
    Cardinality({p \in Node : UpToDate(log[p], LastIndex(log[m]), LastTerm(log[m]))}) >= Majority

ElectableComplete ==
    ElectionSafety =>
        \A m, n \in Node : CanBeElected(m) =>
            /\ commitIndex[n] <= Len(log[m])
            /\ \A k \in 1..commitIndex[n] : log[m][k] = log[n][k]

\* A follower that is still in the leader's term holds every entry the leader
\* counts it for in UpdateCommitIndex.
MatchIndexSound ==
    ElectionSafety =>
        \A n \in Node : role[n] = Leader =>
            \A p \in Peers(n) : currentTerm[p] = currentTerm[n] =>
                \A k \in 1..matchIndex[n][p] :
                    k <= Len(log[p]) /\ k <= Len(log[n]) /\ log[p][k] = log[n][k]

\* While a node stays leader and every node stays up and connected, each log
\* comes to extend the leader's, however far the two have parted, each commit index
\* catches up with the leader's, and the leader commits what it proposed itself
\* (the back-up of next_index_, raft_node.cpp:266-279), as long as no term has had
\* two leaders.
Stable(n) == ElectionSafety /\ role[n] = Leader /\ crashed = {} /\ cut = {}

CaughtUp(n) ==
    /\ \A p \in Peers(n) :
          /\ Len(log[p]) >= Len(log[n])
          /\ SubSeq(log[p], 1, Len(log[n])) = log[n]
          /\ commitIndex[p] >= commitIndex[n]
    /\ LastTerm(log[n]) = currentTerm[n] => commitIndex[n] = Len(log[n])

Convergence == \A n \in Node : <>[]Stable(n) => <>[]CaughtUp(n)
=============================================================================
