-------------------------------- MODULE Mvcc --------------------------------
(***************************************************************************)
(* Multi-version concurrency control (src/src/concurrency/mvcc.cpp) with   *)
(* the commit log and a page of tuples.                                    *)
(*                                                                         *)
(* Each session runs one transaction at a time, on a thread of its own.    *)
(* BeginTransaction holds mvcc_mutex_ throughout.  Commit and abort are    *)
(* three steps: in memory under the mutex, then in the commit log, then    *)
(* its flush.  IsTupleVisible is two: it copies the tuple's header under   *)
(* the page latch, and decides under the mutex, from the copy.             *)
(*                                                                         *)
(* Of two transactions that would delete a tuple, the code lets the second *)
(* overwrite the mark of the first; who may delete is up to its callers,   *)
(* and here it is one transaction that sees the tuple.                     *)
(*                                                                         *)
(* The process may end, in order or by dying, and start again on the same  *)
(* commit log, its transactions numbered from 1 again.  The tuples of the  *)
(* earlier life, which the new numbers would be confused with, are left    *)
(* behind with their page.                                                 *)
(***************************************************************************)
EXTENDS Integers, Sequences, FiniteSets, FiniteSetsExt, CommitLog, TuplePage

CONSTANTS
    Session,    \* threads that run transactions
    MaxTxn,     \* bound: no transaction id beyond this one
    MaxRestarts,    \* bound: the process starts again at most this often
    MaxTxnAgain,    \* bound: as MaxTxn, for the later lives of the process
    DataLen,    \* the length of a tuple's data
    Redelete    \* TRUE: a tuple may be deleted again after its deleter aborted

ASSUME TxnAssumption == MaxTxn \in Nat /\ DataLen \in Nat \ {0} /\ Redelete \in BOOLEAN
ASSUME RestartAssumption == MaxRestarts \in Nat /\ MaxTxnAgain \in 0 .. MaxTxn

VARIABLES
    nextTxnId,    \* next_txn_id_
    txnStates,    \* txn_states_, "INVALID" for an id without an entry
    activeTxns,   \* active_txns_
    snapshots,    \* txn_snapshots_
    session,      \* what each session is doing
    restarts,     \* how often the process has started again
    seen,         \* history: who had committed when each transaction began
    deleted,      \* history: which transaction deleted which slot
    answers       \* history: what callers were told of each id by the last earlier
                  \* life that began it, "INVALID" if they were told nothing

mvccVars == <<nextTxnId, txnStates, activeTxns, snapshots>>
history  == <<seen, deleted, answers>>
vars == <<mvccVars, clogVars, pageVars, session, restarts, history>>

TxnId == 1 .. MaxTxn

NoSnapshot == [xmin |-> NoTxn, xmax |-> NoTxn, active |-> {}]
NoTuple == [offset |-> 0, length |-> 0, xmin |-> NoTxn, xmax |-> NoTxn, hints |-> {}]
Idle == [at |-> "idle", txn |-> NoTxn, slot |-> 0, header |-> NoTuple]

Init ==
    /\ ClogInit
    /\ InitPage
    /\ nextTxnId = 1
    /\ txnStates = [t \in TxnId |-> "INVALID"]
    /\ activeTxns = {}
    /\ snapshots = [t \in TxnId |-> NoSnapshot]
    /\ session = [c \in Session |-> Idle]
    /\ seen = [t \in TxnId |-> {}]
    /\ deleted = {}
    /\ restarts = 0
    /\ answers = txnStates

-----------------------------------------------------------------------------
(***************************************************************************)
(* Visibility.                                                             *)
(***************************************************************************)

\* Mutant: a transaction that was running when the snapshot was taken is seen.
SnapshotSeesRunning(snapshot, t) == t < snapshot.xmax

\* Mutant: so is one that began later.
SnapshotSeesLater(snapshot, t) == t \notin snapshot.active

\* Snapshot::IsVisible
SnapshotSees(snapshot, t) ==
    \/ t < snapshot.xmin
    \/ t < snapshot.xmax /\ t \notin snapshot.active

\* Mutant: only this life's transactions are known.
StateOfThisLife(t) == txnStates[t]

\* GetTransactionState: from memory, or else from the commit log.
GetTransactionState(t) ==
    CASE txnStates[t] # "INVALID" -> txnStates[t]
      [] txnStates[t] = "INVALID" /\ clog[t] = "IN_PROGRESS" -> "RUNNING"
      [] OTHER -> clog[t]

\* What is known of the transaction that wrote an xmin or an xmax: the hint bit
\* if there is one, and the state otherwise.
Outcome(h, committed, aborted, t) ==
    CASE committed \in h.hints -> "COMMITTED"
      [] aborted \in h.hints /\ committed \notin h.hints -> "ABORTED"
      [] OTHER -> GetTransactionState(t)

Inserter(h) == Outcome(h, "xminCommitted", "xminAborted", h.xmin)
Deleter(h)  == Outcome(h, "xmaxCommitted", "xmaxAborted", h.xmax)

SeesInsert(t, h) ==
    h.xmin = t \/ (Inserter(h) = "COMMITTED" /\ SnapshotSees(snapshots[t], h.xmin))

SeesDelete(t, h) ==
    /\ h.xmax # NoTxn
    /\ h.xmax = t \/ (Deleter(h) = "COMMITTED" /\ SnapshotSees(snapshots[t], h.xmax))

\* IsTupleVisible, for the copy h of a tuple's header.
IsTupleVisible(t, h) == SeesInsert(t, h) /\ ~SeesDelete(t, h)

\* Mutant: a transaction that has not committed is taken for aborted.
HintOfEarly(outcome, committed, aborted) ==
    IF outcome = "COMMITTED" THEN {committed} ELSE {aborted}

\* The hint bit for a transaction that has ended.
HintOf(outcome, committed, aborted) ==
    CASE outcome = "COMMITTED" -> {committed}
      [] outcome = "ABORTED"   -> {aborted}
      [] OTHER -> {}

\* The hint bits IsTupleVisible sets on its way: xmin's unless the reader
\* inserted the tuple, and xmax's once the insertion is found to be visible.
LearnedHints(t, h) ==
    (IF h.xmin = t THEN {} ELSE HintOf(Inserter(h), "xminCommitted", "xminAborted"))
    \cup
    (IF ~SeesInsert(t, h) \/ h.xmax \in {NoTxn, t} THEN {}
     ELSE HintOf(Deleter(h), "xmaxCommitted", "xmaxAborted"))

\* Mutant: a deletion is looked up by its state alone.
IsVersionVisibleUncommitted(t, v) ==
    /\ v.xmin = t \/ (GetTransactionState(v.xmin) = "COMMITTED" /\ SnapshotSees(snapshots[t], v.xmin))
    /\ v.xmax = NoTxn \/ (v.xmax # t /\ GetTransactionState(v.xmax) # "COMMITTED")

\* IsVersionVisible: the same question about a version in memory, which has no
\* hint bits.  A reader's own version is asked about without its snapshot.
IsVersionVisible(t, v) ==
    IF v.xmin = t
    THEN v.xmax = NoTxn \/ (v.xmax # t /\ GetTransactionState(v.xmax) # "COMMITTED")
    ELSE /\ GetTransactionState(v.xmin) = "COMMITTED" /\ SnapshotSees(snapshots[t], v.xmin)
         /\ \/ v.xmax = NoTxn
            \/ /\ v.xmax # t
               /\ GetTransactionState(v.xmax) = "COMMITTED" => ~SnapshotSees(snapshots[t], v.xmax)

-----------------------------------------------------------------------------
(***************************************************************************)
(* Transactions.                                                           *)
(***************************************************************************)

Active(c) == session[c].at = "active"

TakeSnapshot(t) == [xmin |-> Min(activeTxns'), xmax |-> nextTxnId', active |-> activeTxns']

\* With an id beyond the commit log, SetTransactionStatus throws: the caller
\* gets no id, and the transaction stays among the active ones.
BeginTransaction(c) ==
    LET t == nextTxnId
    IN  /\ session[c] = Idle
        /\ t <= (IF restarts = 0 THEN MaxTxn ELSE MaxTxnAgain)
        /\ nextTxnId' = t + 1
        /\ txnStates' = [txnStates EXCEPT ![t] = "RUNNING"]
        /\ activeTxns' = activeTxns \cup {t}
        /\ snapshots' = [snapshots EXCEPT ![t] = TakeSnapshot(t)]
        /\ IF InClog(t)
           THEN /\ SetTransactionStatus(t, "IN_PROGRESS")
                /\ session' = [session EXCEPT ![c] = [Idle EXCEPT !.at = "active", !.txn = t]]
           ELSE UNCHANGED <<clogVars, session>>
        /\ seen' = [seen EXCEPT ![t] = {u \in TxnId : txnStates[u] = "COMMITTED"}]
        /\ UNCHANGED <<pageVars, restarts, deleted, answers>>

\* Mutant: the snapshot stays behind.
SnapshotsKept(t) == snapshots

SnapshotsWithout(t) == [snapshots EXCEPT ![t] = NoSnapshot]

\* CommitTransaction and AbortTransaction: in memory, everyone sees it at once.
EndInMemory(c, outcome) ==
    LET t == session[c].txn
    IN  /\ Active(c)
        /\ txnStates' = [txnStates EXCEPT ![t] = outcome]
        /\ activeTxns' = activeTxns \ {t}
        /\ snapshots' = SnapshotsWithout(t)
        /\ session' = [session EXCEPT ![c].at = "log"]
        /\ UNCHANGED <<nextTxnId, clogVars, pageVars, restarts, history>>

EndInClog(c) ==
    LET t == session[c].txn
    IN  /\ session[c].at = "log"
        /\ SetTransactionStatus(t, txnStates[t])
        /\ session' = [session EXCEPT ![c].at = "flush"]
        /\ UNCHANGED <<mvccVars, pageVars, restarts, history>>

EndFlushed(c) ==
    /\ session[c].at = "flush"
    /\ ClogFlush
    /\ session' = [session EXCEPT ![c] = Idle]
    /\ UNCHANGED <<mvccVars, pageVars, restarts, history>>

-----------------------------------------------------------------------------
(***************************************************************************)
(* What a transaction does with tuples.                                    *)
(***************************************************************************)

Insert(c) ==
    /\ Active(c)
    /\ InsertTuple(session[c].txn, DataLen)
    /\ UNCHANGED <<mvccVars, clogVars, session, restarts, history>>

\* The tuple is visible, and no one has deleted it, or tried and aborted.
Delete(c, s) ==
    LET t == session[c].txn
        h == slots[s]
    IN  /\ Active(c)
        /\ IsTupleVisible(t, h)
        /\ h.xmax \in {NoTxn} \cup {u \in TxnId : Redelete /\ txnStates[u] = "ABORTED"}
        /\ MarkDelete(s, t)
        /\ deleted' = deleted \cup {<<s, t>>}
        /\ UNCHANGED <<mvccVars, clogVars, session, restarts, seen, answers>>

\* IsTupleVisible: GetTupleHeader, under the page latch.
ReadHeader(c, s) ==
    /\ Active(c)
    /\ session' = [session EXCEPT ![c].at = "reading", ![c].slot = s, ![c].header = slots[s]]
    /\ UNCHANGED <<mvccVars, clogVars, pageVars, restarts, history>>

\* The rest of it, under mvcc_mutex_.  The hint bits go to the tuple as it is now.
Decide(c) ==
    /\ session[c].at = "reading"
    /\ UpdateHintBits(session[c].slot, LearnedHints(session[c].txn, session[c].header))
    /\ session' = [session EXCEPT ![c] = [Idle EXCEPT !.at = "active", !.txn = session[c].txn]]
    /\ UNCHANGED <<mvccVars, clogVars, restarts, history>>

-----------------------------------------------------------------------------
(***************************************************************************)
(* The process ends and starts again: in order, with no call under way,    *)
(* when the commit log's destructor flushes it, or by dying at any moment. *)
(***************************************************************************)

Ended(t) == txnStates[t] \in {"COMMITTED", "ABORTED"}

\* The caller of the commit or abort of t has its answer.
Told(t) == Ended(t) /\ \A c \in Session : session[c].txn # t

Restart(inOrder) ==
    /\ restarts < MaxRestarts
    /\ inOrder => \A c \in Session : session[c].at \in {"idle", "active"}
    /\ ClogReopen(inOrder)
    /\ nextTxnId' = 1
    /\ txnStates' = [t \in TxnId |-> "INVALID"]
    /\ activeTxns' = {}
    /\ snapshots' = [t \in TxnId |-> NoSnapshot]
    /\ session' = [c \in Session |-> Idle]
    /\ slots' = <<>> /\ freeSpaceOffset' = PageUserDataSize
    /\ restarts' = restarts + 1
    /\ seen' = [t \in TxnId |-> {}]
    /\ deleted' = {}
    /\ answers' = [t \in TxnId |-> CASE txnStates[t] = "INVALID" -> answers[t]
                                     [] Told(t) -> txnStates[t]
                                     [] OTHER -> "INVALID"]

-----------------------------------------------------------------------------
SessionStep(c) ==
    \/ BeginTransaction(c)
    \/ \E outcome \in {"COMMITTED", "ABORTED"} : EndInMemory(c, outcome)
    \/ EndInClog(c)
    \/ EndFlushed(c)
    \/ Insert(c)
    \/ \E s \in DOMAIN slots : Delete(c, s)
    \/ \E s \in DOMAIN slots : ReadHeader(c, s)
    \/ Decide(c)

Next ==
    \/ \E c \in Session : SessionStep(c)
    \/ \E inOrder \in BOOLEAN : Restart(inOrder)

Spec == Init /\ [][Next]_vars

-----------------------------------------------------------------------------
(***************************************************************************)
(* Properties.                                                             *)
(***************************************************************************)

Tuple ==
    [offset : 0 .. PageUserDataSize, length : 0 .. PageUserDataSize,
     xmin : 0 .. MaxTxn, xmax : 0 .. MaxTxn, hints : SUBSET Hints]

TxnState == {"INVALID", "RUNNING", "COMMITTED", "ABORTED"}
Snapshot == [xmin : 0 .. MaxTxn, xmax : 0 .. MaxTxn + 1, active : SUBSET TxnId]
SessionRecord ==
    [at : {"idle", "active", "reading", "log", "flush"}, txn : 0 .. MaxTxn, slot : Nat,
     header : Tuple]

\* Types; and the transactions with a snapshot are the active ones.
TypeOK ==
    /\ clog \in [0 .. MaxTransactions - 1 -> ClogStatus]
    /\ clogFile \in [0 .. MaxTransactions - 1 -> ClogStatus]
    /\ clogDirty \in BOOLEAN
    /\ slots \in Seq(Tuple)
    /\ freeSpaceOffset \in 0 .. PageUserDataSize
    /\ nextTxnId \in 1 .. MaxTxn + 1
    /\ txnStates \in [TxnId -> TxnState]
    /\ snapshots \in [TxnId -> Snapshot]
    /\ activeTxns = {t \in TxnId : snapshots[t] # NoSnapshot}
    /\ session \in [Session -> SessionRecord]
    /\ restarts \in 0 .. MaxRestarts
    /\ seen \in [TxnId -> SUBSET TxnId]
    /\ deleted \subseteq (DOMAIN slots) \X TxnId
    /\ answers \in [TxnId -> TxnState]

\* The transactions that are running, and what each should see: a tuple
\* inserted, and not deleted, by itself or by one committed before it began.
Running == {session[c].txn : c \in {d \in Session : session[d].at \in {"active", "reading"}}}

ShouldSee(t, s) ==
    LET happened == seen[t] \cup {t}
    IN  slots[s].xmin \in happened /\ ~ \E u \in happened : <<s, u>> \in deleted

\* A transaction sees exactly what was committed when it began, and its own
\* changes, whether it asks now or has already copied the header
\* (IsTupleVisible, mvcc.cpp:170-250; the rule at mvcc.h:34-37).
SnapshotRead ==
    /\ \A t \in Running : \A s \in DOMAIN slots : IsTupleVisible(t, slots[s]) = ShouldSee(t, s)
    /\ \A c \in Session : session[c].at = "reading" =>
           IsTupleVisible(session[c].txn, session[c].header)
               = ShouldSee(session[c].txn, session[c].slot)

ReadsRepeat ==
    \A t \in Running \cap Running' : \A s \in DOMAIN slots :
        IsTupleVisible(t, slots[s])' = IsTupleVisible(t, slots[s]) \/ slots'[s].xmax = t

\* While a transaction runs, nothing another one does, and no hint bit, changes
\* whether it sees a tuple.
RepeatableRead == [][ReadsRepeat]_vars

\* A tuple in a page and a version in memory with its xmin and xmax are visible
\* to the same transactions (IsVersionVisible and IsTupleVisible).
VersionsAgree ==
    \A t \in Running : \A s \in DOMAIN slots :
        IsVersionVisible(t, slots[s]) = IsTupleVisible(t, slots[s])

\* A hint bit tells the state of the tuple's xmin or xmax (UpdateHintBits).
HintsTrue ==
    \A s \in DOMAIN slots :
        /\ "xminCommitted" \in slots[s].hints => txnStates[slots[s].xmin] = "COMMITTED"
        /\ "xminAborted" \in slots[s].hints => txnStates[slots[s].xmin] = "ABORTED"
        /\ "xmaxCommitted" \in slots[s].hints => txnStates[slots[s].xmax] = "COMMITTED"
        /\ "xmaxAborted" \in slots[s].hints => txnStates[slots[s].xmax] = "ABORTED"

\* A commit or an abort that has returned is in the commit log's file, whatever
\* the flushes of other transactions did meanwhile.
OutcomeDurable ==
    \A t \in TxnId : Told(t) => clogFile[t] = txnStates[t]

\* A process that starts again reads in the commit log, of every id it has not
\* begun itself, what the last process that began the id answered its callers
\* (GetTransactionState, mvcc.cpp:256-285).  Of an id that was begun and not
\* answered nothing is said: a commit others had seen may be lost, although
\* mvcc.h:168-172 has the commit log written first, and the id may then read as
\* the outcome it had for a still earlier process, which it would not if the ids
\* went on from the log as mvcc.h:127-128 says.
OutcomeSurvives ==
    \A t \in TxnId :
        InClog(t) /\ txnStates[t] = "INVALID" /\ answers[t] # "INVALID" =>
            GetTransactionState(t) = answers[t]

\* Tuples overlap neither each other nor the directory of slots (InsertTuple).
TuplesDisjoint ==
    /\ SlotDirEnd(Len(slots)) <= freeSpaceOffset
    /\ \A i \in DOMAIN slots :
          slots[i].offset + slots[i].length
              = IF i = 1 THEN PageUserDataSize ELSE slots[i - 1].offset
=============================================================================
