----------------------------- MODULE CommitLog -----------------------------
(***************************************************************************)
(* The commit log (src/src/concurrency/commit_log.cpp): the status of each *)
(* transaction, two bits of one 8 KB buffer that is loaded when the file   *)
(* is opened and written back whole.  Each method holds clog_mutex_.       *)
(***************************************************************************)
EXTENDS Naturals

CONSTANT MaxTransactions   \* MAX_TRANSACTIONS: the ids the buffer has room for

ASSUME MaxTransactionsAssumption == MaxTransactions \in Nat \ {0}

VARIABLES
    clog,        \* buffer_, two bits per transaction
    clogDirty,   \* is_dirty_
    clogFile     \* what the file says

clogVars == <<clog, clogDirty, clogFile>>

ClogStatus == {"IN_PROGRESS", "COMMITTED", "ABORTED"}

\* An id beyond the buffer makes SetTransactionStatus throw.
InClog(t) == t < MaxTransactions

\* A new file: all zero bits, which stand for IN_PROGRESS.
ClogInit ==
    /\ clog = [t \in 0 .. MaxTransactions - 1 |-> "IN_PROGRESS"]
    /\ clogFile = clog
    /\ clogDirty = FALSE

\* Mutant: the buffer is not marked dirty.
SetStatusUnmarked(t, s) ==
    /\ clog' = [clog EXCEPT ![t] = s]
    /\ UNCHANGED <<clogDirty, clogFile>>

SetTransactionStatus(t, s) ==
    /\ clog' = [clog EXCEPT ![t] = s]
    /\ clogDirty' = TRUE
    /\ UNCHANGED clogFile

ClogFlush ==
    /\ clogFile' = IF clogDirty THEN clog ELSE clogFile
    /\ clogDirty' = FALSE
    /\ UNCHANGED clog

\* Mutant: a new process starts from an empty buffer.
ClogReopenEmpty(flushed) ==
    /\ clog' = [t \in 0 .. MaxTransactions - 1 |-> "IN_PROGRESS"]
    /\ clogFile' = IF flushed THEN clog ELSE clogFile
    /\ clogDirty' = FALSE

\* The destructor flushes, unless the process died; the constructor loads the file.
ClogReopen(flushed) ==
    /\ clog' = IF flushed THEN clog ELSE clogFile
    /\ clogFile' = clog'
    /\ clogDirty' = FALSE
=============================================================================
