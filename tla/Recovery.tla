------------------------------ MODULE Recovery ------------------------------
(***************************************************************************)
(* The write-ahead log and crash recovery                                  *)
(* (src/src/recovery/wal_manager.cpp, log_record.h) over the pages of a    *)
(* buffer pool.                                                            *)
(*                                                                         *)
(* The pool is what module PageStore says it is: `mem` is a page as the    *)
(* pool returns it, `page` the page on disk, and a page may go to disk at  *)
(* any time.  Every method of WALManager takes wal_mutex_, so AppendLog    *)
(* and Flush are single steps; Truncate is two, since a crash in between   *)
(* finds the file empty, and Recover is one step per page it touches.      *)
(*                                                                         *)
(* The transactions are the callers log_record.h describes: they log a     *)
(* change before making it, flush the log before a commit returns, and     *)
(* keep the pages they changed to themselves until they end.               *)
(*                                                                         *)
(* A page has one slot.  Its content is the transaction that wrote it, or  *)
(* Blank.  A crash is the death of the process: what was written to a file *)
(* stays written.                                                          *)
(***************************************************************************)
EXTENDS Integers, FiniteSets, SequencesExt, Filter

CONSTANTS
    PageId,       \* the pages transactions change
    Txn,          \* transaction ids, each used once
    Blank,        \* a slot of zero bytes
    BufferSlots,  \* WAL_BUFFER_SIZE, in records
    MaxLsn,       \* bound: no record beyond this number
    MaxCrashes,   \* bound: the process dies at most this often
    Epochs,       \* how many lives of the process run transactions
    Kinds         \* the kinds of change, among ChangeKinds

ChangeKinds == {"INSERT", "UPDATE", "DELETE"}

ASSUME TxnAssumption == Txn \subseteq Nat \ {0} /\ Blank \notin Txn
ASSUME BufferAssumption == BufferSlots \in Nat \ {0}
ASSUME LimitAssumption == MaxLsn \in Nat /\ MaxCrashes \in Nat /\ Epochs \in Nat
ASSUME KindsAssumption == Kinds \subseteq ChangeKinds

VARIABLES
    file,        \* the WAL file
    buffer,      \* wal_buffer_
    currentLsn,  \* current_lsn_
    flushedLsn,  \* flushed_lsn_
    kept,        \* Truncate's remaining_records while the file is being rewritten
    mem,         \* each page as the pool returns it: its LSN and its slot
    page,        \* each page on disk
    status,      \* what each transaction is doing
    phase,       \* "running", "truncating", "redo", "undo", or "recovered"
    cursor,      \* Recover's place in the file
    live,        \* active_txn_records: changes of transactions not yet ended
    todo,        \* changes Recover is undoing
    todoLsn,     \* the LSN an undone page gets; 0 leaves its LSN alone
    crashes,     \* how often the process has died
    history,     \* history: every record that ever was in the file
    spoilt       \* history: the pages a crash left beyond what Recover can do

walVars     == <<file, buffer, currentLsn, flushedLsn, kept>>
recoverVars == <<cursor, live, todo, todoLsn>>
vars == <<walVars, mem, page, status, phase, recoverVars, crashes, history, spoilt>>

EmptyPage == [lsn |-> 0, val |-> Blank]

Init ==
    /\ file = <<>> /\ buffer = <<>> /\ kept = <<>>
    /\ currentLsn = 0 /\ flushedLsn = 0
    /\ mem = [p \in PageId |-> EmptyPage]
    /\ page = mem
    /\ status = [t \in Txn |-> "new"]
    /\ phase = "running"
    /\ cursor = 1 /\ live = {} /\ todo = {} /\ todoLsn = 0
    /\ crashes = 0
    /\ history = <<>>
    /\ spoilt = {}

-----------------------------------------------------------------------------
(***************************************************************************)
(* The log: AppendLog and Flush.                                           *)
(***************************************************************************)

IsChange(r) == r.kind \in ChangeKinds

\* MakeDataRecord.  An INSERT has no old data, so undoing it copies no bytes.
ChangeRecord(t, kind, p, old, new) ==
    [lsn |-> currentLsn + 1, txn |-> t, kind |-> kind, page |-> p, old |-> old, new |-> new]

\* MakeTxnRecord
EndRecord(t, kind) ==
    [lsn |-> currentLsn + 1, txn |-> t, kind |-> kind, page |-> 0, old |-> Blank, new |-> Blank]

\* Mutant: the buffer overflows by one record.
AppendLogUnchecked(r) ==
    LET full == Len(buffer) > BufferSlots
    IN  /\ currentLsn < MaxLsn
        /\ currentLsn' = currentLsn + 1
        /\ file' = IF full THEN file \o buffer ELSE file
        /\ history' = IF full THEN history \o buffer ELSE history
        /\ flushedLsn' = IF full THEN currentLsn + 1 ELSE flushedLsn
        /\ buffer' = Append(IF full THEN <<>> ELSE buffer, r)
        /\ UNCHANGED kept

\* AppendLog: the LSN is taken first, so that the flush of a full buffer counts
\* the record that is not in it yet.
AppendLog(r) ==
    LET full == Len(buffer) >= BufferSlots
    IN  /\ currentLsn < MaxLsn
        /\ currentLsn' = currentLsn + 1
        /\ file' = IF full THEN file \o buffer ELSE file
        /\ history' = IF full THEN history \o buffer ELSE history
        /\ flushedLsn' = IF full THEN currentLsn + 1 ELSE flushedLsn
        /\ buffer' = Append(IF full THEN <<>> ELSE buffer, r)
        /\ UNCHANGED kept

\* Mutant: the buffer's offset is not reset.
FlushInternalKeeping ==
    /\ buffer # <<>>
    /\ file' = file \o buffer
    /\ history' = history \o buffer
    /\ buffer' = buffer
    /\ flushedLsn' = currentLsn

\* FlushInternal does nothing on an empty buffer.
FlushInternal ==
    /\ buffer # <<>>
    /\ file' = file \o buffer
    /\ history' = history \o buffer
    /\ buffer' = <<>>
    /\ flushedLsn' = currentLsn

Running == phase \in {"running", "recovered"} /\ crashes < Epochs

Active(t) == Running /\ status[t] = "active"

\* The changes of transaction t, and the pages it keeps to itself until it ends.
ChangesOf(t) == {r \in ToSet(history \o buffer) : r.txn = t /\ IsChange(r)}
Owned(t) == IF status[t] = "active" THEN {r.page : r \in ChangesOf(t)} ELSE {}

-----------------------------------------------------------------------------
(***************************************************************************)
(* The callers of the log.                                                 *)
(***************************************************************************)

Begin(t) ==
    /\ Running
    /\ status[t] = "new"
    /\ AppendLog(EndRecord(t, "TXN_BEGIN"))
    /\ status' = [status EXCEPT ![t] = "active"]
    /\ phase' = "running"
    /\ UNCHANGED <<mem, page, recoverVars, crashes, spoilt>>

NewValue(t, kind) == IF kind = "DELETE" THEN Blank ELSE t

\* A change is logged, then made in the page, which takes the record's LSN.
Change(t, p, kind) ==
    LET r == ChangeRecord(t, kind, p, mem[p].val, NewValue(t, kind))
    IN  /\ Active(t)
        /\ \A u \in Txn \ {t} : p \notin Owned(u)
        /\ mem[p].val # r.new
        /\ AppendLog(r)
        /\ mem' = [mem EXCEPT ![p] = [lsn |-> r.lsn, val |-> r.new]]
        /\ UNCHANGED <<page, status, phase, recoverVars, crashes, spoilt>>

\* The COMMIT record is appended; the commit returns after a Flush.
Commit(t) ==
    /\ Active(t)
    /\ AppendLog(EndRecord(t, "TXN_COMMIT"))
    /\ status' = [status EXCEPT ![t] = "ended"]
    /\ UNCHANGED <<mem, page, phase, recoverVars, crashes, spoilt>>

\* What page p held before the first of the changes S.
Before(p, S) ==
    (CHOOSE r \in S : r.page = p /\ \A q \in S : q.page = p => r.lsn <= q.lsn).old

\* An abort gives the transaction's pages their old data back, with the LSN of
\* the ABORT record: what Recover does when it meets that record.
Abort(t) ==
    /\ Active(t)
    /\ AppendLog(EndRecord(t, "TXN_ABORT"))
    /\ mem' = [p \in PageId |->
                   IF p \in Owned(t)
                   THEN [lsn |-> currentLsn + 1, val |-> Before(p, ChangesOf(t))]
                   ELSE mem[p]]
    /\ status' = [status EXCEPT ![t] = "ended"]
    /\ UNCHANGED <<page, phase, recoverVars, crashes, spoilt>>

Flush ==
    /\ phase = "running"
    /\ FlushInternal
    /\ UNCHANGED <<currentLsn, kept, mem, page, status, phase, recoverVars, crashes, spoilt>>

\* The pool evicts a page when it needs the frame, before or during recovery,
\* and does not ask how much of the log is in the file.
PageToDisk(p) ==
    /\ page[p] # mem[p]
    /\ page' = [page EXCEPT ![p] = mem[p]]
    /\ UNCHANGED <<walVars, mem, status, phase, recoverVars, crashes, history, spoilt>>

-----------------------------------------------------------------------------
(***************************************************************************)
(* Truncate, after a checkpoint: every page is on disk, which is all that  *)
(* wal_manager.h:114-116 asks of the caller.                               *)
(***************************************************************************)

Keeps(r, checkpointLsn) == r.lsn > checkpointLsn

TruncateBegin(checkpointLsn) ==
    LET log == file \o buffer
    IN  /\ phase = "running"
        /\ page = mem
        /\ kept' = AtIndices(log, {i \in 1..Len(log) : Keeps(log[i], checkpointLsn)})
        /\ file' = <<>>
        /\ IF buffer = <<>>
           THEN UNCHANGED <<buffer, flushedLsn, history>>
           ELSE buffer' = <<>> /\ flushedLsn' = currentLsn /\ history' = history \o buffer
        /\ phase' = "truncating"
        /\ UNCHANGED <<currentLsn, mem, page, status, recoverVars, crashes, spoilt>>

TruncateEnd ==
    /\ phase = "truncating"
    /\ file' = kept
    /\ kept' = <<>>
    /\ phase' = "running"
    /\ UNCHANGED <<buffer, currentLsn, flushedLsn, mem, page, status, recoverVars, crashes, history, spoilt>>

-----------------------------------------------------------------------------
(***************************************************************************)
(* The process dies.  It may have been writing: the buffer in a Flush, or  *)
(* the kept records in a Truncate, and any number of them may be there.    *)
(* The next WALManager starts with its numbers at 0, and Recover begins.   *)
(*                                                                         *)
(* Four things that the code lets happen leave a page that no Recover can  *)
(* set right, and a crash notes the pages they have happened to.           *)
(***************************************************************************)

Unwritten == IF phase = "truncating" THEN kept ELSE buffer

\* The pages of the changes in a set of records, the transactions of those of one
\* kind, and those that are over.
PagesOf(S)    == {r.page : r \in {q \in S : IsChange(q)}}
With(S, kind) == {r.txn : r \in {q \in S : q.kind = kind}}
Over(S)       == With(S, "TXN_COMMIT") \cup With(S, "TXN_ABORT")

\* 1. The page went to disk with a change whose record the crash loses: the pool
\* writes a page without asking the log (buffer_pool_manager.cpp:63).
Ahead(lost) == {p \in PageId : \E r \in ToSet(lost) : page[p].lsn = r.lsn}

\* 2. Truncate has dropped the old data of a change that is still to be undone
\* (wal_manager.cpp:271): its transaction has not committed, and its abort, if
\* there is one, was not dropped with it.
CutOff(ever) ==
    LET dropped == ever \ ToSet(file \o Unwritten)
    IN  PagesOf({r \in dropped : /\ r.txn \notin With(ever, "TXN_COMMIT")
                                 /\ r.txn \notin With(dropped, "TXN_ABORT")})

\* Pages that Recover sets back at an ABORT record, however new they are.
SetBack(log) == PagesOf({r \in log : r.txn \in With(log, "TXN_ABORT")})

\* 3. The crash tears the file that Truncate is rewriting (wal_manager.cpp:279-297).
\* Some change came back and its transaction's end did not; or some did not and
\* either it is still to be undone, or it is committed and an abort that did come
\* back sets the page to what it was before.
Torn(log) ==
    LET rewritten == ToSet(kept)
    IN   PagesOf({r \in rewritten :
            IF r \in log
            THEN r.txn \in Over(rewritten) \ Over(log)
            ELSE \/ r.txn \notin Over(rewritten)
                 \/ r.txn \notin With(rewritten, "TXN_ABORT") /\ r.page \in SetBack(log)})

\* 4. The page has an INSERT to be undone, for which Recover copies no bytes
\* (wal_manager.cpp:200 and 228).
Inserted(log) == PagesOf({r \in log : r.kind = "INSERT" /\ r.txn \notin With(log, "TXN_COMMIT")})

Crash(k) ==
    /\ crashes < MaxCrashes
    /\ file' = file \o SubSeq(Unwritten, 1, k)
    /\ history' = IF phase = "truncating" THEN history ELSE history \o SubSeq(buffer, 1, k)
    /\ buffer' = <<>> /\ kept' = <<>>
    /\ currentLsn' = 0 /\ flushedLsn' = 0
    /\ mem' = page
    /\ status' = [t \in Txn |-> IF status[t] = "active" THEN "ended" ELSE status[t]]
    /\ phase' = "redo"
    /\ cursor' = 1 /\ live' = {} /\ todo' = {} /\ todoLsn' = 0
    /\ crashes' = crashes + 1
    /\ spoilt' = spoilt \cup Ahead(SubSeq(buffer, k + 1, Len(buffer)))
                     \cup CutOff(ToSet(history')) \cup Torn(ToSet(file')) \cup Inserted(ToSet(file'))
    /\ UNCHANGED page

-----------------------------------------------------------------------------
(***************************************************************************)
(* Recover.                                                                *)
(***************************************************************************)

Recovering == UNCHANGED <<walVars, page, status, crashes, history, spoilt>>

\* Mutant: the oldest change is undone first.
UndoneBeforeForward(a, b) == a.txn < b.txn \/ (a.txn = b.txn /\ a.lsn < b.lsn)

\* The order in which changes are undone: by transaction, the newest first.
UndoneBefore(a, b) == a.txn < b.txn \/ (a.txn = b.txn /\ a.lsn > b.lsn)

\* The scan is at record r, and has undone the abort before it.
At(r) ==
    /\ phase = "redo"
    /\ todo = {}
    /\ cursor <= Len(file)
    /\ r = file[cursor]

\* Redo: a page older than the record takes its new data; a DELETE zeroes.
AfterRedo(pg, r) ==
    IF pg.lsn < r.lsn THEN [lsn |-> r.lsn, val |-> r.new] ELSE pg

RedoChange ==
    \E r \in ToSet(file) :
        /\ At(r)
        /\ IsChange(r)
        /\ mem' = [mem EXCEPT ![r.page] = AfterRedo(@, r)]
        /\ live' = live \cup {r}
        /\ cursor' = cursor + 1
        /\ Recovering /\ UNCHANGED <<phase, todo, todoLsn>>

RedoBegin ==
    \E r \in ToSet(file) :
        /\ At(r)
        /\ r.kind = "TXN_BEGIN"
        /\ cursor' = cursor + 1
        /\ Recovering /\ UNCHANGED <<mem, phase, live, todo, todoLsn>>

Without(t) == {r \in live : r.txn # t}

RedoCommit ==
    \E r \in ToSet(file) :
        /\ At(r)
        /\ r.kind = "TXN_COMMIT"
        /\ live' = Without(r.txn)
        /\ cursor' = cursor + 1
        /\ Recovering /\ UNCHANGED <<mem, phase, todo, todoLsn>>

RedoAbort ==
    \E r \in ToSet(file) :
        /\ At(r)
        /\ r.kind = "TXN_ABORT"
        /\ todo' = live \ Without(r.txn)
        /\ todoLsn' = r.lsn
        /\ live' = Without(r.txn)
        /\ cursor' = cursor + 1
        /\ Recovering /\ UNCHANGED <<mem, phase>>

\* The old data is copied back: none for an INSERT.  Undoing an abort sets the
\* page's LSN, undoing a transaction the crash cut off does not.
AfterUndo(pg, r) ==
    [lsn |-> IF todoLsn = 0 THEN pg.lsn ELSE todoLsn,
     val |-> IF r.kind = "INSERT" THEN pg.val ELSE r.old]

UndoOne ==
    \E r \in todo :
        /\ \A q \in todo \ {r} : UndoneBefore(r, q)
        /\ mem' = [mem EXCEPT ![r.page] = AfterUndo(@, r)]
        /\ todo' = todo \ {r}
        /\ Recovering /\ UNCHANGED <<phase, cursor, live, todoLsn>>

EndOfLog ==
    /\ phase = "redo"
    /\ todo = {}
    /\ cursor > Len(file)
    /\ todo' = live
    /\ todoLsn' = 0
    /\ live' = {}
    /\ phase' = "undo"
    /\ Recovering /\ UNCHANGED <<mem, cursor>>

EndRecover ==
    /\ phase = "undo"
    /\ todo = {}
    /\ phase' = "recovered"
    /\ cursor' = 1
    /\ Recovering /\ UNCHANGED <<mem, live, todo, todoLsn>>

-----------------------------------------------------------------------------
Next ==
    \/ \E t \in Txn : Begin(t) \/ Commit(t) \/ Abort(t)
    \/ \E t \in Txn, p \in PageId, kind \in Kinds : Change(t, p, kind)
    \/ Flush
    \/ \E p \in PageId : PageToDisk(p)
    \/ \E lsn \in 1 .. currentLsn : TruncateBegin(lsn)
    \/ TruncateEnd
    \/ \E k \in 0 .. Len(Unwritten) : Crash(k)
    \/ RedoChange \/ RedoBegin \/ RedoCommit \/ RedoAbort
    \/ UndoOne \/ EndOfLog \/ EndRecover

Spec == Init /\ [][Next]_vars

-----------------------------------------------------------------------------
(***************************************************************************)
(* Properties.                                                             *)
(***************************************************************************)

Record ==
    [lsn : 1 .. MaxLsn, txn : Txn, page : PageId \cup {0},
     kind : ChangeKinds \cup {"TXN_BEGIN", "TXN_COMMIT", "TXN_ABORT"},
     old : Txn \cup {Blank}, new : Txn \cup {Blank}]

PageImage == [lsn : 0 .. MaxLsn, val : Txn \cup {Blank}]

\* Types: among them, the buffer never holds more than WAL_BUFFER_SIZE bytes
\* and the scan of Recover never leaves the file.
TypeOK ==
    /\ \A s \in {file, buffer, kept, history} : s \in Seq(Record)
    /\ live \subseteq Record /\ todo \subseteq Record
    /\ Len(buffer) <= BufferSlots
    /\ currentLsn \in 0 .. MaxLsn /\ flushedLsn \in 0 .. MaxLsn /\ todoLsn \in 0 .. MaxLsn
    /\ mem \in [PageId -> PageImage] /\ page \in [PageId -> PageImage]
    /\ status \in [Txn -> {"new", "active", "ended"}]
    /\ phase \in {"running", "truncating", "redo", "undo", "recovered"}
    /\ cursor \in 1 .. Len(file) + 1
    /\ crashes \in 0 .. MaxCrashes

\* The transactions whose COMMIT record reached the file, and what a page holds
\* when exactly those have happened.
Durable == {r.txn : r \in {q \in ToSet(history) : q.kind = "TXN_COMMIT"}}

Committed(p) ==
    LET changes == {i \in 1..Len(history) : /\ IsChange(history[i])
                                            /\ history[i].page = p
                                            /\ history[i].txn \in Durable}
    IN  IF changes = {} THEN Blank ELSE history[Max(changes)].new

\* Recover leaves a page with the last change of a transaction whose COMMIT record
\* reached the file, and with nothing of any other transaction, whatever else was on
\* disk and whenever the process died, during an earlier Recover too; except the
\* pages to which one of the four things at Crash has happened: the page was ahead of
\* the log, or has an INSERT to be undone, or Truncate dropped a change still to be
\* undone or was cut short (Recover, wal_manager.cpp:115-235).
RecoveredUnlessSpoilt ==
    phase = "recovered" => \A p \in PageId \ spoilt : mem[p].val = Committed(p)

\* What wal_manager.h:28-30 and wal_manager.cpp:217-219 say: after Recover, a page
\* that is not newer than the log holds what committed transactions have left there,
\* and every transaction that was running is rolled back.
RecoversWhatItLogged ==
    phase = "recovered" => \A p \in PageId :
        mem[p].lsn \in {0} \cup {r.lsn : r \in ToSet(history)} => mem[p].val = Committed(p)

\* The records in the file and then in the buffer are in the order of their
\* LSNs, and none is missing: what Recover's `page LSN < record LSN` relies on
\* (AppendLog, wal_manager.cpp:67-84).
LsnsAscend ==
    LET log == file \o buffer
    IN  \A i \in 1 .. Len(log) - 1 : log[i + 1].lsn = log[i].lsn + 1
=============================================================================
