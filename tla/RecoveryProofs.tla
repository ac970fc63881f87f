--------------------------- MODULE RecoveryProofs ---------------------------
(***************************************************************************)
(* What the write-ahead log keeps, for every number of transactions, pages,*)
(* records and crashes: the types of its state, the order of its records,  *)
(* what the flushed LSN says about the file, and what Recover leaves in    *)
(* the pages.                                                              *)
(***************************************************************************)
EXTENDS Recovery, IndexProofs, SequenceTheorems

-----------------------------------------------------------------------------
(***************************************************************************)
(* Types, in parts; whenever Recover is not running, the scan stands at the*)
(* first record and nothing is left to undo, so no step that writes the    *)
(* file can leave the scan outside it.                                     *)
(***************************************************************************)

LogTypes ==
    /\ file \in Seq(Record) /\ buffer \in Seq(Record)
    /\ kept \in Seq(Record) /\ history \in Seq(Record)
    /\ Len(buffer) <= BufferSlots
    /\ currentLsn \in 0 .. MaxLsn /\ flushedLsn \in 0 .. MaxLsn

PageTypes == mem \in [PageId -> PageImage] /\ page \in [PageId -> PageImage]

CallTypes ==
    /\ status \in [Txn -> {"new", "active", "ended"}]
    /\ phase \in {"running", "truncating", "redo", "undo", "recovered"}
    /\ crashes \in 0 .. MaxCrashes

ScanTypes ==
    /\ live \subseteq Record /\ todo \subseteq Record
    /\ todoLsn \in 0 .. MaxLsn
    /\ cursor \in 1 .. Len(file) + 1
    /\ phase \in {"running", "truncating", "recovered"} => cursor = 1 /\ todo = {}

TypeInv == LogTypes /\ PageTypes /\ CallTypes /\ ScanTypes

LEMMA TypeParts == TypeInv => TypeOK
  BY DEF TypeInv, LogTypes, PageTypes, CallTypes, ScanTypes, TypeOK

LEMMA InitTypes == Init => TypeInv
<1> SUFFICES ASSUME Init PROVE TypeInv
  OBVIOUS
<1> USE LimitAssumption, BufferAssumption
<1>1. <<>> \in Seq(Record) /\ Len(<<>>) = 0
  BY EmptySeq
<1>2. LogTypes
  BY <1>1 DEF Init, LogTypes
<1>3. PageTypes
  <2>1. EmptyPage \in PageImage
    BY DEF EmptyPage, PageImage
  <2>2. QED
    BY <2>1 DEF Init, PageTypes
<1>4. CallTypes
  BY DEF Init, CallTypes
<1>5. ScanTypes
  BY <1>1 DEF Init, ScanTypes
<1>6. QED
  BY <1>2, <1>3, <1>4, <1>5 DEF TypeInv

LEMMA NewRecords ==
    ASSUME TypeInv, currentLsn < MaxLsn, NEW t \in Txn
    PROVE  /\ \A kind \in {"TXN_BEGIN", "TXN_COMMIT", "TXN_ABORT"} :
                  EndRecord(t, kind) \in Record /\ EndRecord(t, kind).lsn = currentLsn + 1
           /\ \A p \in PageId, kind \in Kinds :
                  LET r == ChangeRecord(t, kind, p, mem[p].val, NewValue(t, kind))
                  IN  /\ r \in Record /\ r.lsn = currentLsn + 1
                      /\ r.new \in Txn \cup {Blank}
<1>1. currentLsn + 1 \in 1 .. MaxLsn
  BY LimitAssumption DEF TypeInv, LogTypes
<1>2. ASSUME NEW kind \in {"TXN_BEGIN", "TXN_COMMIT", "TXN_ABORT"}
      PROVE  EndRecord(t, kind) \in Record /\ EndRecord(t, kind).lsn = currentLsn + 1
  BY <1>1 DEF EndRecord, Record
<1>3. ASSUME NEW p \in PageId, NEW kind \in Kinds
      PROVE  LET r == ChangeRecord(t, kind, p, mem[p].val, NewValue(t, kind))
             IN  r \in Record /\ r.lsn = currentLsn + 1 /\ r.new \in Txn \cup {Blank}
  <2>1. mem[p].val \in Txn \cup {Blank}
    BY DEF TypeInv, PageTypes, PageImage
  <2>2. NewValue(t, kind) \in Txn \cup {Blank}
    BY DEF NewValue
  <2>3. kind \in ChangeKinds
    BY KindsAssumption
  <2>4. QED
    BY <1>1, <2>1, <2>2, <2>3 DEF ChangeRecord, Record
<1>4. QED
  BY <1>2, <1>3

LEMMA AppendLogTypes ==
    ASSUME TypeInv, NEW r \in Record, AppendLog(r)
    PROVE  LogTypes' /\ Len(file) <= Len(file')
<1> DEFINE full == Len(buffer) >= BufferSlots
           left == IF full THEN <<>> ELSE buffer
<1>1. /\ currentLsn < MaxLsn /\ currentLsn' = currentLsn + 1 /\ kept' = kept
      /\ file' = IF full THEN file \o buffer ELSE file
      /\ history' = IF full THEN history \o buffer ELSE history
      /\ flushedLsn' = IF full THEN currentLsn + 1 ELSE flushedLsn
      /\ buffer' = Append(left, r)
  BY DEF AppendLog
<1>2. /\ file \o buffer \in Seq(Record) /\ Len(file \o buffer) = Len(file) + Len(buffer)
      /\ history \o buffer \in Seq(Record)
  BY ConcatProperties DEF TypeInv, LogTypes
<1>3. left \in Seq(Record) /\ Len(left) + 1 <= BufferSlots
  <2>1. Len(buffer) \in Nat /\ buffer \in Seq(Record)
    BY LenProperties DEF TypeInv, LogTypes
  <2>2. CASE full
    BY <2>1, <2>2, EmptySeq, BufferAssumption
  <2>3. CASE ~full
    BY <2>1, <2>3, BufferAssumption
  <2>4. QED
    BY <2>2, <2>3
<1> HIDE DEF full, left
<1>4. buffer' \in Seq(Record) /\ Len(buffer') <= BufferSlots
  BY <1>1, <1>3, AppendProperties
<1>5. file' \in Seq(Record) /\ history' \in Seq(Record) /\ kept' \in Seq(Record)
  BY <1>1, <1>2 DEF TypeInv, LogTypes
<1>6. currentLsn' \in 0 .. MaxLsn /\ flushedLsn' \in 0 .. MaxLsn
  BY <1>1, LimitAssumption DEF TypeInv, LogTypes
<1>7. Len(file) <= Len(file')
  <2>1. Len(buffer) \in Nat /\ Len(file) \in Nat
    BY LenProperties DEF TypeInv, LogTypes
  <2>2. QED
    BY <1>1, <1>2, <2>1
<1>8. QED
  BY <1>4, <1>5, <1>6, <1>7 DEF LogTypes

\* Before finds the first of the changes of a page.
LEMMA BeforeIs ==
    ASSUME NEW S, S \subseteq Record, NEW p \in {r.page : r \in S}
    PROVE  \E r \in S : /\ r.page = p
                        /\ \A q \in S : q.page = p => r.lsn <= q.lsn
                        /\ Before(p, S) = r.old
<1> DEFINE L == {r.lsn : r \in {q \in S : q.page = p}}
<1>1. L # {} /\ L \subseteq Nat
  BY DEF Record
<1>2. PICK l \in L : \A y \in L : l <= y
  BY <1>1, MinIsLeast
<1>3. \E r \in S : r.page = p /\ \A q \in S : q.page = p => r.lsn <= q.lsn
  BY <1>2
<1>4. QED
  BY <1>3, Zenon DEF Before

LEMMA ChangesAreRecords ==
    ASSUME TypeInv, NEW t \in Txn
    PROVE  ChangesOf(t) \subseteq Record
<1>1. history \o buffer \in Seq(Record)
  BY ConcatProperties DEF TypeInv, LogTypes
<1>2. ASSUME NEW s \in Seq(Record) PROVE ToSet(s) \subseteq Record
  BY <1>2, ElementOfSeq, LenProperties DEF ToSet
<1>3. QED
  BY <1>1, <1>2 DEF ChangesOf

\* What stays when a step only moves the scan or touches pages.
LEMMA LogTypesKept ==
    ASSUME TypeInv, UNCHANGED <<walVars, history>>
    PROVE  LogTypes'
  BY DEF TypeInv, LogTypes, walVars

\* The calls that append one record and leave Recover's variables alone.
LEMMA CallersTypes ==
    ASSUME TypeInv, NEW r \in Record, AppendLog(r), phase \in {"running", "recovered"},
           PageTypes', CallTypes', UNCHANGED recoverVars,
           phase' \in {"running", "recovered"}
    PROVE  TypeInv'
<1>1. LogTypes' /\ Len(file) <= Len(file')
  BY AppendLogTypes
<1>2. Len(file) \in Nat /\ Len(file') \in Nat
  BY <1>1, LenProperties DEF TypeInv, LogTypes
<1>3. cursor' = 1 /\ todo' = {} /\ todoLsn' \in 0 .. MaxLsn
  BY DEF TypeInv, ScanTypes, recoverVars
<1>4. live' \subseteq Record /\ todo' \subseteq Record
  BY DEF TypeInv, ScanTypes, recoverVars
<1>5. ScanTypes'
  BY <1>2, <1>3, <1>4 DEF ScanTypes
<1>6. QED
  BY <1>1, <1>5 DEF TypeInv

LEMMA BeginTypes ==
    ASSUME TypeInv, NEW t \in Txn, Begin(t)
    PROVE  TypeInv'
<1>1. /\ Running /\ AppendLog(EndRecord(t, "TXN_BEGIN"))
      /\ status' = [status EXCEPT ![t] = "active"] /\ phase' = "running"
      /\ UNCHANGED <<mem, page, recoverVars, crashes, spoilt>>
  BY DEF Begin
<1>2. EndRecord(t, "TXN_BEGIN") \in Record
  BY <1>1, NewRecords DEF AppendLog
<1>3. PageTypes'
  BY <1>1 DEF TypeInv, PageTypes
<1>4. CallTypes'
  BY <1>1 DEF TypeInv, CallTypes
<1>5. QED
  BY <1>1, <1>2, <1>3, <1>4, CallersTypes DEF Running

LEMMA ChangeTypes ==
    ASSUME TypeInv, NEW t \in Txn, NEW p \in PageId, NEW kind \in Kinds, Change(t, p, kind)
    PROVE  TypeInv'
<1> DEFINE r == ChangeRecord(t, kind, p, mem[p].val, NewValue(t, kind))
<1>1. /\ Running /\ AppendLog(r)
      /\ mem' = [mem EXCEPT ![p] = [lsn |-> r.lsn, val |-> r.new]]
      /\ UNCHANGED <<page, status, phase, recoverVars, crashes, spoilt>>
  BY DEF Change, Active
<1>2. r \in Record /\ r.lsn = currentLsn + 1 /\ r.new \in Txn \cup {Blank}
  BY <1>1, NewRecords DEF AppendLog
<1> HIDE DEF r
<1>3. PageTypes'
  <2>1. [lsn |-> r.lsn, val |-> r.new] \in PageImage
    <3>1. r.lsn \in 0 .. MaxLsn
      BY <1>2 DEF Record
    <3>2. QED
      BY <1>2, <3>1 DEF PageImage
  <2>2. QED
    BY <1>1, <2>1 DEF TypeInv, PageTypes
<1>4. CallTypes'
  BY <1>1 DEF TypeInv, CallTypes
<1>5. QED
  BY <1>1, <1>2, <1>3, <1>4, CallersTypes DEF Running

LEMMA CommitTypes ==
    ASSUME TypeInv, NEW t \in Txn, Commit(t)
    PROVE  TypeInv'
<1>1. /\ Running /\ AppendLog(EndRecord(t, "TXN_COMMIT"))
      /\ status' = [status EXCEPT ![t] = "ended"]
      /\ UNCHANGED <<mem, page, phase, recoverVars, crashes, spoilt>>
  BY DEF Commit, Active
<1>2. EndRecord(t, "TXN_COMMIT") \in Record
  BY <1>1, NewRecords DEF AppendLog
<1>3. PageTypes'
  BY <1>1 DEF TypeInv, PageTypes
<1>4. CallTypes'
  BY <1>1 DEF TypeInv, CallTypes
<1>5. QED
  BY <1>1, <1>2, <1>3, <1>4, CallersTypes DEF Running

LEMMA AbortTypes ==
    ASSUME TypeInv, NEW t \in Txn, Abort(t)
    PROVE  TypeInv'
<1>1. /\ Active(t) /\ AppendLog(EndRecord(t, "TXN_ABORT"))
      /\ mem' = [p \in PageId |->
                     IF p \in Owned(t)
                     THEN [lsn |-> currentLsn + 1, val |-> Before(p, ChangesOf(t))]
                     ELSE mem[p]]
      /\ status' = [status EXCEPT ![t] = "ended"]
      /\ UNCHANGED <<page, phase, recoverVars, crashes, spoilt>>
  BY DEF Abort
<1>2. EndRecord(t, "TXN_ABORT") \in Record
  BY <1>1, NewRecords DEF AppendLog
<1>3. PageTypes'
  <2>1. currentLsn + 1 \in 0 .. MaxLsn
    BY <1>1, LimitAssumption DEF AppendLog, TypeInv, LogTypes
  <2>2. ASSUME NEW p \in PageId, p \in Owned(t)
        PROVE  Before(p, ChangesOf(t)) \in Txn \cup {Blank}
    <3>1. p \in {r.page : r \in ChangesOf(t)}
      BY <1>1, <2>2 DEF Active, Owned
    <3>2. ChangesOf(t) \subseteq Record
      BY ChangesAreRecords
    <3>3. \E r \in ChangesOf(t) : Before(p, ChangesOf(t)) = r.old
      BY <3>1, <3>2, BeforeIs
    <3>4. QED
      BY <3>2, <3>3 DEF Record
  <2>3. ASSUME NEW p \in PageId, p \in Owned(t)
        PROVE  [lsn |-> currentLsn + 1, val |-> Before(p, ChangesOf(t))] \in PageImage
    BY <2>1, <2>2, <2>3 DEF PageImage
  <2>4. mem' \in [PageId -> PageImage]
    BY <1>1, <2>3 DEF TypeInv, PageTypes
  <2>5. QED
    BY <1>1, <2>4 DEF TypeInv, PageTypes
<1>4. CallTypes'
  BY <1>1 DEF TypeInv, CallTypes
<1>5. QED
  BY <1>1, <1>2, <1>3, <1>4, CallersTypes DEF Running, Active

LEMMA FlushTypes ==
    ASSUME TypeInv, Flush
    PROVE  TypeInv'
<1>1. /\ file' = file \o buffer /\ history' = history \o buffer /\ buffer' = <<>>
      /\ flushedLsn' = currentLsn
      /\ phase = "running"
      /\ UNCHANGED <<currentLsn, kept, mem, page, status, phase, recoverVars, crashes, spoilt>>
  BY DEF Flush, FlushInternal
<1>2. /\ file' \in Seq(Record) /\ history' \in Seq(Record)
      /\ Len(file') = Len(file) + Len(buffer) /\ Len(file) \in Nat /\ Len(buffer) \in Nat
  BY <1>1, ConcatProperties, LenProperties DEF TypeInv, LogTypes
<1>3. LogTypes'
  <2>1. <<>> \in Seq(Record) /\ Len(<<>>) = 0
    BY EmptySeq
  <2>2. QED
    BY <1>1, <1>2, <2>1, BufferAssumption DEF TypeInv, LogTypes
<1>4. PageTypes'
  BY <1>1 DEF TypeInv, PageTypes
<1>5. CallTypes'
  BY <1>1 DEF TypeInv, CallTypes
<1>6. ScanTypes'
  BY <1>1, <1>2 DEF TypeInv, ScanTypes, recoverVars
<1>7. QED
  BY <1>3, <1>4, <1>5, <1>6 DEF TypeInv

LEMMA PageToDiskTypes ==
    ASSUME TypeInv, NEW p \in PageId, PageToDisk(p)
    PROVE  TypeInv'
<1>1. /\ page' = [page EXCEPT ![p] = mem[p]]
      /\ UNCHANGED <<walVars, mem, status, phase, recoverVars, crashes, history, spoilt>>
  BY DEF PageToDisk
<1>2. LogTypes'
  BY <1>1, LogTypesKept
<1>3. PageTypes'
  BY <1>1 DEF TypeInv, PageTypes
<1>4. CallTypes'
  BY <1>1 DEF TypeInv, CallTypes
<1>5. ScanTypes'
  BY <1>1 DEF TypeInv, ScanTypes, recoverVars, walVars
<1>6. QED
  BY <1>2, <1>3, <1>4, <1>5 DEF TypeInv

\* What Truncate keeps is a sequence of records.
LEMMA TruncateBeginTypes ==
    ASSUME TypeInv, NEW lsn, TruncateBegin(lsn)
    PROVE  TypeInv'
<1> DEFINE log == file \o buffer
           I == {i \in 1..Len(log) : Keeps(log[i], lsn)}
<1>1. /\ phase = "running" /\ phase' = "truncating"
      /\ kept' = AtIndices(log, I) /\ file' = <<>>
      /\ \/ UNCHANGED <<buffer, flushedLsn, history>>
         \/ buffer' = <<>> /\ flushedLsn' = currentLsn /\ history' = history \o buffer
      /\ UNCHANGED <<currentLsn, mem, page, status, recoverVars, crashes, spoilt>>
  BY DEF TruncateBegin
<1>2. log \in Seq(Record) /\ history \o buffer \in Seq(Record)
  BY ConcatProperties DEF TypeInv, LogTypes
<1>3. <<>> \in Seq(Record) /\ Len(<<>>) = 0
  BY EmptySeq
<1>4. kept' \in Seq(Record)
  <2> HIDE DEF log
  <2>1. I \subseteq 1..Len(log)
    OBVIOUS
  <2> HIDE DEF I
  <2>2. QED
    BY <1>1, <1>2, <2>1, AtIndicesType
<1> HIDE DEF log, I
<1>5. LogTypes'
  <2>1. file' \in Seq(Record) /\ history' \in Seq(Record)
    BY <1>1, <1>2, <1>3 DEF TypeInv, LogTypes
  <2>2. buffer' \in Seq(Record) /\ Len(buffer') <= BufferSlots
    <3>1. buffer' = buffer \/ buffer' = <<>>
      BY <1>1
    <3>2. CASE buffer' = buffer
      BY <3>2 DEF TypeInv, LogTypes
    <3>3. CASE buffer' = <<>>
      BY <1>3, <3>3, BufferAssumption
    <3>4. QED
      BY <3>1, <3>2, <3>3
  <2>3. currentLsn' \in 0 .. MaxLsn /\ flushedLsn' \in 0 .. MaxLsn
    BY <1>1 DEF TypeInv, LogTypes
  <2>4. QED
    BY <1>4, <2>1, <2>2, <2>3 DEF LogTypes
<1>6. PageTypes'
  BY <1>1 DEF TypeInv, PageTypes
<1>7. CallTypes'
  BY <1>1 DEF TypeInv, CallTypes
<1>8. ScanTypes'
  BY <1>1, <1>3 DEF TypeInv, ScanTypes, recoverVars
<1>9. QED
  BY <1>5, <1>6, <1>7, <1>8 DEF TypeInv

LEMMA TruncateEndTypes ==
    ASSUME TypeInv, TruncateEnd
    PROVE  TypeInv'
<1>1. /\ phase = "truncating" /\ phase' = "running" /\ file' = kept /\ kept' = <<>>
      /\ UNCHANGED <<buffer, currentLsn, flushedLsn, mem, page, status, recoverVars, crashes,
                     history, spoilt>>
  BY DEF TruncateEnd
<1>2. <<>> \in Seq(Record)
  BY EmptySeq
<1>3. LogTypes'
  BY <1>1, <1>2 DEF TypeInv, LogTypes
<1>4. PageTypes'
  BY <1>1 DEF TypeInv, PageTypes
<1>5. CallTypes'
  BY <1>1 DEF TypeInv, CallTypes
<1>6. ScanTypes'
  <2>1. Len(file') \in Nat
    BY <1>1, LenProperties DEF TypeInv, LogTypes
  <2>2. QED
    BY <1>1, <2>1 DEF TypeInv, ScanTypes, recoverVars
<1>7. QED
  BY <1>3, <1>4, <1>5, <1>6 DEF TypeInv

\* What is written of a sequence when the process dies.
LEMMA PrefixType ==
    ASSUME NEW S, NEW s \in Seq(S), NEW k \in 0..Len(s)
    PROVE  /\ SubSeq(s, 1, k) \in Seq(S) /\ Len(SubSeq(s, 1, k)) = k
           /\ \A i \in 1..k : SubSeq(s, 1, k)[i] = s[i]
<1>1. Len(s) \in Nat /\ k \in Nat
  BY LenProperties
<1>2. \A i \in 1..k : s[i] \in S
  BY <1>1, ElementOfSeq
<1>3. /\ SubSeq(s, 1, k) \in Seq(S)
      /\ Len(SubSeq(s, 1, k)) = IF 1 <= k THEN k - 1 + 1 ELSE 0
      /\ \A i \in 1..k - 1 + 1 : SubSeq(s, 1, k)[i] = s[1 + i - 1]
  BY <1>1, <1>2, SubSeqProperties
<1>4. QED
  BY <1>1, <1>3

LEMMA CrashTypes ==
    ASSUME TypeInv, NEW k \in 0 .. Len(Unwritten), Crash(k)
    PROVE  TypeInv'
<1>1. /\ crashes < MaxCrashes
      /\ file' = file \o SubSeq(Unwritten, 1, k)
      /\ history' = IF phase = "truncating" THEN history ELSE history \o SubSeq(buffer, 1, k)
      /\ buffer' = <<>> /\ kept' = <<>>
      /\ currentLsn' = 0 /\ flushedLsn' = 0
      /\ mem' = page
      /\ status' = [t \in Txn |-> IF status[t] = "active" THEN "ended" ELSE status[t]]
      /\ phase' = "redo"
      /\ cursor' = 1 /\ live' = {} /\ todo' = {} /\ todoLsn' = 0
      /\ crashes' = crashes + 1
      /\ UNCHANGED page
  BY DEF Crash
<1>2. Unwritten \in Seq(Record)
  BY DEF Unwritten, TypeInv, LogTypes
<1>3. SubSeq(Unwritten, 1, k) \in Seq(Record)
  BY <1>1, <1>2, PrefixType
<1>4. file' \in Seq(Record)
  BY <1>1, <1>3, ConcatProperties DEF TypeInv, LogTypes
<1>5. history' \in Seq(Record)
  <2>1. CASE phase = "truncating"
    BY <1>1, <2>1 DEF TypeInv, LogTypes
  <2>2. CASE phase # "truncating"
    <3>1. SubSeq(buffer, 1, k) \in Seq(Record)
      BY <1>3, <2>2 DEF Unwritten
    <3>2. QED
      BY <1>1, <2>2, <3>1, ConcatProperties DEF TypeInv, LogTypes
  <2>3. QED
    BY <2>1, <2>2
<1>6. LogTypes'
  <2>1. <<>> \in Seq(Record) /\ Len(<<>>) = 0
    BY EmptySeq
  <2>2. QED
    BY <1>1, <1>4, <1>5, <2>1, BufferAssumption, LimitAssumption DEF LogTypes
<1>7. PageTypes'
  BY <1>1 DEF TypeInv, PageTypes
<1>8. CallTypes'
  BY <1>1, LimitAssumption DEF TypeInv, CallTypes
<1>9. ScanTypes'
  <2>1. Len(file') \in Nat
    BY <1>4, LenProperties
  <2>2. QED
    BY <1>1, <2>1, LimitAssumption DEF ScanTypes
<1>10. QED
  BY <1>6, <1>7, <1>8, <1>9 DEF TypeInv

\* The steps of Recover.
LEMMA RecoverStepTypes ==
    ASSUME TypeInv, Recovering,
           mem' \in [PageId -> PageImage],
           live' \subseteq Record, todo' \subseteq Record, todoLsn' \in 0 .. MaxLsn,
           cursor' \in 1 .. Len(file) + 1,
           phase' \in {"redo", "undo", "recovered"},
           phase' = "recovered" => cursor' = 1 /\ todo' = {}
    PROVE  TypeInv'
<1>1. UNCHANGED <<walVars, page, status, crashes, history, spoilt>>
  BY DEF Recovering
<1>2. LogTypes'
  BY <1>1, LogTypesKept
<1>3. PageTypes'
  BY <1>1 DEF TypeInv, PageTypes
<1>4. CallTypes'
  BY <1>1 DEF TypeInv, CallTypes
<1>5. ScanTypes'
  BY <1>1 DEF ScanTypes, walVars
<1>6. QED
  BY <1>2, <1>3, <1>4, <1>5 DEF TypeInv

\* A record the scan is at.
LEMMA AtFacts ==
    ASSUME TypeInv, NEW r, At(r)
    PROVE  /\ phase = "redo" /\ todo = {} /\ cursor \in 1..Len(file) /\ r = file[cursor]
           /\ r \in Record /\ cursor + 1 \in 1 .. Len(file) + 1 /\ Len(file) \in Nat
<1>1. phase = "redo" /\ todo = {} /\ cursor <= Len(file) /\ r = file[cursor]
  BY DEF At
<1>2. Len(file) \in Nat /\ cursor \in 1 .. Len(file) + 1
  BY LenProperties DEF TypeInv, LogTypes, ScanTypes
<1>3. cursor \in 1..Len(file)
  BY <1>1, <1>2
<1>4. r \in Record
  BY <1>1, <1>3, ElementOfSeq DEF TypeInv, LogTypes
<1>5. QED
  BY <1>1, <1>2, <1>3, <1>4

LEMMA RedoChangeTypes ==
    ASSUME TypeInv, RedoChange
    PROVE  TypeInv'
<1>1. PICK r \in ToSet(file) :
        /\ At(r)
        /\ mem' = [mem EXCEPT ![r.page] = AfterRedo(@, r)]
        /\ live' = live \cup {r}
        /\ cursor' = cursor + 1
        /\ Recovering /\ UNCHANGED <<phase, todo, todoLsn>>
  BY DEF RedoChange
<1>2. /\ phase = "redo" /\ r \in Record /\ cursor + 1 \in 1 .. Len(file) + 1
  BY <1>1, AtFacts
<1>3. mem' \in [PageId -> PageImage]
  <2>1. ASSUME NEW pg \in PageImage PROVE AfterRedo(pg, r) \in PageImage
    BY <1>2, <2>1 DEF AfterRedo, PageImage, Record
  <2>2. QED
    BY <1>1, <2>1 DEF TypeInv, PageTypes
<1>4. live' \subseteq Record /\ todo' \subseteq Record /\ todoLsn' \in 0 .. MaxLsn
  BY <1>1, <1>2 DEF TypeInv, ScanTypes
<1>5. QED
  BY <1>1, <1>2, <1>3, <1>4, RecoverStepTypes

LEMMA RedoEndTypes ==
    ASSUME TypeInv, RedoBegin \/ RedoCommit \/ RedoAbort
    PROVE  TypeInv'
<1>1. PICK r \in ToSet(file) :
        /\ At(r)
        /\ cursor' = cursor + 1
        /\ live' \subseteq live
        /\ todo' \subseteq live \cup todo
        /\ todoLsn' = todoLsn \/ todoLsn' = r.lsn
        /\ Recovering /\ UNCHANGED <<mem, phase>>
  BY DEF RedoBegin, RedoCommit, RedoAbort, Without
<1>2. /\ phase = "redo" /\ r \in Record /\ cursor + 1 \in 1 .. Len(file) + 1
  BY <1>1, AtFacts
<1>3. live' \subseteq Record /\ todo' \subseteq Record
  BY <1>1 DEF TypeInv, ScanTypes
<1>4. todoLsn' \in 0 .. MaxLsn
  <2>1. r.lsn \in 0 .. MaxLsn
    BY <1>2 DEF Record
  <2>2. QED
    BY <1>1, <2>1 DEF TypeInv, ScanTypes
<1>5. mem' \in [PageId -> PageImage]
  BY <1>1 DEF TypeInv, PageTypes
<1>6. QED
  BY <1>1, <1>2, <1>3, <1>4, <1>5, RecoverStepTypes

LEMMA UndoOneTypes ==
    ASSUME TypeInv, UndoOne
    PROVE  TypeInv'
<1>1. PICK r \in todo :
        /\ mem' = [mem EXCEPT ![r.page] = AfterUndo(@, r)]
        /\ todo' = todo \ {r}
        /\ Recovering /\ UNCHANGED <<phase, cursor, live, todoLsn>>
  BY DEF UndoOne
<1>2. r \in Record /\ phase \in {"redo", "undo"}
  BY DEF TypeInv, CallTypes, ScanTypes
<1>3. mem' \in [PageId -> PageImage]
  <2>1. ASSUME NEW pg \in PageImage PROVE AfterUndo(pg, r) \in PageImage
    BY <1>2, <2>1 DEF AfterUndo, PageImage, Record, TypeInv, ScanTypes
  <2>2. QED
    BY <1>1, <2>1 DEF TypeInv, PageTypes
<1>4. QED
  BY <1>1, <1>2, <1>3, RecoverStepTypes DEF TypeInv, ScanTypes

LEMMA EndOfLogTypes ==
    ASSUME TypeInv, EndOfLog
    PROVE  TypeInv'
<1>1. /\ todo' = live /\ todoLsn' = 0 /\ live' = {} /\ phase' = "undo"
      /\ Recovering /\ UNCHANGED <<mem, cursor>>
  BY DEF EndOfLog
<1>2. QED
  BY <1>1, LimitAssumption, RecoverStepTypes DEF TypeInv, ScanTypes, PageTypes

LEMMA EndRecoverTypes ==
    ASSUME TypeInv, EndRecover
    PROVE  TypeInv'
<1>1. /\ phase' = "recovered" /\ cursor' = 1
      /\ Recovering /\ UNCHANGED <<mem, live, todo, todoLsn>>
  BY DEF EndRecover
<1>0. todo = {}
  BY DEF EndRecover
<1>2. 1 \in 1 .. Len(file) + 1
  <2>1. Len(file) \in Nat
    BY LenProperties DEF TypeInv, LogTypes
  <2>2. QED
    BY <2>1
<1>3. QED
  BY <1>0, <1>1, <1>2, RecoverStepTypes DEF TypeInv, ScanTypes, PageTypes

LEMMA NextTypes == TypeInv /\ [Next]_vars => TypeInv'
<1> SUFFICES ASSUME TypeInv, [Next]_vars PROVE TypeInv'
  OBVIOUS
<1>1. ASSUME NEW t \in Txn, Begin(t) \/ Commit(t) \/ Abort(t) PROVE TypeInv'
  BY <1>1, BeginTypes, CommitTypes, AbortTypes
<1>2. ASSUME NEW t \in Txn, NEW p \in PageId, NEW kind \in Kinds, Change(t, p, kind)
      PROVE  TypeInv'
  BY <1>2, ChangeTypes
<1>3. CASE Flush
  BY <1>3, FlushTypes
<1>4. ASSUME NEW p \in PageId, PageToDisk(p) PROVE TypeInv'
  BY <1>4, PageToDiskTypes
<1>5. ASSUME NEW lsn \in 1 .. currentLsn, TruncateBegin(lsn) PROVE TypeInv'
  BY <1>5, TruncateBeginTypes
<1>6. CASE TruncateEnd
  BY <1>6, TruncateEndTypes
<1>7. ASSUME NEW k \in 0 .. Len(Unwritten), Crash(k) PROVE TypeInv'
  BY <1>7, CrashTypes
<1>8. CASE RedoChange
  BY <1>8, RedoChangeTypes
<1>9. CASE RedoBegin \/ RedoCommit \/ RedoAbort
  BY <1>9, RedoEndTypes
<1>10. CASE UndoOne
  BY <1>10, UndoOneTypes
<1>11. CASE EndOfLog
  BY <1>11, EndOfLogTypes
<1>12. CASE EndRecover
  BY <1>12, EndRecoverTypes
<1>13. CASE UNCHANGED vars
  BY <1>13 DEF vars, walVars, recoverVars, TypeInv, LogTypes, PageTypes, CallTypes, ScanTypes
<1>14. QED
  BY <1>1, <1>2, <1>3, <1>4, <1>5, <1>6, <1>7, <1>8, <1>9, <1>10, <1>11, <1>12, <1>13 DEF Next

\* Every variable of the log, of its callers and of Recover keeps its type; the
\* buffer never overflows and the scan never leaves the file.
THEOREM TypeAlwaysOK == Spec => []TypeOK
<1>1. Spec => []TypeInv
  BY InitTypes, NextTypes, PTL DEF Spec
<1>2. QED
  BY <1>1, TypeParts, PTL

-----------------------------------------------------------------------------
(***************************************************************************)
(* The numbers of the records.  In the first life of the process the       *)
(* records run up to current_lsn_ without a gap, in the file, the buffer   *)
(* and what Truncate keeps; the flushed LSN is at the last record of the   *)
(* file, or at the first of the buffer when AppendLog flushed a full one.  *)
(***************************************************************************)

\* The records of s are numbered without a gap, and n is the number of the last.
RunsUpTo(s, n) == \A i \in 1..Len(s) : s[i].lsn = n - Len(s) + i

FirstLife ==
    crashes = 0 =>
        /\ phase \in {"running", "truncating"}
        /\ RunsUpTo(buffer, currentLsn)
        /\ RunsUpTo(file, currentLsn - Len(buffer))
        /\ phase = "truncating" => file = <<>> /\ buffer = <<>> /\ RunsUpTo(kept, currentLsn)
        /\ flushedLsn <= currentLsn /\ currentLsn - Len(buffer) <= flushedLsn
        /\ flushedLsn <= currentLsn - Len(buffer) + 1

\* If the process only logs in its first life, what a crash left in the file is
\* all there ever is.
LaterLives ==
    Epochs <= 1 /\ crashes > 0 =>
        /\ phase \in {"redo", "undo", "recovered"}
        /\ buffer = <<>>
        /\ \E n \in Int : RunsUpTo(file, n)

LEMMA RunsEmpty ==
    ASSUME NEW n
    PROVE  RunsUpTo(<<>>, n)
  BY DEF RunsUpTo

LEMMA RunsAppend ==
    ASSUME NEW s \in Seq(Record), NEW r \in Record, NEW n \in Int,
           RunsUpTo(s, n), r.lsn = n + 1
    PROVE  RunsUpTo(Append(s, r), n + 1)
<1>1. /\ Len(Append(s, r)) = Len(s) + 1 /\ Len(s) \in Nat
      /\ \A i \in 1..Len(s) : Append(s, r)[i] = s[i]
      /\ Append(s, r)[Len(s) + 1] = r
  BY AppendProperties, LenProperties
<1>2. ASSUME NEW i \in 1..Len(Append(s, r))
      PROVE  Append(s, r)[i].lsn = n + 1 - Len(Append(s, r)) + i
  <2>1. CASE i = Len(s) + 1
    BY <1>1, <2>1
  <2>2. CASE i \in 1..Len(s)
    <3>1. s[i].lsn = n - Len(s) + i
      BY <2>2 DEF RunsUpTo
    <3>2. Append(s, r)[i] = s[i]
      BY <1>1, <2>2
    <3>3. n - Len(s) + i = n + 1 - (Len(s) + 1) + i
      BY <1>1, <2>2
    <3>4. QED
      BY <1>1, <3>1, <3>2, <3>3
  <2>3. QED
    BY <1>1, <2>1, <2>2
<1>3. QED
  BY <1>2 DEF RunsUpTo

LEMMA RunsConcat ==
    ASSUME NEW s \in Seq(Record), NEW t \in Seq(Record), NEW n \in Int,
           RunsUpTo(s, n - Len(t)), RunsUpTo(t, n)
    PROVE  RunsUpTo(s \o t, n)
<1>1. /\ Len(s \o t) = Len(s) + Len(t) /\ Len(s) \in Nat /\ Len(t) \in Nat
      /\ \A i \in 1..Len(s) + Len(t) : (s \o t)[i] = IF i <= Len(s) THEN s[i] ELSE t[i - Len(s)]
  BY ConcatProperties, LenProperties
<1>2. ASSUME NEW i \in 1..Len(s) + Len(t)
      PROVE  (s \o t)[i].lsn = n - (Len(s) + Len(t)) + i
  <2>1. CASE i <= Len(s)
    <3>1. i \in 1..Len(s) /\ (s \o t)[i] = s[i]
      BY <1>1, <2>1
    <3>2. s[i].lsn = n - Len(t) - Len(s) + i
      BY <3>1 DEF RunsUpTo
    <3>3. n - Len(t) - Len(s) + i = n - (Len(s) + Len(t)) + i
      BY <1>1
    <3>4. QED
      BY <3>1, <3>2, <3>3
  <2>2. CASE ~(i <= Len(s))
    <3>1. i - Len(s) \in 1..Len(t) /\ (s \o t)[i] = t[i - Len(s)]
      BY <1>1, <2>2
    <3>2. t[i - Len(s)].lsn = n - Len(t) + (i - Len(s))
      BY <3>1 DEF RunsUpTo
    <3>3. n - Len(t) + (i - Len(s)) = n - (Len(s) + Len(t)) + i
      BY <1>1
    <3>4. QED
      BY <3>1, <3>2, <3>3
  <2>3. QED
    BY <2>1, <2>2
<1>3. QED
  BY <1>1, <1>2 DEF RunsUpTo

LEMMA RunsPrefix ==
    ASSUME NEW s \in Seq(Record), NEW n \in Int, RunsUpTo(s, n), NEW k \in 0..Len(s)
    PROVE  RunsUpTo(SubSeq(s, 1, k), n - Len(s) + k)
<1>1. /\ Len(SubSeq(s, 1, k)) = k /\ \A i \in 1..k : SubSeq(s, 1, k)[i] = s[i]
  BY PrefixType
<1>2. Len(s) \in Nat
  BY LenProperties
<1>3. ASSUME NEW i \in 1..k PROVE SubSeq(s, 1, k)[i].lsn = n - Len(s) + k - k + i
  <2>1. s[i].lsn = n - Len(s) + i
    BY <1>2 DEF RunsUpTo
  <2>2. n - Len(s) + i = n - Len(s) + k - k + i
    BY <1>2
  <2>3. QED
    BY <1>1, <2>1, <2>2
<1>4. QED
  BY <1>1, <1>3 DEF RunsUpTo

\* Truncate keeps the end of the log.
LEMMA RunsKept ==
    ASSUME NEW s \in Seq(Record), NEW n \in Int, RunsUpTo(s, n), NEW c \in Int
    PROVE  RunsUpTo(AtIndices(s, {i \in 1..Len(s) : Keeps(s[i], c)}), n)
<1> DEFINE I == {i \in 1..Len(s) : Keeps(s[i], c)}
           t == AtIndices(s, I)
<1>0. Len(s) \in Nat
  BY LenProperties
<1>1. \A i \in I, k \in 1..Len(s) : i <= k => k \in I
  BY <1>0 DEF RunsUpTo, Keeps
<1>2. I \subseteq 1..Len(s)
  OBVIOUS
<1> HIDE DEF I
<1>3. /\ Len(t) = Cardinality(I) /\ Cardinality(I) \in Nat
      /\ \A j \in 1..Cardinality(I) : t[j] = s[NthIndex(I, j)]
  BY <1>2, AtIndicesType
<1>4. ASSUME NEW j \in 1..Cardinality(I) PROVE t[j].lsn = n - Cardinality(I) + j
  <2>1. NthIndex(I, j) = Len(s) - Cardinality(I) + j
    BY <1>0, <1>1, <1>2, NthIndexOfSuffix
  <2>2. NthIndex(I, j) \in 1..Len(s)
    BY <1>0, <1>2, NthIndexFacts
  <2>3. s[NthIndex(I, j)].lsn = n - Len(s) + NthIndex(I, j)
    BY <2>2 DEF RunsUpTo
  <2>4. n - Len(s) + (Len(s) - Cardinality(I) + j) = n - Cardinality(I) + j
    BY <1>0, <1>3
  <2>5. QED
    BY <1>3, <2>1, <2>3, <2>4
<1> HIDE DEF t
<1>5. RunsUpTo(t, n)
  BY <1>3, <1>4 DEF RunsUpTo
<1>6. QED
  BY <1>5 DEF t, I

LEMMA InitNumbers == Init => FirstLife /\ LaterLives
  BY RunsEmpty, EmptySeq DEF Init, FirstLife, LaterLives

\* A step that leaves the log, its numbers and the life alone.
LEMMA NumbersKept ==
    ASSUME UNCHANGED <<walVars, crashes>>, FirstLife, LaterLives,
           \/ phase' = phase
           \/ phase \in {"redo", "undo"} /\ phase' \in {"redo", "undo", "recovered"}
    PROVE  FirstLife' /\ LaterLives'
<1>1. UNCHANGED <<file, buffer, currentLsn, flushedLsn, kept, crashes>>
  BY DEF walVars
<1>2. FirstLife'
  BY <1>1 DEF FirstLife, RunsUpTo
<1>3. LaterLives'
  BY <1>1 DEF LaterLives, RunsUpTo
<1>4. QED
  BY <1>2, <1>3

LEMMA AppendNumbers ==
    ASSUME TypeInv, FirstLife, LaterLives, Running, NEW r \in Record, AppendLog(r),
           r.lsn = currentLsn + 1, phase' = phase \/ phase' = "running", UNCHANGED crashes
    PROVE  FirstLife' /\ LaterLives'
<1>1. LaterLives'
  <2>1. crashes \in Nat /\ crashes < Epochs
    BY LimitAssumption DEF Running, TypeInv, CallTypes
  <2>2. QED
    BY <2>1, LimitAssumption DEF LaterLives
<1>2. ASSUME crashes = 0 PROVE FirstLife'
  <2> DEFINE full == Len(buffer) >= BufferSlots
             left == IF full THEN <<>> ELSE buffer
  <2>1. /\ currentLsn' = currentLsn + 1 /\ kept' = kept
        /\ file' = IF full THEN file \o buffer ELSE file
        /\ flushedLsn' = IF full THEN currentLsn + 1 ELSE flushedLsn
        /\ buffer' = Append(left, r)
    BY DEF AppendLog
  <2>2. /\ buffer \in Seq(Record) /\ file \in Seq(Record) /\ Len(buffer) \in Nat
        /\ currentLsn \in Int /\ flushedLsn \in Int /\ currentLsn - Len(buffer) \in Int
    BY LenProperties DEF TypeInv, LogTypes
  <2>3. left \in Seq(Record) /\ RunsUpTo(left, currentLsn) /\ Len(left) \in Nat
    BY <1>2, <2>2, EmptySeq, RunsEmpty DEF FirstLife
  <2>4. RunsUpTo(file', currentLsn - Len(left))
    <3>1. CASE full
      <4>1. RunsUpTo(file \o buffer, currentLsn)
        BY <1>2, <2>2, RunsConcat DEF FirstLife
      <4>2. QED
        BY <2>1, <2>2, <3>1, <4>1, EmptySeq
    <3>2. CASE ~full
      BY <1>2, <2>1, <3>2 DEF FirstLife
    <3>3. QED
      BY <3>1, <3>2
  <2>5. /\ flushedLsn' <= currentLsn + 1 /\ currentLsn - Len(left) <= flushedLsn'
        /\ flushedLsn' <= currentLsn - Len(left) + 1
    <3>1. CASE full
      BY <2>1, <2>2, <3>1, EmptySeq
    <3>2. CASE ~full
      BY <1>2, <2>1, <2>2, <3>2 DEF FirstLife
    <3>3. QED
      BY <3>1, <3>2
  <2> HIDE DEF full, left
  <2>6. Len(buffer') = Len(left) + 1 /\ RunsUpTo(buffer', currentLsn + 1)
    BY <2>1, <2>2, <2>3, AppendProperties, RunsAppend
  <2>7. currentLsn' - Len(buffer') = currentLsn - Len(left)
    BY <2>1, <2>2, <2>3, <2>6
  <2>8. phase' = "running"
    BY <1>2 DEF FirstLife, Running
  <2>9. QED
    BY <2>1, <2>4, <2>5, <2>6, <2>7, <2>8 DEF FirstLife
<1>3. QED
  BY <1>1, <1>2 DEF FirstLife

LEMMA FlushNumbers ==
    ASSUME TypeInv, FirstLife, LaterLives, Flush
    PROVE  FirstLife' /\ LaterLives'
<1>1. /\ file' = file \o buffer /\ buffer' = <<>> /\ flushedLsn' = currentLsn
      /\ phase = "running" /\ UNCHANGED <<currentLsn, kept, phase, crashes>>
  BY DEF Flush, FlushInternal
<1>2. /\ buffer \in Seq(Record) /\ file \in Seq(Record) /\ Len(buffer) \in Nat
      /\ currentLsn \in Int /\ Len(<<>>) = 0
  BY LenProperties, EmptySeq DEF TypeInv, LogTypes
<1>3. LaterLives'
  BY <1>1 DEF LaterLives
<1>4. ASSUME crashes = 0 PROVE FirstLife'
  <2>1. RunsUpTo(file', currentLsn)
    BY <1>1, <1>2, <1>4, RunsConcat DEF FirstLife
  <2>2. currentLsn' - Len(buffer') = currentLsn
    BY <1>1, <1>2
  <2>3. RunsUpTo(buffer', currentLsn)
    BY <1>1, RunsEmpty
  <2>4. phase' = "running"
    BY <1>1
  <2>5. QED
    BY <1>1, <1>2, <2>1, <2>2, <2>3, <2>4 DEF FirstLife
<1>5. QED
  BY <1>1, <1>3, <1>4 DEF FirstLife

LEMMA TruncateBeginNumbers ==
    ASSUME TypeInv, FirstLife, LaterLives, NEW lsn \in 1 .. currentLsn, TruncateBegin(lsn)
    PROVE  FirstLife' /\ LaterLives'
<1> DEFINE log == file \o buffer
           I == {i \in 1..Len(log) : Keeps(log[i], lsn)}
<1>1. /\ phase = "running" /\ phase' = "truncating"
      /\ kept' = AtIndices(log, I) /\ file' = <<>>
      /\ IF buffer = <<>>
         THEN UNCHANGED <<buffer, flushedLsn>>
         ELSE buffer' = <<>> /\ flushedLsn' = currentLsn
      /\ UNCHANGED <<currentLsn, crashes>>
  BY DEF TruncateBegin
<1>2. /\ buffer \in Seq(Record) /\ file \in Seq(Record) /\ Len(buffer) \in Nat
      /\ currentLsn \in Int /\ Len(<<>>) = 0 /\ log \in Seq(Record) /\ lsn \in Int
      /\ flushedLsn \in Int
  BY LenProperties, EmptySeq, ConcatProperties DEF TypeInv, LogTypes
<1>3. LaterLives'
  BY <1>1 DEF LaterLives
<1>4. ASSUME crashes = 0 PROVE FirstLife'
  <2>1. RunsUpTo(log, currentLsn)
    BY <1>2, <1>4, RunsConcat DEF FirstLife
  <2>2. RunsUpTo(kept', currentLsn)
    <3> HIDE DEF log
    <3>1. QED
      BY <1>1, <1>2, <2>1, RunsKept
  <2>3. buffer' = <<>> /\ flushedLsn' = currentLsn
    <3>1. CASE buffer = <<>>
      <4>1. Len(buffer) = 0
        BY <1>2, <3>1
      <4>2. flushedLsn = currentLsn
        BY <1>2, <1>4, <4>1 DEF FirstLife
      <4>3. QED
        BY <1>1, <3>1, <4>2
    <3>2. CASE buffer # <<>>
      BY <1>1, <3>2
    <3>3. QED
      BY <3>1, <3>2
  <2>4. currentLsn' - Len(buffer') = currentLsn
    BY <1>1, <1>2, <2>3
  <2>5. RunsUpTo(buffer', currentLsn) /\ RunsUpTo(file', currentLsn)
    BY <1>1, <2>3, RunsEmpty
  <2>6. phase' = "truncating" /\ file' = <<>> /\ currentLsn' = currentLsn
    BY <1>1
  <2> HIDE DEF log, I
  <2>7. QED
    BY <1>2, <2>2, <2>3, <2>4, <2>5, <2>6 DEF FirstLife
<1>5. QED
  BY <1>1, <1>3, <1>4 DEF FirstLife

LEMMA TruncateEndNumbers ==
    ASSUME TypeInv, FirstLife, LaterLives, TruncateEnd
    PROVE  FirstLife' /\ LaterLives'
<1>1. /\ phase = "truncating" /\ phase' = "running" /\ file' = kept
      /\ UNCHANGED <<buffer, currentLsn, flushedLsn, crashes>>
  BY DEF TruncateEnd
<1>2. LaterLives'
  BY <1>1 DEF LaterLives
<1>3. ASSUME crashes = 0 PROVE FirstLife'
  <2>1. buffer = <<>> /\ RunsUpTo(file', currentLsn)
    BY <1>1, <1>3 DEF FirstLife
  <2>2. currentLsn - Len(buffer) = currentLsn
    BY <2>1, EmptySeq DEF TypeInv, LogTypes
  <2>3. QED
    BY <1>1, <1>3, <2>1, <2>2 DEF FirstLife
<1>4. QED
  BY <1>1, <1>2, <1>3 DEF FirstLife

LEMMA CrashNumbers ==
    ASSUME TypeInv, FirstLife, LaterLives, NEW k \in 0 .. Len(Unwritten), Crash(k)
    PROVE  FirstLife' /\ LaterLives'
<1>1. /\ file' = file \o SubSeq(Unwritten, 1, k)
      /\ buffer' = <<>> /\ phase' = "redo" /\ crashes' = crashes + 1
  BY DEF Crash
<1>2. /\ buffer \in Seq(Record) /\ file \in Seq(Record) /\ kept \in Seq(Record)
      /\ Len(buffer) \in Nat /\ Len(file) \in Nat /\ Len(kept) \in Nat
      /\ currentLsn \in Int /\ Len(<<>>) = 0 /\ crashes \in Nat
  BY LenProperties, EmptySeq, LimitAssumption DEF TypeInv, LogTypes, CallTypes
<1>3. FirstLife'
  BY <1>1, <1>2 DEF FirstLife
<1>4. ASSUME Epochs <= 1 PROVE \E n \in Int : RunsUpTo(file', n)
  <2>1. CASE crashes = 0 /\ phase = "truncating"
    <3>1. file = <<>> /\ RunsUpTo(kept, currentLsn) /\ Unwritten = kept
      BY <2>1 DEF FirstLife, Unwritten
    <3>2. SubSeq(kept, 1, k) \in Seq(Record) /\ RunsUpTo(SubSeq(kept, 1, k), currentLsn - Len(kept) + k)
      BY <1>1, <1>2, <3>1, PrefixType, RunsPrefix
    <3>3. file' = SubSeq(kept, 1, k)
      BY <1>1, <3>1, <3>2, ConcatEmptySeq
    <3>4. currentLsn - Len(kept) + k \in Int
      BY <1>2
    <3>5. QED
      BY <3>2, <3>3, <3>4
  <2>2. CASE crashes = 0 /\ phase # "truncating"
    <3> DEFINE n == currentLsn - Len(buffer) + k
    <3>1. Unwritten = buffer /\ RunsUpTo(buffer, currentLsn) /\ RunsUpTo(file, currentLsn - Len(buffer))
      BY <2>2 DEF FirstLife, Unwritten
    <3>2. /\ SubSeq(buffer, 1, k) \in Seq(Record) /\ Len(SubSeq(buffer, 1, k)) = k
          /\ RunsUpTo(SubSeq(buffer, 1, k), n)
      <4>1. k \in 0..Len(buffer)
        BY <1>1, <3>1
      <4>2. SubSeq(buffer, 1, k) \in Seq(Record) /\ Len(SubSeq(buffer, 1, k)) = k
        BY <1>2, <4>1, PrefixType
      <4>3. RunsUpTo(SubSeq(buffer, 1, k), n)
        BY <1>2, <3>1, <4>1, RunsPrefix
      <4>4. QED
        BY <4>2, <4>3
    <3>3. n \in Int /\ n - k = currentLsn - Len(buffer)
      BY <1>2
    <3> HIDE DEF n
    <3>4. RunsUpTo(file \o SubSeq(buffer, 1, k), n)
      BY <1>2, <3>1, <3>2, <3>3, RunsConcat
    <3>5. QED
      BY <1>1, <3>1, <3>3, <3>4
  <2>3. CASE crashes > 0
    <3>1. /\ phase \in {"redo", "undo", "recovered"} /\ buffer = <<>>
          /\ \E n \in Int : RunsUpTo(file, n)
      BY <1>4, <2>3 DEF LaterLives
    <3>2. Unwritten = <<>> /\ k = 0
      BY <1>1, <1>2, <3>1 DEF Unwritten
    <3>3. SubSeq(<<>>, 1, 0) = <<>>
      BY SubSeqEmpty
    <3>4. file' = file
      BY <1>1, <1>2, <3>2, <3>3, ConcatEmptySeq
    <3>5. QED
      BY <3>1, <3>4
  <2>4. QED
    BY <1>2, <2>1, <2>2, <2>3
<1>5. LaterLives'
  BY <1>1, <1>4 DEF LaterLives
<1>6. QED
  BY <1>3, <1>5

LEMMA CallersNumbers ==
    ASSUME TypeInv, FirstLife, LaterLives, NEW t \in Txn,
           \/ Begin(t) \/ Commit(t) \/ Abort(t)
           \/ \E p \in PageId, kind \in Kinds : Change(t, p, kind)
    PROVE  FirstLife' /\ LaterLives'
<1>1. ASSUME NEW kind \in {"TXN_BEGIN", "TXN_COMMIT", "TXN_ABORT"}, Running,
             AppendLog(EndRecord(t, kind)), phase' = phase \/ phase' = "running",
             UNCHANGED crashes
      PROVE  FirstLife' /\ LaterLives'
  <2>1. EndRecord(t, kind) \in Record /\ EndRecord(t, kind).lsn = currentLsn + 1
    BY <1>1, NewRecords DEF AppendLog
  <2>2. QED
    BY <1>1, <2>1, AppendNumbers
<1>2. CASE Begin(t)
  BY <1>1, <1>2 DEF Begin
<1>3. CASE Commit(t)
  BY <1>1, <1>3 DEF Commit, Active
<1>4. CASE Abort(t)
  BY <1>1, <1>4 DEF Abort, Active
<1>5. ASSUME NEW p \in PageId, NEW kind \in Kinds, Change(t, p, kind)
      PROVE  FirstLife' /\ LaterLives'
  <2> DEFINE r == ChangeRecord(t, kind, p, mem[p].val, NewValue(t, kind))
  <2>1. Running /\ AppendLog(r) /\ UNCHANGED <<phase, crashes>>
    BY <1>5 DEF Change, Active
  <2>2. r \in Record /\ r.lsn = currentLsn + 1
    BY <2>1, NewRecords DEF AppendLog
  <2> HIDE DEF r
  <2>3. QED
    BY <2>1, <2>2, AppendNumbers
<1>6. QED
  BY <1>2, <1>3, <1>4, <1>5

LEMMA RecoverNumbers ==
    ASSUME FirstLife, LaterLives,
           \/ RedoChange \/ RedoBegin \/ RedoCommit \/ RedoAbort
           \/ UndoOne \/ EndOfLog \/ EndRecover
    PROVE  FirstLife' /\ LaterLives'
<1>1. /\ Recovering
      /\ \/ phase' = phase
         \/ phase \in {"redo", "undo"} /\ phase' \in {"redo", "undo", "recovered"}
  <2>1. CASE RedoChange
    BY <2>1 DEF RedoChange
  <2>2. CASE RedoBegin \/ RedoCommit \/ RedoAbort
    BY <2>2 DEF RedoBegin, RedoCommit, RedoAbort
  <2>3. CASE UndoOne
    BY <2>3 DEF UndoOne
  <2>4. CASE EndOfLog \/ EndRecover
    BY <2>4 DEF EndOfLog, EndRecover
  <2>5. QED
    BY <2>1, <2>2, <2>3, <2>4
<1>2. UNCHANGED <<walVars, crashes>>
  BY <1>1 DEF Recovering
<1>3. QED
  BY <1>1, <1>2, NumbersKept

Numbers == TypeInv /\ FirstLife /\ LaterLives

LEMMA NextNumbers == Numbers /\ [Next]_vars => Numbers'
<1> SUFFICES ASSUME TypeInv, FirstLife, LaterLives, [Next]_vars
             PROVE  FirstLife' /\ LaterLives'
  BY NextTypes DEF Numbers
<1>1. ASSUME NEW t \in Txn,
             \/ Begin(t) \/ Commit(t) \/ Abort(t)
             \/ \E p \in PageId, kind \in Kinds : Change(t, p, kind)
      PROVE  FirstLife' /\ LaterLives'
  BY <1>1, CallersNumbers
<1>2. CASE Flush
  BY <1>2, FlushNumbers
<1>3. ASSUME NEW p \in PageId, PageToDisk(p) PROVE FirstLife' /\ LaterLives'
  BY <1>3, NumbersKept DEF PageToDisk
<1>4. ASSUME NEW lsn \in 1 .. currentLsn, TruncateBegin(lsn) PROVE FirstLife' /\ LaterLives'
  BY <1>4, TruncateBeginNumbers
<1>5. CASE TruncateEnd
  BY <1>5, TruncateEndNumbers
<1>6. ASSUME NEW k \in 0 .. Len(Unwritten), Crash(k) PROVE FirstLife' /\ LaterLives'
  BY <1>6, CrashNumbers
<1>7. CASE \/ RedoChange \/ RedoBegin \/ RedoCommit \/ RedoAbort
           \/ UndoOne \/ EndOfLog \/ EndRecover
  BY <1>7, RecoverNumbers
<1>8. CASE UNCHANGED vars
  BY <1>8, NumbersKept DEF vars
<1>9. QED
  BY <1>1, <1>2, <1>3, <1>4, <1>5, <1>6, <1>7, <1>8 DEF Next

LEMMA NumbersAlways == Spec => []Numbers
<1>1. Init => Numbers
  BY InitTypes, InitNumbers DEF Numbers
<1>2. QED
  BY <1>1, NextNumbers, PTL DEF Spec

\* What flushed_lsn_ says of the file until the first crash: no record past it is in
\* the file, and of those up to it only the last can still be in the buffer.
FlushedWithinOne ==
    crashes = 0 =>
        /\ \A i \in DOMAIN buffer : flushedLsn < buffer[i].lsn + (IF i = 1 THEN 1 ELSE 0)
        /\ file # <<>> => Last(file).lsn <= flushedLsn

LEMMA NumbersFlushed == Numbers => FlushedWithinOne
<1> SUFFICES ASSUME Numbers, crashes = 0
             PROVE  /\ \A i \in DOMAIN buffer :
                           flushedLsn < buffer[i].lsn + (IF i = 1 THEN 1 ELSE 0)
                    /\ file # <<>> => Last(file).lsn <= flushedLsn
  BY DEF FlushedWithinOne
<1>1. /\ buffer \in Seq(Record) /\ file \in Seq(Record) /\ Len(buffer) \in Nat
      /\ Len(file) \in Nat /\ DOMAIN buffer = 1..Len(buffer)
      /\ currentLsn \in Int /\ flushedLsn \in Int
  BY LenProperties DEF Numbers, TypeInv, LogTypes
<1>2. /\ flushedLsn <= currentLsn - Len(buffer) + 1
      /\ currentLsn - Len(buffer) <= flushedLsn
      /\ RunsUpTo(buffer, currentLsn) /\ RunsUpTo(file, currentLsn - Len(buffer))
  BY DEF Numbers, FirstLife
<1>3. ASSUME NEW i \in DOMAIN buffer
      PROVE  flushedLsn < buffer[i].lsn + (IF i = 1 THEN 1 ELSE 0)
  <2>1. i \in 1..Len(buffer) /\ buffer[i].lsn = currentLsn - Len(buffer) + i
    BY <1>1, <1>2 DEF RunsUpTo
  <2>2. flushedLsn < currentLsn - Len(buffer) + i + (IF i = 1 THEN 1 ELSE 0)
    BY <1>1, <1>2, <2>1
  <2>3. QED
    BY <2>1, <2>2
<1>4. ASSUME file # <<>> PROVE Last(file).lsn <= flushedLsn
  <2>1. Len(file) \in 1..Len(file)
    BY <1>1, <1>4, EmptySeq
  <2>2. file[Len(file)].lsn = currentLsn - Len(buffer) - Len(file) + Len(file)
    BY <1>2, <2>1 DEF RunsUpTo
  <2>3. currentLsn - Len(buffer) - Len(file) + Len(file) = currentLsn - Len(buffer)
    BY <1>1
  <2>4. QED
    BY <1>2, <2>2, <2>3 DEF Last
<1>5. QED
  BY <1>3, <1>4

\* wal_manager.h:127 and 135 call flushed_lsn_ the largest LSN that is on disk.  It is
\* not: AppendLog counts the record it has yet to copy into the buffer it has just
\* flushed (wal_manager.cpp:71).  That one record is all it is ever wrong about.
THEOREM FlushedOffByOne == Spec => []FlushedWithinOne
  BY NumbersAlways, NumbersFlushed, PTL

LEMMA NumbersAscend == Numbers => (Epochs <= 1 => LsnsAscend)
<1> SUFFICES ASSUME Numbers, Epochs <= 1 PROVE LsnsAscend
  OBVIOUS
<1> DEFINE log == file \o buffer
<1>1. /\ buffer \in Seq(Record) /\ file \in Seq(Record) /\ currentLsn \in Int
      /\ Len(buffer) \in Nat /\ log \in Seq(Record) /\ Len(log) \in Nat /\ crashes \in Nat
  BY LenProperties, ConcatProperties, LimitAssumption
  DEF Numbers, TypeInv, LogTypes, CallTypes
<1>2. \E n \in Int : RunsUpTo(log, n)
  <2>1. CASE crashes = 0
    <3>1. RunsUpTo(log, currentLsn)
      BY <1>1, <2>1, RunsConcat DEF Numbers, FirstLife
    <3>2. QED
      BY <1>1, <3>1
  <2>2. CASE crashes > 0
    <3>1. buffer = <<>> /\ \E n \in Int : RunsUpTo(file, n)
      BY <2>2 DEF Numbers, LaterLives
    <3>2. log = file
      BY <1>1, <3>1, ConcatEmptySeq
    <3>3. QED
      BY <3>1, <3>2
  <2>3. QED
    BY <1>1, <2>1, <2>2
<1> HIDE DEF log
<1>3. PICK n \in Int : RunsUpTo(log, n)
  BY <1>2
<1>4. ASSUME NEW i \in 1 .. Len(log) - 1 PROVE log[i + 1].lsn = log[i].lsn + 1
  <2>1. i \in 1..Len(log) /\ i + 1 \in 1..Len(log)
    BY <1>1
  <2>2. log[i].lsn = n - Len(log) + i /\ log[i + 1].lsn = n - Len(log) + (i + 1)
    BY <1>3, <2>1 DEF RunsUpTo
  <2>3. n - Len(log) + (i + 1) = n - Len(log) + i + 1
    BY <1>1
  <2>4. QED
    BY <2>2, <2>3
<1>5. QED
  BY <1>4 DEF log, LsnsAscend

\* If the process logs in its first life only, the records in the file and then
\* in the buffer are numbered without a gap, through flushes, truncations and
\* crashes at any point of them.  A WALManager opened on a file that is not
\* empty starts at 0 again, so a second life that logs breaks it.
THEOREM LsnsAlwaysAscend == Epochs <= 1 => (Spec => []LsnsAscend)
<1>1. SUFFICES ASSUME Epochs <= 1 PROVE Spec => []LsnsAscend
  OBVIOUS
<1>2. Numbers => LsnsAscend
  BY <1>1, NumbersAscend
<1>3. QED
  BY <1>2, NumbersAlways, PTL

\* The numbers of the records in s.
LsnsOf(s) == {s[i].lsn : i \in DOMAIN s}

\* An append to a full buffer, in the first life of the process, makes flushed_lsn_
\* the number of a record that is in the buffer and not in the file.
CountsUnwritten ==
    crashes = 0 /\ Len(buffer) >= BufferSlots /\ currentLsn' = currentLsn + 1
        => flushedLsn' \in LsnsOf(buffer') \ LsnsOf(file')

LEMMA AppendCounts ==
    ASSUME TypeInv, TypeInv', FirstLife', NEW r \in Record, r.lsn = currentLsn + 1,
           AppendLog(r), crashes' = 0, Len(buffer) >= BufferSlots
    PROVE  flushedLsn' \in LsnsOf(buffer') \ LsnsOf(file')
<1>1. buffer' = Append(<<>>, r) /\ flushedLsn' = currentLsn + 1 /\ currentLsn' = currentLsn + 1
  BY DEF AppendLog
<1>2. /\ Append(<<>>, r) \in Seq(Record) /\ Len(Append(<<>>, r)) = 1
      /\ Append(<<>>, r)[1] = r /\ DOMAIN Append(<<>>, r) = 1..1
  BY EmptySeq, AppendProperties, LenProperties
<1>3. flushedLsn' \in LsnsOf(buffer')
  BY <1>1, <1>2 DEF LsnsOf
<1>4. /\ currentLsn \in Int /\ Len(file') \in Nat /\ DOMAIN (file') = 1..Len(file')
  BY LenProperties DEF TypeInv, LogTypes
<1>5. RunsUpTo(file', currentLsn' - Len(buffer'))
  BY DEF FirstLife
<1>6. currentLsn' - Len(buffer') = currentLsn
  BY <1>1, <1>2, <1>4
<1>7. ASSUME NEW i \in DOMAIN (file') PROVE file'[i].lsn # flushedLsn'
  <2>1. file'[i].lsn = currentLsn - Len(file') + i
    BY <1>4, <1>5, <1>6, <1>7 DEF RunsUpTo
  <2>2. currentLsn - Len(file') + i # currentLsn + 1
    BY <1>4, <1>7
  <2>3. QED
    BY <1>1, <2>1, <2>2
<1>8. QED
  BY <1>3, <1>7 DEF LsnsOf

LEMMA NextCounts == Numbers /\ Numbers' /\ [Next]_vars => CountsUnwritten
<1> SUFFICES ASSUME Numbers, Numbers', [Next]_vars, crashes = 0, Len(buffer) >= BufferSlots,
                    currentLsn' = currentLsn + 1
             PROVE  flushedLsn' \in LsnsOf(buffer') \ LsnsOf(file')
  BY DEF CountsUnwritten
<1>1. TypeInv /\ TypeInv' /\ FirstLife' /\ currentLsn \in Nat
  BY DEF Numbers, TypeInv, LogTypes
<1>2. currentLsn' # currentLsn /\ currentLsn' # 0
  BY <1>1
<1>3. ASSUME NEW r \in Record, r.lsn = currentLsn + 1, AppendLog(r), UNCHANGED crashes
      PROVE  flushedLsn' \in LsnsOf(buffer') \ LsnsOf(file')
  BY <1>1, <1>3, AppendCounts
<1>4. ASSUME NEW t \in Txn, Begin(t) \/ Commit(t) \/ Abort(t)
      PROVE  flushedLsn' \in LsnsOf(buffer') \ LsnsOf(file')
  <2>1. PICK kind \in {"TXN_BEGIN", "TXN_COMMIT", "TXN_ABORT"} :
            AppendLog(EndRecord(t, kind)) /\ UNCHANGED crashes
    BY <1>4 DEF Begin, Commit, Abort
  <2>2. EndRecord(t, kind) \in Record /\ EndRecord(t, kind).lsn = currentLsn + 1
    BY <1>1, <2>1, NewRecords DEF AppendLog
  <2>3. QED
    BY <1>3, <2>1, <2>2
<1>5. ASSUME NEW t \in Txn, NEW p \in PageId, NEW kind \in Kinds, Change(t, p, kind)
      PROVE  flushedLsn' \in LsnsOf(buffer') \ LsnsOf(file')
  <2>1. PICK r : r = ChangeRecord(t, kind, p, mem[p].val, NewValue(t, kind))
    OBVIOUS
  <2>2. AppendLog(r) /\ UNCHANGED crashes
    BY <1>5, <2>1 DEF Change
  <2>3. r \in Record /\ r.lsn = currentLsn + 1
    BY <1>1, <2>1, <2>2, NewRecords DEF AppendLog
  <2>4. QED
    BY <1>3, <2>2, <2>3
<1>6. ~Flush /\ ~TruncateEnd /\ ~UNCHANGED vars
  BY <1>2 DEF Flush, TruncateEnd, vars, walVars
<1>7. ~ \E p \in PageId : PageToDisk(p)
  BY <1>2 DEF PageToDisk, walVars
<1>8. ~ \E lsn \in 1 .. currentLsn : TruncateBegin(lsn)
  BY <1>2 DEF TruncateBegin
<1>9. ~ \E k \in 0 .. Len(Unwritten) : Crash(k)
  BY <1>2 DEF Crash
<1>10. ~ (RedoChange \/ RedoBegin \/ RedoCommit \/ RedoAbort \/ UndoOne \/ EndOfLog \/ EndRecover)
  BY <1>2 DEF RedoChange, RedoBegin, RedoCommit, RedoAbort, UndoOne, EndOfLog, EndRecover,
              Recovering, walVars
<1>11. QED
  BY <1>4, <1>5, <1>6, <1>7, <1>8, <1>9, <1>10 DEF Next

\* wal_manager.h:127 and 135 say of GetFlushedLSN that it is the greatest LSN on disk.
\* It is not: each append that flushes a full buffer counts the record it has not
\* written yet (wal_manager.cpp:71 takes the LSN before the flush of line 75).
THEOREM FlushedCountsUnwritten == Spec => [][CountsUnwritten]_vars
<1>1. Numbers /\ Numbers' /\ [Next]_vars => [CountsUnwritten]_vars
  BY NextCounts
<1>2. QED
  BY <1>1, NumbersAlways, PTL DEF Spec

-----------------------------------------------------------------------------
(***************************************************************************)
(* What Recover finds, for callers that run in the first life of the       *)
(* process only.                                                           *)
(* H is a sequence of records: every one that was ever appended, or, after *)
(* a crash, that ever was in the file.                                     *)
(***************************************************************************)

IsEnd(r) == r.kind \in {"TXN_COMMIT", "TXN_ABORT"}

ChangeAt(H, i, p) == IsChange(H[i]) /\ H[i].page = p
EndAt(H, i, t)    == IsEnd(H[i]) /\ H[i].txn = t

EndedIn(H, t, n)     == \E e \in 1..n : EndAt(H, e, t)
CommittedIn(H, t, n) == \E e \in 1..n : H[e].kind = "TXN_COMMIT" /\ H[e].txn = t

\* Change f is the first of its transaction on its page.
IsFirst(H, f) ==
    \A i \in 1..(f - 1) : ~(IsChange(H[i]) /\ H[i].page = H[f].page /\ H[i].txn = H[f].txn)

\* Abort a gives page p its content v back.
Restores(H, a, p, v) ==
    \E f \in 1..(a - 1) : /\ ChangeAt(H, f, p) /\ H[f].txn = H[a].txn /\ IsFirst(H, f)
                          /\ v = H[f].old

\* Record i says what page p holds.
Touches(H, i, p) ==
    \/ ChangeAt(H, i, p)
    \/ /\ H[i].kind = "TXN_ABORT"
       /\ \E j \in 1..(i - 1) : ChangeAt(H, j, p) /\ H[j].txn = H[i].txn

\* No record after i and up to n does.
Quiet(H, p, i, n) == \A j \in (i + 1)..n : ~Touches(H, j, p)

\* By the first n records, v is what transactions that committed have left in p.
Winner(H, i, p, n) == ChangeAt(H, i, p) /\ CommittedIn(H, H[i].txn, n)
HoldsCommitted(H, p, n, v) ==
    \/ v = Blank /\ \A i \in 1..n : ~Winner(H, i, p, n)
    \/ \E i \in 1..n : /\ Winner(H, i, p, n) /\ v = H[i].new
                       /\ \A j \in (i + 1)..n : ~Winner(H, j, p, n)

\* Records are numbered, a transaction logs nothing after its end, pages are
\* changed by one transaction at a time, and what a change finds in a page its
\* transaction has not changed yet is what committed transactions have left.
Numbered(H) == \A i \in 1..Len(H) : H[i].lsn = i
EndsLast(H) == \A e, j \in 1..Len(H) : e < j /\ IsEnd(H[e]) => H[j].txn # H[e].txn
Exclusive(H) ==
    \A i, j \in 1..Len(H) :
        i < j /\ IsChange(H[i]) /\ ChangeAt(H, j, H[i].page) /\ H[i].txn # H[j].txn
            => \E e \in (i + 1)..(j - 1) : EndAt(H, e, H[i].txn)
OldsCommitted(H) ==
    \A f \in 1..Len(H) :
        IsChange(H[f]) /\ IsFirst(H, f) => HoldsCommitted(H, H[f].page, f - 1, H[f].old)

LogSound(H) == Numbered(H) /\ EndsLast(H) /\ Exclusive(H) /\ OldsCommitted(H)

\* The sequence s is what Truncate leaves of H when it drops the first b records,
\* or the beginning of that.
Follows(s, H, b) == b + Len(s) <= Len(H) /\ \A i \in 1..Len(s) : s[i] = H[b + i]

\* What Truncate has dropped of page p: no change that is still to be undone.
Dropped(H, b, p) ==
    /\ \A c \in 1..b : ChangeAt(H, c, p) => EndedIn(H, H[c].txn, Len(H))
    /\ \A c \in 1..b, a \in (b + 1)..Len(H) :
          ChangeAt(H, c, p) /\ H[a].kind = "TXN_ABORT" => H[c].txn # H[a].txn

\* The records after b and up to m have no INSERT into p that is to be undone.
InsertsCommitted(H, b, m, p) ==
    \A c \in (b + 1)..m :
        ChangeAt(H, c, p) /\ H[c].kind = "INSERT" => CommittedIn(H, H[c].txn, m)

\* The image x is that of page p after record number x.lsn.
ImageOf(H, p, x) ==
    /\ x.lsn \in 0..Len(H)
    /\ x.lsn = 0 => x.val = Blank
    /\ x.lsn > 0 => /\ Touches(H, x.lsn, p)
                    /\ ChangeAt(H, x.lsn, p) => x.val = H[x.lsn].new
                    /\ H[x.lsn].kind = "TXN_ABORT" => Restores(H, x.lsn, p, x.val)

Log == history \o buffer

\* What is in the file and the buffer, or will be when Truncate is done.
Written == IF phase = "truncating" THEN kept ELSE file \o buffer

Statuses ==
    \A i \in 1..Len(Log) :
        /\ status[Log[i].txn] # "new"
        /\ status[Log[i].txn] = "active" <=> ~EndedIn(Log, Log[i].txn, Len(Log))

LogNow(b) ==
    /\ b <= Len(history) /\ currentLsn = Len(Log)
    /\ LogSound(Log)
    /\ Follows(Written, Log, b) /\ b + Len(Written) = Len(Log)
    /\ Statuses

PagesNow(b) ==
    /\ phase = "truncating" => page = mem
    /\ \A p \in PageId :
          /\ ImageOf(Log, p, mem[p]) /\ Quiet(Log, p, mem[p].lsn, Len(Log))
          /\ ImageOf(Log, p, page[p]) /\ Quiet(Log, p, page[p].lsn, b)

LoggedState(b) == LogNow(b) /\ PagesNow(b)

\* Page p has a change that a crash in Truncate has cut off the file: the file
\* has the records after b up to m.
Behind(H, p, m) == \E c \in (m + 1)..Len(H) : ChangeAt(H, c, p)

\* Of the changes of such a page in the file none is to be undone at the end, and an
\* abort among them leaves the page as the records after m do. An end that was lost is
\* that of no change in the file.
NotTorn(H, b, m, p) ==
    /\ \A c \in (b + 1)..m :
          ChangeAt(H, c, p) /\ (EndedIn(H, H[c].txn, Len(H)) \/ Behind(H, p, m))
              => EndedIn(H, H[c].txn, m)
    /\ Behind(H, p, m) =>
          \/ \A c \in (b + 1)..m : ChangeAt(H, c, p) => CommittedIn(H, H[c].txn, m)
          \/ \A c \in (m + 1)..Len(H) : ~Winner(H, c, p, Len(H))

\* The image x of page p is that of a lost record, and final.
Beyond(H, m, p, x) ==
    Behind(H, p, m) /\ x.lsn > m /\ HoldsCommitted(H, p, Len(H), x.val)

\* The image x is one from which the records after n, up to m, make what they should.
Within(H, m, p, x, n) ==
    /\ x.lsn \in 0..m
    /\ Quiet(H, p, x.lsn, n)
    /\ \A c \in (m + 1)..Len(H) : ~Winner(H, c, p, Len(H))
    /\ x.lsn = 0 => x.val = Blank
    /\ x.lsn > 0 => Touches(H, x.lsn, p)
    /\ x.lsn > 0 /\ Winner(H, x.lsn, p, Len(H)) => x.val = H[x.lsn].new
    /\ x.lsn > 0 /\ x.lsn <= n /\ H[x.lsn].kind = "TXN_ABORT" => Restores(H, x.lsn, p, x.val)

Good(H, m, p, x, n) == Beyond(H, m, p, x) \/ Within(H, m, p, x, n)

\* The changes of transactions that have not ended by the nth record.
Unended(H, b, n) ==
    {H[c] : c \in {k \in (b + 1)..n : IsChange(H[k]) /\ ~EndedIn(H, H[k].txn, n)}}

\* All of the changes before those of S are still to be undone.
DownTo(H, b, n, S) ==
    \A r \in S : \A c \in (b + 1)..n :
        IsChange(H[c]) /\ H[c].txn = r.txn /\ c < r.lsn => H[c] \in S

\* The place of the last record that Recover has seen, and the page it is undoing.
Seen(b) == b + cursor - 1
Touched(p) == \E r \in todo : r.page = p

\* What a crash leaves for the lives after it.
LogLeft(b, m) ==
    /\ m <= Len(history) /\ b + Len(file) = m
    /\ LogSound(history) /\ Follows(file, history, b)
    /\ \A p \in PageId \ spoilt :
          Dropped(history, b, p) /\ NotTorn(history, b, m, p) /\ InsertsCommitted(history, b, m, p)

PagesLeft(b, m) == \A p \in PageId \ spoilt : Good(history, m, p, page[p], b)

RedoState(b, m) ==
    /\ live = Unended(history, b, Seen(b))
    /\ todo # {} =>
          /\ Seen(b) > b /\ todoLsn = Seen(b) /\ history[Seen(b)].kind = "TXN_ABORT"
          /\ \A r \in todo : /\ r.txn = history[Seen(b)].txn
                             /\ \E c \in (b + 1)..Seen(b) : IsChange(r) /\ r = history[c]
          /\ DownTo(history, b, Seen(b), todo)
    /\ \A p \in PageId \ spoilt :
          Good(history, m, p, mem[p], IF Touched(p) THEN Seen(b) - 1 ELSE Seen(b))

UndoState(b, m) ==
    /\ todoLsn = 0
    /\ todo \subseteq Unended(history, b, m)
    /\ DownTo(history, b, m, todo)
    /\ \A p \in PageId \ spoilt :
          /\ Good(history, m, p, mem[p], m)
          /\ \A f \in (b + 1)..m :
                ChangeAt(history, f, p) /\ IsFirst(history, f)
                /\ ~EndedIn(history, history[f].txn, m) /\ history[f] \notin todo
                    => mem[p].val = history[f].old

CrashedState(b, m) ==
    /\ LogLeft(b, m) /\ PagesLeft(b, m)
    /\ phase = "redo" => RedoState(b, m)
    /\ phase \in {"undo", "recovered"} => UndoState(b, m)

Recoverable ==
    /\ crashes = 0 => \E b \in Nat : LoggedState(b)
    /\ crashes > 0 => \E b, m \in Nat : CrashedState(b, m)

-----------------------------------------------------------------------------
(***************************************************************************)
(* What a sound log says of ends, changes and images.                      *)
(***************************************************************************)

\* A transaction ends once.
LEMMA EndsOnce ==
    ASSUME NEW H \in Seq(Record), EndsLast(H), NEW t,
           NEW d \in 1..Len(H), NEW e \in 1..Len(H), EndAt(H, d, t), EndAt(H, e, t)
    PROVE  d = e
<1>1. Len(H) \in Nat
  BY LenProperties
<1>2. ~(d < e) /\ ~(e < d)
  BY DEF EndsLast, EndAt
<1>3. QED
  BY <1>1, <1>2

\* What has ended stays ended.
LEMMA EndedMore ==
    ASSUME NEW H, NEW t, NEW k \in Int, NEW n \in Int, k <= n
    PROVE  /\ EndedIn(H, t, k) => EndedIn(H, t, n)
           /\ CommittedIn(H, t, k) => CommittedIn(H, t, n)
<1>1. 1..k \subseteq 1..n
  OBVIOUS
<1>2. QED
  BY <1>1 DEF EndedIn, CommittedIn

\* A transaction ends by a commit or an abort.
LEMMA CommittedEnds ==
    ASSUME NEW H, NEW t, NEW n \in Int
    PROVE  /\ CommittedIn(H, t, n) => EndedIn(H, t, n)
           /\ EndedIn(H, t, n) => \/ CommittedIn(H, t, n)
                                  \/ \E a \in 1..n : H[a].kind = "TXN_ABORT" /\ H[a].txn = t
  BY DEF CommittedIn, EndedIn, EndAt, IsEnd

\* A transaction that has changed a page is the only one to change it until it ends.
LEMMA OneOwner ==
    ASSUME NEW H \in Seq(Record), Exclusive(H), NEW p, NEW i \in 1..Len(H), NEW j \in 1..Len(H),
           ChangeAt(H, i, p), ChangeAt(H, j, p), i < j, NEW n \in Int, j <= n + 1,
           ~EndedIn(H, H[i].txn, n)
    PROVE  H[j].txn = H[i].txn
<1>1. SUFFICES ASSUME H[j].txn # H[i].txn PROVE FALSE
  OBVIOUS
<1>2. PICK e \in (i + 1)..(j - 1) : EndAt(H, e, H[i].txn)
  BY <1>1 DEF Exclusive, ChangeAt
<1>3. e \in 1..n
  OBVIOUS
<1>4. QED
  BY <1>2, <1>3 DEF EndedIn

\* What a page held before the first change of a transaction is what committed
\* transactions leave in it, when that change and those after it are of others.
LEMMA OldRemains ==
    ASSUME NEW H \in Seq(Record), LogSound(H), NEW f \in 1..Len(H), NEW p,
           ChangeAt(H, f, p), IsFirst(H, f),
           \A j \in f..Len(H) : ~Winner(H, j, p, Len(H))
    PROVE  HoldsCommitted(H, p, Len(H), H[f].old)
<1>0. Len(H) \in Nat
  BY LenProperties
<1>1. HoldsCommitted(H, p, f - 1, H[f].old)
  BY DEF LogSound, OldsCommitted, ChangeAt
<1>2. ASSUME NEW i \in 1..(f - 1) PROVE Winner(H, i, p, f - 1) <=> Winner(H, i, p, Len(H))
  <2>1. ASSUME Winner(H, i, p, f - 1) PROVE Winner(H, i, p, Len(H))
    <3>1. f - 1 \in Int /\ Len(H) \in Int /\ f - 1 <= Len(H)
      BY <1>0
    <3>2. CommittedIn(H, H[i].txn, Len(H))
      BY <2>1, <3>1, EndedMore DEF Winner
    <3>3. QED
      BY <2>1, <3>2 DEF Winner
  <2>2. ASSUME Winner(H, i, p, Len(H)) PROVE Winner(H, i, p, f - 1)
    <3>1. i \in 1..Len(H) /\ i < f
      BY <1>0
    <3>2. H[i].txn # H[f].txn
      BY <2>2 DEF IsFirst, Winner, ChangeAt
    <3>3. PICK e \in (i + 1)..(f - 1) : EndAt(H, e, H[i].txn)
      BY <2>2, <3>1, <3>2 DEF LogSound, Exclusive, Winner, ChangeAt
    <3>4. PICK c \in 1..Len(H) : H[c].kind = "TXN_COMMIT" /\ H[c].txn = H[i].txn
      BY <2>2 DEF Winner, CommittedIn
    <3>5. e \in 1..(f - 1) /\ e \in 1..Len(H) /\ EndAt(H, c, H[i].txn)
      BY <1>0, <3>4 DEF EndAt, IsEnd
    <3>6. e = c
      BY <3>3, <3>5, EndsOnce DEF LogSound
    <3>7. QED
      BY <2>2, <3>4, <3>5, <3>6 DEF Winner, CommittedIn
  <2>3. QED
    BY <2>1, <2>2
<1>3. \A i \in 1..Len(H) : Winner(H, i, p, Len(H)) => i \in 1..(f - 1)
  BY <1>0
<1>4. 1..(f - 1) \subseteq 1..Len(H)
  BY <1>0
<1>5. CASE H[f].old = Blank /\ \A i \in 1..(f - 1) : ~Winner(H, i, p, f - 1)
  <2>1. \A i \in 1..Len(H) : ~Winner(H, i, p, Len(H))
    BY <1>2, <1>3, <1>5
  <2>2. QED
    BY <1>5, <2>1 DEF HoldsCommitted
<1>6. ASSUME NEW i \in 1..(f - 1), Winner(H, i, p, f - 1), H[f].old = H[i].new,
             \A j \in (i + 1)..(f - 1) : ~Winner(H, j, p, f - 1)
      PROVE  HoldsCommitted(H, p, Len(H), H[f].old)
  <2>1. i \in 1..Len(H) /\ Winner(H, i, p, Len(H))
    BY <1>2, <1>4, <1>6
  <2>2. ASSUME NEW j \in (i + 1)..Len(H), Winner(H, j, p, Len(H)) PROVE FALSE
    <3>1. j \in 1..(f - 1)
      BY <1>0, <1>3, <2>2
    <3>2. j \in (i + 1)..(f - 1)
      BY <3>1
    <3>3. QED
      BY <1>2, <1>6, <2>2, <3>1, <3>2
  <2>3. QED
    BY <1>6, <2>1, <2>2 DEF HoldsCommitted
<1>7. QED
  BY <1>1, <1>5, <1>6 DEF HoldsCommitted

\* A page that a transaction has changed has a first change of it.
LEMMA FirstChange ==
    ASSUME NEW H \in Seq(Record), NEW p, NEW i \in 1..Len(H), ChangeAt(H, i, p)
    PROVE  \E f \in 1..i : ChangeAt(H, f, p) /\ IsFirst(H, f) /\ H[f].txn = H[i].txn
<1> DEFINE S == {k \in 1..i : ChangeAt(H, k, p) /\ H[k].txn = H[i].txn}
<1>1. i \in S /\ S \subseteq Nat
  OBVIOUS
<1>2. PICK f \in S : \A y \in S : f <= y
  BY <1>1, MinIsLeast
<1>3. IsFirst(H, f)
  <2>1. SUFFICES ASSUME NEW k \in 1..(f - 1), IsChange(H[k]), H[k].page = H[f].page,
                        H[k].txn = H[f].txn
                 PROVE  FALSE
    BY DEF IsFirst
  <2>2. k \in S
    BY <1>2, <2>1 DEF ChangeAt
  <2>3. f <= k /\ k < f
    BY <1>2, <2>2
  <2>4. QED
    BY <2>3
<1>4. QED
  BY <1>2, <1>3

\* What an abort gave a page back stays there when no transaction that committed
\* changes it after the abort.
LEMMA AbortRemains ==
    ASSUME NEW H \in Seq(Record), LogSound(H), NEW a \in 1..Len(H), NEW p, NEW w,
           H[a].kind = "TXN_ABORT", Restores(H, a, p, w),
           \A j \in (a + 1)..Len(H) : ~Winner(H, j, p, Len(H))
    PROVE  HoldsCommitted(H, p, Len(H), w)
<1>0. Len(H) \in Nat
  BY LenProperties
<1>1. PICK f \in 1..(a - 1) : ChangeAt(H, f, p) /\ H[f].txn = H[a].txn /\ IsFirst(H, f) /\ w = H[f].old
  BY DEF Restores
<1>2. f \in 1..Len(H) /\ EndAt(H, a, H[f].txn)
  BY <1>0, <1>1 DEF EndAt, IsEnd
<1>3. ASSUME NEW j \in f..Len(H), Winner(H, j, p, Len(H)) PROVE FALSE
  <2>1. j \in 1..Len(H) /\ j <= a
    BY <1>0, <1>3
  <2>2. H[j].txn = H[f].txn
    <3>1. CASE j = f
      BY <3>1
    <3>2. CASE j # f
      <4>1. ~EndedIn(H, H[f].txn, a - 1)
        <5>1. SUFFICES ASSUME NEW e \in 1..(a - 1), EndAt(H, e, H[f].txn) PROVE FALSE
          BY DEF EndedIn
        <5>2. e \in 1..Len(H)
          BY <1>0
        <5>3. e = a
          BY <1>2, <5>1, <5>2, EndsOnce DEF LogSound
        <5>4. QED
          BY <5>3
      <4>2. ChangeAt(H, j, p) /\ f < j /\ a - 1 \in Int /\ j <= a - 1 + 1
        BY <1>3, <2>1, <3>2 DEF Winner
      <4>3. QED
        BY <1>1, <1>2, <2>1, <4>1, <4>2, OneOwner DEF LogSound
    <3>3. QED
      BY <3>1, <3>2
  <2>3. PICK c \in 1..Len(H) : H[c].kind = "TXN_COMMIT" /\ H[c].txn = H[f].txn
    BY <1>3, <2>2 DEF Winner, CommittedIn
  <2>4. c = a
    BY <1>2, <2>3, EndsOnce DEF LogSound, EndAt, IsEnd
  <2>5. QED
    BY <2>3, <2>4
<1>4. QED
  BY <1>1, <1>2, <1>3, OldRemains

\* A committed change stays when no later one is of a transaction that commits.
LEMMA ChangeRemains ==
    ASSUME NEW H \in Seq(Record), NEW i \in 1..Len(H), NEW p, Winner(H, i, p, Len(H)),
           \A j \in (i + 1)..Len(H) : ~Winner(H, j, p, Len(H))
    PROVE  HoldsCommitted(H, p, Len(H), H[i].new)
  BY DEF HoldsCommitted

\* Where nothing touches a page no committed transaction changes it.
LEMMA QuietNoWinner ==
    ASSUME NEW H, NEW p, NEW i \in Int, NEW n \in Int, NEW k \in Int, Quiet(H, p, i, n)
    PROVE  \A j \in (i + 1)..n : ~Winner(H, j, p, k)
  BY DEF Quiet, Touches, Winner

\* What an image that no later record touches holds, if it is not a change of a
\* transaction that has not committed.
LEMMA ImageCommitted ==
    ASSUME NEW H \in Seq(Record), LogSound(H), NEW p, NEW x, ImageOf(H, p, x),
           Quiet(H, p, x.lsn, Len(H)),
           x.lsn > 0 /\ ChangeAt(H, x.lsn, p) => CommittedIn(H, H[x.lsn].txn, Len(H))
    PROVE  HoldsCommitted(H, p, Len(H), x.val)
<1>0. Len(H) \in Nat /\ x.lsn \in 0..Len(H)
  BY LenProperties DEF ImageOf
<1>1. \A j \in (x.lsn + 1)..Len(H) : ~Winner(H, j, p, Len(H))
  BY <1>0, QuietNoWinner
<1>2. CASE x.lsn = 0
  <2>1. x.val = Blank /\ \A j \in 1..Len(H) : ~Winner(H, j, p, Len(H))
    BY <1>1, <1>2 DEF ImageOf
  <2>2. QED
    BY <2>1 DEF HoldsCommitted
<1>3. CASE x.lsn > 0 /\ ChangeAt(H, x.lsn, p)
  <2>1. x.lsn \in 1..Len(H) /\ x.val = H[x.lsn].new /\ Winner(H, x.lsn, p, Len(H))
    BY <1>0, <1>3 DEF ImageOf, Winner
  <2>2. QED
    BY <1>1, <2>1, ChangeRemains
<1>4. CASE x.lsn > 0 /\ ~ChangeAt(H, x.lsn, p)
  <2>1. x.lsn \in 1..Len(H) /\ H[x.lsn].kind = "TXN_ABORT" /\ Restores(H, x.lsn, p, x.val)
    BY <1>0, <1>4 DEF ImageOf, Touches
  <2>2. QED
    BY <1>1, <2>1, AbortRemains
<1>5. QED
  BY <1>0, <1>2, <1>3, <1>4

\* Quiet up to a record is quiet up to an earlier one.
LEMMA QuietLess ==
    ASSUME NEW H, NEW p, NEW i, NEW n \in Int, NEW k \in Int, k <= n, Quiet(H, p, i, n)
    PROVE  Quiet(H, p, i, k)
  BY DEF Quiet

\* An image that is good for later records is good for earlier ones.
LEMMA GoodEarlier ==
    ASSUME NEW H, NEW m, NEW p, NEW x, NEW n \in Int, NEW k \in Int, k <= n,
           m \in Int, Good(H, m, p, x, n)
    PROVE  Good(H, m, p, x, k)
<1>1. SUFFICES ASSUME Within(H, m, p, x, n) PROVE Within(H, m, p, x, k)
  BY DEF Good
<1>2. Quiet(H, p, x.lsn, k)
  BY <1>1, QuietLess DEF Within
<1>3. x.lsn \in 0..m
  BY <1>1 DEF Within
<1>4. x.lsn <= k => x.lsn <= n
  BY <1>3
<1>5. QED
  BY <1>1, <1>2, <1>4 DEF Within

\* What Recover leaves in a page: the last change of a transaction that committed, or
\* what the page held before the first change of the one that changed it last.
LEMMA WithinHolds ==
    ASSUME NEW H \in Seq(Record), LogSound(H), NEW b \in Nat, NEW m \in Nat, b <= m, m <= Len(H),
           NEW p, NEW x, Dropped(H, b, p), NotTorn(H, b, m, p), Within(H, m, p, x, m),
           \A f \in (b + 1)..m :
              ChangeAt(H, f, p) /\ IsFirst(H, f) /\ ~EndedIn(H, H[f].txn, m) => x.val = H[f].old
    PROVE  HoldsCommitted(H, p, Len(H), x.val)
<1> DEFINE i == x.lsn
<1>0. Len(H) \in Nat /\ i \in 0..m
  BY LenProperties DEF Within
<1>1. \A j \in (i + 1)..Len(H) : ~Winner(H, j, p, Len(H))
  <2>1. \A j \in (i + 1)..m : ~Winner(H, j, p, Len(H))
    BY <1>0, QuietNoWinner DEF Within
  <2>2. \A j \in (m + 1)..Len(H) : ~Winner(H, j, p, Len(H))
    BY DEF Within
  <2>3. \A j \in (i + 1)..Len(H) : j \in (i + 1)..m \/ j \in (m + 1)..Len(H)
    BY <1>0
  <2>4. QED
    BY <2>1, <2>2, <2>3
<1>2. CASE i = 0
  <2>1. x.val = Blank /\ \A j \in 1..Len(H) : ~Winner(H, j, p, Len(H))
    BY <1>1, <1>2 DEF Within
  <2>2. QED
    BY <2>1 DEF HoldsCommitted
<1>3. CASE i > 0 /\ ~ChangeAt(H, i, p)
  <2>1. i \in 1..Len(H) /\ H[i].kind = "TXN_ABORT" /\ Restores(H, i, p, x.val)
    BY <1>0, <1>3 DEF Within, Touches
  <2>2. QED
    BY <1>1, <2>1, AbortRemains
<1>4. CASE i > 0 /\ Winner(H, i, p, Len(H))
  <2>1. i \in 1..Len(H) /\ x.val = H[i].new
    BY <1>0, <1>4 DEF Within
  <2>2. QED
    BY <1>1, <1>4, <2>1, ChangeRemains
<1>5. CASE i > 0 /\ ChangeAt(H, i, p) /\ ~Winner(H, i, p, Len(H))
  <2>1. i \in 1..Len(H) /\ i \in 1..m /\ ~CommittedIn(H, H[i].txn, Len(H)) /\ IsChange(H[i])
    BY <1>0, <1>5 DEF Winner, ChangeAt
  <2>2. ASSUME NEW a \in (i + 1)..m, H[a].kind = "TXN_ABORT", H[a].txn = H[i].txn PROVE FALSE
    <3>1. Touches(H, a, p)
      <4>1. i \in 1..(a - 1)
        BY <1>0, <2>1
      <4>2. QED
        BY <1>5, <2>2, <4>1 DEF Touches
    <3>2. QED
      BY <2>2, <3>1 DEF Within, Quiet
  <2>3. ASSUME NEW a \in 1..Len(H), H[a].kind = "TXN_ABORT", H[a].txn = H[i].txn
        PROVE  a > i
    <3>1. H[a].kind \notin ChangeKinds
      BY <2>3 DEF ChangeKinds
    <3>2. a # i
      BY <2>1, <3>1 DEF IsChange
    <3>3. ~(a < i)
      BY <2>1, <2>3 DEF LogSound, EndsLast, IsEnd
    <3>4. QED
      BY <1>0, <3>2, <3>3
  <2>4. ~EndedIn(H, H[i].txn, m)
    <3>1. SUFFICES ASSUME EndedIn(H, H[i].txn, m) PROVE FALSE
      OBVIOUS
    <3>2. ~CommittedIn(H, H[i].txn, m)
      <4>1. m \in Int /\ Len(H) \in Int /\ m <= Len(H)
        BY <1>0
      <4>2. QED
        BY <2>1, <4>1, EndedMore
    <3>3. PICK a \in 1..m : H[a].kind = "TXN_ABORT" /\ H[a].txn = H[i].txn
      BY <1>0, <3>1, <3>2, CommittedEnds
    <3>4. a \in 1..Len(H)
      BY <1>0
    <3>5. a \in (i + 1)..m
      BY <1>0, <2>3, <3>3, <3>4
    <3>6. QED
      BY <2>2, <3>3, <3>5
  <2>5. PICK f \in 1..i : ChangeAt(H, f, p) /\ IsFirst(H, f) /\ H[f].txn = H[i].txn
    BY <1>5, <2>1, FirstChange
  <2>6. f > b
    <3>1. SUFFICES ASSUME f \in 1..b PROVE FALSE
      BY <1>0
    <3>2. EndedIn(H, H[i].txn, Len(H))
      BY <2>5, <3>1 DEF Dropped, ChangeAt
    <3>3. PICK a \in 1..Len(H) : H[a].kind = "TXN_ABORT" /\ H[a].txn = H[i].txn
      BY <1>0, <2>1, <3>2, CommittedEnds
    <3>4. a \notin (b + 1)..Len(H)
      BY <2>5, <3>1, <3>3 DEF Dropped, ChangeAt
    <3>5. a > i
      BY <2>3, <3>3
    <3>6. a \in (i + 1)..m
      BY <1>0, <3>3, <3>4, <3>5
    <3>7. QED
      BY <2>2, <3>3, <3>6
  <2>7. x.val = H[f].old
    <3>1. f \in (b + 1)..m
      BY <1>0, <2>6
    <3>2. QED
      BY <2>4, <2>5, <3>1
  <2>8. ASSUME NEW j \in f..Len(H), Winner(H, j, p, Len(H)) PROVE FALSE
    <3>1. j \in 1..Len(H) /\ j <= i /\ ChangeAt(H, j, p) /\ f \in 1..Len(H)
      BY <1>0, <1>1, <2>8 DEF Winner
    <3>2. H[j].txn = H[f].txn
      <4>1. CASE j = f
        BY <4>1
      <4>2. CASE j # f
        <5>1. f < j /\ m \in Int /\ j <= m + 1 /\ ~EndedIn(H, H[f].txn, m)
          BY <1>0, <2>4, <2>5, <3>1, <4>2
        <5>2. QED
          BY <2>5, <3>1, <5>1, OneOwner DEF LogSound
      <4>3. QED
        BY <4>1, <4>2
    <3>3. QED
      BY <2>1, <2>5, <2>8, <3>2 DEF Winner
  <2>9. f \in 1..Len(H)
    BY <1>0
  <2>10. QED
    BY <2>5, <2>7, <2>8, <2>9, OldRemains
<1>6. QED
  BY <1>0, <1>2, <1>3, <1>4, <1>5 DEF Within

\* HoldsCommitted is the Committed of the property.
LEMMA HeldIsCommitted ==
    ASSUME history \in Seq(Record), NEW p, NEW w, HoldsCommitted(history, p, Len(history), w)
    PROVE  w = Committed(p)
<1> DEFINE S == {k \in 1..Len(history) : /\ IsChange(history[k]) /\ history[k].page = p
                                         /\ history[k].txn \in Durable}
<1>0. Len(history) \in Nat /\ DOMAIN history = 1..Len(history)
  BY LenProperties
<1>1. \A t : t \in Durable <=> CommittedIn(history, t, Len(history))
  <2>1. ToSet(history) = {history[k] : k \in 1..Len(history)}
    BY <1>0 DEF ToSet
  <2>2. QED
    BY <2>1 DEF Durable, CommittedIn
<1>2. \A k \in 1..Len(history) : k \in S <=> Winner(history, k, p, Len(history))
  BY <1>1 DEF Winner, ChangeAt
<1>3. S \subseteq 0..Len(history) /\ S \subseteq 1..Len(history)
  BY <1>0
<1>4. Committed(p) = IF S = {} THEN Blank ELSE history[Max(S)].new
  BY DEF Committed
<1> HIDE DEF S
<1>5. CASE w = Blank /\ \A k \in 1..Len(history) : ~Winner(history, k, p, Len(history))
  <2>1. S = {}
    BY <1>2, <1>3, <1>5
  <2>2. QED
    BY <1>4, <1>5, <2>1
<1>6. ASSUME NEW k \in 1..Len(history), Winner(history, k, p, Len(history)), w = history[k].new,
             \A j \in (k + 1)..Len(history) : ~Winner(history, j, p, Len(history))
      PROVE  w = Committed(p)
  <2>1. k \in S
    BY <1>2, <1>6
  <2>2. Max(S) \in S /\ \A y \in S : y <= Max(S)
    BY <1>0, <1>3, <2>1, MaxIsGreatest
  <2>3. k <= Max(S) /\ Max(S) \in 1..Len(history) /\ Winner(history, Max(S), p, Len(history))
    BY <1>2, <1>3, <2>1, <2>2
  <2>4. Max(S) = k
    BY <1>0, <1>6, <2>3
  <2>5. QED
    BY <1>4, <1>6, <2>1, <2>4
<1>7. QED
  BY <1>5, <1>6 DEF HoldsCommitted

\* A record that does not touch the page leaves its image good.
LEMMA GoodPast ==
    ASSUME NEW H, NEW m \in Nat, NEW p, NEW x \in PageImage, NEW c \in 1..m,
           Good(H, m, p, x, c - 1), ~Touches(H, c, p)
    PROVE  Good(H, m, p, x, c)
<1>1. SUFFICES ASSUME Within(H, m, p, x, c - 1) PROVE Within(H, m, p, x, c)
  BY DEF Good
<1>2. x.lsn \in 0..m
  BY <1>1 DEF Within
<1>3. Quiet(H, p, x.lsn, c)
  <2>1. \A j \in (x.lsn + 1)..c : j = c \/ j \in (x.lsn + 1)..(c - 1)
    BY <1>2
  <2>2. QED
    BY <1>1, <2>1 DEF Within, Quiet
<1>4. x.lsn > 0 => x.lsn # c
  BY <1>1 DEF Within
<1>5. x.lsn > 0 /\ x.lsn <= c => x.lsn <= c - 1
  BY <1>2, <1>4
<1>6. QED
  BY <1>1, <1>3, <1>5 DEF Within

-----------------------------------------------------------------------------
(***************************************************************************)
(* Redo and undo keep an image good.                                       *)
(***************************************************************************)

\* A change ends nothing.
LEMMA ChangeNoEnd ==
    ASSUME NEW r, IsChange(r)
    PROVE  ~IsEnd(r) /\ r.kind # "TXN_ABORT" /\ r.kind # "TXN_COMMIT"
  BY DEF IsChange, ChangeKinds, IsEnd

\* Redoing a change.
LEMMA GoodRedo ==
    ASSUME NEW H \in Seq(Record), LogSound(H), NEW m \in Nat, m <= Len(H), NEW p,
           NEW x \in PageImage, NEW c \in 1..m, Good(H, m, p, x, c - 1), ChangeAt(H, c, p)
    PROVE  Good(H, m, p, AfterRedo(x, H[c]), c)
<1>0. Len(H) \in Nat /\ x.lsn \in Int /\ c \in 1..Len(H)
  BY LenProperties, LimitAssumption DEF PageImage
<1>1. H[c].lsn = c /\ H[c].kind # "TXN_ABORT"
  BY <1>0, ChangeNoEnd DEF LogSound, Numbered, ChangeAt
<1>2. CASE Beyond(H, m, p, x)
  <2>1. ~(x.lsn < c)
    BY <1>0, <1>2 DEF Beyond
  <2>2. AfterRedo(x, H[c]) = x
    BY <1>1, <2>1 DEF AfterRedo
  <2>3. QED
    BY <1>2, <2>2 DEF Good
<1>3. CASE Within(H, m, p, x, c - 1) /\ x.lsn < c
  <2> DEFINE y == AfterRedo(x, H[c])
  <2>1. y.lsn = c /\ y.val = H[c].new
    BY <1>1, <1>3 DEF AfterRedo
  <2> HIDE DEF y
  <2>2. Quiet(H, p, c, c)
    BY DEF Quiet
  <2>3. Touches(H, c, p)
    BY DEF Touches
  <2>4. Within(H, m, p, y, c)
    BY <1>1, <1>3, <2>1, <2>2, <2>3 DEF Within
  <2>5. QED
    BY <2>4 DEF Good, y
<1>4. CASE Within(H, m, p, x, c - 1) /\ ~(x.lsn < c)
  <2>1. AfterRedo(x, H[c]) = x
    BY <1>1, <1>4 DEF AfterRedo
  <2>2. Quiet(H, p, x.lsn, c)
    BY <1>0, <1>4 DEF Quiet
  <2>3. x.lsn <= c => x.lsn = c
    BY <1>0, <1>4
  <2>4. Within(H, m, p, x, c)
    BY <1>1, <1>4, <2>2, <2>3 DEF Within
  <2>5. QED
    BY <2>1, <2>4 DEF Good
<1>5. QED
  BY <1>2, <1>3, <1>4 DEF Good

\* Undoing an abort gives its number to a page before its content is right.
LEMMA GoodUndo ==
    ASSUME NEW H \in Seq(Record), LogSound(H), NEW b \in Nat, NEW m \in Nat, m <= Len(H), NEW p,
           NotTorn(H, b, m, p), NEW x, NEW k, Good(H, m, p, x, k),
           NEW n \in (b + 1)..m, H[n].kind = "TXN_ABORT", NEW c \in (b + 1)..n,
           ChangeAt(H, c, p), H[c].txn = H[n].txn, NEW y, y.lsn = n
    PROVE  /\ Good(H, m, p, y, n - 1)
           /\ IsFirst(H, c) /\ y.val = H[c].old => Good(H, m, p, y, n)
<1>0. Len(H) \in Nat /\ n \in 1..m /\ n \in 1..Len(H) /\ c \in 1..Len(H) /\ c \in (b + 1)..m
  BY LenProperties
<1>1. c \in 1..(n - 1)
  <2>1. c # n
    BY ChangeNoEnd DEF ChangeAt
  <2>2. QED
    BY <2>1
<1>2. Touches(H, n, p) /\ ~ChangeAt(H, n, p)
  BY <1>1, ChangeNoEnd DEF Touches, ChangeAt
<1>3. \A j \in (m + 1)..Len(H) : ~Winner(H, j, p, Len(H))
  <2>1. CASE Behind(H, p, m)
    <3>1. SUFFICES ASSUME CommittedIn(H, H[c].txn, m) PROVE FALSE
      BY <1>0, <2>1 DEF NotTorn
    <3>2. PICK e \in 1..m : H[e].kind = "TXN_COMMIT" /\ H[e].txn = H[c].txn
      BY <3>1 DEF CommittedIn
    <3>3. e \in 1..Len(H) /\ EndAt(H, e, H[c].txn) /\ EndAt(H, n, H[c].txn)
      BY <1>0, <3>2 DEF EndAt, IsEnd
    <3>4. e = n
      BY <1>0, <3>3, EndsOnce DEF LogSound
    <3>5. QED
      BY <3>2, <3>4
  <2>2. CASE ~Behind(H, p, m)
    BY <2>2 DEF Good, Beyond, Within
  <2>3. QED
    BY <2>1, <2>2
<1>4. Quiet(H, p, n, n - 1) /\ Quiet(H, p, n, n)
  BY DEF Quiet
<1>5. Within(H, m, p, y, n - 1)
  BY <1>0, <1>2, <1>3, <1>4 DEF Within, Winner
<1>6. ASSUME IsFirst(H, c), y.val = H[c].old PROVE Within(H, m, p, y, n)
  <2>1. Restores(H, n, p, y.val)
    BY <1>1, <1>6 DEF Restores
  <2>2. QED
    BY <1>0, <1>2, <1>3, <1>4, <2>1 DEF Within, Winner
<1>7. QED
  BY <1>5, <1>6 DEF Good

\* Undoing a transaction that did not end changes the content of a page that no
\* transaction that committed has changed since.
LEMMA GoodCut ==
    ASSUME NEW H \in Seq(Record), LogSound(H), NEW b \in Nat, NEW m \in Nat, m <= Len(H), NEW p,
           NotTorn(H, b, m, p), NEW x \in PageImage, Good(H, m, p, x, m), NEW c \in (b + 1)..m,
           ChangeAt(H, c, p), ~EndedIn(H, H[c].txn, m), NEW y, y.lsn = x.lsn
    PROVE  Good(H, m, p, y, m)
<1> DEFINE i == x.lsn
<1>0. Len(H) \in Nat /\ c \in 1..m /\ c \in 1..Len(H)
  BY LenProperties
<1>1. Within(H, m, p, x, m)
  BY DEF NotTorn, Good, Beyond
<1>2. i \in 0..m
  BY <1>1 DEF Within
<1>3. c <= i
  <2>1. Touches(H, c, p)
    BY DEF Touches
  <2>2. c \notin (i + 1)..m
    BY <1>1, <2>1 DEF Within, Quiet
  <2>3. QED
    BY <1>0, <1>2, <2>2
<1>4. i \in 1..Len(H) /\ i \in 1..m
  BY <1>0, <1>2, <1>3
<1>5. ~EndedIn(H, H[c].txn, Len(H))
  BY DEF NotTorn
<1>6. ~Winner(H, i, p, Len(H))
  <2>1. SUFFICES ASSUME Winner(H, i, p, Len(H)) PROVE FALSE
    OBVIOUS
  <2>2. H[i].txn = H[c].txn
    <3>1. CASE i = c
      BY <3>1
    <3>2. CASE i # c
      <4>1. c < i /\ ChangeAt(H, i, p) /\ m \in Int /\ i <= m + 1
        BY <1>0, <1>3, <1>4, <2>1, <3>2 DEF Winner
      <4>2. QED
        BY <1>0, <1>4, <4>1, OneOwner DEF LogSound
    <3>3. QED
      BY <3>1, <3>2
  <2>3. Len(H) \in Int /\ CommittedIn(H, H[c].txn, Len(H))
    BY <1>0, <2>1, <2>2 DEF Winner
  <2>4. QED
    BY <1>5, <2>3, CommittedEnds
<1>7. H[i].kind # "TXN_ABORT"
  <2>1. SUFFICES ASSUME H[i].kind = "TXN_ABORT" PROVE FALSE
    OBVIOUS
  <2>2. PICK j \in 1..(i - 1) : ChangeAt(H, j, p) /\ H[j].txn = H[i].txn
    <3>1. ~ChangeAt(H, i, p)
      BY <2>1, ChangeNoEnd DEF ChangeAt
    <3>2. Touches(H, i, p)
      BY <1>1, <1>4 DEF Within
    <3>3. QED
      BY <3>1, <3>2 DEF Touches
  <2>3. EndAt(H, i, H[j].txn) /\ EndedIn(H, H[j].txn, m)
    BY <1>4, <2>1, <2>2 DEF EndAt, IsEnd, EndedIn
  <2>4. H[j].txn # H[c].txn /\ j # c /\ j \in 1..Len(H)
    BY <1>4, <2>3
  <2>5. CASE c < j
    <3>1. m \in Int /\ j <= m + 1
      BY <1>4
    <3>2. H[j].txn = H[c].txn
      BY <1>0, <2>2, <2>4, <2>5, <3>1, OneOwner DEF LogSound
    <3>3. QED
      BY <2>4, <3>2
  <2>6. CASE j < c
    <3>1. PICK e \in (j + 1)..(c - 1) : EndAt(H, e, H[j].txn)
      BY <1>0, <2>2, <2>4, <2>6 DEF LogSound, Exclusive, ChangeAt
    <3>2. e \in 1..Len(H)
      BY <1>0
    <3>3. e = i
      BY <1>4, <2>3, <3>1, <3>2, EndsOnce DEF LogSound
    <3>4. QED
      BY <1>3, <1>4, <3>3
  <2>7. QED
    BY <1>0, <2>4, <2>5, <2>6
<1>8. Within(H, m, p, y, m)
  BY <1>1, <1>4, <1>6, <1>7 DEF Within
<1>9. QED
  BY <1>8 DEF Good

-----------------------------------------------------------------------------
(***************************************************************************)
(* The steps of Recover, and those of the pool and another crash during it. *)
(***************************************************************************)

\* A member of Unended is a change in the log.
LEMMA UnendedIs ==
    ASSUME NEW H, NEW b, NEW n, NEW r
    PROVE  r \in Unended(H, b, n)
             <=> \E c \in (b + 1)..n : r = H[c] /\ IsChange(H[c]) /\ ~EndedIn(H, H[c].txn, n)
  BY DEF Unended

\* What the record at the scan does to the changes not yet ended.
LEMMA UnendedNext ==
    ASSUME NEW H \in Seq(Record), LogSound(H), NEW b \in Nat, NEW c \in (b + 1)..Len(H)
    PROVE  Unended(H, b, c) = {r \in Unended(H, b, c - 1) : ~(IsEnd(H[c]) /\ r.txn = H[c].txn)}
                                  \cup (IF IsChange(H[c]) THEN {H[c]} ELSE {})
<1>0. Len(H) \in Nat /\ c \in 1..Len(H) /\ c - 1 \in Int /\ c \in Int /\ c - 1 <= c
  BY LenProperties
<1>1. \A t : EndedIn(H, t, c) <=> EndedIn(H, t, c - 1) \/ EndAt(H, c, t)
  <2>1. 1..c = (1..(c - 1)) \cup {c}
    BY <1>0
  <2>2. QED
    BY <2>1 DEF EndedIn
<1>2. ASSUME NEW r \in Unended(H, b, c)
      PROVE  \/ r \in Unended(H, b, c - 1) /\ ~(IsEnd(H[c]) /\ r.txn = H[c].txn)
             \/ IsChange(H[c]) /\ r = H[c]
  <2>1. PICK d \in (b + 1)..c : r = H[d] /\ IsChange(H[d]) /\ ~EndedIn(H, H[d].txn, c)
    BY <1>2, UnendedIs
  <2>2. CASE d = c
    BY <2>1, <2>2
  <2>3. CASE d # c
    <3>1. d \in (b + 1)..(c - 1) /\ ~EndedIn(H, H[d].txn, c - 1) /\ ~EndAt(H, c, r.txn)
      BY <1>0, <1>1, <2>1, <2>3
    <3>2. QED
      BY <2>1, <3>1, UnendedIs DEF EndAt
  <2>4. QED
    BY <2>2, <2>3
<1>3. ASSUME NEW r \in Unended(H, b, c - 1), ~(IsEnd(H[c]) /\ r.txn = H[c].txn)
      PROVE  r \in Unended(H, b, c)
  <2>1. PICK d \in (b + 1)..(c - 1) : r = H[d] /\ IsChange(H[d]) /\ ~EndedIn(H, H[d].txn, c - 1)
    BY UnendedIs
  <2>2. d \in (b + 1)..c /\ ~EndedIn(H, H[d].txn, c)
    BY <1>0, <1>1, <1>3, <2>1 DEF EndAt
  <2>3. QED
    BY <2>1, <2>2, UnendedIs
<1>4. ASSUME IsChange(H[c]) PROVE H[c] \in Unended(H, b, c)
  <2>1. ~EndedIn(H, H[c].txn, c)
    <3>1. SUFFICES ASSUME NEW e \in 1..c, EndAt(H, e, H[c].txn) PROVE FALSE
      BY DEF EndedIn
    <3>2. e # c
      BY <1>4, <3>1, ChangeNoEnd DEF EndAt
    <3>3. e \in 1..Len(H) /\ e < c
      BY <1>0, <3>2
    <3>4. QED
      BY <1>0, <3>1, <3>3 DEF LogSound, EndsLast, EndAt
  <2>2. c \in (b + 1)..c
    OBVIOUS
  <2>3. QED
    BY <1>4, <2>1, <2>2, UnendedIs
<1>5. QED
  BY <1>2, <1>3, <1>4

\* The record at the scan is the next one of the log.
LEMMA AtIs ==
    ASSUME TypeInv, NEW b \in Nat, NEW m \in Nat, LogLeft(b, m), NEW r, At(r)
    PROVE  /\ phase = "redo" /\ todo = {} /\ b + cursor \in (b + 1)..m
           /\ b + cursor \in 1..Len(history) /\ r = history[b + cursor]
           /\ Seen(b) = b + cursor - 1 /\ cursor \in Nat /\ ~\E p : Touched(p)
<1>1. /\ cursor \in 1..Len(file) /\ r = file[cursor] /\ phase = "redo" /\ todo = {}
  BY LenProperties DEF At, TypeInv, LogTypes, ScanTypes
<1>2. Len(file) \in Nat /\ Len(history) \in Nat /\ b + Len(file) = m /\ m <= Len(history)
  BY LenProperties DEF TypeInv, LogTypes, LogLeft
<1>3. r = history[b + cursor]
  BY <1>1 DEF LogLeft, Follows
<1>4. b + cursor \in (b + 1)..m /\ b + cursor \in 1..Len(history) /\ cursor \in Nat
  BY <1>1, <1>2
<1>5. QED
  BY <1>1, <1>3, <1>4 DEF Seen, Touched

\* Recover changes neither the file nor the pages on disk.
LEMMA LeftKept ==
    ASSUME NEW b, NEW m, LogLeft(b, m), PagesLeft(b, m),
           UNCHANGED <<file, history, page, spoilt>>
    PROVE  LogLeft(b, m)' /\ PagesLeft(b, m)'
<1>1. LogLeft(b, m)'
  BY DEF LogLeft
<1>2. PagesLeft(b, m)'
  BY DEF PagesLeft
<1>3. QED
  BY <1>1, <1>2

\* A record that is passed over, or redone.
LEMMA RedoPast ==
    ASSUME TypeInv, NEW b \in Nat, NEW m \in Nat, CrashedState(b, m), NEW r, At(r),
           r.kind # "TXN_ABORT", cursor' = cursor + 1, Recovering, UNCHANGED <<phase, todo, todoLsn>>,
           live' = {q \in live : ~(IsEnd(r) /\ q.txn = r.txn)} \cup (IF IsChange(r) THEN {r} ELSE {}),
           IF IsChange(r) THEN mem' = [mem EXCEPT ![r.page] = AfterRedo(@, r)] ELSE mem' = mem
    PROVE  CrashedState(b, m)'
<1> DEFINE c == b + cursor
<1>1. LogLeft(b, m) /\ PagesLeft(b, m) /\ RedoState(b, m)
  BY DEF CrashedState, At
<1>2. /\ phase = "redo" /\ todo = {} /\ c \in (b + 1)..m /\ c \in 1..Len(history)
      /\ r = history[c] /\ Seen(b) = c - 1 /\ cursor \in Nat /\ ~\E p : Touched(p)
  BY <1>1, AtIs
<1>3. Seen(b)' = c
  BY <1>2 DEF Seen
<1>4. UNCHANGED <<file, history, page, spoilt>>
  BY DEF Recovering, walVars
<1>5. LogLeft(b, m)' /\ PagesLeft(b, m)'
  BY <1>1, <1>4, LeftKept
<1>6. history \in Seq(Record) /\ Len(history) \in Nat /\ LogSound(history) /\ m <= Len(history)
  BY <1>1, LenProperties DEF TypeInv, LogTypes, LogLeft
<1> HIDE DEF c
<1>7. live' = Unended(history, b, c)
  <2>1. live = Unended(history, b, c - 1)
    BY <1>1, <1>2 DEF RedoState
  <2>2. c \in (b + 1)..Len(history)
    BY <1>2, <1>6
  <2>3. Unended(history, b, c)
          = {q \in Unended(history, b, c - 1) : ~(IsEnd(history[c]) /\ q.txn = history[c].txn)}
                \cup (IF IsChange(history[c]) THEN {history[c]} ELSE {})
    BY <1>6, <2>2, UnendedNext
  <2>4. QED
    BY <1>2, <2>1, <2>3
<1>8. ASSUME NEW p \in PageId \ spoilt PROVE Good(history, m, p, mem'[p], c)
  <2>1. Good(history, m, p, mem[p], c - 1) /\ mem[p] \in PageImage /\ c \in 1..m
    BY <1>1, <1>2 DEF RedoState, TypeInv, PageTypes
  <2>2. CASE ChangeAt(history, c, p)
    <3>1. mem'[p] = AfterRedo(mem[p], history[c])
      BY <1>2, <2>2 DEF TypeInv, PageTypes, ChangeAt
    <3>2. QED
      BY <1>6, <2>1, <2>2, <3>1, GoodRedo
  <2>3. CASE ~ChangeAt(history, c, p)
    <3>1. mem'[p] = mem[p]
      BY <1>2, <2>3 DEF TypeInv, PageTypes, ChangeAt
    <3>2. ~Touches(history, c, p)
      BY <1>2, <2>3 DEF Touches
    <3>3. QED
      BY <2>1, <3>1, <3>2, GoodPast
  <2>4. QED
    BY <2>2, <2>3
<1>9. RedoState(b, m)'
  <2>1. todo' = {} /\ ~\E p : Touched(p)'
    BY <1>2 DEF Touched
  <2>2. QED
    BY <1>3, <1>4, <1>7, <1>8, <2>1 DEF RedoState
<1>10. QED
  BY <1>2, <1>5, <1>9 DEF CrashedState

\* The scan meets an abort.
LEMMA RedoAbortRecoverable ==
    ASSUME TypeInv, NEW b \in Nat, NEW m \in Nat, CrashedState(b, m), RedoAbort
    PROVE  CrashedState(b, m)'
<1>1. PICK r \in ToSet(file) : /\ At(r) /\ r.kind = "TXN_ABORT"
                               /\ todo' = live \ Without(r.txn) /\ todoLsn' = r.lsn
                               /\ live' = Without(r.txn) /\ cursor' = cursor + 1
                               /\ Recovering /\ UNCHANGED <<mem, phase>>
  BY DEF RedoAbort
<1> DEFINE c == b + cursor
<1>2. LogLeft(b, m) /\ PagesLeft(b, m) /\ RedoState(b, m)
  BY <1>1 DEF CrashedState, At
<1>3. /\ phase = "redo" /\ todo = {} /\ c \in (b + 1)..m /\ c \in 1..Len(history)
      /\ r = history[c] /\ Seen(b) = c - 1 /\ cursor \in Nat /\ ~\E p : Touched(p)
  BY <1>1, <1>2, AtIs
<1>4. Seen(b)' = c
  BY <1>1, <1>3 DEF Seen
<1>5. UNCHANGED <<file, history, page, spoilt>>
  BY <1>1 DEF Recovering, walVars
<1>6. LogLeft(b, m)' /\ PagesLeft(b, m)'
  BY <1>2, <1>5, LeftKept
<1>7. history \in Seq(Record) /\ Len(history) \in Nat /\ LogSound(history) /\ m <= Len(history)
  BY <1>2, LenProperties DEF TypeInv, LogTypes, LogLeft
<1> HIDE DEF c
<1>8. live = Unended(history, b, c - 1) /\ r.lsn = c /\ IsEnd(r) /\ ~IsChange(r)
  BY <1>1, <1>2, <1>3, <1>7, ChangeNoEnd DEF RedoState, LogSound, Numbered, IsEnd
<1>9. live' = Unended(history, b, c)
  <2>1. c \in (b + 1)..Len(history)
    BY <1>3, <1>7
  <2>2. Unended(history, b, c) = {q \in live : q.txn # r.txn}
    BY <1>3, <1>7, <1>8, <2>1, UnendedNext
  <2>3. QED
    BY <1>1, <2>2 DEF Without
<1>10. \A q : q \in todo' <=> q \in live /\ q.txn = r.txn
  BY <1>1 DEF Without
<1>11. ASSUME NEW q \in todo'
       PROVE  q.txn = r.txn /\ \E d \in (b + 1)..c : IsChange(q) /\ q = history[d]
  <2>1. PICK d \in (b + 1)..(c - 1) : q = history[d] /\ IsChange(history[d])
    BY <1>8, <1>10, UnendedIs
  <2>2. d \in (b + 1)..c
    BY <1>3
  <2>3. QED
    BY <1>10, <2>1, <2>2
\* The transaction has not ended before, so all of its changes are there.
<1>12. ASSUME NEW d \in (b + 1)..(c - 1), IsChange(history[d]), history[d].txn = r.txn
       PROVE  history[d] \in todo'
  <2>1. ~EndedIn(history, history[d].txn, c - 1)
    <3>1. SUFFICES ASSUME NEW e \in 1..(c - 1), EndAt(history, e, r.txn) PROVE FALSE
      BY <1>12 DEF EndedIn
    <3>2. e \in 1..Len(history) /\ e < c
      BY <1>3, <1>7
    <3>3. QED
      BY <1>3, <1>7, <3>1, <3>2 DEF LogSound, EndsLast, EndAt
  <2>2. history[d] \in live
    BY <1>8, <1>12, <2>1, UnendedIs
  <2>3. QED
    BY <1>10, <1>12, <2>2
<1>13. DownTo(history, b, c, todo')
  <2>1. SUFFICES ASSUME NEW q \in todo', NEW d \in (b + 1)..c, IsChange(history[d]),
                        history[d].txn = q.txn
                 PROVE  history[d] \in todo'
    BY DEF DownTo
  <2>2. d # c
    BY <1>3, <1>8, <2>1
  <2>3. d \in (b + 1)..(c - 1)
    BY <1>3, <2>2
  <2>4. QED
    BY <1>11, <1>12, <2>1, <2>3
<1>14. ASSUME NEW p \in PageId \ spoilt, Touched(p)' PROVE Good(history, m, p, mem'[p], c - 1)
  BY <1>1, <1>2, <1>3, <1>14 DEF RedoState
<1>15. ASSUME NEW p \in PageId \ spoilt, ~Touched(p)' PROVE Good(history, m, p, mem'[p], c)
  <2>1. Good(history, m, p, mem[p], c - 1) /\ mem[p] \in PageImage /\ c \in 1..m
    BY <1>2, <1>3 DEF RedoState, TypeInv, PageTypes
  <2>2. ~Touches(history, c, p)
    <3>1. SUFFICES ASSUME NEW j \in 1..(c - 1), ChangeAt(history, j, p), history[j].txn = r.txn
                   PROVE  FALSE
      BY <1>3, <1>8 DEF Touches, ChangeAt
    <3>2. j > b
      <4>1. c \in (b + 1)..Len(history)
        BY <1>3, <1>7
      <4>2. j \notin 1..b
        BY <1>1, <1>2, <1>3, <1>15, <3>1, <4>1 DEF LogLeft, Dropped
      <4>3. QED
        BY <4>2
    <3>3. j \in (b + 1)..(c - 1)
      BY <3>2
    <3>4. history[j] \in todo'
      BY <1>12, <3>1, <3>3 DEF ChangeAt
    <3>5. QED
      BY <1>15, <3>1, <3>4 DEF Touched, ChangeAt
  <2>3. QED
    BY <1>1, <2>1, <2>2, GoodPast
<1>16. RedoState(b, m)'
  <2>1. c > b /\ todoLsn' = c /\ history'[c].kind = "TXN_ABORT"
    BY <1>1, <1>3, <1>5, <1>8
  <2>2. \A p \in (PageId \ spoilt)' :
           Good(history', m, p, mem'[p], IF Touched(p)' THEN c - 1 ELSE c)
    BY <1>5, <1>14, <1>15
  <2>3. \A q \in todo' : /\ q.txn = history'[c].txn
                         /\ \E d \in (b + 1)..c : IsChange(q) /\ q = history'[d]
    BY <1>3, <1>5, <1>11
  <2>4. live' = Unended(history', b, c) /\ DownTo(history', b, c, todo')
    BY <1>5, <1>9, <1>13
  <2>5. QED
    BY <1>4, <2>1, <2>2, <2>3, <2>4 DEF RedoState
<1>17. QED
  BY <1>1, <1>3, <1>6, <1>16 DEF CrashedState

\* No change that is undone is an INSERT.
LEMMA NoInsertUndone ==
    ASSUME NEW H \in Seq(Record), EndsLast(H), NEW b \in Nat, NEW m \in Nat, m <= Len(H),
           NEW p, InsertsCommitted(H, b, m, p), NEW c \in (b + 1)..m, ChangeAt(H, c, p),
           \/ ~EndedIn(H, H[c].txn, m)
           \/ \E a \in 1..Len(H) : H[a].kind = "TXN_ABORT" /\ H[a].txn = H[c].txn
    PROVE  H[c].kind # "INSERT"
<1>0. Len(H) \in Nat
  BY LenProperties
<1>1. SUFFICES ASSUME CommittedIn(H, H[c].txn, m) PROVE FALSE
  BY DEF InsertsCommitted
<1>2. PICK e \in 1..m : H[e].kind = "TXN_COMMIT" /\ H[e].txn = H[c].txn
  BY <1>1 DEF CommittedIn
<1>3. e \in 1..Len(H) /\ EndAt(H, e, H[c].txn)
  BY <1>0, <1>2 DEF EndAt, IsEnd
<1>4. EndedIn(H, H[c].txn, m)
  BY <1>2, <1>3 DEF EndedIn
<1>5. PICK a \in 1..Len(H) : H[a].kind = "TXN_ABORT" /\ H[a].txn = H[c].txn
  BY <1>4
<1>6. EndAt(H, a, H[c].txn)
  BY <1>5 DEF EndAt, IsEnd
<1>7. a = e
  BY <1>3, <1>6, EndsOnce
<1>8. QED
  BY <1>2, <1>5, <1>7

\* What UndoOne does, in either phase.
LEMMA UndoneIs ==
    ASSUME TypeInv, LogSound(history), NEW b \in Nat, NEW n \in Int, n <= Len(history), DownTo(history, b, n, todo), NEW r \in todo,
           \A q \in todo \ {r} : UndoneBefore(r, q),
           mem' = [mem EXCEPT ![r.page] = AfterUndo(@, r)], todo' = todo \ {r}, Recovering
    PROVE  /\ UNCHANGED <<file, history, page, spoilt>>
           /\ \A p \in PageId : p # r.page => mem'[p] = mem[p]
           /\ r.page \in PageId => mem'[r.page] = AfterUndo(mem[r.page], r)
           /\ DownTo(history, b, n, todo')
<1>1. UNCHANGED <<file, history, page, spoilt>>
  BY DEF Recovering, walVars
<1>2. /\ \A p \in PageId : p # r.page => mem'[p] = mem[p]
      /\ r.page \in PageId => mem'[r.page] = AfterUndo(mem[r.page], r)
  BY DEF TypeInv, PageTypes
<1>3. DownTo(history, b, n, todo')
  <2>1. SUFFICES ASSUME NEW q \in todo', NEW c \in (b + 1)..n, IsChange(history[c]),
                        history[c].txn = q.txn, c < q.lsn
                 PROVE  history[c] \in todo'
    BY DEF DownTo
  <2>2. history[c] \in todo
    BY <2>1 DEF DownTo
  <2>3. c \in 1..Len(history) /\ history[c].lsn = c
    <3>1. Len(history) \in Nat
      BY LenProperties DEF TypeInv, LogTypes
    <3>2. c \in 1..Len(history)
      BY <3>1
    <3>3. QED
      BY <3>2 DEF LogSound, Numbered
  <2>4. history[c] # r
    <3>1. SUFFICES ASSUME history[c] = r PROVE FALSE
      OBVIOUS
    <3>2. UndoneBefore(r, q) /\ r.txn \in Nat /\ q.txn = r.txn
      <4>1. r.txn \in Txn
        BY DEF TypeInv, ScanTypes, Record
      <4>2. q \in todo \ {r}
        BY <2>1
      <4>3. QED
        BY <2>1, <3>1, <4>1, <4>2, TxnAssumption
    <3>3. r.lsn > q.lsn /\ r.lsn = c /\ q.lsn \in Int
      BY <2>1, <2>3, <3>1, <3>2 DEF UndoneBefore, TypeInv, ScanTypes, Record
    <3>4. QED
      BY <2>1, <3>3
  <2>5. QED
    BY <2>2, <2>4
<1>4. QED
  BY <1>1, <1>2, <1>3

\* A change of an aborted transaction is undone at its abort.
LEMMA UndoOneRedo ==
    ASSUME TypeInv, NEW b \in Nat, NEW m \in Nat, CrashedState(b, m), UndoOne, phase = "redo"
    PROVE  CrashedState(b, m)'
<1>1. PICK r \in todo : /\ \A q \in todo \ {r} : UndoneBefore(r, q)
                        /\ mem' = [mem EXCEPT ![r.page] = AfterUndo(@, r)]
                        /\ todo' = todo \ {r}
                        /\ Recovering /\ UNCHANGED <<phase, cursor, live, todoLsn>>
  BY DEF UndoOne
<1> DEFINE n == Seen(b)
<1>2. LogLeft(b, m) /\ PagesLeft(b, m) /\ RedoState(b, m)
  BY DEF CrashedState
<1>3. history \in Seq(Record) /\ Len(history) \in Nat /\ LogSound(history) /\ m <= Len(history)
  BY <1>2, LenProperties DEF TypeInv, LogTypes, LogLeft
<1>4. /\ n > b /\ todoLsn = n /\ history[n].kind = "TXN_ABORT"
      /\ \A q \in todo : /\ q.txn = history[n].txn
                         /\ \E c \in (b + 1)..n : IsChange(q) /\ q = history[c]
      /\ DownTo(history, b, n, todo)
  BY <1>1, <1>2 DEF RedoState
<1>5. n \in (b + 1)..m /\ n \in 1..Len(history)
  <2>1. Len(file) \in Nat /\ cursor \in 1..Len(file) + 1 /\ b + Len(file) = m
    BY <1>2, LenProperties DEF TypeInv, LogTypes, ScanTypes, LogLeft
  <2>2. n = b + cursor - 1
    BY DEF Seen
  <2>3. QED
    BY <1>3, <1>4, <2>1, <2>2
<1>6. PICK c \in (b + 1)..n : IsChange(r) /\ r = history[c]
  BY <1>4
<1>7. c \in 1..Len(history) /\ r.lsn = c /\ r.txn = history[n].txn
  <2>1. c \in 1..Len(history)
    BY <1>5
  <2>2. QED
    BY <1>3, <1>4, <1>6, <2>1 DEF LogSound, Numbered
<1>8. Seen(b)' = n
  BY <1>1 DEF Seen
<1> HIDE DEF n
<1>9. /\ UNCHANGED <<file, history, page, spoilt>>
      /\ \A p \in PageId : p # r.page => mem'[p] = mem[p]
      /\ r.page \in PageId => mem'[r.page] = AfterUndo(mem[r.page], r)
      /\ DownTo(history, b, n, todo')
  <2>1. n \in Int /\ n <= Len(history)
    BY <1>5
  <2>2. QED
    BY <1>1, <1>3, <1>4, <2>1, UndoneIs
<1>10. LogLeft(b, m)' /\ PagesLeft(b, m)'
  BY <1>2, <1>9, LeftKept
<1>11. ASSUME NEW p \in PageId \ spoilt
       PROVE  Good(history, m, p, mem'[p], IF Touched(p)' THEN n - 1 ELSE n)
  <2>1. Good(history, m, p, mem[p], IF Touched(p) THEN n - 1 ELSE n)
    BY <1>2, <1>11 DEF RedoState, n
  <2>2. CASE p # r.page
    <3>1. Touched(p)' <=> Touched(p)
      BY <1>1, <2>2 DEF Touched
    <3>2. QED
      BY <1>9, <2>1, <2>2, <3>1
  <2>3. CASE p = r.page
    <3>1. /\ Dropped(history, b, p) /\ NotTorn(history, b, m, p)
          /\ InsertsCommitted(history, b, m, p) /\ ChangeAt(history, c, p)
          /\ history[c].txn = history[n].txn
      BY <1>2, <1>6, <1>7, <2>3 DEF LogLeft, ChangeAt
    <3>2. mem'[p].lsn = n /\ mem'[p].val = history[c].old
      <4>1. todoLsn # 0
        BY <1>4, <1>5
      <4>2. c \in (b + 1)..m
        BY <1>5
      <4>3. r.kind # "INSERT"
        BY <1>3, <1>4, <1>5, <1>6, <3>1, <4>2, NoInsertUndone DEF LogSound
      <4>4. QED
        BY <1>4, <1>6, <1>9, <2>3, <4>1, <4>3 DEF AfterUndo
    <3>3. /\ Good(history, m, p, mem'[p], n - 1)
          /\ IsFirst(history, c) => Good(history, m, p, mem'[p], n)
      <4>1. Good(history, m, p, mem[p], n - 1)
        BY <1>1, <2>1, <2>3 DEF Touched
      <4>2. history[n].kind = "TXN_ABORT" /\ c \in (b + 1)..n
        BY <1>4
      <4> HIDE DEF Seen
      <4>3. /\ Good(history, m, p, mem'[p], n - 1)
            /\ IsFirst(history, c) /\ mem'[p].val = history[c].old
                   => Good(history, m, p, mem'[p], n)
        BY <1>3, <1>5, <3>1, <3>2, <4>1, <4>2, GoodUndo
      <4>4. QED
        BY <3>2, <4>3
    <3>4. ASSUME ~Touched(p)' PROVE IsFirst(history, c)
      <4>1. SUFFICES ASSUME NEW i \in 1..(c - 1), IsChange(history[i]), history[i].page = p,
                            history[i].txn = r.txn
                     PROVE  FALSE
        BY <1>6, <2>3 DEF IsFirst
      <4>2. i \notin 1..b
        <5>1. n \in (b + 1)..Len(history)
          BY <1>3, <1>5
        <5>2. QED
          BY <1>4, <1>7, <3>1, <4>1, <5>1 DEF Dropped, ChangeAt
      <4>3. i \in (b + 1)..n /\ i < r.lsn
        BY <1>5, <1>7, <4>2
      <4>4. history[i] \in todo
        BY <1>4, <1>7, <4>1, <4>3 DEF DownTo
      <4>5. history[i].lsn = i /\ i # c
        <5>1. i \in 1..Len(history)
          BY <1>5, <4>3
        <5>2. QED
          BY <1>3, <4>1, <5>1 DEF LogSound, Numbered
      <4>6. history[i] \in todo'
        BY <1>1, <1>7, <4>4, <4>5
      <4>7. QED
        BY <3>4, <4>1, <4>6 DEF Touched
    <3>5. QED
      BY <3>3, <3>4
  <2>4. QED
    BY <2>2, <2>3
<1>12. RedoState(b, m)'
  <2>1. live' = Unended(history', b, n)
    BY <1>1, <1>2, <1>9 DEF RedoState, n
  <2>2. /\ todoLsn' = n /\ history'[n].kind = "TXN_ABORT" /\ DownTo(history', b, n, todo')
        /\ \A q \in todo' : /\ q.txn = history'[n].txn
                            /\ \E d \in (b + 1)..n : IsChange(q) /\ q = history'[d]
    BY <1>1, <1>4, <1>9
  <2>3. QED
    BY <1>4, <1>8, <1>9, <1>11, <2>1, <2>2 DEF RedoState
<1>13. phase' = "redo"
  BY <1>1
<1>14. QED
  BY <1>10, <1>12, <1>13 DEF CrashedState

\* A change of a transaction that the crash cut off is undone at the end.
LEMMA UndoOneCut ==
    ASSUME TypeInv, NEW b \in Nat, NEW m \in Nat, CrashedState(b, m), UndoOne, phase # "redo"
    PROVE  CrashedState(b, m)'
<1>1. PICK r \in todo : /\ \A q \in todo \ {r} : UndoneBefore(r, q)
                        /\ mem' = [mem EXCEPT ![r.page] = AfterUndo(@, r)]
                        /\ todo' = todo \ {r}
                        /\ Recovering /\ UNCHANGED <<phase, cursor, live, todoLsn>>
  BY DEF UndoOne
<1>2. phase \in {"undo", "recovered"}
  BY <1>1 DEF TypeInv, ScanTypes, CallTypes
<1>3. LogLeft(b, m) /\ PagesLeft(b, m) /\ UndoState(b, m)
  BY <1>2 DEF CrashedState
<1>4. /\ history \in Seq(Record) /\ Len(history) \in Nat /\ LogSound(history) /\ m <= Len(history)
  BY <1>3, LenProperties DEF TypeInv, LogTypes, LogLeft
<1>5. PICK c \in (b + 1)..m : r = history[c] /\ IsChange(r) /\ ~EndedIn(history, r.txn, m)
  BY <1>1, <1>3, UnendedIs DEF UndoState
<1>6. c \in 1..Len(history) /\ r.lsn = c
  <2>1. c \in 1..Len(history)
    BY <1>4
  <2>2. QED
    BY <1>4, <1>5, <2>1 DEF LogSound, Numbered
<1>7. /\ UNCHANGED <<file, history, page, spoilt>>
      /\ \A p \in PageId : p # r.page => mem'[p] = mem[p]
      /\ r.page \in PageId => mem'[r.page] = AfterUndo(mem[r.page], r)
      /\ DownTo(history, b, m, todo')
  <2>1. m \in Int /\ m <= Len(history) /\ DownTo(history, b, m, todo)
    BY <1>3, <1>4 DEF UndoState
  <2>2. QED
    BY <1>1, <1>4, <2>1, UndoneIs
<1>8. LogLeft(b, m)' /\ PagesLeft(b, m)'
  BY <1>3, <1>7, LeftKept
<1>9. ASSUME NEW p \in PageId \ spoilt
      PROVE  /\ Good(history, m, p, mem'[p], m)
             /\ \A f \in (b + 1)..m :
                   ChangeAt(history, f, p) /\ IsFirst(history, f)
                   /\ ~EndedIn(history, history[f].txn, m) /\ history[f] \notin todo'
                       => mem'[p].val = history[f].old
  <2>1. /\ Good(history, m, p, mem[p], m)
        /\ \A f \in (b + 1)..m :
              ChangeAt(history, f, p) /\ IsFirst(history, f)
              /\ ~EndedIn(history, history[f].txn, m) /\ history[f] \notin todo
                  => mem[p].val = history[f].old
    BY <1>3, <1>9 DEF UndoState
  <2>2. CASE p # r.page
    <3>1. mem'[p] = mem[p]
      BY <1>7, <2>2
    <3>2. \A f : ChangeAt(history, f, p) => history[f] # r
      BY <2>2 DEF ChangeAt
    <3>3. QED
      BY <1>1, <2>1, <3>1, <3>2
  <2>3. CASE p = r.page
    <3>1. /\ ChangeAt(history, c, p) /\ NotTorn(history, b, m, p)
          /\ InsertsCommitted(history, b, m, p) /\ mem[p] \in PageImage
      BY <1>3, <1>5, <2>3 DEF ChangeAt, LogLeft, TypeInv, PageTypes
    <3>2. mem'[p].lsn = mem[p].lsn /\ mem'[p].val = r.old
      <4>1. r.kind # "INSERT"
        BY <1>4, <1>5, <3>1, NoInsertUndone DEF LogSound
      <4>2. QED
        BY <1>3, <1>7, <2>3, <4>1 DEF AfterUndo, UndoState
    <3>3. Good(history, m, p, mem'[p], m)
      BY <1>4, <1>5, <2>1, <3>1, <3>2, GoodCut
    <3>4. ASSUME NEW f \in (b + 1)..m, ChangeAt(history, f, p), IsFirst(history, f),
                 ~EndedIn(history, history[f].txn, m), history[f] \notin todo'
          PROVE  mem'[p].val = history[f].old
      <4>1. f \in 1..Len(history) /\ m \in Int /\ c <= m + 1 /\ f <= m + 1
        BY <1>4
      <4>2. CASE f = c
        BY <1>5, <3>2, <4>2
      <4>3. CASE f # c
        <5>1. history[f].txn = r.txn
          <6>1. CASE f < c
            BY <1>4, <1>5, <1>6, <3>1, <3>4, <4>1, <6>1, OneOwner DEF LogSound
          <6>2. CASE c < f
            BY <1>4, <1>5, <1>6, <3>1, <3>4, <4>1, <6>2, OneOwner DEF LogSound
          <6>3. QED
            BY <4>3, <6>1, <6>2
        <5>2. f < c
          <6>1. ~(c \in 1..(f - 1))
            BY <1>5, <3>1, <3>4, <5>1 DEF IsFirst, ChangeAt
          <6>2. QED
            BY <4>3, <6>1
        <5>3. history[f] \in todo
          BY <1>3, <1>6, <3>4, <5>1, <5>2 DEF UndoState, DownTo, ChangeAt
        <5>4. history[f].lsn = f
          BY <1>4, <4>1 DEF LogSound, Numbered
        <5>5. QED
          BY <1>1, <1>6, <3>4, <4>3, <5>3, <5>4
      <4>4. QED
        BY <4>2, <4>3
    <3>5. QED
      BY <3>3, <3>4
  <2>4. QED
    BY <2>2, <2>3
<1>10. UndoState(b, m)'
  <2>1. todoLsn' = 0 /\ todo' \subseteq Unended(history', b, m) /\ DownTo(history', b, m, todo')
    BY <1>1, <1>3, <1>7 DEF UndoState
  <2>2. QED
    BY <1>7, <1>9, <2>1 DEF UndoState
<1>11. QED
  BY <1>1, <1>2, <1>8, <1>10 DEF CrashedState

\* The scan ends.
LEMMA EndOfLogRecoverable ==
    ASSUME TypeInv, NEW b \in Nat, NEW m \in Nat, CrashedState(b, m), EndOfLog
    PROVE  CrashedState(b, m)'
<1>1. /\ phase = "redo" /\ todo = {} /\ cursor > Len(file)
      /\ todo' = live /\ todoLsn' = 0 /\ phase' = "undo"
      /\ Recovering /\ UNCHANGED <<mem, cursor>>
  BY DEF EndOfLog
<1>2. LogLeft(b, m) /\ PagesLeft(b, m) /\ RedoState(b, m)
  BY <1>1 DEF CrashedState
<1>3. UNCHANGED <<file, history, page, spoilt>>
  BY <1>1 DEF Recovering, walVars
<1>4. LogLeft(b, m)' /\ PagesLeft(b, m)'
  BY <1>2, <1>3, LeftKept
<1>5. Seen(b) = m
  <2>1. Len(file) \in Nat /\ cursor \in 1..Len(file) + 1 /\ b + Len(file) = m
    BY <1>2, LenProperties DEF TypeInv, LogTypes, ScanTypes, LogLeft
  <2>2. QED
    BY <1>1, <2>1 DEF Seen
<1>6. todo' = Unended(history, b, m)
  BY <1>1, <1>2, <1>5 DEF RedoState
<1>7. \A c \in (b + 1)..m :
         IsChange(history[c]) /\ ~EndedIn(history, history[c].txn, m) => history[c] \in todo'
  BY <1>6, UnendedIs
<1>8. \A r \in todo' : ~EndedIn(history, r.txn, m)
  BY <1>6, UnendedIs
<1>9. DownTo(history, b, m, todo')
  BY <1>7, <1>8 DEF DownTo
<1>10. \A p \in PageId \ spoilt : Good(history, m, p, mem[p], m)
  BY <1>1, <1>2, <1>5 DEF RedoState, Touched
<1>11. \A p : \A f \in (b + 1)..m :
          ChangeAt(history, f, p) /\ ~EndedIn(history, history[f].txn, m) => history[f] \in todo'
  BY <1>7 DEF ChangeAt
<1>12. UndoState(b, m)'
  BY <1>1, <1>3, <1>6, <1>9, <1>10, <1>11 DEF UndoState
<1>13. QED
  BY <1>1, <1>4, <1>12 DEF CrashedState

\* Recover returns.
LEMMA EndRecoverRecoverable ==
    ASSUME TypeInv, NEW b \in Nat, NEW m \in Nat, CrashedState(b, m), EndRecover
    PROVE  CrashedState(b, m)'
<1>1. /\ phase = "undo" /\ phase' = "recovered"
      /\ Recovering /\ UNCHANGED <<mem, live, todo, todoLsn>>
  BY DEF EndRecover
<1>2. LogLeft(b, m) /\ PagesLeft(b, m) /\ UndoState(b, m)
  BY <1>1 DEF CrashedState
<1>3. UNCHANGED <<file, history, page, spoilt>>
  BY <1>1 DEF Recovering, walVars
<1>4. LogLeft(b, m)' /\ PagesLeft(b, m)'
  BY <1>2, <1>3, LeftKept
<1>5. UndoState(b, m)'
  BY <1>1, <1>2, <1>3 DEF UndoState
<1>6. QED
  BY <1>1, <1>4, <1>5 DEF CrashedState

\* Every step of Recover.
LEMMA RecoverRecoverable ==
    ASSUME TypeInv, NEW b \in Nat, NEW m \in Nat, CrashedState(b, m),
           \/ RedoChange \/ RedoBegin \/ RedoCommit \/ RedoAbort
           \/ UndoOne \/ EndOfLog \/ EndRecover
    PROVE  CrashedState(b, m)'
<1>1. CASE RedoChange
  <2>1. PICK r \in ToSet(file) : /\ At(r) /\ IsChange(r)
                                 /\ mem' = [mem EXCEPT ![r.page] = AfterRedo(@, r)]
                                 /\ live' = live \cup {r} /\ cursor' = cursor + 1
                                 /\ Recovering /\ UNCHANGED <<phase, todo, todoLsn>>
    BY <1>1 DEF RedoChange
  <2>2. ~IsEnd(r) /\ r.kind # "TXN_ABORT"
    BY <2>1, ChangeNoEnd
  <2>3. live' = {q \in live : ~(IsEnd(r) /\ q.txn = r.txn)} \cup (IF IsChange(r) THEN {r} ELSE {})
    BY <2>1, <2>2
  <2>4. QED
    BY <2>1, <2>2, <2>3, RedoPast
<1>2. CASE RedoBegin
  <2>1. PICK r \in ToSet(file) : /\ At(r) /\ r.kind = "TXN_BEGIN" /\ cursor' = cursor + 1
                                 /\ Recovering /\ UNCHANGED <<mem, phase, live, todo, todoLsn>>
    BY <1>2 DEF RedoBegin
  <2>2. ~IsEnd(r) /\ ~IsChange(r) /\ r.kind # "TXN_ABORT"
    BY <2>1 DEF IsEnd, IsChange, ChangeKinds
  <2>3. live' = {q \in live : ~(IsEnd(r) /\ q.txn = r.txn)} \cup (IF IsChange(r) THEN {r} ELSE {})
    BY <2>1, <2>2
  <2>4. QED
    BY <2>1, <2>2, <2>3, RedoPast
<1>3. CASE RedoCommit
  <2>1. PICK r \in ToSet(file) : /\ At(r) /\ r.kind = "TXN_COMMIT" /\ live' = Without(r.txn)
                                 /\ cursor' = cursor + 1
                                 /\ Recovering /\ UNCHANGED <<mem, phase, todo, todoLsn>>
    BY <1>3 DEF RedoCommit
  <2>2. IsEnd(r) /\ ~IsChange(r) /\ r.kind # "TXN_ABORT"
    BY <2>1 DEF IsEnd, IsChange, ChangeKinds
  <2>3. live' = {q \in live : ~(IsEnd(r) /\ q.txn = r.txn)} \cup (IF IsChange(r) THEN {r} ELSE {})
    BY <2>1, <2>2 DEF Without
  <2>4. QED
    BY <2>1, <2>2, <2>3, RedoPast
<1>4. CASE RedoAbort
  BY <1>4, RedoAbortRecoverable
<1>5. CASE UndoOne
  BY <1>5, UndoOneRedo, UndoOneCut
<1>6. CASE EndOfLog
  BY <1>6, EndOfLogRecoverable
<1>7. CASE EndRecover
  BY <1>7, EndRecoverRecoverable
<1>8. QED
  BY <1>1, <1>2, <1>3, <1>4, <1>5, <1>6, <1>7

\* The page goes to disk as Recover has left it so far.
LEMMA PageToDiskRecoverable ==
    ASSUME TypeInv, NEW b \in Nat, NEW m \in Nat, CrashedState(b, m), phase # "running",
           phase # "truncating", NEW p \in PageId, PageToDisk(p)
    PROVE  CrashedState(b, m)'
<1>1. /\ page' = [page EXCEPT ![p] = mem[p]]
      /\ UNCHANGED <<file, history, mem, phase, cursor, live, todo, todoLsn, spoilt>>
  BY DEF PageToDisk, walVars, recoverVars
<1>2. LogLeft(b, m) /\ PagesLeft(b, m)
  BY DEF CrashedState
<1>3. LogLeft(b, m)'
  BY <1>1, <1>2 DEF LogLeft
<1>4. b <= m
  <2>1. Len(file) \in Nat
    BY LenProperties DEF TypeInv, LogTypes
  <2>2. QED
    BY <1>2, <2>1 DEF LogLeft
<1>5. ASSUME NEW q \in PageId \ spoilt PROVE \E n \in Int : b <= n /\ Good(history, m, q, mem[q], n)
  <2>1. CASE phase = "redo"
    <3>1. RedoState(b, m)
      BY <2>1 DEF CrashedState
    <3>2. Seen(b) \in Int /\ b <= Seen(b) /\ cursor \in Nat
      <4>1. Len(file) \in Nat /\ cursor \in 1..Len(file) + 1
        BY LenProperties DEF TypeInv, LogTypes, ScanTypes
      <4>2. QED
        BY <4>1 DEF Seen
    <3>3. CASE Touched(q)
      <4>1. Seen(b) > b
        BY <3>1, <3>3 DEF RedoState, Touched
      <4>2. Good(history, m, q, mem[q], Seen(b) - 1)
        BY <1>5, <3>1, <3>3 DEF RedoState
      <4>3. Seen(b) - 1 \in Int /\ b <= Seen(b) - 1
        BY <3>2, <4>1
      <4>4. QED
        BY <4>2, <4>3
    <3>4. CASE ~Touched(q)
      <4>1. Good(history, m, q, mem[q], Seen(b))
        BY <1>5, <3>1, <3>4 DEF RedoState
      <4>2. QED
        BY <3>2, <4>1
    <3>5. QED
      BY <3>3, <3>4
  <2>2. CASE phase # "redo"
    <3>1. UndoState(b, m)
      BY <2>2 DEF CrashedState, TypeInv, CallTypes
    <3>2. Good(history, m, q, mem[q], m)
      BY <1>5, <3>1 DEF UndoState
    <3>3. QED
      BY <1>4, <3>2
  <2>3. QED
    BY <2>1, <2>2
<1>6. ASSUME NEW q \in PageId \ spoilt PROVE Good(history, m, q, page'[q], b)
  <2>1. CASE q = p
    <3>1. page'[q] = mem[q]
      BY <1>1, <2>1 DEF TypeInv, PageTypes
    <3>2. PICK n \in Int : b <= n /\ Good(history, m, q, mem[q], n)
      BY <1>5, <1>6
    <3>3. QED
      BY <3>1, <3>2, GoodEarlier
  <2>2. CASE q # p
    BY <1>1, <1>2, <1>6, <2>2 DEF TypeInv, PageTypes, PagesLeft
  <2>3. QED
    BY <2>1, <2>2
<1>7. PagesLeft(b, m)'
  BY <1>1, <1>6 DEF PagesLeft
<1>8. phase = "redo" => RedoState(b, m)'
  <2>1. Seen(b)' = Seen(b) /\ \A q : Touched(q)' <=> Touched(q)
    BY <1>1 DEF Seen, Touched
  <2>2. QED
    BY <1>1, <2>1 DEF CrashedState, RedoState
<1>9. phase \in {"undo", "recovered"} => UndoState(b, m)'
  BY <1>1 DEF CrashedState, UndoState
<1>10. QED
  BY <1>1, <1>3, <1>7, <1>8, <1>9 DEF CrashedState

\* Recovery starts.
LEMMA StartRecoverable ==
    ASSUME NEW b \in Nat, NEW m \in Nat, LogLeft(b, m)', PagesLeft(b, m)',
           phase' = "redo", cursor' = 1, live' = {}, todo' = {}, mem' = page'
    PROVE  CrashedState(b, m)'
<1>1. Seen(b)' = b
  BY DEF Seen
<1>2. Unended(history', b, b) = {}
  <2>1. (b + 1)..b = {}
    OBVIOUS
  <2>2. QED
    BY <2>1 DEF Unended
<1>3. \A p : ~Touched(p)'
  BY DEF Touched
<1>4. RedoState(b, m)'
  BY <1>1, <1>2, <1>3 DEF RedoState, PagesLeft
<1>5. QED
  BY <1>4 DEF CrashedState

\* The process dies again.
LEMMA CrashAgainRecoverable ==
    ASSUME TypeInv, NEW b \in Nat, NEW m \in Nat, CrashedState(b, m), buffer = <<>>,
           phase # "truncating", NEW k \in 0 .. Len(Unwritten), Crash(k)
    PROVE  CrashedState(b, m)'
<1>1. /\ file' = file \o SubSeq(buffer, 1, k) /\ history' = history \o SubSeq(buffer, 1, k)
      /\ k \in 0..Len(buffer)
      /\ mem' = page /\ page' = page /\ phase' = "redo" /\ cursor' = 1 /\ live' = {} /\ todo' = {}
      /\ spoilt \subseteq spoilt'
  BY DEF Crash, Unwritten
<1>2. k = 0 /\ file \in Seq(Record) /\ history \in Seq(Record)
  BY <1>1, EmptySeq DEF TypeInv, LogTypes
<1>3. file' = file /\ history' = history
  <2>1. SubSeq(<<>>, 1, 0) = <<>>
    BY SubSeqEmpty
  <2>2. QED
    BY <1>1, <1>2, <2>1, ConcatEmptySeq
<1>4. LogLeft(b, m)' /\ PagesLeft(b, m)'
  <2>1. LogLeft(b, m) /\ PagesLeft(b, m)
    BY DEF CrashedState
  <2>2. LogLeft(b, m)'
    BY <1>1, <1>3, <2>1 DEF LogLeft
  <2>3. PagesLeft(b, m)'
    BY <1>1, <1>3, <2>1 DEF PagesLeft
  <2>4. QED
    BY <2>2, <2>3
<1>5. QED
  BY <1>1, <1>4, StartRecoverable

-----------------------------------------------------------------------------
(***************************************************************************)
(* What Recover has done when it is done.                                  *)
(***************************************************************************)

\* The pages are as committed transactions have left them.
LEMMA CrashedRecovered ==
    ASSUME TypeInv, NEW b \in Nat, NEW m \in Nat, CrashedState(b, m), phase = "recovered"
    PROVE  RecoveredUnlessSpoilt
<1>1. LogLeft(b, m) /\ UndoState(b, m) /\ todo = {}
  BY DEF CrashedState, TypeInv, ScanTypes
<1>2. history \in Seq(Record) /\ LogSound(history) /\ m <= Len(history) /\ b <= m
  <2>1. Len(file) \in Nat
    BY LenProperties DEF TypeInv, LogTypes
  <2>2. QED
    BY <1>1, <2>1 DEF LogLeft, TypeInv, LogTypes
<1>3. ASSUME NEW p \in PageId \ spoilt PROVE mem[p].val = Committed(p)
  <2>1. HoldsCommitted(history, p, Len(history), mem[p].val)
    <3>1. Good(history, m, p, mem[p], m) /\ Dropped(history, b, p) /\ NotTorn(history, b, m, p)
      BY <1>1, <1>3 DEF UndoState, LogLeft
    <3>2. CASE Beyond(history, m, p, mem[p])
      BY <3>2 DEF Beyond
    <3>3. CASE Within(history, m, p, mem[p], m)
      <4>1. \A f \in (b + 1)..m :
               ChangeAt(history, f, p) /\ IsFirst(history, f) /\ ~EndedIn(history, history[f].txn, m)
                   => mem[p].val = history[f].old
        BY <1>1, <1>3 DEF UndoState
      <4>2. QED
        BY <1>2, <3>1, <3>3, <4>1, WithinHolds
    <3>4. QED
      BY <3>1, <3>2, <3>3 DEF Good
  <2>2. QED
    BY <1>2, <2>1, HeldIsCommitted
<1>4. QED
  BY <1>3 DEF RecoveredUnlessSpoilt

-----------------------------------------------------------------------------
(***************************************************************************)
(* A log that grows says the same of what it said before.                  *)
(***************************************************************************)

\* The longer log G has the same ends as H, up to a record of H.
LEMMA BeginsEnds ==
    ASSUME NEW G \in Seq(Record), NEW H \in Seq(Record), Begins(G, H), NEW n \in 0..Len(H), NEW t
    PROVE  /\ EndedIn(G, t, n) <=> EndedIn(H, t, n)
           /\ CommittedIn(G, t, n) <=> CommittedIn(H, t, n)
<1>1. \A i \in 1..n : G[i] = H[i]
  BY LenProperties DEF Begins
<1>2. QED
  BY <1>1 DEF EndedIn, CommittedIn, EndAt

\* It has the same changes,
LEMMA BeginsChanges ==
    ASSUME NEW G \in Seq(Record), NEW H \in Seq(Record), Begins(G, H), NEW i \in 1..Len(H), NEW p
    PROVE  /\ G[i] = H[i]
           /\ ChangeAt(G, i, p) <=> ChangeAt(H, i, p)
           /\ IsFirst(G, i) <=> IsFirst(H, i)
           /\ Touches(G, i, p) <=> Touches(H, i, p)
           /\ \A w : Restores(G, i, p, w) <=> Restores(H, i, p, w)
<1>1. \A j \in 1..i : G[j] = H[j]
  BY LenProperties DEF Begins
<1>2. \A j \in 1..(i - 1) : j \in 1..i
  OBVIOUS
<1>3. G[i] = H[i] /\ \A j \in 1..(i - 1) : G[j] = H[j]
  BY <1>1, <1>2
<1>4. \A j \in 1..i : ChangeAt(G, j, p) <=> ChangeAt(H, j, p)
  BY <1>1 DEF ChangeAt
<1>5. IsFirst(G, i) <=> IsFirst(H, i)
  BY <1>3 DEF IsFirst
<1>6. ASSUME NEW j \in 1..i PROVE IsFirst(G, j) <=> IsFirst(H, j)
  <2>1. G[j] = H[j] /\ \A k \in 1..(j - 1) : G[k] = H[k]
    BY <1>1
  <2>2. QED
    BY <2>1 DEF IsFirst
<1>7. Touches(G, i, p) <=> Touches(H, i, p)
  BY <1>3, <1>4 DEF Touches, ChangeAt
<1>8. \A w : Restores(G, i, p, w) <=> Restores(H, i, p, w)
  BY <1>2, <1>3, <1>4, <1>6 DEF Restores
<1>9. QED
  BY <1>3, <1>4, <1>5, <1>7, <1>8

\* leaves pages alone between the same records,
LEMMA BeginsQuiet ==
    ASSUME NEW G \in Seq(Record), NEW H \in Seq(Record), Begins(G, H), NEW n \in 0..Len(H),
           NEW i \in Nat, NEW p
    PROVE  Quiet(G, p, i, n) <=> Quiet(H, p, i, n)
<1>1. \A j \in (i + 1)..n : j \in 1..Len(H)
  BY LenProperties
<1>2. QED
  BY <1>1, BeginsChanges DEF Quiet

\* has the same committed contents
LEMMA BeginsHolds ==
    ASSUME NEW G \in Seq(Record), NEW H \in Seq(Record), Begins(G, H), NEW n \in 0..Len(H),
           NEW p, NEW w
    PROVE  HoldsCommitted(G, p, n, w) <=> HoldsCommitted(H, p, n, w)
<1>1. \A j \in 1..n : j \in 1..Len(H)
  BY LenProperties
<1>2. \A j \in 1..n : G[j] = H[j] /\ (Winner(G, j, p, n) <=> Winner(H, j, p, n))
  BY <1>1, BeginsChanges, BeginsEnds DEF Winner
<1>3. \A i \in 1..n : \A j \in (i + 1)..n : j \in 1..n
  OBVIOUS
<1>4. \A i \in 1..n : (\A j \in (i + 1)..n : ~Winner(G, j, p, n))
                         <=> (\A j \in (i + 1)..n : ~Winner(H, j, p, n))
  BY <1>2, <1>3
<1>5. (\A i \in 1..n : ~Winner(G, i, p, n)) <=> (\A i \in 1..n : ~Winner(H, i, p, n))
  BY <1>2
<1>6. (\E i \in 1..n : /\ Winner(G, i, p, n) /\ w = G[i].new
                       /\ \A j \in (i + 1)..n : ~Winner(G, j, p, n))
        <=> (\E i \in 1..n : /\ Winner(H, i, p, n) /\ w = H[i].new
                             /\ \A j \in (i + 1)..n : ~Winner(H, j, p, n))
  BY <1>2, <1>4
<1>7. QED
  BY <1>5, <1>6, Zenon DEF HoldsCommitted

\* and the same images.
LEMMA BeginsImage ==
    ASSUME NEW G \in Seq(Record), NEW H \in Seq(Record), Begins(G, H), NEW p, NEW x,
           x.lsn \in 0..Len(H)
    PROVE  ImageOf(G, p, x) <=> ImageOf(H, p, x)
<1>1. x.lsn \in 0..Len(G) /\ (x.lsn > 0 => x.lsn \in 1..Len(H))
  BY LenProperties DEF Begins
<1>2. x.lsn > 0 => /\ G[x.lsn] = H[x.lsn]
                   /\ ChangeAt(G, x.lsn, p) <=> ChangeAt(H, x.lsn, p)
                   /\ Touches(G, x.lsn, p) <=> Touches(H, x.lsn, p)
                   /\ Restores(G, x.lsn, p, x.val) <=> Restores(H, x.lsn, p, x.val)
  BY <1>1, BeginsChanges
<1>3. QED
  BY <1>1, <1>2 DEF ImageOf

\* The beginning of a sound log is sound.
LEMMA SoundPrefix ==
    ASSUME NEW G \in Seq(Record), NEW H \in Seq(Record), Begins(G, H), LogSound(G)
    PROVE  LogSound(H)
<1>1. Len(H) \in Nat /\ Len(G) \in Nat /\ \A i \in 1..Len(H) : i \in 1..Len(G) /\ H[i] = G[i]
  BY LenProperties DEF Begins
<1>2. Numbered(H)
  BY <1>1 DEF LogSound, Numbered
<1>3. EndsLast(H)
  BY <1>1 DEF LogSound, EndsLast
<1>4. Exclusive(H)
  <2>1. SUFFICES ASSUME NEW i \in 1..Len(H), NEW j \in 1..Len(H), i < j, IsChange(H[i]),
                        ChangeAt(H, j, H[i].page), H[i].txn # H[j].txn
                 PROVE  \E e \in (i + 1)..(j - 1) : EndAt(H, e, H[i].txn)
    BY DEF Exclusive
  <2>2. PICK e \in (i + 1)..(j - 1) : EndAt(G, e, G[i].txn)
    BY <1>1, <2>1 DEF LogSound, Exclusive, ChangeAt
  <2>3. e \in 1..Len(H)
    BY <1>1
  <2>4. QED
    BY <1>1, <2>2, <2>3 DEF EndAt
<1>5. OldsCommitted(H)
  <2>1. SUFFICES ASSUME NEW f \in 1..Len(H), IsChange(H[f]), IsFirst(H, f)
                 PROVE  HoldsCommitted(H, H[f].page, f - 1, H[f].old)
    BY DEF OldsCommitted
  <2>2. IsFirst(G, f) /\ G[f] = H[f] /\ f \in 1..Len(G)
    BY <1>1, <2>1, BeginsChanges
  <2>3. HoldsCommitted(G, H[f].page, f - 1, H[f].old)
    BY <2>1, <2>2 DEF LogSound, OldsCommitted
  <2>4. f - 1 \in 0..Len(H)
    BY <1>1
  <2>5. QED
    BY <2>3, <2>4, BeginsHolds
<1>6. QED
  BY <1>2, <1>3, <1>4, <1>5 DEF LogSound

\* A sound log stays sound with a record of a transaction that has not ended and that
\* changes a page no other is changing.
LEMMA SoundMore ==
    ASSUME NEW G \in Seq(Record), NEW H \in Seq(Record), Begins(G, H), LogSound(H),
           NEW n \in Nat, Len(H) = n, Len(G) = n + 1, NEW r, r = G[n + 1],
           r.lsn = n + 1, \A e \in 1..n : ~EndAt(H, e, r.txn),
           IsChange(r) => \A i \in 1..n : ChangeAt(H, i, r.page) /\ H[i].txn # r.txn
                                             => \E e \in (i + 1)..n : EndAt(H, e, H[i].txn),
           IsChange(r) /\ (\A i \in 1..n : ~(ChangeAt(H, i, r.page) /\ H[i].txn = r.txn))
               => HoldsCommitted(H, r.page, n, r.old)
    PROVE  LogSound(G)
<1>1. /\ \A i \in 1..n : i \in 1..(n + 1) /\ G[i] = H[i]
      /\ \A i \in 1..(n + 1) : i = n + 1 \/ i \in 1..n
  BY DEF Begins
<1>2. Numbered(G)
  BY <1>1 DEF LogSound, Numbered
<1>3. EndsLast(G)
  <2>1. SUFFICES ASSUME NEW e \in 1..(n + 1), NEW j \in 1..(n + 1), e < j, IsEnd(G[e])
                 PROVE  G[j].txn # G[e].txn
    BY DEF EndsLast
  <2>2. e \in 1..n
    BY <2>1
  <2>3. QED
    BY <1>1, <2>1, <2>2 DEF LogSound, EndsLast, EndAt
<1>4. Exclusive(G)
  <2>1. SUFFICES ASSUME NEW i \in 1..(n + 1), NEW j \in 1..(n + 1), i < j, IsChange(G[i]),
                        ChangeAt(G, j, G[i].page), G[i].txn # G[j].txn
                 PROVE  \E e \in (i + 1)..(j - 1) : EndAt(G, e, G[i].txn)
    BY DEF Exclusive
  <2>2. i \in 1..n /\ G[i] = H[i]
    BY <1>1, <2>1
  <2>3. PICK e \in (i + 1)..(j - 1) : EndAt(H, e, H[i].txn)
    <3>1. CASE j \in 1..n
      BY <1>1, <2>1, <2>2, <3>1 DEF LogSound, Exclusive, ChangeAt
    <3>2. CASE j = n + 1
      <4>1. IsChange(r) /\ ChangeAt(H, i, r.page) /\ H[i].txn # r.txn
        BY <2>1, <2>2, <3>2 DEF ChangeAt
      <4>2. PICK e \in (i + 1)..n : EndAt(H, e, H[i].txn)
        BY <2>2, <4>1
      <4>3. e \in (i + 1)..(j - 1)
        BY <3>2
      <4>4. QED
        BY <4>2, <4>3
    <3>3. QED
      BY <1>1, <3>1, <3>2
  <2>4. e \in 1..n
    BY <2>1
  <2>5. QED
    BY <1>1, <2>2, <2>3, <2>4 DEF EndAt
<1>5. OldsCommitted(G)
  <2>1. SUFFICES ASSUME NEW f \in 1..(n + 1), IsChange(G[f]), IsFirst(G, f)
                 PROVE  HoldsCommitted(G, G[f].page, f - 1, G[f].old)
    BY DEF OldsCommitted
  <2>2. HoldsCommitted(H, G[f].page, f - 1, G[f].old)
    <3>1. CASE f \in 1..n
      <4>1. G[f] = H[f] /\ IsFirst(H, f)
        BY <2>1, <3>1, BeginsChanges
      <4>2. QED
        BY <2>1, <3>1, <4>1 DEF LogSound, OldsCommitted
    <3>2. CASE f = n + 1
      <4>1. \A i \in 1..n : ~(ChangeAt(H, i, r.page) /\ H[i].txn = r.txn)
        BY <1>1, <2>1, <3>2 DEF IsFirst, ChangeAt
      <4>2. f - 1 = n
        BY <3>2
      <4>3. QED
        BY <2>1, <3>2, <4>1, <4>2
    <3>3. QED
      BY <1>1, <3>1, <3>2
  <2>3. f - 1 \in 0..Len(H)
    OBVIOUS
  <2>4. QED
    BY <2>2, <2>3, BeginsHolds
<1>6. QED
  BY <1>2, <1>3, <1>4, <1>5 DEF LogSound

-----------------------------------------------------------------------------
(***************************************************************************)
(* The first life of the process.                                          *)
(***************************************************************************)

\* The fields of a record of the log.
LEMMA ElementIs ==
    ASSUME NEW H \in Seq(Record), NEW i \in 1..Len(H)
    PROVE  H[i] \in Record /\ H[i].txn \in Txn /\ H[i].page \in PageId \cup {0} /\ H[i].lsn \in Nat
<1>1. H[i] \in Record
  BY ElementOfSeq
<1>2. QED
  BY <1>1, LimitAssumption DEF Record

\* The records of Log are those of the file's history and then of the buffer.
LEMMA LogTyped ==
    ASSUME TypeInv
    PROVE  /\ Log \in Seq(Record) /\ Len(Log) = Len(history) + Len(buffer)
           /\ Len(Log) \in Nat /\ Len(history) \in Nat /\ Len(buffer) \in Nat
           /\ \A i \in 1..Len(history) : Log[i] = history[i]
           /\ \A i \in 1..Len(buffer) : Log[Len(history) + i] = buffer[i]
<1>1. history \in Seq(Record) /\ buffer \in Seq(Record)
  BY DEF TypeInv, LogTypes
<1>2. /\ Log \in Seq(Record) /\ Len(Log) = Len(history) + Len(buffer)
      /\ Len(history) \in Nat /\ Len(buffer) \in Nat
      /\ \A i \in 1..Len(history) + Len(buffer) :
            Log[i] = IF i <= Len(history) THEN history[i] ELSE buffer[i - Len(history)]
  BY <1>1, ConcatProperties, LenProperties DEF Log
<1>3. \A i \in 1..Len(history) : Log[i] = history[i]
  BY <1>2
<1>4. ASSUME NEW i \in 1..Len(buffer) PROVE Log[Len(history) + i] = buffer[i]
  <2>1. /\ Len(history) + i \in 1..Len(history) + Len(buffer) /\ ~(Len(history) + i <= Len(history))
        /\ Len(history) + i - Len(history) = i
    BY <1>2
  <2>2. QED
    BY <1>2, <2>1
<1>5. QED
  BY <1>2, <1>3, <1>4

\* A process that has not died is not recovering.
LEMMA InFirstLife ==
    ASSUME Numbers, crashes = 0
    PROVE  /\ phase \in {"running", "truncating"}
           /\ phase = "truncating" => file = <<>> /\ buffer = <<>>
  BY DEF Numbers, FirstLife

\* A transaction that has not ended, or not begun, has no end in the log.
LEMMA NoEndYet ==
    ASSUME TypeInv, Statuses, NEW t, status[t] # "ended"
    PROVE  \A e \in 1..Len(Log) : ~EndAt(Log, e, t)
<1>1. SUFFICES ASSUME NEW e \in 1..Len(Log), EndAt(Log, e, t) PROVE FALSE
  OBVIOUS
<1>2. Log[e].txn = t /\ EndedIn(Log, t, Len(Log))
  BY <1>1 DEF EndAt, EndedIn
<1>3. Log[e].txn \in Txn
  BY LogTyped, ElementIs
<1>4. QED
  BY <1>2, <1>3 DEF Statuses, TypeInv, CallTypes

\* Appending to the second of two sequences.
LEMMA SeqAppendAssoc ==
    ASSUME NEW s \in Seq(Record), NEW u \in Seq(Record), NEW r \in Record
    PROVE  s \o Append(u, r) = Append(s \o u, r)
<1>1. /\ Append(u, r) = u \o <<r>> /\ <<r>> \in Seq(Record) /\ s \o u \in Seq(Record)
      /\ Append(s \o u, r) = (s \o u) \o <<r>>
  BY AppendIsConcat, ConcatProperties
<1>2. QED
  BY <1>1, ConcatAssociative

\* AppendLog adds one record to Log and to what is written of it.
LEMMA AppendLogIs ==
    ASSUME Numbers, Running, crashes = 0, NEW r \in Record, AppendLog(r),
           phase' = phase \/ phase' = "running"
    PROVE  /\ Log' = Append(Log, r) /\ currentLsn' = currentLsn + 1
           /\ Len(history) <= Len(history')
           /\ Written = file \o buffer /\ Written' = Append(Written, r)
           /\ phase = "running" /\ phase' = "running"
<1> DEFINE full == Len(buffer) >= BufferSlots
           left == IF full THEN <<>> ELSE buffer
<1>1. /\ currentLsn' = currentLsn + 1
      /\ file' = IF full THEN file \o buffer ELSE file
      /\ history' = IF full THEN history \o buffer ELSE history
      /\ buffer' = Append(left, r)
  BY DEF AppendLog
<1>2. /\ phase = "running" /\ phase' = "running"
  BY InFirstLife DEF Running
<1>3. /\ file \in Seq(Record) /\ buffer \in Seq(Record) /\ history \in Seq(Record)
      /\ file \o buffer \in Seq(Record) /\ history \o buffer \in Seq(Record)
  BY ConcatProperties DEF Numbers, TypeInv, LogTypes
<1>4. /\ left \in Seq(Record) /\ file' \in Seq(Record) /\ history' \in Seq(Record)
      /\ file' \o left = file \o buffer /\ history' \o left = history \o buffer
  <2>1. CASE full
    <3>1. file' = file \o buffer /\ history' = history \o buffer /\ left = <<>>
      BY <1>1, <2>1
    <3>2. QED
      BY <1>3, <3>1, EmptySeq, ConcatEmptySeq
  <2>2. CASE ~full
    BY <1>1, <1>3, <2>2
  <2>3. QED
    BY <2>1, <2>2
<1> HIDE DEF left, full
<1>5. file' \o buffer' = Append(file \o buffer, r) /\ history' \o buffer' = Append(history \o buffer, r)
  <2>1. file' \o Append(left, r) = Append(file' \o left, r)
    BY <1>4, SeqAppendAssoc
  <2>2. history' \o Append(left, r) = Append(history' \o left, r)
    BY <1>4, SeqAppendAssoc
  <2>3. QED
    BY <1>1, <1>4, <2>1, <2>2
<1>6. Len(history) <= Len(history')
  <2>1. Len(history \o buffer) = Len(history) + Len(buffer) /\ Len(history) \in Nat /\ Len(buffer) \in Nat
    BY <1>3, ConcatProperties, LenProperties
  <2>2. QED
    BY <1>1, <2>1
<1>7. QED
  BY <1>1, <1>2, <1>5, <1>6 DEF Log, Written

\* A sequence is the beginning of the one with another record.
LEMMA AppendBegins ==
    ASSUME NEW H \in Seq(Record), NEW r \in Record
    PROVE  /\ Append(H, r) \in Seq(Record) /\ Len(Append(H, r)) = Len(H) + 1
           /\ Begins(Append(H, r), H) /\ Append(H, r)[Len(H) + 1] = r
  BY AppendProperties, LenProperties DEF Begins

\* The same record is added to both.
LEMMA FollowsMore ==
    ASSUME NEW s \in Seq(Record), NEW H \in Seq(Record), NEW r \in Record, NEW b \in Nat,
           Follows(s, H, b), b + Len(s) = Len(H)
    PROVE  /\ Follows(Append(s, r), Append(H, r), b)
           /\ b + Len(Append(s, r)) = Len(Append(H, r))
<1>1. /\ Len(s) \in Nat /\ Len(H) \in Nat
      /\ Len(Append(s, r)) = Len(s) + 1 /\ Len(Append(H, r)) = Len(H) + 1
      /\ \A i \in 1..Len(s) : Append(s, r)[i] = s[i]
      /\ \A i \in 1..Len(H) : Append(H, r)[i] = H[i]
      /\ Append(s, r)[Len(s) + 1] = r /\ Append(H, r)[Len(H) + 1] = r
  BY AppendProperties, LenProperties
<1>2. ASSUME NEW i \in 1..(Len(s) + 1) PROVE Append(s, r)[i] = Append(H, r)[b + i]
  <2>1. CASE i = Len(s) + 1
    <3>1. b + i = Len(H) + 1
      BY <1>1, <2>1
    <3>2. QED
      BY <1>1, <2>1, <3>1
  <2>2. CASE i \in 1..Len(s)
    <3>1. b + i \in 1..Len(H)
      BY <1>1, <2>2
    <3>2. QED
      BY <1>1, <2>2, <3>1 DEF Follows
  <2>3. QED
    BY <1>1, <2>1, <2>2
<1>3. QED
  BY <1>1, <1>2 DEF Follows

\* A record is appended by its transaction, which keeps the log what it is.
LEMMA AppendLogged ==
    ASSUME Numbers, Running, crashes = 0, NEW b \in Nat, LogNow(b), NEW r \in Record, AppendLog(r),
           phase' = phase \/ phase' = "running", r.lsn = currentLsn + 1,
           status[r.txn] # "ended",
           status' = [status EXCEPT ![r.txn] = IF IsEnd(r) THEN "ended" ELSE "active"],
           IsChange(r) => \A i \in 1..Len(Log) :
               ChangeAt(Log, i, r.page) /\ Log[i].txn # r.txn
                   => \E e \in (i + 1)..Len(Log) : EndAt(Log, e, Log[i].txn),
           IsChange(r) /\ (\A i \in 1..Len(Log) : ~(ChangeAt(Log, i, r.page) /\ Log[i].txn = r.txn))
               => HoldsCommitted(Log, r.page, Len(Log), r.old)
    PROVE  LogNow(b)'
<1> DEFINE H == Log
           G == Log'
           n == Len(Log)
<1>1. /\ Log' = Append(Log, r) /\ currentLsn' = currentLsn + 1
      /\ Len(history) <= Len(history')
      /\ Written = file \o buffer /\ Written' = Append(Written, r)
  BY AppendLogIs
<1>2. /\ TypeInv /\ H \in Seq(Record) /\ n \in Nat /\ Len(history) \in Nat /\ Len(history) <= n
  BY LogTyped DEF Numbers
<1>3. G \in Seq(Record) /\ Len(G) = n + 1 /\ Begins(G, H) /\ G[n + 1] = r
  BY <1>1, <1>2, AppendBegins
<1>4. \A e \in 1..n : ~EndAt(H, e, r.txn)
  BY <1>2, NoEndYet DEF LogNow
<1>5. LogSound(H) /\ b <= Len(history) /\ currentLsn = n
      /\ Follows(Written, H, b) /\ b + Len(Written) = n /\ Statuses
  BY DEF LogNow
<1>6. Len(history') \in Nat
  BY LenProperties, AppendLogTypes DEF Numbers, LogTypes
<1>7. LogSound(G)
  BY <1>2, <1>3, <1>4, <1>5, SoundMore
<1>8. Follows(Written', G, b) /\ b + Len(Written') = Len(G)
  <2>1. Written \in Seq(Record)
    BY <1>1, <1>2, ConcatProperties DEF TypeInv, LogTypes
  <2>2. QED
    BY <1>1, <1>2, <1>5, <2>1, FollowsMore
<1>9. Statuses'
  <2>1. \A t : EndedIn(G, t, n + 1) <=> EndedIn(H, t, n) \/ (IsEnd(r) /\ r.txn = t)
    <3>1. \A t : EndedIn(G, t, n) <=> EndedIn(H, t, n)
      BY <1>2, <1>3, BeginsEnds
    <3>2. 1..(n + 1) = (1..n) \cup {n + 1}
      BY <1>2
    <3>3. QED
      BY <1>3, <3>1, <3>2 DEF EndedIn, EndAt
  <2>2. ~EndedIn(H, r.txn, n) /\ r.txn \in Txn
    BY <1>4 DEF EndedIn, Record
  <2>3. /\ status'[r.txn] = IF IsEnd(r) THEN "ended" ELSE "active"
        /\ \A t \in Txn : t # r.txn => status'[t] = status[t]
    BY <1>2, <2>2 DEF TypeInv, CallTypes
  <2>4. ASSUME NEW i \in 1..(n + 1)
        PROVE  /\ status'[G[i].txn] # "new"
               /\ status'[G[i].txn] = "active" <=> ~EndedIn(G, G[i].txn, n + 1)
    <3>1. CASE G[i].txn = r.txn
      BY <2>1, <2>2, <2>3, <3>1
    <3>2. CASE G[i].txn # r.txn
      <4>1. i \in 1..n
        BY <1>2, <1>3, <3>2
      <4>2. G[i] = H[i] /\ H[i].txn \in Txn
        BY <1>2, <1>3, <4>1, BeginsChanges, ElementIs
      <4>3. status'[G[i].txn] = status[H[i].txn]
        BY <2>3, <3>2, <4>2
      <4>4. /\ status[H[i].txn] # "new"
            /\ status[H[i].txn] = "active" <=> ~EndedIn(H, H[i].txn, n)
        BY <1>5, <4>1 DEF Statuses
      <4>5. QED
        BY <2>1, <3>2, <4>2, <4>3, <4>4
    <3>3. QED
      BY <3>1, <3>2
  <2>5. QED
    BY <1>3, <2>4 DEF Statuses
<1>10. QED
  BY <1>1, <1>3, <1>5, <1>6, <1>7, <1>8, <1>9 DEF LogNow

\* The pages that a new record does not touch.
LEMMA PagesMore ==
    ASSUME TypeInv, NEW b \in Nat, LogNow(b), PagesNow(b), NEW r \in Record,
           Log' = Append(Log, r), phase' = "running", page' = page,
           \A p \in PageId :
              \/ mem'[p] = mem[p] /\ ~Touches(Append(Log, r), Len(Log) + 1, p)
              \/ mem'[p].lsn = Len(Log) + 1 /\ ImageOf(Append(Log, r), p, mem'[p])
    PROVE  PagesNow(b)'
<1> DEFINE G == Append(Log, r)
           n == Len(Log)
<1>1. Log \in Seq(Record) /\ n \in Nat /\ b <= n
  BY LogTyped DEF LogNow
<1>2. G \in Seq(Record) /\ Len(G) = n + 1 /\ Begins(G, Log)
  BY <1>1, AppendBegins
<1> HIDE DEF G
<1>3. ASSUME NEW p \in PageId
      PROVE  /\ ImageOf(G, p, mem'[p]) /\ Quiet(G, p, mem'[p].lsn, n + 1)
             /\ ImageOf(G, p, page[p]) /\ Quiet(G, p, page[p].lsn, b)
  <2>1. /\ ImageOf(Log, p, mem[p]) /\ Quiet(Log, p, mem[p].lsn, n)
        /\ ImageOf(Log, p, page[p]) /\ Quiet(Log, p, page[p].lsn, b)
    BY DEF PagesNow
  <2>2. mem[p].lsn \in 0..n /\ page[p].lsn \in 0..n
    BY <2>1 DEF ImageOf
  <2>3. ImageOf(G, p, page[p]) /\ Quiet(G, p, page[p].lsn, b)
    <3>1. page[p].lsn \in Nat /\ b \in 0..Len(Log)
      BY <1>1, <2>2
    <3>2. QED
      BY <1>1, <1>2, <2>1, <2>2, <3>1, BeginsImage, BeginsQuiet
  <2>4. CASE mem'[p] = mem[p] /\ ~Touches(G, n + 1, p)
    <3>1. mem[p].lsn \in Nat /\ n \in 0..Len(Log)
      BY <1>1, <2>2
    <3>2. ImageOf(G, p, mem[p]) /\ Quiet(G, p, mem[p].lsn, n)
      BY <1>1, <1>2, <2>1, <2>2, <3>1, BeginsImage, BeginsQuiet
    <3>3. \A j \in (mem[p].lsn + 1)..(n + 1) : j = n + 1 \/ j \in (mem[p].lsn + 1)..n
      BY <1>1, <3>1
    <3>4. Quiet(G, p, mem[p].lsn, n + 1)
      BY <2>4, <3>2, <3>3 DEF Quiet
    <3>5. QED
      BY <2>3, <2>4, <3>2, <3>4
  <2>5. CASE mem'[p].lsn = n + 1 /\ ImageOf(G, p, mem'[p])
    <3>1. (n + 1 + 1)..(n + 1) = {}
      BY <1>1
    <3>2. Quiet(G, p, mem'[p].lsn, n + 1)
      BY <2>5, <3>1 DEF Quiet
    <3>3. QED
      BY <2>3, <2>5, <3>2
  <2>6. QED
    BY <2>4, <2>5 DEF G
<1>4. Log' = G
  BY DEF G
<1>5. QED
  BY <1>2, <1>3, <1>4 DEF PagesNow

\* The changes of a transaction are those of the log.
LEMMA ChangesOfIs ==
    ASSUME TypeInv, NEW u
    PROVE  \A r : r \in ChangesOf(u)
                    <=> \E i \in 1..Len(Log) : r = Log[i] /\ IsChange(Log[i]) /\ Log[i].txn = u
<1>1. ToSet(Log) = {Log[i] : i \in 1..Len(Log)}
  BY LogTyped, LenProperties DEF ToSet
<1>2. \A r : r \in ChangesOf(u) <=> r \in ToSet(Log) /\ r.txn = u /\ IsChange(r)
  BY DEF ChangesOf, Log
<1>3. QED
  BY <1>1, <1>2

\* The pages a running transaction owns are those it has changed in the log.
LEMMA OwnedIs ==
    ASSUME TypeInv, NEW u, status[u] = "active", NEW p
    PROVE  p \in Owned(u) <=> \E i \in 1..Len(Log) : ChangeAt(Log, i, p) /\ Log[i].txn = u
<1>1. p \in Owned(u) <=> \E r \in ChangesOf(u) : r.page = p
  BY DEF Owned
<1>2. QED
  BY <1>1, ChangesOfIs DEF ChangeAt

\* Begin and Commit append a record that touches no page.
LEMMA BeginLogged ==
    ASSUME Numbers, crashes = 0, NEW b \in Nat, LoggedState(b), NEW t \in Txn,
           Begin(t) \/ Commit(t)
    PROVE  LoggedState(b)'
<1> DEFINE kind == IF status[t] = "new" THEN "TXN_BEGIN" ELSE "TXN_COMMIT"
           r == EndRecord(t, kind)
<1>1. /\ Running /\ status[t] # "ended" /\ AppendLog(r)
      /\ phase' = phase \/ phase' = "running"
      /\ status' = [status EXCEPT ![t] = IF kind = "TXN_COMMIT" THEN "ended" ELSE "active"]
      /\ UNCHANGED <<mem, page>>
  BY DEF Begin, Commit, Active
<1>2. kind \in {"TXN_BEGIN", "TXN_COMMIT"}
  OBVIOUS
<1> HIDE DEF kind
<1>3. r \in Record /\ r.lsn = currentLsn + 1
  BY <1>1, <1>2, NewRecords DEF AppendLog, Numbers
<1>4. r.txn = t /\ r.kind = kind
  BY DEF EndRecord
<1>5. ~IsChange(r) /\ r.kind # "TXN_ABORT" /\ (IsEnd(r) <=> kind = "TXN_COMMIT")
  BY <1>2, <1>4 DEF IsChange, ChangeKinds, IsEnd
<1> HIDE DEF r
<1>6. LogNow(b)'
  <2>1. status' = [status EXCEPT ![r.txn] = IF IsEnd(r) THEN "ended" ELSE "active"]
    BY <1>1, <1>4, <1>5
  <2>2. QED
    BY <1>1, <1>3, <1>4, <1>5, <2>1, AppendLogged DEF LoggedState
<1>7. Log' = Append(Log, r) /\ phase' = "running"
  BY <1>1, <1>3, AppendLogIs
<1>8. ASSUME NEW p PROVE ~Touches(Append(Log, r), Len(Log) + 1, p)
  <2>1. Append(Log, r)[Len(Log) + 1] = r
    BY <1>3, LogTyped, AppendBegins DEF Numbers
  <2>2. QED
    BY <1>5, <2>1 DEF Touches, ChangeAt
<1>9. PagesNow(b)'
  BY <1>1, <1>3, <1>7, <1>8, PagesMore DEF LoggedState, Numbers
<1>10. QED
  BY <1>6, <1>9 DEF LoggedState

\* A change is logged and made.
LEMMA ChangeLogged ==
    ASSUME Numbers, crashes = 0, NEW b \in Nat, LoggedState(b),
           NEW t \in Txn, NEW p \in PageId, NEW kind \in Kinds, Change(t, p, kind)
    PROVE  LoggedState(b)'
<1> DEFINE r == ChangeRecord(t, kind, p, mem[p].val, NewValue(t, kind))
<1>1. /\ Running /\ status[t] = "active" /\ AppendLog(r)
      /\ \A u \in Txn \ {t} : p \notin Owned(u)
      /\ mem' = [mem EXCEPT ![p] = [lsn |-> r.lsn, val |-> r.new]]
      /\ phase' = phase /\ status' = status /\ page' = page
  BY DEF Change, Active
<1>2. r \in Record /\ r.lsn = currentLsn + 1
  BY <1>1, NewRecords DEF AppendLog, Numbers
<1>3. r.txn = t /\ r.kind = kind /\ r.page = p /\ r.old = mem[p].val
  BY DEF ChangeRecord
<1>4. IsChange(r) /\ ~IsEnd(r)
  <2>1. IsChange(r)
    BY <1>3, KindsAssumption DEF IsChange
  <2>2. QED
    BY <1>3, <2>1, ChangeNoEnd
<1> HIDE DEF r
<1>5. LogNow(b) /\ PagesNow(b) /\ TypeInv /\ Log \in Seq(Record) /\ Len(Log) \in Nat /\ Len(Log) = currentLsn
  BY LogTyped DEF LoggedState, Numbers, LogNow
<1>6. Log' = Append(Log, r) /\ phase = "running" /\ phase' = "running"
  BY <1>1, <1>2, AppendLogIs
\* The transactions that changed the page have ended.
<1>7. ASSUME NEW i \in 1..Len(Log), ChangeAt(Log, i, p), Log[i].txn # t
      PROVE  \E e \in (i + 1)..Len(Log) : EndAt(Log, e, Log[i].txn)
  <2>1. Log[i].txn \in Txn
    BY <1>5, ElementIs
  <2>2. status[Log[i].txn] # "active"
    BY <1>1, <1>5, <1>7, <2>1, OwnedIs
  <2>3. PICK e \in 1..Len(Log) : EndAt(Log, e, Log[i].txn)
    BY <1>5, <2>2 DEF LogNow, Statuses, EndedIn
  <2>4. e # i
    BY <1>7, <2>3, ChangeNoEnd DEF EndAt, ChangeAt
  <2>5. ~(e < i)
    BY <1>5, <2>3 DEF LogNow, LogSound, EndsLast, EndAt
  <2>6. e \in (i + 1)..Len(Log)
    BY <1>5, <2>4, <2>5
  <2>7. QED
    BY <2>3, <2>6
<1>8. ASSUME \A i \in 1..Len(Log) : ~(ChangeAt(Log, i, p) /\ Log[i].txn = t)
      PROVE  HoldsCommitted(Log, p, Len(Log), mem[p].val)
  <2> DEFINE k == mem[p].lsn
  <2>1. ImageOf(Log, p, mem[p]) /\ Quiet(Log, p, k, Len(Log)) /\ k \in 0..Len(Log)
    BY <1>5 DEF PagesNow, ImageOf
  <2>2. ASSUME k > 0, ChangeAt(Log, k, p) PROVE CommittedIn(Log, Log[k].txn, Len(Log))
    <3>1. k \in 1..Len(Log)
      BY <2>1, <2>2
    <3>2. PICK e \in (k + 1)..Len(Log) : EndAt(Log, e, Log[k].txn)
      BY <1>7, <1>8, <2>2, <3>1
    <3>3. Log[e].kind # "TXN_ABORT"
      <4>1. SUFFICES ASSUME Log[e].kind = "TXN_ABORT" PROVE FALSE
        OBVIOUS
      <4>2. k \in 1..(e - 1)
        BY <3>1
      <4>3. Touches(Log, e, p)
        BY <2>2, <3>2, <4>1, <4>2 DEF Touches, EndAt
      <4>4. QED
        BY <2>1, <4>3 DEF Quiet
    <3>4. e \in 1..Len(Log)
      BY <3>1
    <3>5. QED
      BY <3>2, <3>3, <3>4 DEF EndAt, IsEnd, CommittedIn
  <2>3. QED
    BY <1>5, <2>1, <2>2, ImageCommitted DEF LogNow
<1>9. LogNow(b)'
  <2>1. status' = [status EXCEPT ![r.txn] = IF IsEnd(r) THEN "ended" ELSE "active"]
    BY <1>1, <1>3, <1>4, <1>5 DEF TypeInv, CallTypes
  <2>2. QED
    BY <1>1, <1>2, <1>3, <1>4, <1>5, <1>7, <1>8, <2>1, AppendLogged
<1>10. Append(Log, r)[Len(Log) + 1] = r /\ Len(Append(Log, r)) = Len(Log) + 1
  BY <1>2, <1>5, AppendBegins
<1>11. ASSUME NEW q \in PageId, q # p
       PROVE  mem'[q] = mem[q] /\ ~Touches(Append(Log, r), Len(Log) + 1, q)
  <2>1. mem'[q] = mem[q]
    BY <1>1, <1>5, <1>11 DEF TypeInv, PageTypes
  <2>2. r.kind # "TXN_ABORT"
    BY <1>4, ChangeNoEnd
  <2>3. QED
    BY <1>3, <1>10, <1>11, <2>1, <2>2 DEF Touches, ChangeAt
<1>12. mem'[p].lsn = Len(Log) + 1 /\ ImageOf(Append(Log, r), p, mem'[p])
  <2>1. mem'[p].lsn = Len(Log) + 1 /\ mem'[p].val = r.new
    BY <1>1, <1>2, <1>5 DEF TypeInv, PageTypes
  <2>2. ChangeAt(Append(Log, r), Len(Log) + 1, p)
    BY <1>3, <1>4, <1>10 DEF ChangeAt
  <2>3. r.kind # "TXN_ABORT"
    BY <1>4, ChangeNoEnd
  <2>4. QED
    BY <1>5, <1>10, <2>1, <2>2, <2>3 DEF ImageOf, Touches
<1>13. PagesNow(b)'
  BY <1>1, <1>2, <1>5, <1>6, <1>11, <1>12, PagesMore
<1>14. QED
  BY <1>9, <1>13 DEF LoggedState

\* An abort is logged, and gives the pages back.
LEMMA AbortLogged ==
    ASSUME Numbers, crashes = 0, NEW b \in Nat, LoggedState(b), NEW t \in Txn, Abort(t)
    PROVE  LoggedState(b)'
<1> DEFINE r == EndRecord(t, "TXN_ABORT")
           G == Append(Log, r)
           n == Len(Log)
<1>1. /\ Running /\ status[t] = "active" /\ AppendLog(r)
      /\ mem' = [p \in PageId |->
                     IF p \in Owned(t)
                     THEN [lsn |-> currentLsn + 1, val |-> Before(p, ChangesOf(t))]
                     ELSE mem[p]]
      /\ status' = [status EXCEPT ![t] = "ended"]
      /\ phase' = phase /\ page' = page
  BY DEF Abort, Active
<1>2. r \in Record /\ r.lsn = currentLsn + 1
  BY <1>1, NewRecords DEF AppendLog, Numbers
<1>3. r.txn = t /\ r.kind = "TXN_ABORT" /\ IsEnd(r) /\ ~IsChange(r)
  BY DEF EndRecord, IsEnd, IsChange, ChangeKinds
<1> HIDE DEF r
<1>4. LogNow(b) /\ PagesNow(b) /\ TypeInv /\ Log \in Seq(Record) /\ n \in Nat /\ n = currentLsn
  BY LogTyped DEF LoggedState, Numbers, LogNow
<1>5. Log' = G /\ phase = "running" /\ phase' = "running"
  BY <1>1, <1>2, AppendLogIs
<1>6. LogNow(b)'
  <2>1. status' = [status EXCEPT ![r.txn] = IF IsEnd(r) THEN "ended" ELSE "active"]
    BY <1>1, <1>3
  <2>2. QED
    BY <1>1, <1>2, <1>3, <1>4, <2>1, AppendLogged
<1>7. G[n + 1] = r /\ Len(G) = n + 1 /\ G \in Seq(Record) /\ Begins(G, Log)
  BY <1>2, <1>4, AppendBegins
<1> HIDE DEF G
<1>8. ASSUME NEW i \in 1..n, NEW p
      PROVE  /\ G[i] = Log[i] /\ (ChangeAt(G, i, p) <=> ChangeAt(Log, i, p))
             /\ IsFirst(G, i) <=> IsFirst(Log, i)
  BY <1>4, <1>7, BeginsChanges
<1>9. ASSUME NEW p \in PageId, p \notin Owned(t)
      PROVE  mem'[p] = mem[p] /\ ~Touches(G, n + 1, p)
  <2>1. \A j \in 1..(n + 1 - 1) : ~(ChangeAt(G, j, p) /\ G[j].txn = t)
    <3>1. n + 1 - 1 = n
      BY <1>4
    <3>2. QED
      BY <1>1, <1>4, <1>8, <1>9, <3>1, OwnedIs
  <2>2. ~ChangeAt(G, n + 1, p)
    BY <1>3, <1>7 DEF ChangeAt
  <2>3. QED
    BY <1>1, <1>3, <1>7, <1>9, <2>1, <2>2 DEF Touches
<1>10. ASSUME NEW p \in PageId, p \in Owned(t)
       PROVE  mem'[p].lsn = n + 1 /\ ImageOf(G, p, mem'[p])
  <2>1. mem'[p].lsn = n + 1 /\ mem'[p].val = Before(p, ChangesOf(t))
    BY <1>1, <1>4, <1>10
  <2>2. ChangesOf(t) \subseteq Record /\ p \in {q.page : q \in ChangesOf(t)}
    BY <1>1, <1>4, <1>10, ChangesAreRecords DEF Owned
  <2>3. PICK q \in ChangesOf(t) : /\ q.page = p
                                  /\ \A x \in ChangesOf(t) : x.page = p => q.lsn <= x.lsn
                                  /\ Before(p, ChangesOf(t)) = q.old
    BY <2>2, BeforeIs
  <2>4. \A x : x \in ChangesOf(t)
                 <=> \E i \in 1..n : x = Log[i] /\ IsChange(Log[i]) /\ Log[i].txn = t
    BY <1>4, ChangesOfIs
  <2>5. PICK f \in 1..n : q = Log[f] /\ IsChange(Log[f]) /\ Log[f].txn = t
    BY <2>3, <2>4
  <2>6. \A i \in 1..n : Log[i].lsn = i
    BY <1>4 DEF LogNow, LogSound, Numbered
  <2>7. IsFirst(Log, f)
    <3>1. SUFFICES ASSUME NEW i \in 1..(f - 1), IsChange(Log[i]), Log[i].page = p, Log[i].txn = t
                   PROVE  FALSE
      BY <2>3, <2>5 DEF IsFirst
    <3>2. i \in 1..n
      BY <3>1
    <3>3. Log[i] \in ChangesOf(t)
      BY <2>4, <3>1, <3>2
    <3>4. f <= i
      BY <2>3, <2>5, <2>6, <3>1, <3>2, <3>3
    <3>5. QED
      BY <3>4
  <2>8. Restores(G, n + 1, p, mem'[p].val)
    <3>1. f \in 1..(n + 1 - 1)
      OBVIOUS
    <3>2. ChangeAt(G, f, p) /\ G[f].txn = G[n + 1].txn /\ IsFirst(G, f) /\ mem'[p].val = G[f].old
      BY <1>3, <1>7, <1>8, <2>1, <2>3, <2>5, <2>7 DEF ChangeAt
    <3>3. QED
      BY <3>1, <3>2 DEF Restores
  <2>9. Touches(G, n + 1, p) /\ ~ChangeAt(G, n + 1, p)
    <3>1. f \in 1..(n + 1 - 1)
      OBVIOUS
    <3>2. ChangeAt(G, f, p) /\ G[f].txn = G[n + 1].txn
      BY <1>3, <1>7, <1>8, <2>3, <2>5, <2>6 DEF ChangeAt
    <3>3. QED
      BY <1>3, <1>7, <3>1, <3>2 DEF Touches, ChangeAt
  <2>10. QED
    BY <1>4, <1>7, <2>1, <2>8, <2>9 DEF ImageOf
<1>11. PagesNow(b)'
  BY <1>2, <1>4, <1>5, <1>1, <1>9, <1>10, PagesMore DEF G
<1>12. QED
  BY <1>6, <1>11 DEF LoggedState

\* Flush moves records from the buffer to the file.
LEMMA FlushLogged ==
    ASSUME Numbers, crashes = 0, NEW b \in Nat, LoggedState(b), Flush
    PROVE  LoggedState(b)'
<1>1. /\ phase = "running" /\ phase' = "running"
      /\ file' = file \o buffer /\ history' = history \o buffer /\ buffer' = <<>>
      /\ UNCHANGED <<currentLsn, mem, page, status>>
  BY DEF Flush, FlushInternal
<1>2. /\ file \o buffer \in Seq(Record) /\ history \o buffer \in Seq(Record)
      /\ Len(history \o buffer) = Len(history) + Len(buffer)
      /\ Len(history) \in Nat /\ Len(buffer) \in Nat
  BY ConcatProperties, LenProperties DEF Numbers, TypeInv, LogTypes
<1>3. Log' = Log /\ Written' = Written /\ Len(history) <= Len(history')
  BY <1>1, <1>2, ConcatEmptySeq DEF Log, Written
<1>4. LogNow(b) /\ PagesNow(b)
  BY DEF LoggedState
<1>5. b <= Len(history')
  BY <1>1, <1>2, <1>4 DEF LogNow
<1>6. LogNow(b)'
  BY <1>1, <1>3, <1>4, <1>5 DEF LogNow, Statuses
<1>7. PagesNow(b)'
  BY <1>1, <1>3, <1>4 DEF PagesNow
<1>8. QED
  BY <1>6, <1>7 DEF LoggedState

\* A page goes to disk.
LEMMA PageToDiskLogged ==
    ASSUME Numbers, crashes = 0, NEW b \in Nat, LoggedState(b), NEW p \in PageId, PageToDisk(p)
    PROVE  LoggedState(b)'
<1>1. /\ page' = [page EXCEPT ![p] = mem[p]] /\ page[p] # mem[p]
      /\ UNCHANGED <<file, buffer, kept, currentLsn, history, mem, phase, status>>
  BY DEF PageToDisk, walVars
<1>2. LogNow(b) /\ PagesNow(b) /\ Len(Log) \in Nat /\ Len(history) \in Nat /\ Len(history) <= Len(Log)
  BY LogTyped DEF LoggedState, Numbers
<1>3. LogNow(b)'
  BY <1>1, <1>2 DEF LogNow, Log, Written, Statuses
<1>4. phase # "truncating"
  BY <1>1, <1>2 DEF PagesNow
<1>5. ASSUME NEW q \in PageId PROVE ImageOf(Log, q, page'[q]) /\ Quiet(Log, q, page'[q].lsn, b)
  <2>1. CASE q = p
    <3>1. page'[q] = mem[q]
      BY <1>1, <2>1 DEF Numbers, TypeInv, PageTypes
    <3>2. ImageOf(Log, q, mem[q]) /\ Quiet(Log, q, mem[q].lsn, Len(Log))
      BY <1>2 DEF PagesNow
    <3>3. b <= Len(Log)
      BY <1>2 DEF LogNow
    <3>4. QED
      BY <1>2, <3>1, <3>2, <3>3, QuietLess
  <2>2. CASE q # p
    <3>1. page'[q] = page[q]
      BY <1>1, <2>2 DEF Numbers, TypeInv, PageTypes
    <3>2. QED
      BY <1>2, <3>1 DEF PagesNow
  <2>3. QED
    BY <2>1, <2>2
<1>6. PagesNow(b)'
  <2>1. Log' = Log
    BY <1>1 DEF Log
  <2>2. QED
    BY <1>1, <1>2, <1>4, <1>5, <2>1 DEF PagesNow
<1>7. QED
  BY <1>3, <1>6 DEF LoggedState

FollowsToEnd(s, H, b) == Follows(s, H, b) /\ b + Len(s) = Len(H)

\* What Truncate keeps, when the records are numbered by their places.
LEMMA KeptFollows ==
    ASSUME NEW s \in Seq(Record), NEW H \in Seq(Record), NEW b \in Nat, Follows(s, H, b),
           b + Len(s) = Len(H), NEW d \in Nat, b <= d, d <= Len(H),
           NEW I, I = (d - b + 1)..Len(s), NEW u, u = AtIndices(s, I)
    PROVE  FollowsToEnd(u, H, d)
<1>0. Len(s) \in Nat /\ Len(H) \in Nat
  BY LenProperties
<1>1. \A i \in 1..Len(s) : b + i \in 1..Len(H) /\ s[i] = H[b + i]
  BY <1>0 DEF Follows
<1>2. I \subseteq 1..Len(s)
  BY <1>0
<1>3. \A i \in I, k \in 1..Len(s) : i <= k => k \in I
  <2>1. \A i \in (d - b + 1)..Len(s), k \in 1..Len(s) : i <= k => k \in (d - b + 1)..Len(s)
    BY <1>0
  <2>2. QED
    BY <2>1
<1>4. Cardinality(I) = Len(H) - d
  <2>1. Cardinality((d - b + 1)..Len(s)) = Len(s) - (d - b)
    <3>1. d - b + 1 \in Int /\ Len(s) \in Int
      BY <1>0
    <3>2. Cardinality((d - b + 1)..Len(s)) = IF d - b + 1 > Len(s) THEN 0 ELSE Len(s) - (d - b + 1) + 1
      BY <3>1, FS_Interval
    <3>3. QED
      BY <1>0, <3>2
  <2>2. Len(s) - (d - b) = Len(H) - d
    BY <1>0
  <2>3. QED
    BY <2>1, <2>2
<1>5. /\ Len(AtIndices(s, I)) = Cardinality(I)
      /\ \A j \in 1..Cardinality(I) : AtIndices(s, I)[j] = s[NthIndex(I, j)]
  BY <1>2, AtIndicesType
<1>6. ASSUME NEW j \in 1..Cardinality(I) PROVE AtIndices(s, I)[j] = H[d + j]
  <2>1. NthIndex(I, j) = Len(s) - Cardinality(I) + j
    BY <1>0, <1>2, <1>3, NthIndexOfSuffix
  <2>2. NthIndex(I, j) \in 1..Len(s) /\ b + NthIndex(I, j) = d + j
    BY <1>0, <1>4, <2>1
  <2>3. QED
    BY <1>1, <1>5, <2>2
<1>7. d + Len(AtIndices(s, I)) = Len(H)
  BY <1>0, <1>4, <1>5
<1>8. \A j \in 1..Len(AtIndices(s, I)) : AtIndices(s, I)[j] = H[d + j]
  BY <1>5, <1>6
<1>9. QED
  BY <1>0, <1>7, <1>8 DEF Follows, FollowsToEnd

\* Truncate drops records, up to the checkpoint.
LEMMA TruncateBeginLogged ==
    ASSUME Numbers, crashes = 0, NEW b \in Nat, LoggedState(b), NEW lsn \in 1 .. currentLsn,
           TruncateBegin(lsn)
    PROVE  \E d \in Nat : LoggedState(d)'
<1> DEFINE s == file \o buffer
           d == IF lsn > b THEN lsn ELSE b
<1>1. /\ phase = "running" /\ phase' = "truncating" /\ page = mem
      /\ kept' = AtIndices(s, {i \in 1..Len(s) : Keeps(s[i], lsn)})
      /\ IF buffer = <<>> THEN UNCHANGED <<buffer, history>>
                          ELSE buffer' = <<>> /\ history' = history \o buffer
      /\ UNCHANGED <<currentLsn, mem, page, status>>
  BY DEF TruncateBegin
<1>2. LogNow(b) /\ PagesNow(b) /\ TypeInv
  BY DEF LoggedState, Numbers
<1>3. /\ Log \in Seq(Record) /\ Len(Log) \in Nat /\ Len(Log) = Len(history) + Len(buffer)
      /\ Len(history) \in Nat /\ Len(buffer) \in Nat /\ currentLsn = Len(Log)
      /\ s \in Seq(Record) /\ Len(s) \in Nat
  BY <1>2, LogTyped, ConcatProperties, LenProperties DEF LogNow, TypeInv, LogTypes
<1>4. Log' = Log /\ Len(history') = Len(Log)
  <2>1. CASE buffer = <<>>
    <3>1. Len(buffer) = 0
      BY <2>1, EmptySeq
    <3>2. QED
      BY <1>1, <1>3, <2>1, <3>1 DEF Log
  <2>2. CASE buffer # <<>>
    BY <1>1, <1>3, <2>2, ConcatEmptySeq DEF Log
  <2>3. QED
    BY <2>1, <2>2
<1>5. Follows(s, Log, b) /\ b + Len(s) = Len(Log) /\ Numbered(Log)
  BY <1>1, <1>2 DEF LogNow, Written, LogSound
<1>6. d \in Nat /\ b <= d /\ d <= Len(Log)
  <2>1. b <= Len(Log)
    BY <1>2, <1>3 DEF LogNow
  <2>2. QED
    BY <1>3, <2>1
<1>7. Follows(kept', Log, d) /\ d + Len(kept') = Len(Log)
  <2> DEFINE I == {i \in 1..Len(s) : Keeps(s[i], lsn)}
  <2>1. kept' = AtIndices(s, I) /\ I \subseteq 1..Len(s)
    BY <1>1
  <2>2. \A i \in 1..Len(s) : i \in I <=> s[i].lsn > lsn
    BY DEF Keeps
  <2>3. d - b + 1 \in Nat \ {0} /\ \A k \in Nat : b + k > lsn /\ k > 0 <=> k >= d - b + 1
    BY <1>3
  <2> HIDE DEF s, d, I
  <2>4. ASSUME NEW i \in 1..Len(s) PROVE b + i \in 1..Len(Log) /\ s[i].lsn = b + i
    <3>1. b + i \in 1..Len(Log)
      BY <1>3, <1>5
    <3>2. s[i] = Log[b + i]
      BY <1>5 DEF Follows
    <3>3. QED
      BY <1>5, <3>1, <3>2 DEF Numbered
  <2>5. \A i \in 1..Len(s) : i \in I <=> i >= d - b + 1
    BY <1>3, <2>2, <2>3, <2>4
  <2>6. I = (d - b + 1)..Len(s)
    <3>1. \A i : i \in (d - b + 1)..Len(s) <=> i \in 1..Len(s) /\ i >= d - b + 1
      BY <1>3, <2>3
    <3>2. QED
      BY <2>1, <2>5, <3>1
  <2>7. d \in Nat /\ b <= d /\ d <= Len(Log)
    BY <1>6
  <2>8. s \in Seq(Record) /\ Log \in Seq(Record) /\ Follows(s, Log, b) /\ b + Len(s) = Len(Log)
    BY <1>3, <1>5
  <2>9. FollowsToEnd(kept', Log, d)
    BY <2>1, <2>6, <2>7, <2>8, KeptFollows
  <2>10. QED
    BY <2>9 DEF FollowsToEnd
<1>8. LogNow(d)'
  <2>1. Written' = kept'
    BY <1>1 DEF Written
  <2>2. LogSound(Log) /\ Statuses /\ currentLsn = Len(Log)
    BY <1>2 DEF LogNow
  <2>3. Statuses'
    BY <1>1, <1>4, <2>2 DEF Statuses
  <2> HIDE DEF d
  <2>4. QED
    BY <1>1, <1>4, <1>6, <1>7, <2>1, <2>2, <2>3 DEF LogNow
<1>9. PagesNow(d)'
  <2> HIDE DEF d
  <2>1. ASSUME NEW p \in PageId PROVE Quiet(Log, p, mem[p].lsn, d)
    <3>1. Quiet(Log, p, mem[p].lsn, Len(Log))
      BY <1>2 DEF PagesNow
    <3>2. QED
      BY <1>3, <1>6, <3>1, QuietLess
  <2>2. QED
    BY <1>1, <1>2, <1>4, <2>1 DEF PagesNow
<1>10. QED
  BY <1>6, <1>8, <1>9 DEF LoggedState

\* The kept records are in the file.
LEMMA TruncateEndLogged ==
    ASSUME Numbers, crashes = 0, NEW b \in Nat, LoggedState(b), TruncateEnd
    PROVE  LoggedState(b)'
<1>1. /\ phase = "truncating" /\ phase' = "running" /\ file' = kept
      /\ UNCHANGED <<buffer, currentLsn, mem, page, status, history>>
  BY DEF TruncateEnd
<1>2. Written' = Written /\ Log' = Log
  <2>1. buffer = <<>> /\ kept \in Seq(Record)
    BY <1>1, InFirstLife DEF Numbers, TypeInv, LogTypes
  <2>2. QED
    BY <1>1, <2>1, ConcatEmptySeq DEF Written, Log
<1>3. LogNow(b)'
  BY <1>1, <1>2 DEF LoggedState, LogNow, Statuses
<1>4. PagesNow(b)'
  BY <1>1, <1>2 DEF LoggedState, PagesNow
<1>5. QED
  BY <1>3, <1>4 DEF LoggedState

-----------------------------------------------------------------------------
(***************************************************************************)
(* The first crash.                                                        *)
(***************************************************************************)

\* An image of a page that the log up to the mth record knows.
LEMMA ImageWithin ==
    ASSUME NEW H, NEW m \in Nat, NEW p, NEW x, NEW n \in Nat, ImageOf(H, p, x), x.lsn <= m,
           Quiet(H, p, x.lsn, n), \A c \in (m + 1)..Len(H) : ~Winner(H, c, p, Len(H)),
           Len(H) \in Nat
    PROVE  Within(H, m, p, x, n)
<1>1. x.lsn \in 0..m
  BY DEF ImageOf
<1>2. x.lsn > 0 /\ Winner(H, x.lsn, p, Len(H)) => x.val = H[x.lsn].new
  BY DEF ImageOf, Winner
<1>3. QED
  BY <1>1, <1>2 DEF Within, ImageOf

\* The first k of the elements of s, and the others.
LEMMA RestHas ==
    ASSUME NEW s \in Seq(Record), NEW k \in 0..Len(s), NEW i \in (k + 1)..Len(s)
    PROVE  s[i] \in ToSet(SubSeq(s, k + 1, Len(s)))
<1> DEFINE u == SubSeq(s, k + 1, Len(s))
<1>0. Len(s) \in Nat /\ k + 1 \in Nat \ {0}
  BY LenProperties
<1>1. \A j \in (k + 1)..Len(s) : s[j] \in Record
  BY <1>0, ElementOfSeq
<1>2. /\ u \in Seq(Record)
      /\ Len(u) = IF k + 1 <= Len(s) THEN Len(s) - (k + 1) + 1 ELSE 0
      /\ \A j \in 1..Len(s) - (k + 1) + 1 : u[j] = s[(k + 1) + j - 1]
  BY <1>0, <1>1, SubSeqProperties
<1>3. i - k \in 1..Len(s) - (k + 1) + 1 /\ (k + 1) + (i - k) - 1 = i
      /\ Len(u) = Len(s) - (k + 1) + 1
  BY <1>0, <1>2
<1>4. u[i - k] = s[i] /\ i - k \in 1..Len(u)
  BY <1>2, <1>3
<1> HIDE DEF u
<1>5. s[i] \in ToSet(u)
  BY <1>2, <1>4, LenProperties DEF ToSet
<1>6. QED
  BY <1>5 DEF u

\* A sequence continued with the beginning of another.
LEMMA ConcatBegins ==
    ASSUME NEW s \in Seq(Record), NEW u \in Seq(Record), NEW w \in Seq(Record), Begins(u, w)
    PROVE  /\ s \o w \in Seq(Record) /\ Len(s \o w) = Len(s) + Len(w)
           /\ Begins(s \o u, s \o w)
<1>1. /\ s \o w \in Seq(Record) /\ Len(s \o w) = Len(s) + Len(w)
      /\ Len(s \o u) = Len(s) + Len(u)
      /\ Len(s) \in Nat /\ Len(w) \in Nat /\ Len(u) \in Nat /\ Len(w) <= Len(u)
  BY ConcatProperties, LenProperties DEF Begins
<1>2. ASSUME NEW i \in 1..Len(s) + Len(w) PROVE (s \o w)[i] = (s \o u)[i]
  <2>1. /\ i \in 1..Len(s) + Len(u)
        /\ (s \o w)[i] = IF i <= Len(s) THEN s[i] ELSE w[i - Len(s)]
    BY <1>1, ConcatProperties
  <2>2. (s \o u)[i] = IF i <= Len(s) THEN s[i] ELSE u[i - Len(s)]
    BY <2>1, ConcatProperties
  <2>3. ~(i <= Len(s)) => i - Len(s) \in 1..Len(w)
    BY <1>1
  <2>4. ~(i <= Len(s)) => w[i - Len(s)] = u[i - Len(s)]
    BY <2>3 DEF Begins
  <2>5. QED
    BY <2>1, <2>2, <2>4
<1>3. QED
  BY <1>1, <1>2 DEF Begins

\* The beginning of what follows.
LEMMA BeginsFollow ==
    ASSUME NEW s \in Seq(Record), NEW u \in Seq(Record), NEW H \in Seq(Record),
           NEW G \in Seq(Record), NEW b \in Nat, Follows(s, H, b), Begins(s, u), Begins(H, G),
           b + Len(u) = Len(G)
    PROVE  Follows(u, G, b)
<1>1. Len(s) \in Nat /\ Len(u) \in Nat /\ Len(G) \in Nat /\ Len(u) <= Len(s)
  BY LenProperties DEF Begins
<1>2. ASSUME NEW i \in 1..Len(u) PROVE u[i] = G[b + i]
  <2>1. i \in 1..Len(s) /\ b + i \in 1..Len(G)
    BY <1>1
  <2>2. u[i] = s[i] /\ s[i] = H[b + i] /\ G[b + i] = H[b + i]
    BY <2>1 DEF Begins, Follows
  <2>3. QED
    BY <2>2
<1>3. QED
  BY <1>1, <1>2 DEF Follows

\* The records of s are those of H that follow b.
AreRecordsAfter(s, H, b) ==
    /\ \A i \in (b + 1)..(b + Len(s)) : H[i] \in ToSet(s)
    /\ \A r \in ToSet(s) : \E i \in (b + 1)..(b + Len(s)) : r = H[i]

LEMMA RecordsOf ==
    ASSUME NEW s \in Seq(Record), NEW H \in Seq(Record), NEW b \in Nat, Follows(s, H, b)
    PROVE  AreRecordsAfter(s, H, b)
<1>0. Len(s) \in Nat
  BY LenProperties
<1>1. ASSUME NEW i \in (b + 1)..(b + Len(s)) PROVE H[i] \in ToSet(s)
  <2>1. i - b \in 1..Len(s) /\ b + (i - b) = i
    BY <1>0
  <2>2. H[i] = s[i - b]
    BY <2>1 DEF Follows
  <2>3. QED
    BY <1>0, <2>1, <2>2, LenProperties DEF ToSet
<1>2. ASSUME NEW r \in ToSet(s) PROVE \E i \in (b + 1)..(b + Len(s)) : r = H[i]
  <2>1. PICK j \in 1..Len(s) : r = s[j]
    BY LenProperties DEF ToSet
  <2>2. b + j \in (b + 1)..(b + Len(s)) /\ r = H[b + j]
    BY <1>0, <2>1 DEF Follows
  <2>3. QED
    BY <2>2
<1>3. QED
  BY <1>1, <1>2 DEF AreRecordsAfter

\* What Truncate has dropped of a page that is not cut off.
LEMMA DroppedIs ==
    ASSUME NEW L \in Seq(Record), Numbered(L), NEW H \in Seq(Record), Begins(L, H), EndsLast(H),
           NEW b \in Nat, b <= Len(H), NEW w \in Seq(Record), w = file \o Unwritten,
           FollowsToEnd(w, L, b), NEW p, p \notin CutOff(ToSet(H))
    PROVE  Dropped(H, b, p)
<1> DEFINE dropped == ToSet(H) \ ToSet(w)
<1>0. Len(L) \in Nat /\ Len(H) \in Nat /\ Len(H) <= Len(L) /\ DOMAIN H = 1..Len(H)
  BY LenProperties DEF Begins
<1>1. /\ \A i \in (b + 1)..Len(L) : L[i] \in ToSet(w)
      /\ \A r \in ToSet(w) : \E i \in (b + 1)..Len(L) : r = L[i]
  <2>1. AreRecordsAfter(w, L, b) /\ b + Len(w) = Len(L)
    BY RecordsOf DEF FollowsToEnd
  <2>2. QED
    BY <2>1 DEF AreRecordsAfter
<1>2. \A i \in 1..Len(H) : i \in 1..Len(L) /\ H[i] = L[i] /\ L[i].lsn = i /\ H[i] \in ToSet(H)
  BY <1>0 DEF Begins, Numbered, ToSet
<1>3. ASSUME NEW i \in 1..Len(H) PROVE H[i] \in dropped <=> i <= b
  <2>1. ASSUME i > b PROVE H[i] \notin dropped
    <3>1. i \in (b + 1)..Len(L)
      BY <1>0, <2>1
    <3>2. QED
      BY <1>1, <1>2, <3>1
  <2>2. ASSUME i <= b, H[i] \in ToSet(w) PROVE FALSE
    <3>1. PICK k \in (b + 1)..Len(L) : H[i] = L[k]
      BY <1>1, <2>2
    <3>2. k \in 1..Len(L)
      BY <1>0
    <3>3. L[k].lsn = k /\ L[i].lsn = i /\ L[i] = L[k]
      BY <1>2, <3>1, <3>2 DEF Numbered
    <3>4. QED
      BY <2>2, <3>3
  <2>3. QED
    BY <1>2, <2>1, <2>2
<1>4. ASSUME NEW c \in 1..b, ChangeAt(H, c, p)
      PROVE  \/ H[c].txn \in With(ToSet(H), "TXN_COMMIT")
             \/ H[c].txn \in With(dropped, "TXN_ABORT")
  <2>1. c \in 1..Len(H)
    BY <1>0
  <2>2. H[c] \in dropped /\ IsChange(H[c]) /\ H[c].page = p
    BY <1>3, <1>4, <2>1 DEF ChangeAt
  <2>3. CutOff(ToSet(H)) = PagesOf({r \in dropped : /\ r.txn \notin With(ToSet(H), "TXN_COMMIT")
                                                    /\ r.txn \notin With(dropped, "TXN_ABORT")})
    BY DEF CutOff
  <2> HIDE DEF dropped
  <2>4. QED
    BY <2>2, <2>3 DEF PagesOf
\* So the transaction has ended, and by no abort after b.
<1>5. ASSUME NEW c \in 1..b, ChangeAt(H, c, p)
      PROVE  \E e \in 1..Len(H) : /\ EndAt(H, e, H[c].txn)
                                  /\ H[e].kind = "TXN_COMMIT" \/ e <= b
  <2>1. CASE H[c].txn \in With(ToSet(H), "TXN_COMMIT")
    <3>1. PICK r \in ToSet(H) : r.kind = "TXN_COMMIT" /\ r.txn = H[c].txn
      BY <2>1 DEF With
    <3>2. PICK e \in 1..Len(H) : r = H[e]
      BY <1>0 DEF ToSet
    <3>3. QED
      BY <3>1, <3>2 DEF EndAt, IsEnd
  <2>2. CASE H[c].txn \in With(dropped, "TXN_ABORT")
    <3>1. PICK r \in dropped : r.kind = "TXN_ABORT" /\ r.txn = H[c].txn
      BY <2>2 DEF With
    <3>2. PICK e \in 1..Len(H) : r = H[e]
      BY <1>0 DEF ToSet
    <3>3. e <= b
      BY <1>3, <3>2
    <3>4. QED
      BY <3>1, <3>2, <3>3 DEF EndAt, IsEnd
  <2>3. QED
    BY <1>4, <1>5, <2>1, <2>2
<1> HIDE DEF dropped
<1>6. ASSUME NEW c \in 1..b, ChangeAt(H, c, p) PROVE EndedIn(H, H[c].txn, Len(H))
  BY <1>5, <1>6 DEF EndedIn
<1>7. ASSUME NEW c \in 1..b, NEW a \in (b + 1)..Len(H), ChangeAt(H, c, p), H[a].kind = "TXN_ABORT",
             H[c].txn = H[a].txn
      PROVE  FALSE
  <2>1. PICK e \in 1..Len(H) : EndAt(H, e, H[c].txn) /\ (H[e].kind = "TXN_COMMIT" \/ e <= b)
    BY <1>5, <1>7
  <2>2. a \in 1..Len(H) /\ a > b
    BY <1>0
  <2>3. EndAt(H, a, H[c].txn)
    BY <1>7 DEF EndAt, IsEnd
  <2>4. a = e
    BY <2>1, <2>2, <2>3, EndsOnce
  <2>5. QED
    BY <1>7, <2>1, <2>2, <2>4
<1>8. QED
  BY <1>6, <1>7 DEF Dropped

\* The INSERTs of a page that has none to be undone.
LEMMA InsertsIs ==
    ASSUME NEW H, NEW F \in Seq(Record), NEW b \in Nat, Follows(F, H, b), NEW m, m = b + Len(F),
           NEW p, p \notin Inserted(ToSet(F))
    PROVE  InsertsCommitted(H, b, m, p)
<1>0. Len(F) \in Nat /\ DOMAIN F = 1..Len(F)
  BY LenProperties
<1>1. SUFFICES ASSUME NEW c \in (b + 1)..m, ChangeAt(H, c, p), H[c].kind = "INSERT"
               PROVE  CommittedIn(H, H[c].txn, m)
  BY DEF InsertsCommitted
<1>2. c - b \in 1..Len(F) /\ b + (c - b) = c
  BY <1>0
<1>3. H[c] \in ToSet(F)
  BY <1>0, <1>2 DEF Follows, ToSet
<1>4. H[c].txn \in With(ToSet(F), "TXN_COMMIT")
  BY <1>1, <1>3 DEF Inserted, PagesOf, ChangeAt
<1>5. PICK r \in ToSet(F) : r.kind = "TXN_COMMIT" /\ r.txn = H[c].txn
  BY <1>4 DEF With
<1>6. PICK i \in 1..Len(F) : r = F[i]
  BY <1>0 DEF ToSet
<1>7. b + i \in 1..m /\ H[b + i] = r
  BY <1>0, <1>6 DEF Follows
<1>8. QED
  BY <1>5, <1>7 DEF CommittedIn

\* The process dies for the first time, while the log grows.
LEMMA CrashRunning ==
    ASSUME Numbers, crashes = 0, NEW b \in Nat, LoggedState(b), phase # "truncating",
           NEW k \in 0 .. Len(Unwritten), Crash(k)
    PROVE  \E m \in Nat : CrashedState(b, m)'
<1> DEFINE new == SubSeq(buffer, 1, k)
           lost == SubSeq(buffer, k + 1, Len(buffer))
<1>1. /\ file' = file \o new /\ history' = history \o new /\ k \in 0..Len(buffer)
      /\ mem' = page /\ page' = page /\ phase' = "redo" /\ cursor' = 1 /\ live' = {} /\ todo' = {}
      /\ spoilt' = spoilt \cup Ahead(lost) \cup CutOff(ToSet(history')) \cup Torn(ToSet(file'))
                          \cup Inserted(ToSet(file'))
      /\ Unwritten = buffer
  BY DEF Crash, Unwritten
<1>2. LogNow(b) /\ PagesNow(b) /\ TypeInv
  BY DEF LoggedState, Numbers
<1>3. /\ Log \in Seq(Record) /\ Len(Log) = Len(history) + Len(buffer)
      /\ Len(Log) \in Nat /\ Len(history) \in Nat /\ Len(buffer) \in Nat /\ Len(file) \in Nat
      /\ file \in Seq(Record) /\ history \in Seq(Record) /\ buffer \in Seq(Record)
      /\ \A i \in 1..Len(history) : Log[i] = history[i]
      /\ \A i \in 1..Len(buffer) : Log[Len(history) + i] = buffer[i]
  BY <1>2, LogTyped, LenProperties DEF TypeInv, LogTypes
<1>4. new \in Seq(Record) /\ Len(new) = k /\ Begins(buffer, new)
  BY <1>1, <1>3, PrefixType DEF Begins
<1> HIDE DEF new
<1> PICK m \in Nat : m = Len(history) + k
  <2>1. Len(history) + k \in Nat
    BY <1>1, <1>3
  <2>2. QED
    BY <2>1
<1>5. m = Len(history) + k /\ Len(history) <= m /\ m <= Len(Log)
  BY <1>1, <1>3
<1>6. /\ history' \in Seq(Record) /\ Len(history') = m /\ Begins(Log, history')
      /\ file' \in Seq(Record) /\ Len(file') = Len(file) + k /\ Begins(file \o buffer, file')
  BY <1>1, <1>3, <1>4, ConcatBegins DEF Log
<1>7. Follows(file \o buffer, Log, b) /\ b + Len(file \o buffer) = Len(Log)
  BY <1>2 DEF LogNow, Written
<1>8. file \o buffer \in Seq(Record) /\ Len(file \o buffer) = Len(file) + Len(buffer)
  BY <1>3, ConcatProperties
<1>9. Follows(file', history', b) /\ b + Len(file') = m
  <2>1. b + Len(file') = Len(history')
    <3>1. b + Len(file) = Len(history)
      BY <1>3, <1>7, <1>8
    <3>2. k \in Nat
      BY <1>1, <1>3
    <3>3. Len(file') = Len(file) + k /\ Len(history') = Len(history) + k
      BY <1>5, <1>6
    <3>4. Len(file) \in Nat /\ Len(history) \in Nat
      BY <1>3
    <3>5. b + (Len(file) + k) = Len(history) + k
      BY <3>1, <3>2, <3>4
    <3>6. QED
      BY <3>3, <3>5
  <2>2. QED
    BY <1>3, <1>6, <1>7, <1>8, <2>1, BeginsFollow
<1> DEFINE G == history'
<1>10. G \in Seq(Record) /\ Len(G) = m /\ Begins(Log, G) /\ LogSound(G)
  <2>1. LogSound(Log)
    BY <1>2 DEF LogNow
  <2>2. QED
    BY <1>3, <1>6, <2>1, SoundPrefix
<1>11. ASSUME NEW p \in PageId \ spoilt' PROVE Dropped(G, b, p) /\ InsertsCommitted(G, b, m, p)
  <2>1. p \notin CutOff(ToSet(G)) /\ p \notin Inserted(ToSet(file'))
    BY <1>1, <1>11
  <2>2. FollowsToEnd(file \o buffer, Log, b) /\ file \o buffer = file \o Unwritten
    BY <1>1, <1>7 DEF FollowsToEnd
  <2>3. Numbered(Log) /\ EndsLast(G)
    BY <1>2, <1>10 DEF LogNow, LogSound
  <2>4. b <= Len(G)
    BY <1>2, <1>3, <1>5, <1>10 DEF LogNow
  <2> HIDE DEF G
  <2>5. Dropped(G, b, p)
    BY <1>3, <1>8, <1>10, <2>1, <2>2, <2>3, <2>4, DroppedIs
  <2>6. InsertsCommitted(G, b, m, p)
    <3>1. m = b + Len(file') /\ Follows(file', G, b)
      BY <1>9 DEF G
    <3>2. QED
      BY <1>6, <2>1, <3>1, InsertsIs
  <2>7. QED
    BY <2>5, <2>6
<1>12. ASSUME NEW p \in PageId PROVE NotTorn(G, b, m, p)
  <2>1. (m + 1)..m = {}
    BY <1>5
  <2> HIDE DEF G
  <2>2. ~Behind(G, p, m)
    BY <1>10, <2>1 DEF Behind
  <2>3. QED
    BY <1>10, <2>2 DEF NotTorn
<1>13. ASSUME NEW p \in PageId \ spoilt' PROVE Good(G, m, p, page[p], b)
  <2>0. p \notin Ahead(lost) /\ Numbered(Log)
    BY <1>1, <1>2, <1>13 DEF LogNow, LogSound
  <2>1. ImageOf(Log, p, page[p]) /\ Quiet(Log, p, page[p].lsn, b)
    BY <1>2 DEF PagesNow
  <2> DEFINE l == page[p].lsn
  <2>2. l \in 0..Len(Log)
    BY <2>1 DEF ImageOf
  <2>3. l <= m
    <3>1. SUFFICES ASSUME l > m PROVE FALSE
      BY <1>5, <2>2
    <3>2. /\ l - Len(history) \in (k + 1)..Len(buffer) /\ l - Len(history) \in 1..Len(buffer)
          /\ Len(history) + (l - Len(history)) = l /\ l \in 1..Len(Log)
      <4> HIDE DEF l
      <4>1. l \in Nat /\ l <= Len(Log) /\ l > Len(history) + k
        BY <1>3, <2>2, <3>1
      <4>2. QED
        BY <1>1, <1>3, <4>1
    <3>3. buffer[l - Len(history)] \in ToSet(lost)
      BY <1>1, <1>3, <3>2, RestHas
    <3>4. buffer[l - Len(history)] = Log[l]
      <4>1. Log[Len(history) + (l - Len(history))] = buffer[l - Len(history)]
        BY <1>3, <3>2
      <4>2. Len(history) + (l - Len(history)) = l
        BY <3>2
      <4> HIDE DEF l
      <4>3. QED
        BY <4>1, <4>2
    <3>5. Log[l].lsn = l
      BY <2>0, <3>2 DEF Numbered
    <3>6. p \in Ahead(lost)
      BY <3>3, <3>4, <3>5 DEF Ahead
    <3>7. QED
      BY <2>0, <3>6
  <2>4. ImageOf(G, p, page[p]) /\ Quiet(G, p, l, b)
    <3>1. l \in 0..m /\ b \in 0..m /\ l \in Nat
      BY <1>2, <1>3, <1>5, <2>2, <2>3 DEF LogNow
    <3> HIDE DEF G
    <3>2. QED
      BY <1>3, <1>10, <2>1, <3>1, BeginsImage, BeginsQuiet
  <2>5. (m + 1)..m = {}
    BY <1>5
  <2> HIDE DEF G
  <2>6. Within(G, m, p, page[p], b)
    BY <1>5, <1>10, <2>3, <2>4, <2>5, ImageWithin
  <2>7. QED
    BY <2>6 DEF Good
<1>14. LogLeft(b, m)' /\ PagesLeft(b, m)'
  <2>1. LogSound(history') /\ m = Len(history')
    BY <1>10
  <2>2. \A p \in PageId \ spoilt' :
           /\ Dropped(history', b, p) /\ NotTorn(history', b, m, p)
           /\ InsertsCommitted(history', b, m, p) /\ Good(history', m, p, page'[p], b)
    BY <1>1, <1>11, <1>12, <1>13
  <2> HIDE DEF G
  <2>3. QED
    BY <1>5, <1>6, <1>9, <2>1, <2>2 DEF LogLeft, PagesLeft
<1>15. QED
  BY <1>1, <1>5, <1>14, StartRecoverable

\* The end of a transaction comes after its changes.
LEMMA EndAfterChange ==
    ASSUME NEW H \in Seq(Record), EndsLast(H), NEW c \in 1..Len(H), IsChange(H[c]),
           NEW e \in 1..Len(H), EndAt(H, e, H[c].txn)
    PROVE  c < e
<1>1. Len(H) \in Nat
  BY LenProperties
<1>2. ~(e < c)
  BY DEF EndsLast, EndAt
<1>3. e # c
  BY DEF EndAt, IsEnd, IsChange, ChangeKinds
<1>4. QED
  BY <1>1, <1>2, <1>3

AbortsIn(H, t) == \E a \in 1..Len(H) : H[a].kind = "TXN_ABORT" /\ H[a].txn = t

\* What it means for a page not to be torn when the file gets back the records after
\* b and up to m of those that Truncate keeps.
LEMMA NotTornIs ==
    ASSUME TypeInv, NEW H \in Seq(Record), LogSound(H), NEW b \in Nat, Follows(kept, H, b),
           b + Len(kept) = Len(H), NEW F \in Seq(Record), Follows(F, H, b), NEW m \in Nat,
           m = b + Len(F), m <= Len(H), NEW p, p \notin Torn(ToSet(F)),
           NEW c \in (b + 1)..Len(H), ChangeAt(H, c, p)
    PROVE  /\ c <= m /\ EndedIn(H, H[c].txn, Len(H)) => EndedIn(H, H[c].txn, m)
           /\ c > m => /\ EndedIn(H, H[c].txn, Len(H))
                       /\ AbortsIn(H, H[c].txn) \/ p \notin SetBack(ToSet(F))
<1> DEFINE t == H[c].txn
<1>0. Len(H) \in Nat /\ kept \in Seq(Record) /\ EndsLast(H) /\ Numbered(H)
      /\ c \in 1..Len(H)
  BY LenProperties DEF TypeInv, LogTypes, LogSound
<1>1. /\ \A i \in (b + 1)..Len(H) : H[i] \in ToSet(kept)
      /\ \A r \in ToSet(kept) : \E i \in (b + 1)..Len(H) : r = H[i]
  <2>1. AreRecordsAfter(kept, H, b)
    BY <1>0, RecordsOf
  <2>2. QED
    BY <2>1 DEF AreRecordsAfter
<1>2. /\ \A i \in (b + 1)..m : H[i] \in ToSet(F)
      /\ \A r \in ToSet(F) : \E i \in (b + 1)..m : r = H[i]
  <2>1. AreRecordsAfter(F, H, b)
    BY RecordsOf
  <2>2. QED
    BY <2>1 DEF AreRecordsAfter
<1>3. H[c] \in ToSet(F) <=> c <= m
  <2>1. ASSUME H[c] \in ToSet(F) PROVE c <= m
    <3>1. PICK i \in (b + 1)..m : H[c] = H[i]
      BY <1>2, <2>1
    <3>2. i \in 1..Len(H)
      BY <1>0
    <3>3. H[c].lsn = c /\ H[i].lsn = i
      BY <1>0, <3>2 DEF Numbered
    <3>4. QED
      BY <3>1, <3>3
  <2>2. ASSUME c <= m PROVE H[c] \in ToSet(F)
    <3>1. c \in (b + 1)..m
      BY <2>2
    <3>2. QED
      BY <1>2, <3>1
  <2>3. QED
    BY <2>1, <2>2
<1>4. IsChange(H[c]) /\ H[c].page = p /\ H[c] \in ToSet(kept)
  BY <1>1 DEF ChangeAt
<1>5. /\ H[c] \in ToSet(F) => t \notin Over(ToSet(kept)) \/ t \in Over(ToSet(F))
      /\ H[c] \notin ToSet(F) => /\ t \in Over(ToSet(kept))
                                 /\ \/ t \in With(ToSet(kept), "TXN_ABORT")
                                    \/ p \notin SetBack(ToSet(F))
  BY <1>4 DEF Torn, PagesOf
<1>6. EndedIn(H, t, Len(H)) => t \in Over(ToSet(kept))
  <2>1. SUFFICES ASSUME NEW e \in 1..Len(H), EndAt(H, e, t) PROVE t \in Over(ToSet(kept))
    BY DEF EndedIn
  <2>2. c < e
    BY <1>0, <1>4, <2>1, EndAfterChange
  <2>3. e \in (b + 1)..Len(H)
    BY <1>0, <2>2
  <2>4. H[e] \in ToSet(kept) /\ H[e].txn = t /\ H[e].kind \in {"TXN_COMMIT", "TXN_ABORT"}
    BY <1>1, <2>1, <2>3 DEF EndAt, IsEnd
  <2>5. QED
    BY <2>4 DEF Over, With
<1>7. t \in Over(ToSet(kept)) => EndedIn(H, t, Len(H))
  <2>1. SUFFICES ASSUME NEW r \in ToSet(kept), r.txn = t, r.kind \in {"TXN_COMMIT", "TXN_ABORT"}
                 PROVE  EndedIn(H, t, Len(H))
    BY DEF Over, With
  <2>2. PICK i \in (b + 1)..Len(H) : r = H[i]
    BY <1>1
  <2>3. i \in 1..Len(H) /\ EndAt(H, i, t)
    BY <1>0, <2>1, <2>2 DEF EndAt, IsEnd
  <2>4. QED
    BY <2>3 DEF EndedIn
<1>8. t \in Over(ToSet(F)) => EndedIn(H, t, m)
  <2>1. SUFFICES ASSUME NEW r \in ToSet(F), r.txn = t, r.kind \in {"TXN_COMMIT", "TXN_ABORT"}
                 PROVE  EndedIn(H, t, m)
    BY DEF Over, With
  <2>2. PICK i \in (b + 1)..m : r = H[i]
    BY <1>2
  <2>3. i \in 1..m /\ EndAt(H, i, t)
    BY <2>1, <2>2 DEF EndAt, IsEnd
  <2>4. QED
    BY <2>3 DEF EndedIn
<1>9. t \in With(ToSet(kept), "TXN_ABORT") => AbortsIn(H, t)
  <2>1. SUFFICES ASSUME NEW r \in ToSet(kept), r.txn = t, r.kind = "TXN_ABORT"
                 PROVE  \E a \in 1..Len(H) : H[a].kind = "TXN_ABORT" /\ H[a].txn = t
    BY DEF With, AbortsIn
  <2>2. PICK i \in (b + 1)..Len(H) : r = H[i]
    BY <1>1
  <2>3. i \in 1..Len(H)
    BY <1>0
  <2>4. QED
    BY <2>1, <2>2, <2>3
<1>10. t \in With(ToSet(kept), "TXN_ABORT") => EndedIn(H, t, Len(H))
  BY <1>9 DEF AbortsIn, EndedIn, EndAt, IsEnd
<1>11. QED
  BY <1>3, <1>5, <1>6, <1>7, <1>8, <1>9, <1>10

\* The pages that are not torn, and the images on disk, in that crash.
LEMMA TruncatingNotTorn ==
    ASSUME TypeInv, NEW H \in Seq(Record), LogSound(H), NEW b \in Nat, Follows(kept, H, b),
           b + Len(kept) = Len(H), NEW F \in Seq(Record), Follows(F, H, b), NEW m \in Nat,
           m = b + Len(F), m <= Len(H), NEW p, p \notin Torn(ToSet(F))
    PROVE  NotTorn(H, b, m, p)
<1>0. Len(H) \in Nat /\ EndsLast(H) /\ Exclusive(H)
  BY LenProperties DEF LogSound
<1>1. ASSUME NEW c \in (b + 1)..m, ChangeAt(H, c, p),
             EndedIn(H, H[c].txn, Len(H)) \/ Behind(H, p, m)
      PROVE  EndedIn(H, H[c].txn, m)
  <2>0. c \in (b + 1)..Len(H) /\ c \in 1..Len(H) /\ c <= m
    BY <1>0
  <2>1. EndedIn(H, H[c].txn, Len(H)) => EndedIn(H, H[c].txn, m)
    BY <1>1, <2>0, NotTornIs
  <2>2. CASE Behind(H, p, m)
    <3>1. PICK d \in (m + 1)..Len(H) : ChangeAt(H, d, p)
      BY <2>2 DEF Behind
    <3>2. d \in (b + 1)..Len(H) /\ d \in 1..Len(H) /\ d > m /\ c < d
      BY <1>0
    <3>3. CASE H[d].txn = H[c].txn
      <4>1. EndedIn(H, H[d].txn, Len(H))
        BY <3>1, <3>2, NotTornIs
      <4>2. QED
        BY <2>1, <3>3, <4>1
    <3>4. CASE H[d].txn # H[c].txn
      <4>1. PICK e \in (c + 1)..(d - 1) : EndAt(H, e, H[c].txn)
        BY <1>0, <1>1, <2>0, <3>1, <3>2, <3>4 DEF Exclusive, ChangeAt
      <4>2. e \in 1..Len(H)
        BY <1>0, <2>0, <3>2
      <4>3. QED
        BY <2>1, <4>1, <4>2 DEF EndedIn
    <3>5. QED
      BY <3>3, <3>4
  <2>3. QED
    BY <1>1, <2>1, <2>2
<1>2. ASSUME Behind(H, p, m), NEW c \in (b + 1)..m, ChangeAt(H, c, p),
             ~CommittedIn(H, H[c].txn, m), NEW d \in (m + 1)..Len(H), Winner(H, d, p, Len(H))
      PROVE  FALSE
  <2>1. PICK a \in 1..m : H[a].kind = "TXN_ABORT" /\ H[a].txn = H[c].txn
    <3>1. EndedIn(H, H[c].txn, m)
      BY <1>1, <1>2
    <3>2. QED
      BY <1>2, <3>1, CommittedEnds
  <2>2. a \in 1..Len(H) /\ c \in 1..Len(H) /\ EndAt(H, a, H[c].txn)
    BY <1>0, <2>1 DEF EndAt, IsEnd
  <2>3. c < a
    BY <1>0, <1>2, <2>2, EndAfterChange DEF ChangeAt
  <2>4. a \in (b + 1)..m
    BY <2>3
  <2>5. H[a] \in ToSet(F) /\ H[c] \in ToSet(F)
    <3>1. AreRecordsAfter(F, H, b)
      BY RecordsOf
    <3>2. QED
      BY <2>4, <3>1 DEF AreRecordsAfter
  <2>6. p \in SetBack(ToSet(F))
    BY <1>2, <2>1, <2>5 DEF SetBack, PagesOf, With, ChangeAt
  <2>7. d \in (b + 1)..Len(H) /\ d > m /\ ChangeAt(H, d, p)
    BY <1>2 DEF Winner
  <2>8. PICK x \in 1..Len(H) : H[x].kind = "TXN_ABORT" /\ H[x].txn = H[d].txn
    <3>1. AbortsIn(H, H[d].txn)
      BY <2>6, <2>7, NotTornIs
    <3>2. QED
      BY <3>1 DEF AbortsIn
  <2>9. PICK y \in 1..Len(H) : H[y].kind = "TXN_COMMIT" /\ H[y].txn = H[d].txn
    BY <1>2 DEF Winner, CommittedIn
  <2>10. EndAt(H, x, H[d].txn) /\ EndAt(H, y, H[d].txn)
    BY <2>8, <2>9 DEF EndAt, IsEnd
  <2>11. x = y
    BY <1>0, <2>10, EndsOnce
  <2>12. QED
    BY <2>8, <2>9, <2>11
<1>3. QED
  BY <1>1, <1>2 DEF NotTorn

\* The images of those pages are good to recover from.
LEMMA TruncatingGood ==
    ASSUME TypeInv, NEW H \in Seq(Record), LogSound(H), NEW b \in Nat, Follows(kept, H, b),
           b + Len(kept) = Len(H), NEW F \in Seq(Record), Follows(F, H, b), NEW m \in Nat,
           m = b + Len(F), m <= Len(H), NEW p, p \notin Torn(ToSet(F)), Dropped(H, b, p),
           NEW x, ImageOf(H, p, x), Quiet(H, p, x.lsn, Len(H))
    PROVE  Good(H, m, p, x, b)
<1> DEFINE l == x.lsn
<1>0. Len(H) \in Nat /\ EndsLast(H) /\ b <= m /\ l \in 0..Len(H)
  BY LenProperties DEF LogSound, ImageOf
<1>1. NotTorn(H, b, m, p)
  BY TruncatingNotTorn
<1>2. CASE l <= m
  <2>1. \A j \in (l + 1)..Len(H) : ~Winner(H, j, p, Len(H))
    BY <1>0, QuietNoWinner
  <2>2. \A j \in (m + 1)..Len(H) : ~Winner(H, j, p, Len(H))
    BY <1>0, <1>2, <2>1
  <2>3. Quiet(H, p, l, b)
    BY <1>0, QuietLess
  <2>4. Within(H, m, p, x, b)
    BY <1>0, <1>2, <2>2, <2>3, ImageWithin
  <2>5. QED
    BY <2>4 DEF Good
<1>3. CASE l > m
  <2>0. l \in 1..Len(H) /\ l \in (m + 1)..Len(H) /\ l \in (b + 1)..Len(H) /\ Touches(H, l, p)
    BY <1>0, <1>3 DEF ImageOf
  <2>1. Behind(H, p, m)
    <3>1. CASE ChangeAt(H, l, p)
      BY <2>0, <3>1 DEF Behind
    <3>2. CASE ~ChangeAt(H, l, p)
      <4>1. PICK j \in 1..(l - 1) : ChangeAt(H, j, p) /\ H[j].txn = H[l].txn
        BY <2>0, <3>2 DEF Touches
      <4>2. H[l].kind = "TXN_ABORT" /\ EndAt(H, l, H[j].txn)
        BY <2>0, <3>2, <4>1 DEF Touches, EndAt, IsEnd
      <4>3. j \notin 1..b
        BY <2>0, <4>1, <4>2 DEF Dropped, ChangeAt
      <4>4. j \in 1..Len(H) /\ j > b
        BY <1>0, <2>0, <4>3
      <4>5. j > m
        <5>1. SUFFICES ASSUME j <= m PROVE FALSE
          BY <1>0, <4>4
        <5>2. EndedIn(H, H[j].txn, Len(H)) /\ j \in (b + 1)..m
          BY <2>0, <4>2, <4>4, <5>1 DEF EndedIn
        <5>3. EndedIn(H, H[j].txn, m)
          BY <1>1, <4>1, <5>2 DEF NotTorn
        <5>4. PICK e \in 1..m : EndAt(H, e, H[j].txn)
          BY <5>3 DEF EndedIn
        <5>5. e \in 1..Len(H)
          BY <1>0
        <5>6. e = l
          BY <1>0, <2>0, <4>2, <5>4, <5>5, EndsOnce
        <5>7. QED
          BY <1>3, <5>6
      <4>6. j \in (m + 1)..Len(H)
        BY <4>4, <4>5
      <4>7. QED
        BY <4>1, <4>6 DEF Behind
    <3>3. QED
      BY <3>1, <3>2
  <2>2. ASSUME ChangeAt(H, l, p) PROVE CommittedIn(H, H[l].txn, Len(H))
    <3>1. EndedIn(H, H[l].txn, Len(H))
      BY <1>3, <2>0, <2>2, NotTornIs
    <3>2. SUFFICES ASSUME NEW a \in 1..Len(H), H[a].kind = "TXN_ABORT", H[a].txn = H[l].txn
                   PROVE  FALSE
      BY <1>0, <3>1, CommittedEnds
    <3>3. EndAt(H, a, H[l].txn)
      BY <3>2 DEF EndAt, IsEnd
    <3>4. l < a
      BY <1>0, <2>0, <2>2, <3>3, EndAfterChange DEF ChangeAt
    <3>5. a \in (l + 1)..Len(H) /\ l \in 1..(a - 1)
      BY <1>0, <2>0, <3>4
    <3>6. Touches(H, a, p)
      BY <2>2, <3>2, <3>5 DEF Touches
    <3>7. QED
      BY <3>5, <3>6 DEF Quiet
  <2>3. HoldsCommitted(H, p, Len(H), x.val)
    BY <2>2, ImageCommitted
  <2>4. QED
    BY <1>3, <2>1, <2>3 DEF Good, Beyond
<1>4. QED
  BY <1>0, <1>2, <1>3

\* The process dies for the first time in the middle of Truncate.
LEMMA CrashTruncating ==
    ASSUME Numbers, crashes = 0, NEW b \in Nat, LoggedState(b), phase = "truncating",
           NEW k \in 0 .. Len(Unwritten), Crash(k)
    PROVE  \E m \in Nat : CrashedState(b, m)'
<1>0. file = <<>> /\ buffer = <<>>
  BY InFirstLife
<1>1. /\ file' = file \o SubSeq(kept, 1, k) /\ history' = history /\ k \in 0..Len(kept)
      /\ mem' = page /\ page' = page /\ phase' = "redo" /\ cursor' = 1 /\ live' = {} /\ todo' = {}
      /\ \A p : p \notin spoilt' => /\ p \notin CutOff(ToSet(history'))
                                    /\ p \notin Torn(ToSet(file'))
                                    /\ p \notin Inserted(ToSet(file'))
      /\ Unwritten = kept
  BY DEF Crash, Unwritten
<1>2. LogNow(b) /\ PagesNow(b) /\ TypeInv
  BY DEF LoggedState, Numbers
<1>3. history \in Seq(Record) /\ kept \in Seq(Record) /\ Len(history) \in Nat /\ Len(kept) \in Nat
  BY <1>2, LenProperties DEF TypeInv, LogTypes
<1>4. Log = history
  BY <1>0, <1>3, ConcatEmptySeq DEF Log
<1>5. /\ LogSound(history)
      /\ Follows(kept, history, b) /\ b + Len(kept) = Len(history)
  BY <1>2, <1>4 DEF LogNow, Written
<1>6. file' \in Seq(Record) /\ Len(file') = k /\ Begins(kept, file')
  <2>1. SubSeq(kept, 1, k) \in Seq(Record) /\ Len(SubSeq(kept, 1, k)) = k
        /\ Begins(kept, SubSeq(kept, 1, k))
    BY <1>1, <1>3, PrefixType DEF Begins
  <2>2. file' = SubSeq(kept, 1, k)
    BY <1>0, <1>1, <2>1, ConcatEmptySeq
  <2>3. QED
    BY <2>1, <2>2
<1> PICK m \in Nat : m = b + k
  <2>1. b + k \in Nat
    BY <1>1, <1>3
  <2>2. QED
    BY <2>1
<1>7. m = b + Len(file') /\ m <= Len(history) /\ b <= m
  <2>1. k \in Nat /\ k <= Len(kept) /\ b + Len(kept) = Len(history) /\ Len(file') = k
    BY <1>1, <1>3, <1>5, <1>6
  <2>2. m = b + k /\ Len(kept) \in Nat
    BY <1>3
  <2>3. m <= Len(history) /\ b <= m
    BY <1>3, <2>1, <2>2
  <2>4. QED
    BY <2>1, <2>2, <2>3
<1>8. Follows(file', history, b)
  <2>1. \A i \in 1..Len(file') : i \in 1..Len(kept)
    BY <1>1, <1>3, <1>6
  <2>2. QED
    BY <1>5, <1>6, <1>7, <2>1 DEF Follows, Begins
<1>9. ASSUME NEW p \in PageId \ spoilt'
      PROVE  /\ Dropped(history, b, p) /\ NotTorn(history, b, m, p)
             /\ InsertsCommitted(history, b, m, p) /\ Good(history, m, p, page[p], b)
  <2>0. Dropped(history, b, p)
    <3>1. FollowsToEnd(kept, history, b) /\ p \notin CutOff(ToSet(history))
      BY <1>1, <1>5 DEF FollowsToEnd
    <3>2. kept = file \o Unwritten
      BY <1>0, <1>1, <1>3, ConcatEmptySeq
    <3>3. Numbered(history) /\ EndsLast(history) /\ b <= Len(history)
      BY <1>3, <1>5, <1>7 DEF LogSound
    <3>4. Begins(history, history)
      BY <1>3 DEF Begins
    <3>5. QED
      BY <1>3, <3>1, <3>2, <3>3, <3>4, DroppedIs
  <2>1. p \notin Torn(ToSet(file')) /\ p \notin Inserted(ToSet(file'))
    BY <1>1
  <2>2. ImageOf(history, p, page[p]) /\ Quiet(history, p, page[p].lsn, Len(history))
    BY <1>2, <1>4 DEF PagesNow
  <2>3. NotTorn(history, b, m, p)
    BY <1>2, <1>3, <1>5, <1>6, <1>7, <1>8, <2>1, TruncatingNotTorn
  <2>4. Good(history, m, p, page[p], b)
    BY <1>2, <1>3, <1>5, <1>6, <1>7, <1>8, <2>0, <2>1, <2>2, TruncatingGood
  <2>5. InsertsCommitted(history, b, m, p)
    BY <1>6, <1>7, <1>8, <2>1, InsertsIs
  <2>6. QED
    BY <2>0, <2>3, <2>4, <2>5
<1>10. LogLeft(b, m)' /\ PagesLeft(b, m)'
  BY <1>1, <1>5, <1>7, <1>8, <1>9 DEF LogLeft, PagesLeft
<1>11. QED
  BY <1>1, <1>10, StartRecoverable

-----------------------------------------------------------------------------
(***************************************************************************)
(* The invariant, and the theorem.                                         *)
(***************************************************************************)

\* The empty log.
LEMMA InitRecoverable == Init => Recoverable
<1> SUFFICES ASSUME Init PROVE Recoverable
  OBVIOUS
<1>1. /\ file = <<>> /\ buffer = <<>> /\ history = <<>> /\ currentLsn = 0 /\ phase = "running"
      /\ mem = [p \in PageId |-> EmptyPage] /\ page = mem /\ crashes = 0
  BY DEF Init
<1>2. Log = <<>> /\ Written = <<>> /\ Len(Log) = 0 /\ <<>> \in Seq(Record) /\ Len(<<>>) = 0
  BY <1>1, EmptySeq, ConcatEmptySeq DEF Log, Written
<1>3. 1..0 = {} /\ (0 + 1)..0 = {}
  OBVIOUS
<1>4. LogSound(Log)
  BY <1>2, <1>3 DEF LogSound, Numbered, EndsLast, Exclusive, OldsCommitted
<1>5. Follows(Written, Log, 0) /\ Statuses
  BY <1>2, <1>3 DEF Follows, Statuses
<1>6. LogNow(0)
  <2>1. 0 <= Len(history) /\ currentLsn = Len(Log) /\ 0 + Len(Written) = Len(Log)
    BY <1>1, <1>2
  <2>2. QED
    BY <1>4, <1>5, <2>1 DEF LogNow
<1>7. \A p \in PageId : ImageOf(Log, p, EmptyPage) /\ Quiet(Log, p, EmptyPage.lsn, 0)
  BY <1>2, <1>3 DEF ImageOf, Quiet, EmptyPage
<1>8. PagesNow(0)
  BY <1>1, <1>2, <1>7 DEF PagesNow
<1>9. QED
  BY <1>1, <1>6, <1>8 DEF Recoverable, LoggedState

\* The steps of a process that has not died yet.
LEMMA LoggedNext ==
    ASSUME Numbers, crashes = 0, NEW b \in Nat, LoggedState(b), [Next]_vars
    PROVE  \/ crashes' = 0 /\ \E d \in Nat : LoggedState(d)'
           \/ crashes' = 1 /\ \E m \in Nat : CrashedState(b, m)'
<1>1. ASSUME NEW t \in Txn, Begin(t) \/ Commit(t) \/ Abort(t)
      PROVE  crashes' = 0 /\ LoggedState(b)'
  <2>1. crashes' = crashes
    BY <1>1 DEF Begin, Commit, Abort
  <2>2. QED
    BY <1>1, <2>1, BeginLogged, AbortLogged
<1>2. ASSUME NEW t \in Txn, NEW p \in PageId, NEW kind \in Kinds, Change(t, p, kind)
      PROVE  crashes' = 0 /\ LoggedState(b)'
  <2>1. crashes' = crashes
    BY <1>2 DEF Change
  <2>2. QED
    BY <1>2, <2>1, ChangeLogged
<1>3. CASE Flush
  BY <1>3, FlushLogged DEF Flush
<1>4. ASSUME NEW p \in PageId, PageToDisk(p) PROVE crashes' = 0 /\ LoggedState(b)'
  BY <1>4, PageToDiskLogged DEF PageToDisk
<1>5. ASSUME NEW lsn \in 1 .. currentLsn, TruncateBegin(lsn)
      PROVE  crashes' = 0 /\ \E d \in Nat : LoggedState(d)'
  <2>1. crashes' = crashes
    BY <1>5 DEF TruncateBegin
  <2>2. QED
    BY <1>5, <2>1, TruncateBeginLogged
<1>6. CASE TruncateEnd
  BY <1>6, TruncateEndLogged DEF TruncateEnd
<1>7. ASSUME NEW k \in 0 .. Len(Unwritten), Crash(k)
      PROVE  crashes' = 1 /\ \E m \in Nat : CrashedState(b, m)'
  <2>1. crashes' = 1
    BY <1>7 DEF Crash
  <2>2. QED
    BY <1>7, <2>1, CrashRunning, CrashTruncating
<1>8. CASE \/ RedoChange \/ RedoBegin \/ RedoCommit \/ RedoAbort
           \/ UndoOne \/ EndOfLog \/ EndRecover
  <2>1. phase \in {"running", "truncating"} /\ todo = {}
    BY InFirstLife DEF Numbers, TypeInv, ScanTypes
  <2>2. QED
    BY <1>8, <2>1
    DEF RedoChange, RedoBegin, RedoCommit, RedoAbort, UndoOne, EndOfLog, EndRecover, At
<1>9. CASE UNCHANGED vars
  <2>1. UNCHANGED <<file, buffer, kept, history, currentLsn, mem, page, status, phase, crashes>>
    BY <1>9 DEF vars, walVars
  <2>2. LogNow(b)' /\ PagesNow(b)'
    BY <2>1 DEF LoggedState, LogNow, PagesNow, Log, Written, Statuses
  <2>3. QED
    BY <2>1, <2>2 DEF LoggedState
<1>10. QED
  BY <1>1, <1>2, <1>3, <1>4, <1>5, <1>6, <1>7, <1>8, <1>9 DEF Next

\* The steps of one that has, when it logs nothing any more.
LEMMA CrashedNext ==
    ASSUME Epochs <= 1, Numbers, crashes > 0, NEW b \in Nat, NEW m \in Nat, CrashedState(b, m),
           [Next]_vars
    PROVE  crashes' > 0 /\ CrashedState(b, m)'
<1>0. /\ TypeInv /\ phase \in {"redo", "undo", "recovered"} /\ buffer = <<>>
      /\ crashes \in Nat /\ Epochs \in Nat /\ ~Running
  BY LimitAssumption DEF Numbers, LaterLives, TypeInv, CallTypes, Running
<1>1. ASSUME NEW t \in Txn,
             \/ Begin(t) \/ Commit(t) \/ Abort(t)
             \/ \E p \in PageId, kind \in Kinds : Change(t, p, kind)
      PROVE  FALSE
  BY <1>0, <1>1 DEF Begin, Commit, Abort, Change, Active
<1>2. ~Flush /\ ~TruncateEnd /\ \A lsn : ~TruncateBegin(lsn)
  BY <1>0 DEF Flush, TruncateEnd, TruncateBegin
<1>3. ASSUME NEW p \in PageId, PageToDisk(p) PROVE crashes' > 0 /\ CrashedState(b, m)'
  <2>1. crashes' = crashes
    BY <1>3 DEF PageToDisk
  <2>2. QED
    BY <1>0, <1>3, <2>1, PageToDiskRecoverable
<1>4. ASSUME NEW k \in 0 .. Len(Unwritten), Crash(k) PROVE crashes' > 0 /\ CrashedState(b, m)'
  <2>1. crashes' = crashes + 1
    BY <1>4 DEF Crash
  <2>2. CrashedState(b, m)'
    BY <1>0, <1>4, CrashAgainRecoverable
  <2>3. QED
    BY <1>0, <2>1, <2>2
<1>5. CASE \/ RedoChange \/ RedoBegin \/ RedoCommit \/ RedoAbort
           \/ UndoOne \/ EndOfLog \/ EndRecover
  <2>1. crashes' = crashes
    BY <1>5 DEF RedoChange, RedoBegin, RedoCommit, RedoAbort, UndoOne, EndOfLog, EndRecover,
                Recovering
  <2>2. QED
    BY <1>0, <1>5, <2>1, RecoverRecoverable
<1>6. CASE UNCHANGED vars
  <2>1. UNCHANGED <<file, history, mem, page, phase, cursor, live, todo, todoLsn, crashes, spoilt>>
    BY <1>6 DEF vars, walVars, recoverVars
  <2>2. LogLeft(b, m)' /\ PagesLeft(b, m)'
    BY <2>1 DEF CrashedState, LogLeft, PagesLeft
  <2>3. phase' = "redo" => RedoState(b, m)'
    BY <2>1 DEF CrashedState, RedoState, Seen, Touched
  <2>4. phase' \in {"undo", "recovered"} => UndoState(b, m)'
    BY <2>1 DEF CrashedState, UndoState
  <2>5. QED
    BY <2>1, <2>2, <2>3, <2>4 DEF CrashedState
<1>7. QED
  BY <1>1, <1>2, <1>3, <1>4, <1>5, <1>6 DEF Next

\* Every step keeps the invariant.
LEMMA NextRecoverable ==
    ASSUME Epochs <= 1, Numbers, Recoverable, [Next]_vars
    PROVE  Recoverable'
<1>1. crashes \in Nat
  BY LimitAssumption DEF Numbers, TypeInv, CallTypes
<1>2. CASE crashes = 0
  <2>1. PICK b \in Nat : LoggedState(b)
    BY <1>2 DEF Recoverable
  <2>2. \/ crashes' = 0 /\ \E d \in Nat : LoggedState(d)'
        \/ crashes' = 1 /\ \E m \in Nat : CrashedState(b, m)'
    BY <1>2, <2>1, LoggedNext
  <2>3. QED
    BY <2>2 DEF Recoverable
<1>3. CASE crashes > 0
  <2>1. PICK b \in Nat, m \in Nat : CrashedState(b, m)
    BY <1>3 DEF Recoverable
  <2>2. crashes' > 0 /\ CrashedState(b, m)'
    BY <1>3, <2>1, CrashedNext
  <2>3. crashes' # 0
    BY <2>2
  <2>4. QED
    BY <2>2, <2>3 DEF Recoverable
<1>4. QED
  BY <1>1, <1>2, <1>3

\* It says what RecoveredUnlessSpoilt says.
LEMMA RecoverableRecovered == Numbers /\ Recoverable => RecoveredUnlessSpoilt
<1> SUFFICES ASSUME Numbers, Recoverable, phase = "recovered" PROVE RecoveredUnlessSpoilt
  BY DEF RecoveredUnlessSpoilt
<1>1. crashes \in Nat /\ crashes # 0
  BY InFirstLife, LimitAssumption DEF Numbers, TypeInv, CallTypes
<1>2. PICK b \in Nat, m \in Nat : CrashedState(b, m)
  BY <1>1 DEF Recoverable
<1>3. QED
  BY <1>2, CrashedRecovered DEF Numbers

\* Whatever transactions change and wherever the process dies, in an append, a Flush or
\* a Truncate, and again in Recover, Recover leaves in a page what the committed
\* transactions of the log left there, if the log was written in one life of the process
\* and none of the four things at Crash has happened to the page: the pool wrote a change
\* that the crash lost from the log, Truncate dropped a change that was still to be
\* undone, Truncate was cut short with part of the page's story in the file, or an INSERT
\* into the page is to be undone.
THEOREM RecoversUnlessSpoilt == Epochs <= 1 => (Spec => []RecoveredUnlessSpoilt)
<1>1. SUFFICES ASSUME Epochs <= 1 PROVE Spec => []RecoveredUnlessSpoilt
  OBVIOUS
<1>2. Numbers /\ Recoverable /\ [Next]_vars => Recoverable'
  BY <1>1, NextRecoverable
<1>3. Spec => []Recoverable
  BY <1>2, InitRecoverable, NumbersAlways, PTL DEF Spec
<1>4. QED
  BY <1>3, NumbersAlways, RecoverableRecovered, PTL
=============================================================================
