----------------------------- MODULE MvccProofs -----------------------------
(***************************************************************************)
(* Theorems about Mvcc, for every number of sessions and transactions, of  *)
(* restarts and of tuples, and every size of page and commit log.          *)
(*                                                                         *)
(* Inv relates what is known of a transaction in five places: the state in *)
(* memory, the session that runs it, the commit log's buffer, its file,    *)
(* and the snapshots.  SeenInv adds what the tuples say of it, which holds *)
(* only while no tuple is deleted again after its deleter aborted.         *)
(***************************************************************************)
EXTENDS Mvcc, IndexProofs, SequenceTheorems

\* Ids are given out in order, and the active ones are those that run.
IdsInOrder ==
    /\ \A t \in TxnId : txnStates[t] = "INVALID" <=> nextTxnId <= t
    /\ \A t \in TxnId : t \in activeTxns <=> txnStates[t] = "RUNNING"

\* A session runs one transaction, which no other session runs.
SessionsApart ==
    /\ \A c \in Session : session[c].at = "idle" => session[c] = Idle
    /\ \A c \in Session : session[c].at # "idle" =>
          /\ session[c].txn \in TxnId
          /\ InClog(session[c].txn)
          /\ txnStates[session[c].txn] # "INVALID"
    /\ \A c \in Session : session[c].at \in {"active", "reading"} =>
          txnStates[session[c].txn] = "RUNNING"
    /\ \A c \in Session : session[c].at \in {"log", "flush"} => Ended(session[c].txn)
    /\ \A c, d \in Session :
          session[c].at # "idle" /\ session[c].txn = session[d].txn => c = d

\* How far the outcome of a transaction of this life has got.
Logged ==
    /\ ~clogDirty => clogFile = clog
    /\ \A t \in TxnId : Ended(t) => InClog(t)
    /\ \A c \in Session : session[c].at = "flush" =>
          clog[session[c].txn] = txnStates[session[c].txn]
    /\ \A t \in TxnId : Told(t) => clog[t] = txnStates[t] /\ clogFile[t] = txnStates[t]

\* What callers were told in an earlier life is in the commit log, until the id is
\* begun again.
Remembered ==
    \A t \in TxnId : InClog(t) /\ txnStates[t] = "INVALID" /\ answers[t] # "INVALID" =>
        clog[t] = answers[t] /\ clogFile[t] = answers[t]

\* A snapshot's active set is what ran when it was taken; what it does not
\* hold, up to its own transaction, has committed, and was seen, or aborted.
SnapshotsRight ==
    \A t \in activeTxns :
        /\ snapshots[t].xmax = t + 1
        /\ t \in snapshots[t].active
        /\ \A u \in snapshots[t].active : snapshots[t].xmin <= u /\ u <= t
        /\ \A u \in TxnId : u <= t /\ u \notin snapshots[t].active =>
              txnStates[u] = IF u \in seen[t] THEN "COMMITTED" ELSE "ABORTED"
        /\ \A u \in seen[t] : u < t /\ u \notin snapshots[t].active

\* The free space begins where the last tuple does.
FreeSpaceRight ==
    freeSpaceOffset = IF slots = <<>> THEN PageUserDataSize ELSE slots[Len(slots)].offset

\* A reader has the slot of a tuple of the page.
ReadersRight ==
    \A c \in Session : session[c].at = "reading" => session[c].slot \in DOMAIN slots

Inv ==
    /\ TypeOK /\ IdsInOrder /\ SessionsApart /\ Logged /\ Remembered /\ SnapshotsRight
    /\ FreeSpaceRight /\ TuplesDisjoint /\ ReadersRight

-----------------------------------------------------------------------------
\* A header, of a tuple or copied from one: its xmin and its xmax have begun,
\* and its hint bits tell how they ended.
HeaderRight(h) ==
    /\ h.xmin \in TxnId /\ txnStates[h.xmin] # "INVALID"
    /\ h.xmax # NoTxn => h.xmax \in TxnId /\ txnStates[h.xmax] # "INVALID"
    /\ "xminCommitted" \in h.hints => txnStates[h.xmin] = "COMMITTED"
    /\ "xminAborted" \in h.hints => txnStates[h.xmin] = "ABORTED"
    /\ "xmaxCommitted" \in h.hints => h.xmax # NoTxn /\ txnStates[h.xmax] = "COMMITTED"
    /\ "xmaxAborted" \in h.hints => h.xmax # NoTxn /\ txnStates[h.xmax] = "ABORTED"

\* A tuple has one deleter, its own transaction or one that found it committed.
TuplesRight ==
    \A s \in DOMAIN slots :
        /\ HeaderRight(slots[s])
        /\ \A u \in TxnId : <<s, u>> \in deleted <=> slots[s].xmax = u
        /\ slots[s].xmax \notin {NoTxn, slots[s].xmin} =>
              txnStates[slots[s].xmin] = "COMMITTED"

\* A copied header is as the tuple is, but for a deletion since then, which is
\* none that its reader could see.
CopiesRight ==
    \A c \in Session : session[c].at = "reading" =>
        LET t == session[c].txn
            s == session[c].slot
            h == session[c].header
        IN  /\ HeaderRight(h)
            /\ h.xmin = slots[s].xmin
            /\ \/ h.xmax = slots[s].xmax
               \/ h.xmax = NoTxn /\ slots[s].xmax \notin seen[t] \cup {t}

SeenInv == TuplesRight /\ CopiesRight

-----------------------------------------------------------------------------
(***************************************************************************)
(* Inv is inductive.                                                       *)
(***************************************************************************)

LEMMA SlotDirEndType ==
    ASSUME NEW n \in Nat
    PROVE  SlotDirEnd(n) \in Nat /\ SlotDirEnd(n + 1) = SlotDirEnd(n) + SlotEntrySize
<1>1. \A i, j \in Nat : i * j \in Nat /\ (i + 1) * j = i * j + j
  OBVIOUS
<1>2. n * SlotEntrySize \in Nat /\ (n + 1) * SlotEntrySize = n * SlotEntrySize + SlotEntrySize
  BY <1>1, SizeAssumption
<1> HIDE DEF SlotDirEnd
<1>3. QED
  BY <1>2, SizeAssumption DEF SlotDirEnd

\* The records that session takes on.
LEMMA SessionTypes ==
    ASSUME TypeOK
    PROVE  /\ NoTuple \in Tuple
           /\ Idle \in SessionRecord
           /\ \A c \in Session : session[c] \in SessionRecord
           /\ \A c \in Session : session[c].txn \in 0 .. MaxTxn
           /\ \A t \in 0 .. MaxTxn : [Idle EXCEPT !.at = "active", !.txn = t] \in SessionRecord
<1>1. NoTuple \in Tuple
  BY SizeAssumption, TxnAssumption DEF NoTuple, Tuple, NoTxn
<1>2. Idle \in SessionRecord
  BY <1>1, TxnAssumption DEF Idle, SessionRecord, NoTxn
<1>3. \A c \in Session : session[c] \in SessionRecord
  BY DEF TypeOK
<1>4. QED
  BY <1>1, <1>2, <1>3 DEF SessionRecord

LEMMA ClogTypes ==
    ASSUME TypeOK, NEW t \in TxnId, InClog(t)
    PROVE  /\ t \in 0 .. MaxTransactions - 1
           /\ clog[t] \in ClogStatus /\ clogFile[t] \in ClogStatus
<1>1. t \in 0 .. MaxTransactions - 1
  BY TxnAssumption, MaxTransactionsAssumption DEF InClog, TxnId
<1>2. QED
  BY <1>1 DEF TypeOK

\* Only the place where a session is changes.
LEMMA SessionAt ==
    ASSUME TypeOK, NEW c \in Session, NEW a \in {"log", "flush"},
           session' = [session EXCEPT ![c].at = a]
    PROVE  /\ session' \in [Session -> SessionRecord]
           /\ session'[c].at = a
           /\ \A d \in Session : session'[d].txn = session[d].txn
           /\ \A d \in Session \ {c} : session'[d] = session[d]
<1>1. session[c] \in SessionRecord /\ session \in [Session -> SessionRecord]
  BY DEF TypeOK
<1>2. session'[c] = [session[c] EXCEPT !.at = a]
  BY <1>1
<1>3. /\ session'[c] \in SessionRecord
      /\ session'[c].at = a /\ session'[c].txn = session[c].txn
  BY <1>1, <1>2 DEF SessionRecord
<1>4. QED
  BY <1>1, <1>3

LEMMA InitInv == Init => Inv /\ SeenInv
<1> SUFFICES ASSUME Init PROVE Inv /\ SeenInv
  OBVIOUS
<1> USE DEF Init, ClogInit, InitPage
<1>1. TypeOK
  <2>1. Idle \in SessionRecord
    BY SizeAssumption, TxnAssumption DEF Idle, SessionRecord, NoTxn, NoTuple, Tuple
  <2>2. NoSnapshot \in Snapshot
    BY TxnAssumption DEF NoSnapshot, Snapshot, NoTxn
  <2>3. slots \in Seq(Tuple)
    OBVIOUS
  <2>4. /\ clog \in [0 .. MaxTransactions - 1 -> ClogStatus]
        /\ clogFile \in [0 .. MaxTransactions - 1 -> ClogStatus]
        /\ clogDirty \in BOOLEAN
    BY DEF ClogStatus
  <2>5. activeTxns = {t \in TxnId : snapshots[t] # NoSnapshot}
    OBVIOUS
  <2>6. answers \in [TxnId -> TxnState]
    BY DEF TxnState
  <2>7. QED
    BY <2>1, <2>2, <2>3, <2>4, <2>5, <2>6, SizeAssumption, TxnAssumption, RestartAssumption
       DEF TypeOK, TxnState
<1>2. IdsInOrder /\ SnapshotsRight
  BY DEF IdsInOrder, SnapshotsRight, TxnId
<1>3. SessionsApart
  BY DEF SessionsApart, Idle
<1>4. Logged
  BY DEF Logged, Told, Ended, Idle
<1>5. Remembered
  BY DEF Remembered
<1>6. FreeSpaceRight /\ TuplesDisjoint
  <2>1. SlotDirEnd(0) <= PageUserDataSize
    BY SizeAssumption DEF SlotDirEnd
  <2>2. QED
    BY <2>1 DEF FreeSpaceRight, TuplesDisjoint
<1>7. SeenInv /\ ReadersRight
  BY DEF SeenInv, TuplesRight, CopiesRight, ReadersRight, Idle
<1>8. QED
  BY <1>1, <1>2, <1>3, <1>4, <1>5, <1>6, <1>7 DEF Inv

\* The page is as it was, or empty.
LEMMA PageKept ==
    ASSUME FreeSpaceRight, TuplesDisjoint, UNCHANGED pageVars
    PROVE  FreeSpaceRight' /\ TuplesDisjoint'
BY DEF FreeSpaceRight, TuplesDisjoint, pageVars

\* What an operation on tuples leaves alone.
LEMMA TupleStep ==
    ASSUME Inv, UNCHANGED <<mvccVars, clogVars, seen, answers>>,
           \A c \in Session :
              \/ session'[c] = session[c]
              \/ /\ session[c].at \in {"active", "reading"}
                 /\ session'[c].at \in {"active", "reading"}
                 /\ session'[c].txn = session[c].txn
    PROVE  IdsInOrder' /\ SessionsApart' /\ Logged' /\ Remembered' /\ SnapshotsRight'
<1> USE DEF Inv, mvccVars, clogVars
<1>1. IdsInOrder'
  BY DEF IdsInOrder
<1>2. \A c \in Session : session'[c].txn = session[c].txn
  OBVIOUS
<1>3. SessionsApart'
  <2>1. \A c \in Session : session'[c].at = "idle" <=> session[c].at = "idle"
    OBVIOUS
  <2>2. \A c \in Session : session'[c].at = "idle" => session'[c] = Idle
    BY DEF SessionsApart
  <2>3. \A c \in Session : session'[c].at # "idle" =>
          /\ session'[c].txn \in TxnId
          /\ InClog(session'[c].txn)
          /\ txnStates[session'[c].txn] # "INVALID"
    BY <1>2, <2>1 DEF SessionsApart
  <2>4. \A c \in Session : session'[c].at \in {"active", "reading"} =>
          txnStates[session'[c].txn] = "RUNNING"
    BY <1>2 DEF SessionsApart
  <2>5. \A c \in Session : session'[c].at \in {"log", "flush"} => Ended(session'[c].txn)
    BY DEF SessionsApart
  <2>6. \A c, d \in Session :
          session'[c].at # "idle" /\ session'[c].txn = session'[d].txn => c = d
    BY <1>2, <2>1 DEF SessionsApart
  <2>7. QED
    BY <2>2, <2>3, <2>4, <2>5, <2>6 DEF SessionsApart, Ended
<1>4. Logged'
  <2>1. \A c \in Session : session'[c].at = "flush" =>
          clog'[session'[c].txn] = txnStates'[session'[c].txn]
    BY DEF Logged
  <2>2. \A t \in TxnId : Told(t)' => Told(t)
    BY <1>2 DEF Told, Ended
  <2>3. \A t \in TxnId : Told(t)' => clog'[t] = txnStates'[t] /\ clogFile'[t] = txnStates'[t]
    BY <2>2 DEF Logged
  <2>4. QED
    BY <2>1, <2>3 DEF Logged, Ended
<1>5. Remembered'
  BY DEF Remembered
<1>6. SnapshotsRight'
  BY DEF SnapshotsRight
<1>7. QED
  BY <1>1, <1>3, <1>4, <1>5, <1>6

LEMMA InsertInv ==
    ASSUME Inv, NEW c \in Session, Insert(c)
    PROVE  Inv'
<1> DEFINE size == TupleHeaderSize + DataLen
           new == [offset |-> freeSpaceOffset - size, length |-> size,
                   xmin |-> session[c].txn, xmax |-> NoTxn, hints |-> {}]
<1>1. /\ slots' = Append(slots, new)
      /\ freeSpaceOffset' = freeSpaceOffset - size
      /\ TupleHeaderSize + DataLen + SlotEntrySize
            <= freeSpaceOffset - SlotDirEnd(Len(slots) + 1)
      /\ UNCHANGED <<mvccVars, clogVars, session, restarts, history>>
  BY DEF Insert, InsertTuple, Fits
<1>2. /\ slots \in Seq(Tuple) /\ freeSpaceOffset \in 0 .. PageUserDataSize
      /\ Len(slots) \in Nat /\ size \in Nat /\ SlotEntrySize \in Nat
  BY SizeAssumption, TxnAssumption DEF Inv, TypeOK
<1>3. /\ SlotDirEnd(Len(slots)) \in Nat
      /\ SlotDirEnd(Len(slots) + 1) = SlotDirEnd(Len(slots)) + SlotEntrySize
  BY <1>2, SlotDirEndType
<1>4. size <= freeSpaceOffset /\ SlotDirEnd(Len(slots) + 1) <= freeSpaceOffset'
  BY <1>1, <1>2, <1>3
<1>5. new \in Tuple /\ freeSpaceOffset' \in 0 .. PageUserDataSize
  <2>1. freeSpaceOffset - size \in 0 .. PageUserDataSize /\ size \in 0 .. PageUserDataSize
    BY <1>2, <1>4, SizeAssumption
  <2>2. session[c].txn \in 0 .. MaxTxn /\ NoTxn \in 0 .. MaxTxn
    <3>1. TypeOK
      BY DEF Inv
    <3>2. session[c].txn \in 0 .. MaxTxn
      BY <3>1, SessionTypes
    <3>3. NoTxn \in 0 .. MaxTxn
      BY TxnAssumption DEF NoTxn
    <3>4. QED
      BY <3>2, <3>3
  <2>3. QED
    BY <1>1, <2>1, <2>2 DEF Tuple
<1> HIDE DEF new
<1>6. /\ slots' \in Seq(Tuple)
      /\ Len(slots') = Len(slots) + 1
      /\ \A i \in 1 .. Len(slots) : slots'[i] = slots[i]
      /\ slots'[Len(slots) + 1] = new
  BY <1>1, <1>2, <1>5, AppendProperties
<1>7. TypeOK'
  <2>1. deleted' \subseteq (DOMAIN slots') \X TxnId
    BY <1>1, <1>2, <1>6 DEF Inv, TypeOK, history
  <2>2. QED
    BY <1>1, <1>5, <1>6, <2>1 DEF Inv, TypeOK, mvccVars, clogVars, history
<1>8. FreeSpaceRight'
  <2>1. slots' # <<>>
    BY <1>2, <1>6
  <2>2. QED
    BY <1>1, <1>6, <2>1 DEF FreeSpaceRight, new
<1>9. TuplesDisjoint'
  <2>1. new.offset + new.length = freeSpaceOffset
    BY <1>2 DEF new
  <2>2. new.offset + new.length
          = IF Len(slots) + 1 = 1 THEN PageUserDataSize ELSE slots'[(Len(slots) + 1) - 1].offset
    <3>1. CASE Len(slots) = 0
      BY <1>2, <2>1, <3>1 DEF Inv, FreeSpaceRight
    <3>2. CASE Len(slots) # 0
      BY <1>2, <1>6, <2>1, <3>2 DEF Inv, FreeSpaceRight
    <3>3. QED
      BY <3>1, <3>2
  <2>3. ASSUME NEW i \in 1 .. Len(slots)
        PROVE  slots'[i].offset + slots'[i].length
                  = IF i = 1 THEN PageUserDataSize ELSE slots'[i - 1].offset
    <3>1. slots[i].offset + slots[i].length
             = IF i = 1 THEN PageUserDataSize ELSE slots[i - 1].offset
      BY <1>2 DEF Inv, TuplesDisjoint
    <3>2. slots'[i] = slots[i] /\ (i # 1 => slots'[i - 1] = slots[i - 1])
      BY <1>2, <1>6
    <3>3. QED
      BY <3>1, <3>2
  <2>4. DOMAIN slots' = 1 .. (Len(slots) + 1)
    BY <1>6
  <2>5. \A i \in DOMAIN slots' : slots'[i].offset + slots'[i].length
                  = IF i = 1 THEN PageUserDataSize ELSE slots'[i - 1].offset
    BY <1>2, <1>6, <2>2, <2>3, <2>4
  <2>6. QED
    BY <1>4, <1>6, <2>5 DEF TuplesDisjoint, SlotDirEnd
<1>10. IdsInOrder' /\ SessionsApart' /\ Logged' /\ Remembered' /\ SnapshotsRight'
  BY <1>1, TupleStep DEF history
<1>11. ReadersRight'
  BY <1>1, <1>2, <1>6 DEF Inv, ReadersRight
<1>12. QED
  BY <1>7, <1>8, <1>9, <1>10, <1>11 DEF Inv

\* A tuple that stays where it is.
LEMMA TupleKept ==
    ASSUME Inv, NEW s \in DOMAIN slots, NEW new \in Tuple,
           slots' = [slots EXCEPT ![s] = new], UNCHANGED freeSpaceOffset,
           new.offset = slots[s].offset, new.length = slots[s].length
    PROVE  /\ slots' \in Seq(Tuple)
           /\ DOMAIN slots' = DOMAIN slots
           /\ slots'[s] = new
           /\ \A i \in DOMAIN slots \ {s} : slots'[i] = slots[i]
           /\ FreeSpaceRight' /\ TuplesDisjoint'
<1>1. slots \in Seq(Tuple) /\ Len(slots) \in Nat /\ DOMAIN slots = 1 .. Len(slots)
  BY DEF Inv, TypeOK
<1>2. slots' \in Seq(Tuple) /\ Len(slots') = Len(slots) /\ DOMAIN slots' = DOMAIN slots
  BY <1>1, ExceptSeq
<1>3. slots'[s] = new /\ \A i \in DOMAIN slots \ {s} : slots'[i] = slots[i]
  BY <1>1
<1>4. \A i \in DOMAIN slots : /\ slots'[i].offset = slots[i].offset
                              /\ slots'[i].length = slots[i].length
  BY <1>3
<1>5. FreeSpaceRight'
  BY <1>1, <1>2, <1>4 DEF Inv, FreeSpaceRight
<1>6. TuplesDisjoint'
  <2>1. ASSUME NEW i \in DOMAIN slots
        PROVE  slots'[i].offset + slots'[i].length
                  = IF i = 1 THEN PageUserDataSize ELSE slots'[i - 1].offset
    <3>1. slots[i].offset + slots[i].length
             = IF i = 1 THEN PageUserDataSize ELSE slots[i - 1].offset
      BY DEF Inv, TuplesDisjoint
    <3>2. i # 1 => i - 1 \in DOMAIN slots
      BY <1>1
    <3>3. QED
      BY <1>4, <3>1, <3>2
  <2>2. SlotDirEnd(Len(slots')) <= freeSpaceOffset'
    BY <1>2 DEF Inv, TuplesDisjoint, SlotDirEnd
  <2>3. QED
    BY <1>2, <2>1, <2>2 DEF TuplesDisjoint
<1>7. QED
  BY <1>2, <1>3, <1>5, <1>6

LEMMA DeleteInv ==
    ASSUME Inv, NEW c \in Session, NEW s \in DOMAIN slots, Delete(c, s)
    PROVE  /\ Inv'
           /\ DOMAIN slots' = DOMAIN slots
           /\ slots'[s] = [slots[s] EXCEPT !.xmax = session[c].txn]
           /\ \A i \in DOMAIN slots \ {s} : slots'[i] = slots[i]
<1> DEFINE t == session[c].txn
           new == [slots[s] EXCEPT !.xmax = t]
<1>1. /\ session[c].at = "active"
      /\ slots' = [slots EXCEPT ![s].xmax = t] /\ UNCHANGED freeSpaceOffset
      /\ deleted' = deleted \cup {<<s, t>>}
      /\ UNCHANGED <<mvccVars, clogVars, session, restarts, seen, answers>>
  BY DEF Delete, MarkDelete, Active
<1>2. TypeOK /\ slots \in Seq(Tuple) /\ slots[s] \in Tuple
  BY DEF Inv, TypeOK
<1>3. slots' = [slots EXCEPT ![s] = new]
  BY <1>1, <1>2
<1>4. t \in TxnId /\ t \in 0 .. MaxTxn
  <2>1. t \in TxnId
    BY <1>1 DEF Inv, SessionsApart
  <2>2. QED
    BY <2>1 DEF TxnId
<1>5. new \in Tuple /\ new.offset = slots[s].offset /\ new.length = slots[s].length
  BY <1>2, <1>4 DEF Tuple
<1> HIDE DEF new
<1>6. /\ slots' \in Seq(Tuple)
      /\ DOMAIN slots' = DOMAIN slots
      /\ slots'[s] = new
      /\ \A i \in DOMAIN slots \ {s} : slots'[i] = slots[i]
      /\ FreeSpaceRight' /\ TuplesDisjoint'
  BY <1>1, <1>3, <1>5, TupleKept
<1>7. TypeOK'
  <2>1. deleted' \subseteq (DOMAIN slots') \X TxnId
    BY <1>1, <1>2, <1>4, <1>6 DEF TypeOK
  <2>2. QED
    BY <1>1, <1>2, <1>6, <2>1 DEF TypeOK, mvccVars, clogVars
<1>8. IdsInOrder' /\ SessionsApart' /\ Logged' /\ Remembered' /\ SnapshotsRight'
  BY <1>1, TupleStep
<1>9. ReadersRight'
  BY <1>1, <1>6 DEF Inv, ReadersRight
<1>10. QED
  BY <1>6, <1>7, <1>8, <1>9 DEF Inv, new

\* One session goes between "active" and "reading".
LEMMA ReadHeaderInv ==
    ASSUME Inv, NEW c \in Session, NEW s \in DOMAIN slots, ReadHeader(c, s)
    PROVE  /\ Inv'
           /\ session'[c] = [session[c] EXCEPT !.at = "reading", !.slot = s, !.header = slots[s]]
           /\ \A d \in Session \ {c} : session'[d] = session[d]
<1> DEFINE new == [session[c] EXCEPT !.at = "reading", !.slot = s, !.header = slots[s]]
<1>1. /\ session[c].at = "active"
      /\ session' = [session EXCEPT ![c].at = "reading", ![c].slot = s, ![c].header = slots[s]]
      /\ UNCHANGED <<mvccVars, clogVars, pageVars, restarts, history>>
  BY DEF ReadHeader, Active
<1>2. TypeOK /\ slots \in Seq(Tuple) /\ slots[s] \in Tuple /\ s \in Nat
  BY DEF Inv, TypeOK
<1>3. session[c] \in SessionRecord /\ session \in [Session -> SessionRecord]
  BY <1>2 DEF TypeOK
<1>4. session'[c] = new /\ \A d \in Session \ {c} : session'[d] = session[d]
  BY <1>1, <1>3
<1>5. new \in SessionRecord /\ new.at = "reading" /\ new.txn = session[c].txn
  BY <1>2, <1>3 DEF SessionRecord
<1> HIDE DEF new
<1>6. TypeOK'
  <2>1. session' \in [Session -> SessionRecord]
    BY <1>1, <1>3, <1>4, <1>5
  <2>2. QED
    BY <1>1, <1>2, <2>1 DEF TypeOK, mvccVars, clogVars, pageVars, history
<1>7. IdsInOrder' /\ SessionsApart' /\ Logged' /\ Remembered' /\ SnapshotsRight'
  BY <1>1, <1>4, <1>5, TupleStep DEF history
<1>8. ReadersRight'
  <2>1. new.slot = s
    BY <1>3 DEF new, SessionRecord
  <2>2. QED
    BY <1>1, <1>4, <2>1 DEF Inv, ReadersRight, pageVars
<1>9. QED
  BY <1>1, <1>4, <1>6, <1>7, <1>8, PageKept DEF Inv, new

LEMMA DecideInv ==
    ASSUME Inv, NEW c \in Session, Decide(c)
    PROVE  /\ Inv'
           /\ DOMAIN slots' = DOMAIN slots
           /\ slots'[session[c].slot]
                 = [slots[session[c].slot] EXCEPT
                      !.hints = @ \cup LearnedHints(session[c].txn, session[c].header)]
           /\ \A i \in DOMAIN slots \ {session[c].slot} : slots'[i] = slots[i]
           /\ session'[c].at = "active" /\ session'[c].txn = session[c].txn
           /\ \A d \in Session \ {c} : session'[d] = session[d]
<1> DEFINE s == session[c].slot
           flags == LearnedHints(session[c].txn, session[c].header)
           new == [slots[s] EXCEPT !.hints = @ \cup flags]
           idle == [Idle EXCEPT !.at = "active", !.txn = session[c].txn]
<1>1. /\ session[c].at = "reading"
      /\ slots' = [slots EXCEPT ![s].hints = @ \cup flags] /\ UNCHANGED freeSpaceOffset
      /\ session' = [session EXCEPT ![c] = idle]
      /\ UNCHANGED <<mvccVars, clogVars, restarts, history>>
  BY DEF Decide, UpdateHintBits
<1>2. TypeOK /\ slots \in Seq(Tuple) /\ s \in DOMAIN slots /\ slots[s] \in Tuple
  BY <1>1 DEF Inv, TypeOK, ReadersRight
<1>3. flags \subseteq Hints
  BY DEF LearnedHints, HintOf, Hints
<1> HIDE DEF flags
<1>4. slots' = [slots EXCEPT ![s] = new]
  BY <1>1, <1>2
<1>5. new \in Tuple /\ new.offset = slots[s].offset /\ new.length = slots[s].length
  BY <1>2, <1>3 DEF Tuple
<1>6. session[c] \in SessionRecord /\ session \in [Session -> SessionRecord]
  BY <1>2 DEF TypeOK
<1>7. idle \in SessionRecord /\ idle.at = "active" /\ idle.txn = session[c].txn
  <2>1. session[c].txn \in 0 .. MaxTxn
    BY <1>6 DEF SessionRecord
  <2>2. QED
    BY <1>2, <2>1, SessionTypes DEF Idle
<1> HIDE DEF new, idle
<1>8. /\ slots' \in Seq(Tuple)
      /\ DOMAIN slots' = DOMAIN slots
      /\ slots'[s] = new
      /\ \A i \in DOMAIN slots \ {s} : slots'[i] = slots[i]
      /\ FreeSpaceRight' /\ TuplesDisjoint'
  BY <1>1, <1>2, <1>4, <1>5, TupleKept
<1>9. /\ session'[c] = idle /\ session' \in [Session -> SessionRecord]
      /\ \A d \in Session \ {c} : session'[d] = session[d]
  BY <1>1, <1>6, <1>7
<1>10. TypeOK'
  <2>1. deleted' \subseteq (DOMAIN slots') \X TxnId
    BY <1>1, <1>2, <1>8 DEF TypeOK, history
  <2>2. QED
    BY <1>1, <1>2, <1>8, <1>9, <2>1 DEF TypeOK, mvccVars, clogVars, history
<1>11. IdsInOrder' /\ SessionsApart' /\ Logged' /\ Remembered' /\ SnapshotsRight'
  BY <1>1, <1>7, <1>9, TupleStep DEF history
<1>12. ReadersRight'
  BY <1>7, <1>8, <1>9 DEF Inv, ReadersRight
<1>13. QED
  BY <1>7, <1>8, <1>9, <1>10, <1>11, <1>12 DEF Inv, new, flags

LEMMA EndInMemoryInv ==
    ASSUME Inv, NEW c \in Session, NEW outcome \in {"COMMITTED", "ABORTED"},
           EndInMemory(c, outcome)
    PROVE  /\ Inv'
           /\ \A u \in TxnId : txnStates'[u] = IF u = session[c].txn THEN outcome ELSE txnStates[u]
<1> DEFINE t == session[c].txn
<1>1. /\ session[c].at = "active"
      /\ txnStates' = [txnStates EXCEPT ![t] = outcome]
      /\ activeTxns' = activeTxns \ {t}
      /\ snapshots' = [snapshots EXCEPT ![t] = NoSnapshot]
      /\ session' = [session EXCEPT ![c].at = "log"]
      /\ UNCHANGED <<nextTxnId, clogVars, pageVars, restarts, history>>
  BY DEF EndInMemory, SnapshotsWithout, Active
<1>2. TypeOK
  BY DEF Inv
<1>3. t \in TxnId /\ InClog(t) /\ txnStates[t] = "RUNNING" /\ t \in activeTxns
  BY <1>1 DEF Inv, SessionsApart, IdsInOrder
<1>4. /\ session' \in [Session -> SessionRecord]
      /\ session'[c].at = "log"
      /\ \A d \in Session : session'[d].txn = session[d].txn
      /\ \A d \in Session \ {c} : session'[d] = session[d]
  BY <1>1, <1>2, SessionAt
<1>5. \A u \in TxnId : txnStates'[u] = IF u = t THEN outcome ELSE txnStates[u]
  BY <1>1, <1>2 DEF TypeOK
<1>6. \A d \in Session \ {c} : session[d].txn # t
  BY <1>1 DEF Inv, SessionsApart
<1> HIDE DEF t
<1>7. TypeOK'
  <2>1. txnStates' \in [TxnId -> TxnState]
    BY <1>1, <1>2 DEF TypeOK, TxnState
  <2>2. NoSnapshot \in Snapshot
    BY TxnAssumption DEF NoSnapshot, Snapshot, NoTxn
  <2>3. snapshots' \in [TxnId -> Snapshot]
    BY <1>1, <1>2, <2>2 DEF TypeOK
  <2>4. activeTxns' = {u \in TxnId : snapshots'[u] # NoSnapshot}
    BY <1>1, <1>2, <1>3 DEF TypeOK
  <2>5. QED
    BY <1>1, <1>2, <1>4, <2>1, <2>3, <2>4 DEF TypeOK, clogVars, pageVars, history
<1>8. IdsInOrder'
  BY <1>1, <1>3, <1>5 DEF Inv, IdsInOrder
<1>9. SessionsApart'
  <2>1. \A d \in Session : session'[d].at = "idle" => session'[d] = Idle
    BY <1>4 DEF Inv, SessionsApart
  <2>2. \A d \in Session : session'[d].at # "idle" => session[d].at # "idle"
    BY <1>1, <1>4
  <2>3. \A d \in Session : session'[d].at # "idle" =>
          /\ session'[d].txn \in TxnId
          /\ InClog(session'[d].txn)
          /\ txnStates'[session'[d].txn] # "INVALID"
    BY <1>3, <1>4, <1>5, <2>2 DEF Inv, SessionsApart
  <2>4. \A d \in Session : session'[d].at \in {"active", "reading"} =>
          txnStates'[session'[d].txn] = "RUNNING"
    <3> SUFFICES ASSUME NEW d \in Session, session'[d].at \in {"active", "reading"}
                 PROVE  txnStates'[session'[d].txn] = "RUNNING"
      OBVIOUS
    <3>1. d # c /\ session'[d] = session[d]
      BY <1>4
    <3>2. session[d].txn # t /\ session[d].txn \in TxnId /\ txnStates[session[d].txn] = "RUNNING"
      BY <1>6, <3>1 DEF Inv, SessionsApart
    <3>3. QED
      BY <1>5, <3>1, <3>2
  <2>5. \A d \in Session : session'[d].at \in {"log", "flush"} =>
          txnStates'[session'[d].txn] \in {"COMMITTED", "ABORTED"}
    <3> SUFFICES ASSUME NEW d \in Session, session'[d].at \in {"log", "flush"}
                 PROVE  txnStates'[session'[d].txn] \in {"COMMITTED", "ABORTED"}
      OBVIOUS
    <3>1. CASE d = c
      BY <1>3, <1>4, <1>5, <3>1 DEF t
    <3>2. CASE d # c
      <4>1. session'[d] = session[d] /\ session[d].txn # t /\ session[d].txn \in TxnId
        BY <1>4, <1>6, <3>2 DEF Inv, SessionsApart
      <4>2. Ended(session[d].txn)
        BY <4>1 DEF Inv, SessionsApart
      <4>3. QED
        BY <1>5, <4>1, <4>2 DEF Ended
    <3>3. QED
      BY <3>1, <3>2
  <2>6. \A d, e \in Session :
          session'[d].at # "idle" /\ session'[d].txn = session'[e].txn => d = e
    BY <1>4, <2>2 DEF Inv, SessionsApart
  <2>7. QED
    BY <1>4, <2>1, <2>3, <2>4, <2>5, <2>6 DEF SessionsApart, Ended, InClog
<1>10. Logged'
  <2>1. \A u \in TxnId : Ended(u)' => InClog(u)
    BY <1>3, <1>5 DEF Inv, Logged, Ended
  <2>2. ASSUME NEW d \in Session, session'[d].at = "flush"
        PROVE  clog'[session'[d].txn] = txnStates'[session'[d].txn]
    <3>1. d # c /\ session'[d] = session[d]
      BY <1>4, <2>2
    <3>2. session[d].txn # t /\ session[d].txn \in TxnId
      BY <1>6, <2>2, <3>1 DEF Inv, SessionsApart
    <3>3. clog[session[d].txn] = txnStates[session[d].txn]
      BY <2>2, <3>1 DEF Inv, Logged
    <3>4. QED
      BY <1>1, <1>5, <3>1, <3>2, <3>3 DEF clogVars
  <2>3. ASSUME NEW u \in TxnId, Told(u)'
        PROVE  clog'[u] = txnStates'[u] /\ clogFile'[u] = txnStates'[u]
    <3>1. session'[c].txn # u /\ u # t
      BY <1>4, <2>3 DEF Told, t
    <3>2. Told(u)
      BY <1>4, <1>5, <2>3, <3>1 DEF Told, Ended
    <3>3. QED
      BY <1>1, <1>5, <3>1, <3>2 DEF Inv, Logged, clogVars
  <2>4. QED
    BY <1>1, <2>1, <2>2, <2>3 DEF Inv, Logged, clogVars, InClog
<1>11. Remembered'
  BY <1>1, <1>5 DEF Inv, Remembered, clogVars, history, InClog
<1>12. SnapshotsRight'
  <2> SUFFICES ASSUME NEW u \in activeTxns'
               PROVE  /\ snapshots'[u].xmax = u + 1
                      /\ u \in snapshots'[u].active
                      /\ \A w \in snapshots'[u].active : snapshots'[u].xmin <= w /\ w <= u
                      /\ \A w \in TxnId : w <= u /\ w \notin snapshots'[u].active =>
                            txnStates'[w] = IF w \in seen'[u] THEN "COMMITTED" ELSE "ABORTED"
                      /\ \A w \in seen'[u] : w < u /\ w \notin snapshots'[u].active
    BY DEF SnapshotsRight
  <2>1. u \in activeTxns /\ u # t /\ u \in TxnId
    BY <1>1, <1>2 DEF TypeOK
  <2>2. snapshots'[u] = snapshots[u] /\ seen' = seen
    BY <1>1, <1>2, <2>1 DEF TypeOK, history
  <2>3. ASSUME NEW w \in TxnId, w <= u, w \notin snapshots[u].active
        PROVE  txnStates'[w] = IF w \in seen[u] THEN "COMMITTED" ELSE "ABORTED"
    <3>1. txnStates[w] = IF w \in seen[u] THEN "COMMITTED" ELSE "ABORTED"
      BY <2>1, <2>3 DEF Inv, SnapshotsRight
    <3>2. w # t
      BY <1>3, <3>1
    <3>3. QED
      BY <1>5, <3>1, <3>2
  <2>4. QED
    BY <2>1, <2>2, <2>3 DEF Inv, SnapshotsRight
<1>13. ReadersRight'
  BY <1>1, <1>4 DEF Inv, ReadersRight, pageVars
<1>14. FreeSpaceRight' /\ TuplesDisjoint'
  BY <1>1, PageKept DEF Inv
<1>15. QED
  BY <1>5, <1>7, <1>8, <1>9, <1>10, <1>11, <1>12, <1>13, <1>14 DEF Inv, t

LEMMA EndInClogInv ==
    ASSUME Inv, NEW c \in Session, EndInClog(c)
    PROVE  Inv'
<1> DEFINE t == session[c].txn
<1>1. /\ session[c].at = "log"
      /\ clog' = [clog EXCEPT ![t] = txnStates[t]]
      /\ clogDirty' = TRUE /\ UNCHANGED clogFile
      /\ session' = [session EXCEPT ![c].at = "flush"]
      /\ UNCHANGED <<mvccVars, pageVars, restarts, history>>
  BY DEF EndInClog, SetTransactionStatus
<1>2. TypeOK
  BY DEF Inv
<1>3. /\ t \in TxnId /\ InClog(t) /\ txnStates[t] \in {"COMMITTED", "ABORTED"}
      /\ \A d \in Session \ {c} : session[d].txn # t
  BY <1>1 DEF Inv, SessionsApart, Ended
<1>4. /\ session' \in [Session -> SessionRecord]
      /\ session'[c].at = "flush"
      /\ \A d \in Session : session'[d].txn = session[d].txn
      /\ \A d \in Session \ {c} : session'[d] = session[d]
  BY <1>1, <1>2, SessionAt
<1>5. t \in 0 .. MaxTransactions - 1
  BY <1>2, <1>3, ClogTypes
<1>6. /\ clog' \in [0 .. MaxTransactions - 1 -> ClogStatus]
      /\ clog'[t] = txnStates[t]
      /\ \A u \in TxnId : u # t => clog'[u] = clog[u]
  <2>1. txnStates[t] \in ClogStatus
    BY <1>3 DEF ClogStatus
  <2>2. QED
    BY <1>1, <1>2, <1>5, <2>1 DEF TypeOK
<1>7. session[c].txn = t
  OBVIOUS
<1> HIDE DEF t
<1>8. TypeOK'
  BY <1>1, <1>2, <1>4, <1>6 DEF TypeOK, mvccVars, pageVars, history
<1>9. IdsInOrder' /\ SnapshotsRight'
  BY <1>1 DEF Inv, IdsInOrder, SnapshotsRight, mvccVars, history
<1>10. SessionsApart'
  <2>1. \A d \in Session : session'[d].at = "idle" => session'[d] = Idle
    BY <1>4 DEF Inv, SessionsApart
  <2>2. \A d \in Session : session'[d].at # "idle" => session[d].at # "idle"
    BY <1>1, <1>4
  <2>3. \A d \in Session : session'[d].at \in {"active", "reading"} =>
          txnStates[session'[d].txn] = "RUNNING"
    BY <1>4 DEF Inv, SessionsApart
  <2>4. \A d \in Session : session'[d].at \in {"log", "flush"} => Ended(session'[d].txn)
    BY <1>1, <1>4 DEF Inv, SessionsApart
  <2>5. \A d \in Session : session'[d].at # "idle" =>
          /\ session'[d].txn \in TxnId
          /\ InClog(session'[d].txn)
          /\ txnStates[session'[d].txn] # "INVALID"
    BY <1>4, <2>2 DEF Inv, SessionsApart
  <2>6. \A d, e \in Session :
          session'[d].at # "idle" /\ session'[d].txn = session'[e].txn => d = e
    BY <1>4, <2>2 DEF Inv, SessionsApart
  <2>7. QED
    BY <1>1, <2>1, <2>3, <2>4, <2>5, <2>6 DEF SessionsApart, Ended, mvccVars
<1>11. Logged'
  <2>1. ASSUME NEW d \in Session, session'[d].at = "flush"
        PROVE  clog'[session'[d].txn] = txnStates[session'[d].txn]
    <3>1. CASE d = c
      BY <1>4, <1>6, <1>7, <3>1
    <3>2. CASE d # c
      <4>1. session'[d] = session[d] /\ session[d].txn # t /\ session[d].txn \in TxnId
        BY <1>3, <1>4, <2>1, <3>2 DEF Inv, SessionsApart
      <4>2. clog[session[d].txn] = txnStates[session[d].txn]
        BY <2>1, <4>1 DEF Inv, Logged
      <4>3. QED
        BY <1>6, <4>1, <4>2
    <3>3. QED
      BY <3>1, <3>2
  <2>2. ASSUME NEW u \in TxnId, Told(u)'
        PROVE  clog'[u] = txnStates[u] /\ clogFile[u] = txnStates[u]
    <3>1. Told(u) /\ u # t
      BY <1>1, <1>4, <1>7, <2>2 DEF Told, Ended, mvccVars
    <3>2. QED
      BY <1>6, <3>1 DEF Inv, Logged
  <2>3. QED
    BY <1>1, <2>1, <2>2 DEF Inv, Logged, Ended, InClog, mvccVars
<1>12. Remembered'
  BY <1>1, <1>3, <1>6 DEF Inv, Remembered, InClog, mvccVars, history
<1>13. ReadersRight'
  BY <1>1, <1>4 DEF Inv, ReadersRight, pageVars
<1>14. QED
  BY <1>1, <1>8, <1>9, <1>10, <1>11, <1>12, <1>13, PageKept DEF Inv

LEMMA EndFlushedInv ==
    ASSUME Inv, NEW c \in Session, EndFlushed(c)
    PROVE  Inv'
<1> DEFINE t == session[c].txn
<1>1. /\ session[c].at = "flush"
      /\ clogFile' = clog /\ clogDirty' = FALSE /\ UNCHANGED clog
      /\ session' = [session EXCEPT ![c] = Idle]
      /\ UNCHANGED <<mvccVars, pageVars, restarts, history>>
  BY DEF EndFlushed, ClogFlush, Inv, Logged, TypeOK
<1>2. TypeOK /\ session \in [Session -> SessionRecord]
  BY DEF Inv, TypeOK
<1>3. session'[c] = Idle /\ \A d \in Session \ {c} : session'[d] = session[d]
  BY <1>1, <1>2
<1>4. TypeOK'
  <2>1. session' \in [Session -> SessionRecord]
    BY <1>1, <1>2, SessionTypes
  <2>2. QED
    BY <1>1, <1>2, <2>1 DEF TypeOK, mvccVars, pageVars, history
<1>5. IdsInOrder' /\ SnapshotsRight'
  BY <1>1 DEF Inv, IdsInOrder, SnapshotsRight, mvccVars, history
<1>6. Idle.at = "idle" /\ Idle.txn = NoTxn
  BY DEF Idle
<1>7. SessionsApart'
  <2>1. \A d \in Session : session'[d].at = "idle" => session'[d] = Idle
    BY <1>3 DEF Inv, SessionsApart
  <2>2. \A d \in Session : session'[d].at # "idle" => d # c /\ session'[d] = session[d]
    BY <1>3, <1>6
  <2>3. \A d \in Session : session'[d].at # "idle" =>
          /\ session'[d].txn \in TxnId
          /\ InClog(session'[d].txn)
          /\ txnStates[session'[d].txn] # "INVALID"
    BY <2>2 DEF Inv, SessionsApart
  <2>4. \A d \in Session : session'[d].at \in {"active", "reading"} =>
          txnStates[session'[d].txn] = "RUNNING"
    BY <2>2 DEF Inv, SessionsApart
  <2>5. \A d \in Session : session'[d].at \in {"log", "flush"} => Ended(session'[d].txn)
    BY <2>2 DEF Inv, SessionsApart
  <2>6. ASSUME NEW d \in Session, NEW e \in Session,
               session'[d].at # "idle", session'[d].txn = session'[e].txn
        PROVE  d = e
    <3>1. session'[d] = session[d] /\ session[d].txn \in TxnId
      BY <2>2, <2>3, <2>6
    <3>2. e # c
      BY <1>3, <1>6, <2>6, <3>1 DEF TxnId, NoTxn
    <3>3. QED
      BY <1>3, <2>6, <3>1, <3>2 DEF Inv, SessionsApart
  <2>7. QED
    BY <1>1, <2>1, <2>3, <2>4, <2>5, <2>6 DEF SessionsApart, Ended, mvccVars
<1>8. Logged'
  <2>1. \A d \in Session : session'[d].at = "flush" =>
          clog[session'[d].txn] = txnStates[session'[d].txn]
    BY <1>3, <1>6 DEF Inv, Logged
  <2>2. ASSUME NEW u \in TxnId, Told(u)'
        PROVE  clog[u] = txnStates[u]
    <3>1. CASE u = t
      BY <1>1, <3>1 DEF Inv, Logged
    <3>2. CASE u # t
      <4>1. Told(u)
        BY <1>1, <1>3, <2>2, <3>2 DEF Told, Ended, mvccVars
      <4>2. QED
        BY <4>1 DEF Inv, Logged
    <3>3. QED
      BY <3>1, <3>2
  <2>3. QED
    BY <1>1, <2>1, <2>2 DEF Inv, Logged, Ended, InClog, mvccVars
<1>9. Remembered'
  BY <1>1 DEF Inv, Remembered, InClog, mvccVars, history
<1>10. ReadersRight'
  BY <1>1, <1>3, <1>6 DEF Inv, ReadersRight, pageVars
<1>11. QED
  BY <1>1, <1>4, <1>5, <1>7, <1>8, <1>9, <1>10, PageKept DEF Inv

\* The snapshot of a transaction that begins.
LEMMA SnapshotTaken ==
    ASSUME Inv, NEW t \in TxnId, t = nextTxnId,
           nextTxnId' = t + 1, activeTxns' = activeTxns \cup {t}
    PROVE  /\ TakeSnapshot(t) \in Snapshot
           /\ TakeSnapshot(t).xmax = t + 1
           /\ TakeSnapshot(t).active = activeTxns \cup {t}
           /\ \A u \in activeTxns \cup {t} : TakeSnapshot(t).xmin <= u /\ u <= t
<1> DEFINE S == activeTxns \cup {t}
           low == Min(S)
<1>1. t \in Nat /\ S \subseteq TxnId /\ S # {} /\ S \subseteq Nat
  BY DEF Inv, TypeOK, TxnId
<1>2. low \in S /\ \A u \in S : low <= u
  BY <1>1, MinIsLeast
<1>3. \A u \in S : u <= t
  <2>1. \A u \in activeTxns : txnStates[u] # "INVALID" /\ u \in TxnId
    BY <1>1 DEF Inv, IdsInOrder
  <2>2. \A u \in activeTxns : ~(nextTxnId <= u)
    BY <2>1 DEF Inv, IdsInOrder
  <2>3. QED
    BY <1>1, <2>2 DEF TxnId
<1>4. TakeSnapshot(t) = [xmin |-> low, xmax |-> t + 1, active |-> S]
  BY DEF TakeSnapshot
<1> HIDE DEF low
<1>5. low \in 0 .. MaxTxn /\ t + 1 \in 0 .. MaxTxn + 1
  BY <1>1, <1>2, TxnAssumption DEF TxnId
<1>6. QED
  BY <1>1, <1>2, <1>3, <1>4, <1>5 DEF Snapshot

LEMMA BeginTransactionInv ==
    ASSUME Inv, NEW c \in Session, BeginTransaction(c)
    PROVE  /\ Inv'
           /\ nextTxnId \in TxnId /\ txnStates[nextTxnId] = "INVALID"
           /\ txnStates'[nextTxnId] = "RUNNING"
           /\ \A u \in TxnId : u # nextTxnId => txnStates'[u] = txnStates[u] /\ seen'[u] = seen[u]
<1> DEFINE t == nextTxnId
<1>1. /\ session[c] = Idle
      /\ nextTxnId' = t + 1
      /\ txnStates' = [txnStates EXCEPT ![t] = "RUNNING"]
      /\ activeTxns' = activeTxns \cup {t}
      /\ snapshots' = [snapshots EXCEPT ![t] = TakeSnapshot(t)]
      /\ seen' = [seen EXCEPT ![t] = {u \in TxnId : txnStates[u] = "COMMITTED"}]
      /\ UNCHANGED <<pageVars, restarts, deleted, answers>>
  BY DEF BeginTransaction
<1>2. TypeOK /\ session \in [Session -> SessionRecord]
  BY DEF Inv, TypeOK
<1>3. t \in TxnId
  <2>1. t <= MaxTxn
    BY RestartAssumption, TxnAssumption, <1>2 DEF BeginTransaction, TypeOK
  <2>2. QED
    BY <1>2, <2>1, TxnAssumption DEF TypeOK, TxnId
<1>4. txnStates[t] = "INVALID"
  BY <1>3 DEF Inv, IdsInOrder, TxnId
<1>5. /\ txnStates'[t] = "RUNNING"
      /\ \A u \in TxnId : u # t => txnStates'[u] = txnStates[u] /\ seen'[u] = seen[u]
      /\ \A u \in TxnId : u # t => snapshots'[u] = snapshots[u]
      /\ snapshots'[t] = TakeSnapshot(t)
      /\ seen'[t] = {u \in TxnId : txnStates[u] = "COMMITTED"}
  BY <1>1, <1>2, <1>3 DEF TypeOK
<1>6. /\ TakeSnapshot(t) \in Snapshot
      /\ TakeSnapshot(t).xmax = t + 1
      /\ TakeSnapshot(t).active = activeTxns \cup {t}
      /\ \A u \in activeTxns \cup {t} : TakeSnapshot(t).xmin <= u /\ u <= t
  BY <1>1, <1>3, SnapshotTaken
<1>7. \A d \in Session : session[d].txn # t
  <2>1. \A d \in Session : session[d].at = "idle" => session[d].txn = NoTxn
    BY DEF Inv, SessionsApart, Idle
  <2>2. \A d \in Session : session[d].at # "idle" => session[d].txn # t
    BY <1>4 DEF Inv, SessionsApart
  <2>3. QED
    BY <1>3, <2>1, <2>2 DEF TxnId, NoTxn
<1> DEFINE new == [Idle EXCEPT !.at = "active", !.txn = t]
<1>8. new \in SessionRecord /\ new.at = "active" /\ new.txn = t
  <2>1. t \in 0 .. MaxTxn
    BY <1>3 DEF TxnId
  <2>2. QED
    BY <1>2, <2>1, SessionTypes DEF Idle
<1>9. \/ /\ InClog(t)
         /\ clog' = [clog EXCEPT ![t] = "IN_PROGRESS"]
         /\ clogDirty' = TRUE /\ UNCHANGED clogFile
         /\ session' = [session EXCEPT ![c] = new]
      \/ /\ ~InClog(t)
         /\ UNCHANGED <<clog, clogDirty, clogFile, session>>
  BY DEF BeginTransaction, SetTransactionStatus, clogVars
<1> HIDE DEF t, new
<1>10. /\ clog' \in [0 .. MaxTransactions - 1 -> ClogStatus]
       /\ InClog(t) => clog'[t] = "IN_PROGRESS"
       /\ \A u \in TxnId : u # t => clog'[u] = clog[u]
  <2>1. CASE InClog(t)
    <3>1. t \in 0 .. MaxTransactions - 1
      BY <1>2, <1>3, <2>1, ClogTypes
    <3>2. clog' = [clog EXCEPT ![t] = "IN_PROGRESS"] /\ "IN_PROGRESS" \in ClogStatus
      BY <1>9, <2>1 DEF ClogStatus
    <3>3. QED
      BY <1>2, <3>1, <3>2 DEF TypeOK
  <2>2. CASE ~InClog(t)
    BY <1>2, <1>9, <2>2 DEF TypeOK
  <2>3. QED
    BY <2>1, <2>2
<1>11. /\ session' \in [Session -> SessionRecord]
       /\ \A d \in Session : \/ session'[d] = session[d]
                             \/ d = c /\ session'[d] = new /\ InClog(t)
  BY <1>2, <1>8, <1>9
<1>12. TypeOK'
  <2>1. txnStates' \in [TxnId -> TxnState]
    BY <1>1, <1>2 DEF TypeOK, TxnState
  <2>2. snapshots' \in [TxnId -> Snapshot]
    BY <1>1, <1>2, <1>6 DEF TypeOK
  <2>3. activeTxns' = {u \in TxnId : snapshots'[u] # NoSnapshot}
    <3>1. TakeSnapshot(t) # NoSnapshot
      BY <1>3, <1>6 DEF NoSnapshot, TxnId, NoTxn
    <3>2. QED
      BY <1>1, <1>2, <1>3, <1>5, <3>1 DEF TypeOK
  <2>4. seen' \in [TxnId -> SUBSET TxnId]
    BY <1>1, <1>2 DEF TypeOK
  <2>5. nextTxnId' \in 1 .. MaxTxn + 1
    BY <1>1, <1>3, TxnAssumption DEF TxnId
  <2>6. clogFile' = clogFile /\ clogDirty' \in BOOLEAN
    BY <1>2, <1>9 DEF TypeOK
  <2>7. QED
    BY <1>1, <1>2, <1>10, <1>11, <2>1, <2>2, <2>3, <2>4, <2>5, <2>6 DEF TypeOK, pageVars
<1>13. IdsInOrder'
  <2>1. ASSUME NEW u \in TxnId PROVE txnStates'[u] = "INVALID" <=> nextTxnId' <= u
    BY <1>1, <1>3, <1>5 DEF Inv, IdsInOrder, TxnId, t
  <2>2. \A u \in TxnId : u \in activeTxns' <=> txnStates'[u] = "RUNNING"
    BY <1>1, <1>5 DEF Inv, IdsInOrder
  <2>3. QED
    BY <2>1, <2>2 DEF IdsInOrder
<1>14. SessionsApart'
  <2>1. \A d \in Session : session'[d].at = "idle" => session'[d] = Idle
    BY <1>8, <1>11 DEF Inv, SessionsApart
  <2>2. ASSUME NEW d \in Session, session'[d].at # "idle"
        PROVE  /\ session'[d].txn \in TxnId
               /\ InClog(session'[d].txn)
               /\ txnStates'[session'[d].txn] # "INVALID"
               /\ session'[d].at \in {"active", "reading"} =>
                     txnStates'[session'[d].txn] = "RUNNING"
               /\ session'[d].at \in {"log", "flush"} =>
                     txnStates'[session'[d].txn] \in {"COMMITTED", "ABORTED"}
    <3>1. CASE session'[d] = new /\ InClog(t)
      BY <1>3, <1>5, <1>8, <3>1
    <3>2. CASE session'[d] = session[d]
      <4>1. session[d].txn \in TxnId /\ session[d].txn # t
        BY <1>7, <2>2, <3>2 DEF Inv, SessionsApart
      <4>2. txnStates'[session[d].txn] = txnStates[session[d].txn]
        BY <1>5, <4>1
      <4>3. QED
        BY <2>2, <3>2, <4>1, <4>2 DEF Inv, SessionsApart, Ended
    <3>3. QED
      BY <1>11, <3>1, <3>2
  <2>3. ASSUME NEW d \in Session, NEW e \in Session,
               session'[d].at # "idle", session'[d].txn = session'[e].txn
        PROVE  d = e
    BY <1>7, <1>8, <1>11, <2>3 DEF Inv, SessionsApart
  <2>4. QED
    BY <2>1, <2>2, <2>3 DEF SessionsApart, Ended, InClog
<1>15. Logged'
  <2>1. ASSUME NEW d \in Session, session'[d].at = "flush"
        PROVE  clog'[session'[d].txn] = txnStates'[session'[d].txn]
    <3>1. session'[d] = session[d]
      BY <1>8, <1>11, <2>1
    <3>2. session[d].txn \in TxnId /\ session[d].txn # t
      BY <1>7, <2>1, <3>1 DEF Inv, SessionsApart
    <3>3. QED
      BY <1>5, <1>10, <2>1, <3>1, <3>2 DEF Inv, Logged
  <2>2. ASSUME NEW u \in TxnId, Ended(u)' PROVE u # t /\ Ended(u)
    BY <1>5, <2>2 DEF Ended
  <2>3. ASSUME NEW u \in TxnId, Told(u)'
        PROVE  clog'[u] = txnStates'[u] /\ clogFile'[u] = txnStates'[u]
    <3>1. u # t /\ Ended(u)
      BY <2>2, <2>3 DEF Told
    <3>2. \A d \in Session : session[d].txn # u
      <4>1. session[c].txn = NoTxn /\ u # NoTxn
        BY <1>1 DEF Idle, TxnId, NoTxn
      <4>2. QED
        BY <1>11, <2>3, <4>1 DEF Told
    <3>3. Told(u)
      BY <3>1, <3>2 DEF Told
    <3>4. clogFile' = clogFile
      BY <1>9
    <3>5. QED
      BY <1>5, <1>10, <3>1, <3>3, <3>4 DEF Inv, Logged
  <2>4. ~clogDirty' => clogFile' = clog'
    BY <1>9 DEF Inv, Logged
  <2>5. QED
    BY <2>1, <2>2, <2>3, <2>4 DEF Inv, Logged, InClog
<1>16. Remembered'
  <2>1. answers' = answers /\ clogFile' = clogFile
    BY <1>1, <1>9
  <2>2. QED
    BY <1>5, <1>10, <2>1 DEF Inv, Remembered, InClog
<1>17. SnapshotsRight'
  <2>1. ASSUME NEW u \in activeTxns
        PROVE  /\ u \in TxnId /\ u # t /\ u < t
               /\ snapshots'[u] = snapshots[u] /\ seen'[u] = seen[u]
    <3>1. u \in TxnId /\ txnStates[u] # "INVALID"
      BY <1>2 DEF Inv, IdsInOrder, TypeOK
    <3>2. ~(t <= u)
      BY <3>1 DEF Inv, IdsInOrder, t
    <3>3. QED
      BY <1>3, <1>5, <3>1, <3>2 DEF TxnId
  <2>2. ASSUME NEW u \in activeTxns
        PROVE  /\ snapshots'[u].xmax = u + 1
               /\ u \in snapshots'[u].active
               /\ \A w \in snapshots'[u].active : snapshots'[u].xmin <= w /\ w <= u
               /\ \A w \in TxnId : w <= u /\ w \notin snapshots'[u].active =>
                     txnStates'[w] = IF w \in seen'[u] THEN "COMMITTED" ELSE "ABORTED"
               /\ \A w \in seen'[u] : w < u /\ w \notin snapshots'[u].active
    <3>1. \A w \in TxnId : w <= u => txnStates'[w] = txnStates[w]
      BY <1>3, <1>5, <2>1 DEF TxnId
    <3>2. QED
      BY <2>1, <3>1 DEF Inv, SnapshotsRight
  <2>3. /\ snapshots'[t].xmax = t + 1
        /\ t \in snapshots'[t].active
        /\ \A w \in snapshots'[t].active : snapshots'[t].xmin <= w /\ w <= t
    BY <1>5, <1>6
  <2>4. ASSUME NEW w \in TxnId, w <= t, w \notin snapshots'[t].active
        PROVE  txnStates'[w] = IF w \in seen'[t] THEN "COMMITTED" ELSE "ABORTED"
    <3>1. w # t /\ w \notin activeTxns
      BY <1>5, <1>6, <2>4
    <3>2. txnStates[w] # "INVALID" /\ txnStates[w] # "RUNNING"
      BY <1>3, <2>4, <3>1 DEF Inv, IdsInOrder, TxnId, t
    <3>3. txnStates[w] \in TxnState
      BY <1>2 DEF TypeOK
    <3>4. QED
      BY <1>5, <3>1, <3>2, <3>3 DEF TxnState
  <2>5. ASSUME NEW w \in seen'[t]
        PROVE  w < t /\ w \notin snapshots'[t].active
    <3>1. w \in TxnId /\ txnStates[w] = "COMMITTED"
      BY <1>5
    <3>2. w # t /\ w \notin activeTxns /\ ~(t <= w)
      BY <1>4, <3>1 DEF Inv, IdsInOrder, t
    <3>3. QED
      BY <1>3, <1>5, <1>6, <3>1, <3>2 DEF TxnId
  <2>6. QED
    BY <1>1, <2>2, <2>3, <2>4, <2>5 DEF SnapshotsRight
<1>18. ReadersRight'
  BY <1>1, <1>8, <1>11 DEF Inv, ReadersRight, pageVars
<1>19. QED
  BY <1>1, <1>3, <1>4, <1>5, <1>12, <1>13, <1>14, <1>15, <1>16, <1>17, <1>18, PageKept DEF Inv, t

LEMMA RestartInv ==
    ASSUME Inv, NEW inOrder \in BOOLEAN, Restart(inOrder)
    PROVE  Inv' /\ (SeenInv => SeenInv')
<1> DEFINE told == [t \in TxnId |->
                       CASE txnStates[t] = "INVALID" -> answers[t]
                         [] Told(t) -> txnStates[t]
                         [] OTHER -> "INVALID"]
<1>1. /\ clog' = IF inOrder THEN clog ELSE clogFile
      /\ clogFile' = clog' /\ clogDirty' = FALSE
      /\ nextTxnId' = 1 /\ txnStates' = [t \in TxnId |-> "INVALID"]
      /\ activeTxns' = {} /\ snapshots' = [t \in TxnId |-> NoSnapshot]
      /\ session' = [c \in Session |-> Idle]
      /\ slots' = <<>> /\ freeSpaceOffset' = PageUserDataSize
      /\ restarts < MaxRestarts /\ restarts' = restarts + 1
      /\ seen' = [t \in TxnId |-> {}] /\ deleted' = {}
      /\ answers' = told
  BY DEF Restart, ClogReopen
<1>2. TypeOK
  BY DEF Inv
<1>3. \A t \in TxnId : Told(t) => txnStates[t] # "INVALID"
  BY DEF Told, Ended
<1>4. \A t \in TxnId : told[t] # "INVALID" =>
          \/ txnStates[t] = "INVALID" /\ told[t] = answers[t]
          \/ Told(t) /\ told[t] = txnStates[t]
  BY <1>3
<1>5. \A t \in TxnId : told[t] \in TxnState
  BY <1>2, <1>3 DEF TypeOK, TxnState
<1>6. told \in [TxnId -> TxnState]
  BY <1>5
<1> HIDE DEF told
<1>7. TypeOK'
  <2>1. Idle \in SessionRecord
    BY <1>2, SessionTypes
  <2>2. NoSnapshot \in Snapshot
    BY TxnAssumption DEF NoSnapshot, Snapshot, NoTxn
  <2>3. slots' \in Seq(Tuple)
    BY <1>1
  <2>4. answers' \in [TxnId -> TxnState]
    BY <1>1, <1>6
  <2>5. restarts' \in 0 .. MaxRestarts /\ freeSpaceOffset' \in 0 .. PageUserDataSize
        /\ nextTxnId' \in 1 .. MaxTxn + 1
    BY <1>1, <1>2, RestartAssumption, TxnAssumption, SizeAssumption DEF TypeOK
  <2>6. clog' \in [0 .. MaxTransactions - 1 -> ClogStatus] /\ clogDirty' \in BOOLEAN
    BY <1>1, <1>2 DEF TypeOK
  <2>7. QED
    BY <1>1, <1>2, <2>1, <2>2, <2>3, <2>4, <2>5, <2>6 DEF TypeOK, TxnState
<1>8. IdsInOrder' /\ SnapshotsRight'
  BY <1>1 DEF IdsInOrder, SnapshotsRight, TxnId
<1>9. SessionsApart' /\ ReadersRight'
  BY <1>1 DEF SessionsApart, ReadersRight, Idle
<1>10. Logged'
  BY <1>1 DEF Logged, Told, Ended, Idle
<1>11. Remembered'
  <2> SUFFICES ASSUME NEW t \in TxnId, InClog(t), told[t] # "INVALID"
               PROVE  clog[t] = told[t] /\ clogFile[t] = told[t]
    BY <1>1 DEF Remembered, InClog
  <2>1. CASE txnStates[t] = "INVALID" /\ told[t] = answers[t]
    BY <2>1 DEF Inv, Remembered
  <2>2. CASE Told(t) /\ told[t] = txnStates[t]
    BY <2>2 DEF Inv, Logged
  <2>3. QED
    BY <1>4, <2>1, <2>2
<1>12. FreeSpaceRight' /\ TuplesDisjoint'
  <2>1. SlotDirEnd(0) <= PageUserDataSize
    BY SizeAssumption DEF SlotDirEnd
  <2>2. QED
    BY <1>1, <2>1 DEF FreeSpaceRight, TuplesDisjoint, SlotDirEnd
<1>13. SeenInv'
  BY <1>1 DEF SeenInv, TuplesRight, CopiesRight, Idle
<1>14. QED
  BY <1>7, <1>8, <1>9, <1>10, <1>11, <1>12, <1>13 DEF Inv

LEMMA NextInv == Inv /\ [Next]_vars => Inv'
<1> SUFFICES ASSUME Inv, [Next]_vars PROVE Inv'
  OBVIOUS
<1>1. ASSUME NEW c \in Session, SessionStep(c) PROVE Inv'
  <2>1. CASE BeginTransaction(c)
    BY <2>1, BeginTransactionInv
  <2>2. CASE \E outcome \in {"COMMITTED", "ABORTED"} : EndInMemory(c, outcome)
    BY <2>2, EndInMemoryInv
  <2>3. CASE EndInClog(c)
    BY <2>3, EndInClogInv
  <2>4. CASE EndFlushed(c)
    BY <2>4, EndFlushedInv
  <2>5. CASE Insert(c)
    BY <2>5, InsertInv
  <2>6. CASE \E s \in DOMAIN slots : Delete(c, s)
    BY <2>6, DeleteInv
  <2>7. CASE \E s \in DOMAIN slots : ReadHeader(c, s)
    BY <2>7, ReadHeaderInv
  <2>8. CASE Decide(c)
    BY <2>8, DecideInv
  <2>9. QED
    BY <1>1, <2>1, <2>2, <2>3, <2>4, <2>5, <2>6, <2>7, <2>8 DEF SessionStep
<1>2. ASSUME NEW inOrder \in BOOLEAN, Restart(inOrder) PROVE Inv'
  BY <1>2, RestartInv
<1>3. CASE UNCHANGED vars
  <2>1. UNCHANGED <<nextTxnId, txnStates, activeTxns, snapshots, clog, clogDirty, clogFile,
                    slots, freeSpaceOffset, session, restarts, seen, deleted, answers>>
    BY <1>3 DEF vars, mvccVars, clogVars, pageVars, history
  <2>2. TypeOK' /\ IdsInOrder' /\ SessionsApart'
    BY <2>1 DEF Inv, TypeOK, IdsInOrder, SessionsApart, Ended
  <2>3. Logged' /\ Remembered' /\ SnapshotsRight'
    BY <2>1 DEF Inv, Logged, Remembered, SnapshotsRight, Ended, Told
  <2>4. FreeSpaceRight' /\ TuplesDisjoint' /\ ReadersRight'
    BY <2>1 DEF Inv, FreeSpaceRight, TuplesDisjoint, ReadersRight
  <2>5. QED
    BY <2>2, <2>3, <2>4 DEF Inv
<1>4. QED
  BY <1>1, <1>2, <1>3 DEF Next

LEMMA InvAlways == Spec => []Inv
<1>1. Init => Inv
  BY InitInv
<1>2. QED
  BY <1>1, NextInv, PTL DEF Spec

\* TypeOK holds of every instance: in particular a transaction has a snapshot
\* exactly while it is active (mvcc.cpp, Begin-, Commit- and AbortTransaction).
THEOREM MvccTypes == Spec => []TypeOK
<1>1. Inv => TypeOK
  BY DEF Inv
<1>2. QED
  BY <1>1, InvAlways, PTL

\* Tuples of any size, in a page of any size, overlap neither each other nor
\* the directory (TuplePage::InsertTuple).
THEOREM TuplesNeverOverlap == Spec => []TuplesDisjoint
<1>1. Inv => TuplesDisjoint
  BY DEF Inv
<1>2. QED
  BY <1>1, InvAlways, PTL

\* What a caller was told of its transaction is in the commit log's file, however
\* many sessions flush it at once (CommitTransaction, AbortTransaction).
THEOREM OutcomeAlwaysDurable == Spec => []OutcomeDurable
<1>1. Inv => OutcomeDurable
  BY DEF Inv, Logged, OutcomeDurable
<1>2. QED
  BY <1>1, InvAlways, PTL

\* It is also what later processes read, after any number of restarts and crashes,
\* until one begins the id again (GetTransactionState, CommitLog's constructor and
\* destructor).
THEOREM OutcomeAlwaysSurvives == Spec => []OutcomeSurvives
<1>1. Inv => OutcomeSurvives
  <2> SUFFICES ASSUME Inv, NEW t \in TxnId, InClog(t),
                      txnStates[t] = "INVALID", answers[t] # "INVALID"
               PROVE  GetTransactionState(t) = answers[t]
    BY DEF OutcomeSurvives
  <2>1. answers[t] \in TxnState
    BY DEF Inv, TypeOK
  <2>2. clog[t] = answers[t] /\ clog[t] \in ClogStatus
    BY ClogTypes DEF Inv, Remembered
  <2>3. QED
    BY <2>1, <2>2 DEF GetTransactionState, ClogStatus, TxnState
<1>2. QED
  BY <1>1, InvAlways, PTL

-----------------------------------------------------------------------------
(***************************************************************************)
(* What a transaction sees, while a tuple is deleted only once.            *)
(***************************************************************************)

\* What is known of the xmin and the xmax of a header is the state in memory.
LEMMA OutcomeRight ==
    ASSUME NEW h, HeaderRight(h)
    PROVE  /\ Inserter(h) = txnStates[h.xmin]
           /\ h.xmax # NoTxn => Deleter(h) = txnStates[h.xmax]
<1>1. GetTransactionState(h.xmin) = txnStates[h.xmin]
  BY DEF HeaderRight, GetTransactionState
<1>2. h.xmax # NoTxn => GetTransactionState(h.xmax) = txnStates[h.xmax]
  BY DEF HeaderRight, GetTransactionState
<1>3. Inserter(h) = txnStates[h.xmin]
  BY <1>1 DEF HeaderRight, Inserter, Outcome
<1>4. h.xmax # NoTxn => Deleter(h) = txnStates[h.xmax]
  BY <1>2 DEF HeaderRight, Deleter, Outcome
<1>5. QED
  BY <1>3, <1>4

\* A snapshot shows the transactions that had committed when it was taken.
LEMMA SnapshotShowsSeen ==
    ASSUME Inv, NEW t \in activeTxns, NEW u \in TxnId, u # t
    PROVE  (txnStates[u] = "COMMITTED" /\ SnapshotSees(snapshots[t], u)) <=> u \in seen[t]
<1>1. t \in TxnId /\ t \in Nat /\ u \in Nat
  BY DEF Inv, TypeOK, TxnId
<1>2. /\ snapshots[t].xmax = t + 1 /\ t \in snapshots[t].active
      /\ \A w \in snapshots[t].active : snapshots[t].xmin <= w /\ w <= t
      /\ u <= t /\ u \notin snapshots[t].active =>
            txnStates[u] = IF u \in seen[t] THEN "COMMITTED" ELSE "ABORTED"
      /\ u \in seen[t] => u < t /\ u \notin snapshots[t].active
  BY DEF Inv, SnapshotsRight
<1>3. snapshots[t].xmin \in Nat
  BY <1>1 DEF Inv, TypeOK, Snapshot
<1>4. SnapshotSees(snapshots[t], u) <=> u <= t /\ u \notin snapshots[t].active
  BY <1>1, <1>2, <1>3 DEF SnapshotSees
<1>5. QED
  BY <1>1, <1>2, <1>4

\* Visibility, in terms of what the transaction should see.
LEMMA VisibleIsSeen ==
    ASSUME Inv, NEW t \in activeTxns, NEW h, HeaderRight(h)
    PROVE  /\ SeesInsert(t, h) <=> h.xmin \in seen[t] \cup {t}
           /\ SeesDelete(t, h) <=> h.xmax \in seen[t] \cup {t}
<1>1. t \in TxnId /\ seen[t] \subseteq TxnId
  BY DEF Inv, TypeOK
<1>2. h.xmin \in TxnId /\ (h.xmax # NoTxn => h.xmax \in TxnId) /\ NoTxn \notin TxnId
  BY DEF HeaderRight, TxnId, NoTxn
<1>3. SeesInsert(t, h) <=> h.xmin \in seen[t] \cup {t}
  BY <1>2, OutcomeRight, SnapshotShowsSeen DEF SeesInsert
<1>4. SeesDelete(t, h) <=> h.xmax \in seen[t] \cup {t}
  <2>1. CASE h.xmax = NoTxn
    BY <1>1, <1>2, <2>1 DEF SeesDelete
  <2>2. CASE h.xmax # NoTxn
    BY <1>2, <2>2, OutcomeRight, SnapshotShowsSeen DEF SeesDelete
  <2>3. QED
    BY <2>1, <2>2
<1>5. QED
  BY <1>3, <1>4

\* No transaction that runs is among those another one has seen commit.
LEMMA RunningUnseen ==
    ASSUME Inv, NEW t \in activeTxns, NEW u \in TxnId, txnStates[u] = "RUNNING"
    PROVE  u \notin seen[t]
<1>1. t \in TxnId /\ u \in Nat /\ t \in Nat
  BY DEF Inv, TypeOK, TxnId
<1>2. u \in seen[t] => u < t /\ txnStates[u] = "COMMITTED"
  BY <1>1 DEF Inv, SnapshotsRight
<1>3. QED
  BY <1>2

\* A transaction moves from one state to the next, and stays as it ended.
StatesOnward ==
    \A u \in TxnId : /\ Ended(u) => txnStates'[u] = txnStates[u]
                     /\ txnStates[u] # "INVALID" => txnStates'[u] # "INVALID"

LEMMA HeaderKept ==
    ASSUME StatesOnward, NEW h, HeaderRight(h)
    PROVE  /\ h.xmin \in TxnId /\ txnStates'[h.xmin] # "INVALID"
           /\ h.xmax # NoTxn => h.xmax \in TxnId /\ txnStates'[h.xmax] # "INVALID"
           /\ "xminCommitted" \in h.hints => txnStates'[h.xmin] = "COMMITTED"
           /\ "xminAborted" \in h.hints => txnStates'[h.xmin] = "ABORTED"
           /\ "xmaxCommitted" \in h.hints => h.xmax # NoTxn /\ txnStates'[h.xmax] = "COMMITTED"
           /\ "xmaxAborted" \in h.hints => h.xmax # NoTxn /\ txnStates'[h.xmax] = "ABORTED"
BY DEF StatesOnward, HeaderRight, Ended

\* A step that leaves the tuples and the readers alone.
LEMMA SeenKept ==
    ASSUME SeenInv, StatesOnward, UNCHANGED <<slots, deleted>>,
           \A c \in Session : session'[c].at = "reading" =>
              /\ session'[c] = session[c]
              /\ seen'[session[c].txn] = seen[session[c].txn]
    PROVE  SeenInv'
<1>1. TuplesRight'
  <2> SUFFICES ASSUME NEW s \in DOMAIN slots
               PROVE  /\ HeaderRight(slots[s])'
                      /\ \A u \in TxnId : <<s, u>> \in deleted <=> slots[s].xmax = u
                      /\ slots[s].xmax \notin {NoTxn, slots[s].xmin} =>
                            txnStates'[slots[s].xmin] = "COMMITTED"
    BY DEF TuplesRight
  <2>1. HeaderRight(slots[s])
    BY DEF SeenInv, TuplesRight
  <2>2. HeaderRight(slots[s])'
    BY <2>1, HeaderKept DEF HeaderRight
  <2>3. slots[s].xmax \notin {NoTxn, slots[s].xmin} => txnStates'[slots[s].xmin] = "COMMITTED"
    BY <2>1 DEF SeenInv, TuplesRight, StatesOnward, HeaderRight, Ended
  <2>4. QED
    BY <2>2, <2>3 DEF SeenInv, TuplesRight
<1>2. CopiesRight'
  <2> SUFFICES ASSUME NEW c \in Session, session'[c].at = "reading"
               PROVE  /\ HeaderRight(session[c].header)'
                      /\ session'[c].header.xmin = slots[session'[c].slot].xmin
                      /\ \/ session'[c].header.xmax = slots[session'[c].slot].xmax
                         \/ /\ session'[c].header.xmax = NoTxn
                            /\ slots[session'[c].slot].xmax
                                  \notin seen'[session'[c].txn] \cup {session'[c].txn}
    BY DEF CopiesRight
  <2>1. session'[c] = session[c] /\ seen'[session[c].txn] = seen[session[c].txn]
    OBVIOUS
  <2>2. HeaderRight(session[c].header)
    BY <2>1 DEF SeenInv, CopiesRight
  <2>3. HeaderRight(session[c].header)'
    BY <2>1, <2>2, HeaderKept DEF HeaderRight
  <2>4. QED
    BY <2>1, <2>3 DEF SeenInv, CopiesRight
<1>3. QED
  BY <1>1, <1>2 DEF SeenInv

\* Steps of transactions.
LEMMA TxnStepSeen ==
    ASSUME Inv, SeenInv, NEW c \in Session,
           \/ BeginTransaction(c) \/ EndInClog(c) \/ EndFlushed(c)
           \/ \E outcome \in {"COMMITTED", "ABORTED"} : EndInMemory(c, outcome)
    PROVE  SeenInv'
<1>1. session \in [Session -> SessionRecord]
  BY DEF Inv, TypeOK
<1>2. CASE BeginTransaction(c)
  <2>1. /\ nextTxnId \in TxnId /\ txnStates[nextTxnId] = "INVALID"
        /\ txnStates'[nextTxnId] = "RUNNING"
        /\ \A u \in TxnId : u # nextTxnId => txnStates'[u] = txnStates[u] /\ seen'[u] = seen[u]
    BY <1>2, BeginTransactionInv
  <2>2. StatesOnward
    BY <2>1 DEF StatesOnward, Ended
  <2>3. /\ UNCHANGED <<slots, deleted>>
        /\ \/ session' = session
           \/ session' = [session EXCEPT ![c] = [Idle EXCEPT !.at = "active", !.txn = nextTxnId]]
    BY <1>2 DEF BeginTransaction, pageVars
  <2>4. \A d \in Session : session'[d].at = "reading" => session'[d] = session[d]
    BY <1>1, <2>3 DEF Idle
  <2>5. \A d \in Session : session[d].at = "reading" =>
           session[d].txn \in TxnId /\ session[d].txn # nextTxnId
    BY <2>1 DEF Inv, SessionsApart
  <2>6. QED
    BY <2>1, <2>2, <2>3, <2>4, <2>5, SeenKept
<1>3. CASE EndInClog(c) \/ EndFlushed(c)
  <2>1. /\ UNCHANGED <<txnStates, slots, deleted, seen>>
        /\ \/ session' = [session EXCEPT ![c].at = "flush"]
           \/ session' = [session EXCEPT ![c] = Idle]
    BY <1>3 DEF EndInClog, EndFlushed, mvccVars, pageVars, history
  <2>2. \A d \in Session : session'[d].at = "reading" => session'[d] = session[d]
    <3>1. session[c] \in SessionRecord /\ Idle.at = "idle"
      BY <1>1 DEF Idle
    <3>2. session'[c].at # "reading"
      BY <1>1, <2>1, <3>1 DEF SessionRecord
    <3>3. \A d \in Session \ {c} : session'[d] = session[d]
      BY <1>1, <2>1
    <3>4. QED
      BY <3>2, <3>3
  <2>3. StatesOnward
    BY <2>1 DEF StatesOnward
  <2>4. QED
    BY <2>1, <2>2, <2>3, SeenKept
<1>4. CASE \E outcome \in {"COMMITTED", "ABORTED"} : EndInMemory(c, outcome)
  <2>1. PICK outcome \in {"COMMITTED", "ABORTED"} : EndInMemory(c, outcome)
    BY <1>4
  <2>2. /\ session[c].at = "active"
        /\ UNCHANGED <<slots, deleted, seen>>
        /\ session' = [session EXCEPT ![c].at = "log"]
    BY <2>1 DEF EndInMemory, Active, pageVars, history
  <2>3. \A u \in TxnId : txnStates'[u] = IF u = session[c].txn THEN outcome ELSE txnStates[u]
    BY <2>1, EndInMemoryInv
  <2>4. txnStates[session[c].txn] = "RUNNING"
    BY <2>2 DEF Inv, SessionsApart
  <2>5. StatesOnward
    BY <2>3, <2>4 DEF StatesOnward, Ended
  <2>6. \A d \in Session : session'[d].at = "reading" => session'[d] = session[d]
    <3>1. TypeOK
      BY DEF Inv
    <3>2. session'[c].at = "log" /\ \A d \in Session \ {c} : session'[d] = session[d]
      BY <2>2, <3>1, SessionAt
    <3>3. QED
      BY <3>2
  <2>7. QED
    BY <2>2, <2>5, <2>6, SeenKept
<1>5. QED
  BY <1>2, <1>3, <1>4

LEMMA InsertSeen ==
    ASSUME Inv, SeenInv, NEW c \in Session, Insert(c)
    PROVE  SeenInv'
<1> DEFINE t == session[c].txn
           size == TupleHeaderSize + DataLen
           new == [offset |-> freeSpaceOffset - size, length |-> size,
                   xmin |-> t, xmax |-> NoTxn, hints |-> {}]
<1>1. /\ session[c].at = "active"
      /\ slots' = Append(slots, new)
      /\ UNCHANGED <<txnStates, session, seen, deleted>>
  BY DEF Insert, InsertTuple, Active, mvccVars, history
<1>2. slots \in Seq(Tuple) /\ Len(slots) \in Nat /\ DOMAIN slots = 1 .. Len(slots)
  BY DEF Inv, TypeOK
<1>3. DOMAIN slots' = 1 .. (Len(slots) + 1)
  BY <1>1, <1>2
<1>4. \A i \in DOMAIN slots : slots'[i] = slots[i]
  BY <1>1, <1>2
<1>5. slots'[Len(slots) + 1] = new
  BY <1>1, <1>2
<1>6. t \in TxnId /\ txnStates[t] = "RUNNING"
  BY <1>1 DEF Inv, SessionsApart
<1>7. TuplesRight'
  <2> SUFFICES ASSUME NEW s \in DOMAIN slots'
               PROVE  /\ HeaderRight(slots[s])'
                      /\ \A u \in TxnId : <<s, u>> \in deleted' <=> slots'[s].xmax = u
                      /\ slots'[s].xmax \notin {NoTxn, slots'[s].xmin} =>
                            txnStates'[slots'[s].xmin] = "COMMITTED"
    BY DEF TuplesRight
  <2>1. CASE s \in DOMAIN slots
    <3>1. slots'[s] = slots[s] /\ HeaderRight(slots[s])
      BY <1>4, <2>1 DEF SeenInv, TuplesRight
    <3>2. HeaderRight(slots[s])'
      BY <1>1, <3>1 DEF HeaderRight
    <3>3. QED
      BY <1>1, <2>1, <3>1, <3>2 DEF SeenInv, TuplesRight
  <2>2. CASE s = Len(slots) + 1
    <3>1. slots'[s] = new /\ new.xmin = t /\ new.xmax = NoTxn /\ new.hints = {}
      BY <1>5, <2>2
    <3>2. HeaderRight(slots[s])'
      BY <1>1, <1>6, <3>1 DEF HeaderRight
    <3>3. \A u \in TxnId : <<s, u>> \notin deleted /\ u # NoTxn
      BY <1>2, <2>2 DEF Inv, TypeOK, TxnId, NoTxn
    <3>4. QED
      BY <1>1, <3>1, <3>2, <3>3
  <2>3. QED
    BY <1>2, <1>3, <2>1, <2>2
<1>8. CopiesRight'
  <2> SUFFICES ASSUME NEW d \in Session, session[d].at = "reading"
               PROVE  /\ HeaderRight(session[d].header)'
                      /\ session[d].header.xmin = slots'[session[d].slot].xmin
                      /\ \/ session[d].header.xmax = slots'[session[d].slot].xmax
                         \/ /\ session[d].header.xmax = NoTxn
                            /\ slots'[session[d].slot].xmax
                                  \notin seen[session[d].txn] \cup {session[d].txn}
    BY <1>1 DEF CopiesRight
  <2>1. slots'[session[d].slot] = slots[session[d].slot]
    BY <1>4 DEF Inv, ReadersRight
  <2>2. HeaderRight(session[d].header)'
    BY <1>1 DEF SeenInv, CopiesRight, HeaderRight
  <2>3. QED
    BY <2>1, <2>2 DEF SeenInv, CopiesRight
<1>9. QED
  BY <1>7, <1>8 DEF SeenInv

LEMMA DeleteSeen ==
    ASSUME Inv, SeenInv, ~Redelete, NEW c \in Session, NEW s \in DOMAIN slots, Delete(c, s)
    PROVE  SeenInv'
<1> DEFINE t == session[c].txn
           h == slots[s]
<1>1. /\ session[c].at = "active"
      /\ IsTupleVisible(t, h) /\ h.xmax = NoTxn
      /\ deleted' = deleted \cup {<<s, t>>}
      /\ UNCHANGED <<txnStates, session, seen>>
  BY DEF Delete, Active, mvccVars
<1>2. h \in Tuple
  BY DEF Inv, TypeOK
<1>3. /\ DOMAIN slots' = DOMAIN slots
      /\ slots'[s] = [h EXCEPT !.xmax = t]
      /\ \A i \in DOMAIN slots \ {s} : slots'[i] = slots[i]
  BY DeleteInv
<1>4. slots'[s].xmax = t /\ slots'[s].xmin = h.xmin /\ slots'[s].hints = h.hints
  BY <1>2, <1>3 DEF Tuple
<1>5. t \in TxnId /\ txnStates[t] = "RUNNING" /\ t # NoTxn
  BY <1>1 DEF Inv, SessionsApart, TxnId, NoTxn
<1>6. HeaderRight(h) /\ \A u \in TxnId : <<s, u>> \notin deleted
  BY <1>1 DEF SeenInv, TuplesRight, TxnId, NoTxn
<1>7. h.xmin = t \/ txnStates[h.xmin] = "COMMITTED"
  BY <1>1, <1>6, OutcomeRight DEF IsTupleVisible, SeesInsert
<1> HIDE DEF t, h
<1>8. TuplesRight'
  <2> SUFFICES ASSUME NEW i \in DOMAIN slots
               PROVE  /\ HeaderRight(slots[i])'
                      /\ \A u \in TxnId : <<i, u>> \in deleted' <=> slots'[i].xmax = u
                      /\ slots'[i].xmax \notin {NoTxn, slots'[i].xmin} =>
                            txnStates'[slots'[i].xmin] = "COMMITTED"
    BY <1>3 DEF TuplesRight
  <2>1. CASE i = s
    <3>1. HeaderRight(slots[i])'
      BY <1>1, <1>4, <1>5, <1>6, <2>1 DEF HeaderRight
    <3>2. \A u \in TxnId : <<i, u>> \in deleted' <=> slots'[i].xmax = u
      BY <1>1, <1>4, <1>6, <2>1
    <3>3. QED
      BY <1>1, <1>4, <1>7, <2>1, <3>1, <3>2
  <2>2. CASE i # s
    <3>1. slots'[i] = slots[i] /\ HeaderRight(slots[i])
      BY <1>3, <2>2 DEF SeenInv, TuplesRight
    <3>2. HeaderRight(slots[i])'
      BY <1>1, <3>1 DEF HeaderRight
    <3>3. QED
      BY <1>1, <2>2, <3>1, <3>2 DEF SeenInv, TuplesRight
  <2>3. QED
    BY <2>1, <2>2
<1>9. CopiesRight'
  <2> SUFFICES ASSUME NEW d \in Session, session[d].at = "reading"
               PROVE  /\ HeaderRight(session[d].header)'
                      /\ session[d].header.xmin = slots'[session[d].slot].xmin
                      /\ \/ session[d].header.xmax = slots'[session[d].slot].xmax
                         \/ /\ session[d].header.xmax = NoTxn
                            /\ slots'[session[d].slot].xmax
                                  \notin seen[session[d].txn] \cup {session[d].txn}
    BY <1>1 DEF CopiesRight
  <2>1. HeaderRight(session[d].header)'
    BY <1>1 DEF SeenInv, CopiesRight, HeaderRight
  <2>2. session[d].slot \in DOMAIN slots
    BY DEF Inv, ReadersRight
  <2>3. CASE session[d].slot = s
    <3>1. session[d].txn \in activeTxns /\ session[d].txn # t
      BY <1>1 DEF Inv, SessionsApart, IdsInOrder, t
    <3>2. t \notin seen[session[d].txn] \cup {session[d].txn}
      BY <1>5, <3>1, RunningUnseen
    <3>3. session[d].header.xmin = h.xmin /\ session[d].header.xmax = NoTxn
      BY <1>1, <2>3 DEF SeenInv, CopiesRight, h
    <3>4. QED
      BY <1>4, <2>1, <2>3, <3>2, <3>3
  <2>4. CASE session[d].slot # s
    BY <1>3, <2>1, <2>2, <2>4 DEF SeenInv, CopiesRight
  <2>5. QED
    BY <2>3, <2>4
<1>10. QED
  BY <1>8, <1>9 DEF SeenInv

LEMMA ReadHeaderSeen ==
    ASSUME Inv, SeenInv, NEW c \in Session, NEW s \in DOMAIN slots, ReadHeader(c, s)
    PROVE  SeenInv'
<1>1. /\ UNCHANGED <<txnStates, slots, deleted, seen>>
      /\ session'[c] = [session[c] EXCEPT !.at = "reading", !.slot = s, !.header = slots[s]]
      /\ \A d \in Session \ {c} : session'[d] = session[d]
  BY ReadHeaderInv DEF ReadHeader, mvccVars, pageVars, history
<1>2. session[c] \in SessionRecord
  BY DEF Inv, TypeOK
<1>3. session'[c].slot = s /\ session'[c].header = slots[s]
  BY <1>1, <1>2 DEF SessionRecord
<1>4. TuplesRight'
  BY <1>1 DEF SeenInv, TuplesRight, HeaderRight
<1>5. CopiesRight'
  <2> SUFFICES ASSUME NEW d \in Session, session'[d].at = "reading"
               PROVE  /\ HeaderRight(session[d].header)'
                      /\ session'[d].header.xmin = slots[session'[d].slot].xmin
                      /\ \/ session'[d].header.xmax = slots[session'[d].slot].xmax
                         \/ /\ session'[d].header.xmax = NoTxn
                            /\ slots[session'[d].slot].xmax
                                  \notin seen[session'[d].txn] \cup {session'[d].txn}
    BY <1>1 DEF CopiesRight
  <2>1. CASE d = c
    <3>1. HeaderRight(slots[s])
      BY DEF SeenInv, TuplesRight
    <3>2. HeaderRight(session[d].header)'
      BY <1>1, <1>3, <2>1, <3>1 DEF HeaderRight
    <3>3. QED
      BY <1>3, <2>1, <3>2
  <2>2. CASE d # c
    <3>1. session'[d] = session[d]
      BY <1>1, <2>2
    <3>2. HeaderRight(session[d].header)'
      BY <1>1, <3>1 DEF SeenInv, CopiesRight, HeaderRight
    <3>3. QED
      BY <3>1, <3>2 DEF SeenInv, CopiesRight
  <2>3. QED
    BY <2>1, <2>2
<1>6. QED
  BY <1>4, <1>5 DEF SeenInv

\* The hint bits a reader sets are true of the tuple as it is by then.
LEMMA DecideSeen ==
    ASSUME Inv, SeenInv, NEW c \in Session, Decide(c)
    PROVE  SeenInv'
<1> DEFINE t == session[c].txn
           s == session[c].slot
           h == session[c].header
           flags == LearnedHints(t, h)
<1>1. session[c].at = "reading" /\ UNCHANGED <<txnStates, deleted, seen>>
  BY DEF Decide, mvccVars, history
<1>2. /\ DOMAIN slots' = DOMAIN slots
      /\ slots'[s] = [slots[s] EXCEPT !.hints = @ \cup flags]
      /\ \A i \in DOMAIN slots \ {s} : slots'[i] = slots[i]
      /\ session'[c].at = "active" /\ session'[c].txn = session[c].txn
      /\ \A d \in Session \ {c} : session'[d] = session[d]
  BY DecideInv
<1>3. s \in DOMAIN slots /\ slots[s] \in Tuple
  BY <1>1 DEF Inv, TypeOK, ReadersRight
<1>4. /\ slots'[s].xmin = slots[s].xmin /\ slots'[s].xmax = slots[s].xmax
      /\ slots'[s].hints = slots[s].hints \cup flags
  BY <1>2, <1>3 DEF Tuple
<1>5. /\ HeaderRight(h) /\ HeaderRight(slots[s])
      /\ h.xmin = slots[s].xmin
      /\ h.xmax # NoTxn => h.xmax = slots[s].xmax
  BY <1>1, <1>3 DEF SeenInv, CopiesRight, TuplesRight
<1>6. Inserter(h) = txnStates[h.xmin] /\ (h.xmax # NoTxn => Deleter(h) = txnStates[h.xmax])
  BY <1>5, OutcomeRight
<1>7. /\ "xminCommitted" \in flags => txnStates[h.xmin] = "COMMITTED"
      /\ "xminAborted" \in flags => txnStates[h.xmin] = "ABORTED"
      /\ "xmaxCommitted" \in flags => h.xmax # NoTxn /\ txnStates[h.xmax] = "COMMITTED"
      /\ "xmaxAborted" \in flags => h.xmax # NoTxn /\ txnStates[h.xmax] = "ABORTED"
  BY <1>6 DEF LearnedHints, HintOf
<1> HIDE DEF t, s, h, flags
<1>8. HeaderRight(slots'[s])
  BY <1>4, <1>5, <1>7 DEF HeaderRight
<1>9. \A i \in DOMAIN slots : /\ HeaderRight(slots'[i])
                              /\ slots'[i].xmin = slots[i].xmin /\ slots'[i].xmax = slots[i].xmax
  BY <1>2, <1>4, <1>8 DEF SeenInv, TuplesRight
<1>10. TuplesRight'
  <2>1. \A i \in DOMAIN slots : HeaderRight(slots[i])'
    BY <1>1, <1>9 DEF HeaderRight
  <2>2. QED
    BY <1>1, <1>2, <1>9, <2>1 DEF SeenInv, TuplesRight
<1>11. CopiesRight'
  <2> SUFFICES ASSUME NEW d \in Session, session'[d].at = "reading"
               PROVE  /\ HeaderRight(session[d].header)'
                      /\ session'[d].header.xmin = slots'[session'[d].slot].xmin
                      /\ \/ session'[d].header.xmax = slots'[session'[d].slot].xmax
                         \/ /\ session'[d].header.xmax = NoTxn
                            /\ slots'[session'[d].slot].xmax
                                  \notin seen[session'[d].txn] \cup {session'[d].txn}
    BY <1>1 DEF CopiesRight
  <2>1. session'[d] = session[d]
    BY <1>2
  <2>2. session[d].slot \in DOMAIN slots
    BY <2>1 DEF Inv, ReadersRight
  <2>3. HeaderRight(session[d].header)'
    BY <1>1, <2>1 DEF SeenInv, CopiesRight, HeaderRight
  <2>4. QED
    BY <1>9, <2>1, <2>2, <2>3 DEF SeenInv, CopiesRight
<1>12. QED
  BY <1>10, <1>11 DEF SeenInv

LEMMA NextSeen == ~Redelete /\ Inv /\ SeenInv /\ [Next]_vars => SeenInv'
<1> SUFFICES ASSUME ~Redelete, Inv, SeenInv, [Next]_vars PROVE SeenInv'
  OBVIOUS
<1>1. ASSUME NEW c \in Session, SessionStep(c) PROVE SeenInv'
  <2>1. CASE \/ BeginTransaction(c) \/ EndInClog(c) \/ EndFlushed(c)
             \/ \E outcome \in {"COMMITTED", "ABORTED"} : EndInMemory(c, outcome)
    BY <2>1, TxnStepSeen
  <2>2. CASE Insert(c)
    BY <2>2, InsertSeen
  <2>3. CASE \E s \in DOMAIN slots : Delete(c, s)
    BY <2>3, DeleteSeen
  <2>4. CASE \E s \in DOMAIN slots : ReadHeader(c, s)
    BY <2>4, ReadHeaderSeen
  <2>5. CASE Decide(c)
    BY <2>5, DecideSeen
  <2>6. QED
    BY <1>1, <2>1, <2>2, <2>3, <2>4, <2>5 DEF SessionStep
<1>2. ASSUME NEW inOrder \in BOOLEAN, Restart(inOrder) PROVE SeenInv'
  BY <1>2, RestartInv
<1>3. CASE UNCHANGED vars
  <2>1. UNCHANGED <<txnStates, slots, session, seen, deleted>>
    BY <1>3 DEF vars, mvccVars, clogVars, pageVars, history
  <2>2. QED
    BY <2>1, SeenKept DEF StatesOnward
<1>4. QED
  BY <1>1, <1>2, <1>3 DEF Next

LEMMA SeenInvAlways == Spec /\ ~Redelete => [](Inv /\ SeenInv)
<1>1. Init => Inv /\ SeenInv
  BY InitInv
<1>2. ~Redelete /\ Inv /\ SeenInv /\ [Next]_vars => (Inv /\ SeenInv)'
  BY NextInv, NextSeen
<1>3. ~Redelete => (Init /\ [][Next]_vars => [](Inv /\ SeenInv))
  <2> SUFFICES ASSUME ~Redelete PROVE Init /\ [][Next]_vars => [](Inv /\ SeenInv)
    OBVIOUS
  <2>1. Inv /\ SeenInv /\ [Next]_vars => (Inv /\ SeenInv)'
    BY <1>2
  <2>2. QED
    BY <1>1, <2>1, PTL
<1>4. QED
  BY <1>3 DEF Spec

\* Hint bits never lie (UpdateHintBits, IsTupleVisible), as long as a tuple is
\* deleted only once.
THEOREM HintsAlwaysTrue == Spec /\ ~Redelete => []HintsTrue
<1>1. Inv /\ SeenInv => HintsTrue
  BY DEF SeenInv, TuplesRight, HeaderRight, HintsTrue
<1>2. QED
  BY <1>1, SeenInvAlways, PTL

\* The transactions that run are active, and should see a tuple as its header
\* tells it.
LEMMA RunningActive ==
    ASSUME Inv, NEW c \in Session, session[c].at \in {"active", "reading"}
    PROVE  session[c].txn \in activeTxns
BY DEF Inv, SessionsApart, IdsInOrder

LEMMA ShouldSeeRight ==
    ASSUME Inv, SeenInv, NEW t \in activeTxns, NEW s \in DOMAIN slots
    PROVE  ShouldSee(t, s) <=> /\ slots[s].xmin \in seen[t] \cup {t}
                               /\ slots[s].xmax \notin seen[t] \cup {t}
<1>1. t \in TxnId /\ seen[t] \subseteq TxnId
  BY DEF Inv, TypeOK
<1>2. \A u \in TxnId : <<s, u>> \in deleted <=> slots[s].xmax = u
  BY DEF SeenInv, TuplesRight
<1>3. QED
  BY <1>1, <1>2 DEF ShouldSee

LEMMA SeenIsRead == Inv /\ SeenInv => SnapshotRead
<1> SUFFICES ASSUME Inv, SeenInv PROVE SnapshotRead
  OBVIOUS
<1>1. ASSUME NEW t \in Running, NEW s \in DOMAIN slots
      PROVE  IsTupleVisible(t, slots[s]) = ShouldSee(t, s)
  <2>1. t \in activeTxns
    BY RunningActive DEF Running
  <2>2. HeaderRight(slots[s])
    BY DEF SeenInv, TuplesRight
  <2>3. /\ SeesInsert(t, slots[s]) <=> slots[s].xmin \in seen[t] \cup {t}
        /\ SeesDelete(t, slots[s]) <=> slots[s].xmax \in seen[t] \cup {t}
    BY <2>1, <2>2, VisibleIsSeen
  <2>4. IsTupleVisible(t, slots[s]) <=> ShouldSee(t, s)
    BY <2>1, <2>3, ShouldSeeRight DEF IsTupleVisible
  <2>5. IsTupleVisible(t, slots[s]) \in BOOLEAN /\ ShouldSee(t, s) \in BOOLEAN
    BY DEF IsTupleVisible, ShouldSee
  <2>6. QED
    BY <2>4, <2>5
<1>2. ASSUME NEW c \in Session, session[c].at = "reading"
      PROVE  IsTupleVisible(session[c].txn, session[c].header)
                = ShouldSee(session[c].txn, session[c].slot)
  <2> DEFINE t == session[c].txn
             s == session[c].slot
             h == session[c].header
  <2>1. t \in activeTxns /\ s \in DOMAIN slots
    BY <1>2, RunningActive DEF Inv, ReadersRight
  <2>2. /\ HeaderRight(h) /\ h.xmin = slots[s].xmin
        /\ \/ h.xmax = slots[s].xmax
           \/ h.xmax = NoTxn /\ slots[s].xmax \notin seen[t] \cup {t}
    BY <1>2 DEF SeenInv, CopiesRight
  <2>3. NoTxn \notin seen[t] \cup {t}
    BY <2>1 DEF Inv, TypeOK, TxnId, NoTxn
  <2> HIDE DEF t, s, h
  <2>4. /\ SeesInsert(t, h) <=> h.xmin \in seen[t] \cup {t}
        /\ SeesDelete(t, h) <=> h.xmax \in seen[t] \cup {t}
    BY <2>1, <2>2, VisibleIsSeen
  <2>5. IsTupleVisible(t, h) <=> ShouldSee(t, s)
    BY <2>1, <2>2, <2>3, <2>4, ShouldSeeRight DEF IsTupleVisible
  <2>6. IsTupleVisible(t, h) \in BOOLEAN /\ ShouldSee(t, s) \in BOOLEAN
    BY DEF IsTupleVisible, ShouldSee
  <2>7. IsTupleVisible(t, h) = ShouldSee(t, s)
    BY <2>5, <2>6
  <2>8. QED
    BY <2>7 DEF t, s, h
<1>3. QED
  BY <1>1, <1>2 DEF SnapshotRead

\* A transaction sees what had committed when it began and its own changes, for
\* any number of sessions, tuples and restarts, as long as a tuple is deleted
\* only once (IsTupleVisible).
THEOREM SnapshotAlwaysRead == Spec /\ ~Redelete => []SnapshotRead
BY SeenIsRead, SeenInvAlways, PTL

\* The two visibility checks of the manager agree (IsVersionVisible and
\* IsTupleVisible).
THEOREM VersionsAlwaysAgree == Spec /\ ~Redelete => []VersionsAgree
<1>1. Inv /\ SeenInv => VersionsAgree
  <2> SUFFICES ASSUME Inv, SeenInv, NEW t \in Running, NEW s \in DOMAIN slots
               PROVE  IsVersionVisible(t, slots[s]) = IsTupleVisible(t, slots[s])
    BY DEF VersionsAgree
  <2> DEFINE v == slots[s]
  <2>1. t \in activeTxns /\ t \in TxnId /\ txnStates[t] = "RUNNING"
    BY RunningActive DEF Running, Inv, IdsInOrder, TypeOK
  <2>2. /\ HeaderRight(v)
        /\ v.xmax \notin {NoTxn, v.xmin} => txnStates[v.xmin] = "COMMITTED"
    BY DEF SeenInv, TuplesRight
  <2>3. /\ v.xmin \in TxnId /\ (v.xmax # NoTxn => v.xmax \in TxnId)
        /\ NoTxn \notin seen[t] \cup {t}
    BY <2>1, <2>2 DEF HeaderRight, Inv, TypeOK, TxnId, NoTxn
  <2> HIDE DEF v
  <2>4. /\ GetTransactionState(v.xmin) = txnStates[v.xmin]
        /\ v.xmax # NoTxn => GetTransactionState(v.xmax) = txnStates[v.xmax]
    BY <2>2 DEF HeaderRight, GetTransactionState
  <2>5. /\ SeesInsert(t, v) <=> v.xmin \in seen[t] \cup {t}
        /\ SeesDelete(t, v) <=> v.xmax \in seen[t] \cup {t}
    BY <2>1, <2>2, VisibleIsSeen
  <2>6. \A u \in TxnId \ {t} :
           (txnStates[u] = "COMMITTED" /\ SnapshotSees(snapshots[t], u)) <=> u \in seen[t]
    BY <2>1, SnapshotShowsSeen
  <2>7. IsTupleVisible(t, v) <=> /\ v.xmin \in seen[t] \cup {t}
                                 /\ v.xmax \notin seen[t] \cup {t}
    BY <2>5 DEF IsTupleVisible
  <2>8. CASE v.xmin = t
    <3>1. v.xmax \in {NoTxn, t}
      BY <2>1, <2>2, <2>8
    <3>2. IsVersionVisible(t, v) <=> v.xmax = NoTxn
      BY <2>1, <2>8, <3>1 DEF IsVersionVisible
    <3>3. QED
      BY <2>3, <2>7, <2>8, <3>1, <3>2 DEF IsVersionVisible, IsTupleVisible, v
  <2>9. CASE v.xmin # t
    <3>1. IsVersionVisible(t, v) <=>
             /\ v.xmin \in seen[t]
             /\ v.xmax = NoTxn \/ (v.xmax # t /\ v.xmax \notin seen[t])
      BY <2>3, <2>4, <2>6, <2>9 DEF IsVersionVisible
    <3>2. QED
      BY <2>3, <2>7, <2>9, <3>1 DEF IsVersionVisible, IsTupleVisible, v
  <2>10. QED
    BY <2>8, <2>9
<1>2. QED
  BY <1>1, SeenInvAlways, PTL

\* A step leaves alone what a running transaction has seen and the xmin of a
\* tuple, and adds deletions by running transactions alone.
LEMMA SeenStays ==
    ASSUME Inv, Next, NEW t \in Running, t \in Running', NEW s \in DOMAIN slots
    PROVE  /\ s \in DOMAIN slots' /\ seen'[t] = seen[t] /\ slots'[s].xmin = slots[s].xmin
           /\ \/ deleted' = deleted
              \/ \E u \in TxnId, i \in DOMAIN slots :
                    /\ txnStates[u] = "RUNNING" /\ slots'[i].xmax = u
                    /\ deleted' = deleted \cup {<<i, u>>}
<1>1. t \in activeTxns /\ t \in TxnId /\ txnStates[t] = "RUNNING"
  BY RunningActive DEF Running, Inv, IdsInOrder, TypeOK
<1>2. slots \in Seq(Tuple) /\ slots[s] \in Tuple
  BY DEF Inv, TypeOK
<1>3. ASSUME NEW inOrder \in BOOLEAN, Restart(inOrder) PROVE FALSE
  <2>1. session' = [c \in Session |-> Idle]
    BY <1>3 DEF Restart
  <2>2. Running' = {}
    BY <2>1 DEF Running, Idle
  <2>3. QED
    BY <2>2
<1>4. PICK c \in Session : SessionStep(c)
  BY <1>3 DEF Next
<1>5. CASE BeginTransaction(c)
  <2>1. seen'[t] = seen[t]
    BY <1>1, <1>5, BeginTransactionInv
  <2>2. QED
    BY <1>5, <2>1 DEF BeginTransaction, pageVars
<1>6. CASE \/ EndInClog(c) \/ EndFlushed(c) \/ (\E i \in DOMAIN slots : ReadHeader(c, i))
           \/ \E outcome \in {"COMMITTED", "ABORTED"} : EndInMemory(c, outcome)
  BY <1>6 DEF EndInClog, EndFlushed, ReadHeader, EndInMemory, pageVars, history
<1>7. CASE Insert(c)
  BY <1>2, <1>7 DEF Insert, InsertTuple, history
<1>8. CASE \E i \in DOMAIN slots : Delete(c, i)
  <2>1. PICK i \in DOMAIN slots : Delete(c, i)
    BY <1>8
  <2>2. /\ DOMAIN slots' = DOMAIN slots
        /\ slots'[i] = [slots[i] EXCEPT !.xmax = session[c].txn]
        /\ \A j \in DOMAIN slots \ {i} : slots'[j] = slots[j]
    BY <2>1, DeleteInv
  <2>3. slots[i] \in Tuple
    BY DEF Inv, TypeOK
  <2>4. slots'[i].xmax = session[c].txn /\ slots'[i].xmin = slots[i].xmin
    BY <2>2, <2>3 DEF Tuple
  <2>5. slots'[s].xmin = slots[s].xmin
    BY <2>2, <2>4
  <2>6. session[c].txn \in TxnId /\ txnStates[session[c].txn] = "RUNNING"
    BY <2>1 DEF Delete, Active, Inv, SessionsApart
  <2>7. deleted' = deleted \cup {<<i, session[c].txn>>} /\ seen' = seen
    BY <2>1 DEF Delete
  <2>8. QED
    BY <2>2, <2>4, <2>5, <2>6, <2>7
<1>9. CASE Decide(c)
  <2>1. /\ DOMAIN slots' = DOMAIN slots
        /\ slots'[session[c].slot]
              = [slots[session[c].slot] EXCEPT
                   !.hints = @ \cup LearnedHints(session[c].txn, session[c].header)]
        /\ \A j \in DOMAIN slots \ {session[c].slot} : slots'[j] = slots[j]
    BY <1>9, DecideInv
  <2>2. slots'[s].xmin = slots[s].xmin
    BY <1>2, <2>1 DEF Tuple
  <2>3. deleted' = deleted /\ seen' = seen
    BY <1>9 DEF Decide, history
  <2>4. QED
    BY <2>1, <2>2, <2>3
<1>10. QED
  BY <1>4, <1>5, <1>6, <1>7, <1>8, <1>9 DEF SessionStep

\* No step of another transaction changes what one sees (IsTupleVisible), as
\* long as a tuple is deleted only once.
THEOREM ReadsAlwaysRepeat == Spec /\ ~Redelete => RepeatableRead
<1>1. Inv /\ SeenInv /\ SnapshotRead /\ SnapshotRead' /\ [Next]_vars => [ReadsRepeat]_vars
  <2> SUFFICES ASSUME Inv, SnapshotRead, SnapshotRead', Next,
                      NEW t \in Running, t \in Running', NEW s \in DOMAIN slots,
                      slots'[s].xmax # t
               PROVE  IsTupleVisible(t, slots[s])' = IsTupleVisible(t, slots[s])
    BY DEF ReadsRepeat
  <2>1. /\ s \in DOMAIN slots' /\ seen'[t] = seen[t] /\ slots'[s].xmin = slots[s].xmin
        /\ \/ deleted' = deleted
           \/ \E u \in TxnId, i \in DOMAIN slots :
                 /\ txnStates[u] = "RUNNING" /\ slots'[i].xmax = u
                 /\ deleted' = deleted \cup {<<i, u>>}
    BY SeenStays
  <2>2. IsTupleVisible(t, slots[s])' = ShouldSee(t, s)'
    BY <2>1 DEF SnapshotRead
  <2>3. IsTupleVisible(t, slots[s]) = ShouldSee(t, s)
    BY DEF SnapshotRead
  <2>4. \A u \in TxnId : txnStates[u] = "RUNNING" => u \notin seen[t]
    BY RunningActive, RunningUnseen DEF Running
  <2>5. \A u \in seen[t] \cup {t} : <<s, u>> \in deleted' <=> <<s, u>> \in deleted
    BY <2>1, <2>4
  <2>6. ShouldSee(t, s)' = ShouldSee(t, s)
    BY <2>1, <2>5 DEF ShouldSee
  <2>7. QED
    BY <2>2, <2>3, <2>6
<1>2. Spec /\ ~Redelete => []SnapshotRead
  BY SnapshotAlwaysRead
<1>3. QED
  BY <1>1, <1>2, SeenInvAlways, PTL DEF Spec, RepeatableRead

=============================================================================
