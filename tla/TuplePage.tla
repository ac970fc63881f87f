----------------------------- MODULE TuplePage -----------------------------
(***************************************************************************)
(* Tuples in a page (src/src/concurrency/tuple_header.h, tuple_header.cpp):*)
(* a directory of slots grows from the front of the page, the tuples from  *)
(* its end.  A tuple is a header and data; of the header, xmin, xmax and   *)
(* the hint bits are kept, and of the data its length.  Each method holds  *)
(* the page latch.                                                         *)
(***************************************************************************)
EXTENDS Integers, Sequences

CONSTANTS
    PageUserDataSize,    \* PAGE_USER_DATA_SIZE
    TupleHeaderSize,     \* TUPLE_HEADER_SIZE
    SlotEntrySize,       \* SLOT_ENTRY_SIZE
    SlotDirHeaderSize    \* SLOT_DIR_HEADER_SIZE

ASSUME SizeAssumption ==
    /\ PageUserDataSize \in Nat /\ TupleHeaderSize \in Nat
    /\ SlotEntrySize \in Nat /\ SlotDirHeaderSize \in Nat
    /\ SlotDirHeaderSize <= PageUserDataSize

VARIABLES
    slots,             \* the directory, each entry with the tuple it points to
    freeSpaceOffset    \* free_space_offset

pageVars == <<slots, freeSpaceOffset>>

NoTxn == 0   \* INVALID_TXN_ID

Hints == {"xminCommitted", "xminAborted", "xmaxCommitted", "xmaxAborted"}

InitPage ==
    /\ slots = <<>>
    /\ freeSpaceOffset = PageUserDataSize

\* Where the directory ends when it has n entries.
SlotDirEnd(n) == SlotDirHeaderSize + n * SlotEntrySize

\* Mutant: the new entry of the directory is forgotten.
FitsWithoutSlot(len) ==
    TupleHeaderSize + len <= freeSpaceOffset - SlotDirEnd(Len(slots))

\* The new entry is counted twice: in the end of the directory and in the need.
Fits(len) ==
    TupleHeaderSize + len + SlotEntrySize <= freeSpaceOffset - SlotDirEnd(Len(slots) + 1)

\* InsertTuple; it returns -1 and changes nothing when the tuple does not fit.
InsertTuple(xmin, len) ==
    LET size == TupleHeaderSize + len
    IN  /\ Fits(len)
        /\ freeSpaceOffset' = freeSpaceOffset - size
        /\ slots' = Append(slots, [offset |-> freeSpaceOffset - size, length |-> size,
                                   xmin |-> xmin, xmax |-> NoTxn, hints |-> {}])

\* MarkDelete replaces xmax and leaves the hint bits.
MarkDelete(s, xmax) ==
    /\ slots' = [slots EXCEPT ![s].xmax = xmax]
    /\ UNCHANGED freeSpaceOffset

UpdateHintBits(s, flags) ==
    /\ slots' = [slots EXCEPT ![s].hints = @ \cup flags]
    /\ UNCHANGED freeSpaceOffset
=============================================================================
