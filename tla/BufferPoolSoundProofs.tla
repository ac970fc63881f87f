------------------------ MODULE BufferPoolSoundProofs ------------------------
(***************************************************************************)
(* Theorems about BufferPool: what holds until two calls race, in one of   *)
(* the ways BufferPool lists, and so always when there is one thread.      *)
(*                                                                         *)
(* Sound says of every frame which page it is for, who may use it, and     *)
(* whether its content is the latest.  A page that a client has is then    *)
(* the page it asked for (FetchedIsLatest) in a frame that is not taken    *)
(* from it (PinnedUntilRaced).                                             *)
(***************************************************************************)
EXTENDS BufferPoolProofs

-----------------------------------------------------------------------------
(***************************************************************************)
(* What holds until a race.                                                *)
(***************************************************************************)

\* A call has taken f, whose old page is not in the table any more.
Stale(f) == \E c \in Client : call[c].at \in {"write", "reset"} /\ call[c].frame = f

LoadersApart ==
    \A c \in Client : Loads(c) =>
        /\ ~Listed(call[c].frame)
        /\ \A d \in Client : Loads(d) /\ call[d].frame = call[c].frame => c = d

\* A fetch has mapped its page; those who find it there sleep until the reset.
FetchMapped ==
    \A c \in Client : Loads(c) /\ call[c].op = "fetch" =>
        /\ table[call[c].page] = call[c].frame
        /\ call[c].at \in {"write", "reset"} => loading[call[c].frame]

\* The page of a NewPage is its alone: no one else can know it.
NewUnknown ==
    \A c \in Client : Loads(c) /\ call[c].op = "new" =>
        /\ table[call[c].page] = NoFrame
        /\ call[c].page < numPages
        /\ latest[call[c].page] = Zeros
        /\ disk[call[c].page] = Zeros
        /\ \A p \in Page : table[p] # call[c].frame
        /\ \A d \in Client : Loads(d) /\ call[d].page = call[c].page => c = d
        /\ \A f \in Frame : pageId[f] = call[c].page =>
              call[c].at = "publish" /\ f = call[c].frame

\* What is in a frame at each section of a load.
Stages ==
    \A c \in Client :
        /\ call[c].at \in {"write", "reset"} =>
              \A p \in Page : pageId[call[c].frame] = p => table[p] # call[c].frame
        /\ call[c].at = "reset" /\ dirty[call[c].frame] =>
              disk[pageId[call[c].frame]] = latest[pageId[call[c].frame]]
        /\ call[c].at = "fill" =>
              pageId[call[c].frame] = NoPage /\ data[call[c].frame] = Zeros
        /\ call[c].at = "publish" => pageId[call[c].frame] = call[c].page

\* Where the table leads: to the page, to its load, or to a load that threw.
TableSound ==
    \A p \in Page : table[p] # NoFrame =>
        \/ pageId[table[p]] = p
        \/ \E c \in Client : /\ call[c].at \in {"write", "reset", "fill"}
                             /\ call[c].frame = table[p] /\ call[c].page = p
        \/ p \in MissingPages /\ pageId[table[p]] = NoPage

TableInjective ==
    \A p, q \in Page : table[p] # NoFrame /\ table[p] = table[q] => p = q

\* A frame that may be taken leaves nothing in the table but its page.
ListedMapping ==
    \A f \in Frame : Listed(f) =>
        \A p \in Page : table[p] = f => pageId[f] = p

\* A page in a frame is in the table, unless its frame is being taken or it is new.
FramesMapped ==
    \A f \in Frame : pageId[f] # NoPage =>
        \/ Stale(f)
        \/ table[pageId[f]] = f
        \/ \E c \in Client : call[c].at = "publish" /\ call[c].frame = f

\* Frames whose content counts: those in use and those still to be written back.
Live(f) == pageId[f] # NoPage /\ (dirty[f] \/ ~Stale(f))

LiveIsLatest == \A f \in Frame : Live(f) => data[f] = latest[pageId[f]]

LiveApart ==
    \A f, g \in Frame : Live(f) /\ Live(g) /\ pageId[f] = pageId[g] => f = g

DirtyHasPage == \A f \in Frame : dirty[f] => pageId[f] # NoPage

\* What has not reached the disk is in a frame that says so, or will.
DiskOrFrame ==
    \A p \in Page \ MissingPages :
        \/ disk[p] = latest[p]
        \/ \E f \in Frame : pageId[f] = p /\ dirty[f]
        \/ \E c \in Client : hold[c].page = p /\ hold[c].wrote /\ pageId[hold[c].frame] = p

\* Who has a page has it through the table, in a frame that no one may take.
HoldsMapped ==
    \A c \in Client : hold[c] # NoHold =>
        /\ table[hold[c].page] = hold[c].frame
        /\ ~Listed(hold[c].frame)
        /\ ~Stale(hold[c].frame)

\* An unpin goes on with the frame the client has.
UnpinsOwn ==
    \A c \in Client : call[c].op = "unpin" /\ call[c].at # "release" =>
        hold[c] # NoHold /\ call[c].page = hold[c].page /\ call[c].frame = hold[c].frame

\* A frame has at least a pin for each of those who use it.
Users(f) ==
    {c \in Client : hold[c].frame = f \/ (call[c].at = "publish" /\ call[c].frame = f)}

PinsCover == \A f \in Frame : Cardinality(Users(f)) <= pinCount[f]

\* Only pages of the file are used, or those that will never be in it.
Exists(p) == p < numPages \/ p \in MissingPages

OnlyExisting ==
    /\ \A p \in Page : table[p] # NoFrame => Exists(p)
    /\ \A c \in Client : call[c].op = "fetch" => Exists(call[c].page)
    /\ \A p \in Page \ MissingPages : numPages <= p => latest[p] = Zeros

Sound ==
    /\ LoadersApart /\ FetchMapped /\ NewUnknown /\ Stages
    /\ TableSound /\ TableInjective /\ ListedMapping /\ FramesMapped
    /\ LiveIsLatest /\ LiveApart /\ DirtyHasPage /\ DiskOrFrame
    /\ HoldsMapped /\ UnpinsOwn /\ PinsCover /\ OnlyExisting

-----------------------------------------------------------------------------
(***************************************************************************)
(* Steps that load nothing: which parts of Sound they keep.                *)
(***************************************************************************)

\* The calls that load a page stay where they are.
SameLoads == \A d \in Client : Loads(d) \/ Loads(d)' => call'[d] = call[d]

\* Frames become listed only if nothing but their page leads to them.
ListsGrowWell ==
    \A f \in Frame : Listed(f)' =>
        \/ Listed(f)
        \/ /\ \A d \in Client : Loads(d) => call[d].frame # f
           /\ \A p \in Page : table[p] = f => pageId[f] = p

LEMMA MappingKept ==
    ASSUME TypeInv, Sound, SameLoads, ListsGrowWell, UNCHANGED <<pageId, table, loading>>
    PROVE  /\ LoadersApart' /\ FetchMapped' /\ TableSound' /\ TableInjective'
           /\ ListedMapping' /\ FramesMapped'
           /\ \A f \in Frame : Stale(f)' <=> Stale(f)
<1>1. \A d \in Client : Loads(d)' => Loads(d) /\ call'[d] = call[d]
  BY DEF SameLoads, Loads
<1>2. \A d \in Client : Loads(d) => Loads(d)' /\ call'[d] = call[d]
  BY DEF SameLoads, Loads
<1>3. LoadersApart'
  <2>1. \A d \in Client : Loads(d) => call[d].frame \in Frame
    BY Typed DEF Loads, CallFormed
  <2>2. \A d \in Client : Loads(d) => ~Listed(call[d].frame)'
    BY <1>2, <2>1 DEF Sound, LoadersApart, ListsGrowWell
  <2>3. QED
    BY <1>1, <2>2 DEF Sound, LoadersApart
<1>4. FetchMapped'
  BY <1>1 DEF Sound, FetchMapped
<1>5. TableSound'
  BY <1>2 DEF Sound, TableSound, Loads
<1>6. TableInjective'
  BY DEF Sound, TableInjective
<1>7. ListedMapping'
  BY DEF Sound, ListedMapping, ListsGrowWell
<1>8. \A f \in Frame : Stale(f)' <=> Stale(f)
  BY <1>1, <1>2 DEF Stale, Loads
<1>9. FramesMapped'
  BY <1>2, <1>8 DEF Sound, FramesMapped, Loads
<1>10. QED
  BY <1>3, <1>4, <1>5, <1>6, <1>7, <1>8, <1>9

\* A step that changes nothing but the lists and calls that load nothing.
LEMMA QuietSound ==
    ASSUME TypeInv, Sound, SameLoads, UnpinsOwn', ListsGrowWell,
           \A d \in Client : hold[d] # NoHold => ~Listed(hold[d].frame)',
           \A d \in Client : call'[d].op = "fetch" => Exists(call'[d].page),
           UNCHANGED <<frameVars, table, diskVars, hold, latest>>
    PROVE  Sound'
<1>1. UNCHANGED <<pageId, data, pinCount, dirty, loading, table, disk, numPages, hold, latest>>
  BY DEF frameVars, diskVars
<1>2. /\ LoadersApart' /\ FetchMapped' /\ TableSound' /\ TableInjective'
      /\ ListedMapping' /\ FramesMapped'
      /\ \A f \in Frame : Stale(f)' <=> Stale(f)
  BY <1>1, MappingKept
<1>3. \A d \in Client : Loads(d)' => Loads(d) /\ call'[d] = call[d]
  BY DEF SameLoads, Loads
<1>4. NewUnknown'
  BY <1>1, <1>3 DEF Sound, NewUnknown
<1>5. Stages'
  BY <1>1, <1>3 DEF Sound, Stages, Loads
<1>6. \A f \in Frame : Live(f)' <=> Live(f)
  BY <1>1, <1>2 DEF Live
<1>7. LiveIsLatest' /\ LiveApart' /\ DirtyHasPage'
  BY <1>1, <1>6 DEF Sound, LiveIsLatest, LiveApart, DirtyHasPage
<1>8. DiskOrFrame'
  BY <1>1 DEF Sound, DiskOrFrame
<1>9. HoldsMapped'
  BY <1>1, <1>2, Typed DEF Sound, HoldsMapped, HoldFormed
<1>10. PinsCover'
  <2>1. \A f \in Frame : Users(f)' = Users(f)
    BY <1>1 DEF SameLoads, Users, Loads
  <2>2. QED
    BY <1>1, <2>1 DEF Sound, PinsCover
<1>11. OnlyExisting'
  BY <1>1 DEF Sound, OnlyExisting, Exists
<1>12. QED
  BY <1>2, <1>4, <1>5, <1>7, <1>8, <1>9, <1>10, <1>11 DEF Sound

\* A call that is to sleep, to count down or to flush, on the frame of its page.
LEMMA QuietCall ==
    ASSUME TypeInv, Sound, NEW c \in Client, NEW r \in CallRecord,
           call' = [call EXCEPT ![c] = r], ~Loads(c),
           r.at \notin {"write", "reset", "fill", "publish"},
           r.op = "unpin" /\ r.at # "release" =>
               hold[c] # NoHold /\ r.page = hold[c].page /\ r.frame = hold[c].frame,
           r.op = "fetch" => Exists(r.page),
           UNCHANGED <<frameVars, poolVars, diskVars, hold, latest>>
    PROVE  Sound'
<1>1. call'[c] = r /\ \A d \in Client \ {c} : call'[d] = call[d]
  BY DEF TypeInv, TypeOK
<1>2. SameLoads
  BY <1>1 DEF SameLoads, Loads
<1>3. UnpinsOwn'
  BY <1>1 DEF Sound, UnpinsOwn
<1>4. \A d \in Client : call'[d].op = "fetch" => Exists(call'[d].page)
  BY <1>1 DEF Sound, OnlyExisting
<1>5. ListsGrowWell /\ \A f : Listed(f)' <=> Listed(f)
  BY DEF ListsGrowWell, Listed, poolVars
<1>6. \A d \in Client : hold[d] # NoHold => ~Listed(hold[d].frame)'
  BY <1>5 DEF Sound, HoldsMapped
<1>7. UNCHANGED <<frameVars, table, diskVars, hold, latest>>
  BY DEF poolVars
<1>8. QED
  BY <1>2, <1>3, <1>4, <1>5, <1>6, <1>7, QuietSound

LEMMA SleepSound ==
    ASSUME TypeInv, Sound, NEW c \in Client, NEW p \in Page,
           NEW op \in {"fetch", "unpin", "flush"}, Sleep(c, op, p)
    PROVE  Sound'
<1> DEFINE r == Calling(op, "asleep", p, table[p])
<1>1. /\ call' = [call EXCEPT ![c] = r] /\ call[c] = Idle /\ table[p] # NoFrame
      /\ op = "unpin" => hold[c] # NoHold /\ p = hold[c].page
      /\ UNCHANGED <<frameVars, poolVars, diskVars, hold, history>>
  BY DEF Sleep, MayCall, MayAsk
<1>2. table[p] \in Frame
  BY <1>1 DEF TypeInv, TypeOK
<1>3. r \in CallRecord /\ r.op = op /\ r.at = "asleep" /\ r.page = p /\ r.frame = table[p]
  BY <1>2, CallingTyped
<1> HIDE DEF r
<1>4. r.op = "unpin" => hold[c] # NoHold /\ r.page = hold[c].page /\ r.frame = hold[c].frame
  BY <1>1, <1>3 DEF Sound, HoldsMapped
<1>5. Exists(r.page)
  BY <1>1, <1>3 DEF Sound, OnlyExisting
<1>6. ~Loads(c) /\ latest' = latest
  BY <1>1, RecordTypes DEF Loads, history
<1>7. QED
  BY <1>1, <1>3, <1>4, <1>5, <1>6, QuietCall

LEMMA SleepAgainSound ==
    ASSUME TypeInv, Sound, NEW c \in Client, SleepAgain(c)
    PROVE  Sound'
<1> DEFINE r == [call[c] EXCEPT !.at = "asleep"]
<1>1. call[c].at = "awake" /\ call' = [call EXCEPT ![c] = r]
      /\ UNCHANGED <<frameVars, poolVars, diskVars, hold, history>>
  BY DEF SleepAgain, TypeInv, TypeOK
<1>2. /\ r \in CallRecord /\ r.op = call[c].op /\ r.at = "asleep"
      /\ r.page = call[c].page /\ r.frame = call[c].frame
  BY CallAt, Typed, ZenonT(60)
<1> HIDE DEF r
<1>3. r.op = "unpin" => hold[c] # NoHold /\ r.page = hold[c].page /\ r.frame = hold[c].frame
  BY <1>1, <1>2 DEF Sound, UnpinsOwn
<1>4. r.op = "fetch" => Exists(r.page)
  BY <1>2 DEF Sound, OnlyExisting
<1>5. ~Loads(c) /\ latest' = latest
  BY <1>1 DEF Loads, history
<1>6. QED
  BY <1>1, <1>2, <1>3, <1>4, <1>5, QuietCall

\* A lookup finds the frame that the table gives, unless the page has left it
\* while the caller slept; an unpin always finds that of the page it has.
LEMMA ReadyFound ==
    ASSUME TypeInv, Sound, NEW c \in Client, NEW p \in Page, NEW f \in Frame,
           NEW op \in {"fetch", "unpin", "flush"}, Ready(c, op, p, f)
    PROVE  /\ ~Loads(c) /\ ~loading[f]
           /\ op = "unpin" => hold[c] # NoHold /\ p = hold[c].page /\ f = hold[c].frame
           /\ op = "fetch" => hold[c] = NoHold
<1>1. CASE MayCall(c) /\ MayAsk(c, op, p) /\ table[p] = f
  <2>1. ~Loads(c)
    BY <1>1, RecordTypes DEF MayCall, Loads
  <2>2. op = "unpin" => hold[c] # NoHold /\ p = hold[c].page
    BY <1>1 DEF MayAsk
  <2>3. op = "fetch" => hold[c] = NoHold
    BY <1>1 DEF MayAsk
  <2>4. QED
    BY <1>1, <2>1, <2>2, <2>3 DEF Ready, Sound, HoldsMapped
<1>2. CASE \E at \in {"asleep", "awake"} : call[c] = Calling(op, at, p, f)
  <2>1. /\ call[c].op = op /\ call[c].at \in {"asleep", "awake"}
        /\ call[c].page = p /\ call[c].frame = f
    BY <1>2 DEF Calling
  <2>2. QED
    BY <2>1, Typed DEF CallFormed, Ready, Sound, UnpinsOwn, Loads
<1>3. QED
  BY <1>1, <1>2 DEF Ready

LEMMA FoundSound ==
    ASSUME TypeInv, Sound, NEW c \in Client, NEW p \in Page, NEW f \in Frame,
           UnpinFound(c, p, f) \/ FlushFound(c, p, f)
    PROVE  Sound'
<1>1. CASE UnpinFound(c, p, f)
  <2> DEFINE r == Calling("unpin", "count", p, f)
  <2>1. /\ call' = [call EXCEPT ![c] = r] /\ Ready(c, "unpin", p, f)
        /\ UNCHANGED <<frameVars, poolVars, diskVars, hold, history>>
    BY <1>1 DEF UnpinFound
  <2>2. r \in CallRecord /\ r.op = "unpin" /\ r.at = "count" /\ r.page = p /\ r.frame = f
    BY CallingTyped
  <2>3. /\ ~Loads(c) /\ latest' = latest
        /\ hold[c] # NoHold /\ p = hold[c].page /\ f = hold[c].frame
    BY <2>1, ReadyFound DEF history
  <2> HIDE DEF r
  <2>4. QED
    BY <2>1, <2>2, <2>3, QuietCall
<1>2. CASE FlushFound(c, p, f)
  <2> DEFINE r == Calling("flush", "force", p, f)
  <2>1. /\ call' = [call EXCEPT ![c] = r] /\ Ready(c, "flush", p, f)
        /\ UNCHANGED <<frameVars, poolVars, diskVars, hold, history>>
    BY <1>2 DEF FlushFound
  <2>2. r \in CallRecord /\ r.op = "flush" /\ r.at = "force" /\ r.page = p /\ r.frame = f
    BY CallingTyped
  <2>3. ~Loads(c) /\ latest' = latest
    BY <2>1, ReadyFound DEF history
  <2> HIDE DEF r
  <2>4. QED
    BY <2>1, <2>2, <2>3, QuietCall
<1>3. QED
  BY <1>1, <1>2

LEMMA FlushAllPagesSound ==
    ASSUME TypeInv, Sound, NEW c \in Client, FlushAllPages(c)
    PROVE  Sound'
<1> DEFINE r == [Calling("flushAll", "scan", NoPage, NoFrame) EXCEPT !.todo = MappedFrames]
<1>1. /\ call' = [call EXCEPT ![c] = r] /\ call[c] = Idle
      /\ UNCHANGED <<frameVars, poolVars, diskVars, hold, history>>
  BY DEF FlushAllPages, MayCall
<1>2. MappedFrames \in SUBSET Frame
  BY DEF MappedFrames, TypeInv, TypeOK
<1>3. r \in CallRecord /\ r.op = "flushAll" /\ r.at = "scan"
  BY <1>2 DEF Calling, CallRecord
<1> HIDE DEF r
<1>4. ~Loads(c) /\ latest' = latest
  BY <1>1, RecordTypes DEF Loads, history
<1>5. QED
  BY <1>1, <1>3, <1>4, QuietCall

-----------------------------------------------------------------------------
(***************************************************************************)
(* Those who have a page.                                                  *)
(***************************************************************************)

LEMMA UsersFinite ==
    ASSUME NEW f
    PROVE  /\ IsFiniteSet(Users(f)) /\ Cardinality(Users(f)) \in Nat
           /\ \A c : Cardinality(Users(f) \cup {c}) <= Cardinality(Users(f)) + 1
           /\ \A c \in Users(f) :
                  /\ Cardinality(Users(f) \ {c}) = Cardinality(Users(f)) - 1
                  /\ Cardinality(Users(f)) > 0
<1>1. IsFiniteSet(Users(f))
  BY ClientAssumption, FS_Subset DEF Users
<1>2. Cardinality(Users(f)) \in Nat
  BY <1>1, FS_CardinalityType
<1>3. \A c : Cardinality(Users(f) \cup {c}) <= Cardinality(Users(f)) + 1
  BY <1>1, <1>2, FS_AddElement
<1>4. \A c \in Users(f) : Cardinality(Users(f) \ {c}) = Cardinality(Users(f)) - 1
  BY <1>1, FS_RemoveElement
<1>5. \A c \in Users(f) : Cardinality(Users(f)) > 0
  BY <1>1, <1>2, FS_EmptySet
<1>6. QED
  BY <1>1, <1>2, <1>3, <1>4, <1>5

\* A frame that someone has is mapped, has no load that could take it, and has
\* either the page or, if that does not exist, none.
LEMMA HeldFrame ==
    ASSUME TypeInv, FileInv, Sound, NEW c \in Client, hold[c] # NoHold
    PROVE  /\ hold[c].page \in Page /\ hold[c].frame \in Frame
           /\ table[hold[c].page] = hold[c].frame /\ ~Stale(hold[c].frame)
           /\ ~Listed(hold[c].frame)
           /\ pinCount[hold[c].frame] > 0
<1>1. hold[c].page \in Page /\ hold[c].frame \in Frame
  BY Typed DEF HoldFormed
<1>2. /\ table[hold[c].page] = hold[c].frame /\ ~Stale(hold[c].frame)
      /\ ~Listed(hold[c].frame)
  BY DEF Sound, HoldsMapped
<1>3. c \in Users(hold[c].frame)
  BY DEF Users
<1>4. Cardinality(Users(hold[c].frame)) <= pinCount[hold[c].frame]
  BY <1>1 DEF Sound, PinsCover
<1>5. Cardinality(Users(hold[c].frame)) \in Nat /\ Cardinality(Users(hold[c].frame)) > 0
  BY <1>3, UsersFinite
<1>6. pinCount[hold[c].frame] \in Nat
  BY <1>1 DEF TypeInv, TypeOK
<1>7. QED
  BY <1>1, <1>2, <1>4, <1>5, <1>6

LEMMA FetchHitSound ==
    ASSUME TypeInv, TypeInv', FileInv, Sound, NEW c \in Client, NEW p \in Page, NEW f \in Frame,
           FetchHit(c, p, f), ~raced'
    PROVE  Sound'
<1> DEFINE h == [page |-> p, frame |-> f, wrote |-> FALSE]
<1>1. /\ Ready(c, "fetch", p, f)
      /\ pinCount' = [pinCount EXCEPT ![f] = @ + 1] /\ lru' = AfterPin(lru, f)
      /\ hold' = [hold EXCEPT ![c] = h] /\ call' = [call EXCEPT ![c] = Idle]
      /\ raced' = (raced \/ table[p] # f)
      /\ UNCHANGED <<pageId, data, dirty, loading, table, freeList, diskVars, latest>>
  BY DEF FetchHit, PinFrame
<1>2. h.page = p /\ h.frame = f
  OBVIOUS
<1> HIDE DEF h
<1>3. table[p] = f /\ ~Loads(c) /\ ~loading[f] /\ hold[c] = NoHold /\ ~Contains(freeList, f)
  BY <1>1, ReadyFound, ReadyTyped
<1>4. /\ call'[c] = Idle /\ hold'[c] = h
      /\ \A d \in Client \ {c} : call'[d] = call[d] /\ hold'[d] = hold[d]
      /\ UNCHANGED <<disk, numPages>>
  BY <1>1 DEF TypeInv, TypeOK, diskVars
<1>5. \A g : Contains(lru', g) <=> Contains(lru, g) /\ g # f
  BY <1>1, PinTyped
<1>6. \A g : Listed(g)' => Listed(g) /\ g # f
  BY <1>1, <1>3, <1>5 DEF Listed
<1>7. SameLoads
  BY <1>3, <1>4, RecordTypes DEF SameLoads, Loads
<1>8. /\ LoadersApart' /\ FetchMapped' /\ TableSound' /\ TableInjective'
      /\ ListedMapping' /\ FramesMapped'
      /\ \A g \in Frame : Stale(g)' <=> Stale(g)
  <2>1. ListsGrowWell
    BY <1>6 DEF ListsGrowWell
  <2>2. QED
    BY <1>1, <1>7, <2>1, MappingKept
<1>9. \A d \in Client : Loads(d)' => Loads(d) /\ call'[d] = call[d]
  BY <1>7 DEF SameLoads, Loads
<1>10. NewUnknown'
  BY <1>1, <1>4, <1>9 DEF Sound, NewUnknown
<1>11. Stages'
  BY <1>1, <1>4, <1>9 DEF Sound, Stages, Loads
<1>12. LiveIsLatest' /\ LiveApart' /\ DirtyHasPage'
  BY <1>1, <1>8 DEF Sound, LiveIsLatest, LiveApart, DirtyHasPage, Live
<1>13. DiskOrFrame'
  <2>1. \A d \in Client : hold[d].wrote => hold'[d] = hold[d]
    BY <1>3, <1>4, RecordTypes
  <2>2. UNCHANGED <<disk, latest, pageId, dirty>>
    BY <1>1, <1>4
  <2>3. QED
    BY <2>1, <2>2 DEF Sound, DiskOrFrame
<1>14. ~Stale(f)
  <2>1. SUFFICES ASSUME NEW d \in Client, call[d].at \in {"write", "reset"}, call[d].frame = f
                 PROVE  FALSE
    BY DEF Stale
  <2>2. Loads(d) /\ call[d].op \in {"fetch", "new"} /\ call[d].page \in Page
    BY <2>1, Typed DEF Loads, CallFormed
  <2>3. QED
    BY <1>3, <2>1, <2>2 DEF Sound, FetchMapped, NewUnknown
<1>15. HoldsMapped'
  <2>1. \A d \in Client : hold'[d] # NoHold =>
            table[hold'[d].page] = hold'[d].frame /\ ~Stale(hold'[d].frame) /\ hold'[d].frame \in Frame
    BY <1>2, <1>3, <1>4, <1>14, HeldFrame
  <2>2. \A d \in Client : hold'[d] # NoHold => ~Listed(hold[d].frame)'
    BY <1>2, <1>4, <1>6, HeldFrame DEF Listed
  <2>3. \A d \in Client : hold'[d] # NoHold => ~Stale(hold[d].frame)'
    BY <1>8, <2>1 DEF Stale
  <2>4. QED
    BY <1>1, <2>1, <2>2, <2>3 DEF HoldsMapped
<1>16. UnpinsOwn'
  BY <1>4, RecordTypes DEF Sound, UnpinsOwn
<1>17. PinsCover'
  <2>1. SUFFICES ASSUME NEW g \in Frame PROVE Cardinality(Users(g)') <= pinCount'[g]
    BY DEF PinsCover
  <2>2. /\ Cardinality(Users(g)) <= pinCount[g] /\ Cardinality(Users(g)) \in Nat
        /\ Cardinality(Users(g) \cup {c}) <= Cardinality(Users(g)) + 1
        /\ Cardinality(Users(g) \cup {c}) \in Nat
    BY UsersFinite, FS_AddElement, FS_CardinalityType DEF Sound, PinsCover
  <2>3. pinCount[g] \in Nat /\ pinCount'[g] = IF g = f THEN pinCount[g] + 1 ELSE pinCount[g]
    BY <1>1 DEF TypeInv, TypeOK
  <2>4. Users(g)' = IF g = f THEN Users(g) \cup {c} ELSE Users(g)
    BY <1>2, <1>3, <1>4, RecordTypes, Constants, ZenonT(60) DEF Users, Loads
  <2>5. QED
    BY <2>2, <2>3, <2>4
<1>18. OnlyExisting'
  BY <1>1, <1>4, RecordTypes DEF Sound, OnlyExisting, Exists
<1>19. QED
  BY <1>8, <1>10, <1>11, <1>12, <1>13, <1>15, <1>16, <1>17, <1>18 DEF Sound

LEMMA UnpinNotFoundSound ==
    ASSUME TypeInv, FileInv, Sound, NEW c \in Client, UnpinNotFound(c)
    PROVE  Sound'
  BY HeldFrame, Constants DEF UnpinNotFound

LEMMA ReleaseSound ==
    ASSUME TypeInv, FileInv, Sound, NEW c \in Client, Release(c), ~raced'
    PROVE  Sound'
<1> DEFINE f == call[c].frame
<1>1. /\ call[c].at = "release" /\ lru' = AfterUnpin(lru, f, PoolSize)
      /\ call' = [call EXCEPT ![c] = Idle] /\ ~InUse(f)
      /\ UNCHANGED <<frameVars, table, freeList, diskVars, hold, latest>>
  BY DEF Release
<1>2. f \in Frame
  BY <1>1, Typed DEF CallFormed
<1> HIDE DEF f
<1>3. \A g : Listed(g)' => Listed(g) \/ g = f
  <2>1. lru \in Seq(Frame) /\ IsInjective(lru) /\ PoolSize \in Nat \ {0}
    BY ListsTyped, PoolSizeAssumption
  <2>2. \A g : Contains(lru', g) => Contains(lru, g) \/ g = f
    BY <1>1, <1>2, <2>1, UnpinAdds
  <2>3. QED
    BY <1>1, <2>2 DEF Listed
<1>4. pinCount[f] = 0 /\ pageId[f] # NoPage /\ \A d \in Client : Loads(d) => call[d].frame # f
  BY <1>1, <1>2 DEF InUse, Loads, TypeInv, TypeOK
<1>5. \A p \in Page : table[p] = f => pageId[f] = p
  BY <1>2, <1>4, Constants DEF Sound, TableSound, Loads
<1>6. ListsGrowWell
  BY <1>3, <1>4, <1>5 DEF ListsGrowWell
<1>7. \A d \in Client : hold[d] # NoHold => ~Listed(hold[d].frame)'
  <2>1. SUFFICES ASSUME NEW d \in Client, hold[d] # NoHold PROVE ~Listed(hold[d].frame)'
    OBVIOUS
  <2>2. hold'[d] = hold[d] /\ ~Listed(hold[d].frame) /\ hold[d].frame # f
    BY <1>1, <1>4, <2>1, HeldFrame
  <2>3. QED
    BY <1>3, <2>2 DEF Listed
<1>8. call'[c] = Idle /\ \A d \in Client \ {c} : call'[d] = call[d]
  BY <1>1 DEF TypeInv, TypeOK
<1>9. SameLoads
  BY <1>1, <1>8, RecordTypes DEF SameLoads, Loads
<1>10. UnpinsOwn'
  BY <1>1, <1>8, RecordTypes DEF Sound, UnpinsOwn
<1>11. \A d \in Client : call'[d].op = "fetch" => Exists(call'[d].page)
  BY <1>8, RecordTypes DEF Sound, OnlyExisting
<1>12. QED
  BY <1>1, <1>6, <1>7, <1>9, <1>10, <1>11, QuietSound

LEMMA UnpinSound ==
    ASSUME TypeInv, TypeInv', FileInv, Sound, NEW c \in Client, Unpin(c)
    PROVE  Sound'
<1> DEFINE f == call[c].frame
           p == call[c].page
<1>1. /\ call[c].at = "count" /\ call[c].op = "unpin" /\ hold[c] # NoHold
      /\ p = hold[c].page /\ f = hold[c].frame /\ p \in Page /\ f \in Frame
      /\ table[p] = f /\ ~Stale(f) /\ pinCount[f] > 0
  <2>1. call[c].at = "count" /\ call[c].op = "unpin"
    BY Typed DEF Unpin, CallFormed
  <2>2. QED
    BY <2>1, HeldFrame DEF Sound, UnpinsOwn
<1>2. /\ hold'[c] = NoHold
      /\ call'[c] = Idle \/ (call'[c].at = "release" /\ call'[c].op = "unpin")
      /\ \A d \in Client \ {c} : call'[d] = call[d] /\ hold'[d] = hold[d]
  BY UnpinCalls
<1>3. /\ UNCHANGED <<pageId, data, loading, table, freeList, lru, disk, numPages, latest>>
      /\ \A g \in Frame \ {f} : dirty'[g] = dirty[g] /\ pinCount'[g] = pinCount[g]
      /\ \/ /\ pageId[f] = p /\ dirty'[f] = (dirty[f] \/ hold[c].wrote)
            /\ pinCount'[f] = pinCount[f] - 1
         \/ pageId[f] # p /\ dirty'[f] = dirty[f] /\ pinCount'[f] = pinCount[f]
  <2>1. /\ UNCHANGED <<pageId, data, loading, poolVars, diskVars, history>>
        /\ \/ /\ pageId[f] = p /\ dirty' = [dirty EXCEPT ![f] = dirty[f] \/ hold[c].wrote]
              /\ pinCount' = [pinCount EXCEPT ![f] = IF @ > 0 THEN @ - 1 ELSE 0]
           \/ pageId[f] # p /\ dirty' = dirty /\ pinCount' = pinCount
    BY DEF Unpin, DirtyAfterUnpin
  <2> HIDE DEF f, p
  <2>2. /\ UNCHANGED <<pageId, data, loading, table, freeList, lru, disk, numPages, latest>>
        /\ dirty \in [Frame -> BOOLEAN] /\ pinCount \in [Frame -> Nat]
    BY <2>1 DEF poolVars, diskVars, history, TypeInv, TypeOK
  <2>3. QED
    BY <1>1, <2>1, <2>2
<1> HIDE DEF f, p
<1>4. SameLoads /\ ListsGrowWell
  BY <1>1, <1>2, <1>3, RecordTypes DEF SameLoads, Loads, ListsGrowWell, Listed
<1>5. /\ LoadersApart' /\ FetchMapped' /\ TableSound' /\ TableInjective'
      /\ ListedMapping' /\ FramesMapped'
      /\ \A g \in Frame : Stale(g)' <=> Stale(g)
  BY <1>3, <1>4, MappingKept
<1>6. \A d \in Client : Loads(d)' => Loads(d) /\ call'[d] = call[d]
  BY <1>4 DEF SameLoads, Loads
<1>7. NewUnknown'
  BY <1>3, <1>6 DEF Sound, NewUnknown
<1>8. Stages'
  <2>1. \A d \in Client : call[d].at \in {"write", "reset"} =>
            call[d].frame \in Frame \ {f}
    BY <1>1, Typed DEF Stale, CallFormed
  <2>2. QED
    BY <1>3, <1>6, <2>1 DEF Sound, Stages, Loads
<1>9. \A g \in Frame : Live(g)' <=> Live(g)
  BY <1>1, <1>3, <1>5 DEF Live
<1>10. LiveIsLatest' /\ LiveApart'
  BY <1>3, <1>9 DEF Sound, LiveIsLatest, LiveApart
<1>11. DirtyHasPage'
  BY <1>1, <1>3, Constants DEF Sound, DirtyHasPage
<1>12. DiskOrFrame'
  <2>1. SUFFICES ASSUME NEW q \in Page \ MissingPages, disk[q] # latest[q],
                        ~\E g \in Frame : pageId[g] = q /\ dirty'[g]
                 PROVE  \E d \in Client : /\ hold'[d].page = q /\ hold'[d].wrote
                                          /\ pageId[hold'[d].frame] = q
    BY <1>3 DEF DiskOrFrame
  <2>2. \A g \in Frame : pageId[g] = q => ~dirty[g]
    BY <1>3, <2>1
  <2>3. PICK d \in Client : hold[d].page = q /\ hold[d].wrote /\ pageId[hold[d].frame] = q
    BY <2>1, <2>2 DEF Sound, DiskOrFrame
  <2>4. d # c
    BY <1>1, <1>3, <2>1, <2>3
  <2>5. QED
    BY <1>2, <2>3, <2>4
<1>13. HoldsMapped'
  <2>1. \A d \in Client : hold'[d] # NoHold => d # c /\ hold'[d] = hold[d]
    BY <1>2
  <2>2. QED
    BY <1>3, <1>5, <2>1, HeldFrame DEF HoldsMapped, Listed
<1>14. UnpinsOwn'
  BY <1>2, RecordTypes DEF Sound, UnpinsOwn
<1>15. PinsCover'
  <2>1. SUFFICES ASSUME NEW g \in Frame PROVE Cardinality(Users(g)') <= pinCount'[g]
    BY DEF PinsCover
  <2>2. Cardinality(Users(g)) <= pinCount[g] /\ Cardinality(Users(g)) \in Nat
    BY UsersFinite DEF Sound, PinsCover
  <2>3. pinCount[g] \in Nat
    BY DEF TypeInv, TypeOK
  <2>4. Users(g)' = IF g = f THEN Users(f) \ {c} ELSE Users(g)
    BY <1>1, <1>2, RecordTypes, Constants, ZenonT(60) DEF Users
  <2>5. c \in Users(f)
    BY <1>1 DEF Users
  <2>6. Cardinality(Users(f) \ {c}) = Cardinality(Users(f)) - 1
    BY <2>5, UsersFinite
  <2>7. QED
    BY <1>3, <2>2, <2>3, <2>4, <2>6
<1>16. OnlyExisting'
  BY <1>2, <1>3, RecordTypes DEF Sound, OnlyExisting, Exists
<1>17. QED
  BY <1>5, <1>7, <1>8, <1>10, <1>11, <1>12, <1>13, <1>14, <1>15, <1>16 DEF Sound

-----------------------------------------------------------------------------
(***************************************************************************)
(* Pages written to disk, and pages written to.                            *)
(***************************************************************************)

\* The page of a live frame goes to disk, and the frame is clean.
LEMMA FlushedSound ==
    ASSUME TypeInv, TypeInv', FileInv, Sound, NEW f \in Frame, Live(f), SameLoads, UnpinsOwn',
           disk' = [disk EXCEPT ![pageId[f]] = data[f]],
           dirty' = [dirty EXCEPT ![f] = FALSE],
           \A d \in Client : call'[d].op = "fetch" => Exists(call'[d].page),
           UNCHANGED <<pageId, data, pinCount, loading, poolVars, numPages, hold, latest>>
    PROVE  Sound'
<1>1. /\ \A q \in Page : disk'[q] = disk[q] \/ disk'[q] = latest[q]
      /\ disk'[pageId[f]] = latest[pageId[f]]
  <2>1. disk \in [Page -> Contents] /\ pageId[f] \in Page
    BY DEF TypeInv, TypeOK, Live
  <2>2. data[f] = latest[pageId[f]]
    BY DEF Sound, LiveIsLatest
  <2>3. QED
    BY <2>1, <2>2
<1>2. \A g \in Frame : dirty'[g] = (dirty[g] /\ g # f)
  BY DEF TypeInv, TypeOK
<1>3. UNCHANGED <<table, freeList, lru>> /\ \A g : Listed(g)' <=> Listed(g)
  BY DEF poolVars, Listed
<1>4. /\ LoadersApart' /\ FetchMapped' /\ TableSound' /\ TableInjective'
      /\ ListedMapping' /\ FramesMapped'
      /\ \A g \in Frame : Stale(g)' <=> Stale(g)
  <2>1. ListsGrowWell
    BY <1>3 DEF ListsGrowWell
  <2>2. QED
    BY <1>3, <2>1, MappingKept
<1>5. \A d \in Client : Loads(d)' =>
          Loads(d) /\ call'[d] = call[d] /\ call[d].page \in Page /\ call[d].frame \in Frame
  BY Typed DEF SameLoads, Loads, CallFormed
<1>6. NewUnknown'
  BY <1>1, <1>3, <1>5 DEF Sound, NewUnknown
<1>7. Stages'
  <2>1. \A d \in Client : Loads(d) /\ dirty[call[d].frame] => pageId[call[d].frame] \in Page
    BY Typed DEF Sound, DirtyHasPage, TypeInv, TypeOK, Loads, CallFormed
  <2>2. QED
    BY <1>1, <1>2, <1>3, <1>5, <2>1 DEF Sound, Stages, Loads
<1>8. \A g \in Frame : Live(g)' => Live(g)
  BY <1>2, <1>4 DEF Live
<1>9. LiveIsLatest' /\ LiveApart' /\ DirtyHasPage'
  BY <1>2, <1>8 DEF Sound, LiveIsLatest, LiveApart, DirtyHasPage
<1>10. DiskOrFrame'
  BY <1>1, <1>2 DEF Sound, DiskOrFrame
<1>11. HoldsMapped'
  BY <1>3, <1>4, HeldFrame DEF HoldsMapped, Listed
<1>12. PinsCover'
  <2>1. \A g \in Frame : Users(g)' = Users(g)
    BY DEF SameLoads, Users, Loads
  <2>2. QED
    BY <2>1 DEF Sound, PinsCover
<1>13. OnlyExisting'
  BY <1>3 DEF Sound, OnlyExisting, Exists
<1>14. QED
  BY <1>4, <1>6, <1>7, <1>9, <1>10, <1>11, <1>12, <1>13 DEF Sound

LEMMA FlushWriteSound ==
    ASSUME TypeInv, TypeInv', FileInv, Sound, NEW c \in Client, FlushWrite(c), ~raced'
    PROVE  Sound'
<1> DEFINE f == call[c].frame
<1>1. /\ call[c].at = "force" /\ call' = [call EXCEPT ![c] = Idle]
      /\ \/ /\ pageId[f] = call[c].page /\ table[pageId[f]] = f
            /\ disk' = [disk EXCEPT ![pageId[f]] = data[f]]
            /\ dirty' = [dirty EXCEPT ![f] = FALSE]
         \/ UNCHANGED <<disk, dirty>>
      /\ UNCHANGED <<pageId, data, pinCount, loading, poolVars, numPages, hold, latest>>
  BY DEF FlushWrite, WritePage
<1>2. f \in Frame /\ call[c].page \in Page
  BY <1>1, Typed DEF CallFormed
<1> HIDE DEF f
<1>3. call'[c] = Idle /\ \A d \in Client \ {c} : call'[d] = call[d]
  BY <1>1 DEF TypeInv, TypeOK
<1>4. SameLoads /\ UnpinsOwn'
  BY <1>1, <1>3, RecordTypes DEF SameLoads, Loads, Sound, UnpinsOwn
<1>5. \A d \in Client : call'[d].op = "fetch" => Exists(call'[d].page)
  BY <1>3, RecordTypes DEF Sound, OnlyExisting
<1>6. CASE /\ pageId[f] = call[c].page /\ table[pageId[f]] = f
           /\ disk' = [disk EXCEPT ![pageId[f]] = data[f]]
           /\ dirty' = [dirty EXCEPT ![f] = FALSE]
  <2>1. ~Stale(f)
    BY <1>2, <1>6 DEF Sound, Stages, Stale
  <2>2. Live(f)
    BY <1>2, <1>6, <2>1, Constants DEF Live
  <2>3. QED
    BY <1>1, <1>2, <1>4, <1>5, <1>6, <2>2, FlushedSound
<1>7. CASE UNCHANGED <<disk, dirty>>
  <2>1. UNCHANGED <<frameVars, table, freeList, lru, diskVars, hold, latest>>
    BY <1>1, <1>7 DEF frameVars, diskVars, poolVars
  <2>2. ListsGrowWell /\ \A d \in Client : hold[d] # NoHold => ~Listed(hold[d].frame)'
    BY <2>1, HeldFrame DEF ListsGrowWell, Listed
  <2>3. QED
    BY <1>4, <1>5, <2>1, <2>2, QuietSound
<1>8. QED
  BY <1>1, <1>6, <1>7

LEMMA ScanSound ==
    ASSUME TypeInv, TypeInv', FileInv, Sound, NEW c \in Client, NEW f \in Frame, Scan(c, f)
    PROVE  Sound'
<1>1. /\ call[c].at = "scan"
      /\ \/ /\ dirty[f]
            /\ disk' = [disk EXCEPT ![pageId[f]] = data[f]]
            /\ dirty' = [dirty EXCEPT ![f] = FALSE]
         \/ UNCHANGED <<disk, dirty>>
      /\ UNCHANGED <<pageId, data, pinCount, loading, poolVars, numPages, hold, history>>
  BY DEF Scan, WritePage
<1>2. /\ call'[c] = Idle \/ (call'[c].at = "scan" /\ call'[c].op = "flushAll")
      /\ \A d \in Client \ {c} : call'[d] = call[d]
  BY ScanCalls
<1>3. SameLoads /\ UnpinsOwn' /\ latest' = latest
  BY <1>1, <1>2, RecordTypes DEF SameLoads, Loads, Sound, UnpinsOwn, history
<1>4. \A d \in Client : call'[d].op = "fetch" => Exists(call'[d].page)
  BY <1>2, RecordTypes DEF Sound, OnlyExisting
<1>5. CASE /\ dirty[f]
           /\ disk' = [disk EXCEPT ![pageId[f]] = data[f]]
           /\ dirty' = [dirty EXCEPT ![f] = FALSE]
  <2>1. Live(f)
    BY <1>5 DEF Live, Sound, DirtyHasPage
  <2>2. QED
    BY <1>1, <1>3, <1>4, <1>5, <2>1, FlushedSound
<1>6. CASE UNCHANGED <<disk, dirty>>
  <2>1. UNCHANGED <<frameVars, table, freeList, lru, diskVars, hold, latest>>
    BY <1>1, <1>3, <1>6 DEF frameVars, diskVars, poolVars
  <2>2. ListsGrowWell /\ \A d \in Client : hold[d] # NoHold => ~Listed(hold[d].frame)'
    BY <2>1, HeldFrame DEF ListsGrowWell, Listed
  <2>3. QED
    BY <1>3, <1>4, <2>1, <2>2, QuietSound
<1>7. QED
  BY <1>1, <1>5, <1>6

\* The frame of a page that a client has, with no load in progress in it: it is
\* the page, unless that does not exist and the frame is empty.
LEMMA HeldContent ==
    ASSUME TypeInv, FileInv, Sound, NEW c \in Client, hold[c] # NoHold,
           Unlatched(hold[c].frame)
    PROVE  \/ pageId[hold[c].frame] = hold[c].page /\ Live(hold[c].frame)
           \/ hold[c].page \in MissingPages /\ pageId[hold[c].frame] = NoPage
<1>1. \A d \in Client : call[d].at \in {"write", "reset", "fill"} => call[d].frame # hold[c].frame
  BY HeldFrame DEF Stale, Unlatched
<1>2. \/ pageId[hold[c].frame] = hold[c].page
      \/ hold[c].page \in MissingPages /\ pageId[hold[c].frame] = NoPage
  BY <1>1, HeldFrame, Constants DEF Sound, TableSound
<1>3. QED
  BY <1>2, HeldFrame, Constants DEF Live

LEMMA WriteSound ==
    ASSUME TypeInv, TypeInv', FileInv, Sound, NEW c \in Client, Write(c)
    PROVE  Sound'
<1> DEFINE f == hold[c].frame
           p == hold[c].page
           v == Written(p, Version(latest[p]) + 1)
           h == [hold[c] EXCEPT !.wrote = TRUE]
<1>1. /\ hold[c] # NoHold /\ Unlatched(f)
      /\ data' = [data EXCEPT ![f] = v] /\ latest' = [latest EXCEPT ![p] = v]
      /\ hold' = [hold EXCEPT ![c] = h]
      /\ UNCHANGED <<pageId, pinCount, dirty, loading, poolVars, diskVars, call, raced>>
  BY DEF Write, TypeInv, TypeOK
<1>2. /\ p \in Page /\ f \in Frame /\ table[p] = f /\ ~Stale(f) /\ ~Listed(f)
      /\ \/ pageId[f] = p /\ Live(f)
         \/ p \in MissingPages /\ pageId[f] = NoPage
  BY <1>1, HeldFrame, HeldContent
<1>3. h.page = p /\ h.frame = f /\ h.wrote = TRUE
  BY <1>1, Typed DEF HoldRecord
<1>4. \A d \in Client : call[d].at \in {"write", "reset", "fill"} => call[d].frame # f
  BY <1>1, <1>2 DEF Stale, Unlatched
<1> HIDE DEF f, p, v, h
<1>5. /\ UNCHANGED <<table, freeList, lru, disk, numPages>> /\ \A g : Listed(g)' <=> Listed(g)
      /\ hold'[c] = h /\ \A d \in Client \ {c} : hold'[d] = hold[d]
      /\ \A g \in Frame : data'[g] = IF g = f THEN v ELSE data[g]
      /\ \A q \in Page : latest'[q] = IF q = p THEN v ELSE latest[q]
  BY <1>1 DEF poolVars, diskVars, Listed, TypeInv, TypeOK
<1>6. \A g \in Frame : Live(g) /\ g # f => pageId[g] # p
  <2>1. \A g \in Frame : p \in MissingPages => pageId[g] # p
    BY Constants DEF FileInv, FileEnd, TypeInv, TypeOK, Page, NoPage
  <2>2. QED
    BY <1>2, <2>1 DEF Sound, LiveApart
<1>7. SameLoads /\ ListsGrowWell
  BY <1>1, <1>5 DEF SameLoads, ListsGrowWell
<1>8. /\ LoadersApart' /\ FetchMapped' /\ TableSound' /\ TableInjective'
      /\ ListedMapping' /\ FramesMapped'
      /\ \A g \in Frame : Stale(g)' <=> Stale(g)
  BY <1>1, <1>5, <1>7, MappingKept
<1>9. NewUnknown'
  <2>1. \A d \in Client : Loads(d) /\ call[d].op = "new" =>
            call[d].page \in Page \ {p}
    BY <1>2, Typed, Constants, ZenonT(60) DEF Sound, NewUnknown, Loads, CallFormed
  <2>2. QED
    BY <1>1, <1>5, <2>1 DEF Sound, NewUnknown, Loads
<1>10. Stages'
  <2>1. \A d \in Client : call[d].at = "reset" /\ dirty[call[d].frame] =>
            pageId[call[d].frame] \in Page \ {p}
    <3>1. SUFFICES ASSUME NEW d \in Client, call[d].at = "reset", dirty[call[d].frame]
                   PROVE  pageId[call[d].frame] \in Page \ {p}
      OBVIOUS
    <3>2. call[d].frame \in Frame /\ call[d].frame # f
      BY <1>4, <3>1, Typed DEF CallFormed
    <3>3. pageId[call[d].frame] \in Page
      BY <3>1, <3>2 DEF Sound, DirtyHasPage, TypeInv, TypeOK
    <3>4. QED
      BY <1>6, <3>1, <3>2, <3>3, Constants DEF Live
  <2>2. \A d \in Client : call[d].at = "fill" => call[d].frame \in Frame \ {f}
    BY <1>4, Typed DEF CallFormed
  <2>3. QED
    BY <1>1, <1>5, <2>1, <2>2 DEF Sound, Stages
<1>11. \A g \in Frame : Live(g)' <=> Live(g)
  BY <1>1, <1>8 DEF Live
<1>12. LiveIsLatest'
  <2>1. SUFFICES ASSUME NEW g \in Frame, Live(g) PROVE data'[g] = latest'[pageId[g]]
    BY <1>1, <1>11 DEF LiveIsLatest
  <2>2. pageId[g] \in Page /\ data[g] = latest[pageId[g]]
    BY <2>1 DEF Live, Sound, LiveIsLatest, TypeInv, TypeOK
  <2>3. g = f => pageId[g] = p
    BY <1>2, <2>1 DEF Live
  <2>4. QED
    BY <1>5, <1>6, <2>1, <2>2, <2>3
<1>13. LiveApart' /\ DirtyHasPage'
  BY <1>1, <1>11 DEF Sound, LiveApart, DirtyHasPage
<1>14. DiskOrFrame'
  <2>1. SUFFICES ASSUME NEW q \in Page \ MissingPages
                 PROVE  \/ disk[q] = latest'[q]
                        \/ \E g \in Frame : pageId[g] = q /\ dirty[g]
                        \/ \E d \in Client : /\ hold'[d].page = q /\ hold'[d].wrote
                                             /\ pageId[hold'[d].frame] = q
    BY <1>1, <1>5 DEF DiskOrFrame
  <2>2. CASE q = p
    BY <1>2, <1>3, <1>5, <2>1, <2>2
  <2>3. CASE q # p
    <3>1. latest'[q] = latest[q]
      BY <1>5, <2>3
    <3>2. \A d \in Client : hold[d].wrote => hold'[d].wrote /\ hold'[d].page = hold[d].page
                                             /\ hold'[d].frame = hold[d].frame
      BY <1>3, <1>5 DEF f, p
    <3>3. QED
      BY <2>1, <3>1, <3>2 DEF Sound, DiskOrFrame
  <2>4. QED
    BY <2>2, <2>3
<1>15. HoldsMapped'
  <2>1. \A d \in Client : hold'[d] # NoHold =>
            /\ hold[d] # NoHold /\ hold'[d].page = hold[d].page /\ hold'[d].frame = hold[d].frame
    BY <1>1, <1>3, <1>5 DEF f, p
  <2>2. QED
    BY <1>5, <1>8, <2>1, HeldFrame DEF HoldsMapped, Listed
<1>16. UnpinsOwn'
  <2>1. \A d \in Client : hold[d] # NoHold =>
            /\ hold'[d] # NoHold /\ hold'[d].page = hold[d].page /\ hold'[d].frame = hold[d].frame
    BY <1>2, <1>3, <1>5, RecordTypes, Constants DEF f, p
  <2>2. QED
    BY <1>1, <2>1 DEF Sound, UnpinsOwn
<1>17. PinsCover'
  <2>1. \A g \in Frame : Users(g)' = Users(g)
    <3>1. \A d \in Client : hold'[d].frame = hold[d].frame
      BY <1>3, <1>5 DEF f, p
    <3>2. QED
      BY <1>1, <3>1 DEF Users
  <2>2. QED
    BY <1>1, <2>1 DEF Sound, PinsCover
<1>18. OnlyExisting'
  <2>1. \A q \in Page \ MissingPages : numPages <= q => q # p
    <3>1. p \notin MissingPages => p < numPages
      BY <1>2, Constants DEF Sound, OnlyExisting, Exists
    <3>2. QED
      BY <3>1, Constants DEF TypeInv, TypeOK, Page
  <2>2. QED
    BY <1>1, <1>5, <2>1 DEF Sound, OnlyExisting, Exists
<1>19. QED
  BY <1>8, <1>9, <1>10, <1>12, <1>13, <1>14, <1>15, <1>16, <1>17, <1>18 DEF Sound

-----------------------------------------------------------------------------
(***************************************************************************)
(* Taking a frame.                                                         *)
(***************************************************************************)

\* A frame that may be taken is no one's, and the table has it for its page.
LEMMA ListedFrame ==
    ASSUME TypeInv, FileInv, Sound, NEW f \in Frame, Listed(f)
    PROVE  /\ \A d \in Client : Loads(d) => call[d].frame # f
           /\ \A d \in Client : hold[d] # NoHold => hold[d].frame # f
           /\ ~Stale(f)
           /\ \A q \in Page : table[q] = f => pageId[f] = q
           /\ pageId[f] # NoPage => table[pageId[f]] = f /\ Live(f)
<1>1. \A d \in Client : Loads(d) => call[d].frame # f
  BY DEF Sound, LoadersApart
<1>2. \A d \in Client : hold[d] # NoHold => hold[d].frame # f
  BY DEF Sound, HoldsMapped
<1>3. ~Stale(f)
  BY <1>1 DEF Stale, Loads
<1>4. \A q \in Page : table[q] = f => pageId[f] = q
  BY DEF Sound, ListedMapping
<1>5. pageId[f] # NoPage => table[pageId[f]] = f /\ Live(f)
  BY <1>1, <1>3 DEF Sound, FramesMapped, Loads, Live
<1>6. QED
  BY <1>1, <1>2, <1>3, <1>4, <1>5

\* A call by client c takes frame f for page p: the old page of f leaves the
\* table, and nothing enters it but p for a fetch.
Takes(c, op, p, f) ==
    /\ call[c] = Idle /\ hold[c] = NoHold /\ table[p] = NoFrame /\ Listed(f)
    /\ call'[c].op = op /\ call'[c].at = "write" /\ call'[c].page = p /\ call'[c].frame = f
    /\ \A d \in Client \ {c} : call'[d] = call[d]
    /\ \A g \in Frame : Listed(g)' => Listed(g) /\ g # f
    /\ \A q \in Page : table'[q] = IF q = p /\ op = "fetch" THEN f
                                   ELSE IF pageId[f] = q THEN NoFrame ELSE table[q]
    /\ \A g \in Frame : loading[g] => loading'[g]
    /\ op = "fetch" => loading'[f]
    /\ UNCHANGED <<pageId, data, pinCount, dirty, disk, hold, latest>>

\* All of Sound that does not depend on what the call is.
LEMMA TakesSound ==
    ASSUME TypeInv, TypeInv', FileInv, Sound, NEW c \in Client, NEW op \in {"fetch", "new"},
           NEW p \in Page, NEW f \in Frame, Takes(c, op, p, f)
    PROVE  /\ LoadersApart' /\ FetchMapped' /\ Stages'
           /\ TableSound' /\ TableInjective' /\ ListedMapping' /\ FramesMapped'
           /\ LiveIsLatest' /\ LiveApart' /\ DirtyHasPage' /\ DiskOrFrame'
           /\ HoldsMapped' /\ UnpinsOwn' /\ PinsCover'
           /\ \A d \in Client : Loads(d)' => d = c \/ (Loads(d) /\ d # c)
           /\ \A q \in Page : table'[q] \in Frame => table'[q] = table[q] \/ (q = p /\ op = "fetch")
<1>1. /\ call[c] = Idle /\ hold[c] = NoHold /\ table[p] = NoFrame /\ Listed(f)
      /\ call'[c].op = op /\ call'[c].at = "write" /\ call'[c].page = p /\ call'[c].frame = f
      /\ \A d \in Client \ {c} : call'[d] = call[d]
      /\ \A g \in Frame : Listed(g)' => Listed(g) /\ g # f
      /\ \A g \in Frame : loading[g] => loading'[g]
      /\ op = "fetch" => loading'[f]
      /\ UNCHANGED <<pageId, data, pinCount, dirty, disk, hold, latest>>
  BY DEF Takes
<1>2. /\ \A d \in Client : Loads(d) => call[d].frame # f
      /\ \A d \in Client : hold[d] # NoHold => hold[d].frame # f
      /\ ~Stale(f)
      /\ \A q \in Page : table[q] = f => pageId[f] = q
      /\ pageId[f] # NoPage => table[pageId[f]] = f /\ Live(f)
  BY <1>1, ListedFrame
\* Where the table led elsewhere than to f, it still does.
<1>3. /\ \A q \in Page : table[q] # f /\ table[q] # NoFrame => table'[q] = table[q]
      /\ \A q \in Page : table'[q] # f /\ table'[q] # NoFrame => table'[q] = table[q]
      /\ \A q \in Page : table'[q] = f => q = p /\ op = "fetch"
      /\ op = "fetch" => table'[p] = f
      /\ pageId[f] # p
  <2>1. f # NoFrame /\ NoPage \notin Page
    BY Constants
  <2>2. /\ \A q \in Page : table'[q] = IF q = p /\ op = "fetch" THEN f
                                       ELSE IF pageId[f] = q THEN NoFrame ELSE table[q]
    BY DEF Takes
  <2>3. pageId[f] # p
    BY <1>1, <1>2, <2>1
  <2>4. \A q \in Page : table[q] # f => pageId[f] # q
    BY <1>2, <2>1
  <2>5. QED
    BY <1>1, <1>2, <2>1, <2>2, <2>3, <2>4
<1>4. ~Loads(c) /\ Loads(c)'
  BY <1>1, RecordTypes DEF Loads
<1>5. \A d \in Client : Loads(d)' => d = c \/ (Loads(d) /\ d # c)
  BY <1>1 DEF Loads
<1>6. \A d \in Client : Loads(d) => d # c /\ call'[d] = call[d] /\ call[d].frame \in Frame \ {f}
                                    /\ call[d].page \in Page
  BY <1>1, <1>2, <1>4, Typed DEF Loads, CallFormed
<1>7. LoadersApart'
  <2>1. \A d \in Client : Loads(d)' => ~Listed(call[d].frame)' /\
            (d # c => call'[d] = call[d] /\ call[d].frame # f /\ Loads(d))
    <3>1. ASSUME NEW d \in Client, Loads(d)', d # c
          PROVE  /\ Loads(d) /\ call'[d] = call[d] /\ call[d].frame # f
                 /\ ~Listed(call[d].frame)'
      <4>1. Loads(d) /\ call'[d] = call[d] /\ call[d].frame \in Frame \ {f}
        BY <1>5, <1>6, <3>1
      <4>2. ~Listed(call[d].frame)
        BY <4>1 DEF Sound, LoadersApart
      <4>3. QED
        BY <1>1, <4>1, <4>2 DEF Listed
    <3>2. ~Listed(call[c].frame)'
      BY <1>1 DEF Listed
    <3>3. QED
      BY <3>1, <3>2
  <2>2. QED
    BY <1>1, <2>1 DEF Sound, LoadersApart
<1>8. FetchMapped'
  <2>1. \A d \in Client : Loads(d) /\ call[d].op = "fetch" =>
            table'[call[d].page] = call[d].frame
    BY <1>3, <1>6, Constants DEF Sound, FetchMapped
  <2>2. QED
    BY <1>1, <1>3, <1>5, <1>6, <2>1 DEF Sound, FetchMapped
<1>9. Stages'
  <2>1. SUFFICES ASSUME NEW d \in Client, Loads(d)'
                 PROVE  /\ call'[d].at \in {"write", "reset"} =>
                             \A q \in Page : pageId[call'[d].frame] = q => table'[q] # call'[d].frame
                        /\ call'[d].at = "reset" /\ dirty[call'[d].frame] =>
                             disk[pageId[call'[d].frame]] = latest[pageId[call'[d].frame]]
                        /\ call'[d].at = "fill" =>
                             pageId[call'[d].frame] = NoPage /\ data[call'[d].frame] = Zeros
                        /\ call'[d].at = "publish" => pageId[call'[d].frame] = call'[d].page
    BY <1>1 DEF Stages, Loads
  <2>2. CASE d = c
    BY <1>1, <1>3, <2>2
  <2>3. CASE d # c
    <3>1. Loads(d) /\ call'[d] = call[d] /\ call[d].frame \in Frame \ {f}
      BY <1>5, <1>6, <2>1, <2>3
    <3>2. \A q \in Page : table'[q] = call[d].frame => table[q] = call[d].frame
      BY <1>3, <3>1, Constants
    <3>3. QED
      BY <3>1, <3>2 DEF Sound, Stages
  <2>4. QED
    BY <2>2, <2>3
<1>10. TableSound'
  <2>1. SUFFICES ASSUME NEW q \in Page, table'[q] # NoFrame
                 PROVE  \/ pageId[table'[q]] = q
                        \/ \E d \in Client : /\ call'[d].at \in {"write", "reset", "fill"}
                                             /\ call'[d].frame = table'[q] /\ call'[d].page = q
                        \/ q \in MissingPages /\ pageId[table'[q]] = NoPage
    BY <1>1 DEF TableSound
  <2>2. CASE table'[q] = f
    BY <1>1, <1>3, <2>2
  <2>3. CASE table'[q] # f
    <3>1. table'[q] = table[q]
      BY <1>3, <2>1, <2>3
    <3>2. \A d \in Client : call[d].at \in {"write", "reset", "fill"} => call'[d] = call[d]
      BY <1>6 DEF Loads
    <3>3. QED
      BY <2>1, <3>1, <3>2 DEF Sound, TableSound
  <2>4. QED
    BY <2>2, <2>3
<1>11. TableInjective'
  BY <1>3 DEF Sound, TableInjective
<1>12. ListedMapping'
  <2>1. \A g \in Frame : g # f => \A q \in Page : table'[q] = g => table[q] = g
    BY <1>3, Constants
  <2>2. QED
    BY <1>1, <2>1 DEF Sound, ListedMapping
<1>13. \A g \in Frame : Stale(g)' <=> Stale(g) \/ g = f
  BY <1>1, <1>4 DEF Stale, Loads
<1>14. FramesMapped'
  <2>1. SUFFICES ASSUME NEW g \in Frame, pageId[g] # NoPage, ~Stale(g)', g # f
                 PROVE  \/ table'[pageId[g]] = g
                        \/ \E d \in Client : call'[d].at = "publish" /\ call'[d].frame = g
    BY <1>1, <1>13 DEF FramesMapped
  <2>2. pageId[g] \in Page
    BY <2>1 DEF TypeInv, TypeOK
  <2>3. \/ table[pageId[g]] = g
        \/ \E d \in Client : call[d].at = "publish" /\ call[d].frame = g
    BY <1>13, <2>1 DEF Sound, FramesMapped
  <2>4. \A d \in Client : call[d].at = "publish" => call'[d] = call[d]
    BY <1>6 DEF Loads
  <2>5. QED
    BY <1>3, <2>1, <2>2, <2>3, <2>4, Constants
<1>15. \A g \in Frame : Live(g)' => Live(g)
  BY <1>1, <1>2, <1>13 DEF Live
<1>16. LiveIsLatest' /\ LiveApart' /\ DirtyHasPage' /\ DiskOrFrame'
  <2>1. LiveIsLatest' /\ LiveApart'
    BY <1>1, <1>15 DEF Sound, LiveIsLatest, LiveApart
  <2>2. DirtyHasPage' /\ DiskOrFrame'
    BY <1>1 DEF Sound, DirtyHasPage, DiskOrFrame
  <2>3. QED
    BY <2>1, <2>2
<1>17. HoldsMapped'
  <2>1. SUFFICES ASSUME NEW d \in Client, hold[d] # NoHold
                 PROVE  /\ table'[hold[d].page] = hold[d].frame
                        /\ ~Listed(hold[d].frame)' /\ ~Stale(hold[d].frame)'
    BY <1>1 DEF HoldsMapped, Listed, Stale
  <2>2. /\ hold[d].page \in Page /\ hold[d].frame \in Frame \ {f}
        /\ table[hold[d].page] = hold[d].frame
        /\ ~Listed(hold[d].frame) /\ ~Stale(hold[d].frame)
    BY <1>2, <2>1, HeldFrame
  <2>3. table'[hold[d].page] = hold[d].frame
    BY <1>3, <2>2, Constants
  <2>4. ~Listed(hold[d].frame)' /\ ~Stale(hold[d].frame)'
    BY <1>1, <1>13, <2>2 DEF Listed, Stale
  <2>5. QED
    BY <2>3, <2>4
<1>18. UnpinsOwn'
  BY <1>1 DEF Sound, UnpinsOwn
<1>19. PinsCover'
  <2>1. \A g \in Frame : Users(g)' = Users(g)
    BY <1>1, RecordTypes, ZenonT(60) DEF Users
  <2>2. QED
    BY <1>1, <2>1 DEF Sound, PinsCover
<1>20. \A q \in Page : table'[q] \in Frame => table'[q] = table[q] \/ (q = p /\ op = "fetch")
  BY <1>3, Constants
<1>21. QED
  BY <1>5, <1>7, <1>8, <1>9, <1>10, <1>11, <1>12, <1>14, <1>16, <1>17, <1>18, <1>19, <1>20

LEMMA FetchMissSound ==
    ASSUME TypeInv, TypeInv', FileInv, Sound, NEW c \in Client, NEW p \in Page, FetchMiss(c, p)
    PROVE  Sound' /\ \E g \in Frame : Takes(c, "fetch", p, g)
<1> DEFINE f == TheFrame
           r == Calling("fetch", "write", p, f)
<1>1. /\ call[c] = Idle /\ hold[c] = NoHold /\ FrameAvailable /\ TakeFrame
      /\ table[p] = NoFrame /\ (Known(p) \/ p \in MissingPages)
      /\ table' = [WithoutOldPage(f) EXCEPT ![p] = f]
      /\ loading' = [loading EXCEPT ![f] = TRUE]
      /\ call' = [call EXCEPT ![c] = r]
      /\ UNCHANGED <<pageId, data, pinCount, dirty, diskVars, hold, history>>
  BY DEF FetchMiss, MayAsk, MayCall
<1>2. /\ f \in Frame /\ Listed(f)
      /\ \A g : Contains(freeList', g) => Contains(freeList, g) /\ g # f
      /\ \A g : Contains(lru', g) => Contains(lru, g) /\ g # f
  BY <1>1, FrameTaken
<1>3. r \in CallRecord /\ r.op = "fetch" /\ r.at = "write" /\ r.page = p /\ r.frame = f
  BY <1>2, CallingTyped
<1> HIDE DEF f, r
<1>4. \A q \in Page : table'[q] = IF q = p THEN f ELSE IF pageId[f] = q THEN NoFrame ELSE table[q]
  BY <1>1, <1>2, WithoutTyped
<1>5. /\ call'[c] = r /\ \A d \in Client \ {c} : call'[d] = call[d]
      /\ \A g \in Frame : Listed(g)' => Listed(g) /\ g # f
      /\ \A g \in Frame : loading[g] => loading'[g]
      /\ loading'[f]
      /\ UNCHANGED <<disk, numPages, latest>>
  BY <1>1, <1>2 DEF TypeInv, TypeOK, diskVars, history, Listed
<1>6. Takes(c, "fetch", p, f)
  BY <1>1, <1>2, <1>3, <1>4, <1>5 DEF Takes
<1>7. /\ LoadersApart' /\ FetchMapped' /\ Stages'
      /\ TableSound' /\ TableInjective' /\ ListedMapping' /\ FramesMapped'
      /\ LiveIsLatest' /\ LiveApart' /\ DirtyHasPage' /\ DiskOrFrame'
      /\ HoldsMapped' /\ UnpinsOwn' /\ PinsCover'
      /\ \A d \in Client : Loads(d)' => d = c \/ (Loads(d) /\ d # c)
      /\ \A q \in Page : table'[q] \in Frame => table'[q] = table[q] \/ (q = p /\ "fetch" = "fetch")
  BY <1>2, <1>6, TakesSound
<1>8. NewUnknown'
  <2>1. SUFFICES ASSUME NEW d \in Client, Loads(d)', call'[d].op = "new"
                 PROVE  /\ table'[call'[d].page] = NoFrame
                        /\ call'[d].page < numPages
                        /\ latest[call'[d].page] = Zeros
                        /\ disk[call'[d].page] = Zeros
                        /\ \A q \in Page : table'[q] # call'[d].frame
                        /\ \A e \in Client : Loads(e)' /\ call'[e].page = call'[d].page => d = e
                        /\ \A g \in Frame : pageId[g] = call'[d].page =>
                              call'[d].at = "publish" /\ g = call'[d].frame
    BY <1>1, <1>5 DEF NewUnknown, Loads
  <2>2. /\ d # c /\ Loads(d) /\ call'[d] = call[d] /\ call[d].page \in Page
        /\ call[d].frame \in Frame
    BY <1>3, <1>5, <1>7, <2>1, Typed DEF Loads, CallFormed
  <2>3. /\ table[call[d].page] = NoFrame /\ call[d].page < numPages
        /\ \A q \in Page : table[q] # call[d].frame
        /\ \A e \in Client : Loads(e) /\ call[e].page = call[d].page => d = e
    BY <2>1, <2>2 DEF Sound, NewUnknown
  <2>4. call[d].page # p
    <3>1. CASE Known(p)
      BY <2>1, <2>2, <3>1 DEF Known
    <3>2. CASE p \in MissingPages
      BY <2>2, <2>3, <3>2, Constants DEF FileInv, FileEnd, TypeInv, TypeOK, Page
    <3>3. QED
      BY <1>1, <3>1, <3>2
  <2>5. table'[call[d].page] = NoFrame
    BY <1>4, <2>2, <2>3, <2>4
  <2>6. call[d].frame # f
    BY <1>2, <2>2, ListedFrame
  <2>7. \A q \in Page : table'[q] # call[d].frame
    BY <1>4, <2>2, <2>3, <2>6, Constants
  <2>8. \A e \in Client : Loads(e)' /\ call'[e].page = call[d].page => d = e
    BY <1>3, <1>5, <1>7, <2>3, <2>4
  <2>9. QED
    BY <2>1, <2>2, <2>3, <2>5, <2>7, <2>8 DEF Sound, NewUnknown
<1>9. OnlyExisting'
  <2>1. Exists(p)
    BY <1>1 DEF Known, Exists
  <2>2. \A q \in Page : table'[q] # NoFrame => table[q] # NoFrame \/ q = p
    BY <1>4
  <2>3. QED
    BY <1>3, <1>5, <2>1, <2>2 DEF Sound, OnlyExisting, Exists
<1>10. QED
  BY <1>2, <1>6, <1>7, <1>8, <1>9 DEF Sound

LEMMA NewPageSound ==
    ASSUME TypeInv, TypeInv', FileInv, Sound, NEW c \in Client, NewPage(c)
    PROVE  Sound' /\ \E q \in Page, g \in Frame : Takes(c, "new", q, g)
<1>0. PICK p \in Page : p = numPages /\ p \notin MissingPages
  BY Constants DEF NewPage, TypeInv, TypeOK, Page
<1> DEFINE f == TheFrame
           r == Calling("new", "write", p, f)
<1>1. /\ call[c] = Idle /\ hold[c] = NoHold /\ FrameAvailable /\ TakeFrame
      /\ table' = WithoutOldPage(f)
      /\ numPages' = numPages + 1 /\ disk' = [disk EXCEPT ![p] = Zeros]
      /\ call' = [call EXCEPT ![c] = r]
      /\ UNCHANGED <<frameVars, hold, history>>
  BY <1>0 DEF NewPage, AllocatePage, NextPageId, MayCall
<1>2. /\ f \in Frame /\ Listed(f)
      /\ \A g : Contains(freeList', g) => Contains(freeList, g) /\ g # f
      /\ \A g : Contains(lru', g) => Contains(lru, g) /\ g # f
  BY <1>1, FrameTaken
<1>3. /\ p \in Nat /\ Page \subseteq Nat
      /\ \A g \in Frame : pageId[g] \in Int /\ pageId[g] < p
  BY <1>0, Constants DEF TypeInv, TypeOK, Page, NoPage, FileInv
<1>4. r \in CallRecord /\ r.op = "new" /\ r.at = "write" /\ r.page = p /\ r.frame = f
  BY <1>2, CallingTyped
<1> HIDE DEF f, r
<1>5. disk' = disk /\ disk[p] = Zeros
  <2>1. disk[p] = Zeros /\ disk \in [Page -> Contents]
    BY <1>0, <1>3 DEF FileInv, FileEnd, TypeInv, TypeOK
  <2>2. QED
    BY <1>1, <1>3, <2>1
<1>6. latest' = latest /\ UNCHANGED <<pageId, data, pinCount, dirty, loading>>
  BY <1>1 DEF frameVars, history
\* The file is longer by p.
<1>7. /\ \A q \in Page \cup {NoPage} : q < numPages => q # p /\ q < numPages'
      /\ \A q \in Page : numPages' <= q => numPages <= q
      /\ p < numPages'
  BY <1>0, <1>1, <1>3 DEF NoPage
<1>8. \A g \in Frame : pageId[g] # p
  BY <1>3
<1>9. ~(p < numPages) /\ numPages <= p
  BY <1>0, <1>3
<1>10. \A q \in Page : table'[q] = IF pageId[f] = q THEN NoFrame ELSE table[q]
  BY <1>1, <1>2, WithoutTyped
<1>11. /\ call'[c] = r /\ \A d \in Client \ {c} : call'[d] = call[d]
       /\ \A g \in Frame : Listed(g)' => Listed(g) /\ g # f
  BY <1>1, <1>2 DEF TypeInv, TypeOK, Listed
<1>12. table[p] = NoFrame /\ latest[p] = Zeros
  BY <1>0, <1>9 DEF Sound, OnlyExisting, Exists
<1>13. Takes(c, "new", p, f)
  BY <1>1, <1>2, <1>4, <1>5, <1>6, <1>10, <1>11, <1>12 DEF Takes
<1>14. /\ LoadersApart' /\ FetchMapped' /\ Stages'
       /\ TableSound' /\ TableInjective' /\ ListedMapping' /\ FramesMapped'
       /\ LiveIsLatest' /\ LiveApart' /\ DirtyHasPage' /\ DiskOrFrame'
       /\ HoldsMapped' /\ UnpinsOwn' /\ PinsCover'
       /\ \A d \in Client : Loads(d)' => d = c \/ (Loads(d) /\ d # c)
  BY <1>2, <1>13, TakesSound
<1>15. \A d \in Client : Loads(d) =>
           call[d].page \in Page /\ call[d].page # p /\ call[d].frame \in Frame \ {f}
  <2>1. SUFFICES ASSUME NEW d \in Client, Loads(d)
                 PROVE  call[d].page \in Page /\ call[d].page # p /\ call[d].frame \in Frame \ {f}
    OBVIOUS
  <2>2. call[d].page \in Page /\ call[d].frame \in Frame /\ call[d].op \in {"fetch", "new"}
    BY <2>1, Typed DEF Loads, CallFormed
  <2>3. call[d].op = "fetch" => call[d].page # p
    BY <1>0, <1>9 DEF Sound, OnlyExisting, Exists
  <2>4. call[d].op = "new" => call[d].page # p
    BY <1>9 DEF FileInv
  <2>5. call[d].frame # f
    BY <1>2, <2>1, ListedFrame
  <2>6. QED
    BY <2>2, <2>3, <2>4, <2>5
<1>16. NewUnknown'
  <2>1. SUFFICES ASSUME NEW d \in Client, Loads(d)', call'[d].op = "new"
                 PROVE  /\ table'[call'[d].page] = NoFrame
                        /\ call'[d].page < numPages'
                        /\ latest[call'[d].page] = Zeros
                        /\ disk[call'[d].page] = Zeros
                        /\ \A q \in Page : table'[q] # call'[d].frame
                        /\ \A e \in Client : Loads(e)' /\ call'[e].page = call'[d].page => d = e
                        /\ \A g \in Frame : pageId[g] = call'[d].page =>
                              call'[d].at = "publish" /\ g = call'[d].frame
    BY <1>5, <1>6 DEF NewUnknown, Loads
  <2>2. CASE d = c
    <3>1. call'[d].page = p /\ call'[d].frame = f
      BY <1>4, <1>11, <2>2
    <3>2. \A q \in Page : table'[q] # f
      BY <1>2, <1>10, ListedFrame, Constants
    <3>3. \A e \in Client : Loads(e)' /\ call'[e].page = p => d = e
      BY <1>11, <1>14, <1>15, <2>2
    <3>4. table'[p] = NoFrame
      BY <1>3, <1>10, <1>12
    <3>5. p < numPages' /\ latest[p] = Zeros /\ disk[p] = Zeros
      BY <1>5, <1>7, <1>12
    <3>6. QED
      BY <1>8, <3>1, <3>2, <3>3, <3>4, <3>5
  <2>3. CASE d # c
    <3>1. Loads(d) /\ call'[d] = call[d]
      BY <1>11, <1>14, <2>1, <2>3
    <3>2. /\ table[call[d].page] = NoFrame /\ call[d].page < numPages
          /\ \A q \in Page : table[q] # call[d].frame
          /\ \A e \in Client : Loads(e) /\ call[e].page = call[d].page => d = e
      BY <2>1, <3>1 DEF Sound, NewUnknown
    <3>3. table'[call[d].page] = NoFrame
      BY <1>10, <1>15, <3>1, <3>2
    <3>4. call[d].page < numPages'
      BY <1>15, <1>7, <3>1, <3>2
    <3>5. \A q \in Page : table'[q] # call[d].frame
      BY <1>10, <1>15, <3>1, <3>2, Constants
    <3>6. \A e \in Client : Loads(e)' /\ call'[e].page = call[d].page => d = e
      BY <1>4, <1>11, <1>14, <1>15, <3>1, <3>2
    <3>7. QED
      BY <2>1, <3>1, <3>3, <3>4, <3>5, <3>6 DEF Sound, NewUnknown
  <2>4. QED
    BY <2>2, <2>3
<1>17. OnlyExisting'
  <2>1. \A q \in Page \cup {NoPage} : Exists(q) => Exists(q)'
    BY <1>7 DEF Exists
  <2>2. \A q \in Page : table'[q] # NoFrame => Exists(q)'
    BY <1>10, <2>1 DEF Sound, OnlyExisting
  <2>3. \A d \in Client : call'[d].op = "fetch" => Exists(call[d].page)' /\ call'[d] = call[d]
    <3>1. \A d \in Client : call'[d].op = "fetch" => call[d].op = "fetch" /\ call'[d] = call[d]
      BY <1>4, <1>11
    <3>2. \A d \in Client : call[d].op = "fetch" =>
              Exists(call[d].page) /\ call[d].page \in Page \cup {NoPage}
      BY Typed DEF Sound, OnlyExisting, CallRecord
    <3>3. \A d \in Client : call[d].op = "fetch" =>
              call[d].page < numPages' \/ call[d].page \in MissingPages
      BY <1>7, <3>2 DEF Exists
    <3>4. QED
      BY <3>1, <3>3 DEF Exists
  <2>4. \A q \in Page \ MissingPages : numPages' <= q => latest[q] = Zeros
    <3>1. \A q \in Page \ MissingPages : numPages <= q => latest[q] = Zeros
      BY DEF Sound, OnlyExisting
    <3>2. QED
      BY <1>7, <3>1
  <2>5. QED
    BY <1>6, <2>2, <2>3, <2>4 DEF OnlyExisting, Exists
<1>18. QED
  BY <1>2, <1>13, <1>14, <1>16, <1>17 DEF Sound

-----------------------------------------------------------------------------
(***************************************************************************)
(* Loading a page.                                                         *)
(***************************************************************************)

\* The frame of a load is its alone.
LEMMA LoadFrame ==
    ASSUME TypeInv, FileInv, Sound, NEW c \in Client, Loads(c)
    PROVE  /\ call[c].frame \in Frame /\ call[c].page \in Page
           /\ call[c].op \in {"fetch", "new"} /\ hold[c] = NoHold
           /\ ~Listed(call[c].frame)
           /\ \A d \in Client \ {c} : Loads(d) =>
                  call[d].frame \in Frame \ {call[c].frame} /\ call[d].page \in Page
  BY Typed DEF Loads, CallFormed, Sound, LoadersApart

\* Call c goes on from section a to section b of a load, the others stay.
GoesFromTo(c, a, b) ==
    /\ call[c].at = a
    /\ call'[c].at = b /\ call'[c].op = call[c].op
    /\ call'[c].page = call[c].page /\ call'[c].frame = call[c].frame
    /\ \A d \in Client \ {c} : call'[d] = call[d]
    /\ UNCHANGED <<table, freeList, lru, numPages, hold, latest>>

\* The parts of Sound that each section of a load keeps in the same way.
LEMMA SectionSound ==
    ASSUME TypeInv, TypeInv', FileInv, Sound, NEW c \in Client,
           NEW a \in {"write", "reset", "fill"}, NEW b \in {"reset", "fill", "publish"},
           GoesFromTo(c, a, b), a = "write" \/ b \in {"fill", "publish"},
           \A g \in Frame \ {call[c].frame} : loading[g] => loading'[g],
           b = "reset" => loading' = loading
    PROVE  /\ LoadersApart' /\ FetchMapped' /\ TableInjective' /\ UnpinsOwn' /\ OnlyExisting'
           /\ HoldsMapped'
           /\ \A d \in Client : Loads(d)' <=> Loads(d)
           /\ \A g \in Frame : Stale(g)' => Stale(g)
           /\ \A g \in Frame : g # call[c].frame => (Stale(g)' <=> Stale(g))
           /\ \A g : Listed(g)' <=> Listed(g)
<1>1. /\ call[c].at = a
      /\ call'[c].at = b /\ call'[c].op = call[c].op
      /\ call'[c].page = call[c].page /\ call'[c].frame = call[c].frame
      /\ \A d \in Client \ {c} : call'[d] = call[d]
      /\ UNCHANGED <<table, freeList, lru, numPages, hold, latest>>
  BY DEF GoesFromTo
<1>2. Loads(c) /\ Loads(c)'
  BY <1>1 DEF Loads
<1>3. /\ \A d \in Client : Loads(d)' <=> Loads(d)
      /\ \A d \in Client : /\ call'[d].op = call[d].op /\ call'[d].page = call[d].page
                           /\ call'[d].frame = call[d].frame
  BY <1>1, <1>2 DEF Loads
<1>4. \A g : Listed(g)' <=> Listed(g)
  BY <1>1 DEF Listed
<1>5. LoadersApart'
  <2>1. \A d \in Client : Loads(d) => ~Listed(call[d].frame)'
    BY <1>1, <1>3 DEF Listed, Sound, LoadersApart
  <2>2. QED
    BY <1>1, <1>3, <2>1 DEF Sound, LoadersApart
<1>6. FetchMapped'
  <2>1. SUFFICES ASSUME NEW d \in Client, Loads(d), call[d].op = "fetch"
                 PROVE  /\ table[call[d].page] = call[d].frame
                        /\ call'[d].at \in {"write", "reset"} => loading'[call[d].frame]
    BY <1>1, <1>3 DEF FetchMapped
  <2>2. /\ table[call[d].page] = call[d].frame
        /\ call[d].at \in {"write", "reset"} => loading[call[d].frame]
    BY <2>1 DEF Sound, FetchMapped
  <2>3. d # c => call[d].frame \in Frame \ {call[c].frame} /\ call'[d] = call[d]
    BY <1>1, <1>2, <2>1, LoadFrame
  <2>4. QED
    BY <1>1, <2>2, <2>3
<1>7. TableInjective'
  BY <1>1 DEF Sound, TableInjective
<1>8. UnpinsOwn'
  BY <1>1, <1>2, <1>3, LoadFrame DEF Sound, UnpinsOwn
<1>9. OnlyExisting'
  BY <1>1, <1>3 DEF Sound, OnlyExisting, Exists
<1>10. /\ \A g \in Frame : Stale(g)' => Stale(g)
       /\ \A g \in Frame : g # call[c].frame => (Stale(g)' <=> Stale(g))
  BY <1>1 DEF Stale
<1>11. HoldsMapped'
  <2>1. \A d \in Client : hold[d] # NoHold => ~Stale(hold[d].frame)' /\ ~Listed(hold[d].frame)'
    BY <1>1, <1>10, HeldFrame DEF Listed, Stale
  <2>2. QED
    BY <1>1, <2>1 DEF Sound, HoldsMapped
<1>12. QED
  BY <1>3, <1>4, <1>5, <1>6, <1>7, <1>8, <1>9, <1>10, <1>11

LEMMA WriteBackSound ==
    ASSUME TypeInv, TypeInv', FileInv, Sound, NEW c \in Client, WriteBack(c)
    PROVE  Sound'
<1> DEFINE f == call[c].frame
<1>1. /\ call[c].at = "write" /\ call' = [call EXCEPT ![c].at = "reset"]
      /\ \/ dirty[f] /\ disk' = [disk EXCEPT ![pageId[f]] = data[f]]
         \/ ~dirty[f] /\ disk' = disk
      /\ UNCHANGED <<frameVars, poolVars, numPages, hold, history>>
  BY DEF WriteBack, WritePage
<1>2. Loads(c)
  BY <1>1 DEF Loads
<1>3. f \in Frame
  BY <1>2, LoadFrame
<1>4. UNCHANGED <<pageId, data, pinCount, dirty, loading, table, freeList, lru, hold, numPages, latest>>
  BY <1>1 DEF frameVars, poolVars, history
<1>5. GoesFromTo(c, "write", "reset")
  BY <1>1, <1>2, <1>4, NextSection DEF GoesFromTo, Loads
<1>6. /\ LoadersApart' /\ FetchMapped' /\ TableInjective' /\ UnpinsOwn' /\ OnlyExisting'
      /\ HoldsMapped'
      /\ \A d \in Client : Loads(d)' <=> Loads(d)
      /\ \A g : Listed(g)' <=> Listed(g)
  BY <1>4, <1>5, SectionSound
<1>7. /\ call'[c].at = "reset" /\ call'[c].op = call[c].op
      /\ call'[c].page = call[c].page /\ call'[c].frame = f
      /\ \A d \in Client \ {c} : call'[d] = call[d]
  BY <1>5 DEF GoesFromTo
<1>8. /\ \A q \in Page : disk'[q] = disk[q] \/ disk'[q] = latest[q]
      /\ dirty[f] => disk'[pageId[f]] = latest[pageId[f]]
  <2>1. dirty[f] => pageId[f] \in Page /\ data[f] = latest[pageId[f]]
    BY <1>3 DEF Sound, DirtyHasPage, LiveIsLatest, Live, TypeInv, TypeOK
  <2>2. disk \in [Page -> Contents]
    BY DEF TypeInv, TypeOK
  <2> HIDE DEF f
  <2>3. QED
    BY <1>1, <2>1, <2>2
<1> HIDE DEF f
<1>9. \A g \in Frame : Stale(g)' <=> Stale(g)
  BY <1>1, <1>7 DEF Stale, f
<1>10. NewUnknown'
  <2>1. SUFFICES ASSUME NEW d \in Client, Loads(d), call[d].op = "new"
                 PROVE  /\ table[call[d].page] = NoFrame /\ call[d].page < numPages
                        /\ latest[call[d].page] = Zeros /\ disk'[call[d].page] = Zeros
                        /\ \A p \in Page : table[p] # call[d].frame
                        /\ \A e \in Client : Loads(e) /\ call[e].page = call[d].page => d = e
                        /\ \A g \in Frame : pageId[g] = call[d].page =>
                              call'[d].at = "publish" /\ g = call[d].frame
    BY <1>4, <1>6, <1>7 DEF NewUnknown, f
  <2>2. \A g \in Frame : pageId[g] = call[d].page => call[d].at = "publish" /\ g = call[d].frame
    BY <2>1 DEF Sound, NewUnknown
  <2>3. call[d].page \in Page
    BY <2>1, Typed DEF Loads, CallFormed
  <2>4. call[d].at = "publish" => call'[d].at = "publish"
    BY <1>1, <1>7
  <2>5. QED
    BY <1>8, <2>1, <2>2, <2>3, <2>4 DEF Sound, NewUnknown
<1>11. Stages'
  <2>1. SUFFICES ASSUME NEW d \in Client
                 PROVE  /\ call'[d].at \in {"write", "reset"} =>
                             \A q \in Page : pageId[call'[d].frame] = q => table[q] # call'[d].frame
                        /\ call'[d].at = "reset" /\ dirty[call'[d].frame] =>
                             disk'[pageId[call'[d].frame]] = latest[pageId[call'[d].frame]]
                        /\ call'[d].at = "fill" =>
                             pageId[call'[d].frame] = NoPage /\ data[call'[d].frame] = Zeros
                        /\ call'[d].at = "publish" => pageId[call'[d].frame] = call'[d].page
    BY <1>4 DEF Stages
  <2>2. CASE d = c
    BY <1>1, <1>7, <1>8, <2>2 DEF Sound, Stages, f
  <2>3. CASE d # c
    <3>1. call[d].at = "reset" /\ dirty[call[d].frame] => pageId[call[d].frame] \in Page
      BY Typed DEF Sound, DirtyHasPage, TypeInv, TypeOK, CallFormed
    <3>2. QED
      BY <1>7, <1>8, <2>3, <3>1 DEF Sound, Stages
  <2>4. QED
    BY <2>2, <2>3
<1>12. TableSound'
  BY <1>1, <1>4, <1>7 DEF Sound, TableSound, f
<1>13. ListedMapping'
  BY <1>4, <1>6 DEF Sound, ListedMapping
<1>14. FramesMapped'
  BY <1>1, <1>4, <1>7, <1>9 DEF Sound, FramesMapped, f
<1>15. LiveIsLatest' /\ LiveApart' /\ DirtyHasPage'
  BY <1>4, <1>9 DEF Sound, LiveIsLatest, LiveApart, DirtyHasPage, Live
<1>16. DiskOrFrame'
  BY <1>4, <1>8 DEF Sound, DiskOrFrame
<1>17. PinsCover'
  <2>1. \A g \in Frame : Users(g)' = Users(g)
    BY <1>1, <1>4, <1>7 DEF Users, f
  <2>2. QED
    BY <1>4, <2>1 DEF Sound, PinsCover
<1>18. QED
  BY <1>6, <1>10, <1>11, <1>12, <1>13, <1>14, <1>15, <1>16, <1>17 DEF Sound

LEMMA ResetFrameSound ==
    ASSUME TypeInv, TypeInv', FileInv, Sound, NEW c \in Client, ResetFrame(c)
    PROVE  Sound'
<1> DEFINE f == call[c].frame
<1>1. /\ call[c].at = "reset" /\ call' = [call EXCEPT ![c].at = "fill"]
      /\ data' = [data EXCEPT ![f] = Zeros] /\ pageId' = [pageId EXCEPT ![f] = NoPage]
      /\ pinCount' = [pinCount EXCEPT ![f] = 0] /\ dirty' = [dirty EXCEPT ![f] = FALSE]
      /\ loading' = [loading EXCEPT ![f] = FALSE]
      /\ UNCHANGED <<poolVars, diskVars, hold, history>>
  BY DEF ResetFrame
<1>2. Loads(c)
  BY <1>1 DEF Loads
<1>3. f \in Frame /\ Stale(f)
  BY <1>1, <1>2, LoadFrame DEF Stale
<1>4. UNCHANGED <<table, freeList, lru, hold, disk, numPages, latest>>
  BY <1>1 DEF poolVars, diskVars, history
<1>5. GoesFromTo(c, "reset", "fill")
  BY <1>1, <1>2, <1>4, NextSection DEF GoesFromTo, Loads
<1> HIDE DEF f
<1>6. /\ \A g \in Frame \ {f} :
             /\ data'[g] = data[g] /\ pageId'[g] = pageId[g] /\ pinCount'[g] = pinCount[g]
             /\ dirty'[g] = dirty[g] /\ loading'[g] = loading[g]
      /\ data'[f] = Zeros /\ pageId'[f] = NoPage /\ pinCount'[f] = 0 /\ dirty'[f] = FALSE
  BY <1>1, <1>3 DEF TypeInv, TypeOK
<1>7. /\ LoadersApart' /\ FetchMapped' /\ TableInjective' /\ UnpinsOwn' /\ OnlyExisting'
      /\ HoldsMapped'
      /\ \A d \in Client : Loads(d)' <=> Loads(d)
      /\ \A g \in Frame : g # f => (Stale(g)' <=> Stale(g))
      /\ \A g : Listed(g)' <=> Listed(g)
  <2>1. \A g \in Frame \ {call[c].frame} : loading[g] => loading'[g]
    BY <1>6 DEF f
  <2>2. QED
    BY <1>5, <2>1, SectionSound DEF f
<1>8. /\ call'[c].at = "fill" /\ call'[c].op = call[c].op
      /\ call'[c].page = call[c].page /\ call'[c].frame = f
      /\ \A d \in Client \ {c} : call'[d] = call[d]
  BY <1>5 DEF GoesFromTo, f
<1>9. \A d \in Client \ {c} : Loads(d) => call[d].frame \in Frame \ {f} /\ call[d].page \in Page
  BY <1>2, LoadFrame DEF f
<1>10. NewUnknown'
  <2>1. SUFFICES ASSUME NEW d \in Client, Loads(d), call[d].op = "new"
                 PROVE  /\ table[call[d].page] = NoFrame /\ call[d].page < numPages
                        /\ latest[call[d].page] = Zeros /\ disk[call[d].page] = Zeros
                        /\ \A p \in Page : table[p] # call[d].frame
                        /\ \A e \in Client : Loads(e) /\ call[e].page = call[d].page => d = e
                        /\ \A g \in Frame : pageId'[g] = call[d].page =>
                              call'[d].at = "publish" /\ g = call[d].frame
    BY <1>4, <1>7, <1>8 DEF NewUnknown, f
  <2>2. \A g \in Frame : pageId[g] = call[d].page => call[d].at = "publish" /\ g = call[d].frame
    BY <2>1 DEF Sound, NewUnknown
  <2>3. call[d].page \in Page
    BY <2>1, Typed DEF Loads, CallFormed
  <2>4. \A g \in Frame : pageId'[g] = call[d].page => call'[d].at = "publish" /\ g = call[d].frame
    BY <1>1, <1>6, <1>8, <2>2, <2>3, Constants
  <2>5. QED
    BY <2>1, <2>4 DEF Sound, NewUnknown
<1>11. Stages'
  <2>1. SUFFICES ASSUME NEW d \in Client, Loads(d)'
                 PROVE  /\ call'[d].at \in {"write", "reset"} =>
                             \A q \in Page : pageId'[call'[d].frame] = q => table[q] # call'[d].frame
                        /\ call'[d].at = "reset" /\ dirty'[call'[d].frame] =>
                             disk[pageId'[call'[d].frame]] = latest[pageId'[call'[d].frame]]
                        /\ call'[d].at = "fill" =>
                             pageId'[call'[d].frame] = NoPage /\ data'[call'[d].frame] = Zeros
                        /\ call'[d].at = "publish" => pageId'[call'[d].frame] = call'[d].page
    BY <1>4 DEF Stages, Loads
  <2>2. CASE d = c
    BY <1>6, <1>8, <2>2
  <2>3. CASE d # c
    BY <1>6, <1>7, <1>8, <1>9, <2>1, <2>3 DEF Sound, Stages
  <2>4. QED
    BY <2>2, <2>3
<1>12. \A q \in Page : pageId[f] = q => table[q] # f
  BY <1>1 DEF Sound, Stages, f
<1>13. TableSound'
  <2>1. SUFFICES ASSUME NEW q \in Page, table[q] # NoFrame
                 PROVE  \/ pageId'[table[q]] = q
                        \/ \E d \in Client : /\ call'[d].at \in {"write", "reset", "fill"}
                                             /\ call'[d].frame = table[q] /\ call'[d].page = q
                        \/ q \in MissingPages /\ pageId'[table[q]] = NoPage
    BY <1>4 DEF TableSound
  <2>2. table[q] \in Frame
    BY <2>1 DEF TypeInv, TypeOK
  <2>3. \/ pageId[table[q]] = q
        \/ \E d \in Client : /\ call[d].at \in {"write", "reset", "fill"}
                             /\ call[d].frame = table[q] /\ call[d].page = q
        \/ q \in MissingPages /\ pageId[table[q]] = NoPage
    BY <2>1 DEF Sound, TableSound
  <2>4. \A d \in Client : call[d].at \in {"write", "reset", "fill"} =>
            /\ call'[d].at \in {"write", "reset", "fill"}
            /\ call'[d].frame = call[d].frame /\ call'[d].page = call[d].page
    BY <1>8 DEF f
  <2>5. QED
    BY <1>6, <1>12, <2>2, <2>3, <2>4
<1>14. ListedMapping'
  BY <1>2, <1>4, <1>6, <1>7, LoadFrame DEF Sound, ListedMapping, f
<1>15. FramesMapped'
  <2>1. SUFFICES ASSUME NEW g \in Frame, pageId'[g] # NoPage
                 PROVE  \/ Stale(g)'
                        \/ table[pageId'[g]] = g
                        \/ \E d \in Client : call'[d].at = "publish" /\ call'[d].frame = g
    BY <1>4 DEF FramesMapped
  <2>2. g # f /\ pageId'[g] = pageId[g]
    BY <1>6, <2>1
  <2>3. \A d \in Client : call[d].at = "publish" => call'[d] = call[d]
    BY <1>1, <1>8
  <2>4. QED
    BY <1>7, <2>1, <2>2, <2>3 DEF Sound, FramesMapped
<1>16. \A g \in Frame : Live(g)' => Live(g) /\ g # f
  BY <1>6, <1>7 DEF Live
<1>17. LiveIsLatest' /\ LiveApart' /\ DirtyHasPage'
  BY <1>4, <1>6, <1>16 DEF Sound, LiveIsLatest, LiveApart, DirtyHasPage
<1>18. DiskOrFrame'
  <2>1. SUFFICES ASSUME NEW q \in Page \ MissingPages, disk[q] # latest[q]
                 PROVE  \/ \E g \in Frame : pageId'[g] = q /\ dirty'[g]
                        \/ \E d \in Client : /\ hold[d].page = q /\ hold[d].wrote
                                             /\ pageId'[hold[d].frame] = q
    BY <1>4 DEF DiskOrFrame
  <2>2. CASE \E g \in Frame : pageId[g] = q /\ dirty[g]
    <3>1. PICK g \in Frame : pageId[g] = q /\ dirty[g]
      BY <2>2
    <3>2. g # f
      BY <1>1, <2>1, <3>1 DEF Sound, Stages, f
    <3>3. QED
      BY <1>6, <3>1, <3>2
  <2>3. CASE \E d \in Client : hold[d].page = q /\ hold[d].wrote /\ pageId[hold[d].frame] = q
    <3>1. PICK d \in Client : hold[d].page = q /\ hold[d].wrote /\ pageId[hold[d].frame] = q
      BY <2>3
    <3>2. hold[d] # NoHold
      BY <3>1, RecordTypes
    <3>3. hold[d].frame \in Frame \ {f}
      BY <1>3, <3>2, HeldFrame
    <3>4. QED
      BY <1>6, <3>1, <3>3
  <2>4. QED
    BY <2>1, <2>2, <2>3 DEF Sound, DiskOrFrame
<1>19. PinsCover'
  <2>1. SUFFICES ASSUME NEW g \in Frame PROVE Cardinality(Users(g)') <= pinCount'[g]
    BY DEF PinsCover
  <2>2. Users(g)' = Users(g)
    BY <1>1, <1>4, <1>8 DEF Users, f
  <2>3. CASE g = f
    <3>1. \A d \in Client : hold[d].frame # f
      BY <1>3, HeldFrame, RecordTypes, Constants
    <3>2. \A d \in Client : ~(call[d].at = "publish" /\ call[d].frame = f)
      BY <1>1, <1>9 DEF Loads
    <3>3. Users(f) = {}
      BY <3>1, <3>2 DEF Users
    <3>4. QED
      BY <1>6, <2>2, <2>3, <3>3, FS_EmptySet
  <2>4. CASE g # f
    BY <1>6, <2>2, <2>4 DEF Sound, PinsCover
  <2>5. QED
    BY <2>3, <2>4
<1>20. QED
  BY <1>7, <1>10, <1>11, <1>13, <1>14, <1>15, <1>17, <1>18, <1>19 DEF Sound

LEMMA FillSound ==
    ASSUME TypeInv, TypeInv', FileInv, Sound, NEW c \in Client, Fill(c), ~raced'
    PROVE  Sound'
<1>0. /\ call[c].at = "fill" /\ call' = [call EXCEPT ![c].at = "publish"]
      /\ call[c].op = "fetch" => call[c].page < numPages
      /\ data' = IF call[c].op = "fetch"
                 THEN [data EXCEPT ![call[c].frame] = disk[call[c].page]] ELSE data
      /\ pageId' = [pageId EXCEPT ![call[c].frame] = call[c].page]
      /\ pinCount' = [pinCount EXCEPT ![call[c].frame] = @ + 1]
      /\ dirty' = [dirty EXCEPT ![call[c].frame] = FALSE]
      /\ ~Outdated(call[c].page)
      /\ UNCHANGED <<loading, poolVars, diskVars, hold, latest>>
  BY DEF Fill, ReadPage, Readable
<1>1. PICK f \in Frame, p \in Page : f = call[c].frame /\ p = call[c].page
  BY <1>0, Typed DEF CallFormed
<1>2. Loads(c) /\ call[c].op \in {"fetch", "new"} /\ hold[c] = NoHold /\ ~Listed(f)
  BY <1>0, <1>1, LoadFrame DEF Loads
<1>3. UNCHANGED <<loading, table, freeList, lru, hold, disk, numPages, latest>>
  BY <1>0 DEF poolVars, diskVars
<1>4. GoesFromTo(c, "fill", "publish")
  BY <1>0, <1>2, <1>3, NextSection DEF GoesFromTo, Loads
<1>5. pageId[f] = NoPage /\ data[f] = Zeros
  BY <1>0, <1>1 DEF Sound, Stages
<1>6. /\ \A g \in Frame \ {f} :
             /\ data'[g] = data[g] /\ pageId'[g] = pageId[g] /\ pinCount'[g] = pinCount[g]
             /\ dirty'[g] = dirty[g]
      /\ data'[f] = IF call[c].op = "fetch" THEN disk[p] ELSE Zeros
      /\ pageId'[f] = p /\ pinCount'[f] = pinCount[f] + 1 /\ dirty'[f] = FALSE
  BY <1>0, <1>1, <1>5, ZenonT(60) DEF TypeInv, TypeOK
<1>7. /\ LoadersApart' /\ FetchMapped' /\ TableInjective' /\ UnpinsOwn' /\ OnlyExisting'
      /\ HoldsMapped'
      /\ \A d \in Client : Loads(d)' <=> Loads(d)
      /\ \A g \in Frame : Stale(g)' => Stale(g)
      /\ \A g \in Frame : g # f => (Stale(g)' <=> Stale(g))
      /\ \A g : Listed(g)' <=> Listed(g)
  BY <1>1, <1>3, <1>4, SectionSound
<1>8. /\ call'[c].at = "publish" /\ call'[c].op = call[c].op
      /\ call'[c].page = p /\ call'[c].frame = f
      /\ \A d \in Client \ {c} : call'[d] = call[d]
  BY <1>1, <1>4 DEF GoesFromTo
<1>9. \A d \in Client \ {c} : Loads(d) => call[d].frame \in Frame \ {f} /\ call[d].page \in Page
  BY <1>1, <1>2, LoadFrame
\* A fetch has its page in the table, a new page is nowhere.
<1>10. /\ call[c].op = "fetch" => table[p] = f
       /\ call[c].op = "new" => /\ table[p] = NoFrame /\ latest[p] = Zeros
                                /\ \A q \in Page : table[q] # f
                                /\ \A g \in Frame : pageId[g] # p
       /\ \A d \in Client : Loads(d) /\ call[d].op = "new" /\ d # c => call[d].page # p
  BY <1>0, <1>1, <1>2 DEF Sound, FetchMapped, NewUnknown
\* No other frame has a content of the page that counts.
<1>11. \A g \in Frame : Live(g) => pageId[g] # p
  <2>1. SUFFICES ASSUME NEW g \in Frame, Live(g), pageId[g] = p PROVE FALSE
    OBVIOUS
  <2>2. ~dirty[g]
    BY <1>0, <1>1, <2>1 DEF Outdated
  <2>3. ~Stale(g) /\ call[c].op = "fetch" /\ g # f /\ pageId[g] # NoPage
    BY <1>2, <1>5, <1>10, <2>1, <2>2, Constants DEF Live
  <2>4. \/ table[p] = g
        \/ \E d \in Client : call[d].at = "publish" /\ call[d].frame = g
    BY <2>1, <2>3 DEF Sound, FramesMapped
  <2>5. PICK d \in Client : call[d].at = "publish" /\ call[d].frame = g
    BY <1>10, <2>3, <2>4
  <2>6. call[d].page = p /\ Loads(d) /\ call[d].op \in {"fetch", "new"} /\ d # c
    BY <1>0, <2>1, <2>5, Typed DEF Sound, Stages, Loads, CallFormed
  <2>7. QED
    BY <1>10, <2>3, <2>5, <2>6 DEF Sound, FetchMapped
\* What the disk has is the latest.
<1>12. data'[f] = latest[p]
  <2>1. CASE call[c].op = "fetch"
    <3>1. p \notin MissingPages
      BY <1>0, <1>1, <2>1, Constants DEF FileInv, FileEnd, TypeInv, TypeOK, Page
    <3>2. ~\E g \in Frame : pageId[g] = p /\ dirty[g]
      BY <1>0, <1>1 DEF Outdated
    <3>3. ~\E d \in Client : hold[d].page = p /\ hold[d].wrote /\ pageId[hold[d].frame] = p
      BY <1>5, <1>10, <2>1, HeldFrame, RecordTypes, Constants
    <3>4. QED
      BY <1>6, <2>1, <3>1, <3>2, <3>3 DEF Sound, DiskOrFrame
  <2>2. CASE call[c].op = "new"
    BY <1>6, <1>10, <2>2
  <2>3. QED
    BY <1>2, <2>1, <2>2
<1>13. NewUnknown'
  <2>1. SUFFICES ASSUME NEW d \in Client, Loads(d), call[d].op = "new"
                 PROVE  /\ table[call[d].page] = NoFrame /\ call[d].page < numPages
                        /\ latest[call[d].page] = Zeros /\ disk[call[d].page] = Zeros
                        /\ \A q \in Page : table[q] # call[d].frame
                        /\ \A e \in Client : Loads(e) /\ call[e].page = call[d].page => d = e
                        /\ \A g \in Frame : pageId'[g] = call[d].page =>
                              call'[d].at = "publish" /\ g = call[d].frame
    BY <1>1, <1>3, <1>7, <1>8 DEF NewUnknown
  <2>2. \A g \in Frame : pageId[g] = call[d].page => call[d].at = "publish" /\ g = call[d].frame
    BY <2>1 DEF Sound, NewUnknown
  <2>3. \A g \in Frame : pageId'[g] = call[d].page => call'[d].at = "publish" /\ g = call[d].frame
    BY <1>1, <1>6, <1>8, <1>10, <2>1, <2>2
  <2>4. QED
    BY <2>1, <2>3 DEF Sound, NewUnknown
<1>14. Stages'
  <2>1. SUFFICES ASSUME NEW d \in Client, Loads(d)'
                 PROVE  /\ call'[d].at \in {"write", "reset"} =>
                             \A q \in Page : pageId'[call'[d].frame] = q => table[q] # call'[d].frame
                        /\ call'[d].at = "reset" /\ dirty'[call'[d].frame] =>
                             disk[pageId'[call'[d].frame]] = latest[pageId'[call'[d].frame]]
                        /\ call'[d].at = "fill" =>
                             pageId'[call'[d].frame] = NoPage /\ data'[call'[d].frame] = Zeros
                        /\ call'[d].at = "publish" => pageId'[call'[d].frame] = call'[d].page
    BY <1>3 DEF Stages, Loads
  <2>2. CASE d = c
    BY <1>6, <1>8, <2>2
  <2>3. CASE d # c
    BY <1>6, <1>7, <1>8, <1>9, <2>1, <2>3 DEF Sound, Stages
  <2>4. QED
    BY <2>2, <2>3
<1>15. \A q \in Page : table[q] = f => q = p
  BY <1>2, <1>10, Constants DEF Sound, TableInjective
<1>16. TableSound'
  <2>1. SUFFICES ASSUME NEW q \in Page, table[q] # NoFrame
                 PROVE  \/ pageId'[table[q]] = q
                        \/ \E d \in Client : /\ call'[d].at \in {"write", "reset", "fill"}
                                             /\ call'[d].frame = table[q] /\ call'[d].page = q
                        \/ q \in MissingPages /\ pageId'[table[q]] = NoPage
    BY <1>3 DEF TableSound
  <2>2. CASE table[q] = f
    BY <1>6, <1>15, <2>2
  <2>3. CASE table[q] # f
    <3>1. table[q] \in Frame
      BY <2>1 DEF TypeInv, TypeOK
    <3>2. \/ pageId[table[q]] = q
          \/ \E d \in Client : /\ call[d].at \in {"write", "reset", "fill"}
                               /\ call[d].frame = table[q] /\ call[d].page = q
          \/ q \in MissingPages /\ pageId[table[q]] = NoPage
      BY <2>1 DEF Sound, TableSound
    <3>3. QED
      BY <1>1, <1>6, <1>8, <2>3, <3>1, <3>2
  <2>4. QED
    BY <2>2, <2>3
<1>17. ListedMapping'
  BY <1>2, <1>3, <1>6, <1>7 DEF Sound, ListedMapping
<1>18. FramesMapped'
  <2>1. SUFFICES ASSUME NEW g \in Frame, pageId'[g] # NoPage, g # f
                 PROVE  \/ Stale(g)'
                        \/ table[pageId'[g]] = g
                        \/ \E d \in Client : call'[d].at = "publish" /\ call'[d].frame = g
    BY <1>3, <1>8 DEF FramesMapped
  <2>2. pageId'[g] = pageId[g] /\ \A d \in Client : call[d].at = "publish" => call'[d] = call[d]
    BY <1>0, <1>6, <1>8, <2>1
  <2>3. QED
    BY <1>7, <2>1, <2>2 DEF Sound, FramesMapped
<1>19. \A g \in Frame : Live(g)' => g = f \/ (Live(g) /\ g # f)
  BY <1>6, <1>7 DEF Live
<1>20. LiveIsLatest' /\ LiveApart' /\ DirtyHasPage'
  <2>1. LiveIsLatest'
    BY <1>3, <1>6, <1>12, <1>19 DEF Sound, LiveIsLatest
  <2>2. LiveApart'
    BY <1>6, <1>11, <1>19 DEF Sound, LiveApart
  <2>3. DirtyHasPage'
    BY <1>6 DEF Sound, DirtyHasPage
  <2>4. QED
    BY <2>1, <2>2, <2>3
<1>21. DiskOrFrame'
  <2>1. SUFFICES ASSUME NEW q \in Page \ MissingPages, disk[q] # latest[q]
                 PROVE  \/ \E g \in Frame : pageId'[g] = q /\ dirty'[g]
                        \/ \E d \in Client : /\ hold[d].page = q /\ hold[d].wrote
                                             /\ pageId'[hold[d].frame] = q
    BY <1>3 DEF DiskOrFrame
  <2>2. CASE \E g \in Frame : pageId[g] = q /\ dirty[g]
    BY <1>5, <1>6, <2>2, Constants
  <2>3. CASE \E d \in Client : hold[d].page = q /\ hold[d].wrote /\ pageId[hold[d].frame] = q
    <3>1. PICK d \in Client : hold[d].page = q /\ hold[d].wrote /\ pageId[hold[d].frame] = q
      BY <2>3
    <3>2. hold[d].frame \in Frame \ {f}
      BY <1>5, <3>1, HeldFrame, RecordTypes, Constants
    <3>3. QED
      BY <1>6, <3>1, <3>2
  <2>4. QED
    BY <2>1, <2>2, <2>3 DEF Sound, DiskOrFrame
<1>22. PinsCover'
  <2>1. SUFFICES ASSUME NEW g \in Frame PROVE Cardinality(Users(g)') <= pinCount'[g]
    BY DEF PinsCover
  <2>2. /\ Cardinality(Users(g)) <= pinCount[g] /\ Cardinality(Users(g)) \in Nat
        /\ Cardinality(Users(g) \cup {c}) <= Cardinality(Users(g)) + 1
        /\ Cardinality(Users(g) \cup {c}) \in Nat
    BY UsersFinite, FS_AddElement, FS_CardinalityType DEF Sound, PinsCover
  <2>3. pinCount[g] \in Nat /\ pinCount'[g] = IF g = f THEN pinCount[g] + 1 ELSE pinCount[g]
    BY <1>6 DEF TypeInv, TypeOK
  <2>4. Users(g)' = IF g = f THEN Users(g) \cup {c} ELSE Users(g)
    BY <1>0, <1>1, <1>3, <1>8 DEF Users
  <2>5. QED
    BY <2>2, <2>3, <2>4
<1>23. QED
  BY <1>7, <1>13, <1>14, <1>16, <1>17, <1>18, <1>20, <1>21, <1>22 DEF Sound

LEMMA FillThrowsSound ==
    ASSUME TypeInv, TypeInv', FileInv, Sound, NEW c \in Client, FillThrows(c)
    PROVE  Sound'
<1>1. /\ call[c].at = "fill" /\ call[c].op = "fetch" /\ ~(call[c].page < numPages)
      /\ call' = [call EXCEPT ![c] = Idle]
      /\ UNCHANGED <<frameVars, poolVars, diskVars, hold, history>>
  BY DEF FillThrows, Readable
<1>2. /\ UNCHANGED <<pageId, data, pinCount, dirty, loading>>
      /\ UNCHANGED <<table, freeList, lru, disk, numPages, hold, latest>>
      /\ \A g : Listed(g)' <=> Listed(g)
  BY <1>1 DEF frameVars, poolVars, diskVars, history, Listed
<1>3. call'[c] = Idle /\ \A d \in Client \ {c} : call'[d] = call[d]
  BY <1>1 DEF TypeInv, TypeOK
<1>4. \A d \in Client : Loads(d)' => d # c /\ Loads(d) /\ call'[d] = call[d]
  BY <1>3, RecordTypes DEF Loads
<1>5. \A g \in Frame : Stale(g)' <=> Stale(g)
  BY <1>1, <1>3, RecordTypes DEF Stale
\* The page that does not exist stays in the table, its frame has none.
<1>6. call[c].page \in MissingPages /\ pageId[call[c].frame] = NoPage
  BY <1>1 DEF Sound, OnlyExisting, Exists, Stages
<1>7. LoadersApart' /\ FetchMapped' /\ NewUnknown'
  <2>1. LoadersApart'
    BY <1>2, <1>4 DEF Sound, LoadersApart, Listed
  <2>2. FetchMapped'
    BY <1>2, <1>4 DEF Sound, FetchMapped
  <2>3. NewUnknown'
    BY <1>2, <1>4 DEF Sound, NewUnknown
  <2>4. QED
    BY <2>1, <2>2, <2>3
<1>8. Stages'
  BY <1>2, <1>4 DEF Sound, Stages, Loads
<1>9. TableSound'
  <2>1. SUFFICES ASSUME NEW q \in Page, table[q] # NoFrame
                 PROVE  \/ pageId[table[q]] = q
                        \/ \E d \in Client : /\ call'[d].at \in {"write", "reset", "fill"}
                                             /\ call'[d].frame = table[q] /\ call'[d].page = q
                        \/ q \in MissingPages /\ pageId[table[q]] = NoPage
    BY <1>2 DEF TableSound
  <2>2. QED
    BY <1>3, <1>6, <2>1 DEF Sound, TableSound
<1>10. TableInjective' /\ ListedMapping'
  BY <1>2 DEF Sound, TableInjective, ListedMapping
<1>11. FramesMapped'
  BY <1>1, <1>2, <1>3, <1>5 DEF Sound, FramesMapped
<1>12. LiveIsLatest' /\ LiveApart' /\ DirtyHasPage'
  BY <1>2, <1>5 DEF Sound, LiveIsLatest, LiveApart, DirtyHasPage, Live
<1>13. DiskOrFrame'
  BY <1>2 DEF Sound, DiskOrFrame
<1>14. HoldsMapped'
  BY <1>2, <1>5, HeldFrame DEF HoldsMapped, Listed
<1>15. UnpinsOwn'
  BY <1>2, <1>3, RecordTypes DEF Sound, UnpinsOwn
<1>16. PinsCover'
  <2>1. \A g \in Frame : Users(g)' = Users(g)
    BY <1>1, <1>2, <1>3, RecordTypes, ZenonT(60) DEF Users
  <2>2. QED
    BY <1>2, <2>1 DEF Sound, PinsCover
<1>17. OnlyExisting'
  BY <1>2, <1>3, RecordTypes DEF Sound, OnlyExisting, Exists
<1>18. QED
  BY <1>7, <1>8, <1>9, <1>10, <1>11, <1>12, <1>13, <1>14, <1>15, <1>16, <1>17 DEF Sound

LEMMA PublishSound ==
    ASSUME TypeInv, TypeInv', FileInv, Sound, NEW c \in Client, Publish(c)
    PROVE  Sound'
<1>0. /\ call[c].at = "publish"
      /\ \/ /\ call[c].op = "fetch" /\ table' = table
            /\ loading' = [loading EXCEPT ![call[c].frame] = FALSE]
         \/ /\ call[c].op # "fetch" /\ loading' = loading
            /\ table' = [table EXCEPT ![call[c].page] = call[c].frame]
      /\ UNCHANGED <<pageId, data, pinCount, dirty, freeList, lru, diskVars, history>>
  BY DEF Publish
<1>1. PICK f \in Frame, p \in Page : f = call[c].frame /\ p = call[c].page
  BY <1>0, Typed DEF CallFormed
<1>2. /\ Loads(c) /\ call[c].op \in {"fetch", "new"} /\ hold[c] = NoHold /\ ~Listed(f)
      /\ ~Stale(f) /\ pageId[f] = p
  <2>1. Loads(c)
    BY <1>0 DEF Loads
  <2>2. ~Stale(f)
    BY <1>0, <1>1, <2>1, LoadFrame DEF Stale, Loads
  <2>3. QED
    BY <1>0, <1>1, <2>1, <2>2, LoadFrame DEF Sound, Stages
<1>3. /\ UNCHANGED <<pageId, data, pinCount, dirty, disk, numPages, latest>>
      /\ \A g : Listed(g)' <=> Listed(g)
  BY <1>0 DEF diskVars, history, Listed
<1>4. /\ call'[c] = Idle /\ hold'[c].page = p /\ hold'[c].frame = f /\ ~hold'[c].wrote
      /\ \A d \in Client \ {c} :
             /\ call'[d].op = call[d].op /\ call'[d].page = call[d].page
             /\ call'[d].frame = call[d].frame
             /\ \/ call'[d] = call[d]
                \/ call[d].at = "asleep" /\ call'[d].at = "awake"
             /\ hold'[d] = hold[d]
  <2>1. hold'[c] = [page |-> call[c].page, frame |-> call[c].frame, wrote |-> FALSE]
    BY PublishCalls
  <2>2. hold'[c].page = p /\ hold'[c].frame = f /\ ~hold'[c].wrote
    BY <1>1, <2>1
  <2>3. QED
    BY <2>2, PublishCalls
<1>5. /\ \A d \in Client : Loads(d)' => d # c /\ Loads(d) /\ call'[d] = call[d]
      /\ \A d \in Client : Loads(d) /\ d # c => call'[d] = call[d]
  BY <1>4, RecordTypes DEF Loads
<1>6. \A d \in Client : Loads(d) /\ d # c => call[d].frame \in Frame \ {f} /\ call[d].page \in Page
  BY <1>1, <1>2, LoadFrame
<1>7. /\ call[c].op = "fetch" => table[p] = f
      /\ call[c].op = "new" => /\ table[p] = NoFrame /\ p < numPages
                               /\ \A q \in Page : table[q] # f
                               /\ \A g \in Frame : pageId[g] = p => g = f
      /\ \A d \in Client : Loads(d) /\ call[d].op = "new" /\ d # c => call[d].page # p
  BY <1>1, <1>2 DEF Sound, FetchMapped, NewUnknown
<1>8. /\ \A q \in Page : table'[q] = IF q = p THEN f ELSE table[q]
      /\ \A g \in Frame \ {f} : loading'[g] = loading[g]
      /\ \A q \in Page \ {p} : table[q] # f
      /\ table[p] = f \/ table[p] = NoFrame
  <2>1. table \in [Page -> Frame \cup {NoFrame}] /\ loading \in [Frame -> BOOLEAN]
    BY DEF TypeInv, TypeOK
  <2>2. \A q \in Page \ {p} : table[q] # f
    BY <1>2, <1>7, Constants DEF Sound, TableInjective
  <2>3. QED
    BY <1>0, <1>1, <1>2, <1>7, <2>1, <2>2
<1>9. \A g \in Frame : Stale(g)' <=> Stale(g)
  BY <1>0, <1>4, <1>5, RecordTypes, ZenonT(60) DEF Stale, Loads
<1>10. LoadersApart'
  BY <1>3, <1>5 DEF Sound, LoadersApart, Listed
<1>11. FetchMapped'
  <2>1. \A d \in Client : Loads(d) /\ call[d].op = "fetch" /\ d # c =>
            /\ table'[call[d].page] = call[d].frame
            /\ call[d].at \in {"write", "reset"} => loading'[call[d].frame]
    <3>1. SUFFICES ASSUME NEW d \in Client, Loads(d), call[d].op = "fetch", d # c
                   PROVE  /\ table'[call[d].page] = call[d].frame
                          /\ call[d].at \in {"write", "reset"} => loading'[call[d].frame]
      OBVIOUS
    <3>2. /\ table[call[d].page] = call[d].frame
          /\ call[d].at \in {"write", "reset"} => loading[call[d].frame]
          /\ call[d].frame \in Frame \ {f} /\ call[d].page \in Page
      BY <1>6, <3>1 DEF Sound, FetchMapped
    <3>3. call[d].page # p
      BY <1>8, <3>2, Constants
    <3>4. QED
      BY <1>8, <3>2, <3>3
  <2>2. QED
    BY <1>5, <2>1 DEF FetchMapped
<1>12. NewUnknown'
  <2>1. SUFFICES ASSUME NEW d \in Client, Loads(d), call[d].op = "new", d # c
                 PROVE  /\ table'[call[d].page] = NoFrame /\ call[d].page < numPages
                        /\ latest[call[d].page] = Zeros /\ disk[call[d].page] = Zeros
                        /\ \A q \in Page : table'[q] # call[d].frame
                        /\ \A e \in Client : Loads(e) /\ call[e].page = call[d].page => d = e
                        /\ \A g \in Frame : pageId[g] = call[d].page =>
                              call[d].at = "publish" /\ g = call[d].frame
    BY <1>3, <1>5 DEF NewUnknown
  <2>2. /\ table[call[d].page] = NoFrame /\ \A q \in Page : table[q] # call[d].frame
    BY <2>1 DEF Sound, NewUnknown
  <2>3. /\ table'[call[d].page] = NoFrame /\ \A q \in Page : table'[q] # call[d].frame
    BY <1>6, <1>7, <1>8, <2>1, <2>2
  <2>4. QED
    BY <2>1, <2>3 DEF Sound, NewUnknown
<1>13. Stages'
  <2>1. SUFFICES ASSUME NEW d \in Client, Loads(d), call'[d] = call[d], d # c
                 PROVE  /\ call[d].at \in {"write", "reset"} =>
                             \A q \in Page : pageId[call[d].frame] = q => table'[q] # call[d].frame
                        /\ call[d].at = "reset" /\ dirty[call[d].frame] =>
                             disk[pageId[call[d].frame]] = latest[pageId[call[d].frame]]
                        /\ call[d].at = "fill" =>
                             pageId[call[d].frame] = NoPage /\ data[call[d].frame] = Zeros
                        /\ call[d].at = "publish" => pageId[call[d].frame] = call[d].page
    BY <1>3, <1>5 DEF Stages, Loads
  <2>2. \A q \in Page : table'[q] = call[d].frame => table[q] = call[d].frame
    BY <1>6, <1>8, <2>1
  <2>3. QED
    BY <2>1, <2>2 DEF Sound, Stages
<1>14. TableSound'
  <2>1. SUFFICES ASSUME NEW q \in Page, table'[q] # NoFrame
                 PROVE  \/ pageId[table'[q]] = q
                        \/ \E d \in Client : /\ call'[d].at \in {"write", "reset", "fill"}
                                             /\ call'[d].frame = table'[q] /\ call'[d].page = q
                        \/ q \in MissingPages /\ pageId[table'[q]] = NoPage
    BY <1>3 DEF TableSound
  <2>2. \A d \in Client : call[d].at \in {"write", "reset", "fill"} => call'[d] = call[d]
    BY <1>0, <1>5 DEF Loads
  <2>3. QED
    BY <1>2, <1>8, <2>1, <2>2 DEF Sound, TableSound
<1>15. TableInjective'
  BY <1>8 DEF Sound, TableInjective
<1>16. ListedMapping'
  BY <1>2, <1>3, <1>8 DEF Sound, ListedMapping
<1>17. FramesMapped'
  <2>1. SUFFICES ASSUME NEW g \in Frame, pageId[g] # NoPage, ~Stale(g), g # f
                 PROVE  \/ table'[pageId[g]] = g
                        \/ \E d \in Client : call'[d].at = "publish" /\ call'[d].frame = g
    BY <1>2, <1>3, <1>8, <1>9 DEF FramesMapped
  <2>2. pageId[g] \in Page
    BY <2>1 DEF TypeInv, TypeOK
  <2>3. \/ table[pageId[g]] = g
        \/ \E d \in Client : call[d].at = "publish" /\ call[d].frame = g
    BY <2>1 DEF Sound, FramesMapped
  <2>4. table[pageId[g]] = g => table'[pageId[g]] = g
    BY <1>8, <2>1, <2>2, Constants
  <2>5. \A d \in Client : call[d].at = "publish" /\ call[d].frame = g => call'[d] = call[d]
    BY <1>1, <1>5, <2>1 DEF Loads
  <2>6. QED
    BY <2>3, <2>4, <2>5
<1>18. LiveIsLatest' /\ LiveApart' /\ DirtyHasPage'
  BY <1>3, <1>9 DEF Sound, LiveIsLatest, LiveApart, DirtyHasPage, Live
<1>19. DiskOrFrame'
  <2>1. \A d \in Client : hold[d].wrote => hold'[d] = hold[d]
    BY <1>2, <1>4, RecordTypes
  <2>2. QED
    BY <1>3, <2>1 DEF Sound, DiskOrFrame
<1>20. HoldsMapped'
  <2>1. SUFFICES ASSUME NEW d \in Client, hold'[d] # NoHold
                 PROVE  /\ table'[hold'[d].page] = hold'[d].frame /\ hold'[d].frame \in Frame
                        /\ ~Listed(hold'[d].frame) /\ ~Stale(hold'[d].frame)
    <3>1. ASSUME NEW d \in Client, hold'[d] # NoHold,
                 /\ table'[hold'[d].page] = hold'[d].frame /\ hold'[d].frame \in Frame
                 /\ ~Listed(hold'[d].frame) /\ ~Stale(hold'[d].frame)
          PROVE  /\ table'[hold'[d].page] = hold'[d].frame
                 /\ ~Listed(hold[d].frame)' /\ ~Stale(hold[d].frame)'
      BY <1>3, <1>9, <3>1 DEF Listed, Stale
    <3>2. QED
      BY <3>1 DEF HoldsMapped
  <2>2. CASE d = c
    BY <1>2, <1>4, <1>8, <2>2
  <2>3. CASE d # c
    <3>1. hold'[d] = hold[d] /\ hold[d] # NoHold
      BY <1>4, <2>1, <2>3
    <3>2. /\ hold[d].page \in Page /\ hold[d].frame \in Frame
          /\ table[hold[d].page] = hold[d].frame
          /\ ~Listed(hold[d].frame) /\ ~Stale(hold[d].frame)
      BY <3>1, HeldFrame
    <3>3. table'[hold[d].page] = hold[d].frame
      BY <1>8, <3>2, Constants
    <3>4. QED
      BY <3>1, <3>2, <3>3
  <2>4. QED
    BY <2>2, <2>3
<1>21. UnpinsOwn'
  <2>1. SUFFICES ASSUME NEW d \in Client, call'[d].op = "unpin", call'[d].at # "release"
                 PROVE  /\ hold'[d] # NoHold /\ call'[d].page = hold'[d].page
                        /\ call'[d].frame = hold'[d].frame
    BY DEF UnpinsOwn
  <2>2. d # c /\ call[d].op = "unpin" /\ call[d].at # "release"
    BY <1>4, <2>1, RecordTypes
  <2>3. QED
    BY <1>4, <2>2 DEF Sound, UnpinsOwn
<1>22. PinsCover'
  <2>1. ASSUME NEW g \in Frame PROVE Users(g)' = Users(g)
    <3>1. ASSUME NEW d \in Client
          PROVE  (hold'[d].frame = g \/ (call'[d].at = "publish" /\ call'[d].frame = g))
                   <=> (hold[d].frame = g \/ (call[d].at = "publish" /\ call[d].frame = g))
      <4>1. CASE d = c
        BY <1>0, <1>1, <1>2, <1>4, <4>1, RecordTypes, Constants, ZenonT(60)
      <4>2. CASE d # c
        BY <1>4, <4>2
      <4>3. QED
        BY <4>1, <4>2
    <3>2. QED
      BY <3>1 DEF Users
  <2>2. QED
    BY <1>3, <2>1 DEF Sound, PinsCover
<1>23. OnlyExisting'
  <2>1. Exists(p)
    BY <1>1, <1>2, <1>7 DEF Sound, OnlyExisting, Exists
  <2>2. QED
    BY <1>3, <1>4, <1>8, <2>1, RecordTypes, ZenonT(60) DEF Sound, OnlyExisting, Exists
<1>24. QED
  BY <1>10, <1>11, <1>12, <1>13, <1>14, <1>15, <1>16, <1>17, <1>18, <1>19, <1>20, <1>21,
     <1>22, <1>23 DEF Sound

\* A process that has just started has nothing in its frames.
LEMMA StartedSound == Started /\ FileInv => Sound
<1> SUFFICES ASSUME Started, FileInv PROVE Sound
  OBVIOUS
<1>1. /\ \A f \in Frame : pageId[f] = NoPage /\ pinCount[f] = 0 /\ ~dirty[f]
      /\ \A p \in Page : table[p] = NoFrame
      /\ \A c \in Client : call[c] = Idle /\ hold[c] = NoHold
      /\ latest = disk
  BY DEF Started
<1>2. \A c \in Client : ~Loads(c)
  BY <1>1, RecordTypes DEF Loads
<1>3. LoadersApart /\ FetchMapped /\ NewUnknown /\ Stages
  BY <1>2 DEF LoadersApart, FetchMapped, NewUnknown, Stages, Loads
<1>4. TableSound /\ TableInjective /\ ListedMapping /\ FramesMapped
  BY <1>1, Constants DEF TableSound, TableInjective, ListedMapping, FramesMapped
<1>5. LiveIsLatest /\ LiveApart /\ DirtyHasPage /\ DiskOrFrame
  BY <1>1 DEF LiveIsLatest, LiveApart, DirtyHasPage, DiskOrFrame, Live
<1>6. HoldsMapped /\ UnpinsOwn
  BY <1>1, RecordTypes DEF HoldsMapped, UnpinsOwn
<1>7. PinsCover
  <2>1. \A f \in Frame : Users(f) = {}
    BY <1>1, RecordTypes, Constants DEF Users
  <2>2. QED
    BY <1>1, <2>1, FS_EmptySet DEF PinsCover
<1>8. OnlyExisting
  BY <1>1, RecordTypes DEF OnlyExisting, FileInv, FileEnd
<1>9. QED
  BY <1>3, <1>4, <1>5, <1>6, <1>7, <1>8 DEF Sound

LEMMA SoundStep ==
    ASSUME TypeInv, TypeInv', FileInv, Sound, Next, ~CrashAndReopen, ~raced'
    PROVE  Sound'
<1>1. ASSUME NEW c \in Client, CallStep(c) PROVE Sound'
  BY <1>1, SleepAgainSound, WriteBackSound, ResetFrameSound, FillSound, FillThrowsSound,
     PublishSound, UnpinSound, ReleaseSound, FlushWriteSound, ScanSound DEF CallStep
<1>2. ASSUME NEW c \in Client, NEW p \in Page, NEW f \in Frame, Lookup(c, p, f)
      PROVE  Sound'
  BY <1>2, FetchHitSound, FoundSound DEF Lookup
<1>3. ASSUME NEW c \in Client, StartCall(c) PROVE Sound'
  BY <1>3, SleepSound, FetchMissSound, UnpinNotFoundSound, NewPageSound,
     FlushAllPagesSound, WriteSound DEF StartCall
<1>4. QED
  BY <1>1, <1>2, <1>3 DEF Next

-----------------------------------------------------------------------------
(***************************************************************************)
(* One thread.                                                             *)
(***************************************************************************)

\* One call at a time, none of which can race.
OneThread ==
    /\ ~raced
    /\ \A c, d \in Client : call[c] # Idle /\ call[d] # Idle => c = d
    /\ \A c \in Client : call[c].at \in {"asleep", "awake", "force"} =>
          table[call[c].page] = call[c].frame
    /\ \A c \in Client : call[c].at = "release" =>
          pinCount[call[c].frame] = 0 /\ pageId[call[c].frame] # NoPage

Alone == ~Concurrent => OneThread

LEMMA OneCall ==
    ASSUME NEW c \in Client, ~raced', \A d \in Client \ {c} : call'[d] = Idle,
           call'[c].at \in {"asleep", "awake", "force"} =>
               table'[call'[c].page] = call'[c].frame,
           call'[c].at = "release" =>
               pinCount'[call'[c].frame] = 0 /\ pageId'[call'[c].frame] # NoPage
    PROVE  OneThread'
  BY RecordTypes DEF OneThread

\* While a client is in a call, or may begin one, the others are in none.
LEMMA OthersIdle ==
    ASSUME ~Concurrent, OneThread, NEW c \in Client, call[c].at # "" \/ MayCall(c)
    PROVE  \A d \in Client \ {c} : call[d] = Idle
  BY RecordTypes DEF OneThread, MayCall

LEMMA OneThreadCallStep ==
    ASSUME TypeInv, TypeInv', FileInv, Sound, ~Concurrent, OneThread,
           NEW c \in Client, CallStep(c)
    PROVE  OneThread'
<1>0. ~raced /\ call \in [Client -> CallRecord]
  BY DEF OneThread, TypeInv, TypeOK
<1>1. CASE SleepAgain(c)
  <2>1. /\ call[c].at = "awake" /\ call' = [call EXCEPT ![c] = [call[c] EXCEPT !.at = "asleep"]]
        /\ UNCHANGED <<table, raced>>
    BY <1>0, <1>1 DEF SleepAgain, poolVars, history
  <2>2. /\ call'[c].at = "asleep" /\ call'[c].page = call[c].page /\ call'[c].frame = call[c].frame
        /\ \A d \in Client \ {c} : call'[d] = call[d]
    BY <1>0, <2>1 DEF CallRecord
  <2>3. \A d \in Client \ {c} : call'[d] = Idle
    BY <2>1, <2>2, OthersIdle
  <2>4. table'[call'[c].page] = call'[c].frame
    BY <2>1, <2>2 DEF OneThread
  <2>5. ~raced' /\ call'[c].at # "release"
    BY <1>0, <2>1, <2>2
  <2>6. QED
    BY <2>3, <2>4, <2>5, OneCall
<1>2. CASE WriteBack(c) \/ ResetFrame(c) \/ Fill(c)
  <2>1. PICK a \in {"reset", "fill", "publish"} : call' = [call EXCEPT ![c].at = a]
    BY <1>2 DEF WriteBack, ResetFrame, Fill
  <2>2. Loads(c) /\ call[c].at # "" /\ call[c].at # "scan" /\ UNCHANGED hold
    BY <1>2 DEF WriteBack, ResetFrame, Fill, Loads
  <2>3. call'[c].at = a /\ \A d \in Client \ {c} : call'[d] = call[d]
    BY <1>0, <2>1 DEF CallRecord
  <2>4. \A d \in Client \ {c} : call[d] = Idle
    BY <2>2, OthersIdle
  <2>5. ~raced'
    <3>1. CASE WriteBack(c) \/ ResetFrame(c)
      BY <1>0, <3>1 DEF WriteBack, ResetFrame, history
    <3>2. CASE Fill(c)
      <4>1. SUFFICES ASSUME NEW g \in Frame, pageId[g] = call[c].page, dirty[g] PROVE FALSE
        BY <1>0, <3>2 DEF Fill, Outdated
      <4>2. /\ call[c].at = "fill" /\ call[c].page \in Page /\ call[c].frame \in Frame
            /\ call[c].op \in {"fetch", "new"}
        BY <2>2, <3>2, LoadFrame DEF Fill
      <4>3. pageId[call[c].frame] = NoPage /\ g # call[c].frame
        BY <4>1, <4>2, Constants DEF Sound, Stages
      <4>4. ~Stale(g) /\ ~\E d \in Client : call[d].at = "publish" /\ call[d].frame = g
        BY <2>4, <4>2, RecordTypes DEF Stale
      <4>5. table[call[c].page] = g
        BY <4>1, <4>2, <4>4, Constants DEF Sound, FramesMapped
      <4>6. QED
        BY <2>2, <4>1, <4>2, <4>3, <4>5, Constants DEF Sound, FetchMapped, NewUnknown
    <3>3. QED
      BY <1>2, <3>1, <3>2
  <2>6. QED
    BY <2>3, <2>4, <2>5, OneCall
<1>3. CASE FillThrows(c) \/ Publish(c)
  <2>1. call[c].at # "" /\ ~raced'
    <3>1. CASE FillThrows(c)
      BY <1>0, <3>1 DEF FillThrows, history
    <3>2. CASE Publish(c)
      BY <1>0, <3>2 DEF Publish, history
    <3>3. QED
      BY <1>3, <3>1, <3>2
  <2>2. \A d \in Client \ {c} : call[d] = Idle
    BY <2>1, OthersIdle
  <2>3. CASE FillThrows(c)
    <3>1. call'[c] = Idle /\ \A d \in Client \ {c} : call'[d] = call[d]
      BY <1>0, <2>3 DEF FillThrows
    <3>2. QED
      BY <2>1, <2>2, <3>1, RecordTypes, OneCall
  <2>4. CASE Publish(c)
    <3>1. call'[c] = Idle /\ \A d \in Client \ {c} : call'[d] = call[d] \/ call[d].at = "asleep"
      BY <2>4, PublishCalls
    <3>2. QED
      BY <2>1, <2>2, <3>1, RecordTypes, OneCall
  <2>5. QED
    BY <1>3, <2>3, <2>4
<1>4. CASE Unpin(c)
  <2>1. /\ call[c].at = "count" /\ UNCHANGED <<pageId, raced>>
        /\ \/ pageId[call[c].frame] # call[c].page
           \/ pinCount' = [pinCount EXCEPT ![call[c].frame] = IF @ > 0 THEN @ - 1 ELSE 0]
    BY <1>4 DEF Unpin, history
  <2>2. call[c].frame \in Frame /\ call[c].page \in Page
    BY <2>1, Typed DEF CallFormed
  <2>3. /\ call'[c] = Idle \/ (/\ call'[c].at = "release"
                               /\ call'[c].frame = call[c].frame
                               /\ pageId[call[c].frame] = call[c].page
                               /\ pinCount[call[c].frame] = 1)
        /\ \A d \in Client \ {c} : call'[d] = call[d]
    BY <1>4, UnpinCalls
  <2>4. call'[c].at = "release" =>
            pinCount'[call'[c].frame] = 0 /\ pageId'[call'[c].frame] # NoPage
    <3>1. SUFFICES ASSUME call'[c].at = "release"
                   PROVE  pinCount'[call'[c].frame] = 0 /\ pageId'[call'[c].frame] # NoPage
      OBVIOUS
    <3>2. /\ call'[c].frame = call[c].frame /\ pageId[call[c].frame] = call[c].page
          /\ pinCount[call[c].frame] = 1
      BY <2>3, <3>1, RecordTypes
    <3>3. pinCount'[call[c].frame] = 0
      BY <2>1, <2>2, <3>2 DEF TypeInv, TypeOK
    <3>4. QED
      BY <2>1, <2>2, <3>2, <3>3, Constants
  <2>5. call'[c].at \notin {"asleep", "awake", "force"}
    BY <2>3, RecordTypes
  <2>6. QED
    BY <1>0, <2>1, <2>3, <2>4, <2>5, OthersIdle, OneCall
<1>5. CASE Release(c) \/ FlushWrite(c)
  <2>1. /\ call[c].at # "" /\ call'[c] = Idle /\ \A d \in Client \ {c} : call'[d] = call[d]
    BY <1>0, <1>5 DEF Release, FlushWrite
  <2>2. \A d \in Client \ {c} : call[d] = Idle
    BY <2>1, OthersIdle
  <2>3. CASE Release(c)
    <3>1. call[c].at = "release" /\ raced' = (raced \/ InUse(call[c].frame))
      BY <2>3 DEF Release
    <3>2. pinCount[call[c].frame] = 0 /\ pageId[call[c].frame] # NoPage
      BY <3>1 DEF OneThread
    <3>3. ~InUse(call[c].frame)
      <4>1. \A d \in Client : call[d].at \notin {"write", "reset", "fill", "publish"}
        BY <2>2, <3>1, RecordTypes
      <4>2. ~(pinCount[call[c].frame] > 0)
        BY <3>2
      <4>3. QED
        BY <3>2, <4>1, <4>2 DEF InUse
    <3>4. QED
      BY <1>0, <2>1, <2>2, <3>1, <3>3, RecordTypes, OneCall
  <2>4. CASE FlushWrite(c)
    <3>1. /\ call[c].at = "force"
          /\ raced' = (raced \/ (/\ pageId[call[c].frame] = call[c].page
                                 /\ table[pageId[call[c].frame]] # call[c].frame))
      BY <2>4 DEF FlushWrite
    <3>2. table[call[c].page] = call[c].frame
      BY <3>1 DEF OneThread
    <3>3. QED
      BY <1>0, <2>1, <2>2, <3>1, <3>2, RecordTypes, OneCall
  <2>5. QED
    BY <1>5, <2>3, <2>4
<1>6. ASSUME NEW f \in Frame, Scan(c, f) PROVE OneThread'
  <2>1. /\ call'[c] = Idle \/ call'[c].at = "scan"
        /\ \A d \in Client \ {c} : call'[d] = call[d]
    BY <1>6, ScanCalls
  <2>2. call[c].at # "" /\ ~raced'
    BY <1>0, <1>6 DEF Scan, history
  <2>3. QED
    BY <2>1, <2>2, RecordTypes, OthersIdle, OneCall
<1>7. QED
  BY <1>1, <1>2, <1>3, <1>4, <1>5, <1>6 DEF CallStep

LEMMA OneThreadLookup ==
    ASSUME TypeInv, ~Concurrent, OneThread,
           NEW c \in Client, NEW p \in Page, NEW f \in Frame, Lookup(c, p, f)
    PROVE  OneThread'
<1>1. PICK op \in {"fetch", "unpin", "flush"} : Ready(c, op, p, f)
  BY DEF Lookup, FetchHit, UnpinFound, FlushFound
<1>2. table[p] = f /\ (call[c].at # "" \/ MayCall(c))
  <2>1. CASE MayCall(c) /\ MayAsk(c, op, p) /\ table[p] = f
    BY <2>1
  <2>2. CASE \E at \in {"asleep", "awake"} : call[c] = Calling(op, at, p, f)
    <3>1. call[c].at \in {"asleep", "awake"} /\ call[c].page = p /\ call[c].frame = f
      BY <2>2 DEF Calling
    <3>2. QED
      BY <3>1 DEF OneThread
  <2>3. QED
    BY <1>1, <2>1, <2>2 DEF Ready
<1>3. \A d \in Client \ {c} : call[d] = Idle
  BY <1>2, OthersIdle
<1>4. ~raced' /\ table' = table
  <2>1. CASE FetchHit(c, p, f)
    BY <1>2, <2>1 DEF FetchHit, OneThread
  <2>2. CASE UnpinFound(c, p, f)
    BY <2>2 DEF UnpinFound, OneThread, poolVars, history
  <2>3. CASE FlushFound(c, p, f)
    BY <2>3 DEF FlushFound, OneThread, poolVars, history
  <2>4. QED
    BY <2>1, <2>2, <2>3 DEF Lookup
<1>5. PICK r \in {Idle, Calling("unpin", "count", p, f), Calling("flush", "force", p, f)} :
          call' = [call EXCEPT ![c] = r]
  BY DEF Lookup, FetchHit, UnpinFound, FlushFound
<1>6. /\ r.at \in {"", "count", "force"}
      /\ r.at = "force" => r.page = p /\ r.frame = f
  <2>1. /\ Idle.at = "" /\ Calling("unpin", "count", p, f).at = "count"
        /\ Calling("flush", "force", p, f).at = "force"
        /\ Calling("flush", "force", p, f).page = p /\ Calling("flush", "force", p, f).frame = f
    BY DEF Calling, Idle
  <2>2. r = Idle \/ r = Calling("unpin", "count", p, f) \/ r = Calling("flush", "force", p, f)
    OBVIOUS
  <2>3. QED
    BY <2>1, <2>2
<1>7. call'[c] = r /\ \A d \in Client \ {c} : call'[d] = call[d]
  BY <1>5 DEF TypeInv, TypeOK
<1>8. QED
  BY <1>2, <1>3, <1>4, <1>6, <1>7, OneCall

LEMMA OneThreadStartCall ==
    ASSUME TypeInv, ~Concurrent, OneThread, NEW c \in Client, StartCall(c)
    PROVE  OneThread'
<1>1. MayCall(c) /\ ~raced' /\ call[c] = Idle
  BY DEF StartCall, Sleep, FetchMiss, UnpinNotFound, NewPage, FlushAllPages, Write, MayCall,
         history, OneThread
<1>2. \A d \in Client \ {c} : call[d] = Idle
  BY <1>1, OthersIdle
<1>3. ASSUME NEW p \in Page, NEW op \in {"fetch", "unpin", "flush"}, Sleep(c, op, p)
      PROVE  OneThread'
  <2>1. call' = [call EXCEPT ![c] = Calling(op, "asleep", p, table[p])] /\ table' = table
    BY <1>3 DEF Sleep, poolVars
  <2>2. /\ Calling(op, "asleep", p, table[p]).page = p
        /\ Calling(op, "asleep", p, table[p]).frame = table[p]
        /\ Calling(op, "asleep", p, table[p]).at = "asleep"
    BY DEF Calling
  <2>3. /\ call'[c] = Calling(op, "asleep", p, table[p])
        /\ \A d \in Client \ {c} : call'[d] = call[d]
    BY <2>1 DEF TypeInv, TypeOK
  <2>4. QED
    BY <1>1, <1>2, <2>1, <2>2, <2>3, OneCall
<1>4. ASSUME NEW r, call' = [call EXCEPT ![c] = r], r.at \in {"", "write", "scan"}
      PROVE  OneThread'
  <2>1. call'[c] = r /\ \A d \in Client \ {c} : call'[d] = call[d]
    BY <1>4 DEF TypeInv, TypeOK
  <2>2. QED
    BY <1>1, <1>2, <1>4, <2>1, OneCall
<1>5. ASSUME NEW p \in Page, FetchMiss(c, p) PROVE OneThread'
  <2>1. Calling("fetch", "write", p, TheFrame).at = "write"
    BY DEF Calling
  <2>2. QED
    BY <1>4, <1>5, <2>1 DEF FetchMiss
<1>6. CASE NewPage(c)
  <2>1. Calling("new", "write", NextPageId, TheFrame).at = "write"
    BY DEF Calling
  <2>2. QED
    BY <1>4, <1>6, <2>1 DEF NewPage
<1>7. CASE FlushAllPages(c)
  <2>1. [Calling("flushAll", "scan", NoPage, NoFrame) EXCEPT !.todo = MappedFrames].at = "scan"
    BY DEF Calling
  <2>2. QED
    BY <1>4, <1>7, <2>1 DEF FlushAllPages
<1>8. CASE UnpinNotFound(c) \/ Write(c)
  <2>1. call' = [call EXCEPT ![c] = Idle]
    BY <1>1, <1>8 DEF UnpinNotFound, Write, TypeInv, TypeOK
  <2>2. QED
    BY <1>4, <2>1, RecordTypes
<1>9. QED
  BY <1>3, <1>5, <1>6, <1>7, <1>8 DEF StartCall

-----------------------------------------------------------------------------
(***************************************************************************)
(* The inductive invariant, and what it gives.                             *)
(***************************************************************************)

Inv == TypeInv /\ FileInv /\ (~raced => Sound) /\ Alone

LEMMA StartedAlone == Started => Alone
  BY RecordTypes DEF Started, Alone, OneThread

LEMMA InitInv == Init => Inv
  BY InitStarted, InitFile, StartedTyped, StartedSound, StartedAlone DEF Inv

LEMMA InvStep ==
    ASSUME Inv, [Next]_vars
    PROVE  Inv'
<1>1. TypeInv' /\ FileInv'
  BY TypeStep, FileStep DEF Inv
<1>2. CASE UNCHANGED vars
  <2>1. Sound => Sound'
    BY <1>2, SMTT(20) DEF vars, frameVars, poolVars, diskVars, history, Sound, LoadersApart, FetchMapped,
       NewUnknown, Stages, TableSound, TableInjective, ListedMapping, FramesMapped, LiveIsLatest,
       LiveApart, DirtyHasPage, DiskOrFrame, HoldsMapped, UnpinsOwn, PinsCover, OnlyExisting,
       Loads, Listed, Stale, Live, Users, Exists
  <2>2. Alone => Alone'
    BY <1>2 DEF vars, frameVars, poolVars, history, Alone, OneThread
  <2>3. raced' = raced
    BY <1>2 DEF vars, history
  <2>4. QED
    BY <1>1, <2>1, <2>2, <2>3 DEF Inv
<1>3. CASE CrashAndReopen
  <2>1. Started'
    BY <1>3, CrashStarted DEF Inv
  <2>2. Sound' /\ Alone'
    BY <1>1, <2>1, StartedSound, StartedAlone, PTL
  <2>3. QED
    BY <1>1, <2>2 DEF Inv
<1>4. CASE Next /\ ~CrashAndReopen
  <2>1. raced => raced'
    BY <1>4, ZenonT(60) DEF Next, CallStep, Lookup, StartCall, SleepAgain, WriteBack, ResetFrame, Fill,
       FillThrows, Publish, Unpin, Release, FlushWrite, Scan, FetchHit, UnpinFound, FlushFound,
       Sleep, FetchMiss, UnpinNotFound, NewPage, FlushAllPages, Write, history
  <2>2. ~raced' => Sound'
    BY <1>1, <1>4, <2>1, SoundStep DEF Inv
  <2>3. Alone'
    <3>1. SUFFICES ASSUME ~Concurrent PROVE OneThread'
      BY DEF Alone
    <3>2. OneThread /\ Sound
      BY <3>1 DEF Inv, Alone, OneThread
    <3>3. QED
      BY <1>1, <1>4, <3>1, <3>2, OneThreadCallStep, OneThreadLookup, OneThreadStartCall
         DEF Inv, Next
  <2>4. QED
    BY <1>1, <2>2, <2>3 DEF Inv
<1>5. QED
  BY <1>2, <1>3, <1>4

\* A client that has a page, with no load in its frame, sees the page as it was
\* last written, in a frame that is not taken from it.
LEMMA InvSafe == Inv => FetchedIsLatest /\ (~raced => PinnedNotEvicted)
<1> SUFFICES ASSUME Inv PROVE FetchedIsLatest /\ (~raced => PinnedNotEvicted)
  OBVIOUS
<1>1. ~Concurrent => ~raced
  BY DEF Inv, Alone, OneThread
<1>2. ASSUME ~raced, NEW c \in Client, hold[c].page \in Page \ MissingPages,
             Unlatched(hold[c].frame)
      PROVE  /\ pageId[hold[c].frame] = hold[c].page
             /\ data[hold[c].frame] = latest[hold[c].page]
  <2>1. TypeInv /\ FileInv /\ Sound
    BY <1>2 DEF Inv
  <2>2. hold[c] # NoHold
    BY <1>2, RecordTypes, Constants
  <2>3. hold[c].frame \in Frame /\ pageId[hold[c].frame] = hold[c].page /\ Live(hold[c].frame)
    BY <1>2, <2>1, <2>2, HeldFrame, HeldContent
  <2>4. QED
    BY <2>1, <2>3 DEF Sound, LiveIsLatest
<1>3. ASSUME ~raced, NEW c \in Client, NEW d \in Client, call[c].at = "write", hold[d] # NoHold
      PROVE  call[c].frame # hold[d].frame
  <2>1. ~Stale(hold[d].frame)
    BY <1>3, HeldFrame DEF Inv
  <2>2. QED
    BY <1>3, <2>1 DEF Stale
<1>4. QED
  BY <1>1, <1>2, <1>3 DEF FetchedIsLatest, PinnedNotEvicted

\* A client that has a page finds it in its frame as it was last written:
\* always with one thread, and with several until they race (FetchedIsLatest in
\* BufferPool; page.h:107-109).
THEOREM FetchedAlwaysLatest == Spec => []FetchedIsLatest
<1>1. Inv /\ [Next]_vars => Inv'
  BY InvStep
<1>2. QED
  BY InitInv, <1>1, InvSafe, PTL DEF Spec

\* A page that is pinned is evicted only after a race, and so never when there
\* is one thread (PinnedNotEvicted in BufferPool, which several threads violate).
THEOREM PinnedUntilRaced == Spec => [](~raced => PinnedNotEvicted)
<1>1. Inv /\ [Next]_vars => Inv'
  BY InvStep
<1>2. QED
  BY InitInv, <1>1, InvSafe, PTL DEF Spec

-----------------------------------------------------------------------------
(***************************************************************************)
(* One thread: a page is in one frame, and the pool is a set of pages.     *)
(***************************************************************************)

Solo == ~Concurrent /\ TypeInv /\ FileInv /\ Sound /\ OneThread

\* The page of a frame that is being taken is nowhere else, and on disk if clean.
OneCopy ==
    \A c \in Client : call[c].at \in {"write", "reset"} /\ pageId[call[c].frame] # NoPage =>
        /\ table[pageId[call[c].frame]] = NoFrame
        /\ ~dirty[call[c].frame] => data[call[c].frame] = disk[pageId[call[c].frame]]

LEMMA InvSolo == Inv /\ ~Concurrent => Solo
  BY DEF Inv, Alone, Solo, OneThread

LEMMA OnlyOneInCall ==
    ASSUME Solo, NEW c \in Client, NEW d \in Client, call[c].at # "", call[d].at # ""
    PROVE  c = d
  BY RecordTypes DEF Solo, OneThread

LEMMA FrameUnique ==
    ASSUME Solo, OneCopy, NEW f \in Frame, NEW g \in Frame,
           pageId[f] # NoPage, pageId[g] = pageId[f]
    PROVE  f = g
<1>1. ASSUME NEW h \in Frame, NEW k \in Frame, pageId[h] # NoPage, pageId[k] = pageId[h],
             Stale(h), h # k
      PROVE  FALSE
  <2>1. PICK c \in Client : call[c].at \in {"write", "reset"} /\ call[c].frame = h
    BY <1>1 DEF Stale
  <2>2. table[pageId[h]] = NoFrame
    BY <1>1, <2>1 DEF OneCopy
  <2>3. \A d \in Client : call[d].at # "" => d = c
    BY <2>1, OnlyOneInCall
  <2>4. ~Stale(k) /\ ~\E d \in Client : call[d].at = "publish" /\ call[d].frame = k
    BY <1>1, <2>1, <2>3 DEF Stale
  <2>5. table[pageId[k]] = k
    BY <1>1, <2>4 DEF Solo, Sound, FramesMapped
  <2>6. QED
    BY <1>1, <2>2, <2>5, Constants
<1>2. CASE Stale(f) \/ Stale(g)
  BY <1>1, <1>2
<1>3. CASE ~Stale(f) /\ ~Stale(g)
  BY <1>3 DEF Solo, Sound, LiveApart, Live
<1>4. QED
  BY <1>2, <1>3

\* A frame has its page as it was last written, and so has the disk if the frame
\* is clean and who has the page has not written to it.
LEMMA FrameLatest ==
    ASSUME Solo, OneCopy, NEW f \in Frame, pageId[f] # NoPage
    PROVE  /\ pageId[f] \in Page \ MissingPages
           /\ data[f] = latest[pageId[f]]
           /\ ~dirty[f] /\ (\A c \in Holders(f) : ~hold[c].wrote) => data[f] = disk[pageId[f]]
<1>1. pageId[f] \in Page \ MissingPages
  <2>1. pageId[f] \in Page /\ pageId[f] < numPages /\ numPages \in Int
    BY DEF Solo, TypeInv, TypeOK, FileInv
  <2>2. \A p \in MissingPages : p \in Int /\ numPages <= p
    BY Constants DEF Solo, FileInv, FileEnd
  <2>3. Page \subseteq Int
    BY Constants
  <2>4. QED
    BY <2>1, <2>2, <2>3
<1>2. ASSUME ~dirty[f], \A c \in Holders(f) : ~hold[c].wrote
      PROVE  disk[pageId[f]] = latest[pageId[f]]
  <2>1. ~\E g \in Frame : pageId[g] = pageId[f] /\ dirty[g]
    BY <1>2, FrameUnique
  <2>2. ASSUME NEW c \in Client, hold[c].page = pageId[f], hold[c].wrote,
               pageId[hold[c].frame] = pageId[f]
        PROVE  FALSE
    <3>1. hold[c] # NoHold
      BY <2>2, RecordTypes
    <3>2. hold[c].frame \in Frame
      BY <3>1, HeldFrame DEF Solo
    <3>3. hold[c].frame = f
      BY <2>2, <3>2, FrameUnique
    <3>4. QED
      BY <1>2, <2>2, <3>3 DEF Holders
  <2>3. QED
    BY <1>1, <2>1, <2>2 DEF Solo, Sound, DiskOrFrame
<1>3. data[f] = latest[pageId[f]]
  <2>1. CASE Live(f)
    BY <2>1 DEF Solo, Sound, LiveIsLatest
  <2>2. CASE ~Live(f)
    <3>1. ~dirty[f] /\ Stale(f)
      BY <2>2 DEF Live
    <3>2. data[f] = disk[pageId[f]]
      BY <3>1 DEF Stale, OneCopy
    <3>3. \A c \in Holders(f) : FALSE
      BY <3>1, HeldFrame, RecordTypes, Constants DEF Solo, Holders
    <3>4. QED
      BY <1>2, <3>1, <3>2, <3>3
  <2>3. QED
    BY <2>1, <2>2
<1>4. QED
  BY <1>1, <1>2, <1>3

LEMMA SoloClean == Solo /\ OneCopy => CleanMatchesDisk
  BY FrameLatest DEF CleanMatchesDisk

\* What PageStore sees of a page: its last write, and nothing of one that does
\* not exist.
LEMMA ImageLatest ==
    ASSUME Solo, OneCopy, NEW p \in Page
    PROVE  Image(p) = IF p \in MissingPages THEN Zeros ELSE latest[p]
<1>1. CASE \E f \in Frame : pageId[f] = p
  <2>1. PICK f \in Frame : f = (CHOOSE g \in Frame : pageId[g] = p) /\ pageId[f] = p
    BY <1>1
  <2>2. p \notin MissingPages /\ data[f] = latest[p]
    BY <2>1, FrameLatest, Constants
  <2>3. QED
    BY <1>1, <2>1, <2>2 DEF Image
<1>2. CASE ~\E f \in Frame : pageId[f] = p
  <2>1. Image(p) = disk[p]
    BY <1>2 DEF Image
  <2>2. CASE p \in MissingPages
    BY <2>1, <2>2 DEF Solo, FileInv, FileEnd
  <2>3. CASE p \notin MissingPages
    <3>1. \A c \in Client : hold[c].page = p => hold[c].frame \in Frame
      BY HeldFrame, RecordTypes, Constants DEF Solo
    <3>2. disk[p] = latest[p]
      BY <1>2, <2>3, <3>1 DEF Solo, Sound, DiskOrFrame
    <3>3. QED
      BY <2>1, <2>3, <3>2
  <2>4. QED
    BY <2>2, <2>3
<1>3. QED
  BY <1>1, <1>2

\* No page on disk changes, or one becomes what was last written to it.
SavesLatest ==
    \/ disk' = disk
    \/ \E p \in Page \ MissingPages : disk' = [disk EXCEPT ![p] = latest[p]]

LEMMA FrameSaved ==
    ASSUME Solo, OneCopy, NEW f \in Frame, pageId[f] # NoPage, WritePage(pageId[f], data[f])
    PROVE  SavesLatest
  BY FrameLatest DEF WritePage, SavesLatest

\* No frame is being taken.
LEMMA NoneTaken ==
    ASSUME \A d \in Client : call'[d].at \notin {"write", "reset"}
    PROVE  OneCopy'
  BY DEF OneCopy

LEMMA CopyWriteBack ==
    ASSUME Solo, TypeInv', OneCopy, NEW c \in Client, WriteBack(c)
    PROVE  OneCopy' /\ SavesLatest
<1> DEFINE f == call[c].frame
<1>1. /\ call[c].at = "write" /\ call' = [call EXCEPT ![c].at = "reset"]
      /\ \/ dirty[f] /\ WritePage(pageId[f], data[f])
         \/ ~dirty[f] /\ disk' = disk
      /\ UNCHANGED <<pageId, data, dirty, table, hold>>
  BY DEF WriteBack, frameVars, poolVars
<1>2. Loads(c)
  BY <1>1 DEF Loads
<1>3. f \in Frame
  BY <1>2, LoadFrame DEF Solo
<1>4. call'[c].frame = f /\ \A d \in Client \ {c} : call'[d] = call[d]
  BY <1>1, <1>2, NextSection DEF Solo, Loads
<1>5. \A d \in Client \ {c} : call'[d].at = ""
  BY <1>1, <1>4, OthersIdle, RecordTypes DEF Solo
<1>6. dirty[f] => pageId[f] # NoPage
  BY <1>3 DEF Solo, Sound, DirtyHasPage
<1>7. SavesLatest
  BY <1>1, <1>3, <1>6, FrameSaved DEF SavesLatest
<1>8. /\ pageId[f] # NoPage => /\ table[pageId[f]] = NoFrame
                               /\ ~dirty[f] => data[f] = disk[pageId[f]]
  BY <1>1 DEF OneCopy
<1> HIDE DEF f
<1>9. OneCopy'
  BY <1>1, <1>4, <1>5, <1>8 DEF OneCopy
<1>10. QED
  BY <1>7, <1>9

LEMMA CopyCallStep ==
    ASSUME Solo, TypeInv', OneCopy, NEW c \in Client, CallStep(c)
    PROVE  OneCopy' /\ SavesLatest /\ latest' = latest
<1>0. TypeInv /\ call \in [Client -> CallRecord]
  BY DEF Solo, TypeInv, TypeOK
<1>1. call[c].at # "" /\ latest' = latest
  BY ZenonT(60) DEF CallStep, SleepAgain, WriteBack, ResetFrame, Fill, FillThrows, Publish,
     Unpin, Release, FlushWrite, Scan, history
<1>2. \A d \in Client \ {c} : call[d] = Idle
  BY <1>1, OthersIdle DEF Solo
<1>3. ASSUME call'[c].at \notin {"write", "reset"},
             \A d \in Client \ {c} : call'[d] = call[d]
      PROVE  OneCopy'
  BY <1>2, <1>3, RecordTypes, NoneTaken
<1>4. CASE WriteBack(c)
  BY <1>1, <1>4, CopyWriteBack
<1>5. CASE SleepAgain(c) \/ ResetFrame(c) \/ Fill(c)
  <2>1. PICK a \in {"asleep", "fill", "publish"} : call' = [call EXCEPT ![c].at = a]
    BY <1>5 DEF SleepAgain, ResetFrame, Fill
  <2>2. call'[c].at = a /\ \A d \in Client \ {c} : call'[d] = call[d]
    BY <1>0, <2>1 DEF CallRecord
  <2>3. disk' = disk
    BY <1>5 DEF SleepAgain, ResetFrame, Fill, diskVars
  <2>4. QED
    BY <1>1, <1>3, <2>2, <2>3 DEF SavesLatest
<1>6. CASE FillThrows(c) \/ Release(c) \/ FlushWrite(c)
  <2>1. call'[c] = Idle /\ \A d \in Client \ {c} : call'[d] = call[d]
    BY <1>0, <1>6 DEF FillThrows, Release, FlushWrite
  <2>2. SavesLatest
    <3>1. CASE FillThrows(c) \/ Release(c)
      BY <3>1 DEF FillThrows, Release, diskVars, SavesLatest
    <3>2. CASE FlushWrite(c)
      <4>1. call[c].frame \in Frame /\ call[c].page # NoPage
        BY <1>0, <3>2, Typed, Constants DEF FlushWrite, CallFormed
      <4>2. \/ pageId[call[c].frame] # NoPage /\ WritePage(pageId[call[c].frame], data[call[c].frame])
            \/ disk' = disk
        BY <3>2, <4>1 DEF FlushWrite
      <4>3. QED
        BY <4>1, <4>2, FrameSaved DEF SavesLatest
    <3>3. QED
      BY <1>6, <3>1, <3>2
  <2>3. QED
    BY <1>1, <1>3, <2>1, <2>2, RecordTypes
<1>7. CASE Publish(c)
  <2>1. /\ call'[c] = Idle
        /\ \A d \in Client \ {c} : call'[d] = call[d] \/ call[d].at = "asleep"
    BY <1>0, <1>7, PublishCalls
  <2>2. disk' = disk
    BY <1>7 DEF Publish, diskVars
  <2>3. QED
    BY <1>1, <1>2, <1>3, <2>1, <2>2, RecordTypes DEF SavesLatest
<1>8. CASE Unpin(c)
  <2>1. /\ call'[c] = Idle \/ call'[c].at = "release"
        /\ \A d \in Client \ {c} : call'[d] = call[d]
    BY <1>0, <1>8, UnpinCalls
  <2>2. disk' = disk
    BY <1>8 DEF Unpin, diskVars
  <2>3. QED
    BY <1>1, <1>3, <2>1, <2>2, RecordTypes DEF SavesLatest
<1>9. ASSUME NEW f \in Frame, Scan(c, f)
      PROVE  OneCopy' /\ SavesLatest /\ latest' = latest
  <2>1. /\ call'[c] = Idle \/ call'[c].at = "scan"
        /\ \A d \in Client \ {c} : call'[d] = call[d]
    BY <1>0, <1>9, ScanCalls
  <2>2. (dirty[f] /\ WritePage(pageId[f], data[f])) \/ disk' = disk
    BY <1>9 DEF Scan
  <2>3. dirty[f] => pageId[f] # NoPage
    BY DEF Solo, Sound, DirtyHasPage
  <2>4. SavesLatest
    BY <2>2, <2>3, FrameSaved DEF SavesLatest
  <2>5. QED
    BY <1>1, <1>3, <2>1, <2>4, RecordTypes
<1>10. QED
  BY <1>4, <1>5, <1>6, <1>7, <1>8, <1>9 DEF CallStep

LEMMA CopyLookup ==
    ASSUME Solo, OneCopy, NEW c \in Client, NEW p \in Page, NEW f \in Frame, Lookup(c, p, f)
    PROVE  OneCopy' /\ disk' = disk /\ latest' = latest
<1>1. disk' = disk /\ latest' = latest
  BY DEF Lookup, FetchHit, UnpinFound, FlushFound, diskVars, history
<1>2. PICK r \in {Idle, Calling("unpin", "count", p, f), Calling("flush", "force", p, f)} :
          call' = [call EXCEPT ![c] = r]
  BY DEF Lookup, FetchHit, UnpinFound, FlushFound
<1>3. r.at \notin {"write", "reset"}
  <2>1. /\ Idle.at = "" /\ Calling("unpin", "count", p, f).at = "count"
        /\ Calling("flush", "force", p, f).at = "force"
    BY DEF Calling, Idle
  <2>2. r = Idle \/ r = Calling("unpin", "count", p, f) \/ r = Calling("flush", "force", p, f)
    OBVIOUS
  <2>3. QED
    BY <2>1, <2>2
<1>4. \A d \in Client : call'[d] = r \/ call'[d] = call[d]
  BY <1>2 DEF Solo, TypeInv, TypeOK
<1>5. ASSUME NEW d \in Client, call'[d] = call[d], call[d].at \in {"write", "reset"}
      PROVE  /\ pageId'[call[d].frame] = pageId[call[d].frame]
             /\ data'[call[d].frame] = data[call[d].frame]
             /\ dirty'[call[d].frame] = dirty[call[d].frame]
             /\ table' = table
  BY DEF Lookup, FetchHit, UnpinFound, FlushFound, frameVars, poolVars
<1>6. QED
  BY <1>1, <1>3, <1>4, <1>5 DEF OneCopy

\* A frame that may be taken has its page on disk if it is clean.
LEMMA CopyTakes ==
    ASSUME Solo, OneCopy, NEW c \in Client, NEW op \in {"fetch", "new"}, NEW p \in Page,
           NEW f \in Frame, Takes(c, op, p, f), MayCall(c)
    PROVE  OneCopy'
<1>1. /\ table[p] = NoFrame /\ Listed(f)
      /\ call'[c].frame = f /\ \A d \in Client \ {c} : call'[d] = call[d]
      /\ \A q \in Page : table'[q] = IF q = p /\ op = "fetch" THEN f
                                     ELSE IF pageId[f] = q THEN NoFrame ELSE table[q]
      /\ UNCHANGED <<pageId, data, dirty, disk>>
  BY DEF Takes
<1>2. \A d \in Client \ {c} : call'[d].at = ""
  BY <1>1, OthersIdle, RecordTypes DEF Solo
<1>3. /\ \A d \in Client : hold[d] # NoHold => hold[d].frame # f
      /\ pageId[f] # NoPage => table[pageId[f]] = f
  BY <1>1, ListedFrame DEF Solo
<1>4. \A d \in Holders(f) : FALSE
  BY <1>3, RecordTypes, Constants DEF Holders
<1>5. CASE pageId[f] # NoPage
  <2>1. pageId[f] \in Page /\ (~dirty[f] => data[f] = disk[pageId[f]])
    BY <1>4, <1>5, FrameLatest
  <2>2. pageId[f] # p
    BY <1>1, <1>3, <1>5, Constants
  <2>3. table'[pageId[f]] = NoFrame
    BY <1>1, <2>1, <2>2
  <2>4. QED
    BY <1>1, <1>2, <2>1, <2>3 DEF OneCopy
<1>6. CASE pageId[f] = NoPage
  BY <1>1, <1>2, <1>6 DEF OneCopy
<1>7. QED
  BY <1>5, <1>6

\* A client writes to a page, and the disk is left as it is.
Writing(p) ==
    /\ latest' = [latest EXCEPT ![p] = Written(p, Version(latest[p]) + 1)]
    /\ disk' = disk

LEMMA CopyStartCall ==
    ASSUME Solo, TypeInv', OneCopy, NEW c \in Client, StartCall(c)
    PROVE  /\ OneCopy'
           /\ \/ disk' = disk /\ latest' = latest
              \/ \E p \in Page : Writing(p)
<1>0. TypeInv /\ call \in [Client -> CallRecord]
  BY DEF Solo, TypeInv, TypeOK
<1>1. MayCall(c)
  BY DEF StartCall, Sleep, FetchMiss, UnpinNotFound, NewPage, FlushAllPages, Write
<1>2. call[c] = Idle /\ \A d \in Client \ {c} : call[d] = Idle
  BY <1>1, OthersIdle DEF Solo, MayCall
<1>3. ASSUME NEW r, call' = [call EXCEPT ![c] = r], r.at \notin {"write", "reset"}
      PROVE  OneCopy'
  <2>1. \A d \in Client : call'[d] = r \/ call'[d] = Idle
    BY <1>0, <1>2, <1>3
  <2>2. QED
    BY <1>3, <2>1, RecordTypes, NoneTaken
<1>4. ASSUME NEW p \in Page, NEW op \in {"fetch", "unpin", "flush"}, Sleep(c, op, p)
      PROVE  OneCopy' /\ disk' = disk /\ latest' = latest
  <2>1. Calling(op, "asleep", p, table[p]).at = "asleep"
    BY DEF Calling
  <2>2. QED
    BY <1>3, <1>4, <2>1 DEF Sleep, diskVars, history
<1>5. ASSUME NEW p \in Page, FetchMiss(c, p)
      PROVE  OneCopy' /\ disk' = disk /\ latest' = latest
  <2>1. PICK f \in Frame : Takes(c, "fetch", p, f)
    BY <1>5, FetchMissSound DEF Solo
  <2>2. QED
    BY <1>1, <2>1, CopyTakes DEF Takes
<1>6. CASE NewPage(c)
  <2>1. PICK p \in Page, f \in Frame : Takes(c, "new", p, f)
    BY <1>6, NewPageSound DEF Solo
  <2>2. QED
    BY <1>1, <2>1, CopyTakes DEF Takes
<1>7. CASE FlushAllPages(c)
  <2>1. [Calling("flushAll", "scan", NoPage, NoFrame) EXCEPT !.todo = MappedFrames].at = "scan"
    BY DEF Calling
  <2>2. QED
    BY <1>3, <1>7, <2>1 DEF FlushAllPages, diskVars, history
<1>8. CASE UnpinNotFound(c) \/ Write(c)
  <2>1. call' = [call EXCEPT ![c] = Idle]
    BY <1>0, <1>2, <1>8 DEF UnpinNotFound, Write
  <2>2. OneCopy'
    BY <1>3, <2>1, RecordTypes
  <2>3. CASE UnpinNotFound(c)
    BY <2>2, <2>3 DEF UnpinNotFound, diskVars, history
  <2>4. CASE Write(c)
    <3>1. Writing(hold[c].page) /\ hold[c] # NoHold
      BY <2>4 DEF Write, Writing, Solo, TypeInv, TypeOK, diskVars
    <3>2. hold[c].page \in Page
      BY <3>1, HeldFrame DEF Solo
    <3>3. QED
      BY <2>2, <3>1, <3>2
  <2>5. QED
    BY <1>8, <2>3, <2>4
<1>9. QED
  BY <1>4, <1>5, <1>6, <1>7, <1>8 DEF StartCall

\* No page has the content of another.
Own(p, content) == content = Zeros \/ content[1] = p

OwnContents == \A p \in Page : Own(p, latest[p]) /\ Own(p, disk[p])

CopyInv == OneCopy /\ OwnContents

\* What one thread does to the pages.
PageStep ==
    \/ latest' = latest /\ SavesLatest
    \/ \E p \in Page : Writing(p)
    \/ CrashAndReopen

LEMMA StartedCopy == Started => OneCopy
  BY RecordTypes DEF Started, OneCopy

LEMMA InitCopy == Init => CopyInv
<1> SUFFICES ASSUME Init PROVE CopyInv
  OBVIOUS
<1>1. OneCopy
  BY InitStarted, StartedCopy
<1>2. disk = [p \in Page |-> Zeros] /\ latest = disk
  BY DEF Init, DiskInit
<1>3. QED
  BY <1>1, <1>2 DEF CopyInv, OwnContents, Own

LEMMA CopyStep ==
    ASSUME Solo, TypeInv', OneCopy, [Next]_vars
    PROVE  OneCopy' /\ PageStep
<1>1. CASE UNCHANGED vars
  BY <1>1 DEF vars, frameVars, poolVars, diskVars, history, OneCopy, PageStep, SavesLatest
<1>2. CASE CrashAndReopen
  <2>1. Started'
    BY <1>2, CrashStarted DEF Solo
  <2>2. OneCopy'
    BY <2>1, StartedCopy, PTL
  <2>3. QED
    BY <1>2, <2>2 DEF PageStep
<1>3. CASE Next /\ ~CrashAndReopen
  BY <1>3, CopyCallStep, CopyLookup, CopyStartCall DEF Next, PageStep, SavesLatest
<1>4. QED
  BY <1>1, <1>2, <1>3

LEMMA WrittenIs ==
    ASSUME NEW p, NEW v
    PROVE  /\ Written(p, v) # Zeros /\ Written(p, v)[1] = p
           /\ Version(Written(p, v)) = v /\ Writes(p, Written(p, v)) = v
  BY DEF Written, Zeros, Version, Writes

LEMMA OwnStep ==
    ASSUME Solo, OwnContents, PageStep
    PROVE  OwnContents'
<1>0. /\ disk \in [Page -> Contents] /\ latest \in [Page -> Contents]
      /\ \A p \in Page : Own(p, latest[p]) /\ Own(p, disk[p])
  BY DEF Solo, TypeInv, TypeOK, OwnContents
<1>1. CASE latest' = latest /\ SavesLatest
  <2>1. \A p \in Page : disk'[p] = disk[p] \/ disk'[p] = latest[p]
    BY <1>0, <1>1 DEF SavesLatest
  <2>2. QED
    BY <1>0, <1>1, <2>1 DEF OwnContents, Own
<1>2. ASSUME NEW p \in Page, Writing(p) PROVE OwnContents'
  <2>1. \A q \in Page : latest'[q] = latest[q] \/
                        (q = p /\ latest'[q] = Written(q, Version(latest[p]) + 1))
    BY <1>0, <1>2 DEF Writing
  <2>2. \A q \in Page : Own(q, latest'[q])
    BY <1>0, <2>1, WrittenIs DEF Own
  <2>3. QED
    BY <1>0, <1>2, <2>2 DEF OwnContents, Writing, Own
<1>3. CASE CrashAndReopen
  BY <1>0, <1>3 DEF CrashAndReopen, diskVars, OwnContents, Own
<1>4. QED
  BY <1>1, <1>2, <1>3 DEF PageStep

\* The refinement mapping, and what it is with one thread.
StoreContent == [p \in Page |-> Writes(p, Image(p))]
StoreDurable == [p \in Page |-> Writes(p, disk[p])]

Mapped ==
    /\ StoreContent = [p \in Page |-> IF p \in MissingPages THEN 0 ELSE Writes(p, latest[p])]
    /\ \A p \in MissingPages : disk[p] = Zeros

LEMMA SoloMapped == Solo /\ OneCopy => Mapped
<1> SUFFICES ASSUME Solo, OneCopy PROVE Mapped
  OBVIOUS
<1>1. \A p \in Page : Writes(p, Image(p)) =
          IF p \in MissingPages THEN 0 ELSE Writes(p, latest[p])
  BY ImageLatest DEF Writes
<1>2. \A p \in MissingPages : disk[p] = Zeros
  BY Constants DEF Solo, FileInv, FileEnd
<1>3. QED
  BY <1>1, <1>2 DEF Mapped, StoreContent

LEMMA StoreStep ==
    ASSUME Solo, Mapped, Mapped', OwnContents, PageStep
    PROVE  [Store!Next]_<<StoreContent, StoreDurable>>
<1>0. disk \in [Page -> Contents] /\ latest \in [Page -> Contents] /\ MissingPages \subseteq Page
  BY Constants DEF Solo, TypeInv, TypeOK
<1>1. CASE latest' = latest /\ SavesLatest
  <2>1. StoreContent' = StoreContent
    BY <1>1 DEF Mapped
  <2>2. CASE disk' = disk
    <3>1. StoreDurable' = StoreDurable
      BY <2>2 DEF StoreDurable
    <3>2. QED
      BY <2>1, <3>1
  <2>3. ASSUME NEW p \in Page \ MissingPages, disk' = [disk EXCEPT ![p] = latest[p]]
        PROVE  Store!MakeDurable(p)
    <3>1. StoreContent[p] = Writes(p, latest[p])
      BY <2>3 DEF Mapped
    <3>2. StoreDurable' = [StoreDurable EXCEPT ![p] = Writes(p, latest[p])]
      BY <1>0, <2>3 DEF StoreDurable
    <3>3. QED
      BY <2>1, <3>1, <3>2 DEF Store!MakeDurable, StoreContent, StoreDurable
  <2>4. QED
    BY <1>1, <2>2, <2>3 DEF SavesLatest, Store!Next
<1>2. ASSUME NEW p \in Page, Writing(p)
      PROVE  [Store!Next]_<<StoreContent, StoreDurable>>
  <2>1. StoreDurable' = StoreDurable
    BY <1>2 DEF StoreDurable, Writing
  <2>2. latest' = [latest EXCEPT ![p] = Written(p, Version(latest[p]) + 1)]
    BY <1>2 DEF Writing
  <2>3. CASE p \in MissingPages
    <3>1. \A q \in Page \ MissingPages : latest'[q] = latest[q]
      BY <1>0, <2>2, <2>3
    <3>2. StoreContent' = StoreContent
      BY <3>1 DEF Mapped
    <3>3. QED
      BY <2>1, <3>2
  <2>4. CASE p \notin MissingPages
    <3>1. Writes(p, latest[p]) = Version(latest[p])
      BY <1>2 DEF OwnContents, Own, Writes, Version
    <3>2. Writes(p, latest'[p]) = Writes(p, latest[p]) + 1
      BY <1>0, <2>2, <3>1, WrittenIs
    <3>3. \A q \in Page \ {p} : latest'[q] = latest[q]
      BY <1>0, <2>2
    <3>4. StoreContent' = [StoreContent EXCEPT ![p] = @ + 1]
      BY <2>4, <3>2, <3>3 DEF Mapped
    <3>5. QED
      BY <2>1, <3>4 DEF Store!Next, Store!WriteOnce, StoreContent, StoreDurable
  <2>5. QED
    BY <2>3, <2>4
<1>3. CASE CrashAndReopen
  <2>1. latest' = disk /\ disk' = disk
    BY <1>3 DEF CrashAndReopen, diskVars
  <2>2. StoreDurable' = StoreDurable
    BY <2>1 DEF StoreDurable
  <2>3. \A p \in MissingPages : Writes(p, disk[p]) = 0
    BY DEF Mapped, Writes
  <2>4. StoreContent' = StoreDurable
    BY <2>1, <2>3 DEF Mapped, StoreDurable
  <2>5. QED
    BY <2>2, <2>4 DEF Store!Next, Store!Crash, StoreContent, StoreDurable
<1>4. QED
  BY <1>1, <1>2, <1>3 DEF PageStep

LEMMA StoreInit == Solo /\ OneCopy /\ Init => Store!Init
<1> SUFFICES ASSUME Solo, OneCopy, Init PROVE Store!Init
  OBVIOUS
<1>1. disk = [p \in Page |-> Zeros] /\ latest = disk
  BY DEF Init, DiskInit
<1>2. StoreDurable = [p \in Page |-> 0]
  BY <1>1 DEF StoreDurable, Writes
<1>3. StoreContent = [p \in Page |-> 0]
  BY <1>1, SoloMapped DEF Mapped, Writes
<1>4. QED
  BY <1>2, <1>3 DEF Store!Init, StoreContent, StoreDurable

\* The invariant of one thread, and what its steps do.
LEMMA CopyInvStep ==
    Inv /\ CopyInv /\ ~Concurrent /\ [Next]_vars =>
        CopyInv' /\ [Store!Next]_<<StoreContent, StoreDurable>>
<1> SUFFICES ASSUME Inv, CopyInv, ~Concurrent, [Next]_vars
             PROVE  CopyInv' /\ [Store!Next]_<<StoreContent, StoreDurable>>
  OBVIOUS
<1>1. Inv' /\ Solo /\ Solo'
  <2>1. Inv'
    BY InvStep
  <2>2. QED
    BY <2>1, InvSolo, PTL
<1>2. OneCopy' /\ PageStep
  BY <1>1, CopyStep DEF CopyInv, Solo
<1>3. OwnContents'
  BY <1>1, <1>2, OwnStep DEF CopyInv
<1>4. Mapped /\ Mapped'
  <2>1. Solo /\ OneCopy
    BY <1>1 DEF CopyInv
  <2>2. QED
    BY <1>1, <1>2, <2>1, SoloMapped, PTL
<1>5. QED
  BY <1>1, <1>2, <1>3, <1>4, StoreStep DEF CopyInv

\* With one thread a clean frame is its page on disk (CleanMatchesDisk in
\* BufferPool): eviction and FlushAllPages, which skip it, lose nothing.
THEOREM CleanAlwaysOnDisk == Spec /\ ~Concurrent => []CleanMatchesDisk
<1>1. ~Concurrent => (Init /\ [][Next]_vars => []CleanMatchesDisk)
  <2> SUFFICES ASSUME ~Concurrent PROVE Init /\ [][Next]_vars => []CleanMatchesDisk
    OBVIOUS
  <2>1. Inv /\ [Next]_vars => Inv'
    BY InvStep
  <2>2. Inv /\ CopyInv /\ [Next]_vars => CopyInv'
    BY CopyInvStep
  <2>3. Inv /\ CopyInv => CleanMatchesDisk
    BY InvSolo, SoloClean DEF CopyInv
  <2>4. QED
    BY InitInv, InitCopy, <2>1, <2>2, <2>3, PTL
<1>2. QED
  BY <1>1 DEF Spec

\* With one thread the pool is a set of pages without a cache (ImplementsPageStore
\* in BufferPool): every behaviour of the calls is one of PageStore.
THEOREM PoolImplementsPageStore == Spec /\ ~Concurrent => ImplementsPageStore
<1>1. ~Concurrent => (Init /\ [][Next]_vars => ImplementsPageStore)
  <2> SUFFICES ASSUME ~Concurrent PROVE Init /\ [][Next]_vars => ImplementsPageStore
    OBVIOUS
  <2>1. Inv /\ [Next]_vars => Inv'
    BY InvStep
  <2>2. Inv /\ CopyInv /\ [Next]_vars => CopyInv'
    BY CopyInvStep
  <2>3. Init => Store!Init
    BY InitInv, InitCopy, InvSolo, StoreInit DEF CopyInv
  <2>4. Inv /\ CopyInv /\ [Next]_vars =>
            [Store!Next]_<<[p \in Page |-> Writes(p, Image(p))], [p \in Page |-> Writes(p, disk[p])]>>
    BY CopyInvStep DEF StoreContent, StoreDurable
  <2>5. QED
    BY InitInv, InitCopy, <2>1, <2>2, <2>3, <2>4, PTL DEF ImplementsPageStore, Store!Spec
<1>2. QED
  BY <1>1 DEF Spec

\* FlushAllPages has still to visit every dirty frame.
FlushInv ==
    \A c \in Client : call[c].op = "flushAll" =>
        /\ call[c].at = "scan"
        /\ \A f \in Frame : dirty[f] => f \in call[c].todo

FlushReturnsClean ==
    \A c \in Client : call[c].op = "flushAll" /\ call'[c] = Idle => \A f \in Frame : ~dirty'[f]

LEMMA NotFlushing ==
    ASSUME \A d \in Client : call[d].op # "flushAll", \A d \in Client : call'[d].op # "flushAll"
    PROVE  FlushInv' /\ FlushReturnsClean
  BY DEF FlushInv, FlushReturnsClean

LEMMA FlushScan ==
    ASSUME Solo, FlushInv, NEW c \in Client, NEW f \in Frame, Scan(c, f)
    PROVE  FlushInv' /\ FlushReturnsClean
<1> DEFINE t == call[c].todo \ {f}
           r == [call[c] EXCEPT !.todo = t]
<1>0. TypeInv /\ call \in [Client -> CallRecord] /\ dirty \in [Frame -> BOOLEAN]
  BY DEF Solo, TypeInv, TypeOK
<1>1. /\ call[c].at = "scan"
      /\ call' = [call EXCEPT ![c] = IF t = {} THEN Idle ELSE r]
      /\ dirty' = [dirty EXCEPT ![f] = FALSE] \/ (~dirty[f] /\ dirty' = dirty)
  BY DEF Scan
<1>2. call[c].op = "flushAll" /\ call[c] \in CallRecord
  BY <1>0, <1>1, Typed DEF CallFormed
<1>3. r.op = "flushAll" /\ r.at = "scan" /\ r.todo = t
  BY <1>1, <1>2 DEF CallRecord
<1>4. \A g \in Frame : dirty'[g] => g \in t
  <2>1. \A g \in Frame : dirty'[g] => dirty[g] /\ g # f
    BY <1>0, <1>1
  <2>2. QED
    BY <1>2, <2>1 DEF FlushInv
<1> HIDE DEF r, t
<1>5. \A d \in Client \ {c} : call[d] = Idle
  BY <1>1, OthersIdle DEF Solo
<1>6. /\ \A d \in Client \ {c} : call'[d] = Idle
      /\ t # {} => call'[c] = r
      /\ t = {} => call'[c] = Idle
  BY <1>0, <1>1, <1>5
<1>7. FlushInv'
  BY <1>3, <1>4, <1>6, RecordTypes DEF FlushInv
<1>8. FlushReturnsClean
  BY <1>3, <1>4, <1>5, <1>6, RecordTypes DEF FlushReturnsClean
<1>9. QED
  BY <1>7, <1>8

LEMMA FlushCallStep ==
    ASSUME Solo, FlushInv, NEW c \in Client, CallStep(c)
    PROVE  FlushInv' /\ FlushReturnsClean
<1>0. TypeInv /\ call \in [Client -> CallRecord]
  BY DEF Solo, TypeInv, TypeOK
<1>1. call[c].at # ""
  BY ZenonT(60) DEF CallStep, SleepAgain, WriteBack, ResetFrame, Fill, FillThrows, Publish,
     Unpin, Release, FlushWrite, Scan
<1>2. \A d \in Client \ {c} : call[d] = Idle
  BY <1>1, OthersIdle DEF Solo
<1>3. ASSUME call[c].at # "scan", call'[c].op = call[c].op \/ call'[c] = Idle,
             \A d \in Client \ {c} : call'[d].op = call[d].op
      PROVE  FlushInv' /\ FlushReturnsClean
  <2>1. call[c].op # "flushAll"
    BY <1>3 DEF FlushInv
  <2>2. QED
    BY <1>2, <1>3, <2>1, RecordTypes, NotFlushing
<1>4. CASE SleepAgain(c) \/ WriteBack(c) \/ ResetFrame(c) \/ Fill(c)
  <2>1. PICK a \in {"asleep", "reset", "fill", "publish"} : call' = [call EXCEPT ![c].at = a]
    BY <1>4 DEF SleepAgain, WriteBack, ResetFrame, Fill
  <2>2. call'[c].op = call[c].op /\ \A d \in Client \ {c} : call'[d] = call[d]
    BY <1>0, <2>1 DEF CallRecord
  <2>3. call[c].at # "scan"
    BY <1>4 DEF SleepAgain, WriteBack, ResetFrame, Fill
  <2>4. QED
    BY <1>3, <2>2, <2>3
<1>5. CASE FillThrows(c) \/ Release(c) \/ FlushWrite(c)
  <2>1. /\ call'[c] = Idle /\ \A d \in Client \ {c} : call'[d] = call[d]
        /\ call[c].at # "scan"
    BY <1>0, <1>5 DEF FillThrows, Release, FlushWrite
  <2>2. QED
    BY <1>3, <2>1
<1>6. CASE Publish(c)
  <2>1. call'[c] = Idle /\ \A d \in Client \ {c} : call'[d].op = call[d].op
    BY <1>0, <1>6, PublishCalls
  <2>2. call[c].at # "scan"
    BY <1>6 DEF Publish
  <2>3. QED
    BY <1>3, <2>1, <2>2
<1>7. CASE Unpin(c)
  <2>1. call[c].at = "count"
    BY <1>7 DEF Unpin
  <2>2. call[c].op = "unpin"
    BY <1>0, <2>1, Typed DEF CallFormed
  <2>3. /\ call'[c] = Idle \/ call'[c].op = "unpin"
        /\ \A d \in Client \ {c} : call'[d] = call[d]
    BY <1>0, <1>7, UnpinCalls
  <2>4. QED
    BY <1>3, <2>1, <2>2, <2>3
<1>8. QED
  BY <1>4, <1>5, <1>6, <1>7, FlushScan DEF CallStep

LEMMA FlushLookup ==
    ASSUME Solo, FlushInv, NEW c \in Client, NEW p \in Page, NEW f \in Frame, Lookup(c, p, f)
    PROVE  FlushInv' /\ FlushReturnsClean
<1>1. PICK r \in {Idle, Calling("unpin", "count", p, f), Calling("flush", "force", p, f)} :
          call' = [call EXCEPT ![c] = r]
  BY DEF Lookup, FetchHit, UnpinFound, FlushFound
<1>2. r.op # "flushAll"
  <2>1. /\ Idle.op = "idle" /\ Calling("unpin", "count", p, f).op = "unpin"
        /\ Calling("flush", "force", p, f).op = "flush"
    BY DEF Calling, Idle
  <2>2. r = Idle \/ r = Calling("unpin", "count", p, f) \/ r = Calling("flush", "force", p, f)
    OBVIOUS
  <2>3. QED
    BY <2>1, <2>2
<1>3. \A d \in Client : call'[d] = r \/ call'[d] = call[d]
  BY <1>1 DEF Solo, TypeInv, TypeOK
<1>4. dirty' = dirty
  BY DEF Lookup, FetchHit, UnpinFound, FlushFound, frameVars
<1>5. PICK op \in {"fetch", "unpin", "flush"} : Ready(c, op, p, f)
  BY DEF Lookup, FetchHit, UnpinFound, FlushFound
<1>6. call[c].op # "flushAll"
  <2>1. CASE call[c] = Idle
    BY <2>1, RecordTypes
  <2>2. CASE \E at \in {"asleep", "awake"} : call[c] = Calling(op, at, p, f)
    BY <2>2 DEF Calling
  <2>3. QED
    BY <1>5, <2>1, <2>2 DEF Ready, MayCall
<1>7. \A d \in Client \ {c} : call'[d] = call[d]
  BY <1>1 DEF Solo, TypeInv, TypeOK
<1>8. FlushInv'
  BY <1>2, <1>3, <1>4 DEF FlushInv
<1>9. FlushReturnsClean
  BY <1>6, <1>7, RecordTypes DEF FlushReturnsClean
<1>10. QED
  BY <1>8, <1>9

LEMMA FlushStarts ==
    ASSUME Solo, NEW c \in Client, FlushAllPages(c)
    PROVE  FlushInv' /\ FlushReturnsClean
<1> DEFINE r == [Calling("flushAll", "scan", NoPage, NoFrame) EXCEPT !.todo = MappedFrames]
<1>0. TypeInv /\ call \in [Client -> CallRecord] /\ Sound
  BY DEF Solo, TypeInv, TypeOK
<1>1. call' = [call EXCEPT ![c] = r] /\ dirty' = dirty /\ MayCall(c)
  BY DEF FlushAllPages, frameVars
<1>2. r.op = "flushAll" /\ r.at = "scan" /\ r.todo = MappedFrames
  BY DEF Calling
<1> HIDE DEF r
<1>3. \A d \in Client : call[d] = Idle
  BY <1>1, OthersIdle DEF Solo, MayCall
<1>4. \A f \in Frame : dirty[f] => f \in MappedFrames
  <2> SUFFICES ASSUME NEW f \in Frame, dirty[f] PROVE f \in MappedFrames
    OBVIOUS
  <2>1. pageId[f] # NoPage /\ pageId[f] \in Page
    BY <1>0 DEF Sound, DirtyHasPage, TypeInv, TypeOK
  <2>2. ~Stale(f) /\ ~\E d \in Client : call[d].at = "publish" /\ call[d].frame = f
    BY <1>3, RecordTypes DEF Stale
  <2>3. table[pageId[f]] = f
    BY <1>0, <2>1, <2>2 DEF Sound, FramesMapped
  <2>4. f # NoFrame
    BY DEF Frame, NoFrame
  <2>5. QED
    BY <2>1, <2>3, <2>4 DEF MappedFrames
<1>5. \A d \in Client : call'[d] = r \/ call'[d] = Idle
  BY <1>0, <1>1, <1>3
<1>6. FlushInv'
  BY <1>1, <1>2, <1>4, <1>5, RecordTypes DEF FlushInv
<1>7. FlushReturnsClean
  BY <1>3, RecordTypes DEF FlushReturnsClean
<1>8. QED
  BY <1>6, <1>7

LEMMA FlushStartCall ==
    ASSUME Solo, NEW c \in Client, StartCall(c)
    PROVE  FlushInv' /\ FlushReturnsClean
<1>0. call \in [Client -> CallRecord]
  BY DEF Solo, TypeInv, TypeOK
<1>1. MayCall(c)
  BY DEF StartCall, Sleep, FetchMiss, UnpinNotFound, NewPage, FlushAllPages, Write
<1>2. \A d \in Client : call[d] = Idle
  BY <1>1, OthersIdle DEF Solo, MayCall
<1>3. ASSUME NEW r, call' = [call EXCEPT ![c] = r], r.op # "flushAll"
      PROVE  FlushInv' /\ FlushReturnsClean
  <2>1. \A d \in Client : call'[d] = r \/ call'[d] = Idle
    BY <1>0, <1>2, <1>3
  <2>2. QED
    BY <1>2, <1>3, <2>1, RecordTypes, NotFlushing
<1>4. \A op, at, p, f : Calling(op, at, p, f).op = op
  BY DEF Calling
<1>5. ASSUME NEW p \in Page, NEW op \in {"fetch", "unpin", "flush"}, Sleep(c, op, p)
      PROVE  FlushInv' /\ FlushReturnsClean
  <2>1. op # "flushAll"
    OBVIOUS
  <2>2. QED
    BY <1>3, <1>4, <1>5, <2>1 DEF Sleep
<1>6. ASSUME NEW p \in Page, FetchMiss(c, p)
      PROVE  FlushInv' /\ FlushReturnsClean
  <2>1. call' = [call EXCEPT ![c] = Calling("fetch", "write", p, TheFrame)]
    BY <1>6 DEF FetchMiss
  <2>2. Calling("fetch", "write", p, TheFrame).op # "flushAll"
    BY <1>4
  <2>3. QED
    BY <1>3, <2>1, <2>2
<1>7. CASE NewPage(c)
  <2>1. call' = [call EXCEPT ![c] = Calling("new", "write", NextPageId, TheFrame)]
    BY <1>7 DEF NewPage
  <2>2. Calling("new", "write", NextPageId, TheFrame).op # "flushAll"
    BY <1>4
  <2>3. QED
    BY <1>3, <2>1, <2>2
<1>8. CASE UnpinNotFound(c) \/ Write(c)
  <2>1. call' = [call EXCEPT ![c] = Idle]
    BY <1>0, <1>2, <1>8 DEF UnpinNotFound, Write
  <2>2. QED
    BY <1>3, <2>1, RecordTypes
<1>9. CASE FlushAllPages(c)
  BY <1>9, FlushStarts
<1>10. QED
  BY <1>5, <1>6, <1>7, <1>8, <1>9 DEF StartCall

LEMMA StartedFlush == Started => FlushInv
  BY RecordTypes DEF Started, FlushInv

LEMMA FlushStep ==
    ASSUME Solo, FlushInv, [Next]_vars
    PROVE  FlushInv' /\ [FlushReturnsClean]_vars
<1>1. CASE UNCHANGED vars
  BY <1>1 DEF vars, frameVars, FlushInv
<1>2. CASE CrashAndReopen
  <2>1. FlushInv'
    <3>1. Started'
      BY <1>2, CrashStarted DEF Solo
    <3>2. QED
      BY <3>1, StartedFlush, PTL
  <2>2. FlushReturnsClean
    BY <1>2 DEF CrashAndReopen, FlushReturnsClean
  <2>3. QED
    BY <2>1, <2>2
<1>3. CASE Next /\ ~CrashAndReopen
  BY <1>3, FlushCallStep, FlushLookup, FlushStartCall DEF Next
<1>4. QED
  BY <1>1, <1>2, <1>3

\* With one thread nothing is dirty when FlushAllPages returns (FlushAllCleans in
\* BufferPool); with several, a page may be written behind its back.
THEOREM FlushAlwaysCleans == Spec /\ ~Concurrent => FlushAllCleans
<1>1. ~Concurrent => (Init /\ [][Next]_vars => FlushAllCleans)
  <2> SUFFICES ASSUME ~Concurrent PROVE Init /\ [][Next]_vars => FlushAllCleans
    OBVIOUS
  <2>1. Inv /\ [Next]_vars => Inv'
    BY InvStep
  <2>2. Inv /\ FlushInv /\ [Next]_vars => FlushInv' /\ [FlushReturnsClean]_vars
    BY InvSolo, FlushStep
  <2>3. Init => FlushInv
    BY InitStarted, StartedFlush
  <2>4. QED
    BY InitInv, <2>1, <2>2, <2>3, PTL DEF FlushAllCleans, FlushReturnsClean
<1>2. QED
  BY <1>1 DEF Spec

-----------------------------------------------------------------------------
(***************************************************************************)
(* One thread: where every frame is, and how many pins it has.             *)
(***************************************************************************)

Taken(f) == \E c \in Client : call[c].at \in {"write", "reset", "fill"} /\ call[c].frame = f

Releasing(f) == \E c \in Client : call[c].at = "release" /\ call[c].frame = f

\* A frame is on the list it belongs on, also while a call is at work on it.
Account(f) ==
    /\ Contains(freeList, f) <=> pageId[f] = NoPage /\ ~Taken(f)
    /\ Contains(lru, f) <=> pageId[f] # NoPage /\ pinCount[f] = 0 /\ ~Taken(f) /\ ~Releasing(f)
    /\ ~Taken(f) => pinCount[f] = Cardinality(Users(f))

\* No one has a frame that is being taken, and Reset has removed its pins.
TakenUnused ==
    \A c \in Client : call[c].at \in {"write", "reset", "fill"} =>
        /\ \A d \in Client : hold[d].frame # call[c].frame
        /\ call[c].at = "fill" => pinCount[call[c].frame] = 0

Accounts == TakenUnused /\ \A f \in Frame \ Leaked : Account(f)

\* Frames that a load has lost stay lost, and the table tells so.
StayLeaked == \A f \in Frame : f \in Leaked => f \in Leaked'

Others(c) == \A d \in Client \ {c} : call[d] = Idle

\* What the calls are doing with a frame is what the one call is doing.
LEMMA InCall ==
    ASSUME NEW c \in Client, Others(c), Others(c)', NEW f
    PROVE  /\ Taken(f) <=> call[c].at \in {"write", "reset", "fill"} /\ call[c].frame = f
           /\ Taken(f)' <=> call'[c].at \in {"write", "reset", "fill"} /\ call'[c].frame = f
           /\ Releasing(f) <=> call[c].at = "release" /\ call[c].frame = f
           /\ Releasing(f)' <=> call'[c].at = "release" /\ call'[c].frame = f
<1>1. \A d \in Client \ {c} : call[d].at = "" /\ call'[d].at = ""
  BY RecordTypes DEF Others
<1>2. QED
  BY <1>1 DEF Taken, Releasing

LEMMA TableLeaked ==
    ASSUME \A q \in MissingPages : table[q] \in Frame => table'[q] = table[q]
    PROVE  StayLeaked
  BY DEF StayLeaked, Leaked

\* The account of a frame that a step leaves alone.
LEMMA AccountKept ==
    ASSUME NEW f, Account(f), pageId'[f] = pageId[f], pinCount'[f] = pinCount[f],
           Contains(freeList', f) <=> Contains(freeList, f),
           Contains(lru', f) <=> Contains(lru, f),
           Taken(f)' <=> Taken(f), Releasing(f)' <=> Releasing(f), Users(f)' = Users(f)
    PROVE  Account(f)'
  BY DEF Account

\* A step that moves only calls, and none to or from a load or a release.
LEMMA AccountsKept ==
    ASSUME Solo, Accounts, NEW c \in Client, Others(c), Others(c)',
           UNCHANGED <<pageId, pinCount, table, freeList, lru>>,
           \A d \in Client : hold'[d].frame = hold[d].frame,
           ~Loads(c), ~Loads(c)', call[c].at # "release", call'[c].at # "release"
    PROVE  Accounts'
<1>1. \A f : ~Taken(f) /\ ~Taken(f)' /\ ~Releasing(f) /\ ~Releasing(f)'
  BY InCall DEF Loads
<1>2. \A f : Users(f)' = Users(f)
  <2>1. \A d \in Client : call[d].at # "publish" /\ call'[d].at # "publish"
    BY RecordTypes DEF Others, Loads
  <2>2. QED
    BY <2>1 DEF Users
<1>3. TakenUnused'
  BY <1>1 DEF TakenUnused, Taken
<1>4. Leaked' = Leaked
  BY DEF Leaked
<1>5. \A f \in Frame \ Leaked : Account(f)'
  BY <1>1, <1>2, AccountKept DEF Accounts
<1>6. QED
  BY <1>3, <1>4, <1>5 DEF Accounts

\* The parts of Accounts' when one frame f is at stake.
LEMMA AccountsBut ==
    ASSUME Accounts, StayLeaked, TakenUnused', NEW f,
           f \in Frame \ Leaked' => Account(f)',
           \A g \in Frame \ {f} :
               /\ pageId'[g] = pageId[g] /\ pinCount'[g] = pinCount[g]
               /\ Contains(freeList', g) <=> Contains(freeList, g)
               /\ Contains(lru', g) <=> Contains(lru, g)
               /\ Taken(g)' <=> Taken(g)
               /\ Releasing(g)' <=> Releasing(g)
               /\ Users(g)' = Users(g)
    PROVE  Accounts'
<1>1. ASSUME NEW g \in Frame \ Leaked', g # f PROVE Account(g)'
  <2>1. g \in Frame \ Leaked
    BY <1>1 DEF StayLeaked
  <2>2. QED
    BY <1>1, <2>1, AccountKept DEF Accounts
<1>2. QED
  BY <1>1 DEF Accounts

LEMMA AccountsTakes ==
    ASSUME Solo, Accounts, NEW c \in Client, Others(c), Others(c)', StayLeaked,
           NEW op \in {"fetch", "new"}, NEW p \in Page, NEW f \in Frame, Takes(c, op, p, f),
           \A g : Contains(freeList', g) <=> Contains(freeList, g) /\ g # f,
           \A g : Contains(lru', g) <=> Contains(lru, g) /\ g # f
    PROVE  Accounts'
<1>1. /\ call[c].at = "" /\ call'[c].at = "write" /\ call'[c].frame = f /\ Listed(f)
      /\ UNCHANGED <<pageId, pinCount, hold>>
  BY RecordTypes DEF Takes
<1>2. \A g : /\ ~Taken(g) /\ ~Releasing(g) /\ ~Releasing(g)'
             /\ Taken(g)' <=> g = f
  BY <1>1, InCall
<1>3. \A g : Users(g)' = Users(g)
  <2>1. \A d \in Client : call[d].at # "publish" /\ call'[d].at # "publish"
    BY <1>1, RecordTypes DEF Others
  <2>2. QED
    BY <1>1, <2>1 DEF Users
<1>4. TakenUnused'
  <2>1. \A d \in Client : hold[d].frame # f
    <3>1. \A d \in Client : hold[d] # NoHold => hold[d].frame # f
      BY <1>1, ListedFrame DEF Solo
    <3>2. NoHold.frame # f
      BY RecordTypes, Constants
    <3>3. QED
      BY <3>1, <3>2
  <2>2. \A d \in Client : call'[d].at \in {"write", "reset", "fill"} =>
            call'[d].frame = f /\ call'[d].at # "fill"
    BY <1>1, RecordTypes DEF Others
  <2>3. QED
    BY <1>1, <2>1, <2>2 DEF TakenUnused
<1>5. Account(f)'
  BY <1>2 DEF Account
<1>6. \A g \in Frame \ {f} :
          /\ pageId'[g] = pageId[g] /\ pinCount'[g] = pinCount[g]
          /\ Contains(freeList', g) <=> Contains(freeList, g)
          /\ Contains(lru', g) <=> Contains(lru, g)
          /\ Taken(g)' <=> Taken(g)
          /\ Releasing(g)' <=> Releasing(g)
          /\ Users(g)' = Users(g)
  BY <1>1, <1>2, <1>3
<1>7. QED
  BY <1>4, <1>5, <1>6, AccountsBut

LEMMA ReadyAt ==
    ASSUME NEW c \in Client, NEW op, NEW p, NEW f, Ready(c, op, p, f)
    PROVE  /\ call[c].at \in {"", "asleep", "awake"}
           /\ MayCall(c) \/ call[c].at # ""
<1>1. CASE MayCall(c)
  BY <1>1, RecordTypes DEF MayCall
<1>2. CASE \E at \in {"asleep", "awake"} : call[c] = Calling(op, at, p, f)
  <2>1. PICK at \in {"asleep", "awake"} : call[c] = Calling(op, at, p, f)
    BY <1>2
  <2>2. Calling(op, at, p, f).at = at
    BY DEF Calling
  <2>3. call[c].at \in {"asleep", "awake"}
    BY <2>1, <2>2
  <2>4. QED
    BY <2>3
<1>3. QED
  BY <1>1, <1>2 DEF Ready

\* One more client has frame f, and no other frame is touched.
LEMMA AccountsFetchHit ==
    ASSUME Solo, Solo', Accounts, NEW c \in Client, NEW p \in Page, NEW f \in Frame,
           FetchHit(c, p, f), Others(c), Others(c)'
    PROVE  Accounts'
<1> DEFINE h == [page |-> p, frame |-> f, wrote |-> FALSE]
<1>0. TypeInv /\ TypeInv' /\ Sound
  BY DEF Solo
<1>1. /\ Ready(c, "fetch", p, f)
      /\ pinCount' = [pinCount EXCEPT ![f] = @ + 1] /\ lru' = AfterPin(lru, f)
      /\ hold' = [hold EXCEPT ![c] = h] /\ call' = [call EXCEPT ![c] = Idle]
      /\ UNCHANGED <<pageId, table, freeList>>
  BY DEF FetchHit, PinFrame
<1>2. h.page = p /\ h.frame = f
  OBVIOUS
<1> HIDE DEF h
<1>3. /\ hold[c] = NoHold /\ ~Contains(freeList, f)
      /\ call[c].at \in {"", "asleep", "awake"}
  BY <1>0, <1>1, ReadyFound, ReadyTyped, ReadyAt
<1>4. /\ call'[c] = Idle /\ hold'[c] = h
      /\ \A d \in Client \ {c} : call'[d] = call[d] /\ hold'[d] = hold[d]
  BY <1>0, <1>1 DEF TypeInv, TypeOK
<1>5. \A g : Contains(lru', g) <=> Contains(lru, g) /\ g # f
  BY <1>0, <1>1, PinTyped
<1>6. \A g : ~Taken(g) /\ ~Taken(g)' /\ ~Releasing(g) /\ ~Releasing(g)'
  BY <1>3, <1>4, RecordTypes, InCall
<1>7. \A g \in Frame : Users(g)' = IF g = f THEN Users(g) \cup {c} ELSE Users(g)
  <2>1. ASSUME NEW g \in Frame, NEW d \in Client
        PROVE  d \in Users(g)' <=> d \in Users(g) \/ (g = f /\ d = c)
    <3>1. CASE d = c
      <4>1. hold'[c].frame = f /\ call'[c].at = ""
        BY <1>2, <1>4, RecordTypes
      <4>2. hold[c].frame = NoFrame /\ call[c].at # "publish"
        BY <1>3, RecordTypes
      <4>3. g # NoFrame
        BY Constants
      <4>4. QED
        BY <3>1, <4>1, <4>2, <4>3 DEF Users
    <3>2. CASE d # c
      <4>1. call'[d] = call[d] /\ hold'[d] = hold[d]
        BY <1>4, <3>2
      <4>2. QED
        BY <3>2, <4>1 DEF Users
    <3>3. QED
      BY <3>1, <3>2
  <2>2. \A g \in Frame : Users(g) \subseteq Client /\ Users(g)' \subseteq Client
    BY DEF Users
  <2>3. QED
    BY <2>1, <2>2
<1>8. pinCount[f] \in Nat /\ pinCount'[f] = pinCount[f] + 1
      /\ \A g \in Frame \ {f} : pinCount'[g] = pinCount[g]
  BY <1>0, <1>1 DEF TypeInv, TypeOK
<1>9. c \notin Users(f)
  BY <1>3, RecordTypes, Constants DEF Users
<1>10. Leaked' = Leaked
  BY <1>1 DEF Leaked
<1>11. ASSUME f \in Frame \ Leaked PROVE Account(f)'
  <2>1. Account(f)
    BY <1>11 DEF Accounts
  <2>2. pinCount'[f] = Cardinality(Users(f)')
    <3>1. Cardinality(Users(f) \cup {c}) = Cardinality(Users(f)) + 1
      BY <1>9, UsersFinite, FS_AddElement
    <3>2. pinCount[f] = Cardinality(Users(f))
      BY <1>6, <2>1 DEF Account
    <3>3. QED
      BY <1>7, <1>8, <3>1, <3>2
  <2>3. pageId'[f] # NoPage
    BY <1>1, <1>3, <1>6, <2>1 DEF Account
  <2>4. pinCount'[f] # 0
    BY <1>8
  <2>5. QED
    BY <1>1, <1>3, <1>5, <2>2, <2>3, <2>4 DEF Account
<1>12. TakenUnused'
  BY <1>6 DEF TakenUnused, Taken
<1>13. \A g \in Frame \ {f} :
           /\ pageId'[g] = pageId[g] /\ pinCount'[g] = pinCount[g]
           /\ Contains(freeList', g) <=> Contains(freeList, g)
           /\ Contains(lru', g) <=> Contains(lru, g)
           /\ Taken(g)' <=> Taken(g)
           /\ Releasing(g)' <=> Releasing(g)
           /\ Users(g)' = Users(g)
  BY <1>1, <1>5, <1>6, <1>7, <1>8
<1>14. QED
  BY <1>10, <1>11, <1>12, <1>13, AccountsBut DEF StayLeaked

LEMMA AccountsLookup ==
    ASSUME Solo, Solo', Accounts, NEW c \in Client, NEW p \in Page, NEW f \in Frame,
           Lookup(c, p, f)
    PROVE  Accounts'
<1>1. PICK op \in {"fetch", "unpin", "flush"} : Ready(c, op, p, f)
  BY DEF Lookup, FetchHit, UnpinFound, FlushFound
<1>2. call[c].at \in {"", "asleep", "awake"}
  BY <1>1, ReadyAt
<1>3. PICK r \in {Idle, Calling("unpin", "count", p, f), Calling("flush", "force", p, f)} :
          call' = [call EXCEPT ![c] = r]
  BY DEF Lookup, FetchHit, UnpinFound, FlushFound
<1>4. call'[c] = r /\ \A d \in Client \ {c} : call'[d] = call[d]
  BY <1>3 DEF Solo, TypeInv, TypeOK
<1>5. Others(c) /\ Others(c)'
  <2>1. call[c].at # "" \/ MayCall(c)
    BY <1>1, ReadyAt
  <2>2. Others(c)
    BY <2>1, OthersIdle DEF Solo, Others
  <2>3. QED
    BY <1>4, <2>2 DEF Others
<1>6. CASE FetchHit(c, p, f)
  BY <1>5, <1>6, AccountsFetchHit
<1>7. CASE UnpinFound(c, p, f) \/ FlushFound(c, p, f)
  <2>1. UNCHANGED <<pageId, pinCount, table, freeList, lru, hold>>
    BY <1>7 DEF UnpinFound, FlushFound, frameVars, poolVars
  <2>2. r.at \in {"", "count", "force"}
    <3>1. /\ Calling("unpin", "count", p, f).at = "count"
          /\ Calling("flush", "force", p, f).at = "force" /\ Idle.at = ""
      BY DEF Calling, Idle
    <3>2. r = Idle \/ r = Calling("unpin", "count", p, f) \/ r = Calling("flush", "force", p, f)
      OBVIOUS
    <3>3. QED
      BY <3>1, <3>2
  <2>3. ~Loads(c) /\ ~Loads(c)' /\ call[c].at # "release" /\ call'[c].at # "release"
    BY <1>2, <1>4, <2>2 DEF Loads
  <2>4. QED
    BY <1>5, <2>1, <2>3, AccountsKept
<1>8. QED
  BY <1>6, <1>7 DEF Lookup

LEMMA AccountsStartCall ==
    ASSUME Solo, Solo', Accounts, NEW c \in Client, StartCall(c)
    PROVE  Accounts'
<1>0. TypeInv /\ call \in [Client -> CallRecord] /\ hold \in [Client -> HoldRecord]
  BY DEF Solo, TypeInv, TypeOK
<1>1. MayCall(c) /\ call[c] = Idle
  BY DEF StartCall, Sleep, FetchMiss, UnpinNotFound, NewPage, FlushAllPages, Write, MayCall
<1>2. Others(c)
  BY <1>1, OthersIdle DEF Solo, Others
<1>3. ASSUME NEW r, call' = [call EXCEPT ![c] = r], r.at \in {"", "asleep", "scan"},
             UNCHANGED <<pageId, pinCount, table, freeList, lru>>,
             \A d \in Client : hold'[d].frame = hold[d].frame
      PROVE  Accounts'
  <2>1. call'[c] = r /\ \A d \in Client \ {c} : call'[d] = call[d]
    BY <1>0, <1>3
  <2>2. Others(c)'
    BY <1>2, <2>1 DEF Others
  <2>3. ~Loads(c) /\ ~Loads(c)' /\ call[c].at # "release" /\ call'[c].at # "release"
    BY <1>1, <1>3, <2>1, RecordTypes DEF Loads
  <2>4. QED
    BY <1>2, <1>3, <2>2, <2>3, AccountsKept
<1>4. ASSUME NEW op \in {"fetch", "new"}, NEW p \in Page, NEW f \in Frame, Takes(c, op, p, f),
             NEW q, call' = [call EXCEPT ![c] = Calling(op, "write", q, TheFrame)],
             FrameAvailable, TakeFrame
      PROVE  Accounts'
  <2>1. TheFrame = f
    <3>1. call'[c] = Calling(op, "write", q, TheFrame)
      BY <1>0, <1>4
    <3>2. Calling(op, "write", q, TheFrame).frame = TheFrame
      BY DEF Calling
    <3>3. QED
      BY <1>4, <3>1, <3>2 DEF Takes
  <2>2. /\ \A g : Contains(freeList', g) <=> Contains(freeList, g) /\ g # f
        /\ \A g : Contains(lru', g) <=> Contains(lru, g) /\ g # f
    BY <1>0, <1>4, <2>1, FrameTaken
  <2>3. Others(c)'
    BY <1>2, <1>4 DEF Takes, Others
  <2>4. StayLeaked
    <3>1. \A m \in MissingPages : m \in Page /\ m # pageId[f]
      BY Constants DEF Solo, FileInv, FileEnd, TypeInv, TypeOK, Page
    <3>2. \A m \in MissingPages : table[m] \in Frame => table'[m] = table[m]
      BY <1>4, <3>1, Constants DEF Takes
    <3>3. QED
      BY <3>2, TableLeaked
  <2>5. QED
    BY <1>2, <1>4, <2>2, <2>3, <2>4, AccountsTakes
<1>5. ASSUME NEW p \in Page, NEW op \in {"fetch", "unpin", "flush"}, Sleep(c, op, p)
      PROVE  Accounts'
  <2>1. Calling(op, "asleep", p, table[p]).at = "asleep"
    BY DEF Calling
  <2>2. QED
    BY <1>3, <1>5, <2>1 DEF Sleep, frameVars, poolVars
<1>6. ASSUME NEW p \in Page, FetchMiss(c, p)
      PROVE  Accounts'
  <2>1. PICK f \in Frame : Takes(c, "fetch", p, f)
    BY <1>6, FetchMissSound DEF Solo
  <2>2. /\ call' = [call EXCEPT ![c] = Calling("fetch", "write", p, TheFrame)]
        /\ FrameAvailable /\ TakeFrame
    BY <1>6 DEF FetchMiss
  <2>3. QED
    BY <1>4, <2>1, <2>2
<1>7. CASE NewPage(c)
  <2>1. PICK p \in Page, f \in Frame : Takes(c, "new", p, f)
    BY <1>7, NewPageSound DEF Solo
  <2>2. /\ call' = [call EXCEPT ![c] = Calling("new", "write", NextPageId, TheFrame)]
        /\ FrameAvailable /\ TakeFrame
    BY <1>7 DEF NewPage
  <2>3. QED
    BY <1>4, <2>1, <2>2
<1>8. CASE FlushAllPages(c)
  <2>1. [Calling("flushAll", "scan", NoPage, NoFrame) EXCEPT !.todo = MappedFrames].at = "scan"
    BY DEF Calling
  <2>2. QED
    BY <1>3, <1>8, <2>1 DEF FlushAllPages, frameVars, poolVars
<1>9. CASE UnpinNotFound(c)
  <2>1. hold[c] # NoHold /\ table[hold[c].page] = NoFrame
    BY <1>9 DEF UnpinNotFound
  <2>2. QED
    BY <2>1, HeldFrame, Constants DEF Solo
<1>10. CASE Write(c)
  <2>1. /\ call' = [call EXCEPT ![c] = Idle]
        /\ UNCHANGED <<pageId, pinCount, table, freeList, lru>>
        /\ hold' = [hold EXCEPT ![c].wrote = TRUE]
    BY <1>0, <1>1, <1>10 DEF Write, poolVars
  <2>2. \A d \in Client : hold'[d].frame = hold[d].frame
    BY <1>0, <2>1 DEF HoldRecord
  <2>3. QED
    BY <1>3, <2>1, <2>2, RecordTypes
<1>11. QED
  BY <1>5, <1>6, <1>7, <1>8, <1>9, <1>10 DEF StartCall

LEMMA AccountsWriteBack ==
    ASSUME Solo, Accounts, NEW c \in Client, Others(c), Others(c)', WriteBack(c)
    PROVE  Accounts'
<1>1. /\ call[c].at = "write" /\ call' = [call EXCEPT ![c].at = "reset"]
      /\ UNCHANGED <<pageId, pinCount, table, freeList, lru, hold>>
  BY DEF WriteBack, frameVars, poolVars
<1>2. call'[c].at = "reset" /\ call'[c].frame = call[c].frame
  BY <1>1, NextSection DEF Solo, Loads
<1>3. \A g : /\ Taken(g)' <=> Taken(g)
             /\ ~Releasing(g) /\ ~Releasing(g)'
  BY <1>1, <1>2, InCall
<1>4. \A d \in Client \ {c} : call[d].at = "" /\ call'[d].at = ""
  BY RecordTypes DEF Others
<1>5. \A g : Users(g)' = Users(g)
  BY <1>1, <1>2, <1>4 DEF Users
<1>6. TakenUnused'
  <2>1. \A d \in Client : hold[d].frame # call[c].frame
    BY <1>1 DEF Accounts, TakenUnused
  <2>2. \A d \in Client \ {c} : call'[d].at \notin {"write", "reset", "fill"}
    BY <1>4
  <2>3. call'[c].at # "fill"
    BY <1>2
  <2>4. QED
    BY <1>1, <1>2, <2>1, <2>2, <2>3 DEF TakenUnused
<1>7. \A g \in Frame \ Leaked : Account(g)'
  BY <1>1, <1>3, <1>5, AccountKept DEF Accounts
<1>8. QED
  BY <1>1, <1>6, <1>7 DEF Accounts, Leaked

\* The frame is empty now, and taken as before.
LEMMA AccountsReset ==
    ASSUME Solo, Accounts, NEW c \in Client, Others(c), Others(c)', ResetFrame(c)
    PROVE  Accounts'
<1>1. /\ call[c].at = "reset" /\ call' = [call EXCEPT ![c].at = "fill"]
      /\ pageId' = [pageId EXCEPT ![call[c].frame] = NoPage]
      /\ pinCount' = [pinCount EXCEPT ![call[c].frame] = 0]
      /\ UNCHANGED <<table, freeList, lru, hold>>
  BY DEF ResetFrame, poolVars
<1>2. PICK f \in Frame : f = call[c].frame /\ ~Listed(f)
  BY <1>1, LoadFrame DEF Solo, Loads
<1>3. call'[c].at = "fill" /\ call'[c].frame = f
  BY <1>1, <1>2, NextSection DEF Solo, Loads
<1>4. \A g : /\ Taken(g)' <=> Taken(g)
             /\ ~Releasing(g) /\ ~Releasing(g)'
             /\ Taken(g) <=> g = f
  BY <1>1, <1>2, <1>3, InCall
<1>5. \A d \in Client \ {c} : call[d].at = "" /\ call'[d].at = ""
  BY RecordTypes DEF Others
<1>6. \A g : Users(g)' = Users(g)
  BY <1>1, <1>3, <1>5 DEF Users
<1>7. /\ pinCount'[f] = 0
      /\ \A g \in Frame \ {f} : pageId'[g] = pageId[g] /\ pinCount'[g] = pinCount[g]
  BY <1>1, <1>2 DEF Solo, TypeInv, TypeOK
<1>8. TakenUnused'
  <2>1. \A d \in Client : hold[d].frame # f
    BY <1>1, <1>2 DEF Accounts, TakenUnused
  <2>2. \A d \in Client \ {c} : call'[d].at \notin {"write", "reset", "fill"}
    BY <1>5
  <2>3. QED
    BY <1>1, <1>3, <1>7, <2>1, <2>2 DEF TakenUnused
<1>9. Account(f)'
  BY <1>1, <1>2, <1>4 DEF Account, Listed
<1>10. StayLeaked
  BY <1>1 DEF StayLeaked, Leaked
<1>11. \A g \in Frame \ {f} :
          /\ pageId'[g] = pageId[g] /\ pinCount'[g] = pinCount[g]
          /\ Contains(freeList', g) <=> Contains(freeList, g)
          /\ Contains(lru', g) <=> Contains(lru, g)
          /\ Taken(g)' <=> Taken(g)
          /\ Releasing(g)' <=> Releasing(g)
          /\ Users(g)' = Users(g)
  BY <1>1, <1>4, <1>6, <1>7
<1>12. QED
  BY <1>8, <1>9, <1>10, <1>11, AccountsBut

\* The frame has a page, and one pin for the caller that waits for it.
LEMMA AccountsFill ==
    ASSUME Solo, Accounts, NEW c \in Client, Others(c), Others(c)', Fill(c)
    PROVE  Accounts'
<1>1. /\ call[c].at = "fill" /\ call' = [call EXCEPT ![c].at = "publish"]
      /\ pageId' = [pageId EXCEPT ![call[c].frame] = call[c].page]
      /\ pinCount' = [pinCount EXCEPT ![call[c].frame] = @ + 1]
      /\ UNCHANGED <<table, freeList, lru, hold>>
  BY DEF Fill, poolVars
<1>2. PICK f \in Frame, p \in Page : f = call[c].frame /\ p = call[c].page /\ ~Listed(f)
  BY <1>1, LoadFrame DEF Solo, Loads
<1>3. call'[c].at = "publish" /\ call'[c].frame = f
  BY <1>1, <1>2, NextSection DEF Solo, Loads
<1>4. \A g : /\ Taken(g) <=> g = f
             /\ ~Taken(g)' /\ ~Releasing(g) /\ ~Releasing(g)'
  BY <1>1, <1>2, <1>3, InCall
<1>5. \A d \in Client \ {c} : call[d].at = "" /\ call'[d].at = ""
  BY RecordTypes DEF Others
<1>6. pinCount[f] = 0 /\ \A d \in Client : hold[d].frame # f
  BY <1>1, <1>2 DEF Accounts, TakenUnused
<1>7. Users(f)' = {c} /\ \A g \in Frame \ {f} : Users(g)' = Users(g)
  BY <1>1, <1>3, <1>5, <1>6 DEF Users
<1>8. /\ pinCount'[f] = 1 /\ pageId'[f] = p /\ p # NoPage
      /\ \A g \in Frame \ {f} : pageId'[g] = pageId[g] /\ pinCount'[g] = pinCount[g]
  BY <1>1, <1>2, <1>6, Constants DEF Solo, TypeInv, TypeOK
<1>9. TakenUnused'
  BY <1>4 DEF TakenUnused, Taken
<1>10. Account(f)'
  <2>1. pinCount'[f] = Cardinality(Users(f)')
    BY <1>7, <1>8, FS_Singleton
  <2>2. QED
    BY <1>1, <1>2, <1>8, <2>1 DEF Account, Listed
<1>11. StayLeaked
  BY <1>1 DEF StayLeaked, Leaked
<1>12. \A g \in Frame \ {f} :
          /\ pageId'[g] = pageId[g] /\ pinCount'[g] = pinCount[g]
          /\ Contains(freeList', g) <=> Contains(freeList, g)
          /\ Contains(lru', g) <=> Contains(lru, g)
          /\ Taken(g)' <=> Taken(g)
          /\ Releasing(g)' <=> Releasing(g)
          /\ Users(g)' = Users(g)
  BY <1>1, <1>4, <1>7, <1>8
<1>13. QED
  BY <1>9, <1>10, <1>11, <1>12, AccountsBut

\* The frame is lost: the table leads to it from a page that does not exist.
LEMMA AccountsFillThrows ==
    ASSUME Solo, Accounts, NEW c \in Client, Others(c), Others(c)', FillThrows(c)
    PROVE  Accounts'
<1>1. /\ call[c].at = "fill" /\ call[c].op = "fetch" /\ ~(call[c].page < numPages)
      /\ call' = [call EXCEPT ![c] = Idle]
      /\ UNCHANGED <<pageId, pinCount, table, freeList, lru, hold>>
  BY DEF FillThrows, Readable, frameVars, poolVars
<1>2. call'[c] = Idle
  BY <1>1 DEF Solo, TypeInv, TypeOK
<1>3. PICK f \in Frame : f = call[c].frame /\ f \in Leaked
  <2>1. call[c].page \in MissingPages
    BY <1>1 DEF Solo, Sound, OnlyExisting, Exists
  <2>2. call[c].frame \in Frame /\ table[call[c].page] = call[c].frame
    BY <1>1, LoadFrame DEF Solo, Sound, FetchMapped, Loads
  <2>3. QED
    BY <2>1, <2>2 DEF Leaked
<1>4. \A g : /\ Taken(g) <=> g = f
             /\ ~Taken(g)' /\ ~Releasing(g) /\ ~Releasing(g)'
  BY <1>1, <1>2, <1>3, RecordTypes, InCall
<1>5. \A d \in Client \ {c} : call[d].at = "" /\ call'[d].at = ""
  BY RecordTypes DEF Others
<1>6. \A g : Users(g)' = Users(g)
  BY <1>1, <1>2, <1>5, RecordTypes DEF Users
<1>7. TakenUnused'
  BY <1>4 DEF TakenUnused, Taken
<1>8. Leaked' = Leaked
  BY <1>1 DEF Leaked
<1>9. \A g \in Frame \ Leaked : Account(g)'
  BY <1>1, <1>3, <1>4, <1>6, AccountKept DEF Accounts
<1>10. QED
  BY <1>7, <1>8, <1>9 DEF Accounts

\* The caller has the page: the same user as before.
LEMMA AccountsPublish ==
    ASSUME Solo, Accounts, NEW c \in Client, Others(c), Others(c)', Publish(c)
    PROVE  Accounts'
<1>1. /\ call[c].at = "publish"
      /\ table' = table \/ (call[c].op # "fetch" /\ table' = [table EXCEPT ![call[c].page] = call[c].frame])
      /\ UNCHANGED <<pageId, pinCount, freeList, lru>>
  BY DEF Publish
<1>2. PICK f \in Frame, p \in Page : f = call[c].frame /\ p = call[c].page
  BY <1>1, LoadFrame DEF Solo, Loads
<1>3. /\ call'[c] = Idle /\ hold[c] = NoHold /\ hold'[c].frame = f
      /\ \A d \in Client \ {c} : hold'[d] = hold[d]
  <2>1. hold[c] = NoHold
    BY <1>1, LoadFrame DEF Solo, Loads
  <2>2. hold'[c] = [page |-> call[c].page, frame |-> call[c].frame, wrote |-> FALSE]
    BY PublishCalls DEF Solo
  <2>3. hold'[c].frame = f
    BY <1>2, <2>2
  <2>4. QED
    BY <2>1, <2>3, PublishCalls DEF Solo
<1>4. \A g : ~Taken(g) /\ ~Taken(g)' /\ ~Releasing(g) /\ ~Releasing(g)'
  BY <1>1, <1>3, RecordTypes, InCall
<1>5. \A d \in Client \ {c} : call[d].at = "" /\ call'[d].at = ""
  BY RecordTypes DEF Others
<1>6. \A g \in Frame : Users(g)' = Users(g)
  <2>1. ASSUME NEW g \in Frame, NEW d \in Client
        PROVE  hold'[d].frame = g \/ (call'[d].at = "publish" /\ call'[d].frame = g)
               <=> (hold[d].frame = g \/ (call[d].at = "publish" /\ call[d].frame = g))
    <3>1. CASE d = c
      <4>1. call'[d].at # "publish" /\ hold[d].frame # g
        BY <1>3, <3>1, RecordTypes, Constants
      <4>2. QED
        BY <1>1, <1>2, <1>3, <3>1, <4>1
    <3>2. CASE d # c
      BY <1>3, <1>5, <3>2
    <3>3. QED
      BY <3>1, <3>2
  <2>2. QED
    BY <2>1 DEF Users
<1>7. TakenUnused'
  BY <1>4 DEF TakenUnused, Taken
<1>8. Leaked' = Leaked
  <2>1. CASE table' = table
    BY <2>1 DEF Leaked
  <2>2. CASE call[c].op # "fetch" /\ table' = [table EXCEPT ![p] = f]
    <3>1. call[c].op = "new"
      BY <1>1, <2>2, LoadFrame DEF Solo, Loads
    <3>2. \A q \in MissingPages : q # p /\ q \in Page
      BY <1>2, <3>1, Constants DEF Solo, FileInv, FileEnd, TypeInv, TypeOK, Page
    <3>3. \A q \in MissingPages : table'[q] = table[q]
      BY <2>2, <3>2 DEF Solo, TypeInv, TypeOK
    <3>4. QED
      BY <3>3 DEF Leaked
  <2>3. QED
    BY <1>1, <1>2, <2>1, <2>2
<1>9. \A g \in Frame \ Leaked : Account(g)'
  BY <1>1, <1>4, <1>6, AccountKept DEF Accounts
<1>10. QED
  BY <1>7, <1>8, <1>9 DEF Accounts

\* A pin less for a user less; a frame without its page is one that a load lost.
LEMMA AccountsUnpin ==
    ASSUME Solo, Accounts, NEW c \in Client, Others(c), Others(c)', Unpin(c)
    PROVE  Accounts'
<1>0. TypeInv /\ pinCount \in [Frame -> Nat] /\ call \in [Client -> CallRecord]
  BY DEF Solo, TypeInv, TypeOK
<1>1. /\ call[c].at = "count"
      /\ UNCHANGED <<pageId, table, freeList, lru>>
  BY DEF Unpin, poolVars
<1>2. PICK f \in Frame, p \in Page : f = call[c].frame /\ p = call[c].page
  BY <1>0, <1>1, Typed DEF CallFormed
<1>3. hold[c] # NoHold /\ hold[c].frame = f /\ hold[c].page = p /\ table[p] = f
  <2>1. call[c].op = "unpin"
    BY <1>0, <1>1, Typed DEF CallFormed
  <2>2. hold[c] # NoHold /\ call[c].page = hold[c].page /\ call[c].frame = hold[c].frame
    BY <1>1, <2>1 DEF Solo, Sound, UnpinsOwn
  <2>3. QED
    BY <1>2, <2>2, HeldFrame DEF Solo
<1>4. /\ hold'[c] = NoHold
      /\ call'[c] = Idle \/ (call'[c].at = "release" /\ call'[c].frame = f /\ pinCount[f] = 1)
      /\ \A d \in Client \ {c} : hold'[d] = hold[d]
  BY <1>0, <1>2, UnpinCalls
<1>5. \A g : /\ ~Taken(g) /\ ~Taken(g)' /\ ~Releasing(g)
             /\ Releasing(g)' <=> call'[c].at = "release" /\ g = f
  BY <1>1, <1>2, <1>4, RecordTypes, InCall
<1>6. \A d \in Client : call[d].at # "publish" /\ call'[d].at # "publish"
  BY <1>1, <1>4, RecordTypes DEF Others
<1>7. \A g \in Frame : Users(g)' = IF g = f THEN Users(f) \ {c} ELSE Users(g)
  BY <1>3, <1>4, <1>6, RecordTypes, Constants, ZenonT(60) DEF Users
<1>8. TakenUnused'
  BY <1>5 DEF TakenUnused, Taken
<1>9. Leaked' = Leaked
  BY <1>1 DEF Leaked
<1>10. ASSUME f \notin Leaked PROVE pageId[f] = p
  <2>1. p \notin MissingPages
    BY <1>3, <1>10 DEF Leaked
  <2>2. \A d \in Client : ~(call[d].at \in {"write", "reset", "fill"} /\ call[d].frame = f)
    BY <1>5 DEF Taken
  <2>3. QED
    BY <1>2, <1>3, <2>1, <2>2, Constants DEF Solo, Sound, TableSound
<1>11. \A g \in Frame \ {f} : pinCount'[g] = pinCount[g]
  <2>1. \/ pinCount' = [pinCount EXCEPT ![f] = IF @ > 0 THEN @ - 1 ELSE 0]
        \/ pinCount' = pinCount
    BY <1>2 DEF Unpin
  <2>2. QED
    BY <1>0, <2>1
<1>12. ASSUME f \notin Leaked PROVE Account(f)'
  <2>1. Account(f)
    BY <1>12 DEF Accounts
  <2>2. pageId[f] = p
    BY <1>10, <1>12
  <2>3. c \in Users(f) /\ pinCount[f] = Cardinality(Users(f))
    BY <1>3, <1>5, <2>1 DEF Users, Account
  <2>4. pinCount[f] \in Nat /\ pinCount[f] > 0
    BY <1>0, <2>3, UsersFinite
  <2>5. /\ pinCount' = [pinCount EXCEPT ![f] = IF @ > 0 THEN @ - 1 ELSE 0]
        /\ pinCount[f] = 1 => call' = [call EXCEPT ![c] = [@ EXCEPT !.at = "release"]]
    BY <1>2, <2>2 DEF Unpin
  <2>6. pinCount'[f] = pinCount[f] - 1
    BY <1>0, <2>4, <2>5
  <2>7. pinCount'[f] = Cardinality(Users(f)')
    <3>1. Cardinality(Users(f) \ {c}) = Cardinality(Users(f)) - 1
      BY <2>3, UsersFinite
    <3>2. Users(f)' = Users(f) \ {c}
      BY <1>7
    <3>3. QED
      BY <2>3, <2>6, <3>1, <3>2
  <2>8. pinCount[f] = 1 => call'[c].at = "release"
    BY <1>0, <2>5 DEF CallRecord
  <2>9. pinCount'[f] = 0 <=> Releasing(f)'
    <3>1. Releasing(f)' <=> call'[c].at = "release"
      BY <1>5
    <3>2. pinCount[f] # 1 => call'[c].at # "release"
      BY <1>4, RecordTypes
    <3>3. pinCount'[f] = 0 <=> pinCount[f] = 1
      BY <2>4, <2>6
    <3>4. QED
      BY <2>8, <3>1, <3>2, <3>3
  <2>10. ~Contains(lru, f)
    BY <2>1, <2>4 DEF Account
  <2>11. QED
    BY <1>1, <1>5, <2>1, <2>7, <2>9, <2>10 DEF Account
<1>13. \A g \in Frame \ {f} :
           /\ pageId'[g] = pageId[g] /\ pinCount'[g] = pinCount[g]
           /\ Contains(freeList', g) <=> Contains(freeList, g)
           /\ Contains(lru', g) <=> Contains(lru, g)
           /\ Taken(g)' <=> Taken(g)
           /\ Releasing(g)' <=> Releasing(g)
           /\ Users(g)' = Users(g)
  BY <1>1, <1>5, <1>7, <1>11
<1>14. QED
  BY <1>8, <1>9, <1>12, <1>13, AccountsBut DEF StayLeaked

\* The frame joins the LRU list, which has room for it.
LEMMA AccountsRelease ==
    ASSUME Solo, Accounts, NEW c \in Client, Others(c), Others(c)', Release(c)
    PROVE  Accounts'
<1>0. TypeInv
  BY DEF Solo
<1>1. /\ call[c].at = "release" /\ call' = [call EXCEPT ![c] = Idle]
      /\ lru' = AfterUnpin(lru, call[c].frame, PoolSize)
      /\ UNCHANGED <<pageId, pinCount, table, freeList, hold>>
  BY DEF Release, frameVars
<1>2. PICK f \in Frame : f = call[c].frame
  BY <1>0, <1>1, Typed DEF CallFormed
<1>3. pinCount[f] = 0 /\ pageId[f] # NoPage
  BY <1>1, <1>2 DEF Solo, OneThread
<1>4. call'[c] = Idle
  BY <1>0, <1>1 DEF TypeInv, TypeOK
<1>5. \A g : /\ ~Taken(g) /\ ~Taken(g)' /\ ~Releasing(g)'
             /\ Releasing(g) <=> g = f
  BY <1>1, <1>2, <1>4, RecordTypes, InCall
<1>6. \A d \in Client : call[d].at # "publish" /\ call'[d].at # "publish"
  BY <1>1, <1>4, RecordTypes DEF Others
<1>7. \A g : Users(g)' = Users(g)
  BY <1>1, <1>6 DEF Users
<1>8. \A g : Contains(lru', g) <=> Contains(lru, g) \/ g = f
  <2>1. lru \in Seq(Frame) /\ IsInjective(lru) /\ PoolSize \in Nat \ {0}
    BY <1>0, ListsTyped, PoolSizeAssumption
  <2>2. Len(lru) < PoolSize \/ Contains(lru, f)
    BY <1>2, <2>1, RoomForOne DEF Frame
  <2>3. lru' = AfterUnpin(lru, f, PoolSize)
    BY <1>1, <1>2
  <2>4. \A g : Contains(AfterUnpin(lru, f, PoolSize), g) <=> Contains(lru, g) \/ g = f
    BY <2>1, <2>2, UnpinAdds
  <2>5. QED
    BY <2>3, <2>4
<1>9. TakenUnused'
  BY <1>5 DEF TakenUnused, Taken
<1>10. Leaked' = Leaked
  BY <1>1 DEF Leaked
<1>11. f \in Frame \ Leaked => Account(f)'
  BY <1>1, <1>3, <1>5, <1>7, <1>8 DEF Accounts, Account
<1>12. \A g \in Frame \ {f} :
           /\ pageId'[g] = pageId[g] /\ pinCount'[g] = pinCount[g]
           /\ Contains(freeList', g) <=> Contains(freeList, g)
           /\ Contains(lru', g) <=> Contains(lru, g)
           /\ Taken(g)' <=> Taken(g)
           /\ Releasing(g)' <=> Releasing(g)
           /\ Users(g)' = Users(g)
  BY <1>1, <1>5, <1>7, <1>8
<1>13. QED
  BY <1>9, <1>10, <1>11, <1>12, AccountsBut DEF StayLeaked

LEMMA AccountsCallStep ==
    ASSUME Solo, Solo', Accounts, NEW c \in Client, CallStep(c)
    PROVE  Accounts'
<1>0. TypeInv /\ call \in [Client -> CallRecord]
  BY DEF Solo, TypeInv, TypeOK
<1>1. call[c].at # ""
  BY ZenonT(60) DEF CallStep, SleepAgain, WriteBack, ResetFrame, Fill, FillThrows, Publish,
     Unpin, Release, FlushWrite, Scan
<1>2. Others(c)
  BY <1>1, OthersIdle DEF Solo, Others
<1>3. ASSUME \A d \in Client \ {c} : call'[d] = call[d] PROVE Others(c)'
  BY <1>2, <1>3 DEF Others
<1>4. CASE WriteBack(c) \/ ResetFrame(c) \/ Fill(c)
  <2>1. PICK a \in {"reset", "fill", "publish"} : call' = [call EXCEPT ![c].at = a]
    BY <1>4 DEF WriteBack, ResetFrame, Fill
  <2>2. Others(c)'
    BY <1>0, <1>3, <2>1
  <2>3. QED
    BY <1>2, <1>4, <2>2, AccountsWriteBack, AccountsReset, AccountsFill
<1>5. CASE FillThrows(c) \/ Release(c)
  <2>1. Others(c)'
    BY <1>0, <1>3, <1>5 DEF FillThrows, Release
  <2>2. QED
    BY <1>2, <1>5, <2>1, AccountsFillThrows, AccountsRelease
<1>6. CASE Publish(c)
  <2>1. \A d \in Client \ {c} : call'[d] = call[d] \/ call[d].at = "asleep"
    BY <1>0, <1>6, PublishCalls
  <2>2. Others(c)'
    BY <1>2, <1>3, <2>1, RecordTypes DEF Others
  <2>3. QED
    BY <1>2, <1>6, <2>2, AccountsPublish
<1>7. CASE Unpin(c)
  <2>1. Others(c)'
    BY <1>0, <1>3, <1>7, UnpinCalls
  <2>2. QED
    BY <1>2, <1>7, <2>1, AccountsUnpin
<1>8. ASSUME call[c].at \in {"awake", "force", "scan"},
             call'[c] = Idle \/ call'[c].at \in {"asleep", "scan"},
             \A d \in Client \ {c} : call'[d] = call[d],
             UNCHANGED <<pageId, pinCount, table, freeList, lru, hold>>
      PROVE  Accounts'
  <2>1. Others(c)'
    BY <1>3, <1>8
  <2>2. ~Loads(c) /\ ~Loads(c)' /\ call[c].at # "release" /\ call'[c].at # "release"
    BY <1>8, RecordTypes DEF Loads
  <2>3. QED
    BY <1>2, <1>8, <2>1, <2>2, AccountsKept
<1>9. CASE SleepAgain(c)
  <2>1. /\ call[c].at = "awake" /\ call' = [call EXCEPT ![c].at = "asleep"]
        /\ UNCHANGED <<pageId, pinCount, table, freeList, lru, hold>>
    BY <1>9 DEF SleepAgain, frameVars, poolVars
  <2>2. call'[c].at = "asleep" /\ \A d \in Client \ {c} : call'[d] = call[d]
    BY <1>0, <2>1 DEF CallRecord
  <2>3. QED
    BY <1>8, <2>1, <2>2
<1>10. CASE FlushWrite(c)
  <2>1. /\ call[c].at = "force" /\ call' = [call EXCEPT ![c] = Idle]
        /\ UNCHANGED <<pageId, pinCount, table, freeList, lru, hold>>
    BY <1>10 DEF FlushWrite, poolVars
  <2>2. call'[c] = Idle /\ \A d \in Client \ {c} : call'[d] = call[d]
    BY <1>0, <2>1
  <2>3. QED
    BY <1>8, <2>1, <2>2
<1>11. ASSUME NEW f \in Frame, Scan(c, f) PROVE Accounts'
  <2>1. /\ call[c].at = "scan"
        /\ UNCHANGED <<pageId, pinCount, table, freeList, lru, hold>>
    BY <1>11 DEF Scan, poolVars
  <2>2. /\ call'[c] = Idle \/ call'[c].at = "scan"
        /\ \A d \in Client \ {c} : call'[d] = call[d]
    BY <1>0, <1>11, ScanCalls
  <2>3. QED
    BY <1>8, <2>1, <2>2
<1>12. QED
  BY <1>4, <1>5, <1>6, <1>7, <1>9, <1>10, <1>11 DEF CallStep

LEMMA StartedAccounts == Started => Accounts
<1> SUFFICES ASSUME Started PROVE Accounts
  OBVIOUS
<1>1. \A c \in Client : call[c].at = "" /\ hold[c].frame = NoFrame
  BY RecordTypes DEF Started
<1>2. \A f \in Frame : ~Taken(f) /\ ~Releasing(f) /\ Users(f) = {}
  BY <1>1, Constants DEF Taken, Releasing, Users
<1>3. \A f \in Frame : Contains(freeList, f)
  <2> SUFFICES ASSUME NEW f \in Frame PROVE Contains(freeList, f)
    OBVIOUS
  <2>1. freeList = AllFrames
    BY DEF Started
  <2>2. Len(AllFrames) = PoolSize
    BY PoolSizeAssumption, AllFramesTyped, LenProperties DEF AllFrames
  <2>3. PICK i \in 1..PoolSize : i - 1 = f
    <3>1. f + 1 \in 1..PoolSize /\ (f + 1) - 1 = f
      BY PoolSizeAssumption DEF Frame
    <3>2. QED
      BY <3>1
  <2>4. AllFrames[i] = f
    BY <2>3 DEF AllFrames
  <2>5. QED
    BY <2>1, <2>2, <2>3, <2>4 DEF Contains
<1>4. \A f : ~Contains(lru, f)
  BY AllFramesTyped DEF Started
<1>5. \A f \in Frame : Account(f)
  <2>1. \A f \in Frame : pageId[f] = NoPage /\ pinCount[f] = 0
    BY DEF Started
  <2>2. QED
    BY <1>2, <1>3, <1>4, <2>1, FS_EmptySet DEF Account
<1>6. TakenUnused
  BY <1>1 DEF TakenUnused
<1>7. QED
  BY <1>5, <1>6 DEF Accounts

LEMMA AccountsStep ==
    ASSUME Solo, Solo', Accounts, [Next]_vars
    PROVE  Accounts'
<1>1. CASE UNCHANGED vars
  <2>1. UNCHANGED <<pageId, pinCount, table, freeList, lru, call, hold>>
    BY <1>1 DEF vars, frameVars, poolVars
  <2>2. TakenUnused' /\ Leaked' = Leaked
    BY <2>1 DEF Accounts, TakenUnused, Leaked
  <2>3. \A f : /\ Taken(f)' <=> Taken(f)
               /\ Releasing(f)' <=> Releasing(f)
               /\ Users(f)' = Users(f)
    BY <2>1 DEF Taken, Releasing, Users
  <2>4. \A f \in Frame \ Leaked : Account(f)'
    BY <2>1, <2>3, AccountKept DEF Accounts
  <2>5. QED
    BY <2>2, <2>4 DEF Accounts
<1>2. CASE CrashAndReopen
  <2>1. Started'
    BY <1>2, CrashStarted DEF Solo
  <2>2. QED
    BY <2>1, StartedAccounts, PTL
<1>3. CASE Next /\ ~CrashAndReopen
  BY <1>3, AccountsCallStep, AccountsLookup, AccountsStartCall DEF Next
<1>4. QED
  BY <1>1, <1>2, <1>3

LEMMA SoloAccounted == Solo /\ Accounts => FramesAccounted
<1> SUFFICES ASSUME Solo, Accounts, Quiet PROVE FramesAccounted
  BY DEF FramesAccounted
<1>1. \A c \in Client : call[c].at = ""
  BY RecordTypes DEF Quiet
<1>2. \A f : ~Taken(f) /\ ~Releasing(f) /\ ~Stale(f) /\ Users(f) = Holders(f)
  BY <1>1 DEF Taken, Releasing, Stale, Users, Holders
<1>3. ASSUME NEW f \in Frame \ Leaked
      PROVE  /\ pinCount[f] = Cardinality(Holders(f))
             /\ Contains(freeList, f) <=> pageId[f] = NoPage
             /\ Contains(lru, f) <=> pageId[f] # NoPage /\ pinCount[f] = 0
  BY <1>2 DEF Accounts, Account
<1>4. ASSUME NEW p \in Page \ MissingPages, NEW f \in Frame
      PROVE  table[p] = f <=> pageId[f] = p
  <2>1. table[p] = f => pageId[f] = p
    BY <1>1, Constants DEF Solo, Sound, TableSound
  <2>2. pageId[f] = p => table[p] = f
    BY <1>1, <1>2, Constants DEF Solo, Sound, FramesMapped
  <2>3. QED
    BY <2>1, <2>2
<1>5. QED
  BY <1>3, <1>4 DEF FramesAccounted

\* With one thread no frame is ever lost, but for those of loads that threw
\* (FramesAccounted in BufferPool): between calls each is free, evictable or
\* pinned as often as it is held, and page_table_ finds exactly the pages there are.
THEOREM FramesAlwaysAccounted == Spec /\ ~Concurrent => []FramesAccounted
<1>1. ~Concurrent => (Init /\ [][Next]_vars => []FramesAccounted)
  <2> SUFFICES ASSUME ~Concurrent PROVE Init /\ [][Next]_vars => []FramesAccounted
    OBVIOUS
  <2>1. Inv /\ [Next]_vars => Inv'
    BY InvStep
  <2>2. Inv /\ Inv' => Solo /\ Solo'
    BY InvSolo, PTL
  <2>3. Inv /\ Inv' /\ Accounts /\ [Next]_vars => Accounts'
    BY <2>2, AccountsStep
  <2>4. Inv /\ Accounts => FramesAccounted
    BY InvSolo, SoloAccounted
  <2>5. Init => Accounts
    BY InitStarted, StartedAccounts
  <2>6. QED
    BY InitInv, <2>1, <2>3, <2>4, <2>5, PTL
<1>2. QED
  BY <1>1 DEF Spec
=============================================================================
