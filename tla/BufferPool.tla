----------------------------- MODULE BufferPool -----------------------------
(***************************************************************************)
(* The buffer pool manager (src/src/buffer/buffer_pool_manager.cpp) with   *)
(* its frames (src/src/storage/page.h), the LRU replacer and the disk.     *)
(*                                                                         *)
(* A caller's function call is a chain of critical sections: under the     *)
(* pool's latch_, then under the frame's page latch, then under latch_     *)
(* again.  One action is one critical section; call[c] records the call    *)
(* client c is in and the section that comes next.  Loading a page holds   *)
(* the page latch over three actions (WriteBack, ResetFrame, Fill),        *)
(* because the flags Reset clears are read by others without that latch.   *)
(*                                                                         *)
(* A client keeps to the pool's protocol: it unpins the page it fetched,   *)
(* once, and says so if it wrote to it.  A call that returns nullptr or    *)
(* false before it changed anything is not a step.                         *)
(***************************************************************************)
EXTENDS Integers, Sequences, FiniteSets, DiskManager, LRUReplacer

CONSTANTS
    Client,       \* callers; each one uses at most one page at a time
    PoolSize,     \* pool_size_, the number of frames
    MaxVersion,   \* bound: no page is written more often than this
    WrittenPages, \* bound: the pages that clients write to
    MaxPins,      \* bound: no fetch of a page whose frame has this many pins
    Concurrent,   \* FALSE: one thread, one call after another
    MayCrash,     \* TRUE: the process may die and be started again
    MissingPages  \* page ids asked for too that are never allocated

ASSUME PoolSizeAssumption == PoolSize \in Nat \ {0}
ASSUME ClientAssumption == IsFiniteSet(Client)
ASSUME SwitchAssumption == Concurrent \in BOOLEAN /\ MayCrash \in BOOLEAN
ASSUME BoundAssumption == MaxVersion \in Nat /\ MaxPins \in Nat
ASSUME PagesAssumption == MissingPages \subseteq Page /\ WrittenPages \subseteq Page

VARIABLES
    pageId,     \* page_id_ of each frame, NoPage for INVALID_PAGE_ID
    data,       \* data_
    pinCount,   \* pin_count_
    dirty,      \* is_dirty_
    loading,    \* is_loading_
    table,      \* page_table_: the frame of a page, or NoFrame
    freeList,   \* free_list_
    lru,        \* replacer_
    call,       \* the call each client is in the middle of
    hold,       \* the Page* each client has and has not unpinned
    latest,     \* history: the last content written to each page
    raced       \* history: two threads have met in one of the ways below

frameVars == <<pageId, data, pinCount, dirty, loading>>
poolVars  == <<table, freeList, lru>>
history == <<latest, raced>>
vars == <<frameVars, poolVars, diskVars, call, hold, history>>

Frame == 0..(PoolSize - 1)
NoPage  == -1
NoFrame == -1

\* A page's content: how often it has been written, by any client, up to then.
Written(p, v) == <<p, v>>
Contents == {Zeros} \cup {Written(p, v) : p \in Page, v \in 1..MaxVersion}
Version(content) == IF content = Zeros THEN 0 ELSE content[2]

Idle == [op |-> "idle", at |-> "", page |-> NoPage, frame |-> NoFrame, todo |-> {}]
NoHold == [page |-> NoPage, frame |-> NoFrame, wrote |-> FALSE]

Calling(op, at, p, f) == [op |-> op, at |-> at, page |-> p, frame |-> f, todo |-> {}]

\* The constructor's free_list_: every frame, in order.
AllFrames == [i \in 1..PoolSize |-> i - 1]

\* The constructor on an empty file: every frame is empty and free.
Init ==
    /\ DiskInit(0)
    /\ pageId = [f \in Frame |-> NoPage]
    /\ data = [f \in Frame |-> Zeros]
    /\ pinCount = [f \in Frame |-> 0]
    /\ dirty = [f \in Frame |-> FALSE]
    /\ loading = [f \in Frame |-> FALSE]
    /\ table = [p \in Page |-> NoFrame]
    /\ freeList = AllFrames
    /\ lru = <<>>
    /\ call = [c \in Client |-> Idle]
    /\ hold = [c \in Client |-> NoHold]
    /\ latest = disk
    /\ raced = FALSE

\* A client may start a call when it is in none, and no one else is either
\* unless the run has several threads.
MayCall(c) ==
    /\ call[c] = Idle
    /\ Concurrent \/ \A d \in Client : call[d] = Idle

\* The page latch of f is free: no one is between WriteBack and Fill.
Unlatched(f) ==
    \A c \in Client : ~(call[c].frame = f /\ call[c].at \in {"reset", "fill"})

-----------------------------------------------------------------------------
(***************************************************************************)
(* The four ways in which the calls of several threads may meet that the   *)
(* code does not exclude, and that may give a caller a page it did not ask *)
(* for or an old one.  Each sets `raced`: a thread woken after a load      *)
(* finds the frame taken for another page (FetchHit); a page is read back  *)
(* from disk while its last write is still in the frame it was evicted     *)
(* from (Fill); a frame is made evictable while someone uses it, or after  *)
(* a load into it threw (Release); a flush writes a page from the frame it *)
(* was evicted from (FlushWrite).                                          *)
(***************************************************************************)

\* A frame with writes to p that the disk has not got.
Outdated(p) == \E g \in Frame : pageId[g] = p /\ dirty[g]

\* Frame f is pinned, or about to be, as a call is loading a page into it, or
\* lost, as the load of a page that does not exist has left it.
InUse(f) ==
    \/ pinCount[f] > 0
    \/ pageId[f] = NoPage
    \/ \E d \in Client : call[d].frame = f /\ call[d].at \in {"write", "reset", "fill", "publish"}

-----------------------------------------------------------------------------
(***************************************************************************)
(* Sections that look a page up in page_table_.  On a frame that is being  *)
(* loaded the caller sleeps on the frame's condition variable; woken, it   *)
(* looks at the frame again but not at the table.                          *)
(***************************************************************************)

\* Pages that exist and whose NewPage has returned.
Known(p) ==
    /\ p < numPages
    /\ \A c \in Client : ~(call[c].op = "new" /\ call[c].page = p)

\* What client c may ask for.
MayAsk(c, op, p) ==
    CASE op = "fetch" -> /\ hold[c] = NoHold
                         /\ Known(p) \/ p \in MissingPages
                         /\ table[p] # NoFrame => pinCount[table[p]] < MaxPins
      [] op = "unpin" -> hold[c] # NoHold /\ p = hold[c].page
      [] op = "flush" -> Known(p)

\* WaitUntilReady goes to sleep.
Sleep(c, op, p) ==
    /\ MayCall(c)
    /\ MayAsk(c, op, p)
    /\ table[p] # NoFrame
    /\ loading[table[p]]
    /\ call' = [call EXCEPT ![c] = Calling(op, "asleep", p, table[p])]
    /\ UNCHANGED <<frameVars, poolVars, diskVars, hold, history>>

\* Woken up, but by then the frame is loading again.
SleepAgain(c) ==
    /\ call[c].at = "awake"
    /\ loading[call[c].frame]
    /\ call' = [call EXCEPT ![c].at = "asleep"]
    /\ UNCHANGED <<frameVars, poolVars, diskVars, hold, history>>

\* Mutant: no one waits for a load to end.
ReadyAtOnce(c, op, p, f) ==
    \/ MayCall(c) /\ MayAsk(c, op, p) /\ table[p] = f
    \/ \E at \in {"asleep", "awake"} : call[c] = Calling(op, at, p, f)

\* WaitUntilReady returns with frame f: at once, or after the notification
\* (or, as condition variables may, without one).
Ready(c, op, p, f) ==
    /\ \/ MayCall(c) /\ MayAsk(c, op, p) /\ table[p] = f
       \/ \E at \in {"asleep", "awake"} : call[c] = Calling(op, at, p, f)
    /\ ~loading[f]

\* Mutant: a hit leaves the frame among the evictable ones.
PinFrameOnly(f) ==
    /\ pinCount' = [pinCount EXCEPT ![f] = @ + 1]
    /\ UNCHANGED lru

\* A hit: IncrementPinCount and replacer_->Pin.
PinFrame(f) ==
    /\ pinCount' = [pinCount EXCEPT ![f] = @ + 1]
    /\ lru' = AfterPin(lru, f)

FetchHit(c, p, f) ==
    /\ Ready(c, "fetch", p, f)
    /\ PinFrame(f)
    /\ hold' = [hold EXCEPT ![c] = [page |-> p, frame |-> f, wrote |-> FALSE]]
    /\ call' = [call EXCEPT ![c] = Idle]
    /\ raced' = (raced \/ table[p] # f)
    /\ UNCHANGED <<pageId, data, dirty, loading, table, freeList, diskVars, latest>>

UnpinFound(c, p, f) ==
    /\ Ready(c, "unpin", p, f)
    /\ call' = [call EXCEPT ![c] = Calling("unpin", "count", p, f)]
    /\ UNCHANGED <<frameVars, poolVars, diskVars, hold, history>>

\* UnpinPage returns false: the page is not in the pool.
UnpinNotFound(c) ==
    /\ MayCall(c)
    /\ hold[c] # NoHold
    /\ table[hold[c].page] = NoFrame
    /\ hold' = [hold EXCEPT ![c] = NoHold]
    /\ UNCHANGED <<frameVars, poolVars, diskVars, call, history>>

FlushFound(c, p, f) ==
    /\ Ready(c, "flush", p, f)
    /\ call' = [call EXCEPT ![c] = Calling("flush", "force", p, f)]
    /\ UNCHANGED <<frameVars, poolVars, diskVars, hold, history>>

-----------------------------------------------------------------------------
(***************************************************************************)
(* Taking a frame: FetchPage on a miss, and NewPage.                       *)
(***************************************************************************)

\* FindFreeFrame: the free list first, then the replacer.
FrameAvailable == freeList # <<>> \/ CanEvict(lru)
TheFrame == IF freeList # <<>> THEN Head(freeList) ELSE EvictedFrame(lru)

\* FindFreeFrame's removal, and replacer_->Pin of the frame found.
TakeFrame ==
    IF freeList # <<>>
    THEN freeList' = Tail(freeList) /\ lru' = AfterPin(lru, TheFrame)
    ELSE freeList' = freeList /\ lru' = AfterPin(AfterEvict(lru), TheFrame)

\* Mutant: the mapping of the page in the frame is left in the table.
WithoutOldPageKept(f) == table

\* page_table_.erase(old_page_id)
WithoutOldPage(f) ==
    IF pageId[f] = NoPage THEN table ELSE [table EXCEPT ![pageId[f]] = NoFrame]

\* A miss: the mapping is made at once, the frame marked as loading.
FetchMiss(c, p) ==
    /\ MayCall(c)
    /\ MayAsk(c, "fetch", p)
    /\ table[p] = NoFrame
    /\ FrameAvailable
    /\ TakeFrame
    /\ table' = [WithoutOldPage(TheFrame) EXCEPT ![p] = TheFrame]
    /\ loading' = [loading EXCEPT ![TheFrame] = TRUE]
    /\ call' = [call EXCEPT ![c] = Calling("fetch", "write", p, TheFrame)]
    /\ UNCHANGED <<pageId, data, pinCount, dirty, diskVars, hold, history>>

\* NewPage allocates the page on disk and makes the mapping at the end.
NewPage(c) ==
    /\ MayCall(c)
    /\ hold[c] = NoHold
    /\ numPages < MaxPages /\ numPages \notin MissingPages
    /\ FrameAvailable
    /\ TakeFrame
    /\ table' = WithoutOldPage(TheFrame)
    /\ AllocatePage
    /\ call' = [call EXCEPT ![c] = Calling("new", "write", NextPageId, TheFrame)]
    /\ UNCHANGED <<frameVars, hold, history>>

\* Under the page latch: the page that was in the frame goes to disk if dirty.
WriteBack(c) ==
    LET f == call[c].frame
    IN  /\ call[c].at = "write"
        /\ Unlatched(f)
        /\ IF dirty[f] THEN WritePage(pageId[f], data[f]) ELSE UNCHANGED disk
        /\ call' = [call EXCEPT ![c].at = "reset"]
        /\ UNCHANGED <<frameVars, poolVars, numPages, hold, history>>

\* Page::Reset, which clears the loading flag too.
ResetFrame(c) ==
    LET f == call[c].frame
    IN  /\ call[c].at = "reset"
        /\ data' = [data EXCEPT ![f] = Zeros]
        /\ pageId' = [pageId EXCEPT ![f] = NoPage]
        /\ pinCount' = [pinCount EXCEPT ![f] = 0]
        /\ dirty' = [dirty EXCEPT ![f] = FALSE]
        /\ loading' = [loading EXCEPT ![f] = FALSE]
        /\ call' = [call EXCEPT ![c].at = "fill"]
        /\ UNCHANGED <<poolVars, diskVars, hold, history>>

\* FetchPage reads the page in; NewPage leaves the zeros.  Either pins it.
Fill(c) ==
    LET f == call[c].frame
        p == call[c].page
    IN  /\ call[c].at = "fill"
        /\ call[c].op = "fetch" => Readable(p)
        /\ data' = IF call[c].op = "fetch"
                   THEN [data EXCEPT ![f] = ReadPage(p)] ELSE data
        /\ pageId' = [pageId EXCEPT ![f] = p]
        /\ pinCount' = [pinCount EXCEPT ![f] = @ + 1]
        /\ dirty' = [dirty EXCEPT ![f] = FALSE]
        /\ call' = [call EXCEPT ![c].at = "publish"]
        /\ raced' = (raced \/ Outdated(p))
        /\ UNCHANGED <<loading, poolVars, diskVars, hold, latest>>

\* ReadPage throws and FetchPage lets it pass: nothing is undone.
FillThrows(c) ==
    /\ call[c].at = "fill"
    /\ call[c].op = "fetch"
    /\ ~Readable(call[c].page)
    /\ call' = [call EXCEPT ![c] = Idle]
    /\ UNCHANGED <<frameVars, poolVars, diskVars, hold, history>>

\* Mutant: the page is published but no one is notified.
WokenNone(f) == call

\* NotifyReady: everyone asleep on the frame's condition variable.
Woken(f) ==
    [d \in Client |-> IF call[d].at = "asleep" /\ call[d].frame = f
                      THEN [call[d] EXCEPT !.at = "awake"] ELSE call[d]]

\* The last section, under latch_: the page is returned.
Publish(c) ==
    LET f == call[c].frame
        p == call[c].page
    IN  /\ call[c].at = "publish"
        /\ IF call[c].op = "fetch"
           THEN /\ loading' = [loading EXCEPT ![f] = FALSE]
                /\ call' = [Woken(f) EXCEPT ![c] = Idle]
                /\ UNCHANGED table
           ELSE /\ table' = [table EXCEPT ![p] = f]
                /\ call' = [call EXCEPT ![c] = Idle]
                /\ UNCHANGED loading
        /\ hold' = [hold EXCEPT ![c] = [page |-> p, frame |-> f, wrote |-> FALSE]]
        /\ UNCHANGED <<pageId, data, pinCount, dirty, freeList, lru, diskVars, history>>

-----------------------------------------------------------------------------
(***************************************************************************)
(* Unpinning, flushing, and the client's own writes.                       *)
(***************************************************************************)

\* Mutant: page->SetDirty(is_dirty) instead of only ever setting the flag.
DirtyAfterUnpinOverwritten(f, wrote) == wrote

DirtyAfterUnpin(f, wrote) == dirty[f] \/ wrote

\* Under the page latch: the count goes down, unless the frame changed hands.
Unpin(c) ==
    LET f    == call[c].frame
        last == pinCount[f] = 1
    IN  /\ call[c].at = "count"
        /\ Unlatched(f)
        /\ IF pageId[f] = call[c].page
           THEN /\ dirty' = [dirty EXCEPT ![f] = DirtyAfterUnpin(f, hold[c].wrote)]
                /\ pinCount' = [pinCount EXCEPT ![f] = IF @ > 0 THEN @ - 1 ELSE 0]
                /\ call' = [call EXCEPT ![c] = IF last THEN [@ EXCEPT !.at = "release"] ELSE Idle]
           ELSE /\ call' = [call EXCEPT ![c] = Idle]
                /\ UNCHANGED <<dirty, pinCount>>
        /\ hold' = [hold EXCEPT ![c] = NoHold]
        /\ UNCHANGED <<pageId, data, loading, poolVars, diskVars, history>>

\* Under latch_ again: replacer_->Unpin, whatever the count is by now.
Release(c) ==
    /\ call[c].at = "release"
    /\ lru' = AfterUnpin(lru, call[c].frame, PoolSize)
    /\ call' = [call EXCEPT ![c] = Idle]
    /\ raced' = (raced \/ InUse(call[c].frame))
    /\ UNCHANGED <<frameVars, table, freeList, diskVars, hold, latest>>

\* FlushPage, under the page latch: written even if it is not dirty.
FlushWrite(c) ==
    LET f == call[c].frame
    IN  /\ call[c].at = "force"
        /\ Unlatched(f)
        /\ IF pageId[f] = call[c].page
           THEN /\ WritePage(pageId[f], data[f])
                /\ dirty' = [dirty EXCEPT ![f] = FALSE]
           ELSE UNCHANGED <<disk, dirty>>
        /\ call' = [call EXCEPT ![c] = Idle]
        /\ raced' = (raced \/ (pageId[f] = call[c].page /\ table[pageId[f]] # f))
        /\ UNCHANGED <<pageId, data, pinCount, loading, poolVars, numPages, hold, latest>>

\* Mutant: pages in use are passed over.
MappedUnpinned == {f \in Frame : Contains(lru, f)}

\* The page_list FlushAllPages makes under latch_.
MappedFrames == {table[p] : p \in Page} \ {NoFrame}

\* FlushAllPages copies the mapped frames, then visits them in any order.
FlushAllPages(c) ==
    /\ MayCall(c)
    /\ MappedFrames # {}
    /\ call' = [call EXCEPT ![c] =
                    [Calling("flushAll", "scan", NoPage, NoFrame) EXCEPT !.todo = MappedFrames]]
    /\ UNCHANGED <<frameVars, poolVars, diskVars, hold, history>>

\* One frame of FlushAllPages; is_dirty_ is looked at before the latch is taken.
Scan(c, f) ==
    LET todo == call[c].todo \ {f}
    IN  /\ call[c].at = "scan"
        /\ f \in call[c].todo
        /\ IF dirty[f]
           THEN /\ Unlatched(f)
                /\ WritePage(pageId[f], data[f])
                /\ dirty' = [dirty EXCEPT ![f] = FALSE]
           ELSE UNCHANGED <<disk, dirty>>
        /\ call' = [call EXCEPT ![c] = IF todo = {} THEN Idle ELSE [@ EXCEPT !.todo = todo]]
        /\ UNCHANGED <<pageId, data, pinCount, loading, poolVars, numPages, hold, history>>

\* A client writes to the page it holds, through its Page*, under the page latch;
\* not after a race, since no property speaks of contents then.
Write(c) ==
    LET f == hold[c].frame
        p == hold[c].page
    IN  /\ MayCall(c)
        /\ hold[c] # NoHold
        /\ Unlatched(f)
        /\ p \in WrittenPages /\ Version(latest[p]) < MaxVersion
        /\ ~raced
        /\ data' = [data EXCEPT ![f] = Written(p, Version(latest[p]) + 1)]
        /\ latest' = [latest EXCEPT ![p] = Written(p, Version(@) + 1)]
        /\ hold' = [hold EXCEPT ![c].wrote = TRUE]
        /\ UNCHANGED <<pageId, pinCount, dirty, loading, poolVars, diskVars, call, raced>>

\* The process dies and is started again: only the file is left.
CrashAndReopen ==
    /\ MayCrash
    /\ pageId' = [f \in Frame |-> NoPage]
    /\ data' = [f \in Frame |-> Zeros]
    /\ pinCount' = [f \in Frame |-> 0]
    /\ dirty' = [f \in Frame |-> FALSE]
    /\ loading' = [f \in Frame |-> FALSE]
    /\ table' = [p \in Page |-> NoFrame]
    /\ freeList' = AllFrames
    /\ lru' = <<>>
    /\ call' = [c \in Client |-> Idle]
    /\ hold' = [c \in Client |-> NoHold]
    /\ latest' = disk
    /\ raced' = FALSE
    /\ UNCHANGED diskVars

-----------------------------------------------------------------------------
\* The steps that carry a call on; falling asleep again is one of them.
CallStep(c) ==
    \/ SleepAgain(c)
    \/ WriteBack(c)
    \/ ResetFrame(c)
    \/ Fill(c)
    \/ FillThrows(c)
    \/ Publish(c)
    \/ Unpin(c)
    \/ Release(c)
    \/ FlushWrite(c)
    \/ \E f \in Frame : Scan(c, f)

Lookup(c, p, f) ==
    \/ FetchHit(c, p, f)
    \/ UnpinFound(c, p, f)
    \/ FlushFound(c, p, f)

StartCall(c) ==
    \/ \E p \in Page, op \in {"fetch", "unpin", "flush"} : Sleep(c, op, p)
    \/ \E p \in Page : FetchMiss(c, p)
    \/ UnpinNotFound(c)
    \/ NewPage(c)
    \/ FlushAllPages(c)
    \/ Write(c)

Next ==
    \/ \E c \in Client : CallStep(c)
    \/ \E c \in Client, p \in Page, f \in Frame : Lookup(c, p, f)
    \/ \E c \in Client : StartCall(c)
    \/ CrashAndReopen

Spec == Init /\ [][Next]_vars

\* A thread inside a call is scheduled again and again; one that sleeps on a
\* condition variable moves only once it has been notified.
GoesOn(c) ==
    \/ CallStep(c)
    \/ call[c].at = "awake" /\ \E p \in Page, f \in Frame : Lookup(c, p, f)

Fairness == \A c \in Client : WF_vars(GoesOn(c))

FairSpec == Spec /\ Fairness

-----------------------------------------------------------------------------
(***************************************************************************)
(* Properties.                                                             *)
(***************************************************************************)

CallRecord ==
    [op : {"idle", "fetch", "new", "unpin", "flush", "flushAll"},
     at : {"", "asleep", "awake", "write", "reset", "fill", "publish",
           "count", "release", "force", "scan"},
     page : Page \cup {NoPage}, frame : Frame \cup {NoFrame}, todo : SUBSET Frame]
HoldRecord == [page : Page \cup {NoPage}, frame : Frame \cup {NoFrame}, wrote : BOOLEAN]

\* Every variable has its type; the two frame lists name no frame twice and
\* have none in common, so that Size() is the number of evictable frames.
TypeOK ==
    /\ disk \in [Page -> Contents] /\ numPages \in 0..MaxPages
    /\ pageId \in [Frame -> Page \cup {NoPage}]
    /\ data \in [Frame -> Contents]
    /\ pinCount \in [Frame -> Nat]
    /\ dirty \in [Frame -> BOOLEAN]
    /\ loading \in [Frame -> BOOLEAN]
    /\ table \in [Page -> Frame \cup {NoFrame}]
    /\ freeList \in Seq(Frame) /\ lru \in Seq(Frame) /\ IsInjective(freeList \o lru)
    /\ call \in [Client -> CallRecord]
    /\ hold \in [Client -> HoldRecord]
    /\ latest \in [Page -> Contents] /\ raced \in BOOLEAN

\* A page that FetchPage or NewPage returned is the page asked for, as it was
\* last written, for a client that looks at it under the page latch, for as long
\* as it has it (page.h:107-109: a caller is kept from incomplete or old data):
\* with one thread always, and with several until a race.  A page that was never
\* allocated has no content.
FetchedIsLatest ==
    /\ ~Concurrent => ~raced
    /\ ~raced => \A c \in Client :
           hold[c].page \in Page \ MissingPages /\ Unlatched(hold[c].frame) =>
               /\ pageId[hold[c].frame] = hold[c].page
               /\ data[hold[c].frame] = latest[hold[c].page]

\* A page with a pin is not evicted (page.h): the frame that a call has taken
\* for another page is never one that a client still holds.
PinnedNotEvicted ==
    \A c, d \in Client :
        call[c].at = "write" /\ hold[d] # NoHold => call[c].frame # hold[d].frame

\* Between calls every frame is free, evictable or pinned, by as many clients
\* as its count says, and the table finds exactly the pages in the frames; but
\* a load that threw has cost the pool the one frame it had taken.
Quiet == \A c \in Client : call[c] = Idle
Holders(f) == {c \in Client : hold[c].frame = f}
Leaked == {table[p] : p \in MissingPages}

FramesAccounted ==
    Quiet =>
        /\ \A f \in Frame \ Leaked :
              /\ pinCount[f] = Cardinality(Holders(f))
              /\ Contains(freeList, f) <=> pageId[f] = NoPage
              /\ Contains(lru, f) <=> pageId[f] # NoPage /\ pinCount[f] = 0
        /\ \A p \in Page \ MissingPages, f \in Frame : table[p] = f <=> pageId[f] = p

\* A page that is not marked dirty is the page on disk, unless the client that
\* has just written to it has yet to say so: eviction and FlushAllPages may
\* skip it without losing anything.
CleanMatchesDisk ==
    \A f \in Frame :
        pageId[f] # NoPage /\ ~dirty[f] /\ (\A c \in Holders(f) : ~hold[c].wrote)
            => data[f] = disk[pageId[f]]

\* The content a page has for the callers: its frame's, or else the disk's.
Image(p) ==
    IF \E f \in Frame : pageId[f] = p
    THEN data[CHOOSE f \in Frame : pageId[f] = p] ELSE disk[p]

\* How many writes to p a content is the result of; no number for another page's.
Writes(p, content) ==
    IF content = Zeros THEN 0 ELSE IF content[1] = p THEN content[2] ELSE -1

Store == INSTANCE PageStore WITH
            PageId <- Page,
            content <- [p \in Page |-> Writes(p, Image(p))],
            durable <- [p \in Page |-> Writes(p, disk[p])]

\* Caching is invisible: fetching, evicting, flushing and unpinning change no
\* page, only current contents reach the disk, and a crash leaves the disk.
ImplementsPageStore == Store!Spec

\* Nothing is dirty when FlushAllPages returns (LEARNING_PATH.md, the checklist
\* for the buffer pool).
FlushAllCleans ==
    [][\A c \in Client : call[c].op = "flushAll" /\ call'[c] = Idle
            => \A f \in Frame : ~dirty'[f]]_vars

\* A thread asleep on a frame is woken: once the other threads have stopped
\* calling, it returns from every call it makes, unless it sleeps on a frame that
\* a load which threw has left behind: FetchPage passes the exception on without
\* NotifyReady (buffer_pool_manager.cpp:67 and 78), so no one wakes it.
SleepsOnFailedLoad(c) == call[c].at = "asleep" /\ call[c].frame \in Leaked

NoLostWakeup ==
    \A c \in Client :
        <>[](\A d \in Client \ {c} : call[d] = Idle)
            => []<>(call[c] = Idle \/ SleepsOnFailedLoad(c))
=============================================================================
