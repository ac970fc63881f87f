# mini-cloud-db: TLA+ models, checks and proofs

This directory holds TLA+ specifications of the parts of mini-cloud-db that
have behaviour, the TLC configurations that model-check them, and theorems
about the Raft, buffer pool, recovery and MVCC parts checked by TLAPS. All paths
`src/...` below are relative to the source tree of the repository; the project's
own sources are under `src/src/`.

Run one check with `tlc -workers 2 -config RaftPartition.cfg MCRaft`, and the
proofs with `tlapm RaftMatchingProofs.tla` (and the other modules named
`...Proofs`).


## 1. What the program is made of

mini-cloud-db is a teaching project: a database in layers, of which the lower
ones and a Raft simulator are written and the upper ones are skeletons that
throw `"... 尚未实现"` ("not implemented yet") from every operation.

### Implemented

| Part | State it keeps | Operations | Talks to |
|---|---|---|---|
| Raft log (`raft/raft_log`) | the entries, with a sentinel of term 0 at index 0 | append one, append and overwrite on conflict, look up | owned by a node, under its mutex |
| Raft node (`raft/raft_node`) | term, vote, role, leader, log, commit and applied index, `next_index_`, `match_index_`, tick counters | `Tick`, `HandleRequestVote`, `HandleAppendEntries`, `Propose` | calls other nodes through the cluster's two callbacks, its own mutex held |
| Raft cluster (`raft/raft_cluster`) | crashed nodes, cut links | tick all or one, propose to the leader, crash, restart, disconnect, reconnect, isolate, recover, `CheckConsistency` | delivers an RPC as a direct function call, or drops it |
| Disk manager (`storage/disk_manager`) | the file, `num_pages_` | read, write, allocate a page | called by the buffer pool under its locks |
| Page (`storage/page`) | data, page id, pin count, dirty and loading flag, latch, condition variable, LSN | pin, unpin, wait until loaded, reset | a frame of the pool |
| LRU replacer (`buffer/lru_replacer`) | list of evictable frames | victim, pin, unpin | called under the pool's `latch_` |
| Buffer pool (`buffer/buffer_pool_manager`) | page table, free list, frames | fetch, unpin, flush, new page, flush all | callers on many threads; disk |
| Log records, WAL manager (`recovery/`) | file, buffer, `current_lsn_`, `flushed_lsn_` | append, flush, truncate, recover | changes pages through the pool |
| Commit log (`concurrency/commit_log`) | two bits per transaction, dirty flag, file | open, get or set status, flush, close | called by MVCC outside its mutex |
| Tuple page (`concurrency/tuple_header`) | slot directory from the front, tuples from the end, `xmin`, `xmax`, hint bits | insert, mark deleted, read header, update hints | in a page, under its latch |
| MVCC manager (`concurrency/mvcc`) | next id, states, active set, snapshots | begin, commit, abort, two visibility tests | commit log, tuple pages |

### Not implemented in the repository

B+ tree (only getters and a private `BinarySearch` that nothing calls), page server and RPC
client, column store, tiered storage, tenant manager, two-phase commit
coordinator and participant, io_uring engine. `common/` holds type names and
sizes. `raft/raft_demo.html` is a browser animation with a protocol of its own.
None of these is modelled: there is no state change to translate.

### Where it is hard

* **Raft.** A round of RPCs is not atomic: between two of its RPCs other nodes'
  rounds run when several threads tick nodes. Links and nodes fail between
  rounds. Unsigned index arithmetic (`next - 1`, `conflict_index`). The vote is
  a flag that more than one handler writes.
* **Buffer pool.** Two kinds of lock that are never held together for long:
  what is learnt under the page latch is acted on under `latch_` afterwards.
  Sleeping on a condition variable and not looking at the table again. A load
  that throws half way.
* **WAL.** The process may die between any two writes, in the middle of
  recovery too; pages reach the disk in any order.
* **MVCC.** A header is copied before the mutex is taken; commit is three
  steps; hint bits are cached conclusions; a new process numbers its
  transactions from 1 over the commit log of the old one.

`PROJECT.json` lists every such hazard with its line and the properties that
cover it; those that none covers yet say why.


## 2. The modules

| Module | Models | Uses |
|---|---|---|
| `RaftLog` | `raft_log.cpp` as operators on a sequence of entries | |
| `Filter` | the loops that copy what passes a test, as an operator the provers can reason about | |
| `RaftCluster` | `raft_node.cpp` and `raft_cluster.cpp` | `RaftLog`, `Filter` |
| `IndexProofs` | lemmas: the least, the greatest and the nth element of a set of numbers, what `Filter` picks | `Filter` |
| `RaftClusterProofs`, `RaftMatchingProofs`, `RaftCommitProofs` | theorems about Raft: rounds and terms, logs, commitment | `RaftCluster`, `IndexProofs` |
| `DiskManager` | `disk_manager.cpp` | |
| `LRUReplacer` | `lru_replacer.cpp` as operators on the list | |
| `BufferPool` | `buffer_pool_manager.cpp`, `page.h` | `DiskManager`, `LRUReplacer`; implements `PageStore` |
| `BufferPoolProofs`, `BufferPoolSoundProofs` | theorems about the list, the pool's types and its contents | `BufferPool` |
| `PageStore` | abstract: what a pool promises its callers | |
| `Recovery` | `wal_manager.cpp`, `log_record.h`, over pages that behave as `PageStore` says | `Filter` |
| `RecoveryProofs` | theorems about it | `Recovery`, `IndexProofs` |
| `CommitLog` | `commit_log.cpp` | |
| `TuplePage` | `tuple_header.cpp` | |
| `Mvcc` | `mvcc.cpp`, with threads and restarts | `CommitLog`, `TuplePage` |
| `MvccProofs` | theorems about it | `Mvcc`, `IndexProofs` |
| `MCRaft`, `MCPool`, `MCRecovery`, `MCMvcc` | instances for TLC: symmetry, the view | |

Names are those of the code where they can be: `nextIndex` is `next_index_`,
and an action has the name of the method or of the branch of it that it is.
`PROJECT.json` ("map") gives the lines of every definition. An operator whose
comment begins with "Mutant:" is a plausible mistake in the definition that
follows it; no specification uses it. It documents which mistake each property
would catch.

### Raft (`RaftLog`, `RaftCluster`)

An RPC is a direct call, so it is never lost on its way back, duplicated or
reordered: it either runs the handler and returns or, if the callee has crashed
or the link is cut, does nothing. The code looks at the callee and the link
only; a crashed node is merely not ticked. A `Tick` or `Propose` is a **round**:
`op[n]` holds the peers node `n` has still to call, in ascending order as in
`peer_ids_`. `node_mutex_` of `n` is held exactly while `op[n] # Idle`, so an RPC
to `p` needs `op[p] = Idle`. One action is one RPC with both ends' effects (the
handler and what the caller does with the reply), split by outcome
(`AppendEntriesLost`, `...Stale`, `...Conflict`, `...Accepted`), or the start or
the end of a round.

Two threads each ticking a node can wait for each other's mutex for ever; in the
model they are simply stuck, and nothing else may enter those nodes. That is a
hazard on the list that no property covers.

Tick counters are abstracted: a node may time out at any time, which a driver
can bring about with `TickNode`. `RestartNode` restores nothing and loses
nothing, as in the code: it only takes the node off the crashed set. `applied`
keeps by index what was handed to the state machine; `elected` is history.
`apply_callback_` is left out.

### Buffer pool (`BufferPool`, `DiskManager`, `LRUReplacer`, `PageStore`)

One action is one critical section, and `call[c]` says which call client `c` is
in and which section comes next. A fetch that misses is: under `latch_`, take a
victim and map it (`FetchMiss`); then, with the page latch held, write the old
page back (`WriteBack`), reset the frame (`ResetFrame`), read the page (`Fill`,
or `FillThrows`); then, under `latch_`, `Publish` and wake the sleepers. The
three steps under the page latch are separate because `is_loading_` and the
pin count are read by others without it. `UnpinPage` counts under the page latch and
calls `replacer_->Unpin` later under `latch_`: `UnpinFound`, `Unpin`, `Release`.
A hit on a loading frame sleeps; woken, it looks at the frame again and not at
the table, as `WaitUntilReady` does.

Clients keep to the pool's protocol: they hold at most one page each, write it
only while they hold it, and say so when they unpin it. They may ask for a page
that does not exist (`MissingPages`), which makes `ReadPage` throw. They look at a
page's content under its latch (`Page::RLock`), as `page.h` says: `Reset` clears
`is_loading_` in the middle of a load, so that a hit may return before the page
has been read in, and only the latch makes the caller wait.

Four ways in which calls may meet are not excluded by the code, and the history
variable `raced` is set by each. A thread woken after a load returns the frame
although it holds another page by then (`FetchHit`). A page is read from disk
while its last write is still in the frame it was evicted from, because the
mapping goes before the write-back (`Fill` with `Outdated`). `replacer_->Unpin`
makes a frame evictable that is in use, or that a load which threw has lost
(`Release` with `InUse`). And `FlushPage` writes a page from the frame it was
evicted from, for it asks the frame and not the table (`FlushWrite`). Without any
one of the first three `FetchedIsLatest` fails with two threads. The fourth takes
three, of which the run has only two: one flushes, and before it has the page
latch another evicts the page, loads it into a second frame, changes it and has
it written back, all while a third, which took the first frame, has not reset
it; then the flush puts the old content on disk last. After a race clients write
no more, and `View` drops the contents, of which nothing is claimed then.

`PageStore` is the abstract specification: a page changes only when a client
writes it, may become durable as it is at any time, and goes back to what was
durable at a crash. The refinement mapping takes a page's content from its frame
if there is one and from the disk otherwise.

### Recovery (`Recovery`)

The pool below is what `PageStore` describes (`mem` and `page`, written out with
the LSN in the page header). `AppendLog` and `Flush` hold `wal_mutex_` and are
single steps. `Truncate` is two, because the file is empty in between.
`Recover` is one step per page it touches, in the order of the code: redo
(`RedoChange` compares the page's LSN with the record's), undoing at an ABORT
record, at the end undoing transactions without an end record, newest first.
`Crash(k)` is the death of the process with `k` records of an unfinished write
in the file, that of a `Flush` or that of the kept records in a `Truncate`.

The callers are the ones `log_record.h` describes: they log a change before
they make it and keep the pages they change until they end. A page goes to disk
whenever the pool likes (`PageToDisk`), for eviction and `FlushPage` do not look
at `flushed_lsn_`; so its record may be lost in a crash that the page survives.
`Truncate` is called with any LSN, and asks of its caller only what
wal_manager.h:114-116 does: that the pages are on disk. No code in the
repository rolls a transaction back while the process runs; the model's callers
do it as `Recover` would at the ABORT record they log (`Abort`).

An `INSERT` is logged as the repository's test logs it, without old data, and its
undo copies none.

### MVCC (`Mvcc`, `CommitLog`, `TuplePage`)

`BeginTransaction` is one step (it holds `mvcc_mutex_` throughout, the commit
log's status included, and may throw with the transaction already active).
Commit and abort are three: in memory, in the commit log, its flush.
`IsTupleVisible` is two: the header is copied under the page latch
(`ReadHeader`), the decision and the hint bits come later (`Decide`), for the
tuple as it is by then. `Restart` ends the process, in order (the commit log's
destructor flushes) or by death at any point of any call, and starts another on
the same commit log file (`ClogReopen`); `answers` remembers of each id what the
last life that began it told its caller. The pages of the earlier life are left behind: nothing in the code takes
the old tuples to a new manager, and with ids from 1 again it could not tell
them from its own (mvcc.h:127 lists rebuilding `next_txn_id_` from the log as a
step of recovery; no code does it). Sizes of pages, headers and slots are constants, so
that TLC can use small ones.

Who may delete a tuple is up to the callers, for `MarkDelete` overwrites
whatever is there. The model's transactions delete a tuple they see that nobody
has deleted; with `Redelete` also one whose deleter aborted.


## 3. What is checked

| Run | Instance | Shows |
|---|---|---|
| `raft_crash_stop` | 4 nodes, crash and isolation for good, one driver thread, terms to 2 | `TypeOK`, `ElectionSafety` hold |
| `raft_partition` | 3 nodes, overlapping rounds, links cut singly and restored singly or all of a node's at once, terms to 2, logs to 2 entries of 2 commands | index arithmetic, log matching, match indexes, what is applied |
| `raft_restart` | 3 nodes, crash and restart, one driver thread, terms to 3, logs to 2 entries, under fairness | `LeaderCompleteness`, `ElectableComplete`, `Convergence` |
| `raft_two_leaders` | 3 nodes, 2 terms, one crash and restart | **violated**: `OneLeaderPerTerm` |
| `pool_calls` | 2 frames, 3 pages and a missing one, 2 clients, calls one after another, crashes | contents, frames accounted for, clean means on disk, `FlushAllPages`, implements `PageStore` |
| `pool_threads` | 2 frames, 2 pages and a missing one, 2 threads inside at once, under fairness, deadlock checked | lists stay consistent, contents are right until a race, no deadlock, no sleeper is forgotten but by a load that throws |
| `pool_pinned` | 2 threads inside at once | **violated**: `PinnedNotEvicted` |
| `recovery_crashes` | 2 transactions that insert, update and delete, 2 pages, a buffer of 2 records, 6 LSNs, 2 crashes, write-back and truncation at any time | `RecoveredUnlessSpoilt`, `LsnsAscend` |
| `recovery_reopened` | updates only, transactions run again after the recovery | **violated**: `RecoveredUnlessSpoilt` |
| `recovery_losses` | updates and deletions in one life | **violated**: `RecoversWhatItLogged` |
| `mvcc_sessions` | 3 threads, 4 transactions, commit log with room for ids 1 to 3, page with room for 2 tuples, 2 restarts with 1 transaction each | snapshot reads, repeatable reads, hint bits, durability of outcomes, what a restart remembers, layout |
| `mvcc_deleted_again` | 2 threads, a tuple may be deleted again after an abort | **violated**: `SnapshotRead` |

### What the properties say

*Raft.* `ElectionSafety`: over the whole history no term elects two nodes.
`NextIndexInRange`: the leader's unsigned arithmetic does not wrap.
`LogTermsOrdered`, `LogMatching`, `LeaderCompleteness`: as in the Raft paper,
which the code's comments follow. `ElectableComplete` says the same of every node
that a majority would vote for by the log test, before it has been elected: what
is wrong with a commit shows a term earlier. `MatchIndexSound`: a follower has
what the leader counts it for. `AppliedAgree` and `AppliedIsLog`: what
`CheckConsistency` looks for, and that nothing applied is later overwritten.
`RoundUndisturbed`: nothing changes a node's role or term in its own round.
`Convergence`: with a leader that stays and every node up and connected, every log
comes to extend the leader's and every commit index catches up. Which runs do
not reach what: `ElectionSafety` is checked where nothing heals, and only
`OneLeaderPerTerm` shows the forgotten vote; with two terms no node leads twice,
so stale match indexes, and a term mismatch at `prev_log_index`, are out of
`raft_partition`'s reach (the second is in `raft_restart`'s, the theorems cover
both).

*Pool.* `FetchedIsLatest`: the page a client holds is the one it asked for, as
last written: with one thread always, with two as long as the calls have not met
in one of the four ways named above, whatever else they do. `FramesAccounted`: between calls each frame is on exactly the list
it belongs on, and pin counts are right. `CleanMatchesDisk`: nothing is lost by
skipping a clean page. `FlushAllCleans`: nothing is marked dirty when
`FlushAllPages` returns. That is less than a checkpoint needs: a page that was
written and not yet unpinned is not marked dirty, so that `FlushAllPages` skips it
and `CleanMatchesDisk` exempts it.
`NoLostWakeup`: a thread asleep on a frame goes on, unless the load it waits for
threw: `FetchPage` then leaves without `NotifyReady`, and `SleepsOnFailedLoad` names
exactly those sleepers.
`ImplementsPageStore`: caching is invisible. A load that throws costs the pool a
frame for good; `FramesAccounted` states exactly that, and nothing worse.

*Recovery.* `RecoversWhatItLogged` is what the comments say: after `Recover` a page
that is not newer than the log has what committed transactions left there, and
nothing else. It is false. `RecoveredUnlessSpoilt` says the same of the pages
that are not `spoilt`, and so that only four things go wrong in a first life of
the log, each where the code does it:

1. `Ahead`: the page went to disk ahead of a record that the crash lost, for the
   pool does not ask the log (`buffer_pool_manager.cpp:63`);
2. `CutOff`: `Truncate` dropped old data that was still needed for an undo, for
   the caller's LSN lies behind a change of a running transaction, or between
   the changes and the end of an aborted one (`wal_manager.cpp:271`);
3. `Torn`: a crash in the middle of `Truncate`, which empties the only file before
   it writes the kept records (`wal_manager.cpp:279-297`), brought back a change
   without its transaction's end, or lost one still to be undone, or lost a
   committed one behind an ABORT that came back and sets the page to what it was
   before, for there `Recover` does not compare the page's LSN
   (`wal_manager.cpp:194-205`);
4. `Inserted`: an `INSERT` was to be undone, which copies no byte
   (`wal_manager.cpp:200`, `:228`).

log_record.h:17-23 (log before data, and replaying the log restores the data),
wal_manager.h:28-30 (all uncommitted transactions are rolled back) and
wal_manager.cpp:241-257 (the old log may be deleted safely, the kept records go to
a new file) promise that none of this happens. `LsnsAscend`: file and buffer hold
consecutive LSNs. What `GetFlushedLSN` returns is the subject of two theorems (§4).

*MVCC.* `SnapshotRead`: both visibility decisions, from the tuple and from a
copied header, agree with who had committed when the transaction began.
`RepeatableRead`: no step of another transaction changes an answer.
`VersionsAgree`: the two visibility tests agree. `HintsTrue`: a hint bit tells the
truth. `OutcomeDurable`: a commit that returned is in the file, even when another
thread's flush wrote it. `OutcomeSurvives`: a process that starts again reads in
the commit log what the callers of the last process that began the id were told,
if they were told, of every id it has not begun itself. Two things it does not
claim, because the code does not do them: that a commit others saw survives
before it has returned (mvcc.h:168-172 has it so), and that an id begun again and
lost does not read as what it was before (mvcc.h:127-128 would not begin it again).
`TuplesDisjoint`: tuples and directory do not overlap.

### What the violations are

1. `raft_node.cpp:85`: acknowledging a leader of the **current** term clears the
   vote of that term. A node that was down while a leader was elected comes
   back, campaigns in the same term, and gets the vote of a follower that has
   voted already: two leaders in one term. Because of this, the Raft safety
   properties below elections are stated for behaviours in which no term has had
   two leaders (`ElectionSafety => ...`, and a `CONSTRAINT` that keeps TLC
   there): they say that nothing else is wrong.
2. `buffer_pool_manager.cpp:118`: `replacer_->Unpin` comes after the page latch
   was released and does not look at the pin count again; a frame that was
   fetched in between is put on the LRU list although pinned, and the next miss
   evicts it.
3. `wal_manager.h:134`: LSNs start again at 0 in a new process, pages keep those
   of the earlier one; after a second crash, redo skips committed changes.
4. `tuple_header.cpp:136`: `MarkDelete` keeps the hint bits about the former
   deleter; with `TUPLE_XMAX_ABORTED` left over, a committed deletion is ignored.
5. `wal_manager.cpp:279`: `Truncate` rewrites the only WAL file in place. A crash
   before the kept records are back loses the old data of a running transaction
   whose change is on disk; the change stays. The other causes are listed above.

Four more disagreements were met that have no run of their own:

* `wal_manager.cpp:71`: `flushed_lsn_` is not the largest LSN on disk
  (wal_manager.h:127 and :135) after an append that flushed a full buffer. Theorem
  `FlushedCountsUnwritten` says that it never is then, `FlushedOffByOne` that it
  is wrong by one record and no more.
* `mvcc.cpp:73-79`: a commit is visible before it is in the commit log;
  mvcc.h:168-172 has the opposite order.
* `mvcc.h:255`: `next_txn_id_` is not rebuilt from the commit log (mvcc.h:127).
* `buffer_pool_manager.cpp:67`: a load that throws leaves the threads that wait for
  it asleep. `NoLostWakeup` without its exemption is violated in `pool_threads`'
  configuration.

### Bounds, and why they are enough

* **Raft.** Three nodes are the smallest cluster with a majority that is not
  everybody; with four a candidate needs two votes besides its own, so that a
  vote may come in without deciding the election and votes may split. Two terms
  suffice for a deposed leader with a conflicting suffix. Three are needed for a
  term mismatch at `prev_log_index`, and so for the back-up by conflicting term, and
  for committing an entry of an older term (the scenario of figure 8 in the Raft
  paper, of which `ElectableComplete` sees the third term and not the fourth):
  `raft_restart` has three. Logs of two entries make the two branches of the
  conflict back-up (the log is too short, the terms differ) happen there, and an
  overlap of sent and held entries happen. One node is
  crashed at a time (`MaxDown`), the next one when it is back.
  `View` leaves out `leader_id_` and the indexes of nodes that are not leaders:
  no guard and no property reads them before they are written again.
  Symmetry is over commands only; node ids are ordered by `peer_ids_`.
* **Pool.** With two frames and three pages, one of them missing where loads throw,
  every miss beyond the second evicts; two clients on the same and on different
  pages give all overlaps of two calls.
  `PoolSize` is the number of frames. Contents are counted writes, at most `MaxVersion`; `MaxPins` bounds the pins of
  one frame. With two threads one page is written, once (`WrittenPages`): an old
  content, the new one and a page of another number are already told apart.
* **Recovery.** Two transactions and two pages: a page changed by a loser after a
  winner, a loser's page on disk and a winner's not. Six records are two whole
  transactions of one change, or one of several against a loser. A buffer of two
  records overflows in every transaction with a change. The second crash falls
  into the recovery from the first. Transactions begin in the order of their ids
  (`IdsAscend`), as ids are given out.
* **MVCC.** Four ids over three sessions: three transactions running at once and
  one that begins after; the commit log is one id too small for the fourth,
  and the page refuses the third tuple. Two restarts: an id that had an outcome
  in the first life is begun, or not, in the second, and asked about in the third.

`CHECK_DEADLOCK FALSE` stands where the instance ends because a bound is reached
(terms, log lengths, LSNs, transaction ids, versions) or because a driver may stop. `pool_threads` has no
such end and checks deadlock.

### Fairness

*Raft*: weak fairness of the steps that continue and end a round, for a function
that runs goes on running. Strong fairness of every leader's `HeartbeatTimeout`:
`TickAll` ticks every live node again and again, but the rounds of others keep
disabling it for a while. Nothing is assumed of elections, proposals or the driver's
control calls: `Convergence` is about behaviours in which, from some point on,
one node is leader and all are up.

*Pool*: weak fairness per thread of the sections that continue a call. A sleeper
goes on only after `notify_all`; a client is not obliged to start a call or to
unpin.


## 4. What is proved

### Raft

`RaftClusterProofs`, `RaftMatchingProofs` and `RaftCommitProofs` prove, for any
finite set of nodes, any commands, any faults and any bounds, with overlapping
rounds allowed:

| Theorem | Statement |
|---|---|
| `TypeCorrect` | `Spec => []TypeOK` |
| `RoundsUndisturbed` | `Spec => []RoundUndisturbed` |
| `NextIndexSafe` | `Spec => []NextIndexInRange` |
| `LogTermsAlwaysOrdered` | `Spec => []LogTermsOrdered` |
| `ElectionSafeWithoutHealing` | with one driver thread and only crashes and isolation for good, `Spec => []ElectionSafety` |
| `OneLeaderWithoutHealing` | under the same assumptions, `Spec => []OneLeaderPerTerm` |
| `LogsAlwaysMatch` | `Spec => []LogMatching` |
| `MatchIndexAlwaysSound` | `Spec => []MatchIndexSound` |
| `LeadersAlwaysComplete` | `Spec => []LeaderCompleteness` |
| `AppliedAlwaysLog` | `Spec => []AppliedIsLog` |
| `AppliedAlwaysAgree` | `Spec => []AppliedAgree` |

**First invariant**, `Inv == TypeOK /\ RoundUndisturbed /\ NextIndexInRange`. None
of its parts is inductive alone. That `next - 1` stays in the log needs to know
that the node that processes a reply is still the leader whose indexes were set
when it was elected, which is `RoundUndisturbed`; that in turn holds because an
RPC enters only a node whose mutex is free, which reads off `op`. The back-up
after a conflict is in range because `LastOfTerm` and `FirstOfTerm` are
(`FirstOfTermInRange`).

**Terms in a log** need nothing but `Inv` and themselves: an entry is added with
the leader's own term, and what a follower receives is a piece of a leader's
ordered log put behind an entry with the same term as the leader's
(`AppendEntriesOrdered`).

**Election safety** cannot rest on votes, because line 85 forgets them. Without
healing it holds for another reason, the invariant `LockStep`:

* `CrashStop`: a cut link belongs to a node that is cut off altogether, and at
  most one node is in a round;
* `OneTerm`: between rounds all connected nodes stand in one term; in a round
  those already called have the caller's term and none has a newer one;
* `Fresh`: no term that had a leader is newer than the term of the connected
  nodes, and the term of a running election is newer than all of them;
* `LeadersElected`: a leader's term is in the history.

A winner therefore always wins a term nobody has won. The argument ends where a
node comes back from a crash or from isolation, or a single link is cut: it has
missed a round, `OneTerm` fails, and `raft_two_leaders` is the counterexample.

**Log matching** and the soundness of match indexes hold as long as no term has
had two leaders, the premise `ElectionSafety` inside both properties. Because
`elected` only grows, the premise of a step's end is also that of its start. The
invariant is `TermsInv` (a leader, and every term of office, is in `elected`) and
`LogsInv`:

* `EntriesElected`: the term of an entry has had a leader, so nobody but that
  leader has ever added an entry of it;
* `LogsAgree`: log matching, written with indexes so that it can be cut up;
* `LeadersHaveTerm`: a leader has all entries of its own term that exist anywhere,
  so a proposal makes the first entry at its index and term;
* `PeersHold`: a follower in the leader's term holds the leader's entries up to the
  match index.

The one step that needs work is an accepted `AppendEntries`. `AppendEntriesAgrees`
shows of the log operator alone that the result agrees with the sender's log up
to the last entry sent and keeps the receiver's entries unless one conflicts;
`AcceptedMatching` puts that together with the invariant.

**Leader completeness** has the same premise. The usual proof speaks of the
voters of each election, which the code does not keep once the round is over and
which line 85 makes forget; so the invariant, `CommitState`, speaks of what the
nodes hold and what term they are in. `Secured(k, t, Q)`, for the entry of term
`t` at index `k`, says that

* the nodes `Q` hold it;
* a leader of a later term holds it, and so does a log with an entry of a later term;
* a candidate of a later term that has a vote from a node of `Q` holds it: the
  election restriction, kept as a fact about the votes of the round in progress
  (`op[n].votes`). `GrantHolds` is the step: who denies votes to shorter and older
  logs and holds the entry, votes for nobody without it.

`CommittedSecured`: what a node has committed is secured by some majority.
`UncommittedSecured` is what makes that inductive. For an entry of the leader's own
term, not yet committed, let `Counted` be the nodes whose match index has reached
it; as long as they and the nodes not yet in a later term (`Able`) are a majority,
it is secured by `Counted`. It holds when the leader proposes, because a candidate
of a later term would have to have a majority in that term (`VotersInTerm`,
`MajorityReached`), and every acknowledgement only enlarges `Counted` with a
node that holds the entry (`AcceptedHolds`). `UpdateCommitIndex` then finds
`Counted` a majority. Its check that the entry is of the current term is needed
here: without it the premise of `UncommittedSecured` is not met (and `raft_restart`
finds a node without the committed entry that a majority would elect: figure 8
of the paper, a step before its end). That two majorities meet is where
`Node` has to be finite. A new leader has a vote from every secured majority, hence
the entry.

**What is applied** follows: a committed prefix is never overwritten
(`CommittedStep`, `PrefixKept`), so what a node applied is still its log
(`AppliedIsLog`); two committed prefixes are one the beginning of the other,
because both are in a log that holds the longer one; and picking from them the
commands that are not empty keeps that (`AtIndicesPrefix`).

Assumptions used: the named `ASSUME`s of `RaftCluster` (nodes are a finite set of positive
numbers, bounds are natural numbers, faults are among the six control calls)
and, for the two theorems without healing, `Concurrent = FALSE` and
`Faults \subseteq {"crash", "isolate"}`.

### Buffer pool

`BufferPoolProofs` and `BufferPoolSoundProofs` prove, for any number of frames, pages, threads, pins and writes, with
crashes and with pages that do not exist:

| Theorem | Statement |
|---|---|
| `PoolTypes` | `Spec => []TypeOK` |
| `FetchedAlwaysLatest` | `Spec => []FetchedIsLatest` |
| `PinnedUntilRaced` | `Spec => [](~raced => PinnedNotEvicted)` |
| `FramesAlwaysAccounted` | `Spec /\ ~Concurrent => []FramesAccounted` |
| `CleanAlwaysOnDisk` | `Spec /\ ~Concurrent => []CleanMatchesDisk` |
| `FlushAlwaysCleans` | `Spec /\ ~Concurrent => FlushAllCleans` |
| `PoolImplementsPageStore` | `Spec /\ ~Concurrent => ImplementsPageStore` |

The third is the counterpart of the violation that `pool_pinned` finds: a pinned
frame is evicted only after one of the four races, and with one thread never.

`Inv == TypeInv /\ FileInv /\ (~raced => Sound) /\ Alone` is inductive:

* `TypeInv`: `TypeOK`, and what the types of `call` leave open (`CallsFormed`: the
  page and the frame of each call are those its section needs; an unpin is of the
  page its client holds) and that a frame on the free list is not on the other
  list, in the table or in a call (`FreeUnused`).
* `FileInv`: pages not yet allocated are zeros on disk and nobody has them.
* `Sound`, which the four races break. A frame is *stale* from the moment a miss has
  taken its mapping away until `Reset`, and *live* otherwise, if it has a page. Two
  loads are never in the same frame (`LoadersApart`), the table finds a live frame
  under its page and no other (`FramesMapped`, `TableSound`, `TableInjective`), a
  page has at most one live frame (`LiveApart`), a live frame has the latest
  content (`LiveIsLatest`), and a page that is in no frame with writes the disk
  has not got is on disk as it was last written (`DiskOrFrame`). The pin count of
  a frame is at least the number of clients that use it (`PinsCover`), which is
  why a frame that someone has is not evictable; a frame on a list has no load in
  progress, and the table leads to it from its own page only (`ListedMapping`).
* `Alone`: with one thread there is one call at a time, none of them races, the
  frame of a sleeping or flushing call is still its page's, and a frame about to be
  released is unpinned and not empty. It gives `~Concurrent => ~raced`, the first
  half of `FetchedIsLatest`.

`CrashAndReopen` leads to a state like the first one with another file (`Started`),
from which all four hold again.

The last four theorems are about one thread, as the run that checks their
properties is: after a race a page may be in two frames, one of them with an old
content, and a second thread may dirty a page that a `FlushAllPages` has passed. They need
three more invariants, inductive given `Inv`. `CopyInv`: the page of a frame that is
being taken for another is mapped nowhere, and on disk unless it is dirty
(`OneCopy`), and no page has the content of another (`OwnContents`). From `OneCopy`
it follows that a page is in one frame only (`FrameUnique`), so that the `CHOOSE`
in the refinement mapping has one frame to choose and its value is what was last
written (`ImageLatest`); every step then is a write of `PageStore`, saves pages
as they were last written, is a crash, or changes neither (`PageStep`).
`FlushInv`: a `FlushAllPages` has still to visit every dirty frame, which holds
at its start because a dirty frame has a page and the table maps it there.
`Accounts`: which list a frame is on and that its pin count is the number of its
users, also while a call is at work on it; a frame on its way to `replacer_->Unpin` is on
no list, and finds room there because a list without repetitions that lacks a
frame is shorter than the pool (`RoomForOne`).

### Recovery

`RecoveryProofs` proves, for any transactions, pages, sizes of the buffer and
number of crashes:

| Theorem | Statement |
|---|---|
| `TypeAlwaysOK` | `Spec => []TypeOK` |
| `FlushedOffByOne` | `Spec => []FlushedWithinOne` |
| `FlushedCountsUnwritten` | `Spec => [][CountsUnwritten]_vars` |
| `LsnsAlwaysAscend` | `Epochs <= 1 => (Spec => []LsnsAscend)` |
| `RecoversUnlessSpoilt` | `Epochs <= 1 => (Spec => []RecoveredUnlessSpoilt)` |

`TypeInv` adds to the types that the scan of `Recover` stands at the first record and has nothing
to undo whenever `Recover` is not running: without it a step that
writes the file (a `Truncate` empties it) could leave the scan outside.

`FirstLife`, until the first crash: the records of the buffer run up to
`current_lsn_` without a gap, those of the file up to the first of the buffer,
those that `Truncate` keeps up to `current_lsn_`, and `flushed_lsn_` is at the
last record of the file or one further. `LaterLives`, if the process logs in its
first life only (`Epochs <= 1`): the buffer is empty and the file without a gap. A
crash in the middle of a flush or a truncation leaves a beginning of a
sequence without a gap (`RunsPrefix`), and what a truncation keeps is its end
(`RunsKept`, from `NthIndexOfSuffix`). With a second life the theorem would be
false, for the numbers start again at 0 over a file that is not empty.

`FlushedWithinOne` and `CountsUnwritten` say what `flushed_lsn_` is instead of what
wal_manager.h:127 and :135 call it: an append to a full buffer always counts the
record it appends, which is in the buffer and not in the file; and no other
record that is not in the file is ever counted, until the first crash.

**`RecoversUnlessSpoilt`** says that wherever in an append, a flush or a truncation the
process dies, with whatever LSN `Truncate` was called, however often the process
dies again in `Recover` and whichever pages have gone to disk, `Recover` restores
every page to which none of the four things listed in §3 has happened. The
hypothesis is needed: `recovery_reopened` is the counterexample when a second life
logs. So is each exemption: `recovery_losses` shows one. The inductive invariant,
`Recoverable`, has two halves.

* Until the first crash, `LoggedState(b)`, where `b` counts the records that `Truncate`
  has dropped. `Log`, all records ever appended, is sound (`LogSound`): numbered
  by place, nothing of a transaction after its end, a page changed by one
  transaction at a time, and the old data of a transaction's first change of a page is what
  committed transactions had left there. A page, in the pool or on disk, is the
  image after the record it is numbered with (`ImageOf`); no later record touches the
  page in the pool, and none up to `b` the page on disk (`Quiet`).
* After it, `CrashedState(b, m)`: the file has the records after `b` up to `m` of
  those that ever were in it, and `m` is less than all of them only after a crash in `Truncate`.
  Of a page that is not `spoilt` the dropped changes are of ended transactions,
  and no ABORT that was kept is of one of them (`Dropped`), the INSERTs in the file are
  committed (`InsertsCommitted`), and it may be `Behind`, with changes in the lost
  part, where `NotTorn` says which of its changes may be in the file. A page's image is `Good` at a point
  of the scan if it is `Beyond` (that of a lost record, and final) or `Within`
  (the records from there on make of it what they should). Redo keeps it so
  (`GoodPast`, `GoodRedo`, `GoodUndo`); what is still to undo is exactly the changes of
  transactions without an end so far, and of these the newest first (`Unended`,
  `DownTo`); when all are undone a page holds what committed transactions have left
  (`WithinHolds`, `HeldIsCommitted`).

The hard step is the first crash, which has to turn the causes of `spoilt`, said in
terms of what the process had before it, into these facts about the log it leaves
(`DroppedIs`, `InsertsIs`); `TruncatingNotTorn` and `TruncatingGood` show that the
pages `Torn` leaves out can be recovered from any beginning of what `Truncate`
was writing, whatever was on disk.

### MVCC

`MvccProofs` proves, for any sessions, sizes and bounds, and any number of
restarts:

| Theorem | Statement |
|---|---|
| `MvccTypes` | `Spec => []TypeOK` |
| `TuplesNeverOverlap` | `Spec => []TuplesDisjoint` |
| `OutcomeAlwaysDurable` | `Spec => []OutcomeDurable` |
| `OutcomeAlwaysSurvives` | `Spec => []OutcomeSurvives` |
| `HintsAlwaysTrue` | `Spec /\ ~Redelete => []HintsTrue` |
| `SnapshotAlwaysRead` | `Spec /\ ~Redelete => []SnapshotRead` |
| `VersionsAlwaysAgree` | `Spec /\ ~Redelete => []VersionsAgree` |
| `ReadsAlwaysRepeat` | `Spec /\ ~Redelete => RepeatableRead` |

**First invariant**, `Inv`, whatever `Redelete` is. Its parts beyond the types:
transactions are numbered in the order they begin (`IdsInOrder`), no two
sessions have the same one (`SessionsApart`), what the commit log's buffer and
file say of a transaction at each stage of its end (`Logged`), what they say of
ids of earlier lives (`Remembered`), a snapshot names exactly the transactions
that had not ended when it was taken (`SnapshotsRight`), the free space ends
where the last tuple begins (`FreeSpaceRight`), and a reader's copy is of a
tuple in the page (`ReadersRight`). `OutcomeDurable` is the case of `Logged` in
which no session is at work; the step that needs it is a flush that finds the
buffer clean, because another thread's flush came first.

**Second invariant**, `SeenInv`, for `~Redelete`: the hint bits, the deleter and
the inserter of every tuple are as the history says (`TuplesRight`), and a
reader's copy may lag behind its tuple, but only in ways that do not matter to
the reader (`CopiesRight`): the tuple has been deleted since by a transaction
that the reader cannot see, or hints were set. The condition is needed:
`mvcc_deleted_again` is the counterexample without it.

**Only model-checked**: Raft's `Convergence` and the pool's `NoLostWakeup`, for
liveness under fairness is outside what the prover handles, and Raft's
`ElectableComplete`. `OutcomeSurvives` and `RecoveredUnlessSpoilt` are proved with the
exemptions they state, and no more is claimed.

## 5. What is left out

* Raft's tick counters and timeouts as numbers, `apply_callback_`, printing. The runs
  propose no empty command, which is replicated and not pushed on
  `applied_commands_`. A cluster of one node, which never elects itself.
* I/O errors, short files, the result of `fsync` (ignored by the code).
* Records appended behind one that a crash tore in the middle (the torn one itself
  ends the scan, as if it were not there).
* The bytes of tuples and pages, CRCs, formats.
* Tuples of an earlier life under a new MVCC manager; `RebuildFromWAL`, an empty
  stub, and with it the order of WAL and commit log at a commit, which no code
  puts together.
* Contents of pages once threads in the pool have met in one of the four ways
  of `raced`: callers can see old data or another page then, and do.


## Not modelled, and why

The parts listed as skeletons above: there is no behaviour in the repository to
be faithful to. Of the B+ tree, `BinarySearch` is written, and it is private and
without a caller. `raft_demo.html` has its own simulation in the browser, which
is not the program's. What remains within the modelled parts: a property that no two
rounds wait for each other would be false of the code, which takes two nodes'
mutexes in either order, and nothing in the repository says that it is not so.
