# TLA+ models of FrankenSQLite's transactions, WAL and recovery

FrankenSQLite is a Rust re-implementation of SQLite whose main addition is
`BEGIN CONCURRENT`: many writers in one process, each on a snapshot, with page
locks, first-committer-wins (FCW) and page-level serializable-snapshot
validation (SSI). This directory models the way of a transaction from BEGIN to
the disk: registry and validation, page locks, the connection's commit steps,
WAL group commit, checkpoint and recovery, and the rollback journal. TLC checks
it on small instances; TLAPS proves every safety invariant that the runs check,
serializability and two refinements among them, for instances of any size.
PROJECT.json is the machine-readable index: components, runs, the map from
definitions to source lines, hazards, findings and theorems.

Abbreviations for files: MV = `fsqlite-mvcc/src/begin_concurrent.rs`,
CN = `fsqlite-core/src/connection.rs`, EN = `fsqlite-vdbe/src/engine.rs`,
PG = `fsqlite-pager/src/pager.rs`, all under `src/crates/`.

## 1. Inventory

The repository is a workspace of 27 crates under `crates/`.

| Part | State | Operations | Interacts with | What makes it correct |
|---|---|---|---|---|
| **Concurrent registry** (MV) | active handles (snapshot, read set, page states, rw flags, mark), committed-reader and committed-writer history | begin, record read, write/free/track page, savepoint, prepare, finalize, abort, prune | lock table, commit index, SSI validation; one mutex per database | serializable commits, no lost update, history complete for whoever may still commit |
| **SSI validation** (`ssi_validation.rs`, `witness_plane.rs`) | none | discover incoming and outgoing edges | called by prepare and finalize | no edge is missed |
| **Page lock table, commit index** (`core_types.rs`) | page → holder (active and draining table), waiter queues and count, page → latest commit sequence | try_acquire, wait_for_holder_change, release, release_set, begin/drain/finalize rebuild; batch_update, latest | every session; sharded mutexes and atomics | one holder over both tables, no lost wake-up, index current when a page is unlocked |
| **Connection** (CN) | session id, retained pager transaction; shared commit clock (`next_commit_seq`, `active_commit_seqs`, `stable_commit_seq`) | BEGIN, COMMIT, ROLLBACK, savepoints | registry, pager, commit index, clock, from many threads | the multi-step begin and commit behave like the one-call API |
| **VDBE page I/O** (EN) | the statement's current page operation | three write tiers, free, conflict-only tracking, waiting with busy timeout, restoration | handle, lock table, pager | failed operations leave no trace, waits end |
| **WAL group commit** (`fsqlite-wal/src/group_commit.rs`, PG) | phase, pending and pipelined batches, epoch, failed epochs | submit, begin/complete/abort flush, claim, publish, wait | committers of one file, WAL append lock | one flusher, each batch settled once, acknowledged frames are in the WAL |
| **WAL, checkpoint** (`fsqlite-wal`: `wal.rs`, `checkpoint*.rs`) | frames, index, generation (salts), checkpoint progress | append, sync, back-fill, reset, recover | pager, file | the committed prefix survives a crash, readers keep their frames |
| **Rollback journal** (PG, `journal.rs`) | journal file, local recovery state | commit, rollback, hot-journal recovery at open and begin | VFS locks and files | all or nothing across errors, crashes, power losses and interrupted recoveries |
| **VFS** (`fsqlite-vfs`) | file and shared-memory locks | open, lock, sync, delete | OS | exclusion between pagers |
| **Transaction manager, version store, GC** (`lifecycle.rs`, `invariants.rs`, `gc.rs`, `ebr.rs`) | version chains, transaction slots, GC horizon | begin, read, write, commit, gc tick | shared memory, lock table | no visible version is reclaimed, snapshots are stable |
| **Serialized writers** (`lifecycle.rs`, `shm.rs`) | writer token in shared memory | acquire, drain, release | concurrent writers | one serialized writer excludes concurrent ones |
| **Publication structures** (`seqlock.rs`, `left_right.rs`, `rcu.rs`, `shm.rs`) | versioned words | read, write | readers without locks | no torn or stale-forever read |
| **Two-phase commit** (`two_phase_commit.rs`) | per-database prepare state, commit marker | prepare, commit, recover | WALs of attached databases | all or nothing |
| **Write coordinator, commit combining** (`write_coordinator.rs`, `commit_combiner.rs`, `flat_combining.rs`, `coordinator_ipc.rs`) | request queues | submit, combine, respond | committers | each request is served once |
| **B-tree, planner, parser, VDBE interpreter, functions, extensions, APIs, CLI, harness** | data structures and translation | - | - | sequential; not modelled |

Behaviours that are hard here: every connection runs on its own thread; the
registry mutex is *not* held from the opening of the pager view to registration,
nor from validation to publication; the commit sequence is drawn after the
frames are durable; commits finish out of order; history is pruned under a size
bound; a page operation that fails half way has to be undone; waiting sessions
keep their locks; a waiter registers, looks and parks while releases run; a
flusher gives up the queue's mutex between the outcome of a flush and its
publication; a checkpoint of one connection runs beside transactions of another;
I/O may fail and power may be lost between any two writes, also during recovery.
`PROJECT.json` lists these as hazards with their lines.

## 2. Modules

| Module | Models |
|---|---|
| `SnapshotStore` | abstract specification: transactions open on a prefix of one commit log, own exclusively what they write, and commit only if nobody has committed one of those pages since; where `MayFailLogged`, a commit that returned an error may be in the log all the same |
| `ConcurrentSsi` | registry, lock table, commit index, SSI validation, conflict history, through the library's one-call API; implements `SnapshotStore` |
| `ConnectionCommit` | extends `ConcurrentSsi` with the begin, statement and commit steps of the connections and the commit clock; implements `SnapshotStore` |
| `SessionPages` | per-page flags of a handle, lock waiting, busy timeout, pager failure, savepoints |
| `PageLockTable` | the lock table itself: acquisition, waiter queues, parking and waking, rolling rebuild, dead owners |
| `GroupCommit` | the group-commit queue: epochs, flusher, waiters, failed flushes |
| `WalCheckpoint` | WAL and database file: commit, sync policy and failing syncs, the four checkpoint modes, reset, I/O failure, power loss, recovery |
| `RollbackJournal` | journal and database file: commit, failure, ROLLBACK, hot-journal recovery, crashes, power loss, file locks |
| `ConcurrentSsiProofs`, `ConnectionCommitProofs`, `SessionPagesProofs`, `PageLockTableProofs`, `GroupCommitProofs`, `WalCheckpointProofs`, `RollbackJournalProofs` | theorems about the module of that name |
| `SerializabilityProofs` | the theorem that `ConcurrentSsi`'s commits are serializable |
| `MC*` | symmetry sets and state constraints for TLC |

What one module takes as a step another opens up: the lock of `ConnectionCommit`
is `PageLockTable`, its durable append is `GroupCommit`, and the WAL that
`GroupCommit` appends to is `WalCheckpoint`'s.

The operators named `...Fault` (other than the counter of injected faults in
`RollbackJournal`) are deliberately wrong variants of the definition that follows
each of them. No specification uses them; they show for every property that a
plausible mistake at that place would be noticed.

### 2.1 ConcurrentSsi

Variables correspond to the fields of `ConcurrentHandle` (`high` is
`snapshot.high`, `reads`, `writes`, `hasIn`, `hasOut`, `marked`), of
`ConcurrentRegistry` (`readers`, `writers`: the committed-conflict history), to
the lock table (`lock`) and the commit index (`index`). `view` and `wal` say what
the code leaves implicit: the order in which writing transactions became durable,
and the prefix of it that a transaction's page images come from.

- `Dangerous` is the page-SSI rule of `prepare_concurrent_commit_with_ssi`: a
  pivot, or a committed neighbour that already has an edge of the same direction.
- `Refuses` is the order of its checks: FCW, mark, and - unless the uncontended
  fast path applies (`Uncontended`) - SSI.
- `Publish` is `finalize_prepared_concurrent_commit_with_ssi` together with the
  removal of the handle: T3 propagation, commit index, locks, history, pruning.
  The adaptive controller may decline to turn a T3 pivot into a mark; its
  decision is the free choice `doom`.
- `Doomable` gives the sets of sessions that the size bound may mark: oldest
  snapshot first, as few as possible, any choice among equals.
- An aborted transaction's sets are cleared, since it leaves no trace.

Abstractions: a page stands for a witness key (cells and ranges refine the keys
but are compared by overlap as well); the fingerprints and small indexes over
page sets are an optimisation of the set intersections; evidence records and
metrics are left out; so is the lab-only mode that skips SSI.

### 2.2 ConnectionCommit

One transaction per connection, each connection a thread. `want` is the page
between the index check and the lock acquisition of a first-touch write, `plan`
the prepared commit, `frames` the pages of which the WAL has a transaction's
frames, `activeSeqs` and `stable` the commit clock. `align_commit_clock_floor` is
two independent `fetch_max`: `AlignClockFloor` is the first, on the stable
sequence, `LiftClock` the second, and `lift` what a thread between them has yet
to raise `next_commit_seq` to. Commits of other connections may draw sequences in
between.

| Step | Code |
|---|---|
| `BindPublication`, `OpenPager`, `AlignToView`, `RefreshSnapshot`, `RegisterSession`, `RegistryFull` | `execute_begin`, `concurrent_snapshot_from_publication`, `SimplePager::begin`, `refresh_concurrent_begin_from_open_txn`, `begin_concurrent` |
| `LiftClock` | the second `fetch_max` of `align_commit_clock_floor`, at BEGIN and after COMMIT |
| `CheckPage`, `AcquirePage`, `PageBusy` | `write_page_tier1_first_touch` (index check, lock, wait) |
| `PlanCommit`, `RefuseCommit` | `plan_concurrent_commit_with_registry` |
| `PagerCommit`, `PagerFail`, `PagerFailLogged` | the WAL commit with `conflicting_pages_since_snapshot`; its error before the append, and after it |
| `AdvanceCommitClock`, `FinalizeCommit`, `FinishCommitClock` | the functions of those names and the visibility-floor sync |
| `CommitReadOnly` | `finalize_read_only_concurrent_commit` |

A COMMIT may return an error although its frames are in the WAL
(`PagerFailLogged`: a failed sync or unlock after the append, or the failure of
the flusher's next epoch). The session stays registered with its locks, and
neither clock nor index nor history hears of the frames, which every transaction
opened from then on reads. It can then only roll back: a repeated COMMIT conflicts
with its own frames. Its locks are free afterwards while the index is behind, so
`PlannedIsFresh` and `UnlockedIndexIsCurrent` except such frames, and what guards
them is the WAL's own check (`NoLostFrames`).

History: `HistoryIsKept` says that no step drops a history entry that an unmarked
registered session may still need (`Covered`). It is stated of steps because the
begin window leaves a new session without the entries of commits that finalized
before it registered (see section 5); what is there when it registers stays.

Assumptions of the model: a transaction is the first of its connection; a WAL
append carries one transaction; the pager's visible sequence is the number of
commits in the WAL; `PagerFail` may happen at any time (conflict, busy, I/O), and
`PagerFailLogged` whenever the append is possible; a COMMIT that returns Ok has
its frames in the WAL (the exception is `group_ack_lost`); serialized
(non-concurrent) writers, which bypass registry and commit index, are absent.

### 2.3 SessionPages

`state[t][p]` is the set of flags of `PageTxnState`. An operation goes through
check, acquire (or wait), pager; every failure goes through `Restore`
(`concurrent_restore_page_state`). A session has one savepoint, which may be
taken, rolled back to and released any number of times. The commit index is not
part of this module: a check may fail whenever the page is not held. `Exemptable`
and `Freeable` are the pages that may be marked metadata-exempt and freed. In the
code exempt pages are structural metadata such as freelist trunks, so the run
frees another page than the one it marks.

### 2.4 PageLockTable

One thread, one transaction. `active` is the flat array together with the shards,
`draining` the table a rolling rebuild has set aside. A compare-and-swap and a
section under one shard's mutex are one step each. A sharded acquisition is two
steps, the look at the draining table (`TryAcquire`) and the insertion
(`TryInsert`); a fast page takes one. A waiter goes through `FirstLook`,
`Register`, `Recheck`, parking (`Unparked`, `ParkTimesOut`) and `Unregister`; its
looks at the two tables are two steps when a rebuild runs (`want.mid`). A release
reads the waiter count (`CountWaiters`) and empties the queues of its pages one
after another (`Sweep`), while others register. `Die` leaves a lock behind
without releasing it; the keeper's `DrainOrphaned` removes such locks from the
draining table. `Total` sums a function over threads or pages as the cardinality
of a set of pairs, so that the waiter count can be reasoned about without
induction; `Threads` and `Pages` are finite.

The SeqCst fences are taken at their word: the waiter count and the slots are
sequentially consistent. Left out: the flat-combining feature, the WebAssembly
condition variable, `wait_for_release_progress`.

### 2.5 GroupCommit

`phase`, `pending`, `pipelined`, `epoch` and `vacant` are the fields of the
consolidator; every action that holds its mutex is one step. `Complete` and
`PublishCompleted`, `Abort` and `PublishFailed` are separate because the code
releases the mutex in between. `Flush` is the append under the WAL lock: the
cross-batch conflict check (`Overlap`), the check of every batch against the
frames after its snapshot (`Stale`), append and sync, each of which may fail
(`IoFaults`). A waiter looks (`Observe`), parks, is signalled or times out.

Page 1, which disjoint batches may share, is left out of the batches; arrival
waits, lane staging and prepared payloads change timing and not outcome.

### 2.6 WalCheckpoint

The frames of one commit are one entry of `wal`. `synced` entries are on disk for
certain; of the rest a power loss keeps any prefix (the cumulative checksum lets
only a prefix survive). `disk[p]` is the set of contents that a power loss may
leave of a database page. A reset writes a new header (`ResetHeader`) and syncs
it (`ResetSync`); until then the old generation (`old`) may come back. `hist` is
the history that the files stand for, `acked` the commits that must survive.
`Effective` is the pager's choice of mode: a reset only by the sole connection of
the file. Transactions are those that the connection-level checkpoint does not
wait for.

Syncs may fail (`SyncFails`): the frames stay in the WAL unsynced, visible to
everyone, and RESERVED is released. A checkpoint may fail at any step
(`CheckpointFails`), also when the new header is written and not synced. A
back-fill does not notice that another connection has reset the WAL since its
plan: it reads frames by number (`StaleWrite`).

`intact` records four accidents that the code does not prevent (section 5). The
properties of `wal_full_sync` are about executions without one of them:

- a power loss after a back-fill has copied a commit that is not synced
  (`Exposed`), because its sync failed, is still running, or is deferred;
- a reset that discards a commit made since the checkpoint's plan, or that follows
  a reset whose header was never synced (`Discardable`);
- a back-fill that outlives its generation (`StaleWrite`);
- a power loss that brings back a part of a generation whose reset is not synced
  after new frames were written over it (`Crash`).

Simplifications: the sole-connection test and the refresh of the handle are one
step; a sync that succeeds covers all earlier writes of the file, those of an
earlier failed sync included; passive and full checkpoints do the same, since no
reader is ever passed to the plan. Left out: changes of the database size, and
the read-back of checksums before a truncation, which compares what the same
checkpoint has just written.

### 2.7 RollbackJournal

A page's content is the number of the commit that wrote it, `Absent` beyond the
end of the file, `Zeroed` for the zero image journalled of a page that did not
exist, `Torn` for a write that a power loss interrupted. `cache` and `jrn` are
the two files as processes see them. `disk` and `jdisk` are what a power loss may
leave: any content each page, and any state the journal, has had since its last
sync.

| Steps | Code |
|---|---|
| `Open`, `OpenHot`, `Begin`, `BeginHot`, `BeginRecovery`, `BeginVanished`, `BeginBusy` | opening and `begin` with the test for a hot journal and the pager's own pending recovery |
| `EnsureWriter`, `StartCommit`, `Retry` | RESERVED, then EXCLUSIVE; a COMMIT repeated after its failure |
| `WriteHeader`, `WriteRecord`, `SyncRecords`, `WritePage`, `SyncDatabase`, `Invalidate`, `InvalidateFails`, `Committed`, `CommitFails` | `commit_journal` |
| `WriteBack`, `SyncRestored`, `CutDatabase`, `RetireJournal`, `NothingToReplay`, `Recovered`, `ReplayFails` | `replay_journal` and what its callers do afterwards; `handle` is the journal that it has open |
| `RollbackFailed`, `Rollback`, `LateDelete`, `DropTransaction` | ROLLBACK and drop |
| `Crash`, `PowerLoss` | a process dies; power is lost |

`CanLock` is the lock rule of `UnixFile::lock`; `OneProcess` chooses between
handles of different processes (POSIX locks) and of one (a count of RESERVED
only).

Ghosts: `base` is the committed content, `allowed` what a recovery may give - the
last COMMIT that returned Ok, or all of one in doubt since. `guarded` becomes
false in the three ways in which the code loses a journal that the database still
needs (section 5); the two properties speak of the executions in which it is
true. A journal that is passed over must be `Dispensable`: not only does the
database file hold the committed content without it, replaying it would make no
difference either. The second half came out of the proof: with only the first,
`RecoversToCommitted` is false, but TLC needs more faults than the run's three
(eight suffice with one pager) to show it. `StandsFor` tolerates a zero or torn
page behind the end of the committed database, never a committed version.

Crash assumptions: a deletion that returned is durable, and the sync of a new
journal makes its directory entry durable; a sync that failed may have written
anything. The page cache, the freelist and page allocation are left out.

## 3. Runs

| Run | Instance | Shows |
|---|---|---|
| `ssi_library` | 3 transactions, 3 pages, history bound 3 | The one-call API: types, locks, FCW, complete history, serializability (read-only transactions included), refinement of `SnapshotStore`. The bound is below what two commits can push, so sessions are doomed. |
| `conn_interleaved` | 3 transactions, 2 pages, 2 sessions at most, history bound 1, one page read by each | All interleavings of begin, statement and commit steps, failed COMMITs with and without frames in the WAL: locks, FCW, freshness of planned transactions, order of sequences, index coherence and monotonicity, history kept for registered sessions, refinement of `SnapshotStore`. The limit of two sessions makes `RegistryFull` happen. |
| `conn_progress` | 2 x 2, `FairConnSpec` | Durable transactions release their locks; the stable watermark reaches every sequence |
| `pages` | 2 sessions, 2 pages, one exemptable, the other freeable, `FairSpec` | Flags and lock table agree; pending work is locked and of one kind; ROLLBACK TO restores the staged pages; every operation ends although wait cycles occur |
| `page_lock_table` | 3 threads, a fast and a sharded page | One holder over both tables, exact waiter count, no lost wake-up, abandoned waiter entries are swept |
| `group_commit` | 3 transactions, 2 pages, appends and syncs may fail, `FairSpec` | One flusher, every batch flushed in the epoch its waiter expects, FCW within and across groups, an aborted flush hands over, every batch settles without the timeout |
| `wal_full_sync` | 2 connections, 2 pages, all modes, synchronous=FULL, 3 commits, 2 faults (power losses, failed syncs, failed checkpoints) | Until one of the four accidents of `intact`: the files hold exactly the committed history, acknowledged commits survive, no lost update across resets |
| `rollback_journal` | 2 processes, 2 pages, 2 commits, 3 faults | Every state recovers to the last acknowledged commit or all of one in doubt, also from the middle of a recovery; no transaction reads a half-written file |
| `begin_window_write_skew` | violation | A commit published between pager open and registration leaves no history for the new session: a write skew commits |
| `checkpoint_overtakes_reader` | violation | A checkpoint puts newer pages under another connection's snapshot |
| `deferred_partial_commit` | violation | synchronous=NORMAL: power lost during back-fill keeps half a commit |
| `group_ack_lost` | violation | COMMIT returns Ok for frames that were never appended |

Why the bounds are enough. A dependency cycle that SSI must break needs at most
three transactions and three pages (a dangerous structure has two consecutive
rw edges and a closing path; with two pages cycles of two and three transactions
exist, with three every edge of a three-cycle may be on its own page). Begin and
commit windows need one transaction inside and one or two committing. History
pruning needs two commits and a surviving session. Wait cycles need two sessions
and two pages. A lost wake-up needs a holder, a waiter and a third thread that
takes the lock in between; a rebuild conflict needs one page in each structure. A
failed epoch that is overtaken by a completed one needs three committers. WAL
resets need a commit before, one after, and one whose snapshot was pinned before
the reset: a connection opens and begins while the sole connection of a moment
ago resets, and commits afterwards (without the generation in `Conflict`,
`NoLostUpdate` is violated). Two faults make a power loss after a failed sync or
reset, and an interrupted recovery. In the journal, page 1 always
exists and page 2 is first created, then overwritten, so restored, truncated and
rewritten pages all occur; three faults are a failure, a crash during the
recovery from it, and a power loss.

Deadlock checking is off where all transactions of an instance end or its bounds
are used up; it is on in the `WalCheckpoint` runs, whose connections can always
open and close.

Fairness. `FairConnSpec` lets a connection's thread that has entered COMMIT, or
that is between check and lock, take its next step: none of those steps waits
for another transaction (weak fairness). BEGIN, statements and the decision to
commit are not fair. `SessionPages!FairSpec` is weakly fair for the steps of an
operation, and strongly fair for the busy timeout: the deadline is absolute, so a
session that keeps waking and waiting again reaches it. `GroupCommit!FairSpec` is
weakly fair for every step of a thread except the waiter's timeout, so that
`BatchesSettle` does not rest on it.

`WalFullSync.cfg` explores no state after an accident (`CONSTRAINT Undamaged`):
`intact` never becomes true again, and every property of that run but the types
has it as its premise. The theorem `TypeCorrect` covers the types beyond it.
`ConnInterleaved.cfg` lets a transaction read one page (`CONSTRAINT OneReadEach`):
reads matter to its properties through history entries and refusals only, for
which one is enough; `begin_window_write_skew`, which needs the dependencies, and
the theorems have no such bound.

## 4. Proofs

All theorems hold for every value of the constants that satisfies the named
assumptions of the modules: `Txns`, `Threads` and the lock table's `Pages` are
finite, placeholders such as `NoTxn` are no members, limits are naturals. Further
hypotheses are stated with the theorem and repeated below. Each safety invariant
of a passing run is a theorem, `AckedSurvive` and the journal's two under the
hypotheses that their runs have as well.

| Module | Theorems (property) | Hypotheses |
|---|---|---|
| `ConcurrentSsiProofs` | `TypeCorrect`, `LocksCorrect` (`LocksMatchSessions`), `FirstCommitterWins` (`NoLostUpdate`), `HistoryCoverage` (`HistoryCoversActive`), `Refinement` (`ImplementsStore`) | - |
| `SerializabilityProofs` | `SsiSerializable` (`Serializable`) | - |
| `ConnectionCommitProofs` | `ConnTypes`, `ConnLocks`, `ConnFirstCommitterWins` (`NoLostFrames`), `ConnSequenceOrder` (`SeqOrderMatchesWal`), `ConnUnlockedIndex` (`UnlockedIndexIsCurrent`), `ConnPlannedIsFresh`; the action properties `ConnIndexMonotone`, `ConnHistoryIsKept`; `ConnRefinement` | - |
| `SessionPagesProofs` | `TypeCorrect`, `LocksAgree` (`LockTableAgrees`), `PendingLocked` (`PendingPagesAreLocked`); the action property `RollbackRestores` | - |
| `PageLockTableProofs` | `TypeCorrect`, `LocksAreExclusive` (`Exclusive`), `CountStaysExact` (`CountIsExact`), `WakeupsAreNotLost` (`NoLostWakeup`), `LeftEntriesGo` (`LeftEntriesAreSwept`) | - |
| `GroupCommitProofs` | `TypeCorrect`, `FlusherIsUnique` (`OneFlusher`), `EpochsMatchTargets` (`FlushedInTargetEpoch`), `GroupsFirstCommitterWins`, `AbortHandsOver` (`VacancyWillBeTaken`) | - |
| `WalCheckpointProofs` | `TypeCorrect`, `FilesMatchHistory`, `AckedCommitsSurvive`, `UpdatesAreNotLost` | for `AckedCommitsSurvive` `SyncPolicy = "PerCommit"` |
| `RollbackJournalProofs` | `TypeCorrect`; `RecoveryGivesCommitted`, `ReadersIsolated` | for the last two `OneProcess = FALSE` |

The hypotheses are not there for convenience. With synchronous=NORMAL an
acknowledged commit is lost with its unsynced frames, and without
`OneProcess = FALSE` TLC finds the dirty read of section 5.

### 4.1 First committer wins in the library

`NoLostUpdate` speaks of positions in the log and of views, the code of sequence
numbers, so it is not inductive. `IInv` adds what relates the two: logged
transactions have sequences below the next one (`LogSequenced`); a session's
`high` covers only commits inside its view (`SnapshotCovers`); the commit index
of a page is at least the sequence of every commit of it (`IndexCovers`). Then
`index[p] <= high[t]` for every written page puts each conflicting commit inside
the view (`ValidatedIsFirst`), which serves both FCW and the commit step of the
refinement. Exclusive ownership in the store follows from `LocksMatchSessions`.

### 4.2 Serializability

The history bound, the fast path and the T3 marks all bear on it. `SInv`, beside
`IInv` and the history coverage `HInv`, has four parts: commit sequences follow
the log and lie above their snapshots (`Sequenced`); a snapshot's `high` and its
view are one prefix of the log (`ViewIsHigh`); a writer entry is flagged if its
transaction committed with an antidependency on an earlier commit
(`HistoryTells`); and no antidependencies a -> b -> c lead to a c that is the
first commit of the three (`NoDanger`).

Dependencies other than antidependencies go from a commit to a snapshot that has
it. A cycle is a nonempty set of commits in which each has a successor; in a
smallest one each has a predecessor as well (`SmallestCycle`). Take its first
commit c. Its predecessor b has an antidependency on it, b -> c, since b
did not commit before c; so b's snapshot is older than c, and whichever a has an
edge into b cannot be in that snapshot: a -> b is an
antidependency too. `NoDanger` forbids this. That a commit preserves `NoDanger`
is the validation: if b is the one that commits, it sees both edges; if it is a,
it finds b's entry, which history coverage has kept for it, with the flag set; c
is first and so neither. The uncontended fast path skips this only if the last
entries are not newer than the snapshot, and the last are the newest
(`LastIsNewest`). Read-only transactions take part in the cycle as everybody
does, since the one-call API validates them.

History coverage is inductive as stated (`HInv`): an entry is dropped only if no
unmarked session has an older snapshot, and a session that loses entries to the
size bound is marked in the same step and cannot commit.

The smallest cycle and its first commit are taken with the well-foundedness of `<`
on the naturals (`Least`), which needs no induction principle with a formula as
its parameter.

### 4.3 Connections

On the multi-step path `SnapshotCovers` fails (a commit published during BEGIN, or
one that draws its sequence between the two `fetch_max`, makes the snapshot newer
than the view, section 5), so the argument is another one. The centre of `CInv` is
`LogOrder`: of two logged transactions with frames of one page the first has left
the registry, is in the second's view, and has the smaller sequence if both have
one. It is established when the second's frames are appended: both cannot be
registered with a common page (`SessionsDisjoint`), so the first has left the
registry; the WAL's own check puts it into the view; and a sequence is drawn
afterwards from a clock above all earlier ones. A COMMIT that failed with its
frames in the WAL leaves the registry by a rollback and never draws a sequence, so
it is in the order of views and not in that of sequences. `IndexSource` (an index
entry is some published commit's sequence) and `LogOrder` give monotonicity of the
index (`FinalizeRaisesIndex`) although entries are overwritten without a
comparison. First-committer-wins of the real path thus rests on page locks and the
WAL check alone, not on the snapshot's `high`. That is also why neither the window
between the two `fetch_max` nor a failed COMMIT breaks the refinement: the store's
`FailLogged` is the append that was reported as failed.

`DInv` adds the rest of the types, that the stable sequence is below the clock or
below what some thread is about to lift it to, that the index check of a planned
transaction still holds (`PlannedCurrent`: its pages are locked, so nobody can
publish one of them), and that history entries are of published commits
(`EntriesStand`). `ConnPlannedIsFresh` follows: a committed version that is not in
the view of a planned transaction would have to be one that its snapshot claims.
`ConnHistoryIsKept` compares both sides of every step that prunes. Neither
contradicts the run `begin_window_write_skew`: what the begin window loses is lost
before the session is registered, and a snapshot taken in it may be unsound.

### 4.4 Page states of a session

The agreement of flags and lock table is not inductive alone: a failing operation
puts back flags that it captured when it began, ROLLBACK TO those of the
savepoint. `IInv` says of both captures what it says of the page states (`OpOK`,
`SaveOK`), and that a lock which an operation found held is held until it ends.

### 4.5 Page lock table

Exclusion: `HeldIsTabled`, and the draining table has no entry outside rebuilds,
for fast pages, and for a page whose insertion is half done (`DrainingIsFree`).
The last is what makes the two steps of a sharded acquisition safe.

Wake-ups: a waiter between registration and return has its entry in the queue or
a token (`EntryOrToken`); while it has the entry, the holder it saw is still
there, or has gone and whoever made it go has not yet swept the queue
(`HolderOrSweep`). A releaser skips the sweep if the waiter count is zero, so
`CountIsExact` is part of the invariant; its proof counts queue entries as pairs.

### 4.6 Group commit

Epochs carry the argument. Queued batches have the epoch after the consolidator's
as their target (`QueuedTargets`), a running flush has the consolidator's epoch
(`JobEpochs`), what is in the WAL has an epoch that is over (`WalTargets`), and
recorded outcomes are of the past (`OutcomesArePast`). So the three sets never
meet: no batch is appended twice, and no waiter takes an older epoch's outcome
for its own. One owner of the flushing phase (`OneOwner`) and one designated
flusher (`OneDesignated`) give `OneFlusher`.

### 4.7 WAL and checkpoint

`IInv` is `SInv`, which holds in every state, and `KInv`, which holds while
`intact` does. Neither assumes a sync policy. `SInv` has the types and the shapes
of transactions and checkpoints; what matters of it is that at most one checkpoint
resets and that back-fills beside it, of connections opened since, copy at least
as much (`ResetShape`).

`KInv`: the WAL is the tail of the history (`IsTail`), and what the disk may hold
of a page is what the history before the WAL left of it or what some WAL entry
wrote (`DiskOK`). A power loss that is no accident finds only synced entries among
these, so whichever prefix of the WAL and whichever pages survive are together a
prefix of the history that has every synced commit; under `PerCommit` acknowledged
ones are synced (`AckedSynced`). A reset that is no accident drops no commit of
which the synced database file does not have the content (`ResetOK`), whatever
other connections were opened meanwhile; until the new header is synced, the old
generation that may come back lies right before the WAL in the history (`OldOK`).
A transaction that was pinned before the reset fails the generation test of
`Conflict`; one of this generation has the state at its place in the WAL
(`TxView`), which with the conflict check gives `UpdatesAreNotLost`.

### 4.8 Rollback journal

`BInv` (types, shapes of the files) holds always. As long as `guarded` does,
`GInv` follows the journals that a power loss may leave: each gives one allowed
content (`Gives`), a hot one by its images and the pages it leaves alone (`Undo`),
one that is not hot by the database file as it is (`Plain`). A hot journal is
safely on disk before the database file changes (`HotIsSafe`). `StepsOK` and
`ReplayOK` say how far commit and recovery have come: records before pages, pages
before the journal's invalidation, and in a recovery the journal until the
content is back. That only one pager is at any of these steps is `LocksExclude`,
the one place where `OneProcess = FALSE` is used.

### 4.9 Only model-checked

`OperationsEnd`, `BatchesSettle`, `DurableReleasesLocks` and `StableCatchesUp`,
which are liveness under fairness: the prover has neither liveness nor `ENABLED`.
The four violation runs are counterexamples and not theorems. No definition here
needs induction over data.

## 5. Disagreements with the documentation, and observations

The four violation runs are recorded under `findings` with the lines they quote.
FCW is not affected by them: the WAL's own conflict check under the append lock
uses the pinned view (`conn_interleaved`, theorem `ConnRefinement`).

Seen while modelling, and not carried as runs of their own.

*Registry and connection.*

- A commit published during BEGIN makes the snapshot newer than the pager view
  (CN:12268), contrary to the comment at CN:40319.
- The plan of a commit is not validated again before publication (MV:3213): a
  transaction may become a pivot in between, and three writers form a cycle.
- Read-only commits skip validation and history (CN:40962): the read-only
  transaction anomaly is possible.
- Sessions that hold pages wait for each other (EN:2494), contrary to "no
  wait-for cycles" (src/README.md:75, 362). The busy timeout ends such a wait
  (`OperationsEnd`).
- A session marked after it was planned still commits although retention no
  longer counts it.
- `align_commit_clock_floor` may raise `stable_commit_seq` above a sequence still
  in `active_commit_seqs`. Its two `fetch_max` are independent (CN:11922-11929):
  between them the stable sequence is not below the clock, and another commit may
  draw a sequence that a snapshot taken meanwhile claims although the commit lies
  behind its view. `SnapshotSound` is false of such a snapshot; FCW does not
  depend on it.
- A COMMIT that fails with its frames in the WAL (CN:41227) is outside the commit
  index and the conflict history, although later transactions read what it wrote:
  SSI does not see its dependencies, and `UpdatesSerializable` does not count it.
  Of the MVCC layer and the WAL check only the latter guards its pages.
- A staged page marked metadata-exempt is not captured by a savepoint (the engine
  does not use that interface).

*Group commit.*

- `publish_completed_epoch` stores its epoch without a comparison (PG:1044, against
  the comment at PG:1036). A late store of an earlier epoch hides a later one: a
  waiter of the later epoch sleeps until a further epoch completes or its timeout.
- A durable flusher that goes on to flush the next epoch returns that epoch's
  error for its own commit.
- Failed epochs are forgotten after 128 further ones; a waiter that sleeps longer
  returns Ok.
- One stale batch fails its whole group; an append whose sync failed stays in the
  WAL though every commit of it was reported as failed; an early return by `?`
  between `begin_flush` and the flush leaves the phase FLUSHING.

*WAL and checkpoint.*

The four ways in which `intact` becomes false. TLC finds `FilesAreHistory` or
`AckedSurvive` violated by each of them when it is not recorded:

- Under synchronous=FULL a checkpoint that another connection starts between a
  commit's append and its sync, or after a sync that failed (PG:7831), copies
  frames that are not on disk; a power loss may then keep part of that commit.
- The test for the sole connection (PG:10433) is not protected against one that
  opens afterwards, and counts the connections of one process: a commit made
  during the back-fill is discarded by the reset, acknowledged or not. (A further
  reset on top of one that is not synced is counted here too: several old headers
  may then come back, of which the model follows one. It takes more than the run's
  two faults.)
- A back-fill that runs while another connection resets the WAL reads frames of
  the new generation by their old numbers (`checkpoint_executor.rs` 171,
  `wal.rs` 1235), and writes them under the planned page numbers.
- A reset that failed in truncation or sync (`wal.rs` 1421-1429) leaves the new
  header unsynced. If frames are appended behind it and power is lost before a
  sync, the old header may come back over a file whose first frames are new.

*Rollback journal.* The three ways in which `guarded` becomes false:

- ROLLBACK unlocks first (PG:9814) and deletes the journal afterwards (PG:9821):
  it may delete the journal of another process's commit.
- A COMMIT repeated after it failed while writing the database (state Pending)
  journals its pre-images from the half-written file (PG:9303).
- During recovery a journal that cannot be opened counts as none and is then
  deleted (PG:5970). If that deletion fails too, the journal stays hot, and a
  later recovery replays its images over content that transactions have since
  read or committed.

Further:

- When both invalidation and deletion of the journal fail, COMMIT returns an
  error and the state is Clean though the transaction is committed, or will be
  taken back by the next recovery: it stays in doubt.
- A pager in state Pending whose journal was recovered by another process fails
  every later begin ("rollback journal missing while local recovery was pending",
  PG:4715).
- A hot journal is not synced before it is replayed: a process crash followed by
  a power loss during recovery may leave a zero or torn page behind the end of
  the database. The directory is not synced after the journal's creation, and
  errors of the directory sync after a deletion are dropped; the model assumes
  both succeed.
- Between handles of one process `UnixFile::lock` looks at RESERVED only
  (`unix.rs` 1821-1895). With `OneProcess = TRUE` TLC violates
  `ReadersSeeCommitted`: a reader keeps SHARED while the other handle commits
  under EXCLUSIVE. `rollback_journal` is therefore about pagers of different
  processes.

*Transaction manager* (not modelled): a concurrent writer checks for a serialized
one (`lifecycle.rs` 1402) before its lock is visible to the drain (1946-2000); the
shared snapshot is published with the committer's own sequence whatever lower
ones are still in progress (1274); the snapshot is taken before the transaction
is registered for garbage collection (706-756).

## 6. Not modelled

- **Transaction manager, version store, GC; serialized exclusion.** SQL
  transactions do not go through them: connections use the concurrent registry,
  and only status pragmas and tests call the manager.
- **Seqlock, left-right, RCU.** Their correctness is that of fences around
  relaxed accesses; interleavings of atomic steps do not show it.
- **Two-phase commit.** A record of phases in memory without I/O, which no
  commit path drives; a model would restate its match arms.
- **Write coordinator, commit combining.** Started by the connections, but SQL
  commits take the group-commit queue.
- **Cell visibility log, rowid allocation.** Would fit; lower priority than the
  paths that every commit takes.
- **Forward error correction, native commit, parallel WAL.** Arithmetic over
  large blocks, and not the default commit path.
- **The page cache, freelist and allocation of the pager; the WAL index's shared
  memory; changes of the database size under WAL.**
- **B-tree, SQL front end, VDBE interpreter, functions, extensions, API surfaces,
  harness.** Sequential translation and computation over large data. They are
  most of the repository's lines; what they cause in the modelled layers is page
  reads and writes.

## 7. Plan

1. *(done)* registry and SSI, connection commit, page states.
2. *(done)* `PageLockTable`, `GroupCommit`, `WalCheckpoint`, `RollbackJournal`.
3. *(done)* proofs of the safety invariants of all modules, serializability of the
   one-call API, two action properties of the commit path and one of savepoints,
   two refinements.
4. Next: how the modules fit together as theorems, where a step of one is opened
   up by another (the lock of `SessionPages` and that of `PageLockTable`, the
   append of `ConnectionCommit` and `GroupCommit`); which part of serializability
   the multi-step path keeps outside the begin and plan windows.
5. Optional: the rowid allocator; `VersionStore` and `SerializedExclusion`, should
   SQL transactions come to use the transaction manager.
