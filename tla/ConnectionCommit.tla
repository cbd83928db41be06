-------------------------- MODULE ConnectionCommit --------------------------
(***************************************************************************)
(* BEGIN CONCURRENT ... COMMIT as the connections of fsqlite-core run it,  *)
(* one thread per connection, over the shared registry, page lock table,   *)
(* commit index and commit clock of one database file.                     *)
(*                                                                         *)
(* Unlike the one-call library API (ConcurrentSsi), beginning and          *)
(* committing each take several steps, and other connections run between   *)
(* them: the registry mutex is held to register, to plan and to publish,   *)
(* but not while the pager transaction is opened nor while it is committed.*)
(*                                                                         *)
(*   begin : BindPublication, OpenPager, AlignToView, RefreshSnapshot,     *)
(*           RegisterSession                                               *)
(*   commit: PlanCommit, PagerCommit, AdvanceCommitClock,                  *)
(*           FinalizeCommit, FinishCommitClock                             *)
(*                                                                         *)
(* A pager commit may fail before or after its frames are in the WAL       *)
(* (PagerFail, PagerFailLogged); the caller cannot tell which.             *)
(*                                                                         *)
(* Every transaction is the first one of a connection of its own.  The     *)
(* pager's visible commit sequence is the number of commits in the WAL;    *)
(* the commit clock is a second counter that is only kept above it.        *)
(***************************************************************************)
EXTENDS ConcurrentSsi

VARIABLES
    want,       \* page a first-touch write has checked, not yet locked
    plan,       \* the PreparedConcurrentCommit of a planned transaction
    frames,     \* pages of which the WAL has a frame by each transaction
    activeSeqs, \* active_commit_seqs: handed out, not yet finished
    stable,     \* stable_commit_seq
    lift        \* what a thread has yet to raise next_commit_seq to, or 0

clockVars == <<nextSeq, activeSeqs, stable, lift>>
connVars == <<want, plan, frames, activeSeqs, stable, lift>>
vars == <<ssiVars, connVars>>

NoPlan == [in |-> {}, out |-> {}]

ConnInit ==
    /\ Init
    /\ want = [t \in Txns |-> {}]
    /\ plan = [t \in Txns |-> NoPlan]
    /\ frames = [t \in Txns |-> {}]
    /\ activeSeqs = {}
    /\ stable = 0
    /\ lift = [t \in Txns |-> 0]

-----------------------------------------------------------------------------
(* The commit clock *)

Larger(a, b) == IF a < b THEN b ELSE a

\* CommitIndex::latest_seq, the largest sequence ever published to the index.
LatestSeq == IF \A p \in Pages : index[p] = 0 THEN 0
             ELSE CHOOSE s \in {index[p] : p \in Pages} :
                      \A p \in Pages : index[p] <= s

\* Fault: only the watermark is raised.
AlignClockFloorFault(t, visible) ==
    /\ stable' = Larger(stable, visible)
    /\ UNCHANGED <<nextSeq, lift>>

\* What t's second fetch_max will raise the clock to; nothing if the clock has
\* passed it already, for it never goes back.
LiftTo(t, visible) ==
    [lift EXCEPT ![t] = IF nextSeq <= visible THEN visible + 1 ELSE 0]

\* align_commit_clock_floor, the first of its two independent fetch_max.
AlignClockFloor(t, visible) ==
    /\ stable' = Larger(stable, visible)
    /\ lift' = LiftTo(t, visible)
    /\ UNCHANGED nextSeq

\* The second fetch_max; until then the watermark is not below the clock.
LiftClock(t) ==
    /\ lift[t] # 0
    /\ nextSeq' = Larger(nextSeq, lift[t])
    /\ lift' = [lift EXCEPT ![t] = 0]
    /\ UNCHANGED <<phase, handleVars, lock, index, historyVars, seqOf, wal, want,
                   plan, frames, activeSeqs, stable>>

-----------------------------------------------------------------------------
(* BEGIN CONCURRENT *)

\* The statement binds the pager's published commit sequence and lifts the
\* commit clock to it; the snapshot starts out there.
BindPublication(t) ==
    /\ phase[t] = "idle"
    /\ phase' = [phase EXCEPT ![t] = "bound"]
    /\ high' = [high EXCEPT ![t] = Len(wal)]
    /\ AlignClockFloor(t, Len(wal))
    /\ UNCHANGED <<view, reads, writes, hasIn, hasOut, marked, lock, index,
                   historyVars, seqOf, wal, want, plan, frames, activeSeqs>>

\* Fault: the publication bound earlier is taken for the opened view.
OpenPagerFault(t) ==
    /\ phase[t] = "bound"
    /\ lift[t] = 0
    /\ phase' = [phase EXCEPT ![t] = "opened"]
    /\ view' = [view EXCEPT ![t] = high[t]]
    /\ UNCHANGED <<high, reads, writes, hasIn, hasOut, marked, lock, index,
                   historyVars, seqOf, wal, want, plan, frames, clockVars>>

\* pager.begin pins the WAL prefix that every page read will come from.
OpenPager(t) ==
    /\ phase[t] = "bound"
    /\ lift[t] = 0
    /\ phase' = [phase EXCEPT ![t] = "opened"]
    /\ view' = [view EXCEPT ![t] = Len(wal)]
    /\ UNCHANGED <<high, reads, writes, hasIn, hasOut, marked, lock, index,
                   historyVars, seqOf, wal, want, plan, frames, clockVars>>

\* refresh_concurrent_begin_from_open_txn lifts the commit clock to what the
\* pager opened ...
AlignToView(t) ==
    /\ phase[t] = "opened"
    /\ phase' = [phase EXCEPT ![t] = "aligned"]
    /\ AlignClockFloor(t, view[t])
    /\ UNCHANGED <<handleVars, lock, index, historyVars, seqOf, wal, want, plan,
                   frames, activeSeqs>>

\* ... and then raises the snapshot to it and to the latest sequence in the
\* commit index.
RefreshSnapshot(t) ==
    /\ phase[t] = "aligned"
    /\ lift[t] = 0
    /\ phase' = [phase EXCEPT ![t] = "refreshed"]
    /\ high' = [high EXCEPT ![t] = Larger(@, Larger(view[t], LatestSeq))]
    /\ UNCHANGED <<view, reads, writes, hasIn, hasOut, marked, lock, index,
                   historyVars, seqOf, wal, want, plan, frames, clockVars>>

\* begin_concurrent under the registry mutex.
RegisterSession(t) ==
    /\ phase[t] = "refreshed"
    /\ Cardinality(Sessions) < MaxConcurrentWriters
    /\ phase' = [phase EXCEPT ![t] = "active"]
    /\ UNCHANGED <<handleVars, lock, index, historyVars, seqOf, wal, want, plan,
                   frames, clockVars>>

\* begin_concurrent answers Busy; the pager transaction is rolled back.
RegistryFull(t) ==
    /\ phase[t] = "refreshed"
    /\ Cardinality(Sessions) >= MaxConcurrentWriters
    /\ Discard(t)
    /\ UNCHANGED connVars

-----------------------------------------------------------------------------
(* Statements *)

\* The transaction is between statements.
Ready(t) == phase[t] = "active" /\ want[t] = {}

Read(t, p) ==
    /\ Ready(t)
    /\ RecordRead(t, p)
    /\ UNCHANGED connVars

\* write_page_tier1_first_touch looks the page up in the commit index before
\* it asks for the page lock; a commit newer than the snapshot is BusySnapshot.
CheckPage(t, p) ==
    /\ Ready(t)
    /\ lock[p] # t
    /\ index[p] <= high[t]
    /\ want' = [want EXCEPT ![t] = {p}]
    /\ UNCHANGED <<ssiVars, plan, frames, activeSeqs, stable, lift>>

\* Only then concurrent_prepare_write_page takes the lock; by now the index may
\* have moved on, which commit-time validation has to notice.
AcquirePage(t) ==
    \E p \in want[t] :
        /\ ConcurrentWritePage(t, p)
        /\ want' = [want EXCEPT ![t] = {}]
        /\ UNCHANGED <<plan, frames, activeSeqs, stable, lift>>

\* Another session holds the lock: the writer waits and checks again, or its
\* busy timeout ends the statement.
PageBusy(t) ==
    /\ \E p \in want[t] : lock[p] \notin {NoTxn, t}
    /\ want' = [want EXCEPT ![t] = {}]
    /\ UNCHANGED <<ssiVars, plan, frames, activeSeqs, stable, lift>>

\* ROLLBACK, or the end of a transaction whose statement failed.
Rollback(t) ==
    /\ Ready(t)
    /\ ConcurrentAbort(t)
    /\ UNCHANGED connVars

-----------------------------------------------------------------------------
(* COMMIT *)

\* plan_concurrent_commit, accepted: the plan is made at the sequence the clock
\* would hand out now.
PlanCommit(t) ==
    /\ Ready(t)
    /\ writes[t] # {}
    /\ ~Refuses(t, nextSeq)
    /\ phase' = [phase EXCEPT ![t] = "prepared"]
    /\ plan' = [plan EXCEPT ![t] = [in |-> PlannedIn(t, nextSeq),
                                    out |-> PlannedOut(t, nextSeq)]]
    /\ UNCHANGED <<handleVars, lock, index, historyVars, seqOf, wal, want, frames,
                   clockVars>>

\* plan_concurrent_commit, refused: the session is removed and aborted.
RefuseCommit(t) ==
    /\ Ready(t)
    /\ writes[t] # {}
    /\ RefuseWithSsi(t)
    /\ UNCHANGED connVars

\* Fault: frames are appended without a conflict check.
WalConflictFault(t) == FALSE

\* conflicting_pages_since_snapshot: a commit after t's pinned WAL prefix, its
\* own failed one included, has a frame for a page that t writes.
WalConflict(t) ==
    \E i \in (view[t] + 1) .. Len(wal) : Overlap(frames[wal[i]], writes[t])

\* t's frames go to the end of the WAL, under its append lock.
AppendFrames(t) ==
    /\ ~WalConflict(t)
    /\ wal' = Append(wal, t)
    /\ frames' = [frames EXCEPT ![t] = writes[t]]

\* Fault: the page locks go with the append, before the commit is published.
PagerCommitFault(t) ==
    /\ phase[t] = "prepared"
    /\ AppendFrames(t)
    /\ phase' = [phase EXCEPT ![t] = "durable"]
    /\ lock' = Unlock(t)
    /\ UNCHANGED <<handleVars, index, historyVars, seqOf, want, plan, clockVars>>

\* The pager commit appends t's frames and succeeds.
PagerCommit(t) ==
    /\ phase[t] = "prepared"
    /\ AppendFrames(t)
    /\ phase' = [phase EXCEPT ![t] = "durable"]
    /\ UNCHANGED <<handleVars, lock, index, historyVars, seqOf, want, plan, clockVars>>

\* The pager commit fails (WAL conflict, busy timeout, I/O error): the error is
\* returned with the plan dropped and the session still registered.
PagerFail(t) ==
    /\ phase[t] = "prepared"
    /\ phase' = [phase EXCEPT ![t] = "active"]
    /\ plan' = [plan EXCEPT ![t] = NoPlan]
    /\ UNCHANGED <<handleVars, lock, index, historyVars, seqOf, wal, want, frames,
                   clockVars>>

\* It fails when the frames are in the WAL already (the sync or the unlock after
\* the append, or the flusher's next epoch): COMMIT returns the error all the
\* same, the session stays registered, and neither clock nor index nor history
\* hears of the frames that everybody who opens from now on reads.
PagerFailLogged(t) ==
    /\ phase[t] = "prepared"
    /\ AppendFrames(t)
    /\ phase' = [phase EXCEPT ![t] = "active"]
    /\ plan' = [plan EXCEPT ![t] = NoPlan]
    /\ UNCHANGED <<handleVars, lock, index, historyVars, seqOf, want, clockVars>>

\* advance_commit_clock_without_memdb_visibility
AdvanceCommitClock(t) ==
    /\ phase[t] = "durable"
    /\ phase' = [phase EXCEPT ![t] = "sequenced"]
    /\ seqOf' = [seqOf EXCEPT ![t] = nextSeq]
    /\ activeSeqs' = activeSeqs \cup {nextSeq}
    /\ nextSeq' = nextSeq + 1
    /\ UNCHANGED <<handleVars, lock, index, historyVars, wal, want, plan, frames,
                   stable, lift>>

\* finalize_concurrent_commit: publish and leave the registry.  The edges found
\* now join the planned ones; nothing can refuse the commit any more.
FinalizeCommit(t) ==
    /\ phase[t] = "sequenced"
    /\ Publish(t, seqOf[t], plan[t].in \cup Incoming(t, seqOf[t]),
                            plan[t].out \cup Outgoing(t, seqOf[t]))
    /\ phase' = [phase EXCEPT ![t] = "published"]
    /\ plan' = [plan EXCEPT ![t] = NoPlan]
    /\ UNCHANGED <<view, high, reads, writes, seqOf, wal, want, frames, clockVars>>

\* The largest sequence below every unfinished one.
StableCandidate(active) ==
    IF active = {} THEN nextSeq - 1
    ELSE (CHOOSE s \in active : \A r \in active : s <= r) - 1

\* Fault: the finished sequence stays in the list.
UnfinishedFault(t) == activeSeqs

\* The unfinished sequences without t's.
Unfinished(t) == activeSeqs \ {seqOf[t]}

\* finish_commit_clock, then sync_filebacked_post_commit_visibility_floor with
\* the connection's own pager, whose sequence is one past its opened view.
FinishCommitClock(t) ==
    /\ phase[t] = "published"
    /\ phase' = [phase EXCEPT ![t] = "committed"]
    /\ activeSeqs' = Unfinished(t)
    /\ stable' = Larger(Larger(stable, StableCandidate(activeSeqs')), view[t] + 1)
    /\ lift' = LiftTo(t, view[t] + 1)
    /\ UNCHANGED <<handleVars, lock, index, historyVars, nextSeq, seqOf, wal, want,
                   plan, frames>>

\* COMMIT without pending writes: finalize_read_only_concurrent_commit drops
\* the session; its reads do not enter the history.
CommitReadOnly(t) ==
    /\ Ready(t)
    /\ writes[t] = {}
    /\ phase' = [phase EXCEPT ![t] = "committed"]
    /\ hasIn' = [hasIn EXCEPT ![t] = FALSE]
    /\ hasOut' = [hasOut EXCEPT ![t] = FALSE]
    /\ marked' = [marked EXCEPT ![t] = FALSE]
    /\ UNCHANGED <<view, high, reads, writes, lock, index, historyVars, seqOf,
                   wal, want, plan, frames, clockVars>>

-----------------------------------------------------------------------------

Statement(t) ==
    \/ \E p \in Pages : Read(t, p)
    \/ \E p \in Pages : CheckPage(t, p)
    \/ AcquirePage(t)
    \/ PageBusy(t)
    \/ Rollback(t)

Begin(t) ==
    \/ BindPublication(t)
    \/ OpenPager(t)
    \/ AlignToView(t)
    \/ RefreshSnapshot(t)
    \/ RegisterSession(t)
    \/ RegistryFull(t)

Commit(t) ==
    \/ PlanCommit(t)
    \/ RefuseCommit(t)
    \/ PagerCommit(t)
    \/ PagerFail(t)
    \/ PagerFailLogged(t)
    \/ AdvanceCommitClock(t)
    \/ FinalizeCommit(t)
    \/ FinishCommitClock(t)
    \/ CommitReadOnly(t)

ConnNext ==
    \E t \in Txns : Begin(t) \/ LiftClock(t) \/ Statement(t) \/ Commit(t)

ConnSpec == ConnInit /\ [][ConnNext]_vars

\* A connection's thread that has entered COMMIT, holds a checked page or is
\* between the two fetch_max runs on: it waits for no other transaction.
Fairness ==
    \A t \in Txns :
        /\ WF_vars(AcquirePage(t) \/ PageBusy(t))
        /\ WF_vars(LiftClock(t))
        /\ WF_vars(PagerCommit(t) \/ PagerFail(t) \/ PagerFailLogged(t))
        /\ WF_vars(AdvanceCommitClock(t))
        /\ WF_vars(FinalizeCommit(t))
        /\ WF_vars(FinishCommitClock(t))

FairConnSpec == ConnSpec /\ Fairness

-----------------------------------------------------------------------------
(* Properties *)

Phases == Registered \cup {"idle", "bound", "opened", "aligned", "refreshed",
                          "published", "committed", "aborted"}

\* Every variable keeps its type.  Unfinished sequences have been handed out, and
\* so has the stable one, or else some thread is between the two fetch_max of
\* align_commit_clock_floor and about to lift the clock past it.
ConnTypeOK ==
    /\ phase \in [Txns -> Phases]
    /\ lock \in [Pages -> Txns \cup {NoTxn}]
    /\ readers \subseteq Entry
    /\ writers \subseteq Entry
    /\ \A t \in Txns : /\ reads[t] \subseteq Pages
                       /\ writes[t] \subseteq Pages
                       /\ want[t] \subseteq Pages
                       /\ frames[t] \subseteq Pages
                       /\ lift[t] \in Nat
                       /\ plan[t] \in [in : SUBSET Txns, out : SUBSET Txns]
    /\ wal \in Seq(Txns)
    /\ activeSeqs \subseteq 1 .. (nextSeq - 1)
    /\ stable < nextSeq \/ \E t \in Txns : stable < lift[t]

\* Transactions whose COMMIT has gone, or will go, through: their frames are in
\* the WAL, or they had none.
Finished == {t \in Txns : phase[t] \in {"durable", "sequenced", "published",
                                        "committed"}}

Updates == {t \in Finished : writes[t] # {}}

\* What t's snapshot sequence claims to include, its page reads do include.
SnapshotSound(t) ==
    \A i \in DOMAIN wal :
        0 < seqOf[wal[i]] /\ seqOf[wal[i]] <= high[t] => i <= view[t]

\* First committer wins among all that the WAL holds, the frames of a COMMIT that
\* returned an error included: whoever appended a page had every earlier frame
\* of it in the view its page images came from (which a rollback forgets).
NoLostFrames ==
    \A i, j \in DOMAIN wal :
        /\ i < j
        /\ phase[wal[j]] # "aborted"
        /\ Overlap(frames[wal[i]], frames[wal[j]])
        => i <= view[wal[j]]

\* The MVCC layer alone keeps a planned transaction's pages fresh until it is
\* durable: with a sound snapshot, the WAL's own conflict check fires only on
\* the frames of a COMMIT that returned an error, t's own or one rolled back
\* since, of which the commit index was never told.
PlannedIsFresh ==
    \A t \in Txns :
        phase[t] = "prepared" /\ SnapshotSound(t) =>
            \A i \in (view[t] + 1) .. Len(wal) :
                Overlap(frames[wal[i]], writes[t])
                    => wal[i] = t \/ phase[wal[i]] = "aborted"

\* Two commits of a page get their commit sequences in the order in which they
\* became durable, although the sequence is drawn after the pager commit.
SeqOrderMatchesWal ==
    \A i, j \in DOMAIN wal :
        /\ i < j
        /\ 0 < seqOf[wal[i]] /\ 0 < seqOf[wal[j]]
        /\ Overlap(writes[wal[i]], writes[wal[j]])
        => seqOf[wal[i]] < seqOf[wal[j]]

\* Once a page is unlocked the commit index is not behind any transaction that
\* committed it, so a first-touch check made then cannot miss a commit.  (It does
\* miss the frames of a COMMIT that returned an error and was rolled back: the
\* WAL's own check, see NoLostFrames, is all that guards those.)
UnlockedIndexIsCurrent ==
    \A p \in Pages, u \in Txns :
        lock[p] = NoTxn /\ u \in Updates /\ p \in writes[u] =>
            index[p] >= seqOf[u] /\ seqOf[u] > 0

\* The history has every published reader and writer that t would look for.
Covered(t) ==
    \A u \in Txns :
        (phase[u] \in {"published", "committed"} /\ seqOf[u] > high[t]) =>
            /\ reads[u] # {} => \E r \in readers : r.txn = u
            /\ \E w \in writers : w.txn = u

\* A registered session that may still commit never loses history it needs,
\* whoever publishes, prunes at the bound or ends meanwhile: what can be
\* missing was already missing when it registered.
HistoryIsKept ==
    [][\A t \in Txns :
          t \in Unmarked(marked) /\ Covered(t) /\ t \in Unmarked(marked)'
              => Covered(t)']_vars

\* "BEGIN CONCURRENT provides full SERIALIZABLE isolation": no cycle among the
\* transactions that wrote something.
UpdatesSerializable == Acyclic(Updates)

\* The commit index never goes back, although batch_update overwrites.
CommitIndexMonotone ==
    [][\A p \in Pages : index'[p] >= index[p]]_vars

\* Whoever has become durable gives up its page locks.
DurableReleasesLocks ==
    \A t \in Txns :
        (phase[t] = "durable") ~> (\A p \in Pages : lock[p] # t)

\* The stable watermark reaches every commit sequence that is handed out.
StableCatchesUp ==
    \A t \in Txns : (seqOf[t] > 0) ~> (stable >= seqOf[t])

-----------------------------------------------------------------------------
(* Refinement of the abstract store *)

\* What a phase means to the store; opening the pager is what opens a
\* transaction, and the pager commit is what commits it.
StoreStatus ==
    [q \in Phases |->
        CASE q \in {"idle", "bound"} -> "idle"
          [] q \in {"opened", "aligned", "refreshed", "active", "prepared"} -> "open"
          [] q \in {"durable", "sequenced", "published", "committed"} -> "committed"
          [] q = "aborted" -> "aborted"]

ConnStore == INSTANCE SnapshotStore WITH
    MayFailLogged <- TRUE,
    status <- [t \in Txns |-> StoreStatus[phase[t]]],
    snap <- view,
    wset <- writes,
    log <- [i \in DOMAIN wal |-> frames[wal[i]]]

\* The multi-step path implements the abstract store with the pager commit as
\* its commit step: until then a page keeps its one writer, and publication,
\* which comes later and in any order, is not observable in the store.  What the
\* store allows beyond commit and abort is a commit that is logged although it
\* failed; its transaction can no longer commit.
ConnImplementsStore == ConnStore!StoreSpec

=============================================================================
