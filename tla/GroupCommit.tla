----------------------------- MODULE GroupCommit -----------------------------
(***************************************************************************)
(* The WAL group-commit queue of a database file: the consolidator's       *)
(* FILLING / FLUSHING / COMPLETE phases with its pipelined next epoch, the  *)
(* flusher loop of commit_wal_group_commit_with_snapshot and the waiters    *)
(* that park until their epoch has an outcome.                             *)
(*                                                                         *)
(* Every step that holds the consolidator mutex is one action.  The mutex  *)
(* is released between complete_flush and publish_completed_epoch, and     *)
(* between abort_flush and publish_failed_epoch: those are separate steps. *)
(* A transaction commits once, on a thread of its own; a retry is another  *)
(* transaction.  A batch is the set of pages of its transaction, page 1    *)
(* (the header page that disjoint batches may share) left out.             *)
(***************************************************************************)
EXTENDS Naturals, Sequences, FiniteSets

CONSTANTS
    Txns,       \* committing transactions
    Pages,      \* pages other than page 1
    Retention,  \* RETENTION of prune_stale_epoch_metadata
    IoFaults    \* which of {"append", "sync"} may fail

ASSUME RetentionAssumption == Retention \in Nat
ASSUME IoFaultsAssumption == IoFaults \subseteq {"append", "sync"}

VARIABLES
    phase,      \* GroupCommitConsolidator.phase
    pending,    \* .pending_batches
    pipelined,  \* .next_epoch_batches
    epoch,      \* .epoch
    vacant,     \* .promoted_epoch_flusher_vacant
    completed,  \* GroupCommitQueue.completed_epoch
    failed,     \* the keys of GroupCommitQueue.failed_epochs
    pc,         \* where a transaction's commit is
    pages,      \* its batch
    snap,       \* the WAL length its snapshot was pinned at
    target,     \* target_epoch
    job,        \* the flush it runs: epoch, batches, whether another follows
    parked,     \* waiters asleep on the slot of their epoch
    wal         \* the WAL: one entry per flushed group

queue == <<phase, pending, pipelined, epoch, vacant>>
vars == <<phase, pending, pipelined, epoch, vacant, completed, failed,
          pc, pages, snap, target, job, parked, wal>>

NoJob == [epoch |-> 0, group |-> {}, more |-> FALSE]

Init ==
    /\ phase = "Filling"
    /\ pending = {}
    /\ pipelined = {}
    /\ epoch = 0
    /\ vacant = FALSE
    /\ completed = 0
    /\ failed = {}
    /\ pc = [t \in Txns |-> "idle"]
    /\ pages = [t \in Txns |-> {}]
    /\ snap = [t \in Txns |-> 0]
    /\ target = [t \in Txns |-> 0]
    /\ job = [t \in Txns |-> NoJob]
    /\ parked = {}
    /\ wal = <<>>

-----------------------------------------------------------------------------
(* Submission *)

\* Fault: the snapshot is the index of the last entry, not the length.
BeginFault(t, ps) ==
    /\ pc[t] = "idle"
    /\ pc' = [pc EXCEPT ![t] = "ready"]
    /\ pages' = [pages EXCEPT ![t] = ps]
    /\ snap' = [snap EXCEPT ![t] = Len(wal) - 1]
    /\ UNCHANGED <<queue, completed, failed, target, job, parked, wal>>

\* A writer pins its WAL snapshot and builds its batch: pinned_read_snapshot,
\* build_group_commit_batch, attach_group_commit_conflict_metadata.
Begin(t, ps) ==
    /\ pc[t] = "idle"
    /\ pc' = [pc EXCEPT ![t] = "ready"]
    /\ pages' = [pages EXCEPT ![t] = ps]
    /\ snap' = [snap EXCEPT ![t] = Len(wal)]
    /\ UNCHANGED <<queue, completed, failed, target, job, parked, wal>>

\* Fault: a batch pipelined behind a flush waits for the epoch in flight.
SubmitFault(t) ==
    /\ pc[t] = "ready"
    /\ target' = [target EXCEPT ![t] = IF phase = "Flushing" THEN epoch ELSE epoch + 1]
    /\ IF phase = "Flushing"
       THEN /\ pipelined' = pipelined \cup {t}
            /\ pc' = [pc EXCEPT ![t] = "waiting"]
            /\ UNCHANGED <<phase, pending, vacant>>
       ELSE /\ phase' = "Filling"
            /\ pending' = pending \cup {t}
            /\ vacant' = (vacant /\ phase = "Filling" /\ pending # {})
            /\ pc' = [pc EXCEPT ![t] = IF pending = {} THEN "flusher" ELSE "waiting"]
            /\ UNCHANGED pipelined
    /\ UNCHANGED <<epoch, completed, failed, pages, snap, job, parked, wal>>

\* submit_batch with the target epoch the caller derives from the epoch it
\* read under the same lock: during FLUSHING the batch is pipelined,
\* otherwise the first batch of the epoch makes its submitter the flusher.
Submit(t) ==
    /\ pc[t] = "ready"
    /\ target' = [target EXCEPT ![t] = epoch + 1]
    /\ IF phase = "Flushing"
       THEN /\ pipelined' = pipelined \cup {t}
            /\ pc' = [pc EXCEPT ![t] = "waiting"]
            /\ UNCHANGED <<phase, pending, vacant>>
       ELSE /\ phase' = "Filling"
            /\ pending' = pending \cup {t}
            /\ vacant' = (vacant /\ phase = "Filling" /\ pending # {})
            /\ pc' = [pc EXCEPT ![t] = IF pending = {} THEN "flusher" ELSE "waiting"]
            /\ UNCHANGED pipelined
    /\ UNCHANGED <<epoch, completed, failed, pages, snap, job, parked, wal>>

-----------------------------------------------------------------------------
(* The flusher *)

\* GroupCommitConsolidator::begin_flush by t.
TakeBatches(t) ==
    /\ phase' = "Flushing"
    /\ vacant' = FALSE
    /\ epoch' = epoch + 1
    /\ pending' = {}
    /\ job' = [job EXCEPT ![t] = [epoch |-> epoch + 1, group |-> pending, more |-> FALSE]]
    /\ pc' = [pc EXCEPT ![t] = "flushing"]
    /\ UNCHANGED pipelined

\* The flusher ends its arrival wait.  Outside FILLING begin_flush is refused:
\* the commit returns the error, or Ok when its own epoch is already done.
BeginFlush(t) ==
    /\ pc[t] = "flusher"
    /\ IF phase = "Filling"
       THEN TakeBatches(t)
       ELSE /\ pc' = [pc EXCEPT ![t] = IF job[t].more THEN "ok" ELSE "err"]
            /\ UNCHANGED <<queue, job>>
    /\ UNCHANGED <<completed, failed, pages, snap, target, parked, wal>>

\* conflicting_pages_across_group_commit_batches: two batches share a page.
Overlap(g) == \E t, u \in g : t # u /\ pages[t] \cap pages[u] # {}

\* The pages committed to the WAL after the first n entries.
WrittenAfter(n) == UNION {pages[u] : u \in UNION {wal[i] : i \in n + 1 .. Len(wal)}}

\* Fault: only the flusher's own batch is checked against the WAL.
StaleFault(g) ==
    \E t \in g : pc[t] = "flushing" /\ pages[t] \cap WrittenAfter(snap[t]) # {}

\* conflicting_pages_since_batch_snapshots: some batch's snapshot is stale.
Stale(g) == \E t \in g : pages[t] \cap WrittenAfter(snap[t]) # {}

\* The flush itself: the overlap check, then under the RESERVED lock the
\* conflict check, the append of the whole group and the sync of the commit
\* policy.  A failed sync leaves the frames in the WAL.  The busy retries do
\* not change the queue: their last attempt is this step.
Flush(t) ==
    LET g == job[t].group
        refused == Overlap(g) \/ Stale(g)
    IN
    /\ pc[t] = "flushing"
    /\ \/ /\ ~refused
          /\ wal' = Append(wal, g)
          /\ pc' = [pc EXCEPT ![t] = "flushed"]
       \/ /\ refused \/ "append" \in IoFaults
          /\ pc' = [pc EXCEPT ![t] = "broken"]
          /\ UNCHANGED wal
       \/ /\ ~refused /\ "sync" \in IoFaults
          /\ wal' = Append(wal, g)
          /\ pc' = [pc EXCEPT ![t] = "broken"]
    /\ UNCHANGED <<queue, completed, failed, pages, snap, target, job, parked>>

\* The phase in which complete_flush and abort_flush leave the consolidator:
\* pipelined batches become the pending ones of a promoted epoch.
Promote ==
    /\ phase' = IF pipelined = {} THEN "Complete" ELSE "Filling"
    /\ pending' = pipelined
    /\ pipelined' = {}
    /\ UNCHANGED epoch

\* complete_flush, and claim_flusher_vacancy for the promoted epoch under the
\* same lock.
Complete(t) ==
    /\ pc[t] = "flushed"
    /\ phase = "Flushing"
    /\ Promote
    /\ vacant' = FALSE
    /\ job' = [job EXCEPT ![t].more = (pipelined # {})]
    /\ pc' = [pc EXCEPT ![t] = "completed"]
    /\ UNCHANGED <<completed, failed, pages, snap, target, parked, wal>>

\* The waiters parked on the slots that a publication signals.
Signalled(e, next) == {w \in parked : target[w] = e \/ (next /\ target[w] = e + 1)}

\* publish_completed_epoch and prune_stale_epoch_metadata; then the flusher
\* goes on to the promoted epoch or returns.
PublishCompleted(t) ==
    LET e == job[t].epoch IN
    /\ pc[t] = "completed"
    /\ completed' = e
    /\ failed' = {f \in failed : e <= Retention \/ f > e - Retention}
    /\ parked' = parked \ Signalled(e, FALSE)
    /\ pc' = [pc EXCEPT ![t] = IF job[t].more THEN "flusher" ELSE "ok"]
    /\ UNCHANGED <<queue, pages, snap, target, job, wal>>

\* Fault: the batches pipelined behind an aborted flush are dropped with it.
AbortFault(t) ==
    /\ pc[t] = "broken"
    /\ phase = "Flushing"
    /\ phase' = "Complete"
    /\ pending' = {}
    /\ pipelined' = {}
    /\ vacant' = FALSE
    /\ job' = [job EXCEPT ![t].more = FALSE]
    /\ pc' = [pc EXCEPT ![t] = "aborted"]
    /\ UNCHANGED <<epoch, completed, failed, pages, snap, target, parked, wal>>

\* abort_flush: the promoted epoch is left vacant for a waiter to claim.
Abort(t) ==
    /\ pc[t] = "broken"
    /\ phase = "Flushing"
    /\ Promote
    /\ vacant' = (pipelined # {})
    /\ job' = [job EXCEPT ![t].more = (pipelined # {})]
    /\ pc' = [pc EXCEPT ![t] = "aborted"]
    /\ UNCHANGED <<completed, failed, pages, snap, target, parked, wal>>

\* Fault: the waiters of the promoted epoch are not woken.
PublishFailedFault(t) ==
    LET e == job[t].epoch IN
    /\ pc[t] = "aborted"
    /\ failed' = failed \cup {e}
    /\ parked' = parked \ Signalled(e, FALSE)
    /\ pc' = [pc EXCEPT ![t] = "err"]
    /\ UNCHANGED <<queue, completed, pages, snap, target, job, wal>>

\* publish_failed_epoch, and the flusher returns the error.
PublishFailed(t) ==
    LET e == job[t].epoch IN
    /\ pc[t] = "aborted"
    /\ failed' = failed \cup {e}
    /\ parked' = parked \ Signalled(e, job[t].more)
    /\ pc' = [pc EXCEPT ![t] = "err"]
    /\ UNCHANGED <<queue, completed, pages, snap, target, job, wal>>

-----------------------------------------------------------------------------
(* The waiters *)

\* Fault: a waiter claims an epoch that has its flusher.
CanClaimFault(w) ==
    /\ phase = "Filling"
    /\ pending # {}
    /\ epoch + 1 = target[w]

\* Whether the promoted epoch is w's and has no flusher: the condition under
\* which claim_flusher_vacancy succeeds for it.
CanClaim(w) ==
    /\ vacant
    /\ epoch + 1 = target[w]
    /\ phase = "Filling"
    /\ pending # {}

\* observe_epoch_outcome under the consolidator lock: the failure of the
\* epoch, its completion, a vacancy to take over, or parking on the slot
\* whose generation was read under that lock.
Observe(w) ==
    LET told == CASE target[w] \in failed -> "err"
                  [] target[w] \notin failed /\ completed >= target[w] -> "ok"
                  [] OTHER -> "none"
    IN
    /\ pc[w] = "waiting"
    /\ w \notin parked
    /\ IF told # "none"
       THEN /\ pc' = [pc EXCEPT ![w] = told]
            /\ UNCHANGED <<queue, job, parked>>
       ELSE IF CanClaim(w)
       THEN /\ TakeBatches(w)
            /\ UNCHANGED parked
       ELSE /\ parked' = parked \cup {w}
            /\ UNCHANGED <<queue, job, pc>>
    /\ UNCHANGED <<completed, failed, pages, snap, target, wal>>

\* GROUP_COMMIT_WAIT_TIMEOUT_FALLBACK: a parked waiter looks again.
Timeout(w) ==
    /\ w \in parked
    /\ parked' = parked \ {w}
    /\ UNCHANGED <<queue, completed, failed, pc, pages, snap, target, job, wal>>

-----------------------------------------------------------------------------

Step(t) ==
    \/ Submit(t)
    \/ BeginFlush(t)
    \/ Flush(t)
    \/ Complete(t)
    \/ PublishCompleted(t)
    \/ Abort(t)
    \/ PublishFailed(t)
    \/ Observe(t)

Next ==
    \E t \in Txns :
        \/ \E ps \in (SUBSET Pages) \ {{}} : Begin(t, ps)
        \/ Step(t)
        \/ Timeout(t)

Spec == Init /\ [][Next]_vars

\* Every thread that can run does.  Nothing is asked of the timeouts: the
\* wake-ups must do without them.
FairSpec == Spec /\ \A t \in Txns : WF_vars(Step(t))

-----------------------------------------------------------------------------
(* Properties *)

InFlush == {"flushing", "flushed", "broken"}

\* Every variable keeps its type.
TypeOK ==
    /\ phase \in {"Filling", "Flushing", "Complete"}
    /\ pending \subseteq Txns
    /\ pipelined \subseteq Txns
    /\ epoch \in Nat
    /\ vacant \in BOOLEAN
    /\ completed \in Nat
    /\ failed \subseteq Nat
    /\ pc \in [Txns -> {"idle", "ready", "flusher", "completed", "aborted",
                        "waiting", "ok", "err"} \cup InFlush]
    /\ pages \in [Txns -> SUBSET Pages]
    /\ snap \in [Txns -> Nat]
    /\ target \in [Txns -> Nat]
    /\ job \in [Txns -> [epoch : Nat, group : SUBSET Txns, more : BOOLEAN]]
    /\ parked \subseteq Txns
    /\ wal \in Seq(SUBSET Txns)

\* t has been chosen to flush the epoch that is filling.
Designated(t) == pc[t] = "flusher" \/ (pc[t] = "completed" /\ job[t].more)

\* An epoch never has two flushers, and the FLUSHING phase belongs to the
\* thread that is between begin_flush and complete_flush or abort_flush: the
\* errors those calls return in a wrong phase cannot occur.
OneFlusher ==
    /\ Cardinality({t \in Txns : pc[t] \in InFlush}) = (IF phase = "Flushing" THEN 1 ELSE 0)
    /\ Cardinality({t \in Txns : Designated(t)}) <= 1
    /\ \A t \in Txns : Designated(t) => phase = "Filling" /\ pending # {} /\ ~vacant

\* A batch is flushed in the epoch its waiter waits for, also when it was
\* pipelined behind another flush, promoted after an abort, or taken over;
\* and no batch reaches the WAL twice.
FlushedInTargetEpoch ==
    /\ \A t \in Txns : pc[t] \in InFlush => \A u \in job[t].group : target[u] = job[t].epoch
    /\ \A i, j \in 1 .. Len(wal) : i # j => wal[i] \cap wal[j] = {}

\* First committer wins across groups and inside one: of two batches in the
\* WAL that share a page, the later one's snapshot contains the earlier.
FirstCommitterWins ==
    \A i, j \in 1 .. Len(wal) : \A t \in wal[i], u \in wal[j] :
        i <= j /\ t # u /\ pages[t] \cap pages[u] # {} => snap[u] >= i

\* A filling epoch with batches in it always has somebody who will flush it
\* without a timeout: the designated flusher, a waiter of it that is awake,
\* or an aborting flusher that is about to wake them.
VacancyWillBeTaken ==
    phase = "Filling" /\ pending # {} =>
        \/ \E t \in Txns : Designated(t)
        \/ /\ vacant
           /\ \/ \E w \in Txns \ parked : pc[w] = "waiting" /\ target[w] = epoch + 1
              \/ \E t \in Txns : pc[t] = "aborted" /\ job[t].more /\ job[t].epoch = epoch

\* The commit of t has an outcome on record, whether or not t has seen it.
Settled(t) ==
    \/ pc[t] \in {"ok", "err"}
    \/ \E i \in 1 .. Len(wal) : t \in wal[i]
    \/ target[t] \in failed

\* Every submitted batch is flushed or its epoch fails, with no help from the
\* timeouts.
BatchesSettle == \A t \in Txns : (pc[t] \in {"waiting", "flusher"}) ~> Settled(t)

\* The assertion of the waiter path: a commit that returns Ok has its frames
\* in a flushed epoch.
AcknowledgedIsInWal ==
    \A t \in Txns : pc[t] = "ok" => \E i \in 1 .. Len(wal) : t \in wal[i]
=============================================================================
