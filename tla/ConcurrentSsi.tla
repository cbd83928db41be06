--------------------------- MODULE ConcurrentSsi ---------------------------
(***************************************************************************)
(* The page-level MVCC core of fsqlite-mvcc: the registry of BEGIN         *)
(* CONCURRENT sessions, the in-process page lock table, the commit index   *)
(* used for first-committer-wins (FCW), and the serializable-snapshot      *)
(* validation (SSI) with its committed-conflict history.                   *)
(*                                                                         *)
(* The specification Spec drives the registry through the library's own    *)
(* one-call API: begin_concurrent, record_read, concurrent_write_page,     *)
(* concurrent_commit_with_ssi and concurrent_abort, each under the         *)
(* registry mutex and so one atomic step.  ConnectionCommit extends this   *)
(* module with the multi-step path that a SQL connection really takes.     *)
(*                                                                         *)
(* A page of the model is a witness key: keys are compared by overlap only.*)
(***************************************************************************)
EXTENDS Integers, Sequences, FiniteSets

CONSTANTS
    Txns,                   \* transactions, one session each
    Pages,                  \* page numbers that may be read and written
    NoTxn,                  \* the free value of a page lock
    MaxConcurrentWriters,   \* soft limit on registered sessions
    MaxHistoryEntries       \* bound on the committed-conflict history

ASSUME NoTxnAssumption == NoTxn \notin Txns
ASSUME TxnsAssumption == IsFiniteSet(Txns)
ASSUME LimitsAssumption == /\ MaxConcurrentWriters \in Nat
                           /\ MaxHistoryEntries \in Nat

VARIABLES
    phase,      \* where each transaction is in its life
    view,       \* how many commits of the log its page reads observe
    high,       \* Snapshot::high, the commit sequence its validation uses
    reads,      \* read set (pages with a read witness)
    writes,     \* pages whose write conflicts are tracked, all page-locked
    hasIn,      \* handle.has_in_rw
    hasOut,     \* handle.has_out_rw
    marked,     \* handle.marked_for_abort
    lock,       \* InProcessPageLockTable: page -> holder
    index,      \* CommitIndex: page -> latest commit sequence, 0 if none
    readers,    \* registry.committed_readers
    writers,    \* registry.committed_writers
    pushes,     \* finalized commits so far; orders the two histories
    nextSeq,    \* next commit sequence to hand out
    seqOf,      \* commit sequence given to a transaction, 0 if none
    wal         \* the writing transactions in the order they became durable

handleVars == <<view, high, reads, writes, hasIn, hasOut, marked>>
historyVars == <<readers, writers, pushes>>
ssiVars == <<phase, handleVars, lock, index, historyVars, nextSeq, seqOf, wal>>

-----------------------------------------------------------------------------
(* Sessions *)

\* The phases in which a session's handle is in the registry.  The library
\* specification only uses "active"; the others are the steps of a commit.
Registered == {"active", "prepared", "durable", "sequenced"}

Sessions == {t \in Txns : phase[t] \in Registered}

\* A session that may still commit keeps committed history alive.
Unmarked(mk) == {t \in Sessions : ~mk[t]}

\* An entry of committed_readers or committed_writers.  Its keys and begin_seq
\* are reads[txn], writes[txn] and high[txn], which no longer change.
Entry == [txn : Txns, seq : Nat, rw : BOOLEAN, ord : Nat]

Init ==
    /\ phase = [t \in Txns |-> "idle"]
    /\ view = [t \in Txns |-> 0]
    /\ high = [t \in Txns |-> 0]
    /\ reads = [t \in Txns |-> {}]
    /\ writes = [t \in Txns |-> {}]
    /\ hasIn = [t \in Txns |-> FALSE]
    /\ hasOut = [t \in Txns |-> FALSE]
    /\ marked = [t \in Txns |-> FALSE]
    /\ lock = [p \in Pages |-> NoTxn]
    /\ index = [p \in Pages |-> 0]
    /\ readers = {}
    /\ writers = {}
    /\ pushes = 0
    /\ nextSeq = 1
    /\ seqOf = [t \in Txns |-> 0]
    /\ wal = << >>

-----------------------------------------------------------------------------
(* Conflict discovery *)

Overlap(a, b) == a \cap b # {}

\* Committed readers that overlap t's life and t's writes.
CommittedReaderEdges(t, end) ==
    {r \in readers : /\ r.txn # t
                     /\ high[t] < r.seq
                     /\ high[r.txn] < end
                     /\ Overlap(reads[r.txn], writes[t])}

\* Committed writers that committed after t's snapshot and overlap its reads.
CommittedWriterEdges(t) ==
    {w \in writers : /\ w.txn # t
                     /\ high[t] < w.seq
                     /\ Overlap(writes[w.txn], reads[t])}

\* Sources of rw-antidependencies into t, were t to commit at `end`.
Incoming(t, end) ==
    {u \in Sessions \ {t} : high[u] < end /\ Overlap(reads[u], writes[t])}
        \cup {r.txn : r \in CommittedReaderEdges(t, end)}

\* Targets of rw-antidependencies out of t, were t to commit at `end`.
Outgoing(t, end) ==
    {u \in Sessions \ {t} : high[u] < end /\ Overlap(writes[u], reads[t])}
        \cup {w.txn : w \in CommittedWriterEdges(t)}

\* Fault: neighbours that have committed are not asked for their flags.
DangerousFault(t, end) == Incoming(t, end) # {} /\ Outgoing(t, end) # {}

\* t is a pivot, or its commit would complete one around a committed neighbour.
Dangerous(t, end) ==
    \/ Incoming(t, end) # {} /\ Outgoing(t, end) # {}
    \/ \E r \in CommittedReaderEdges(t, end) : r.rw
    \/ \E w \in CommittedWriterEdges(t) : w.rw

\* Fault: no first-committer-wins validation.
BaseDriftFault(t) == FALSE

\* validate_first_committer_wins: some written page has a newer commit.
BaseDrift(t) == \E p \in writes[t] : index[p] > high[t]

\* The entry pushed last, the one Vec::last returns, is not newer than b.
LastNotAfter(hist, b) ==
    \A e \in hist : (\A f \in hist : f.ord <= e.ord) => e.seq <= b

\* Nothing else is registered and the history's last entries precede t.
Uncontended(t) ==
    /\ Sessions = {t}
    /\ LastNotAfter(readers, high[t])
    /\ LastNotAfter(writers, high[t])

\* prepare_concurrent_commit_with_ssi refuses t at planning frontier `end`.
Refuses(t, end) ==
    \/ BaseDrift(t)
    \/ marked[t]
    \/ ~Uncontended(t) /\ Dangerous(t, end)

\* The edges the plan carries; the uncontended fast path looks for none.
PlannedIn(t, end) == IF Uncontended(t) THEN {} ELSE Incoming(t, end)
PlannedOut(t, end) == IF Uncontended(t) THEN {} ELSE Outgoing(t, end)

-----------------------------------------------------------------------------
(* Committed-conflict history *)

\* Fault: off by one at the oldest snapshot.
RetainedFault(hist, live) ==
    {e \in hist : \E u \in live : high[u] + 1 < e.seq}

\* Entries newer than the oldest snapshot among `live`; none if it is empty.
Retained(hist, live) == {e \in hist : \E u \in live : high[u] < e.seq}

RetainedSize(R, W, live) ==
    Cardinality(Retained(R, live)) + Cardinality(Retained(W, live))

\* The sets of sessions the size bound may mark: oldest snapshots first, and
\* no more of them than it takes to get the history down to the bound.
Doomable(R, W, live) ==
    {D \in SUBSET live :
        /\ \A d \in D, u \in live \ D : high[d] <= high[u]
        /\ RetainedSize(R, W, live \ D) <= MaxHistoryEntries
        /\ \/ D = {}
           \/ \E d \in D :
                 /\ \A c \in D : high[c] <= high[d]
                 /\ RetainedSize(R, W, live \ (D \ {d})) > MaxHistoryEntries}

-----------------------------------------------------------------------------
(* Publication of a prepared commit *)

HasInAfter(t, out, u) == hasIn[u] \/ (u \in out /\ u \in Sessions)
HasOutAfter(t, in, u) == hasOut[u] \/ (u \in in /\ u \in Sessions)

\* Sessions the T3 rule makes pivots when t commits with these edges.
Pivots(t, in, out) ==
    {u \in (Sessions \ {t}) \cap (in \cup out) :
        HasInAfter(t, out, u) /\ HasOutAfter(t, in, u)}

NewReader(t, seq, in) ==
    IF reads[t] = {} THEN {}
    ELSE {[txn |-> t, seq |-> seq, rw |-> in # {}, ord |-> pushes + 1]}

NewWriter(t, seq, out) ==
    IF writes[t] = {} THEN {}
    ELSE {[txn |-> t, seq |-> seq, rw |-> out # {}, ord |-> pushes + 1]}

\* Fault: the index keeps the first commit of a page.
PublishIndexFault(t, seq) ==
    [p \in Pages |-> IF p \in writes[t] /\ index[p] = 0 THEN seq ELSE index[p]]

\* CommitIndex::batch_update stores the sequence over whatever was there.
PublishIndex(t, seq) ==
    [p \in Pages |-> IF p \in writes[t] THEN seq ELSE index[p]]

\* Fault: a session that is alone in the registry keeps its locks.
UnlockFault(t) ==
    [p \in Pages |-> IF lock[p] = t /\ Sessions # {t} THEN NoTxn ELSE lock[p]]

\* release_set over the held pages; releasing checks the holder.
Unlock(t) == [p \in Pages |-> IF lock[p] = t THEN NoTxn ELSE lock[p]]

\* finalize_prepared_concurrent_commit_with_ssi followed by the removal of the
\* handle: T3 propagation (which the adaptive controller may decline to turn
\* into marks: `doom`), commit index, lock release, history, pruning.
Publish(t, seq, in, out) ==
    \E doom \in BOOLEAN :
      LET mk == [u \in Txns |-> marked[u] \/ (doom /\ u \in Pivots(t, in, out))]
          live == Unmarked(mk) \ {t}
          R == readers \cup NewReader(t, seq, in)
          W == writers \cup NewWriter(t, seq, out)
      IN  \E D \in Doomable(R, W, live) :
            /\ hasIn' = [u \in Txns |-> u # t /\ HasInAfter(t, out, u)]
            /\ hasOut' = [u \in Txns |-> u # t /\ HasOutAfter(t, in, u)]
            /\ marked' = [u \in Txns |-> u # t /\ (mk[u] \/ u \in D)]
            /\ index' = PublishIndex(t, seq)
            /\ lock' = Unlock(t)
            /\ readers' = Retained(R, live \ D)
            /\ writers' = Retained(W, live \ D)
            /\ pushes' = pushes + 1

\* concurrent_abort and the removal and recycling of the handle.  A transaction
\* that leaves no trace in the history has its sets forgotten.
Discard(t) ==
    /\ phase' = [phase EXCEPT ![t] = "aborted"]
    /\ view' = [view EXCEPT ![t] = 0]
    /\ high' = [high EXCEPT ![t] = 0]
    /\ reads' = [reads EXCEPT ![t] = {}]
    /\ writes' = [writes EXCEPT ![t] = {}]
    /\ hasIn' = [hasIn EXCEPT ![t] = FALSE]
    /\ hasOut' = [hasOut EXCEPT ![t] = FALSE]
    /\ marked' = [marked EXCEPT ![t] = FALSE]
    /\ lock' = Unlock(t)
    /\ UNCHANGED <<index, historyVars, nextSeq, seqOf, wal>>

-----------------------------------------------------------------------------
(* The library API *)

\* Fault: one sequence too old, below zero for the first snapshot.
SnapshotHighFault == nextSeq - 2

\* The last sequence handed out; in this specification it is finalized.
SnapshotHigh == nextSeq - 1

\* begin_concurrent with the snapshot of everything finalized so far.
BeginConcurrent(t) ==
    /\ phase[t] = "idle"
    /\ Cardinality(Sessions) < MaxConcurrentWriters
    /\ phase' = [phase EXCEPT ![t] = "active"]
    /\ view' = [view EXCEPT ![t] = Len(wal)]
    /\ high' = [high EXCEPT ![t] = SnapshotHigh]
    /\ UNCHANGED <<reads, writes, hasIn, hasOut, marked, lock, index,
                   historyVars, nextSeq, seqOf, wal>>

\* record_read
RecordRead(t, p) ==
    /\ phase[t] = "active"
    /\ reads' = [reads EXCEPT ![t] = @ \cup {p}]
    /\ UNCHANGED <<phase, view, high, writes, hasIn, hasOut, marked, lock,
                   index, historyVars, nextSeq, seqOf, wal>>

\* Fault: a held lock does not keep others out.
LockableFault(t, p) == TRUE

\* InProcessPageLockTable::try_acquire: free, or already this session's.
Lockable(t, p) == lock[p] \in {NoTxn, t}

\* concurrent_write_page: takes the page lock on first touch; MvccError::Busy,
\* which changes nothing, when another session holds it.
ConcurrentWritePage(t, p) ==
    /\ phase[t] = "active"
    /\ Lockable(t, p)
    /\ lock' = [lock EXCEPT ![p] = t]
    /\ writes' = [writes EXCEPT ![t] = @ \cup {p}]
    /\ UNCHANGED <<phase, view, high, reads, hasIn, hasOut, marked, index,
                   historyVars, nextSeq, seqOf, wal>>

\* concurrent_commit_with_ssi, accepted: prepare and finalize in one call.
CommitWithSsi(t) ==
    /\ phase[t] = "active"
    /\ ~Refuses(t, nextSeq)
    /\ Publish(t, nextSeq, PlannedIn(t, nextSeq) \cup Incoming(t, nextSeq),
                           PlannedOut(t, nextSeq) \cup Outgoing(t, nextSeq))
    /\ phase' = [phase EXCEPT ![t] = "committed"]
    /\ seqOf' = [seqOf EXCEPT ![t] = nextSeq]
    /\ nextSeq' = nextSeq + 1
    /\ wal' = IF writes[t] = {} THEN wal ELSE Append(wal, t)
    /\ UNCHANGED <<view, high, reads, writes>>

\* concurrent_commit_with_ssi, refused: the error path removes and aborts.
RefuseWithSsi(t) ==
    /\ phase[t] = "active"
    /\ Refuses(t, nextSeq)
    /\ Discard(t)

\* ROLLBACK
ConcurrentAbort(t) ==
    /\ phase[t] = "active"
    /\ Discard(t)

Next ==
    \E t \in Txns :
        \/ BeginConcurrent(t)
        \/ \E p \in Pages : RecordRead(t, p)
        \/ \E p \in Pages : ConcurrentWritePage(t, p)
        \/ CommitWithSsi(t)
        \/ RefuseWithSsi(t)
        \/ ConcurrentAbort(t)

Spec == Init /\ [][Next]_ssiVars

-----------------------------------------------------------------------------
(* Properties *)

\* Every variable keeps its type.
TypeOK ==
    /\ phase \in [Txns -> {"idle", "active", "committed", "aborted"}]
    /\ view \in [Txns -> Nat]
    /\ high \in [Txns -> Nat]
    /\ reads \in [Txns -> SUBSET Pages]
    /\ writes \in [Txns -> SUBSET Pages]
    /\ hasIn \in [Txns -> BOOLEAN]
    /\ hasOut \in [Txns -> BOOLEAN]
    /\ marked \in [Txns -> BOOLEAN]
    /\ lock \in [Pages -> Txns \cup {NoTxn}]
    /\ index \in [Pages -> Nat]
    /\ readers \subseteq Entry
    /\ writers \subseteq Entry
    /\ pushes \in Nat
    /\ nextSeq \in Nat \ {0}
    /\ seqOf \in [Txns -> Nat]
    /\ wal \in Seq(Txns)

\* A page lock is held exactly for the pages a registered session has written:
\* no lock survives its session (release_set on every way out) and no tracked
\* write is without one.
LocksMatchSessions ==
    \A p \in Pages, t \in Txns :
        lock[p] = t <=> (phase[t] \in Registered /\ p \in writes[t])

\* First committer wins: of two durable transactions that wrote one page, the
\* later one had the earlier one in the view its page images came from.
NoLostUpdate ==
    \A i, j \in DOMAIN wal :
        i < j /\ Overlap(writes[wal[i]], writes[wal[j]]) => i <= view[wal[j]]

\* The committed-conflict history has every reader and every writer that the
\* validation of a session which may still commit would look for, after any
\* number of prunings ("cannot overlap any active transaction").
HistoryCoversActive ==
    \A u \in Txns, t \in Unmarked(marked) :
        (phase[u] = "committed" /\ seqOf[u] > high[t]) =>
            /\ reads[u] # {} => \E r \in readers : r.txn = u
            /\ writes[u] # {} => \E w \in writers : w.txn = u

\* Position of a writing transaction in the durable order, 0 if it has none.
Position(t) ==
    IF \E i \in DOMAIN wal : wal[i] = t
    THEN CHOOSE i \in DOMAIN wal : wal[i] = t
    ELSE 0

\* b must come after a in every equivalent serial order: b overwrote or read
\* what a wrote, or overwrote what a read.
DependsOn(a, b) ==
    \/ /\ 0 < Position(a) /\ Position(a) < Position(b)
       /\ Overlap(writes[a], writes[b])
    \/ /\ 0 < Position(a) /\ Position(a) <= view[b]
       /\ Overlap(writes[a], reads[b])
    \/ /\ Position(b) > view[a]
       /\ Overlap(reads[a], writes[b])

\* The dependencies among the transactions of C contain no cycle.
Acyclic(C) ==
    \A S \in SUBSET C :
        S # {} => \E a \in S : \A b \in S \ {a} : ~DependsOn(a, b)

Committed == {t \in Txns : phase[t] = "committed"}

\* The committed transactions, read-only ones included, are serializable:
\* SSI leaves no cycle of dependencies.
Serializable == Acyclic(Committed)

-----------------------------------------------------------------------------
(* Refinement of the abstract store *)

Store == INSTANCE SnapshotStore WITH
    status <- [t \in Txns |-> IF phase[t] = "active" THEN "open" ELSE phase[t]],
    MayFailLogged <- FALSE,
    snap <- view,
    wset <- writes,
    log <- [i \in DOMAIN wal |-> writes[wal[i]]]

\* Sequence numbers, the commit index and SSI implement the abstract store:
\* validation against the index refuses every commit that the log forbids.
ImplementsStore == Store!StoreSpec

=============================================================================
