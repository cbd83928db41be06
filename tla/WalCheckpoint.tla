---------------------------- MODULE WalCheckpoint ----------------------------
(***************************************************************************)
(* A database file and its WAL under power loss: commits append to the WAL *)
(* and sync it as the commit policy says, checkpoints copy WAL pages into  *)
(* the database file and may then reset the WAL, and after a crash the     *)
(* next open recovers what the disk kept.                                  *)
(*                                                                         *)
(* Each connection has its own pager and WAL handle on the shared files.   *)
(* The frames of one commit are one WAL entry: recovery and refresh keep   *)
(* frames up to the last valid commit frame, and the cumulative checksum   *)
(* lets only a prefix of the file survive.  A page's content is the number *)
(* of the commit that wrote it.  Transactions are those that a checkpoint  *)
(* of the connection level does not wait for (not BEGIN CONCURRENT).       *)
(***************************************************************************)
EXTENDS Naturals, Sequences, FiniteSets, FiniteSetsExt

CONSTANTS
    Conns,       \* connections
    Pages,       \* page numbers, a set of numbers
    Modes,       \* the checkpoint modes in use
    SyncPolicy,  \* "PerCommit" or "Deferred" (WalCommitSyncPolicy)
    MaxCommits,  \* bound on the commits of a run
    MaxFaults    \* bound on the power losses and I/O errors of a run

ASSUME PagesAssumption == Pages \subseteq Nat /\ IsFiniteSet(Pages)
ASSUME ModesAssumption == Modes \subseteq {"passive", "full", "restart", "truncate"}
ASSUME PolicyAssumption == SyncPolicy \in {"PerCommit", "Deferred"}
ASSUME BoundsAssumption == MaxCommits \in Nat /\ MaxFaults \in Nat

VARIABLES
    open,     \* connections that have the database open
    wal,      \* the WAL's current generation, as the file system shows it
    gen,      \* its generation: salts and checkpoint_seq of the header
    synced,   \* how many of its entries are on disk for certain
    old,      \* the generation a reset replaced, until the header is synced
    db,       \* the database file as the file system shows it
    disk,     \* for each page the contents a power loss may leave
    tx,       \* a connection's transaction: its stage, its pinned snapshot
              \* (generation and entry count), and the contents it pinned
    seen,     \* the connections whose WAL handle knows of frames
    ckpt,     \* the checkpoint a connection runs
    hist,     \* ghost: the commits that the files stand for, in order
    next,     \* ghost: the number of the next commit
    acked,    \* ghost: the commits whose COMMIT returned or that were synced
    intact,   \* ghost: none of the accidents that ResetHeader, StaleWrite
              \* and Crash record has happened
    faults    \* power losses and I/O errors so far

files == <<wal, gen, synced, old, db, disk>>
ghosts == <<hist, next, acked, intact>>
vars == <<open, wal, gen, synced, old, db, disk, tx, seen, ckpt,
          hist, next, acked, intact, faults>>

Blank == [p \in Pages |-> 0]
NoCkpt == [step |-> "none", mode |-> "passive", gen |-> 0, upto |-> 0, todo |-> {}]
NoTx == [at |-> "none", gen |-> 0, n |-> 0, view |-> Blank]
NoOld == [there |-> FALSE, wal |-> <<>>, synced |-> 0, cut |-> FALSE]

\* The last of the first n entries of w that writes p, or what base has.
Latest(w, n, base, p) ==
    LET at == {i \in 1 .. n : p \in w[i].pages}
    IN  IF at = {} THEN base[p] ELSE w[Max(at)].id

\* read_page through the WAL index: the newest committed content.
Content == [p \in Pages |-> Latest(wal, Len(wal), db, p)]

\* What the first n commits of history h leave.
StateAt(h, n) == [p \in Pages |-> Latest(h, n, Blank, p)]

Init ==
    /\ open = {}
    /\ wal = <<>>
    /\ gen = 0
    /\ synced = 0
    /\ old = NoOld
    /\ db = Blank
    /\ disk = [p \in Pages |-> {0}]
    /\ tx = [c \in Conns |-> NoTx]
    /\ seen = {}
    /\ ckpt = [c \in Conns |-> NoCkpt]
    /\ hist = <<>>
    /\ next = 1
    /\ acked = {}
    /\ intact = TRUE
    /\ faults = 0

-----------------------------------------------------------------------------
(* Connections and transactions *)

\* WalFile::refresh and open: c's handle takes over the frame count of w.
Refreshed(c, w) == IF w = <<>> THEN seen \ {c} ELSE seen \cup {c}

\* A connection opens the database: WalFile::open reads the WAL, and the
\* shared connection count goes up.
Open(c) ==
    /\ c \notin open
    /\ open' = open \cup {c}
    /\ seen' = Refreshed(c, wal)
    /\ UNCHANGED <<files, tx, ckpt, ghosts, faults>>

\* A connection that is idle closes; its closing checkpoint is an earlier step.
Close(c) ==
    /\ c \in open
    /\ tx[c] = NoTx
    /\ ckpt[c] = NoCkpt
    /\ open' = open \ {c}
    /\ seen' = seen \ {c}
    /\ UNCHANGED <<files, tx, ckpt, ghosts, faults>>

\* begin: refused while the connection's own checkpoint runs; otherwise the
\* handle is refreshed and the published snapshot pinned.
Begin(c) ==
    /\ c \in open
    /\ tx[c] = NoTx
    /\ ckpt[c] = NoCkpt
    /\ tx' = [tx EXCEPT ![c] = [at |-> "active", gen |-> gen, n |-> Len(wal), view |-> Content]]
    /\ seen' = Refreshed(c, wal)
    /\ UNCHANGED <<open, files, ckpt, ghosts, faults>>

\* rollback: a transaction ends without committing anything.
End(c) ==
    /\ tx[c].at = "active"
    /\ tx' = [tx EXCEPT ![c] = NoTx]
    /\ UNCHANGED <<open, files, seen, ckpt, ghosts, faults>>

\* Fault: the generation of the snapshot is not compared.
ConflictFault(c, ps) ==
    \E i \in tx[c].n + 1 .. Len(wal) : wal[i].pages \cap ps # {}

\* conflicting_pages_since_snapshot: after a reset every page conflicts.
Conflict(c, ps) ==
    IF tx[c].gen # gen THEN TRUE
    ELSE \E i \in tx[c].n + 1 .. Len(wal) : wal[i].pages \cap ps # {}

\* The WAL entry of c's commit, with the versions its snapshot held of the pages
\* it writes.
Entry(c, ps) ==
    [id |-> next, pages |-> ps,
     base |-> [p \in Pages |-> IF p \in ps THEN tx[c].view[p] ELSE 0]]

\* The flush of a commit under the RESERVED lock: conflict check and append.
\* Under PerCommit the lock is held until the WAL is synced.  A conflict ends
\* the transaction with BusySnapshot.
Commit(c, ps) ==
    LET e == Entry(c, ps)
    IN
    /\ tx[c].at = "active"
    /\ \A d \in Conns : tx[d].at # "syncing"
    /\ next <= MaxCommits
    /\ IF Conflict(c, ps)
       THEN /\ tx' = [tx EXCEPT ![c] = NoTx]
            /\ UNCHANGED <<wal, hist, next, acked>>
       ELSE /\ wal' = Append(wal, e)
            /\ hist' = Append(hist, e)
            /\ next' = next + 1
            /\ tx' = [tx EXCEPT ![c] = IF SyncPolicy = "PerCommit"
                                         THEN [NoTx EXCEPT !.at = "syncing"] ELSE NoTx]
            /\ acked' = IF SyncPolicy = "PerCommit" THEN acked ELSE acked \cup {next}
    /\ seen' = Refreshed(c, wal')
    /\ UNCHANGED <<open, gen, synced, old, db, disk, ckpt, intact, faults>>

\* wal.sync of the PerCommit policy, the unlock and the return of COMMIT.  The
\* sync is of the whole file: a header that a reset left unsynced included.
SyncWal(c) ==
    /\ tx[c].at = "syncing"
    /\ tx' = [tx EXCEPT ![c] = NoTx]
    /\ synced' = Len(wal)
    /\ old' = NoOld
    /\ acked' = acked \cup {wal[i].id : i \in 1 .. Len(wal)}
    /\ UNCHANGED <<open, wal, gen, db, disk, seen, ckpt, hist, next, intact, faults>>

\* wal.sync fails: the frames stay in the WAL, not synced and for everyone to
\* see, RESERVED is released and COMMIT returns an error.  All the transaction
\* can do then is roll back: on a retry its own frames are a conflict.
SyncFails(c) ==
    /\ faults < MaxFaults
    /\ faults' = faults + 1
    /\ tx[c].at = "syncing"
    /\ tx' = [tx EXCEPT ![c] = NoTx]
    /\ UNCHANGED <<open, files, seen, ckpt, ghosts>>

-----------------------------------------------------------------------------
(* Checkpoints *)

\* plan_checkpoint's post-action: whether a completed checkpoint in mode m
\* resets the WAL.
Resets(m) == m \in {"restart", "truncate"}

\* The mode after the pager's downgrade: without reader tracking the WAL is
\* reset only for the sole connection.
Effective(c, m) ==
    IF Resets(m) /\ open # {c} THEN "full" ELSE m

\* SimplePager::checkpoint up to the first write: Busy during an own
\* transaction or checkpoint, nothing to do when the handle knows of no
\* frames, the sole-connection test, the refresh, and plan_checkpoint with
\* nothing back-filled and no reader: all frames, from the start.
StartCheckpoint(c, m) ==
    /\ c \in open
    /\ tx[c] = NoTx
    /\ ckpt[c] = NoCkpt
    /\ c \in seen
    /\ seen' = Refreshed(c, wal)
    /\ ckpt' = [ckpt EXCEPT ![c] =
                   IF wal = <<>> THEN NoCkpt
                   ELSE [step |-> "write", mode |-> Effective(c, m), gen |-> gen,
                         upto |-> Len(wal),
                         todo |-> UNION {wal[i].pages : i \in 1 .. Len(wal)}]]
    /\ UNCHANGED <<open, files, tx, ghosts, faults>>

\* Fault: the page's first frame is copied, not its latest.
WritePageFault(c) ==
    LET k == ckpt[c]
        p == Min(k.todo)
        at == {i \in 1 .. k.upto : p \in wal[i].pages}
    IN
    /\ k.step = "write" /\ k.todo # {} /\ k.gen = gen
    /\ db' = [db EXCEPT ![p] = wal[Min(at)].id]
    /\ disk' = [disk EXCEPT ![p] = @ \cup {wal[Min(at)].id}]
    /\ ckpt' = [ckpt EXCEPT ![c].todo = @ \ {p}]
    /\ UNCHANGED <<open, wal, gen, synced, old, tx, seen, ghosts, faults>>

\* One page of the back-fill, in page order: the latest frame in the range is
\* written to the database file.
WritePage(c) ==
    LET k == ckpt[c]
        p == Min(k.todo)
        v == Latest(wal, k.upto, db, p)
    IN
    /\ k.step = "write" /\ k.todo # {} /\ k.gen = gen
    /\ db' = [db EXCEPT ![p] = v]
    /\ disk' = [disk EXCEPT ![p] = @ \cup {v}]
    /\ ckpt' = [ckpt EXCEPT ![c].todo = @ \ {p}]
    /\ UNCHANGED <<open, wal, gen, synced, old, tx, seen, ghosts, faults>>

\* The same when another connection has reset the WAL since the plan: the frame
\* is read by its number and neither its salts nor its page are compared, so
\* the page gets whatever the file holds there.  (A short read is an error, as
\* in CheckpointFails.)
StaleWrite(c) ==
    LET k == ckpt[c]
        p == Min(k.todo)
    IN
    /\ k.step = "write" /\ k.todo # {} /\ k.gen # gen
    /\ \E v \in 1 .. next - 1 :
           /\ db' = [db EXCEPT ![p] = v]
           /\ disk' = [disk EXCEPT ![p] = @ \cup {v}]
    /\ ckpt' = [ckpt EXCEPT ![c].todo = @ \ {p}]
    /\ intact' = FALSE
    /\ UNCHANGED <<open, wal, gen, synced, old, tx, seen, hist, next, acked, faults>>

\* Fault: the database file is not synced before the WAL is reset.
SyncDbFault(c) ==
    LET k == ckpt[c] IN
    /\ k.step = "fsync" \/ (k.step = "write" /\ k.todo = {})
    /\ ckpt' = [ckpt EXCEPT ![c] =
                   IF ~Resets(k.mode) THEN NoCkpt
                   ELSE [k EXCEPT !.step = "reset"]]
    /\ UNCHANGED <<open, files, tx, seen, ghosts, faults>>

\* sync_db after the back-fill (the truncation to the committed size and its
\* sync included), and once more before a truncating reset.
SyncDb(c) ==
    LET k == ckpt[c] IN
    /\ k.step = "fsync" \/ (k.step = "write" /\ k.todo = {})
    /\ disk' = [p \in Pages |-> {db[p]}]
    /\ ckpt' = [ckpt EXCEPT ![c] =
                   IF ~Resets(k.mode) THEN NoCkpt
                   ELSE [k EXCEPT !.step = IF k.mode = "truncate" /\ k.step = "write"
                                           THEN "fsync" ELSE "reset"]]
    /\ UNCHANGED <<open, wal, gen, synced, old, db, tx, seen, ghosts, faults>>

\* What a reset takes away is in the database file: nothing was committed since
\* the checkpoint's plan, and no earlier reset waits for its sync.
Discardable(c) == ckpt[c].upto = Len(wal) /\ ~old.there

\* Fault: the count of synced frames is not reset with the frames.
ResetHeaderFault(c) ==
    /\ ckpt[c].step = "reset"
    /\ old' = [there |-> TRUE, wal |-> wal, synced |-> synced,
               cut |-> (ckpt[c].mode = "truncate")]
    /\ wal' = <<>>
    /\ gen' = gen + 1
    /\ ckpt' = [ckpt EXCEPT ![c].step = "header"]
    /\ intact' = (intact /\ Discardable(c))
    /\ UNCHANGED <<open, synced, db, disk, tx, seen, hist, next, acked, faults>>

\* WalFile::reset up to its sync: a header with new salts makes every frame
\* of the old generation invalid, a truncation removes them.  Whether frames
\* were appended since the plan is not looked at.
ResetHeader(c) ==
    /\ ckpt[c].step = "reset"
    /\ old' = [there |-> TRUE, wal |-> wal, synced |-> synced,
               cut |-> (ckpt[c].mode = "truncate")]
    /\ wal' = <<>>
    /\ gen' = gen + 1
    /\ synced' = 0
    /\ ckpt' = [ckpt EXCEPT ![c].step = "header"]
    /\ intact' = (intact /\ Discardable(c))
    /\ UNCHANGED <<open, db, disk, tx, seen, hist, next, acked, faults>>

\* The sync of the new header; the checkpoint ends.
ResetSync(c) ==
    /\ ckpt[c].step = "header"
    /\ old' = NoOld
    /\ synced' = Len(wal)
    /\ ckpt' = [ckpt EXCEPT ![c] = NoCkpt]
    /\ seen' = seen \ {c}
    /\ UNCHANGED <<open, wal, gen, db, disk, tx, ghosts, faults>>

\* An I/O error ends the checkpoint where it is: the guard gives the backend
\* back and clears checkpoint_active.  An error in a reset after the header was
\* written leaves the new header in the file, not synced, and the handle with
\* its old frame count.
CheckpointFails(c) ==
    /\ faults < MaxFaults
    /\ faults' = faults + 1
    /\ ckpt[c].step # "none"
    /\ ckpt' = [ckpt EXCEPT ![c] = NoCkpt]
    /\ UNCHANGED <<open, files, tx, seen, ghosts>>

-----------------------------------------------------------------------------
(* Power loss *)

\* The first n entries of w survive: all that is synced, any more by chance.
Survivors(w, n) == {SubSeq(w, 1, k) : k \in n .. Len(w)}

\* A back-fill has copied a commit that is not synced: of a connection that is
\* still in its sync, or whose sync failed.
Exposed == \E i \in synced + 1 .. Len(wal) : \E p \in Pages : wal[i].id \in disk[p]

\* What may be left of the WAL when the header of a new generation is not
\* synced and the old header comes back: the old generation, nothing if the
\* file was cut, and any part if new frames were written over it.
OldSurvivors ==
    Survivors(old.wal, IF wal = <<>> THEN old.synced ELSE 0)
        \cup (IF old.cut THEN {<<>>} ELSE {})

\* Power loss and the recovery that the next open does: of the WAL a prefix
\* survives, perhaps of the old generation, and of each page some content
\* written since the last sync.  The ghost history is cut to the longest one
\* that explains the files.  Two accidents: a back-filled commit loses its
\* frames, or a part of the old generation comes back.
Crash ==
    /\ faults < MaxFaults
    /\ faults' = faults + 1
    /\ open' = {}
    /\ tx' = [c \in Conns |-> NoTx]
    /\ seen' = {}
    /\ ckpt' = [c \in Conns |-> NoCkpt]
    /\ \/ /\ wal' \in Survivors(wal, synced)
          /\ gen' = gen
          /\ intact' = (intact /\ ~Exposed)
       \/ /\ old.there
          /\ wal' \in OldSurvivors
          /\ gen' = gen - 1
          /\ intact' = (intact /\ ~Exposed /\ wal' \in {<<>>, old.wal})
    /\ db' \in {f \in [Pages -> UNION {disk[p] : p \in Pages}] : \A p \in Pages : f[p] \in disk[p]}
    /\ synced' = Len(wal')
    /\ old' = NoOld
    /\ disk' = [p \in Pages |-> {db'[p]}]
    /\ LET now == [p \in Pages |-> Latest(wal', Len(wal'), db', p)]
           fits == {n \in 0 .. Len(hist) : now = StateAt(hist, n)}
       IN  hist' = IF fits = {} THEN hist ELSE SubSeq(hist, 1, Max(fits))
    /\ UNCHANGED <<next, acked>>

-----------------------------------------------------------------------------

Next ==
    \/ Crash
    \/ \E c \in Conns :
           \/ Open(c)
           \/ Close(c)
           \/ Begin(c)
           \/ End(c)
           \/ \E ps \in (SUBSET Pages) \ {{}} : Commit(c, ps)
           \/ SyncWal(c)
           \/ SyncFails(c)
           \/ \E m \in Modes : StartCheckpoint(c, m)
           \/ WritePage(c)
           \/ StaleWrite(c)
           \/ SyncDb(c)
           \/ ResetHeader(c)
           \/ ResetSync(c)
           \/ CheckpointFails(c)

Spec == Init /\ [][Next]_vars

-----------------------------------------------------------------------------
(* Properties *)

Entries == [id : 1 .. MaxCommits, pages : SUBSET Pages, base : [Pages -> 0 .. MaxCommits]]

\* Every variable keeps its type.
TypeOK ==
    /\ open \subseteq Conns
    /\ wal \in Seq(Entries)
    /\ hist \in Seq(Entries)
    /\ gen \in Nat
    /\ synced \in 0 .. Len(wal)
    /\ old \in [there : BOOLEAN, wal : Seq(Entries), synced : Nat, cut : BOOLEAN]
    /\ db \in [Pages -> 0 .. MaxCommits]
    /\ disk \in [Pages -> SUBSET (0 .. MaxCommits)]
    /\ tx \in [Conns -> [at : {"none", "active", "syncing"}, gen : Nat, n : Nat,
                         view : [Pages -> 0 .. MaxCommits]]]
    /\ seen \subseteq Conns
    /\ ckpt \in [Conns -> [step : {"none", "write", "fsync", "reset", "header"},
                           mode : {"passive", "full", "restart", "truncate"},
                           gen : Nat, upto : Nat, todo : SUBSET Pages]]
    /\ next \in 1 .. MaxCommits + 1
    /\ acked \subseteq 1 .. MaxCommits
    /\ intact \in BOOLEAN
    /\ faults \in 0 .. MaxFaults

\* WAL over database is exactly the committed history: neither a checkpoint in
\* any mode, concurrent with others, failed or interrupted by power loss at any
\* write, nor a failed sync, nor the recovery, leaves part of a commit or brings
\* an old page back.  Excepted are the accidents that the code does not prevent
\* and intact records: a power loss after a back-fill copied a commit that is
\* not synced (Exposed); a reset that discards a commit made since its plan or
\* follows on one that is not synced (Discardable); a back-fill that outlives
\* its generation (StaleWrite); a power loss that brings back part of a
\* generation whose reset is not synced (Crash).
FilesAreHistory == intact => Content = StateAt(hist, Len(hist))

\* Once COMMIT has returned under PerCommit (synchronous = FULL), the commit
\* is in every later state, power losses, failed syncs and WAL resets included,
\* with the exceptions of FilesAreHistory: a connection opened while another
\* runs a resetting checkpoint can have its commit discarded (Discardable).
AckedSurvive == intact => acked \subseteq {hist[i].id : i \in 1 .. Len(hist)}

\* No lost update: a commit overwrites the version of a page that its own
\* snapshot held, across checkpoints, failed syncs, recoveries, and WAL resets
\* between its snapshot and its commit, with the exceptions of FilesAreHistory.
NoLostUpdate ==
    intact => \A j \in 1 .. Len(hist) : \A p \in hist[j].pages :
                  hist[j].base[p] = StateAt(hist, j - 1)[p]

\* A power loss drops commits but never part of one: the files hold what some
\* prefix of the commits wrote.
NoPartialCommit == \E n \in 0 .. Len(hist) : Content = StateAt(hist, n)

\* A transaction reads, for every page, what its snapshot held: a checkpoint
\* does not put a newer page under a reader.
SnapshotReads ==
    \A c \in Conns : tx[c].at = "active" =>
        /\ tx[c].gen = gen
        /\ \A p \in Pages : Latest(wal, tx[c].n, db, p) = tx[c].view[p]
=============================================================================
