--------------------------- MODULE RollbackJournal ---------------------------
(***************************************************************************)
(* Commits of a database in rollback-journal mode, with I/O errors, process*)
(* crashes and power losses between any two writes: the journal of         *)
(* pre-images, hot-journal recovery at open and at begin, ROLLBACK after a *)
(* failed COMMIT, and the file locks that keep other pagers away.          *)
(*                                                                         *)
(* A page's content is the number of the commit that wrote it.  The cached *)
(* files are what every process reads; a power loss keeps of each page and *)
(* of the journal any state that it went through since its last sync.  A   *)
(* deletion that returned is durable, and the sync of a new journal makes  *)
(* its directory entry durable too.                                        *)
(***************************************************************************)
EXTENDS Integers, FiniteSets, Functions

CONSTANTS
    Pagers,      \* pagers on the database, one per connection
    Pages,       \* page numbers; 1 is the header page
    OneProcess,  \* the pagers belong to one process
    MaxCommits,  \* bound on the commits started in a run
    MaxFaults    \* bound on the I/O errors, crashes and power losses of a run

ASSUME PagesAssumption == 1 \in Pages /\ Pages \subseteq Nat \ {0} /\ IsFiniteSet(Pages)
ASSUME OneProcessAssumption == OneProcess \in BOOLEAN
ASSUME BoundsAssumption == MaxCommits \in Nat /\ MaxFaults \in Nat

VARIABLES
    pc,       \* where a pager is
    lock,     \* its level of lock on the database file
    pending,  \* rollback_journal_recovery_state is Pending
    wset,     \* the pages of its write set
    todo,     \* the pages that its current loop has still to write
    from,     \* who called the recovery it runs
    handle,   \* the journal that this recovery has open
    cache,    \* the database file as processes see it
    disk,     \* for each page the contents a power loss may leave
    jrn,      \* the journal file as processes see it
    jdisk,    \* the journals a power loss may leave
    base,     \* ghost: the committed content as the last begin found it, or
              \* the last COMMIT that returned Ok left it
    next,     \* the content that the running commit writes
    allowed,  \* ghost: the contents that a recovery may give: that of the
              \* last COMMIT that returned Ok, and of those in doubt since
    commits,  \* commits started
    faults,   \* faults so far
    guarded   \* ghost: no journal was lost while the database needed it

locals == <<pc, lock, pending, wset, todo, from, handle>>
database == <<cache, disk>>
journal == <<jrn, jdisk>>
ghosts == <<base, next, allowed, commits, guarded>>
vars == <<locals, database, journal, ghosts, faults>>

Absent == -1   \* the page lies beyond the end of the file
Zeroed == -2   \* the zero image journalled for a page that did not exist
Torn   == -3   \* a page whose write a power loss interrupted
Versions == 0 .. MaxCommits
Contents == Versions \cup {Absent, Zeroed, Torn}

Gone == [exists |-> FALSE, hot |-> FALSE, orig |-> {}, img |-> <<>>]
Truncated == [Gone EXCEPT !.exists = TRUE]

CommitSteps == {"header", "records", "pages", "invalidate", "truncated", "delete", "mustDelete"}
ReplaySteps == {"replay", "cut", "cutSync", "retire", "retired", "clean"}

Init ==
    /\ pc = [q \in Pagers |-> "closed"]
    /\ lock = [q \in Pagers |-> "none"]
    /\ pending = [q \in Pagers |-> FALSE]
    /\ wset = [q \in Pagers |-> {}]
    /\ todo = [q \in Pagers |-> {}]
    /\ from = [q \in Pagers |-> "open"]
    /\ handle = [q \in Pagers |-> Gone]
    /\ base = [p \in Pages |-> IF p = 1 THEN 0 ELSE Absent]
    /\ next = base
    /\ allowed = {base}
    /\ cache = base
    /\ disk = [p \in Pages |-> {base[p]}]
    /\ jrn = Gone
    /\ jdisk = {Gone}
    /\ commits = 0
    /\ faults = 0
    /\ guarded = TRUE

-----------------------------------------------------------------------------
(* The two files and the locks *)

\* File writes reach the disk at some time before the next sync returns.  A
\* page overwritten with what it held cannot be torn.
WriteCached(p, v) ==
    /\ cache' = [cache EXCEPT ![p] = v]
    /\ disk' = [disk EXCEPT ![p] = IF @ = {v} THEN @ ELSE @ \cup {v, Torn}]
SyncCached ==
    /\ disk' = [p \in Pages |-> {cache[p]}]
    /\ UNCHANGED cache
WriteJournal(j) ==
    /\ jrn' = j
    /\ jdisk' = jdisk \cup {j}
SyncJournalFile ==
    /\ jdisk' = {jrn}
    /\ UNCHANGED jrn
DeleteJournal ==
    /\ jrn' = Gone
    /\ jdisk' = {Gone}

Fault ==
    /\ faults < MaxFaults
    /\ faults' = faults + 1

\* UnixFile::lock: fcntl locks exclude other processes; among the handles of
\* one process only the count of RESERVED locks is looked at.
Blocking ==
    [shared    |-> IF OneProcess THEN {} ELSE {"exclusive"},
     reserved  |-> {"reserved", "exclusive"},
     exclusive |-> {"reserved", "exclusive"} \cup (IF OneProcess THEN {} ELSE {"shared"})]

CanLock(q, level) == \A r \in Pagers \ {q} : lock[r] \notin Blocking[level]

Goto(q, at) == pc' = [pc EXCEPT ![q] = at]
SetLock(q, level) == lock' = [lock EXCEPT ![q] = level]

\* File content c stands for committed content b: it may have a page more,
\* left behind the end by an interrupted recovery, but nothing committed there.
StandsFor(c, b) ==
    \A p \in Pages : IF b[p] = Absent THEN c[p] \notin Versions ELSE c[p] = b[p]

\* Every way the disk may look after a power loss.
DiskImages == {d \in [Pages -> UNION Range(disk)] : \A p \in Pages : d[p] \in disk[p]}

\* The database file needs no journal, whatever becomes of the writes to it.
Settled == \A d \in DiskImages \cup {cache} : StandsFor(d, base)

\* What recovery makes of page p, found as v, when it finds journal j.
Restored(j, p, v) ==
    CASE ~j.hot                 -> v
      [] j.hot /\ p \notin j.orig -> Absent
      [] j.hot /\ p \in j.orig    -> IF p \in DOMAIN j.img THEN j.img[p] ELSE v

\* What recovery may find and make of the disk as it is now.
Outcomes == {[p \in Pages |-> Restored(j, p, d[p])] : j \in jdisk, d \in DiskImages}

\* The database file needs no journal, and replaying j makes no difference.
Dispensable(j) ==
    /\ Settled
    /\ \A d \in DiskImages : StandsFor([p \in Pages |-> Restored(j, p, d[p])], base)

\* A transaction starts: it takes what it finds for committed.
Resolve ==
    /\ base' = IF \E b \in allowed : StandsFor(cache, b)
                  THEN CHOOSE b \in allowed : StandsFor(cache, b)
                  ELSE base
    /\ allowed' = {b \in allowed : \E o \in Outcomes : StandsFor(o, b)}
    /\ UNCHANGED <<next, commits, guarded>>

-----------------------------------------------------------------------------
(* Open, begin, the end of a transaction that writes nothing *)

\* Recovery starts: the journal's header and records are read back.
StartReplay(q, caller) ==
    /\ Goto(q, "replay")
    /\ from' = [from EXCEPT ![q] = caller]
    /\ handle' = [handle EXCEPT ![q] = jrn]
    /\ todo' = [todo EXCEPT ![q] = IF jrn.hot THEN DOMAIN jrn.img ELSE {}]

Open(q) ==
    /\ pc[q] = "closed"
    /\ ~jrn.exists
    /\ Goto(q, "idle")
    /\ UNCHANGED <<lock, pending, wset, todo, from, handle, database, journal, ghosts, faults>>

\* A journal exists: EXCLUSIVE is taken before it is looked at again.
OpenHot(q) ==
    /\ pc[q] = "closed"
    /\ jrn.exists
    /\ CanLock(q, "exclusive")
    /\ SetLock(q, "exclusive")
    /\ StartReplay(q, "open")
    /\ UNCHANGED <<pending, wset, database, journal, ghosts, faults>>

\* Fault: a leftover journal is not looked for.
BeginFault(q) ==
    /\ pc[q] = "idle"
    /\ CanLock(q, "shared")
    /\ SetLock(q, "shared")
    /\ Goto(q, "read")
    /\ Resolve
    /\ UNCHANGED <<pending, wset, todo, from, handle, database, journal, faults>>

\* SHARED is taken and no journal is there; with Pending and no journal
\* begin fails.
Begin(q) ==
    /\ pc[q] = "idle"
    /\ ~jrn.exists
    /\ ~pending[q]
    /\ CanLock(q, "shared")
    /\ SetLock(q, "shared")
    /\ Goto(q, "read")
    /\ Resolve
    /\ UNCHANGED <<pending, wset, todo, from, handle, database, journal, faults>>

BeginHot(q) ==
    /\ pc[q] = "idle"
    /\ jrn.exists
    /\ CanLock(q, "shared")
    /\ SetLock(q, "shared")
    /\ Goto(q, "hot")
    /\ UNCHANGED <<pending, wset, todo, from, handle, database, journal, ghosts, faults>>

\* recover_rollback_journal_if_present_locked, from SHARED.
BeginRecovery(q) ==
    /\ pc[q] = "hot"
    /\ CanLock(q, "exclusive")
    /\ jrn.exists
    /\ SetLock(q, "exclusive")
    /\ StartReplay(q, "begin")
    /\ UNCHANGED <<pending, wset, database, journal, ghosts, faults>>

\* The journal disappeared before EXCLUSIVE was granted.
BeginVanished(q) ==
    /\ pc[q] = "hot"
    /\ CanLock(q, "exclusive")
    /\ ~jrn.exists
    /\ IF pending[q]
          THEN Goto(q, "idle") /\ SetLock(q, "none") /\ UNCHANGED ghosts
          ELSE Goto(q, "read") /\ UNCHANGED lock /\ Resolve
    /\ UNCHANGED <<pending, wset, todo, from, handle, database, journal, faults>>

\* Fault: SHARED is kept when EXCLUSIVE is refused.
BeginBusyFault(q) ==
    /\ pc[q] = "hot"
    /\ ~CanLock(q, "exclusive")
    /\ Goto(q, "idle")
    /\ UNCHANGED <<lock, pending, wset, todo, from, handle, database, journal, ghosts, faults>>

BeginBusy(q) ==
    /\ pc[q] = "hot"
    /\ ~CanLock(q, "exclusive")
    /\ Goto(q, "idle")
    /\ SetLock(q, "none")
    /\ UNCHANGED <<pending, wset, todo, from, handle, database, journal, ghosts, faults>>

\* The first write takes RESERVED; COMMIT will add the header page.
EnsureWriter(q) ==
    /\ pc[q] = "read"
    /\ CanLock(q, "reserved")
    /\ SetLock(q, "reserved")
    /\ Goto(q, "write")
    /\ \E W \in SUBSET Pages :
          /\ 1 \in W
          /\ \A p \in W, r \in Pages : r < p => r \in W \/ cache[r] # Absent
          /\ wset' = [wset EXCEPT ![q] = W]
    /\ UNCHANGED <<pending, todo, from, handle, database, journal, ghosts, faults>>

EndRead(q) ==
    /\ pc[q] = "read"
    /\ Goto(q, "idle")
    /\ SetLock(q, "none")
    /\ UNCHANGED <<pending, wset, todo, from, handle, database, journal, ghosts, faults>>

-----------------------------------------------------------------------------
(* commit_journal *)

\* The journal is opened with CREATE and not truncated.
StartCommit(q) ==
    /\ pc[q] = "write"
    /\ commits < MaxCommits
    /\ CanLock(q, "exclusive")
    /\ SetLock(q, "exclusive")
    /\ Goto(q, "header")
    /\ WriteJournal([jrn EXCEPT !.exists = TRUE])
    /\ commits' = commits + 1
    /\ next' = [p \in Pages |-> IF p \in wset[q] THEN commits + 1 ELSE base[p]]
    /\ allowed' = allowed \cup {next'}
    /\ UNCHANGED <<pending, wset, todo, from, handle, database, base, guarded, faults>>

\* COMMIT again after a COMMIT that failed: the locks are still held.
Retry(q) ==
    /\ pc[q] = "failed"
    /\ wset[q] # {}
    /\ Goto(q, "header")
    /\ WriteJournal([jrn EXCEPT !.exists = TRUE])
    /\ UNCHANGED <<lock, pending, wset, todo, from, handle, database, ghosts, faults>>

\* Writes through the handle of a journal that was deleted under it are lost.
ThroughHandle(j) == IF jrn.exists THEN WriteJournal(j) ELSE UNCHANGED journal

WriteHeader(q) ==
    /\ pc[q] = "header"
    /\ ThroughHandle([jrn EXCEPT !.hot = TRUE, !.orig = {p \in Pages : cache[p] # Absent}])
    /\ Goto(q, "records")
    /\ todo' = [todo EXCEPT ![q] = wset[q]]
    /\ guarded' = (guarded /\ Settled)
    /\ UNCHANGED <<lock, pending, wset, from, handle, database, base, next, allowed, commits, faults>>

\* The pre-image is read from the database file.
PreImage(p) == IF p \in jrn.orig THEN cache[p] ELSE Zeroed

WriteRecord(q) ==
    /\ pc[q] = "records"
    /\ \E p \in todo[q] :
          /\ ThroughHandle([jrn EXCEPT !.img = [r \in DOMAIN @ \cup {p} |->
                               IF r = p THEN PreImage(p) ELSE @[r]]])
          /\ todo' = [todo EXCEPT ![q] = @ \ {p}]
    /\ UNCHANGED <<pc, lock, pending, wset, from, handle, database, ghosts, faults>>

SyncRecords(q) ==
    /\ pc[q] = "records"
    /\ todo[q] = {}
    /\ SyncJournalFile
    /\ pending' = [pending EXCEPT ![q] = TRUE]
    /\ todo' = [todo EXCEPT ![q] = wset[q]]
    /\ Goto(q, "pages")
    /\ UNCHANGED <<lock, wset, from, handle, database, ghosts, faults>>

WritePage(q) ==
    /\ pc[q] = "pages"
    /\ \E p \in todo[q] :
          /\ WriteCached(p, next[p])
          /\ todo' = [todo EXCEPT ![q] = @ \ {p}]
    /\ UNCHANGED <<pc, lock, pending, wset, from, handle, journal, ghosts, faults>>

\* Fault: the database file is not synced before the journal goes.
SyncDatabaseFault(q) ==
    /\ pc[q] = "pages"
    /\ todo[q] = {}
    /\ Goto(q, "invalidate")
    /\ UNCHANGED <<lock, pending, wset, todo, from, handle, database, journal, ghosts, faults>>

SyncDatabase(q) ==
    /\ pc[q] = "pages"
    /\ todo[q] = {}
    /\ SyncCached
    /\ Goto(q, "invalidate")
    /\ UNCHANGED <<lock, pending, wset, todo, from, handle, journal, ghosts, faults>>

\* invalidate_journal_after_commit, or its first error.
Invalidate(q) ==
    /\ \/ /\ pc[q] = "invalidate"
          /\ ThroughHandle(Truncated)
          /\ Goto(q, "truncated")
       \/ /\ pc[q] = "truncated"
          /\ SyncJournalFile
          /\ Goto(q, "delete")
    /\ UNCHANGED <<lock, pending, wset, todo, from, handle, database, ghosts, faults>>

InvalidateFails(q) ==
    /\ pc[q] \in {"invalidate", "truncated"}
    /\ Fault
    /\ Goto(q, "mustDelete")
    /\ UNCHANGED <<lock, pending, wset, todo, from, handle, database, journal, ghosts>>

\* COMMIT returns Ok: the journal is deleted, or was made harmless before.
Committed(q) ==
    /\ \/ /\ pc[q] \in {"delete", "mustDelete"}
          /\ DeleteJournal
          /\ UNCHANGED faults
       \/ /\ pc[q] = "delete"
          /\ Fault
          /\ UNCHANGED journal
    /\ base' = next
    /\ allowed' = {next}
    /\ Goto(q, "idle")
    /\ SetLock(q, "none")
    /\ pending' = [pending EXCEPT ![q] = FALSE]
    /\ wset' = [wset EXCEPT ![q] = {}]
    /\ UNCHANGED <<todo, from, handle, database, next, commits, guarded>>

\* COMMIT fails and keeps its locks; after the database is committed it
\* fails only if the journal can be neither invalidated nor deleted.
CommitFails(q) ==
    /\ pc[q] \in {"header", "records", "pages", "mustDelete"}
    /\ Fault
    /\ pending' = [pending EXCEPT ![q] = @ /\ pc[q] # "mustDelete"]
    /\ Goto(q, "failed")
    /\ UNCHANGED <<lock, wset, todo, from, handle, database, journal, ghosts>>

-----------------------------------------------------------------------------
(* replay_journal and what follows it *)

WriteBack(q) ==
    /\ pc[q] = "replay"
    /\ \E p \in todo[q] :
          /\ WriteCached(p, handle[q].img[p])
          /\ todo' = [todo EXCEPT ![q] = @ \ {p}]
    /\ UNCHANGED <<pc, lock, pending, wset, from, handle, journal, ghosts, faults>>

Beyond(q) == {p \in Pages \ handle[q].orig : cache[p] # Absent}

SyncRestored(q) ==
    /\ pc[q] = "replay"
    /\ handle[q].hot
    /\ todo[q] = {}
    /\ SyncCached
    /\ Goto(q, IF Beyond(q) = {} THEN "retire" ELSE "cut")
    /\ UNCHANGED <<lock, pending, wset, todo, from, handle, journal, ghosts, faults>>

\* The file is cut to the size in the journal's header and synced again.
CutDatabase(q) ==
    /\ \/ /\ pc[q] = "cut"
          /\ cache' = [p \in Pages |-> IF p \in Beyond(q) THEN Absent ELSE cache[p]]
          /\ disk' = [p \in Pages |-> IF p \in Beyond(q) THEN disk[p] \cup {Absent} ELSE disk[p]]
          /\ Goto(q, "cutSync")
       \/ /\ pc[q] = "cutSync"
          /\ SyncCached
          /\ Goto(q, "retire")
    /\ UNCHANGED <<lock, pending, wset, todo, from, handle, journal, ghosts, faults>>

RetireJournal(q) ==
    /\ \/ /\ pc[q] = "retire"
          /\ ThroughHandle(Truncated)
          /\ Goto(q, "retired")
       \/ /\ pc[q] = "retired"
          /\ SyncJournalFile
          /\ Goto(q, "clean")
    /\ UNCHANGED <<lock, pending, wset, todo, from, handle, database, ghosts, faults>>

\* No valid header: there is nothing to replay.  A journal that cannot be
\* opened counts as none, too.
NothingToReplay(q) ==
    /\ pc[q] = "replay"
    /\ \/ /\ ~handle[q].hot
          /\ UNCHANGED <<faults, ghosts>>
       \/ /\ handle[q].hot
          /\ todo[q] = DOMAIN handle[q].img
          /\ Fault
          /\ guarded' = (guarded /\ Dispensable(handle[q]))
          /\ UNCHANGED <<base, next, allowed, commits>>
    /\ todo' = [todo EXCEPT ![q] = {}]
    /\ Goto(q, "clean")
    /\ UNCHANGED <<lock, pending, wset, from, handle, database, journal>>

\* The journal is deleted if that works, and the caller goes on.
Recovered(q) ==
    /\ pc[q] = "clean"
    /\ \/ DeleteJournal /\ UNCHANGED faults
       \/ Fault /\ UNCHANGED journal
    /\ CASE from[q] = "open" ->
               Goto(q, "idle") /\ SetLock(q, "none") /\ UNCHANGED <<pending, ghosts>>
         [] from[q] = "begin" ->
               /\ Goto(q, "read")
               /\ SetLock(q, "shared")
               /\ pending' = [pending EXCEPT ![q] = FALSE]
               /\ Resolve
         [] from[q] = "rollback" ->
               /\ Goto(q, "unlocked")
               /\ SetLock(q, "none")
               /\ pending' = [pending EXCEPT ![q] = FALSE]
               /\ allowed' = {base}
               /\ UNCHANGED <<base, next, commits, guarded>>
    /\ handle' = [handle EXCEPT ![q] = Gone]
    /\ UNCHANGED <<wset, todo, from, database>>

ReplayFails(q) ==
    /\ pc[q] \in ReplaySteps \ {"clean"}
    /\ Fault
    /\ CASE from[q] = "open" -> Goto(q, "closed") /\ SetLock(q, "none")
         [] from[q] = "begin" -> Goto(q, "idle") /\ SetLock(q, "none")
         [] from[q] = "rollback" -> Goto(q, "failed") /\ UNCHANGED lock
    /\ todo' = [todo EXCEPT ![q] = {}]
    /\ handle' = [handle EXCEPT ![q] = Gone]
    /\ UNCHANGED <<pending, wset, from, database, journal, ghosts>>

-----------------------------------------------------------------------------
(* ROLLBACK, dropped transactions, crashes *)

\* After a COMMIT that failed with the state Pending the journal is replayed.
RollbackFailed(q) ==
    /\ pc[q] = "failed"
    /\ pending[q]
    /\ jrn.exists
    /\ wset' = [wset EXCEPT ![q] = {}]
    /\ StartReplay(q, "rollback")
    /\ UNCHANGED <<lock, pending, database, journal, ghosts, faults>>

\* Otherwise the locks are given up...
Rollback(q) ==
    /\ pc[q] \in {"write", "failed"}
    /\ ~pending[q]
    /\ wset' = [wset EXCEPT ![q] = {}]
    /\ Goto(q, "unlocked")
    /\ SetLock(q, "none")
    /\ UNCHANGED <<pending, todo, from, handle, database, journal, ghosts, faults>>

\* ... and whatever journal there is then is deleted, if that works.
LateDelete(q) ==
    /\ pc[q] = "unlocked"
    /\ \/ /\ DeleteJournal
          /\ guarded' = (guarded /\ (~jrn.exists \/ /\ Settled
                                                    /\ \A r \in Pagers : lock[r] # "exclusive"))
          /\ UNCHANGED faults
       \/ /\ jrn.exists
          /\ Fault
          /\ UNCHANGED <<journal, guarded>>
    /\ Goto(q, "idle")
    /\ UNCHANGED <<lock, pending, wset, todo, from, handle, database, base, next, allowed, commits>>

\* The transaction is dropped, or ended by a COMMIT with nothing left to
\* write after a ROLLBACK that failed: recovery is left to the next begin.
DropTransaction(q) ==
    /\ pc[q] \in {"write", "failed"}
    /\ Goto(q, "idle")
    /\ SetLock(q, "none")
    /\ wset' = [wset EXCEPT ![q] = {}]
    /\ UNCHANGED <<pending, todo, from, handle, database, journal, ghosts, faults>>

Down(qs) ==
    /\ pc' = [q \in Pagers |-> IF q \in qs THEN "closed" ELSE pc[q]]
    /\ lock' = [q \in Pagers |-> IF q \in qs THEN "none" ELSE lock[q]]
    /\ pending' = [q \in Pagers |-> pending[q] /\ q \notin qs]
    /\ wset' = [q \in Pagers |-> IF q \in qs THEN {} ELSE wset[q]]
    /\ todo' = [q \in Pagers |-> IF q \in qs THEN {} ELSE todo[q]]
    /\ handle' = [q \in Pagers |-> IF q \in qs THEN Gone ELSE handle[q]]
    /\ UNCHANGED <<from, ghosts>>

Crash(q) ==
    /\ pc[q] # "closed"
    /\ Fault
    /\ Down(IF OneProcess THEN Pagers ELSE {q})
    /\ UNCHANGED <<database, journal>>

PowerLoss ==
    /\ \E q \in Pagers : pc[q] # "closed"
    /\ Fault
    /\ Down(Pagers)
    /\ cache' \in DiskImages
    /\ disk' = [p \in Pages |-> {cache'[p]}]
    /\ jrn' \in jdisk
    /\ jdisk' = {jrn'}

Next ==
    \/ PowerLoss
    \/ \E q \in Pagers :
          \/ Open(q) \/ OpenHot(q) \/ Begin(q) \/ BeginHot(q) \/ BeginRecovery(q)
          \/ BeginVanished(q) \/ BeginBusy(q) \/ EnsureWriter(q) \/ EndRead(q)
          \/ StartCommit(q) \/ Retry(q) \/ WriteHeader(q) \/ WriteRecord(q)
          \/ SyncRecords(q) \/ WritePage(q) \/ SyncDatabase(q) \/ Invalidate(q)
          \/ InvalidateFails(q) \/ Committed(q) \/ CommitFails(q)
          \/ WriteBack(q) \/ SyncRestored(q) \/ CutDatabase(q) \/ RetireJournal(q)
          \/ NothingToReplay(q) \/ Recovered(q) \/ ReplayFails(q)
          \/ RollbackFailed(q) \/ Rollback(q) \/ LateDelete(q)
          \/ DropTransaction(q) \/ Crash(q)

Spec == Init /\ [][Next]_vars

-----------------------------------------------------------------------------
(* Properties *)

Journals ==
    [exists : BOOLEAN, hot : BOOLEAN, orig : SUBSET Pages,
     img : UNION {[ps -> Contents] : ps \in SUBSET Pages}]

\* The types of the variables, and which lock goes with which step.
TypeOK ==
    /\ pc \in [Pagers -> {"closed", "idle", "hot", "read", "write", "failed", "unlocked"}
                           \cup CommitSteps \cup ReplaySteps]
    /\ lock \in [Pagers -> {"none", "shared", "reserved", "exclusive"}]
    /\ pending \in [Pagers -> BOOLEAN]
    /\ wset \in [Pagers -> SUBSET Pages]
    /\ todo \in [Pagers -> SUBSET Pages]
    /\ from \in [Pagers -> {"open", "begin", "rollback"}]
    /\ handle \in [Pagers -> Journals]
    /\ cache \in [Pages -> Contents]
    /\ disk \in [Pages -> SUBSET Contents]
    /\ jrn \in Journals
    /\ jdisk \subseteq Journals
    /\ base \in [Pages -> Contents]
    /\ next \in [Pages -> Contents]
    /\ allowed \subseteq [Pages -> Contents]
    /\ commits \in 0 .. MaxCommits
    /\ faults \in 0 .. MaxFaults
    /\ guarded \in BOOLEAN
    /\ \A q \in Pagers :
          /\ lock[q] = "none" <=> pc[q] \in {"closed", "idle", "unlocked"}
          /\ lock[q] = "exclusive" <=> pc[q] \in CommitSteps \cup ReplaySteps \cup {"failed"}

\* Atomicity and durability of commit_journal and replay_journal: whatever a
\* power loss leaves of the two files at this moment, in the middle of a
\* recovery too, recovering from it gives the last commit that returned Ok,
\* or all of the one in doubt; unless a journal was lost in one of the ways
\* that guarded records.
RecoversToCommitted ==
    guarded => \A o \in Outcomes : \E b \in allowed : StandsFor(o, b)

\* Isolation by the file locks: while a pager is inside a transaction and not
\* committing it, the database file holds the last commit and never a page of
\* one that is being written or taken back.
ReadersSeeCommitted ==
    guarded => \A q \in Pagers : pc[q] \in {"read", "write"} => StandsFor(cache, base)
=============================================================================
