------------------------ MODULE RollbackJournalProofs ------------------------
(***************************************************************************)
(* Proofs about RollbackJournal for any number of pagers in processes of   *)
(* their own, any set of pages and any number of commits and faults: the   *)
(* types, what a recovery makes of the files after a power loss at any     *)
(* moment, and what readers see.                                           *)
(*                                                                         *)
(* The argument follows the journals that a power loss may leave.  Each of *)
(* them gives one committed content: a hot one by the images it has and by *)
(* the pages that it leaves alone, one that is not hot by the database     *)
(* file as it is.  What may be written to the database file at a step      *)
(* depends on which journals there may be.                                 *)
(***************************************************************************)
EXTENDS RollbackJournal, TLAPS

-----------------------------------------------------------------------------
(* The inductive invariant *)

\* What a page of the file may hold for a page with committed content x.
Matches(v, x) == IF x = Absent THEN v \notin Versions ELSE v = x

\* Whatever reaches the disk of what was written, the database file holds b.
Plain(d, b) == \A p \in Pages : \A v \in d[p] : Matches(v, b[p])

\* Replaying journal j gives b: by its images, and by what it leaves alone.
Undo(j, d, b) ==
    /\ \A p \in Pages \ j.orig : b[p] = Absent
    /\ \A p \in DOMAIN j.img : Matches(j.img[p], b[p])
    /\ \A p \in j.orig \ DOMAIN j.img : \A v \in d[p] : Matches(v, b[p])

Gives(j, d, b) == IF j.hot THEN Undo(j, d, b) ELSE Plain(d, b)
AllGive(js, d, b) == \A j \in js : Gives(j, d, b)

Committable == [Pages -> Versions \cup {Absent}]

\* There is one way not to be there.
Sane(j) == ~j.exists => j = Gone

\* What processes see is one of the states that a power loss may leave.
FilesOK ==
    /\ \A p \in Pages : cache[p] \in disk[p]
    /\ jrn \in jdisk
    /\ ~jrn.exists => jdisk = {Gone}
    /\ \A j \in jdisk : Sane(j)

\* EXCLUSIVE excludes every other lock, RESERVED the others of its kind.
LocksExclude ==
    \A q, r \in Pagers : q # r =>
        /\ lock[q] = "exclusive" => lock[r] = "none"
        /\ lock[q] = "reserved" => lock[r] \in {"none", "shared"}

\* The pages that a loop has still to write, and when Pending cannot be.
LoopsOK ==
    \A q \in Pagers :
        /\ pc[q] = "replay" => todo[q] \subseteq DOMAIN handle[q].img
        /\ pc[q] \in {"records", "pages"} => todo[q] \subseteq wset[q]
        /\ pc[q] \in {"read", "write"} => ~pending[q]

\* Committed contents have no torn or zeroed pages.
GhostsOK == base \in Committable /\ next \in Committable /\ allowed \subseteq Committable

\* What does not depend on which journals were kept.
BInv == TypeOK /\ FilesOK /\ LoopsOK /\ GhostsOK

\* Every journal that may be found gives an allowed content; one without a
\* valid header has no images ...
JournalsRecover ==
    /\ base \in allowed
    /\ \A j \in jdisk : ~j.hot => j.img = <<>>
    /\ \A j \in jdisk : \E b \in allowed : Gives(j, disk, b)

\* ... and a hot one is safely on disk before the database file changes.
HotIsSafe ==
    jrn.hot => \/ jdisk = {jrn}
               \/ \E b \in allowed : Plain(disk, b) /\ Undo(jrn, disk, b)

\* Inside a transaction the file holds the last commit.
ReadOK(q) ==
    pc[q] \in {"read", "write"} => Plain(disk, base) /\ (jrn.hot => Undo(jrn, disk, base))

\* The content that the running commit writes is that of its pages.
NextOK(q) ==
    /\ next \in allowed
    /\ \A p \in Pages : IF p \in wset[q] THEN next[p] \in Versions ELSE next[p] = base[p]

\* COMMIT: the journal stays, and undoes to the last commit while it is hot.
CommitOK(q) ==
    /\ pc[q] \in CommitSteps \cup {"failed"} => jrn.exists /\ (jrn.hot => Undo(jrn, disk, base))
    /\ pc[q] \in CommitSteps \/ (pc[q] = "failed" /\ wset[q] # {}) => NextOK(q)
    /\ pc[q] \in {"header", "records", "pages", "failed"} /\ pending[q] =>
           AllGive(jdisk, disk, base)

\* The steps of COMMIT: pre-images first, then pages, then the journal goes.
StepsOK(q) ==
    /\ pc[q] = "records" => /\ jrn.hot /\ Plain(disk, base)
                            /\ wset[q] \ todo[q] \subseteq DOMAIN jrn.img
    /\ pc[q] = "pages" => /\ jrn.hot /\ jdisk = {jrn}
                          /\ wset[q] \subseteq DOMAIN jrn.img
                          /\ \A p \in wset[q] \ todo[q] : cache[p] = next[p]
                          /\ \A p \in Pages \ wset[q] : \A v \in disk[p] : Matches(v, base[p])
    /\ pc[q] \in {"invalidate", "truncated", "delete", "mustDelete"} => Plain(disk, next)
    /\ pc[q] \in {"truncated", "delete"} => jrn = Truncated
    /\ pc[q] = "delete" => jdisk = {Truncated}

\* The pages that the journal's header counts hold what b has.
Counted(j, d, b) == \A p \in j.orig : \A v \in d[p] : Matches(v, b[p])

\* Recovery: the journal read is the one there, and stays until b is back.
ReplayOK(q) ==
    /\ pc[q] \in ReplaySteps =>
           jrn.exists /\ (from[q] = "rollback" => wset[q] = {} /\ AllGive(jdisk, disk, base))
    /\ pc[q] \in {"replay", "cut", "cutSync", "retire"} => handle[q] = jrn
    /\ pc[q] = "replay" => \A p \in DOMAIN jrn.img \ todo[q] : cache[p] = jrn.img[p]
    /\ pc[q] \in {"cut", "cutSync"} =>
           jrn.hot /\ \E b \in allowed : Undo(jrn, disk, b) /\ Counted(jrn, disk, b)
    /\ pc[q] = "cutSync" => \A p \in Pages \ jrn.orig : cache[p] = Absent
    /\ pc[q] = "retire" => jrn.hot /\ \E b \in allowed : Undo(jrn, disk, b) /\ Plain(disk, b)
    /\ pc[q] = "retired" => jrn = Truncated /\ \E b \in allowed : Plain(disk, b)
    /\ pc[q] = "clean" => /\ \E b \in allowed : Plain(disk, b)
                          /\ jrn.hot => Plain(disk, base) /\ Undo(jrn, disk, base)

PagerOK(q) == ReadOK(q) /\ CommitOK(q) /\ StepsOK(q) /\ ReplayOK(q)

\* The invariant of recovery, as long as no journal is lost.
GInv == JournalsRecover /\ HotIsSafe /\ \A q \in Pagers : PagerOK(q)

IInv == BInv /\ LocksExclude /\ (guarded => GInv)

-----------------------------------------------------------------------------
(* Types and files *)

Steps == {"closed", "idle", "hot", "read", "write", "failed", "unlocked"}
           \cup CommitSteps \cup ReplaySteps
Levels == {"none", "shared", "reserved", "exclusive"}

\* The lock that goes with a step.
Fits(at, l) ==
    /\ l = "none" <=> at \in {"closed", "idle", "unlocked"}
    /\ l = "exclusive" <=> at \in CommitSteps \cup ReplaySteps \cup {"failed"}

LocalTypes ==
    /\ pc \in [Pagers -> Steps] /\ lock \in [Pagers -> Levels]
    /\ pending \in [Pagers -> BOOLEAN]
    /\ wset \in [Pagers -> SUBSET Pages] /\ todo \in [Pagers -> SUBSET Pages]
    /\ from \in [Pagers -> {"open", "begin", "rollback"}]
    /\ handle \in [Pagers -> Journals]
    /\ \A q \in Pagers : Fits(pc[q], lock[q])

FileTypes ==
    /\ cache \in [Pages -> Contents] /\ disk \in [Pages -> SUBSET Contents]
    /\ jrn \in Journals /\ jdisk \subseteq Journals

GhostTypes ==
    /\ commits \in 0 .. MaxCommits /\ faults \in 0 .. MaxFaults /\ guarded \in BOOLEAN

\* Locals and their loops, files, ghosts: the parts that steps change separately.
LocalInv == LocalTypes /\ LoopsOK
FileInv == FileTypes /\ FilesOK
GhostInv == GhostTypes /\ GhostsOK

LEMMA TypeParts == BInv <=> LocalInv /\ FileInv /\ GhostInv
<1>1. TypeOK /\ GhostsOK <=> LocalTypes /\ FileTypes /\ GhostTypes /\ GhostsOK
  <2>1. Committable \subseteq [Pages -> Contents]
    BY DEF Committable, Contents
  <2>2. GhostsOK => base \in [Pages -> Contents] /\ next \in [Pages -> Contents]
                      /\ allowed \subseteq [Pages -> Contents]
    BY <2>1 DEF GhostsOK
  <2>. QED
    BY <2>2 DEF TypeOK, LocalTypes, FileTypes, GhostTypes, Steps, Levels, Fits
<1>. QED
  BY <1>1 DEF BInv, LocalInv, FileInv, GhostInv

\* The images of a journal, and what makes one.
LEMMA ImageTypes ==
    ASSUME NEW j \in Journals
    PROVE  /\ DOMAIN j.img \subseteq Pages /\ \A p \in DOMAIN j.img : j.img[p] \in Contents
           /\ j.exists \in BOOLEAN /\ j.hot \in BOOLEAN /\ j.orig \subseteq Pages
<1>1. j.img \in UNION {[ps -> Contents] : ps \in SUBSET Pages}
  BY DEF Journals
<1>2. PICK ps \in SUBSET Pages : j.img \in [ps -> Contents]
  BY <1>1
<1>. QED
  BY <1>2 DEF Journals

LEMMA JournalType ==
    ASSUME NEW x \in BOOLEAN, NEW h \in BOOLEAN, NEW o \in SUBSET Pages,
           NEW D \in SUBSET Pages, NEW f \in [D -> Contents]
    PROVE  [exists |-> x, hot |-> h, orig |-> o, img |-> f] \in Journals
<1>1. f \in UNION {[ps -> Contents] : ps \in SUBSET Pages}
  OBVIOUS
<1>. QED
  BY <1>1 DEF Journals

\* The fields of the journals that a step makes.
LEMMA Fields ==
    /\ Gone.exists = FALSE /\ Gone.hot = FALSE /\ Gone.orig = {} /\ Gone.img = <<>>
    /\ Truncated.exists = TRUE /\ Truncated.hot = FALSE /\ Truncated.orig = {}
    /\ Truncated.img = <<>> /\ DOMAIN Gone.img = {} /\ DOMAIN Truncated.img = {}
    /\ Gone \in Journals /\ Truncated \in Journals
    /\ Sane(Gone) /\ Sane(Truncated)
<1>1. Gone = [exists |-> FALSE, hot |-> FALSE, orig |-> {}, img |-> <<>>]
  BY DEF Gone
<1>2. Truncated = [exists |-> TRUE, hot |-> FALSE, orig |-> {}, img |-> <<>>]
  <2>1. \A t, f : [[exists |-> f, hot |-> f, orig |-> {}, img |-> <<>>] EXCEPT !.exists = t]
                   = [exists |-> t, hot |-> f, orig |-> {}, img |-> <<>>]
    OBVIOUS
  <2>. QED
    BY <1>1, <2>1, Zenon DEF Truncated
<1>3. <<>> \in [{} -> Contents] /\ DOMAIN <<>> = {}
  OBVIOUS
<1>4. Gone \in Journals /\ Truncated \in Journals
  BY <1>1, <1>2, <1>3, JournalType
<1>. QED
  BY <1>1, <1>2, <1>3, <1>4 DEF Sane

\* Marking an existing journal as existing changes nothing; a new one is empty.
LEMMA OpenedJournal ==
    ASSUME NEW j \in Journals, Sane(j)
    PROVE  [j EXCEPT !.exists = TRUE] = IF j.exists THEN j ELSE Truncated
<1>1. CASE j.exists
  <2>1. j = [exists |-> j.exists, hot |-> j.hot, orig |-> j.orig, img |-> j.img]
    BY DEF Journals
  <2>2. j.exists = TRUE
    BY <1>1 DEF Journals
  <2>. QED
    BY <1>1, <2>1, <2>2
<1>2. CASE ~j.exists
  BY <1>2 DEF Sane, Gone, Truncated
<1>. QED
  BY <1>1, <1>2

-----------------------------------------------------------------------------
(* What the operations on the files do to their types *)

LEMMA WriteCachedInv ==
    ASSUME FileInv, NEW p \in Pages, NEW v \in Contents, WriteCached(p, v), UNCHANGED journal
    PROVE  FileInv'
<1>1. Torn \in Contents /\ cache \in [Pages -> Contents] /\ disk \in [Pages -> SUBSET Contents]
  BY DEF FileInv, FileTypes, Contents
<1>2. cache' \in [Pages -> Contents] /\ disk' \in [Pages -> SUBSET Contents]
  BY <1>1 DEF WriteCached
<1>3. \A r \in Pages : cache'[r] \in disk'[r]
  BY <1>1 DEF WriteCached, FileInv, FilesOK
<1>. QED
  BY <1>2, <1>3 DEF journal, FileInv, FileTypes, FilesOK

LEMMA SyncCachedInv ==
    ASSUME FileInv, SyncCached, UNCHANGED journal
    PROVE  FileInv'
<1>1. cache \in [Pages -> Contents]
  BY DEF FileInv, FileTypes
<1>2. disk' \in [Pages -> SUBSET Contents] /\ \A r \in Pages : cache'[r] \in disk'[r]
  BY <1>1 DEF SyncCached
<1>. QED
  BY <1>2 DEF SyncCached, journal, FileInv, FileTypes, FilesOK

LEMMA WriteJournalInv ==
    ASSUME FileInv, NEW j \in Journals, Sane(j), j.exists, WriteJournal(j), UNCHANGED database
    PROVE  FileInv'
BY DEF WriteJournal, database, FileInv, FileTypes, FilesOK

LEMMA ThroughHandleInv ==
    ASSUME FileInv, NEW j \in Journals, jrn.exists => Sane(j) /\ j.exists, ThroughHandle(j),
           UNCHANGED database
    PROVE  FileInv'
<1>1. CASE jrn.exists
  BY <1>1, WriteJournalInv DEF ThroughHandle
<1>2. CASE ~jrn.exists
  BY <1>2 DEF ThroughHandle, journal, database, FileInv, FileTypes, FilesOK
<1>. QED
  BY <1>1, <1>2

LEMMA SyncJournalInv ==
    ASSUME FileInv, SyncJournalFile, UNCHANGED database
    PROVE  FileInv'
<1>1. ~jrn.exists => jrn = Gone
  BY DEF FileInv, FilesOK, Sane
<1>. QED
  BY <1>1 DEF SyncJournalFile, database, FileInv, FileTypes, FilesOK

LEMMA DeleteJournalInv ==
    ASSUME FileInv, DeleteJournal, UNCHANGED database
    PROVE  FileInv'
BY Fields DEF DeleteJournal, database, FileInv, FileTypes, FilesOK

LEMMA FilesUnchanged ==
    ASSUME FileInv, UNCHANGED <<database, journal>>
    PROVE  FileInv'
BY DEF database, journal, FileInv, FileTypes, FilesOK

LEMMA GhostsUnchanged ==
    ASSUME GhostInv, UNCHANGED <<ghosts, faults>>
    PROVE  GhostInv'
BY DEF ghosts, GhostInv, GhostTypes, GhostsOK

LEMMA FaultInv ==
    ASSUME GhostInv, Fault \/ UNCHANGED faults, UNCHANGED ghosts
    PROVE  GhostInv'
<1>1. faults' \in 0 .. MaxFaults
  BY BoundsAssumption DEF Fault, GhostInv, GhostTypes
<1>. QED
  BY <1>1 DEF ghosts, GhostInv, GhostTypes, GhostsOK

\* Beginning takes an allowed content for the committed one.
LEMMA ResolveInv ==
    ASSUME GhostInv, Resolve, Fault \/ UNCHANGED faults
    PROVE  GhostInv'
<1>1. faults' \in 0 .. MaxFaults
  BY BoundsAssumption DEF Fault, GhostInv, GhostTypes
<1>2. base' \in Committable
  <2>1. CASE \E b \in allowed : StandsFor(cache, b)
    <3>1. base' = CHOOSE b \in allowed : StandsFor(cache, b)
      BY <2>1 DEF Resolve
    <3>2. base' \in allowed
      BY <2>1, <3>1
    <3>. QED
      BY <3>2 DEF GhostInv, GhostsOK
  <2>2. CASE ~\E b \in allowed : StandsFor(cache, b)
    BY <2>2 DEF Resolve, GhostInv, GhostsOK
  <2>. QED
    BY <2>1, <2>2
<1>3. allowed' \subseteq allowed
  BY DEF Resolve
<1>. QED
  BY <1>1, <1>2, <1>3 DEF Resolve, GhostInv, GhostTypes, GhostsOK

-----------------------------------------------------------------------------
(* Types and files: the steps *)

\* A step of pager q that only moves it: where to, with which lock.
Moves(q, at, l) ==
    /\ pc' = [pc EXCEPT ![q] = at]
    /\ lock' = [lock EXCEPT ![q] = l]

\* The variables of q after a step are of their types and its loop is in bounds.
LocalStep(q) ==
    /\ pc' = [pc EXCEPT ![q] = pc'[q]] /\ pc'[q] \in Steps
    /\ lock' = [lock EXCEPT ![q] = lock'[q]] /\ lock'[q] \in Levels
    /\ pending' = [pending EXCEPT ![q] = pending'[q]] /\ pending'[q] \in BOOLEAN
    /\ wset' = [wset EXCEPT ![q] = wset'[q]] /\ wset'[q] \subseteq Pages
    /\ todo' = [todo EXCEPT ![q] = todo'[q]] /\ todo'[q] \subseteq Pages
    /\ from' = [from EXCEPT ![q] = from'[q]] /\ from'[q] \in {"open", "begin", "rollback"}
    /\ handle' = [handle EXCEPT ![q] = handle'[q]] /\ handle'[q] \in Journals
    /\ Fits(pc'[q], lock'[q])
    /\ pc'[q] = "replay" => todo'[q] \subseteq DOMAIN handle'[q].img
    /\ pc'[q] \in {"records", "pages"} => todo'[q] \subseteq wset'[q]
    /\ pc'[q] \in {"read", "write"} => ~pending'[q]

LEMMA LocalStepInv ==
    ASSUME LocalInv, NEW q \in Pagers, LocalStep(q)
    PROVE  LocalInv'
<1>1. /\ \A r \in Pagers : r = q \/ (pc'[r] = pc[r] /\ lock'[r] = lock[r]
                                      /\ pending'[r] = pending[r] /\ wset'[r] = wset[r]
                                      /\ todo'[r] = todo[r] /\ handle'[r] = handle[r])
      /\ pc' \in [Pagers -> Steps] /\ lock' \in [Pagers -> Levels]
      /\ wset' \in [Pagers -> SUBSET Pages] /\ todo' \in [Pagers -> SUBSET Pages]
      /\ from' \in [Pagers -> {"open", "begin", "rollback"}]
      /\ handle' \in [Pagers -> Journals]
  BY DEF LocalStep, LocalInv, LocalTypes
<1>2. pending' \in [Pagers -> BOOLEAN]
  BY DEF LocalStep, LocalInv, LocalTypes
<1>3. \A r \in Pagers : Fits(pc'[r], lock'[r])
  BY <1>1 DEF LocalStep, LocalInv, LocalTypes
<1>4. LoopsOK'
  BY <1>1 DEF LocalStep, LocalInv, LoopsOK
<1>. QED
  BY <1>1, <1>2, <1>3, <1>4 DEF LocalInv, LocalTypes

\* The end of a recovery, by who called it.
RecoveredFor(q, caller) ==
    /\ from[q] = caller
    /\ \/ caller = "open" /\ Moves(q, "idle", "none") /\ UNCHANGED <<pending, ghosts>>
       \/ /\ caller = "begin" /\ Moves(q, "read", "shared")
          /\ pending' = [pending EXCEPT ![q] = FALSE] /\ Resolve
       \/ /\ caller = "rollback" /\ Moves(q, "unlocked", "none")
          /\ pending' = [pending EXCEPT ![q] = FALSE] /\ allowed' = {base}
          /\ UNCHANGED <<base, next, commits, guarded>>

LEMMA RecoveredCases ==
    ASSUME NEW q \in Pagers, from[q] \in {"open", "begin", "rollback"}, Recovered(q)
    PROVE  /\ \E caller \in {"open", "begin", "rollback"} : RecoveredFor(q, caller)
           /\ (DeleteJournal /\ UNCHANGED faults) \/ (Fault /\ UNCHANGED journal)
           /\ pc[q] = "clean" /\ handle' = [handle EXCEPT ![q] = Gone]
           /\ UNCHANGED <<wset, todo, from, database>>
<1>0. /\ (DeleteJournal /\ UNCHANGED faults) \/ (Fault /\ UNCHANGED journal)
      /\ pc[q] = "clean" /\ handle' = [handle EXCEPT ![q] = Gone]
      /\ UNCHANGED <<wset, todo, from, database>>
  BY DEF Recovered
<1>1. CASE from[q] = "open"
  <2>1. RecoveredFor(q, "open")
    BY <1>1 DEF Recovered, RecoveredFor, Moves, Goto, SetLock
  <2>. QED
    BY <1>0, <2>1
<1>2. CASE from[q] = "begin"
  <2>1. RecoveredFor(q, "begin")
    BY <1>2 DEF Recovered, RecoveredFor, Moves, Goto, SetLock
  <2>. QED
    BY <1>0, <2>1
<1>3. CASE from[q] = "rollback"
  <2>1. RecoveredFor(q, "rollback")
    BY <1>3 DEF Recovered, RecoveredFor, Moves, Goto, SetLock
  <2>. QED
    BY <1>0, <2>1
<1>. QED
  BY <1>1, <1>2, <1>3

\* The steps of a pager other than its crash.
PagerStep(q) ==
    \/ Open(q) \/ OpenHot(q) \/ Begin(q) \/ BeginHot(q) \/ BeginRecovery(q)
    \/ BeginVanished(q) \/ BeginBusy(q) \/ EnsureWriter(q) \/ EndRead(q)
    \/ StartCommit(q) \/ Retry(q) \/ WriteHeader(q) \/ WriteRecord(q)
    \/ SyncRecords(q) \/ WritePage(q) \/ SyncDatabase(q) \/ Invalidate(q)
    \/ InvalidateFails(q) \/ Committed(q) \/ CommitFails(q)
    \/ WriteBack(q) \/ SyncRestored(q) \/ CutDatabase(q) \/ RetireJournal(q)
    \/ NothingToReplay(q) \/ Recovered(q) \/ ReplayFails(q)
    \/ RollbackFailed(q) \/ Rollback(q) \/ LateDelete(q) \/ DropTransaction(q)

\* Every step of a pager keeps its own variables in order.
LEMMA LocalSteps ==
    ASSUME LocalInv, FileInv, NEW q \in Pagers
    PROVE  PagerStep(q) => LocalStep(q)
<1>. USE DEF Goto, SetLock, CommitSteps, ReplaySteps
<1>0. /\ pc \in [Pagers -> Steps] /\ lock \in [Pagers -> Levels]
      /\ pending \in [Pagers -> BOOLEAN]
      /\ wset \in [Pagers -> SUBSET Pages] /\ todo \in [Pagers -> SUBSET Pages]
      /\ from \in [Pagers -> {"open", "begin", "rollback"}]
      /\ handle \in [Pagers -> Journals] /\ Fits(pc[q], lock[q])
      /\ pc[q] = "replay" => todo[q] \subseteq DOMAIN handle[q].img
      /\ pc[q] \in {"records", "pages"} => todo[q] \subseteq wset[q]
      /\ pc[q] \in {"read", "write"} => ~pending[q]
      /\ jrn \in Journals /\ DOMAIN jrn.img \subseteq Pages
  BY ImageTypes DEF LocalInv, LocalTypes, LoopsOK, FileInv, FileTypes
<1>1. CASE Open(q)
  BY <1>0, <1>1, Fields DEF Open, LocalStep, Fits, Steps, Levels
<1>2. CASE OpenHot(q)
  BY <1>0, <1>2, Fields DEF OpenHot, StartReplay, LocalStep, Fits, Steps, Levels
<1>3. CASE Begin(q)
  BY <1>0, <1>3, Fields DEF Begin, LocalStep, Fits, Steps, Levels
<1>4. CASE BeginHot(q)
  BY <1>0, <1>4, Fields DEF BeginHot, LocalStep, Fits, Steps, Levels
<1>5. CASE BeginRecovery(q)
  BY <1>0, <1>5, Fields DEF BeginRecovery, StartReplay, LocalStep, Fits, Steps, Levels
<1>6. CASE BeginVanished(q)
  BY <1>0, <1>6, Fields DEF BeginVanished, LocalStep, Fits, Steps, Levels
<1>7. CASE BeginBusy(q)
  BY <1>0, <1>7, Fields DEF BeginBusy, LocalStep, Fits, Steps, Levels
<1>8. CASE EnsureWriter(q)
  BY <1>0, <1>8, Fields DEF EnsureWriter, LocalStep, Fits, Steps, Levels
<1>9. CASE EndRead(q)
  BY <1>0, <1>9, Fields DEF EndRead, LocalStep, Fits, Steps, Levels
<1>10. CASE StartCommit(q)
  BY <1>0, <1>10, Fields DEF StartCommit, LocalStep, Fits, Steps, Levels
<1>11. CASE Retry(q)
  BY <1>0, <1>11, Fields DEF Retry, LocalStep, Fits, Steps, Levels
<1>12. CASE WriteHeader(q)
  BY <1>0, <1>12, Fields DEF WriteHeader, LocalStep, Fits, Steps, Levels
<1>13. CASE WriteRecord(q)
  BY <1>0, <1>13, Fields DEF WriteRecord, LocalStep, Fits, Steps, Levels
<1>14. CASE SyncRecords(q)
  BY <1>0, <1>14, Fields DEF SyncRecords, LocalStep, Fits, Steps, Levels
<1>15. CASE WritePage(q)
  BY <1>0, <1>15, Fields DEF WritePage, LocalStep, Fits, Steps, Levels
<1>16. CASE SyncDatabase(q)
  BY <1>0, <1>16, Fields DEF SyncDatabase, LocalStep, Fits, Steps, Levels
<1>17. CASE Invalidate(q)
  BY <1>0, <1>17, Fields DEF Invalidate, LocalStep, Fits, Steps, Levels
<1>18. CASE InvalidateFails(q)
  BY <1>0, <1>18, Fields DEF InvalidateFails, LocalStep, Fits, Steps, Levels
<1>19. CASE Committed(q)
  BY <1>0, <1>19, Fields DEF Committed, LocalStep, Fits, Steps, Levels
<1>20. CASE CommitFails(q)
  BY <1>0, <1>20, Fields DEF CommitFails, LocalStep, Fits, Steps, Levels
<1>21. CASE WriteBack(q)
  BY <1>0, <1>21, Fields DEF WriteBack, LocalStep, Fits, Steps, Levels
<1>22. CASE SyncRestored(q)
  BY <1>0, <1>22, Fields DEF SyncRestored, LocalStep, Fits, Steps, Levels
<1>23. CASE CutDatabase(q)
  BY <1>0, <1>23, Fields DEF CutDatabase, LocalStep, Fits, Steps, Levels
<1>24. CASE RetireJournal(q)
  BY <1>0, <1>24, Fields DEF RetireJournal, LocalStep, Fits, Steps, Levels
<1>25. CASE NothingToReplay(q)
  BY <1>0, <1>25, Fields DEF NothingToReplay, LocalStep, Fits, Steps, Levels
<1>26. CASE Recovered(q)
  <2>1. /\ \E caller \in {"open", "begin", "rollback"} : RecoveredFor(q, caller)
        /\ handle' = [handle EXCEPT ![q] = Gone]
        /\ UNCHANGED <<wset, todo, from>>
    BY <1>0, <1>26, RecoveredCases
  <2>2. pending' = [pending EXCEPT ![q] = FALSE] \/ UNCHANGED pending
    BY <2>1 DEF RecoveredFor
  <2>3. pending' = [pending EXCEPT ![q] = pending'[q]] /\ pending'[q] \in BOOLEAN
    BY <1>0, <2>2
  <2>4. /\ pc' = [pc EXCEPT ![q] = pc'[q]] /\ pc'[q] \in {"idle", "read", "unlocked"}
        /\ lock' = [lock EXCEPT ![q] = lock'[q]]
        /\ lock'[q] = IF pc'[q] = "read" THEN "shared" ELSE "none"
        /\ pc'[q] = "read" => pending' = [pending EXCEPT ![q] = FALSE]
    BY <1>0, <2>1 DEF RecoveredFor, Moves
  <2>5. pc'[q] = "read" => ~pending'[q]
    BY <1>0, <2>4
  <2>. QED
    BY <1>0, <2>1, <2>3, <2>4, <2>5, Fields DEF LocalStep, Fits, Steps, Levels
<1>27. CASE ReplayFails(q)
  <2>1. CASE from[q] = "open"
    BY <1>0, <1>27, <2>1, Fields DEF ReplayFails, LocalStep, Fits, Steps, Levels
  <2>2. CASE from[q] = "begin"
    BY <1>0, <1>27, <2>2, Fields DEF ReplayFails, LocalStep, Fits, Steps, Levels
  <2>3. CASE from[q] = "rollback"
    BY <1>0, <1>27, <2>3, Fields DEF ReplayFails, LocalStep, Fits, Steps, Levels
  <2>. QED
    BY <1>0, <2>1, <2>2, <2>3
<1>28. CASE RollbackFailed(q)
  BY <1>0, <1>28, Fields DEF RollbackFailed, StartReplay, LocalStep, Fits, Steps, Levels
<1>29. CASE Rollback(q)
  BY <1>0, <1>29, Fields DEF Rollback, LocalStep, Fits, Steps, Levels
<1>30. CASE LateDelete(q)
  BY <1>0, <1>30, Fields DEF LateDelete, LocalStep, Fits, Steps, Levels
<1>31. CASE DropTransaction(q)
  BY <1>0, <1>31, Fields DEF DropTransaction, LocalStep, Fits, Steps, Levels
<1>. QED
  BY <1>1, <1>2, <1>3, <1>4, <1>5, <1>6, <1>7, <1>8, <1>9, <1>10, <1>11, <1>12, <1>13, <1>14, <1>15, <1>16, <1>17, <1>18, <1>19, <1>20, <1>21, <1>22, <1>23, <1>24, <1>25, <1>26, <1>27, <1>28, <1>29, <1>30, <1>31 DEF PagerStep

\* The journal with its header written ...
HeaderOf(j, O) == [j EXCEPT !.hot = TRUE, !.orig = O]

LEMMA HeaderFields ==
    ASSUME NEW j \in Journals, NEW O \in SUBSET Pages
    PROVE  /\ HeaderOf(j, O) \in Journals
           /\ HeaderOf(j, O).exists = j.exists /\ HeaderOf(j, O).hot
           /\ HeaderOf(j, O).orig = O /\ HeaderOf(j, O).img = j.img
<1>1. PICK ps \in SUBSET Pages : j.img \in [ps -> Contents]
  BY DEF Journals
<1>2. ASSUME NEW t \in BOOLEAN
      PROVE  LET h == [j EXCEPT !.hot = t, !.orig = O]
             IN  h \in Journals /\ h.exists = j.exists /\ h.hot = t /\ h.orig = O /\ h.img = j.img
  BY DEF Journals
<1>3. TRUE \in BOOLEAN
  OBVIOUS
<1>. QED
  BY <1>2, <1>3, Zenon DEF HeaderOf

\* ... and with the image of one more page.
RecordOf(j, p, v) ==
    [j EXCEPT !.img = [r \in DOMAIN @ \cup {p} |-> IF r = p THEN v ELSE @[r]]]

HasRecord(k, j, p, v) ==
    /\ (j.exists => k.exists) /\ (j.hot => k.hot) /\ k.orig = j.orig
    /\ DOMAIN k.img = DOMAIN j.img \cup {p}
    /\ \A r \in DOMAIN j.img \cup {p} : k.img[r] = IF r = p THEN v ELSE j.img[r]

LEMMA RecordFields ==
    ASSUME NEW j \in Journals, NEW p \in Pages, NEW v \in Contents
    PROVE  RecordOf(j, p, v) \in Journals /\ HasRecord(RecordOf(j, p, v), j, p, v)
<1>. DEFINE D == DOMAIN j.img \cup {p}
            f == [r \in D |-> IF r = p THEN v ELSE j.img[r]]
<1>1. D \in SUBSET Pages /\ f \in [D -> Contents] /\ DOMAIN f = D
  BY ImageTypes
<1>2. \A r \in D : f[r] = IF r = p THEN v ELSE j.img[r]
  OBVIOUS
<1>3. RecordOf(j, p, v) = [j EXCEPT !.img = f]
  BY DEF RecordOf
<1>. HIDE DEF f, D
<1>4. f \in UNION {[ps -> Contents] : ps \in SUBSET Pages}
  BY <1>1
<1>5. /\ RecordOf(j, p, v) \in Journals
      /\ RecordOf(j, p, v).exists = j.exists /\ RecordOf(j, p, v).hot = j.hot
      /\ RecordOf(j, p, v).orig = j.orig /\ RecordOf(j, p, v).img = f
  BY <1>3, <1>4 DEF Journals
<1>. QED
  BY <1>1, <1>2, <1>5 DEF D, HasRecord

\* The pre-image of a page is a content.
LEMMA PreImageType ==
    ASSUME FileInv, NEW p \in Pages
    PROVE  PreImage(p) \in Contents
BY DEF PreImage, FileInv, FileTypes, Contents

\* Every step of a pager leaves the files in order.
LEMMA FileSteps ==
    ASSUME LocalInv, FileInv, GhostInv, NEW q \in Pagers, PagerStep(q)
    PROVE  FileInv'
<1>1. /\ jrn \in Journals /\ Sane(jrn) /\ handle[q] \in Journals
      /\ pc[q] = "replay" => todo[q] \subseteq DOMAIN handle[q].img
      /\ wset[q] \subseteq Pages /\ todo[q] \subseteq Pages /\ next \in [Pages -> Contents]
      /\ from[q] \in {"open", "begin", "rollback"}
  <2>1. Committable \subseteq [Pages -> Contents]
    BY DEF Committable, Contents
  <2>. QED
    BY <2>1 DEF LocalInv, LocalTypes, LoopsOK, FileInv, FileTypes, FilesOK, GhostInv, GhostsOK
<1>2. CASE UNCHANGED <<database, journal>>
  BY <1>2, FilesUnchanged
<1>3. CASE Open(q) \/ OpenHot(q) \/ Begin(q) \/ BeginHot(q) \/ BeginRecovery(q)
           \/ BeginVanished(q) \/ BeginBusy(q) \/ EnsureWriter(q) \/ EndRead(q)
  BY <1>2, <1>3 DEF Open, OpenHot, Begin, BeginHot, BeginRecovery, BeginVanished, BeginBusy,
                    EnsureWriter, EndRead
<1>4. CASE InvalidateFails(q) \/ CommitFails(q) \/ NothingToReplay(q) \/ ReplayFails(q)
           \/ RollbackFailed(q) \/ Rollback(q) \/ DropTransaction(q)
  BY <1>2, <1>4 DEF InvalidateFails, CommitFails, NothingToReplay, ReplayFails, RollbackFailed,
                    Rollback, DropTransaction
<1>5. CASE StartCommit(q) \/ Retry(q)
  <2>1. WriteJournal([jrn EXCEPT !.exists = TRUE]) /\ UNCHANGED database
    BY <1>5 DEF StartCommit, Retry
  <2>2. PICK j \in Journals : j = [jrn EXCEPT !.exists = TRUE] /\ Sane(j) /\ j.exists
    BY <1>1, OpenedJournal, Fields
  <2>. QED
    BY <2>1, <2>2, WriteJournalInv
<1>6. CASE WriteHeader(q)
  <2>. DEFINE O == {p \in Pages : cache[p] # Absent}
  <2>1. ThroughHandle(HeaderOf(jrn, O)) /\ UNCHANGED database
    BY <1>6 DEF WriteHeader, HeaderOf
  <2>2. O \in SUBSET Pages
    OBVIOUS
  <2>. HIDE DEF O
  <2>3. /\ HeaderOf(jrn, O) \in Journals
        /\ jrn.exists => Sane(HeaderOf(jrn, O)) /\ HeaderOf(jrn, O).exists
    BY <1>1, <2>2, HeaderFields DEF Sane
  <2>. QED
    BY <2>1, <2>3, ThroughHandleInv
<1>7. CASE WriteRecord(q)
  <2>1. PICK p \in todo[q] : ThroughHandle(RecordOf(jrn, p, PreImage(p)))
    BY <1>7 DEF WriteRecord, RecordOf
  <2>2. PICK v \in Contents : v = PreImage(p)
    BY <1>1, PreImageType
  <2>3. p \in Pages
    BY <1>1
  <2>4. RecordOf(jrn, p, v) \in Journals /\ (jrn.exists => RecordOf(jrn, p, v).exists)
    BY <1>1, <2>3, RecordFields DEF HasRecord
  <2>5. UNCHANGED database
    BY <1>7 DEF WriteRecord
  <2>6. jrn.exists => Sane(RecordOf(jrn, p, v)) /\ RecordOf(jrn, p, v).exists
    BY <2>4 DEF Sane
  <2>. QED
    BY <2>1, <2>2, <2>4, <2>5, <2>6, ThroughHandleInv
<1>8. CASE SyncRecords(q)
  BY <1>8, SyncJournalInv DEF SyncRecords
<1>9. CASE WritePage(q)
  <2>1. PICK p \in todo[q] : WriteCached(p, next[p]) /\ UNCHANGED journal
    BY <1>9 DEF WritePage
  <2>2. p \in Pages /\ next[p] \in Contents
    BY <1>1
  <2>. QED
    BY <2>1, <2>2, WriteCachedInv
<1>10. CASE SyncDatabase(q)
  BY <1>10, SyncCachedInv DEF SyncDatabase
<1>11. CASE Invalidate(q)
  BY <1>11, Fields, ThroughHandleInv, SyncJournalInv DEF Invalidate
<1>12. CASE Committed(q)
  BY <1>2, <1>12, DeleteJournalInv DEF Committed
<1>13. CASE WriteBack(q)
  <2>1. PICK p \in todo[q] : WriteCached(p, handle[q].img[p])
    BY <1>13 DEF WriteBack
  <2>2. p \in Pages /\ p \in DOMAIN handle[q].img
    BY <1>1, <1>13 DEF WriteBack
  <2>3. handle[q].img[p] \in Contents
    BY <1>1, <2>2, ImageTypes
  <2>4. UNCHANGED journal
    BY <1>13 DEF WriteBack
  <2>. QED
    BY <2>1, <2>2, <2>3, <2>4, WriteCachedInv
<1>14. CASE SyncRestored(q)
  BY <1>14, SyncCachedInv DEF SyncRestored
<1>15. CASE CutDatabase(q)
  <2>1. CASE pc[q] = "cut"
    <3>1. /\ cache' = [p \in Pages |-> IF p \in Beyond(q) THEN Absent ELSE cache[p]]
          /\ disk' = [p \in Pages |-> IF p \in Beyond(q) THEN disk[p] \cup {Absent} ELSE disk[p]]
          /\ UNCHANGED journal
      BY <1>15, <2>1 DEF CutDatabase
    <3>2. Absent \in Contents
      BY DEF Contents
    <3>3. cache' \in [Pages -> Contents] /\ disk' \in [Pages -> SUBSET Contents]
      BY <3>1, <3>2 DEF FileInv, FileTypes
    <3>4. \A p \in Pages : cache'[p] \in disk'[p]
      BY <3>1 DEF FileInv, FilesOK
    <3>. QED
      BY <3>1, <3>3, <3>4 DEF journal, FileInv, FileTypes, FilesOK
  <2>2. CASE pc[q] # "cut"
    BY <1>15, <2>2, SyncCachedInv DEF CutDatabase
  <2>. QED
    BY <2>1, <2>2
<1>16. CASE RetireJournal(q)
  BY <1>16, Fields, ThroughHandleInv, SyncJournalInv DEF RetireJournal
<1>17. CASE Recovered(q)
  BY <1>1, <1>2, <1>17, RecoveredCases, DeleteJournalInv
<1>18. CASE LateDelete(q)
  BY <1>2, <1>18, DeleteJournalInv DEF LateDelete
<1>. QED
  BY <1>3, <1>4, <1>5, <1>6, <1>7, <1>8, <1>9, <1>10, <1>11, <1>12, <1>13, <1>14, <1>15,
     <1>16, <1>17, <1>18 DEF PagerStep

\* Every step of a pager leaves the ghosts in order.
LEMMA GhostSteps ==
    ASSUME LocalInv, GhostInv, NEW q \in Pagers, PagerStep(q)
    PROVE  GhostInv'
<1>1. /\ wset[q] \subseteq Pages /\ from[q] \in {"open", "begin", "rollback"}
      /\ guarded \in BOOLEAN
  BY DEF LocalInv, LocalTypes, GhostInv, GhostTypes
<1>2. CASE UNCHANGED ghosts /\ (Fault \/ UNCHANGED faults)
  BY <1>2, FaultInv
<1>3. ASSUME guarded' \in BOOLEAN, Fault \/ UNCHANGED faults,
             UNCHANGED <<base, next, allowed, commits>>
      PROVE  GhostInv'
  <2>1. faults' \in 0 .. MaxFaults
    BY <1>3, BoundsAssumption DEF Fault, GhostInv, GhostTypes
  <2>. QED
    BY <1>3, <2>1 DEF GhostInv, GhostTypes, GhostsOK
<1>4. CASE Open(q) \/ OpenHot(q) \/ BeginHot(q) \/ BeginRecovery(q) \/ BeginBusy(q)
           \/ EnsureWriter(q) \/ EndRead(q) \/ Retry(q) \/ WriteRecord(q) \/ SyncRecords(q)
           \/ WritePage(q) \/ SyncDatabase(q) \/ Invalidate(q) \/ InvalidateFails(q)
           \/ CommitFails(q)
  BY <1>2, <1>4 DEF Open, OpenHot, BeginHot, BeginRecovery, BeginBusy, EnsureWriter, EndRead,
                    Retry, WriteRecord, SyncRecords, WritePage, SyncDatabase, Invalidate,
                    InvalidateFails, CommitFails
<1>5. CASE WriteBack(q) \/ SyncRestored(q) \/ CutDatabase(q) \/ RetireJournal(q)
           \/ ReplayFails(q) \/ RollbackFailed(q) \/ Rollback(q) \/ DropTransaction(q)
  BY <1>2, <1>5 DEF WriteBack, SyncRestored, CutDatabase, RetireJournal, ReplayFails,
                    RollbackFailed, Rollback, DropTransaction
<1>6. CASE Begin(q) \/ BeginVanished(q)
  BY <1>2, <1>6, ResolveInv DEF Begin, BeginVanished
<1>7. CASE StartCommit(q)
  <2>1. /\ commits < MaxCommits /\ commits' = commits + 1
        /\ next' = [p \in Pages |-> IF p \in wset[q] THEN commits + 1 ELSE base[p]]
        /\ allowed' = allowed \cup {next'} /\ UNCHANGED <<base, guarded, faults>>
    BY <1>7 DEF StartCommit
  <2>2. commits + 1 \in 0 .. MaxCommits
    BY <2>1, BoundsAssumption DEF GhostInv, GhostTypes
  <2>3. next' \in Committable
    BY <2>1, <2>2 DEF GhostInv, GhostsOK, Committable, Versions
  <2>. QED
    BY <2>1, <2>2, <2>3 DEF GhostInv, GhostTypes, GhostsOK
<1>8. CASE WriteHeader(q)
  <2>1. guarded' \in BOOLEAN
    BY <1>1, <1>8, Zenon DEF WriteHeader
  <2>. QED
    BY <1>3, <1>8, <2>1 DEF WriteHeader
<1>9. CASE Committed(q)
  <2>1. /\ base' = next /\ allowed' = {next} /\ UNCHANGED <<next, commits, guarded>>
        /\ Fault \/ UNCHANGED faults
    BY <1>9 DEF Committed
  <2>2. faults' \in 0 .. MaxFaults
    BY <2>1, BoundsAssumption DEF Fault, GhostInv, GhostTypes
  <2>. QED
    BY <2>1, <2>2 DEF GhostInv, GhostTypes, GhostsOK
<1>10. CASE NothingToReplay(q)
  <2>1. CASE UNCHANGED <<faults, ghosts>>
    BY <1>2, <2>1
  <2>2. CASE /\ Fault /\ guarded' = (guarded /\ Dispensable(handle[q]))
             /\ UNCHANGED <<base, next, allowed, commits>>
    <3>1. guarded' \in BOOLEAN
      BY <1>1, <2>2, Zenon
    <3>. QED
      BY <1>3, <2>2, <3>1
  <2>. QED
    BY <1>10, <2>1, <2>2 DEF NothingToReplay
<1>11. CASE Recovered(q)
  <2>1. /\ \E caller \in {"open", "begin", "rollback"} : RecoveredFor(q, caller)
        /\ Fault \/ UNCHANGED faults
    BY <1>1, <1>11, RecoveredCases
  <2>2. CASE RecoveredFor(q, "open")
    BY <1>2, <2>1, <2>2 DEF RecoveredFor
  <2>3. CASE RecoveredFor(q, "begin")
    BY <2>1, <2>3, ResolveInv DEF RecoveredFor
  <2>4. CASE RecoveredFor(q, "rollback")
    <3>1. allowed' = {base} /\ UNCHANGED <<base, next, commits, guarded>>
      BY <2>4 DEF RecoveredFor
    <3>2. faults' \in 0 .. MaxFaults
      BY <2>1, BoundsAssumption DEF Fault, GhostInv, GhostTypes
    <3>. QED
      BY <3>1, <3>2 DEF GhostInv, GhostTypes, GhostsOK
  <2>. QED
    BY <2>1, <2>2, <2>3, <2>4
<1>12. CASE LateDelete(q)
  <2>1. guarded' \in BOOLEAN
    BY <1>1, <1>12, Zenon DEF LateDelete
  <2>. QED
    BY <1>3, <1>12, <2>1 DEF LateDelete
<1>. QED
  BY <1>4, <1>5, <1>6, <1>7, <1>8, <1>9, <1>10, <1>11, <1>12 DEF PagerStep

\* Pagers go down and leave locals in order.
LEMMA DownInv ==
    ASSUME LocalInv, NEW qs \in SUBSET Pagers, Down(qs)
    PROVE  LocalInv' /\ UNCHANGED ghosts
<1>1. /\ pc' = [q \in Pagers |-> IF q \in qs THEN "closed" ELSE pc[q]]
      /\ lock' = [q \in Pagers |-> IF q \in qs THEN "none" ELSE lock[q]]
      /\ wset' = [q \in Pagers |-> IF q \in qs THEN {} ELSE wset[q]]
      /\ todo' = [q \in Pagers |-> IF q \in qs THEN {} ELSE todo[q]]
      /\ handle' = [q \in Pagers |-> IF q \in qs THEN Gone ELSE handle[q]]
      /\ UNCHANGED <<from, ghosts>>
  BY DEF Down
<1>2. pending' = [q \in Pagers |-> pending[q] /\ q \notin qs]
  BY DEF Down
<1>3. pending' \in [Pagers -> BOOLEAN] /\ \A q \in Pagers : pending'[q] => pending[q]
  BY <1>2
<1>4. /\ pc' \in [Pagers -> Steps] /\ lock' \in [Pagers -> Levels]
      /\ wset' \in [Pagers -> SUBSET Pages] /\ todo' \in [Pagers -> SUBSET Pages]
      /\ handle' \in [Pagers -> Journals]
  BY <1>1, Fields DEF LocalInv, LocalTypes, Steps, Levels
<1>5. \A q \in Pagers : Fits(pc'[q], lock'[q])
  BY <1>1 DEF LocalInv, LocalTypes, Fits, CommitSteps, ReplaySteps
<1>6. LoopsOK'
  BY <1>1, <1>3 DEF LocalInv, LoopsOK
<1>. QED
  BY <1>1, <1>3, <1>4, <1>5, <1>6 DEF LocalInv, LocalTypes

\* A power loss leaves one of the images of each file.
LEMMA PowerLossFiles ==
    ASSUME FileInv, PowerLoss
    PROVE  /\ FileInv' /\ jrn' \in jdisk /\ jdisk' = {jrn'}
           /\ \A p \in Pages : disk'[p] \subseteq disk[p]
<1>1. /\ cache' \in DiskImages /\ disk' = [p \in Pages |-> {cache'[p]}]
      /\ jrn' \in jdisk /\ jdisk' = {jrn'}
  BY DEF PowerLoss
<1>2. \A p \in Pages : cache'[p] \in disk[p]
  BY <1>1 DEF DiskImages
<1>3. cache' \in [Pages -> Contents] /\ disk' \in [Pages -> SUBSET Contents]
  BY <1>1, <1>2 DEF DiskImages, FileInv, FileTypes
<1>4. ~jrn'.exists => jrn' = Gone
  BY <1>1 DEF FileInv, FilesOK, Sane
<1>5. FileInv'
  BY <1>1, <1>3, <1>4 DEF FileInv, FileTypes, FilesOK
<1>. QED
  BY <1>1, <1>2, <1>5

LEMMA InitBInv == Init => BInv
<1>. SUFFICES ASSUME Init PROVE BInv
  OBVIOUS
<1>1. LocalInv
  BY Fields DEF Init, LocalInv, LocalTypes, LoopsOK, Fits, Steps, Levels, CommitSteps, ReplaySteps
<1>2. base \in Committable /\ Committable \subseteq [Pages -> Contents]
  BY BoundsAssumption DEF Init, Committable, Contents, Versions
<1>3. FileInv
  BY <1>2, Fields DEF Init, FileInv, FileTypes, FilesOK
<1>4. GhostInv
  BY <1>2, BoundsAssumption DEF Init, GhostInv, GhostTypes, GhostsOK
<1>. QED
  BY <1>1, <1>3, <1>4, TypeParts

LEMMA NextSplit ==
    ASSUME Next
    PROVE  PowerLoss \/ \E q \in Pagers : PagerStep(q) \/ Crash(q)
BY DEF Next, PagerStep

LEMMA NextBInv == BInv /\ [Next]_vars => BInv'
<1>. SUFFICES ASSUME LocalInv, FileInv, GhostInv, [Next]_vars
              PROVE  LocalInv' /\ FileInv' /\ GhostInv'
  <2>1. BInv' <=> LocalInv' /\ FileInv' /\ GhostInv'
    BY TypeParts, PTL
  <2>. QED
    BY <2>1, TypeParts
<1>1. ASSUME NEW q \in Pagers, PagerStep(q)
      PROVE  LocalInv' /\ FileInv' /\ GhostInv'
  BY <1>1, LocalSteps, LocalStepInv, FileSteps, GhostSteps
<1>2. ASSUME NEW q \in Pagers, Crash(q)
      PROVE  LocalInv' /\ FileInv' /\ GhostInv'
  <2>1. PICK qs \in SUBSET Pagers : Down(qs)
    BY <1>2 DEF Crash
  <2>2. Fault /\ UNCHANGED <<database, journal>>
    BY <1>2 DEF Crash
  <2>. QED
    BY <2>1, <2>2, DownInv, FilesUnchanged, FaultInv
<1>3. CASE PowerLoss
  <2>1. Down(Pagers) /\ Fault
    BY <1>3 DEF PowerLoss
  <2>. QED
    BY <1>3, <2>1, DownInv, PowerLossFiles, FaultInv
<1>4. CASE UNCHANGED vars
  <2>1. LocalInv'
    BY <1>4 DEF vars, locals, LocalInv, LocalTypes, LoopsOK
  <2>. QED
    BY <1>4, <2>1, FilesUnchanged, GhostsUnchanged DEF vars
<1>. QED
  BY <1>1, <1>2, <1>3, <1>4, NextSplit

-----------------------------------------------------------------------------
(* What journals give *)

LEMMA AbsentIsNoVersion == Absent \notin Versions /\ Torn \notin Versions /\ Zeroed \notin Versions
BY BoundsAssumption DEF Absent, Torn, Zeroed, Versions

\* A page content stands for one committed content only ...
LEMMA MatchUnique ==
    ASSUME NEW x \in Versions \cup {Absent}, NEW y \in Versions \cup {Absent}, NEW v,
           Matches(v, x), Matches(v, y)
    PROVE  x = y
BY AbsentIsNoVersion DEF Matches

\* ... and so does a file.
LEMMA StandsUnique ==
    ASSUME NEW b \in Committable, NEW c \in Committable, NEW o,
           StandsFor(o, b), StandsFor(o, c)
    PROVE  b = c
<1>1. ASSUME NEW p \in Pages
      PROVE  b[p] = c[p]
  <2>1. b[p] \in Versions \cup {Absent} /\ c[p] \in Versions \cup {Absent}
    BY DEF Committable
  <2>2. Matches(o[p], b[p]) /\ Matches(o[p], c[p])
    BY DEF StandsFor, Matches
  <2>. QED
    BY <2>1, <2>2, MatchUnique
<1>. QED
  BY <1>1 DEF Committable

\* The file that recovery makes of image i when it finds journal j.
Image(j, i) == [p \in Pages |-> Restored(j, p, i[p])]

LEMMA ImageStands ==
    ASSUME NEW j \in Journals, NEW d, NEW b, Gives(j, d, b), NEW i, \A p \in Pages : i[p] \in d[p]
    PROVE  StandsFor(Image(j, i), b)
<1>. SUFFICES ASSUME NEW p \in Pages PROVE Matches(Restored(j, p, i[p]), b[p])
  BY DEF StandsFor, Matches, Image
<1>1. i[p] \in d[p] /\ j.hot \in BOOLEAN /\ j.orig \subseteq Pages
  BY ImageTypes
<1>2. CASE ~j.hot
  <2>1. Restored(j, p, i[p]) = i[p]
    BY <1>2 DEF Restored
  <2>2. Matches(i[p], b[p])
    BY <1>1, <1>2 DEF Gives, Plain
  <2>. QED
    BY <2>1, <2>2
<1>3. CASE j.hot /\ p \notin j.orig
  <2>1. Restored(j, p, i[p]) = Absent
    BY <1>3 DEF Restored
  <2>2. b[p] = Absent
    BY <1>3 DEF Gives, Undo
  <2>. QED
    BY <2>1, <2>2, AbsentIsNoVersion DEF Matches
<1>4. CASE j.hot /\ p \in j.orig
  <2>1. Restored(j, p, i[p]) = IF p \in DOMAIN j.img THEN j.img[p] ELSE i[p]
    BY <1>4 DEF Restored
  <2>2. CASE p \in DOMAIN j.img
    BY <1>4, <2>1, <2>2 DEF Gives, Undo
  <2>3. CASE p \notin DOMAIN j.img
    <3>1. Matches(i[p], b[p])
      BY <1>1, <1>4, <2>3 DEF Gives, Undo
    <3>. QED
      BY <2>1, <2>3, <3>1
  <2>. QED
    BY <2>2, <2>3
<1>. QED
  BY <1>1, <1>2, <1>3, <1>4

\* The file as processes see it is an image.
LEMMA CacheIsImage ==
    ASSUME FileInv
    PROVE  cache \in DiskImages /\ \A p \in Pages : cache[p] \in disk[p]
<1>1. \A p \in Pages : cache[p] \in disk[p]
  BY DEF FileInv, FilesOK
<1>2. \A p \in Pages : disk[p] \in Range(disk)
  BY DEF Range, FileInv, FileTypes
<1>3. cache \in [Pages -> UNION Range(disk)]
  BY <1>1, <1>2 DEF FileInv, FileTypes
<1>. QED
  BY <1>1, <1>3 DEF DiskImages

\* A journal gives one content only.
LEMMA GivesUnique ==
    ASSUME FileInv, NEW j \in Journals, NEW b \in Committable, NEW c \in Committable,
           Gives(j, disk, b), Gives(j, disk, c)
    PROVE  b = c
<1>1. \A p \in Pages : cache[p] \in disk[p]
  BY CacheIsImage
<1>2. StandsFor(Image(j, cache), b) /\ StandsFor(Image(j, cache), c)
  BY <1>1, ImageStands
<1>. QED
  BY <1>2, StandsUnique

LEMMA PlainUnique ==
    ASSUME FileInv, NEW b \in Committable, NEW c \in Committable, Plain(disk, b), Plain(disk, c)
    PROVE  b = c
<1>1. Gives(Gone, disk, b) /\ Gives(Gone, disk, c)
  BY Fields DEF Gives
<1>. QED
  BY <1>1, Fields, GivesUnique

\* A settled database file is the committed content, page by page.
LEMMA SettledPlain ==
    ASSUME FileInv, Settled
    PROVE  Plain(disk, base)
<1>. SUFFICES ASSUME NEW p \in Pages, NEW v \in disk[p] PROVE Matches(v, base[p])
  BY DEF Plain
<1>. DEFINE d == [cache EXCEPT ![p] = v]
<1>1. \A r \in Pages : disk[r] \in Range(disk) /\ cache[r] \in disk[r]
  BY CacheIsImage DEF Range, FileInv, FileTypes
<1>2. d \in [Pages -> UNION Range(disk)] /\ \A r \in Pages : d[r] \in disk[r]
  BY <1>1 DEF FileInv, FileTypes
<1>3. d \in DiskImages
  BY <1>2 DEF DiskImages
<1>4. d[p] = v
  BY DEF FileInv, FileTypes
<1>5. StandsFor(d, base)
  BY <1>3 DEF Settled
<1>. QED
  BY <1>4, <1>5 DEF StandsFor, Matches

\* What a journal gives does not change when images disappear ...
LEMMA Shrink ==
    ASSUME NEW d, NEW e, \A p \in Pages : e[p] \subseteq d[p], NEW b
    PROVE  /\ Plain(d, b) => Plain(e, b)
           /\ \A j \in Journals : /\ Undo(j, d, b) => Undo(j, e, b)
                                  /\ Gives(j, d, b) => Gives(j, e, b)
                                  /\ Counted(j, d, b) => Counted(j, e, b)
<1>1. Plain(d, b) => Plain(e, b)
  BY DEF Plain
<1>2. ASSUME NEW j \in Journals
      PROVE  /\ Undo(j, d, b) => Undo(j, e, b)
             /\ Counted(j, d, b) => Counted(j, e, b)
  <2>1. j.orig \subseteq Pages
    BY ImageTypes
  <2>. QED
    BY <2>1 DEF Undo, Counted
<1>. QED
  BY <1>1, <1>2 DEF Gives

\* ... nor by writes to pages that it restores or cuts off ...
LEMMA CoveredWrite ==
    ASSUME NEW j \in Journals, NEW d, NEW e, NEW b, Undo(j, d, b),
           \A p \in j.orig \ DOMAIN j.img : e[p] = d[p]
    PROVE  Undo(j, e, b)
BY DEF Undo

\* ... nor by writes that add nothing committed to a file that holds b.
HarmlessWrite(d, e, b) ==
    \A p \in Pages : e[p] = d[p] \/ (b[p] = Absent /\ \A v \in e[p] : v \notin Versions)

LEMMA HarmlessKeeps ==
    ASSUME NEW d, NEW e, NEW b \in Committable, Plain(d, b), HarmlessWrite(d, e, b),
           \A p \in Pages : d[p] # {}
    PROVE  /\ Plain(e, b)
           /\ \A c \in Committable, j \in Journals : Gives(j, d, c) => Gives(j, e, c)
<1>1. Plain(e, b)
  BY DEF Plain, HarmlessWrite, Matches
<1>2. ASSUME NEW c \in Committable, NEW p \in Pages, \A v \in d[p] : Matches(v, c[p])
      PROVE  \A v \in e[p] : Matches(v, c[p])
  <2>1. CASE e[p] = d[p]
    BY <1>2, <2>1
  <2>2. CASE b[p] = Absent /\ \A v \in e[p] : v \notin Versions
    <3>1. PICK v \in d[p] : TRUE
      OBVIOUS
    <3>2. Matches(v, b[p]) /\ Matches(v, c[p])
      BY <1>2 DEF Plain
    <3>3. b[p] \in Versions \cup {Absent} /\ c[p] \in Versions \cup {Absent}
      BY DEF Committable
    <3>4. c[p] = Absent
      BY <2>2, <3>2, <3>3, MatchUnique
    <3>. QED
      BY <2>2, <3>4 DEF Matches
  <2>. QED
    BY <2>1, <2>2 DEF HarmlessWrite
<1>3. ASSUME NEW c \in Committable, NEW j \in Journals, Gives(j, d, c)
      PROVE  Gives(j, e, c)
  <2>1. j.orig \subseteq Pages
    BY ImageTypes
  <2>2. CASE j.hot
    BY <1>2, <1>3, <2>1, <2>2 DEF Gives, Undo
  <2>3. CASE ~j.hot
    BY <1>2, <1>3, <2>3 DEF Gives, Plain
  <2>. QED
    BY <2>2, <2>3
<1>. QED
  BY <1>1, <1>3

\* A transaction that begins while the file holds b finds b.
LEMMA ResolveFinds ==
    ASSUME FileInv, GhostInv, JournalsRecover, NEW b \in allowed, Plain(disk, b),
           jrn.hot => Undo(jrn, disk, b), Resolve
    PROVE  /\ base' = b /\ b \in allowed' /\ allowed' \subseteq allowed
           /\ \A j \in jdisk : \E c \in allowed' : Gives(j, disk, c)
<1>1. /\ \A p \in Pages : cache[p] \in disk[p]
      /\ cache \in DiskImages /\ jdisk \subseteq Journals /\ jrn \in jdisk
      /\ allowed \subseteq Committable
  BY CacheIsImage DEF FileInv, FileTypes, FilesOK, GhostInv, GhostsOK
<1>2. StandsFor(cache, b)
  BY <1>1 DEF Plain, StandsFor, Matches
<1>3. base' = b
  <2>1. base' = CHOOSE c \in allowed : StandsFor(cache, c)
    BY <1>2 DEF Resolve
  <2>2. base' \in allowed /\ StandsFor(cache, base')
    BY <1>2, <2>1
  <2>. QED
    BY <1>1, <1>2, <2>2, StandsUnique
<1>4. ASSUME NEW j \in jdisk, NEW c \in allowed, Gives(j, disk, c)
      PROVE  c \in allowed'
  <2>1. StandsFor(Image(j, cache), c)
    BY <1>1, <1>4, ImageStands
  <2>2. Image(j, cache) \in Outcomes
    BY <1>1 DEF Outcomes, Image
  <2>. QED
    BY <2>1, <2>2 DEF Resolve
<1>5. Gives(jrn, disk, b)
  BY DEF Gives
<1>6. b \in allowed'
  BY <1>1, <1>4, <1>5
<1>7. \A j \in jdisk : \E c \in allowed' : Gives(j, disk, c)
  BY <1>4 DEF JournalsRecover
<1>8. allowed' \subseteq allowed
  BY DEF Resolve
<1>. QED
  BY <1>3, <1>6, <1>7, <1>8

-----------------------------------------------------------------------------
(* Locks *)

\* The locks of the others when a pager of its own process gets one.
LEMMA Granted ==
    ASSUME OneProcess = FALSE, NEW q \in Pagers, NEW level \in {"shared", "reserved", "exclusive"},
           LocalInv, CanLock(q, level), NEW r \in Pagers \ {q}
    PROVE  /\ level = "shared" => lock[r] # "exclusive"
           /\ level = "reserved" => lock[r] \in {"none", "shared"}
           /\ level = "exclusive" => lock[r] = "none"
<1>1. lock[r] \in Levels /\ lock[r] \notin Blocking[level]
  BY DEF CanLock, LocalInv, LocalTypes
<1>2. /\ Blocking["shared"] = {"exclusive"} /\ Blocking["reserved"] = {"reserved", "exclusive"}
      /\ Blocking["exclusive"] = {"reserved", "exclusive", "shared"}
  BY DEF Blocking
<1>. QED
  BY <1>1, <1>2 DEF Levels

\* The lock of q after a step that is granted by the others'.
LockStep(q) ==
    /\ lock' = [lock EXCEPT ![q] = lock'[q]]
    /\ \/ lock'[q] \in {"none", lock[q]}
       \/ lock'[q] = "shared" /\ \A r \in Pagers \ {q} : lock[r] # "exclusive"
       \/ lock'[q] = "reserved" /\ \A r \in Pagers \ {q} : lock[r] \in {"none", "shared"}
       \/ lock'[q] = "exclusive" /\ \A r \in Pagers \ {q} : lock[r] = "none"

LEMMA LockSteps ==
    ASSUME OneProcess = FALSE, LocalInv, LocksExclude, NEW q \in Pagers, PagerStep(q)
    PROVE  LockStep(q)
<1>1. lock \in [Pagers -> Levels] /\ Fits(pc[q], lock[q])
      /\ from[q] \in {"open", "begin", "rollback"}
  BY DEF LocalInv, LocalTypes
<1>2. CASE UNCHANGED lock
  BY <1>1, <1>2 DEF LockStep
<1>3. CASE SetLock(q, "none")
  BY <1>1, <1>3 DEF LockStep, SetLock
<1>4. CASE SetLock(q, "shared") /\ CanLock(q, "shared")
  BY <1>1, <1>4, Granted DEF LockStep, SetLock
<1>5. CASE SetLock(q, "reserved") /\ CanLock(q, "reserved")
  BY <1>1, <1>5, Granted DEF LockStep, SetLock
<1>6. CASE SetLock(q, "exclusive") /\ CanLock(q, "exclusive")
  BY <1>1, <1>6, Granted DEF LockStep, SetLock
<1>7. CASE Open(q) \/ OpenHot(q) \/ Begin(q) \/ BeginHot(q) \/ BeginRecovery(q)
           \/ BeginVanished(q) \/ BeginBusy(q) \/ EnsureWriter(q) \/ EndRead(q) \/ StartCommit(q)
  BY <1>2, <1>3, <1>4, <1>5, <1>6, <1>7
     DEF Open, OpenHot, Begin, BeginHot, BeginRecovery, BeginVanished, BeginBusy, EnsureWriter,
         EndRead, StartCommit
<1>8. CASE Retry(q) \/ WriteHeader(q) \/ WriteRecord(q) \/ SyncRecords(q) \/ WritePage(q)
           \/ SyncDatabase(q) \/ Invalidate(q) \/ InvalidateFails(q) \/ CommitFails(q)
           \/ WriteBack(q) \/ SyncRestored(q) \/ CutDatabase(q) \/ RetireJournal(q)
           \/ NothingToReplay(q) \/ RollbackFailed(q) \/ LateDelete(q)
  BY <1>2, <1>8
     DEF Retry, WriteHeader, WriteRecord, SyncRecords, WritePage, SyncDatabase, Invalidate,
         InvalidateFails, CommitFails, WriteBack, SyncRestored, CutDatabase, RetireJournal,
         NothingToReplay, RollbackFailed, LateDelete
<1>9. CASE Committed(q) \/ Rollback(q) \/ DropTransaction(q)
  BY <1>3, <1>9 DEF Committed, Rollback, DropTransaction
<1>10. CASE ReplayFails(q)
  BY <1>1, <1>2, <1>3, <1>10 DEF ReplayFails
<1>11. CASE Recovered(q)
  <2>1. /\ \E caller \in {"open", "begin", "rollback"} : RecoveredFor(q, caller)
        /\ pc[q] = "clean"
    BY <1>1, <1>11, RecoveredCases
  <2>2. \E l \in {"none", "shared"} : lock' = [lock EXCEPT ![q] = l]
    BY <2>1 DEF RecoveredFor, Moves
  <2>3. \A r \in Pagers \ {q} : lock[r] = "none"
    BY <1>1, <2>1 DEF Fits, ReplaySteps, LocksExclude
  <2>. QED
    BY <1>1, <2>2, <2>3 DEF LockStep
<1>. QED
  BY <1>7, <1>8, <1>9, <1>10, <1>11 DEF PagerStep

LEMMA NextLocks ==
    ASSUME OneProcess = FALSE, LocalInv, LocksExclude, [Next]_vars
    PROVE  LocksExclude'
<1>1. lock \in [Pagers -> Levels]
  BY DEF LocalInv, LocalTypes
<1>2. ASSUME NEW q \in Pagers, PagerStep(q)
      PROVE  LocksExclude'
  <2>1. LockStep(q)
    BY <1>2, LockSteps
  <2>2. \A r \in Pagers \ {q} : lock'[r] = lock[r]
    BY <1>1, <2>1 DEF LockStep
  <2>3. ASSUME NEW r \in Pagers \ {q}
        PROVE  /\ lock'[q] = "exclusive" => lock'[r] = "none"
               /\ lock'[q] = "reserved" => lock'[r] \in {"none", "shared"}
               /\ lock'[r] = "exclusive" => lock'[q] = "none"
               /\ lock'[r] = "reserved" => lock'[q] \in {"none", "shared"}
    BY <2>1, <2>2 DEF LockStep, LocksExclude
  <2>. QED
    BY <2>2, <2>3 DEF LocksExclude
<1>3. ASSUME NEW qs \in SUBSET Pagers, Down(qs)
      PROVE  LocksExclude'
  BY <1>1, <1>3 DEF Down, LocksExclude
<1>4. CASE UNCHANGED vars
  BY <1>4 DEF vars, locals, LocksExclude
<1>. QED
  BY <1>2, <1>3, <1>4, NextSplit DEF Crash, PowerLoss

-----------------------------------------------------------------------------
(* Recovery: frames *)

\* Nothing is said of a pager outside a transaction.
LEMMA QuietPager ==
    ASSUME NEW q, pc'[q] \in {"closed", "idle", "hot", "unlocked"}
    PROVE  PagerOK(q)'
BY DEF PagerOK, ReadOK, CommitOK, StepsOK, ReplayOK, CommitSteps, ReplaySteps

\* A step of q leaves the variables of the others alone.
LEMMA OthersKeep ==
    ASSUME LocalInv, NEW q \in Pagers, LocalStep(q), NEW r \in Pagers \ {q}
    PROVE  /\ pc'[r] = pc[r] /\ lock'[r] = lock[r] /\ pending'[r] = pending[r]
           /\ wset'[r] = wset[r] /\ todo'[r] = todo[r] /\ from'[r] = from[r]
           /\ handle'[r] = handle[r]
BY DEF LocalStep, LocalInv, LocalTypes

\* A step that changes neither file nor what is allowed.
LEMMA FrameStep ==
    ASSUME LocalInv, GInv, NEW q \in Pagers, LocalStep(q), PagerOK(q)',
           UNCHANGED <<database, journal, base, next, allowed>>
    PROVE  GInv'
<1>1. UNCHANGED <<cache, disk, jrn, jdisk, base, next, allowed>>
  BY DEF database, journal
<1>2. JournalsRecover' /\ HotIsSafe'
  BY <1>1 DEF GInv, JournalsRecover, HotIsSafe
<1>3. ASSUME NEW r \in Pagers \ {q}
      PROVE  PagerOK(r)'
  <2>1. /\ pc'[r] = pc[r] /\ pending'[r] = pending[r]
        /\ wset'[r] = wset[r] /\ todo'[r] = todo[r] /\ from'[r] = from[r]
        /\ handle'[r] = handle[r]
    BY <1>3, OthersKeep
  <2>2. PagerOK(r)
    BY DEF GInv
  <2>3. ReadOK(r)' /\ CommitOK(r)'
    BY <1>1, <2>1, <2>2 DEF PagerOK, ReadOK, CommitOK, NextOK
  <2>4. StepsOK(r)' /\ ReplayOK(r)'
    BY <1>1, <2>1, <2>2 DEF PagerOK, StepsOK, ReplayOK
  <2>. QED
    BY <2>3, <2>4 DEF PagerOK
<1>. QED
  BY <1>2, <1>3 DEF GInv

\* The holder of EXCLUSIVE is alone.
LEMMA Alone ==
    ASSUME LocalInv, LocksExclude, NEW q \in Pagers,
           pc[q] \in CommitSteps \cup ReplaySteps \cup {"failed"}
    PROVE  \A r \in Pagers \ {q} : lock[r] = "none"
BY DEF LocalInv, LocalTypes, Fits, LocksExclude

\* A step of a pager while the others hold no lock.
LEMMA AloneStep ==
    ASSUME LocalInv, NEW q \in Pagers, LocalStep(q), \A r \in Pagers \ {q} : lock[r] = "none",
           PagerOK(q)', JournalsRecover', HotIsSafe'
    PROVE  GInv'
<1>1. ASSUME NEW r \in Pagers \ {q}
      PROVE  PagerOK(r)'
  <2>1. lock[r] = "none" /\ Fits(pc[r], lock[r]) /\ pc'[r] = pc[r]
    BY <1>1, OthersKeep DEF LocalInv, LocalTypes
  <2>2. pc'[r] \in {"closed", "idle", "hot", "unlocked"}
    BY <2>1 DEF Fits
  <2>. QED
    BY <2>2, QuietPager
<1>. QED
  BY <1>1 DEF GInv

\* A transaction begins: the file holds b, whatever happens to the journal.
LEMMA ResolveStep ==
    ASSUME LocalInv, FileInv, GhostInv, GInv, NEW q \in Pagers, LocalStep(q), Resolve,
           pc'[q] = "read", \A r \in Pagers \ {q} : lock[r] # "exclusive",
           NEW b \in allowed, Plain(disk, b), jrn.hot => Undo(jrn, disk, b),
           UNCHANGED database, DeleteJournal \/ UNCHANGED journal
    PROVE  GInv'
<1>1. /\ base' = b /\ b \in allowed' /\ \A j \in jdisk : \E c \in allowed' : Gives(j, disk, c)
      /\ disk' = disk
  BY ResolveFinds DEF GInv, database
<1>2. (jrn' = Gone /\ jdisk' = {Gone}) \/ (jrn' = jrn /\ jdisk' = jdisk)
  BY DEF DeleteJournal, journal
<1>3. jrn'.hot => Undo(jrn', disk, b)
  BY <1>2, Fields
<1>4. Gives(Gone, disk, b)
  BY Fields DEF Gives
<1>5. JournalsRecover'
  BY <1>1, <1>2, <1>4, Fields DEF GInv, JournalsRecover
<1>6. HotIsSafe'
  BY <1>1, <1>3 DEF HotIsSafe
<1>7. ASSUME NEW r \in Pagers, pc'[r] \in {"read", "write"}
      PROVE  PagerOK(r)'
  BY <1>1, <1>3, <1>7 DEF PagerOK, ReadOK, CommitOK, StepsOK, ReplayOK, CommitSteps, ReplaySteps
<1>8. ASSUME NEW r \in Pagers \ {q}
      PROVE  PagerOK(r)'
  <2>1. lock[r] # "exclusive" /\ Fits(pc[r], lock[r]) /\ pc'[r] = pc[r] /\ pc[r] \in Steps
    BY <1>8, OthersKeep DEF LocalInv, LocalTypes
  <2>2. pc'[r] \in {"closed", "idle", "hot", "unlocked"} \/ pc'[r] \in {"read", "write"}
    BY <2>1 DEF Fits, Steps
  <2>. QED
    BY <1>7, <2>2, QuietPager
<1>. QED
  BY <1>5, <1>6, <1>7, <1>8 DEF GInv

-----------------------------------------------------------------------------
(* Recovery: begin and the end of a read *)

\* A step into a recovery that reads the journal that is there.
LEMMA ReplayStarts ==
    ASSUME LocalInv, FileInv, GInv, NEW q \in Pagers, LocalStep(q), jrn.exists,
           NEW caller, StartReplay(q, caller),
           caller = "rollback" => wset'[q] = {} /\ AllGive(jdisk, disk, base),
           UNCHANGED <<database, journal, base, next, allowed>>
    PROVE  GInv'
<1>1. /\ pc'[q] = "replay" /\ from'[q] = caller /\ handle'[q] = jrn
      /\ todo'[q] = IF jrn.hot THEN DOMAIN jrn.img ELSE {}
  BY DEF StartReplay, Goto, LocalInv, LocalTypes
<1>2. UNCHANGED <<cache, disk, jrn, jdisk, base>>
  BY DEF database, journal
<1>3. ~jrn.hot => DOMAIN jrn.img = {}
  BY Fields DEF GInv, JournalsRecover, FileInv, FilesOK
<1>4. PagerOK(q)'
  BY <1>1, <1>2, <1>3
     DEF PagerOK, ReadOK, CommitOK, StepsOK, ReplayOK, CommitSteps, ReplaySteps
<1>. QED
  BY <1>4, FrameStep

\* Without a journal the file holds an allowed content.
LEMMA NoJournalPlain ==
    ASSUME FileInv, GInv, ~jrn.exists
    PROVE  ~jrn.hot /\ \E b \in allowed : Plain(disk, b)
<1>1. jdisk = {Gone} /\ jrn = Gone
  BY DEF FileInv, FilesOK
<1>2. PICK b \in allowed : Gives(Gone, disk, b)
  BY <1>1 DEF GInv, JournalsRecover
<1>. QED
  BY <1>1, <1>2, Fields DEF Gives

LEMMA BeginGInv ==
    ASSUME OneProcess = FALSE, LocalInv, FileInv, GhostInv, LocksExclude, GInv,
           NEW q \in Pagers, LocalStep(q),
           \/ Open(q) \/ OpenHot(q) \/ Begin(q) \/ BeginHot(q) \/ BeginRecovery(q)
           \/ BeginVanished(q) \/ BeginBusy(q) \/ EnsureWriter(q) \/ EndRead(q)
    PROVE  GInv'
<1>0. pc \in [Pagers -> Steps]
  BY DEF LocalInv, LocalTypes
<1>1. CASE Open(q) \/ BeginHot(q) \/ BeginBusy(q) \/ EndRead(q)
  <2>1. pc'[q] \in {"idle", "hot"} /\ UNCHANGED <<database, journal, ghosts>>
    BY <1>0, <1>1 DEF Open, BeginHot, BeginBusy, EndRead, Goto
  <2>. QED
    BY <2>1, QuietPager, FrameStep DEF ghosts
<1>2. CASE OpenHot(q) \/ BeginRecovery(q)
  <2>1. /\ jrn.exists /\ UNCHANGED <<database, journal, ghosts>>
        /\ StartReplay(q, "open") \/ StartReplay(q, "begin")
    BY <1>2 DEF OpenHot, BeginRecovery
  <2>. QED
    BY <2>1, ReplayStarts DEF ghosts
<1>3. CASE Begin(q)
  <2>1. /\ ~jrn.exists /\ CanLock(q, "shared") /\ Resolve /\ pc'[q] = "read"
        /\ UNCHANGED <<database, journal>>
    BY <1>0, <1>3 DEF Begin, Goto
  <2>2. \A r \in Pagers \ {q} : lock[r] # "exclusive"
    BY <2>1, Granted
  <2>3. PICK b \in allowed : Plain(disk, b)
    BY <2>1, NoJournalPlain
  <2>4. ~jrn.hot
    BY <2>1, NoJournalPlain
  <2>. QED
    BY <2>1, <2>2, <2>3, <2>4, ResolveStep
<1>4. CASE BeginVanished(q)
  <2>1. ~jrn.exists /\ CanLock(q, "exclusive") /\ UNCHANGED <<database, journal>>
    BY <1>4 DEF BeginVanished
  <2>2. CASE pending[q]
    <3>1. pc'[q] = "idle" /\ UNCHANGED ghosts
      BY <1>0, <1>4, <2>2 DEF BeginVanished, Goto
    <3>. QED
      BY <2>1, <3>1, QuietPager, FrameStep DEF ghosts
  <2>3. CASE ~pending[q]
    <3>1. pc'[q] = "read" /\ Resolve
      BY <1>0, <1>4, <2>3 DEF BeginVanished, Goto
    <3>2. \A r \in Pagers \ {q} : lock[r] # "exclusive"
      BY <2>1, Granted
    <3>3. PICK b \in allowed : Plain(disk, b)
      BY <2>1, NoJournalPlain
    <3>4. ~jrn.hot
      BY <2>1, NoJournalPlain
    <3>. QED
      BY <2>1, <3>1, <3>2, <3>3, <3>4, ResolveStep
  <2>. QED
    BY <2>2, <2>3
<1>5. CASE EnsureWriter(q)
  <2>1. /\ pc[q] = "read" /\ pc'[q] = "write" /\ UNCHANGED <<database, journal, ghosts>>
    BY <1>0, <1>5 DEF EnsureWriter, Goto
  <2>2. ReadOK(q)
    BY DEF GInv, PagerOK
  <2>3. PagerOK(q)'
    BY <2>1, <2>2 DEF PagerOK, ReadOK, CommitOK, StepsOK, ReplayOK, CommitSteps, ReplaySteps,
                      database, journal, ghosts
  <2>. QED
    BY <2>1, <2>3, FrameStep DEF ghosts
<1>. QED
  BY <1>1, <1>2, <1>3, <1>4, <1>5

-----------------------------------------------------------------------------
(* Recovery: COMMIT *)

\* COMMIT opens the journal: the file holds the last commit, and so does what
\* any journal that is still there gives.
LEMMA StartCommitGInv ==
    ASSUME OneProcess = FALSE, LocalInv, FileInv, GhostInv, GInv, NEW q \in Pagers, LocalStep(q),
           StartCommit(q), GhostInv'
    PROVE  GInv'
<1>1. /\ pc[q] = "write" /\ pc'[q] = "header" /\ CanLock(q, "exclusive")
      /\ jrn' = [jrn EXCEPT !.exists = TRUE] /\ jdisk' = jdisk \cup {jrn'}
      /\ commits' = commits + 1 /\ commits < MaxCommits
      /\ next' = [p \in Pages |-> IF p \in wset[q] THEN commits + 1 ELSE base[p]]
      /\ allowed' = allowed \cup {next'}
      /\ UNCHANGED <<pending, wset, disk, base>>
  BY DEF StartCommit, Goto, WriteJournal, database, LocalInv, LocalTypes
<1>2. /\ base \in allowed /\ \A j \in jdisk : \E b \in allowed : Gives(j, disk, b)
      /\ \A j \in jdisk : ~j.hot => j.img = <<>>
      /\ Plain(disk, base) /\ (jrn.hot => Undo(jrn, disk, base))
  BY <1>1 DEF GInv, JournalsRecover, PagerOK, ReadOK
<1>3. jrn' = IF jrn.exists THEN jrn ELSE Truncated
  BY <1>1, OpenedJournal DEF FileInv, FileTypes, FilesOK
<1>4. /\ jrn'.exists /\ (jrn'.hot => jrn' = jrn) /\ jrn \in jdisk
      /\ ~jrn'.hot => jrn'.img = <<>>
  BY <1>2, <1>3, Fields DEF FileInv, FilesOK
<1>5. Gives(jrn', disk, base)
  BY <1>2, <1>4 DEF Gives
<1>6. JournalsRecover'
  BY <1>1, <1>2, <1>4, <1>5 DEF JournalsRecover
<1>7. HotIsSafe'
  BY <1>1, <1>2, <1>4 DEF HotIsSafe
<1>8. NextOK(q)'
  <2>1. commits + 1 \in Versions
    BY <1>1, BoundsAssumption DEF GhostInv, GhostTypes, Versions
  <2>. QED
    BY <1>1, <2>1 DEF NextOK
<1>9. ~pending'[q]
  BY <1>1 DEF LocalInv, LoopsOK
<1>10. PagerOK(q)'
  BY <1>1, <1>2, <1>4, <1>8, <1>9
     DEF PagerOK, ReadOK, CommitOK, StepsOK, ReplayOK, CommitSteps, ReplaySteps
<1>11. \A r \in Pagers \ {q} : lock[r] = "none"
  BY <1>1, Granted
<1>. QED
  BY <1>6, <1>7, <1>10, <1>11, AloneStep

LEMMA RetryGInv ==
    ASSUME LocalInv, FileInv, GInv, NEW q \in Pagers, LocalStep(q), Retry(q)
    PROVE  GInv'
<1>1. /\ pc[q] = "failed" /\ pc'[q] = "header" /\ wset[q] # {}
      /\ jrn' = [jrn EXCEPT !.exists = TRUE] /\ jdisk' = jdisk \cup {jrn'}
      /\ UNCHANGED <<pending, wset, database, ghosts>>
  BY DEF Retry, Goto, WriteJournal, LocalInv, LocalTypes
<1>2. CommitOK(q) /\ jrn.exists
  BY <1>1 DEF GInv, PagerOK, CommitOK
<1>3. jrn' = jrn /\ jdisk' = jdisk
  BY <1>1, <1>2, OpenedJournal DEF FileInv, FileTypes, FilesOK
<1>4. PagerOK(q)'
  BY <1>1, <1>2, <1>3 DEF PagerOK, ReadOK, CommitOK, StepsOK, ReplayOK, CommitSteps, ReplaySteps,
                          NextOK, database, ghosts
<1>. QED
  BY <1>1, <1>3, <1>4, FrameStep DEF journal, ghosts

\* The header goes into a journal whose images, if any, are of the last commit.
LEMMA WriteHeaderGInv ==
    ASSUME LocalInv, FileInv, GhostInv, LocksExclude, GInv, NEW q \in Pagers, LocalStep(q),
           WriteHeader(q), guarded'
    PROVE  GInv'
<1>. DEFINE O == {p \in Pages : cache[p] # Absent}
<1>1. /\ pc[q] = "header" /\ pc'[q] = "records" /\ ThroughHandle(HeaderOf(jrn, O))
      /\ todo'[q] = wset[q] /\ Settled
      /\ UNCHANGED <<pending, wset, disk, cache, base, next, allowed>>
  BY DEF WriteHeader, HeaderOf, Goto, LocalInv, LocalTypes, database
<1>2. /\ base \in allowed /\ \A j \in jdisk : \E b \in allowed : Gives(j, disk, b)
      /\ \A j \in jdisk : ~j.hot => j.img = <<>>
      /\ CommitOK(q) /\ jrn.exists /\ (jrn.hot => Undo(jrn, disk, base)) /\ jrn \in Journals
      /\ jrn \in jdisk
  BY <1>1 DEF GInv, JournalsRecover, PagerOK, CommitOK, CommitSteps, FileInv, FileTypes, FilesOK
<1>3. jrn' = HeaderOf(jrn, O) /\ jdisk' = jdisk \cup {jrn'}
  BY <1>1, <1>2 DEF ThroughHandle, WriteJournal
<1>4. O \in SUBSET Pages /\ Plain(disk, base) /\ \A p \in Pages \ O : base[p] = Absent
  <2>1. Plain(disk, base)
    BY <1>1, SettledPlain
  <2>2. ASSUME NEW p \in Pages \ O
        PROVE  base[p] = Absent
    <3>1. cache[p] = Absent /\ cache[p] \in disk[p]
      BY DEF FileInv, FilesOK
    <3>2. Matches(Absent, base[p])
      BY <2>1, <3>1 DEF Plain
    <3>3. base[p] \in Versions \cup {Absent}
      BY DEF GhostInv, GhostsOK, Committable
    <3>. QED
      BY <3>2, <3>3, AbsentIsNoVersion DEF Matches
  <2>. QED
    BY <2>1, <2>2
<1>. HIDE DEF O
<1>5. jrn'.exists /\ jrn'.hot /\ jrn'.orig = O /\ jrn'.img = jrn.img
  BY <1>2, <1>3, <1>4, HeaderFields
<1>6. \A p \in DOMAIN jrn.img : Matches(jrn.img[p], base[p])
  <2>1. CASE jrn.hot
    BY <1>2, <2>1 DEF Undo
  <2>2. CASE ~jrn.hot
    BY <1>2, <2>2, Fields
  <2>. QED
    BY <2>1, <2>2
<1>7. Undo(jrn', disk, base)
  BY <1>4, <1>5, <1>6 DEF Undo, Plain
<1>8. JournalsRecover'
  BY <1>1, <1>2, <1>3, <1>5, <1>7 DEF JournalsRecover, Gives
<1>9. HotIsSafe'
  BY <1>1, <1>2, <1>4, <1>7 DEF HotIsSafe
<1>10. pending[q] => AllGive(jdisk', disk', base')
  BY <1>1, <1>2, <1>3, <1>5, <1>7 DEF CommitOK, AllGive, Gives
<1>11. PagerOK(q)'
  <2>1. NextOK(q)'
    BY <1>1, <1>2 DEF CommitOK, NextOK, CommitSteps
  <2>. QED
    BY <1>1, <1>4, <1>5, <1>7, <1>10, <2>1
       DEF PagerOK, ReadOK, CommitOK, StepsOK, ReplayOK, CommitSteps, ReplaySteps
<1>12. \A r \in Pagers \ {q} : lock[r] = "none"
  BY <1>1, Alone DEF CommitSteps
<1>. QED
  BY <1>8, <1>9, <1>11, <1>12, AloneStep

\* A pre-image is that of the last commit.
LEMMA WriteRecordGInv ==
    ASSUME LocalInv, FileInv, GhostInv, LocksExclude, GInv, NEW q \in Pagers, LocalStep(q),
           WriteRecord(q)
    PROVE  GInv'
<1>1. PICK p \in todo[q] : /\ ThroughHandle(RecordOf(jrn, p, PreImage(p)))
                           /\ todo' = [todo EXCEPT ![q] = @ \ {p}]
  BY DEF WriteRecord, RecordOf
<1>2. /\ pc[q] = "records" /\ pc'[q] = "records" /\ todo'[q] = todo[q] \ {p} /\ p \in Pages
      /\ UNCHANGED <<pending, wset, disk, cache, base, next, allowed>>
  BY <1>1 DEF WriteRecord, LocalInv, LocalTypes, database, ghosts
<1>3. /\ base \in allowed /\ \A j \in jdisk : \E b \in allowed : Gives(j, disk, b)
      /\ \A j \in jdisk : ~j.hot => j.img = <<>>
      /\ CommitOK(q) /\ jrn.exists /\ jrn.hot /\ Undo(jrn, disk, base) /\ jrn \in Journals
      /\ Plain(disk, base) /\ wset[q] \ todo[q] \subseteq DOMAIN jrn.img
  BY <1>2 DEF GInv, JournalsRecover, PagerOK, CommitOK, StepsOK, CommitSteps, FileInv, FileTypes
<1>4. PICK v \in Contents : v = PreImage(p)
  BY <1>2, PreImageType
<1>5. Matches(v, base[p])
  <2>1. CASE p \in jrn.orig
    BY <1>2, <1>3, <1>4, <2>1 DEF PreImage, Plain, FileInv, FilesOK
  <2>2. CASE p \notin jrn.orig
    BY <1>2, <1>3, <1>4, <2>2, AbsentIsNoVersion DEF PreImage, Undo, Matches
  <2>. QED
    BY <2>1, <2>2
<1>6. jrn' = RecordOf(jrn, p, v) /\ jdisk' = jdisk \cup {jrn'}
  BY <1>1, <1>3, <1>4 DEF ThroughHandle, WriteJournal
<1>7. /\ jrn'.exists /\ jrn'.hot /\ jrn'.orig = jrn.orig
      /\ DOMAIN jrn'.img = DOMAIN jrn.img \cup {p}
      /\ \A r \in DOMAIN jrn'.img : jrn'.img[r] = IF r = p THEN v ELSE jrn.img[r]
  <2>1. HasRecord(RecordOf(jrn, p, v), jrn, p, v)
    BY <1>2, <1>3, RecordFields
  <2>2. HasRecord(jrn', jrn, p, v)
    BY <1>6, <2>1, Zenon
  <2>. QED
    BY <1>3, <2>2 DEF HasRecord
<1>8. Undo(jrn', disk, base)
  BY <1>3, <1>5, <1>7 DEF Undo
<1>9. JournalsRecover'
  BY <1>2, <1>3, <1>6, <1>7, <1>8 DEF JournalsRecover, Gives
<1>10. HotIsSafe'
  BY <1>2, <1>3, <1>8 DEF HotIsSafe
<1>11. pending[q] => AllGive(jdisk', disk', base')
  BY <1>2, <1>3, <1>6, <1>7, <1>8 DEF CommitOK, AllGive, Gives
<1>12. PagerOK(q)'
  <2>1. NextOK(q)'
    BY <1>2, <1>3 DEF CommitOK, NextOK, CommitSteps
  <2>2. wset'[q] \ todo'[q] \subseteq DOMAIN jrn'.img
    BY <1>2, <1>3, <1>7
  <2>. QED
    BY <1>2, <1>3, <1>7, <1>8, <1>11, <2>1, <2>2
       DEF PagerOK, ReadOK, CommitOK, StepsOK, ReplayOK, CommitSteps, ReplaySteps
<1>13. \A r \in Pagers \ {q} : lock[r] = "none"
  BY <1>2, Alone DEF CommitSteps
<1>. QED
  BY <1>9, <1>10, <1>12, <1>13, AloneStep

\* With the journal synced no other journal can be found.
LEMMA SyncRecordsGInv ==
    ASSUME LocalInv, FileInv, LocksExclude, GInv, NEW q \in Pagers, LocalStep(q), SyncRecords(q)
    PROVE  GInv'
<1>1. /\ pc[q] = "records" /\ pc'[q] = "pages" /\ todo[q] = {} /\ todo'[q] = wset[q]
      /\ jdisk' = {jrn} /\ UNCHANGED <<wset, disk, cache, base, next, allowed, jrn>>
  BY DEF SyncRecords, SyncJournalFile, Goto, LocalInv, LocalTypes, database, ghosts
<1>2. /\ base \in allowed /\ CommitOK(q) /\ jrn.exists /\ jrn.hot /\ Undo(jrn, disk, base)
      /\ Plain(disk, base) /\ wset[q] \subseteq DOMAIN jrn.img
  BY <1>1 DEF GInv, JournalsRecover, PagerOK, CommitOK, StepsOK, CommitSteps
<1>3. Gives(jrn, disk, base) /\ AllGive(jdisk', disk', base')
  BY <1>1, <1>2 DEF Gives, AllGive
<1>4. JournalsRecover' /\ HotIsSafe'
  BY <1>1, <1>2, <1>3 DEF JournalsRecover, HotIsSafe
<1>5. PagerOK(q)'
  <2>1. NextOK(q)'
    BY <1>1, <1>2 DEF CommitOK, NextOK, CommitSteps
  <2>2. \A p \in Pages \ wset'[q] : \A v \in disk'[p] : Matches(v, base'[p])
    BY <1>1, <1>2 DEF Plain
  <2>3. wset'[q] \ todo'[q] = {}
    BY <1>1
  <2>. QED
    BY <1>1, <1>2, <1>3, <2>1, <2>2, <2>3
       DEF PagerOK, ReadOK, CommitOK, StepsOK, ReplayOK, CommitSteps, ReplaySteps
<1>6. \A r \in Pagers \ {q} : lock[r] = "none"
  BY <1>1, Alone DEF CommitSteps
<1>. QED
  BY <1>4, <1>5, <1>6, AloneStep

\* A page of the write set is written over: its image is in the journal.
LEMMA WritePageGInv ==
    ASSUME LocalInv, FileInv, LocksExclude, GInv, NEW q \in Pagers, LocalStep(q), WritePage(q)
    PROVE  GInv'
<1>1. PICK p \in todo[q] : /\ WriteCached(p, next[p])
                           /\ todo' = [todo EXCEPT ![q] = @ \ {p}]
  BY DEF WritePage
<1>2. /\ pc[q] = "pages" /\ pc'[q] = "pages" /\ todo'[q] = todo[q] \ {p} /\ p \in wset[q]
      /\ UNCHANGED <<pending, wset, jrn, jdisk, base, next, allowed>>
  BY <1>1 DEF WritePage, LocalInv, LocalTypes, LoopsOK, journal, ghosts
<1>3. /\ base \in allowed /\ CommitOK(q) /\ jrn.exists /\ jrn.hot /\ Undo(jrn, disk, base)
      /\ jdisk = {jrn} /\ wset[q] \subseteq DOMAIN jrn.img /\ jrn \in Journals
      /\ \A r \in wset[q] \ todo[q] : cache[r] = next[r]
      /\ \A r \in Pages \ wset[q] : \A v \in disk[r] : Matches(v, base[r])
  BY <1>2 DEF GInv, JournalsRecover, PagerOK, CommitOK, StepsOK, CommitSteps, FileInv, FileTypes
<1>4. /\ \A r \in Pages \ {p} : disk'[r] = disk[r] /\ cache'[r] = cache[r]
      /\ p \in Pages => cache'[p] = next[p]
      /\ wset[q] \subseteq Pages
  BY <1>1 DEF WriteCached, FileInv, FileTypes, LocalInv, LocalTypes
<1>5. Undo(jrn, disk', base)
  <2>1. \A r \in jrn.orig \ DOMAIN jrn.img : disk'[r] = disk[r]
    BY <1>2, <1>3, <1>4, ImageTypes
  <2>. QED
    BY <1>3, <2>1, CoveredWrite
<1>6. AllGive(jdisk', disk', base')
  BY <1>2, <1>3, <1>5 DEF AllGive, Gives
<1>7. JournalsRecover' /\ HotIsSafe'
  BY <1>2, <1>3, <1>5 DEF JournalsRecover, HotIsSafe, Gives
<1>8. PagerOK(q)'
  <2>1. NextOK(q)'
    BY <1>2, <1>3 DEF CommitOK, NextOK, CommitSteps
  <2>2. \A r \in Pages \ wset'[q] : \A v \in disk'[r] : Matches(v, base'[r])
    BY <1>2, <1>3, <1>4
  <2>3. \A r \in wset'[q] \ todo'[q] : cache'[r] = next'[r]
    BY <1>2, <1>3, <1>4
  <2>. QED
    BY <1>2, <1>3, <1>5, <1>6, <2>1, <2>2, <2>3
       DEF PagerOK, ReadOK, CommitOK, StepsOK, ReplayOK, CommitSteps, ReplaySteps
<1>9. \A r \in Pagers \ {q} : lock[r] = "none"
  BY <1>2, Alone DEF CommitSteps
<1>. QED
  BY <1>7, <1>8, <1>9, AloneStep

\* A sync keeps what the journals give.
LEMMA SyncKeeps ==
    ASSUME FileInv, GhostInv, JournalsRecover, HotIsSafe, SyncCached,
           UNCHANGED <<journal, base, next, allowed>>
    PROVE  /\ JournalsRecover' /\ HotIsSafe' /\ \A p \in Pages : disk'[p] = {cache[p]}
           /\ \A p \in Pages : disk'[p] \subseteq disk[p]
           /\ UNCHANGED <<cache, jrn, jdisk>>
<1>1. /\ \A p \in Pages : disk'[p] = {cache[p]} /\ disk'[p] \subseteq disk[p]
      /\ UNCHANGED <<cache, jrn, jdisk, base, next, allowed>>
  BY DEF SyncCached, FileInv, FilesOK, journal
<1>2. jdisk \subseteq Journals /\ jrn \in Journals
  BY DEF FileInv, FileTypes
<1>3. JournalsRecover'
  BY <1>1, <1>2, Shrink DEF JournalsRecover
<1>4. HotIsSafe'
  BY <1>1, <1>2, Shrink DEF HotIsSafe
<1>. QED
  BY <1>1, <1>3, <1>4

\* With the database file synced it holds the new commit.
LEMMA SyncDatabaseGInv ==
    ASSUME LocalInv, FileInv, GhostInv, LocksExclude, GInv, NEW q \in Pagers, LocalStep(q),
           SyncDatabase(q)
    PROVE  GInv'
<1>1. /\ pc[q] = "pages" /\ pc'[q] = "invalidate" /\ todo[q] = {} /\ SyncCached
      /\ UNCHANGED <<wset, journal, base, next, allowed>>
  BY DEF SyncDatabase, Goto, LocalInv, LocalTypes, ghosts
<1>2. /\ JournalsRecover' /\ HotIsSafe' /\ \A p \in Pages : disk'[p] = {cache[p]}
      /\ \A p \in Pages : disk'[p] \subseteq disk[p]
      /\ UNCHANGED <<cache, jrn, jdisk>>
  BY <1>1, SyncKeeps DEF GInv
<1>3. /\ CommitOK(q) /\ jrn.exists /\ jrn.hot /\ Undo(jrn, disk, base) /\ jrn \in Journals
      /\ \A r \in wset[q] : cache[r] = next[r]
      /\ \A r \in Pages \ wset[q] : \A v \in disk[r] : Matches(v, base[r])
      /\ NextOK(q)
  BY <1>1 DEF GInv, PagerOK, CommitOK, StepsOK, CommitSteps, FileInv, FileTypes
<1>4. Plain(disk', next)
  <2>. SUFFICES ASSUME NEW p \in Pages PROVE Matches(cache[p], next[p])
    BY <1>2 DEF Plain
  <2>1. CASE p \in wset[q]
    BY <1>3, <2>1, AbsentIsNoVersion DEF NextOK, Matches
  <2>2. CASE p \notin wset[q]
    BY <1>3, <2>2 DEF NextOK, FileInv, FilesOK
  <2>. QED
    BY <2>1, <2>2
<1>5. Undo(jrn, disk', base)
  BY <1>2, <1>3, Shrink
<1>6. PagerOK(q)'
  <2>1. NextOK(q)'
    BY <1>1, <1>3 DEF NextOK
  <2>. QED
    BY <1>1, <1>2, <1>3, <1>4, <1>5, <2>1
       DEF PagerOK, ReadOK, CommitOK, StepsOK, ReplayOK, CommitSteps, ReplaySteps
<1>7. \A r \in Pagers \ {q} : lock[r] = "none"
  BY <1>1, Alone DEF CommitSteps
<1>. QED
  BY <1>2, <1>6, <1>7, AloneStep

\* A journal without a header gives what the database file holds.
LEMMA PlainRecovers ==
    ASSUME GhostInv, JournalsRecover, NEW b \in allowed, Plain(disk, b),
           jrn' = Truncated, jdisk' = jdisk \cup {jrn'} \/ jdisk' = {jrn'},
           UNCHANGED <<disk, base, allowed>>
    PROVE  JournalsRecover' /\ HotIsSafe' /\ jrn'.exists /\ ~jrn'.hot
<1>1. jrn'.exists /\ ~jrn'.hot /\ jrn'.img = <<>>
  BY Fields
<1>2. Gives(jrn', disk, b)
  BY <1>1 DEF Gives
<1>. QED
  BY <1>1, <1>2 DEF JournalsRecover, HotIsSafe

\* The database file is committed: an invalid journal gives the new commit.
LEMMA InvalidateGInv ==
    ASSUME LocalInv, FileInv, GhostInv, LocksExclude, GInv, NEW q \in Pagers, LocalStep(q),
           Invalidate(q) \/ InvalidateFails(q)
    PROVE  GInv'
<1>0. /\ pc \in [Pagers -> Steps] /\ pc[q] \in {"invalidate", "truncated"}
      /\ UNCHANGED <<pending, wset, cache, disk, base, next, allowed>>
  BY DEF Invalidate, InvalidateFails, LocalInv, LocalTypes, database, ghosts
<1>1. /\ jrn.exists /\ (jrn.hot => Undo(jrn, disk, base)) /\ NextOK(q) /\ Plain(disk, next)
      /\ next \in allowed /\ JournalsRecover /\ HotIsSafe /\ base \in allowed
      /\ pc[q] = "truncated" => jrn = Truncated
  BY <1>0 DEF GInv, PagerOK, CommitOK, StepsOK, CommitSteps, NextOK, JournalsRecover
<1>2. NextOK(q)'
  BY <1>0, <1>1 DEF NextOK
<1>3. \A r \in Pagers \ {q} : lock[r] = "none"
  BY <1>0, Alone DEF CommitSteps
<1>4. CASE Invalidate(q) /\ pc[q] = "invalidate"
  <2>1. pc'[q] = "truncated" /\ jrn' = Truncated /\ jdisk' = jdisk \cup {jrn'}
    BY <1>0, <1>1, <1>4 DEF Invalidate, Goto, ThroughHandle, WriteJournal
  <2>2. JournalsRecover' /\ HotIsSafe' /\ jrn'.exists /\ ~jrn'.hot
    BY <1>0, <1>1, <2>1, PlainRecovers
  <2>3. PagerOK(q)'
    BY <1>0, <1>1, <1>2, <2>1, <2>2
       DEF PagerOK, ReadOK, CommitOK, StepsOK, ReplayOK, CommitSteps, ReplaySteps
  <2>. QED
    BY <1>3, <2>2, <2>3, AloneStep
<1>5. CASE Invalidate(q) /\ pc[q] = "truncated"
  <2>1. pc'[q] = "delete" /\ jrn' = Truncated /\ jdisk' = {jrn'}
    BY <1>0, <1>1, <1>5 DEF Invalidate, Goto, SyncJournalFile
  <2>2. JournalsRecover' /\ HotIsSafe' /\ jrn'.exists /\ ~jrn'.hot
    BY <1>0, <1>1, <2>1, PlainRecovers
  <2>3. PagerOK(q)'
    BY <1>0, <1>1, <1>2, <2>1, <2>2
       DEF PagerOK, ReadOK, CommitOK, StepsOK, ReplayOK, CommitSteps, ReplaySteps
  <2>. QED
    BY <1>3, <2>2, <2>3, AloneStep
<1>6. CASE InvalidateFails(q)
  <2>1. pc'[q] = "mustDelete" /\ UNCHANGED <<jrn, jdisk, database, journal>>
    BY <1>0, <1>6 DEF InvalidateFails, Goto, journal
  <2>2. PagerOK(q)'
    BY <1>0, <1>1, <1>2, <2>1
       DEF PagerOK, ReadOK, CommitOK, StepsOK, ReplayOK, CommitSteps, ReplaySteps
  <2>. QED
    BY <1>0, <2>1, <2>2, FrameStep
<1>. QED
  BY <1>0, <1>4, <1>5, <1>6

\* COMMIT returns: no journal is left that would take the commit back.
LEMMA CommittedGInv ==
    ASSUME LocalInv, FileInv, GhostInv, LocksExclude, GInv, NEW q \in Pagers, LocalStep(q),
           Committed(q)
    PROVE  GInv'
<1>0. /\ pc \in [Pagers -> Steps] /\ pc[q] \in {"delete", "mustDelete"} /\ pc'[q] = "idle"
      /\ base' = next /\ allowed' = {next} /\ disk' = disk
      /\ DeleteJournal \/ (pc[q] = "delete" /\ UNCHANGED journal)
  BY DEF Committed, Goto, LocalInv, LocalTypes, database
<1>1. Plain(disk, next) /\ (pc[q] = "delete" => jrn = Truncated /\ jdisk = {Truncated})
  BY <1>0 DEF GInv, PagerOK, StepsOK
<1>2. PICK j \in {Gone, Truncated} : jrn' = j /\ jdisk' = {j}
  BY <1>0, <1>1 DEF DeleteJournal, journal
<1>3. ~j.hot /\ j.img = <<>>
  BY <1>2, Fields
<1>4. Gives(j, disk, next)
  BY <1>1, <1>3 DEF Gives
<1>5. JournalsRecover' /\ HotIsSafe'
  BY <1>0, <1>2, <1>3, <1>4 DEF JournalsRecover, HotIsSafe
<1>6. PagerOK(q)'
  BY <1>0, QuietPager
<1>7. \A r \in Pagers \ {q} : lock[r] = "none"
  BY <1>0, Alone DEF CommitSteps
<1>. QED
  BY <1>5, <1>6, <1>7, AloneStep

\* COMMIT fails: the journal that takes it back is still there.
LEMMA CommitFailsGInv ==
    ASSUME LocalInv, GInv, NEW q \in Pagers, LocalStep(q), CommitFails(q)
    PROVE  GInv'
<1>1. /\ pc[q] \in {"header", "records", "pages", "mustDelete"} /\ pc'[q] = "failed"
      /\ UNCHANGED <<wset, database, journal, base, next, allowed>>
  BY DEF CommitFails, Goto, LocalInv, LocalTypes, ghosts
<1>2. pending' = [pending EXCEPT ![q] = @ /\ pc[q] # "mustDelete"]
  BY DEF CommitFails
<1>3. pending'[q] => pending[q] /\ pc[q] # "mustDelete"
  BY <1>2 DEF LocalInv, LocalTypes
<1>4. CommitOK(q)
  BY DEF GInv, PagerOK
<1>5. PagerOK(q)'
  BY <1>1, <1>3, <1>4
     DEF PagerOK, ReadOK, CommitOK, StepsOK, ReplayOK, CommitSteps, ReplaySteps, NextOK,
         database, journal
<1>. QED
  BY <1>1, <1>5, FrameStep

-----------------------------------------------------------------------------
(* Recovery: the replay of a journal *)

\* A write to pages that a hot journal restores, harmless while the journal
\* may still be lost, keeps what the journals give.
LEMMA ReplayWrite ==
    ASSUME FileInv, GhostInv, JournalsRecover, HotIsSafe, jrn.hot,
           \A p \in jrn.orig \ DOMAIN jrn.img : disk'[p] = disk[p],
           \A b \in allowed : Plain(disk, b) /\ Undo(jrn, disk, b) => HarmlessWrite(disk, disk', b),
           UNCHANGED <<jrn, jdisk, base, next, allowed>>
    PROVE  /\ JournalsRecover' /\ HotIsSafe'
           /\ \A c \in allowed, j \in jdisk : Gives(j, disk, c) => Gives(j, disk', c)
<1>1. /\ jrn \in Journals /\ jdisk \subseteq Journals /\ allowed \subseteq Committable
      /\ jrn \in jdisk /\ \A p \in Pages : disk[p] # {}
  BY DEF FileInv, FileTypes, FilesOK, GhostInv, GhostsOK
<1>2. CASE jdisk = {jrn}
  <2>1. \A c \in allowed, j \in jdisk : Gives(j, disk, c) => Gives(j, disk', c)
    BY <1>1, <1>2, CoveredWrite DEF Gives
  <2>. QED
    BY <1>2, <2>1 DEF JournalsRecover, HotIsSafe
<1>3. CASE jdisk # {jrn}
  <2>1. PICK b \in allowed : Plain(disk, b) /\ Undo(jrn, disk, b)
    BY <1>3 DEF HotIsSafe
  <2>2. b \in Committable /\ HarmlessWrite(disk, disk', b)
    BY <1>1, <2>1
  <2>3. /\ Plain(disk', b)
        /\ \A c \in Committable, j \in Journals : Gives(j, disk, c) => Gives(j, disk', c)
    BY <1>1, <2>1, <2>2, HarmlessKeeps
  <2>4. \A c \in allowed, j \in jdisk : Gives(j, disk, c) => Gives(j, disk', c)
    BY <1>1, <2>3
  <2>5. Undo(jrn, disk', b)
    BY <1>1, <2>1, <2>4 DEF Gives
  <2>. QED
    BY <2>3, <2>4, <2>5 DEF JournalsRecover, HotIsSafe
<1>. QED
  BY <1>2, <1>3

LEMMA WriteBackGInv ==
    ASSUME LocalInv, FileInv, GhostInv, LocksExclude, GInv, NEW q \in Pagers, LocalStep(q),
           WriteBack(q)
    PROVE  GInv'
<1>1. PICK p \in todo[q] : /\ WriteCached(p, handle[q].img[p])
                           /\ todo' = [todo EXCEPT ![q] = @ \ {p}]
  BY DEF WriteBack
<1>2. /\ pc[q] = "replay" /\ pc'[q] = "replay" /\ todo'[q] = todo[q] \ {p}
      /\ UNCHANGED <<from, handle, wset, jrn, jdisk, base, next, allowed>>
      /\ todo[q] \subseteq DOMAIN handle[q].img
  BY <1>1 DEF WriteBack, LocalInv, LocalTypes, LoopsOK, journal, ghosts
<1>3. /\ jrn.exists /\ handle[q] = jrn /\ jrn \in Journals /\ JournalsRecover /\ HotIsSafe
      /\ from[q] = "rollback" => wset[q] = {} /\ AllGive(jdisk, disk, base)
      /\ \A r \in DOMAIN jrn.img \ todo[q] : cache[r] = jrn.img[r]
      /\ jrn \in jdisk /\ base \in allowed
  BY <1>2 DEF GInv, JournalsRecover, PagerOK, ReplayOK, ReplaySteps, FileInv, FileTypes, FilesOK
<1>4. p \in DOMAIN jrn.img /\ p \in Pages /\ jrn.hot /\ DOMAIN jrn.img \subseteq Pages
  <2>1. p \in DOMAIN jrn.img
    BY <1>1, <1>2, <1>3
  <2>2. DOMAIN jrn.img \subseteq Pages
    BY <1>3, ImageTypes
  <2>3. jrn.hot
    BY <1>3, <2>1, Fields DEF JournalsRecover
  <2>. QED
    BY <2>1, <2>2, <2>3
<1>5. PICK v : v = jrn.img[p]
  OBVIOUS
<1>6. /\ \A r \in Pages \ {p} : disk'[r] = disk[r] /\ cache'[r] = cache[r]
      /\ cache'[p] = v
      /\ disk'[p] = IF disk[p] = {v} THEN disk[p] ELSE disk[p] \cup {v, Torn}
  BY <1>1, <1>3, <1>4, <1>5 DEF WriteCached, FileInv, FileTypes
<1>7. \A r \in jrn.orig \ DOMAIN jrn.img : disk'[r] = disk[r]
  BY <1>3, <1>4, <1>6, ImageTypes
<1>8. ASSUME NEW b \in allowed, Plain(disk, b), Undo(jrn, disk, b)
      PROVE  HarmlessWrite(disk, disk', b)
  <2>1. Matches(v, b[p]) /\ \A w \in disk[p] : Matches(w, b[p])
    BY <1>4, <1>5, <1>8 DEF Plain, Undo
  <2>2. cache[p] \in disk[p]
    BY <1>4 DEF FileInv, FilesOK
  <2>3. disk'[p] = disk[p] \/ (b[p] = Absent /\ \A w \in disk'[p] : w \notin Versions)
    <3>1. CASE b[p] = Absent
      BY <1>6, <2>1, <3>1, AbsentIsNoVersion DEF Matches
    <3>2. CASE b[p] # Absent
      <4>1. disk[p] = {v}
        BY <2>1, <2>2, <3>2 DEF Matches
      <4>. QED
        BY <1>6, <4>1
    <3>. QED
      BY <3>1, <3>2
  <2>. QED
    BY <1>6, <2>3 DEF HarmlessWrite
<1>9. /\ JournalsRecover' /\ HotIsSafe'
      /\ \A c \in allowed, j \in jdisk : Gives(j, disk, c) => Gives(j, disk', c)
  BY <1>2, <1>3, <1>4, <1>7, <1>8, ReplayWrite
<1>10. from[q] = "rollback" => wset'[q] = {} /\ AllGive(jdisk', disk', base')
  BY <1>2, <1>3, <1>9 DEF AllGive
<1>11. \A r \in DOMAIN jrn.img \ todo'[q] : cache'[r] = jrn.img[r]
  BY <1>2, <1>3, <1>4, <1>5, <1>6
<1>12. PagerOK(q)'
  BY <1>2, <1>3, <1>10, <1>11
     DEF PagerOK, ReadOK, CommitOK, StepsOK, ReplayOK, CommitSteps, ReplaySteps
<1>13. \A r \in Pagers \ {q} : lock[r] = "none"
  BY <1>2, Alone DEF ReplaySteps
<1>. QED
  BY <1>9, <1>12, <1>13, AloneStep

\* With the pages that the header counts restored and synced, the rest of the
\* file is what is still to be cut off.
LEMMA SyncRestoredGInv ==
    ASSUME LocalInv, FileInv, GhostInv, LocksExclude, GInv, NEW q \in Pagers, LocalStep(q),
           SyncRestored(q)
    PROVE  GInv'
<1>1. /\ pc[q] = "replay" /\ pc'[q] = (IF Beyond(q) = {} THEN "retire" ELSE "cut")
      /\ todo[q] = {} /\ SyncCached /\ handle[q].hot
      /\ UNCHANGED <<from, handle, wset, journal, base, next, allowed>>
  BY DEF SyncRestored, Goto, LocalInv, LocalTypes, ghosts
<1>2. /\ JournalsRecover' /\ HotIsSafe' /\ \A p \in Pages : disk'[p] = {cache[p]}
      /\ \A p \in Pages : disk'[p] \subseteq disk[p]
      /\ UNCHANGED <<cache, jrn, jdisk>>
  BY <1>1, SyncKeeps DEF GInv
<1>3. /\ jrn.exists /\ handle[q] = jrn /\ jrn \in Journals /\ JournalsRecover
      /\ from[q] = "rollback" => wset[q] = {} /\ AllGive(jdisk, disk, base)
      /\ \A r \in DOMAIN jrn.img : cache[r] = jrn.img[r]
      /\ jrn \in jdisk /\ jdisk \subseteq Journals
  BY <1>1 DEF GInv, PagerOK, ReplayOK, ReplaySteps, FileInv, FileTypes, FilesOK
<1>4. jrn.hot
  BY <1>1, <1>3
<1>5. PICK b \in allowed : Undo(jrn, disk, b)
  BY <1>3, <1>4 DEF JournalsRecover, Gives
<1>6. Undo(jrn, disk', b)
  BY <1>2, <1>3, <1>5, Shrink
<1>7. Counted(jrn, disk', b)
  <2>. SUFFICES ASSUME NEW p \in jrn.orig PROVE Matches(cache[p], b[p])
    BY <1>2, <1>3, ImageTypes DEF Counted
  <2>1. p \in Pages /\ cache[p] \in disk[p]
    BY <1>3, ImageTypes DEF FileInv, FilesOK
  <2>2. CASE p \in DOMAIN jrn.img
    BY <1>3, <1>5, <2>2 DEF Undo
  <2>3. CASE p \notin DOMAIN jrn.img
    BY <1>5, <2>1, <2>3 DEF Undo
  <2>. QED
    BY <2>2, <2>3
<1>8. Beyond(q) = {} => Plain(disk', b)
  <2>. SUFFICES ASSUME Beyond(q) = {}, NEW p \in Pages PROVE Matches(cache[p], b[p])
    BY <1>2 DEF Plain
  <2>1. CASE p \in jrn.orig
    BY <1>2, <1>7, <2>1 DEF Counted
  <2>2. CASE p \notin jrn.orig
    BY <1>3, <1>6, <2>2, AbsentIsNoVersion DEF Beyond, Undo, Matches
  <2>. QED
    BY <2>1, <2>2
<1>9. from[q] = "rollback" => wset'[q] = {} /\ AllGive(jdisk', disk', base')
  BY <1>1, <1>2, <1>3, Shrink DEF AllGive
<1>10. PagerOK(q)'
  <2>1. CASE Beyond(q) = {}
    BY <1>1, <1>2, <1>3, <1>4, <1>6, <1>8, <1>9, <2>1
       DEF PagerOK, ReadOK, CommitOK, StepsOK, ReplayOK, CommitSteps, ReplaySteps
  <2>2. CASE Beyond(q) # {}
    BY <1>1, <1>2, <1>3, <1>4, <1>6, <1>7, <1>9, <2>2
       DEF PagerOK, ReadOK, CommitOK, StepsOK, ReplayOK, CommitSteps, ReplaySteps
  <2>. QED
    BY <2>1, <2>2
<1>11. \A r \in Pagers \ {q} : lock[r] = "none"
  BY <1>1, Alone DEF ReplaySteps
<1>. QED
  BY <1>2, <1>10, <1>11, AloneStep

\* The pages beyond the old end of the file are cut off.
LEMMA CutDatabaseGInv ==
    ASSUME LocalInv, FileInv, GhostInv, LocksExclude, GInv, NEW q \in Pagers, LocalStep(q),
           CutDatabase(q)
    PROVE  GInv'
<1>1. /\ pc \in [Pagers -> Steps] /\ pc[q] \in {"cut", "cutSync"}
      /\ UNCHANGED <<from, handle, wset, journal, jrn, jdisk, base, next, allowed>>
  BY DEF CutDatabase, LocalInv, LocalTypes, journal, ghosts
<1>2. /\ jrn.exists /\ jrn.hot /\ handle[q] = jrn /\ jrn \in Journals
      /\ from[q] = "rollback" => wset[q] = {} /\ AllGive(jdisk, disk, base)
      /\ jrn \in jdisk /\ jdisk \subseteq Journals /\ base \in allowed
      /\ JournalsRecover /\ HotIsSafe /\ jrn.orig \subseteq Pages
      /\ pc[q] = "cutSync" => \A p \in Pages \ jrn.orig : cache[p] = Absent
  BY <1>1, ImageTypes
     DEF GInv, JournalsRecover, PagerOK, ReplayOK, ReplaySteps, FileInv, FileTypes, FilesOK
<1>3. PICK b \in allowed : Undo(jrn, disk, b) /\ Counted(jrn, disk, b)
  BY <1>1 DEF GInv, PagerOK, ReplayOK
<1>4. \A r \in Pagers \ {q} : lock[r] = "none"
  BY <1>1, Alone DEF ReplaySteps
<1>5. CASE pc[q] = "cut"
  <2>1. /\ pc'[q] = "cutSync"
        /\ cache' = [p \in Pages |-> IF p \in Beyond(q) THEN Absent ELSE cache[p]]
        /\ disk' = [p \in Pages |-> IF p \in Beyond(q) THEN disk[p] \cup {Absent} ELSE disk[p]]
    BY <1>1, <1>5 DEF CutDatabase, Goto
  <2>2. \A p \in jrn.orig : disk'[p] = disk[p]
    BY <1>2, <2>1 DEF Beyond
  <2>3. \A p \in Pages \ jrn.orig : cache'[p] = Absent
    BY <1>2, <2>1 DEF Beyond
  <2>4. ASSUME NEW c \in allowed, Plain(disk, c), Undo(jrn, disk, c)
        PROVE  HarmlessWrite(disk, disk', c)
    <3>1. ASSUME NEW p \in Pages, p \in Beyond(q)
          PROVE  c[p] = Absent /\ \A v \in disk'[p] : v \notin Versions
      <4>1. c[p] = Absent
        BY <1>2, <2>4, <3>1 DEF Beyond, Undo
      <4>2. \A v \in disk[p] : v \notin Versions
        BY <2>4, <4>1 DEF Plain, Matches
      <4>. QED
        BY <2>1, <3>1, <4>1, <4>2, AbsentIsNoVersion
    <3>2. \A p \in Pages : p \notin Beyond(q) => disk'[p] = disk[p]
      BY <2>1
    <3>. QED
      BY <3>1, <3>2 DEF HarmlessWrite
  <2>5. /\ JournalsRecover' /\ HotIsSafe'
        /\ \A c \in allowed, j \in jdisk : Gives(j, disk, c) => Gives(j, disk', c)
    BY <1>1, <1>2, <2>2, <2>4, ReplayWrite
  <2>6. Undo(jrn, disk', b) /\ Counted(jrn, disk', b)
    BY <1>2, <1>3, <2>2, <2>5 DEF Gives, Counted
  <2>7. from[q] = "rollback" => wset'[q] = {} /\ AllGive(jdisk', disk', base')
    BY <1>1, <1>2, <2>5 DEF AllGive
  <2>8. PagerOK(q)'
    BY <1>1, <1>2, <2>1, <2>3, <2>6, <2>7
       DEF PagerOK, ReadOK, CommitOK, StepsOK, ReplayOK, CommitSteps, ReplaySteps
  <2>. QED
    BY <1>4, <2>5, <2>8, AloneStep
<1>6. CASE pc[q] = "cutSync"
  <2>1. pc'[q] = "retire" /\ SyncCached
    BY <1>1, <1>6 DEF CutDatabase, Goto
  <2>2. /\ JournalsRecover' /\ HotIsSafe' /\ \A p \in Pages : disk'[p] = {cache[p]}
        /\ \A p \in Pages : disk'[p] \subseteq disk[p]
    BY <1>1, <1>2, <2>1, SyncKeeps
  <2>3. Undo(jrn, disk', b)
    BY <1>2, <1>3, <2>2, Shrink
  <2>4. Plain(disk', b)
    <3>. SUFFICES ASSUME NEW p \in Pages PROVE Matches(cache[p], b[p])
      BY <2>2 DEF Plain
    <3>1. CASE p \in jrn.orig
      BY <1>3, <3>1 DEF Counted, FileInv, FilesOK
    <3>2. CASE p \notin jrn.orig
      BY <1>2, <1>3, <1>6, <3>2, AbsentIsNoVersion DEF Undo, Matches
    <3>. QED
      BY <3>1, <3>2
  <2>5. from[q] = "rollback" => wset'[q] = {} /\ AllGive(jdisk', disk', base')
    BY <1>1, <1>2, <2>2, Shrink DEF AllGive
  <2>6. PagerOK(q)'
    BY <1>1, <1>2, <2>1, <2>3, <2>4, <2>5
       DEF PagerOK, ReadOK, CommitOK, StepsOK, ReplayOK, CommitSteps, ReplaySteps
  <2>. QED
    BY <1>4, <2>2, <2>6, AloneStep
<1>. QED
  BY <1>1, <1>5, <1>6

\* The journal goes when the file holds what it gives.
LEMMA RetireJournalGInv ==
    ASSUME LocalInv, FileInv, GhostInv, LocksExclude, GInv, NEW q \in Pagers, LocalStep(q),
           RetireJournal(q)
    PROVE  GInv'
<1>1. /\ pc \in [Pagers -> Steps] /\ pc[q] \in {"retire", "retired"}
      /\ UNCHANGED <<from, wset, cache, disk, base, next, allowed>>
  BY DEF RetireJournal, LocalInv, LocalTypes, database, ghosts
<1>2. /\ jrn.exists
      /\ from[q] = "rollback" => wset[q] = {} /\ AllGive(jdisk, disk, base)
      /\ jrn \in jdisk /\ jrn \in Journals /\ base \in Committable /\ allowed \subseteq Committable
      /\ JournalsRecover
  BY <1>1 DEF GInv, PagerOK, ReplayOK, ReplaySteps, FileInv, FileTypes, FilesOK, GhostInv, GhostsOK
<1>3. PICK b \in allowed : /\ Plain(disk, b) /\ Gives(jrn, disk, b)
                           /\ pc[q] = "retired" => jrn = Truncated
  BY <1>1, Fields DEF GInv, PagerOK, ReplayOK, Gives
<1>4. from[q] = "rollback" => b = base
  BY <1>2, <1>3, GivesUnique DEF AllGive
<1>5. /\ jrn' = Truncated
      /\ jdisk' = jdisk \cup {jrn'} \/ jdisk' = {jrn'}
      /\ pc'[q] = (IF pc[q] = "retire" THEN "retired" ELSE "clean")
  <2>1. CASE pc[q] = "retire"
    BY <1>1, <1>2, <2>1 DEF RetireJournal, Goto, ThroughHandle, WriteJournal
  <2>2. CASE pc[q] = "retired"
    BY <1>1, <1>3, <2>2 DEF RetireJournal, Goto, SyncJournalFile
  <2>. QED
    BY <1>1, <2>1, <2>2
<1>6. JournalsRecover' /\ HotIsSafe' /\ jrn'.exists /\ ~jrn'.hot
  BY <1>1, <1>2, <1>3, <1>5, PlainRecovers
<1>7. from[q] = "rollback" => wset'[q] = {} /\ AllGive(jdisk', disk', base')
  BY <1>1, <1>2, <1>3, <1>4, <1>5, <1>6 DEF AllGive, Gives
<1>8. PagerOK(q)'
  BY <1>1, <1>3, <1>5, <1>6, <1>7
     DEF PagerOK, ReadOK, CommitOK, StepsOK, ReplayOK, CommitSteps, ReplaySteps
<1>9. \A r \in Pagers \ {q} : lock[r] = "none"
  BY <1>1, Alone DEF ReplaySteps
<1>. QED
  BY <1>6, <1>8, <1>9, AloneStep

\* A journal is passed over: it is not hot, or the file does not need it.
LEMMA NothingToReplayGInv ==
    ASSUME LocalInv, FileInv, GhostInv, GInv, NEW q \in Pagers, LocalStep(q),
           NothingToReplay(q), guarded'
    PROVE  GInv'
<1>1. /\ pc[q] = "replay" /\ pc'[q] = "clean"
      /\ UNCHANGED <<from, wset, database, journal, base, next, allowed>>
      /\ ~handle[q].hot \/ Dispensable(handle[q])
  BY DEF NothingToReplay, Goto, LocalInv, LocalTypes, ghosts
<1>2. /\ jrn.exists /\ handle[q] = jrn /\ jrn \in Journals /\ JournalsRecover
      /\ from[q] = "rollback" => wset[q] = {} /\ AllGive(jdisk, disk, base)
      /\ jrn \in jdisk /\ base \in allowed
  BY <1>1 DEF GInv, JournalsRecover, PagerOK, ReplayOK, ReplaySteps, FileInv, FileTypes, FilesOK
<1>3. PICK b \in allowed : Gives(jrn, disk, b)
  BY <1>2 DEF JournalsRecover
<1>4. /\ \E c \in allowed : Plain(disk, c)
      /\ jrn.hot => Plain(disk, base) /\ Undo(jrn, disk, base)
  <2>1. CASE ~jrn.hot
    BY <1>3, <2>1 DEF Gives
  <2>2. CASE Dispensable(jrn)
    <3>1. Plain(disk, base)
      BY <2>2, SettledPlain DEF Dispensable
    <3>2. cache \in DiskImages /\ \A p \in Pages : cache[p] \in disk[p]
      BY CacheIsImage
    <3>3. StandsFor(Image(jrn, cache), base)
      BY <2>2, <3>2 DEF Dispensable, Image
    <3>4. StandsFor(Image(jrn, cache), b)
      BY <1>2, <1>3, <3>2, ImageStands
    <3>5. b = base
      BY <3>3, <3>4, StandsUnique DEF GhostInv, GhostsOK
    <3>. QED
      BY <1>2, <1>3, <3>1, <3>5 DEF Gives
  <2>. QED
    BY <1>1, <1>2, <2>1, <2>2
<1>5. PagerOK(q)'
  BY <1>1, <1>2, <1>4
     DEF PagerOK, ReadOK, CommitOK, StepsOK, ReplayOK, CommitSteps, ReplaySteps, database, journal
<1>. QED
  BY <1>1, <1>5, FrameStep

\* Recovery is over: the file holds what the journal gave.
LEMMA RecoveredGInv ==
    ASSUME LocalInv, FileInv, GhostInv, LocksExclude, GInv, NEW q \in Pagers, LocalStep(q),
           Recovered(q)
    PROVE  GInv'
<1>1. /\ pc \in [Pagers -> Steps] /\ from[q] \in {"open", "begin", "rollback"}
      /\ jrn \in Journals /\ jrn \in jdisk /\ base \in Committable
  BY DEF LocalInv, LocalTypes, FileInv, FileTypes, FilesOK, GhostInv, GhostsOK
<1>2. /\ \E caller \in {"open", "begin", "rollback"} : RecoveredFor(q, caller)
      /\ DeleteJournal \/ UNCHANGED journal
      /\ pc[q] = "clean" /\ UNCHANGED database
  BY <1>1, RecoveredCases
<1>3. /\ from[q] = "rollback" => AllGive(jdisk, disk, base)
      /\ jrn.hot => Plain(disk, base) /\ Undo(jrn, disk, base)
      /\ JournalsRecover /\ HotIsSafe /\ base \in allowed
  BY <1>2 DEF GInv, JournalsRecover, PagerOK, ReplayOK, ReplaySteps
<1>4. PICK b \in allowed : Plain(disk, b) /\ (jrn.hot => Undo(jrn, disk, b))
  <2>1. \E c \in allowed : Plain(disk, c)
    BY <1>2 DEF GInv, PagerOK, ReplayOK
  <2>. QED
    BY <1>3, <2>1
<1>5. (jrn' = Gone /\ jdisk' = {Gone}) \/ (jrn' = jrn /\ jdisk' = jdisk)
  BY <1>2 DEF DeleteJournal, journal
<1>6. \A r \in Pagers \ {q} : lock[r] = "none"
  BY <1>2, Alone DEF ReplaySteps
<1>7. Gives(Gone, disk, b) /\ Gone.img = <<>> /\ ~Gone.hot
  BY <1>4, Fields DEF Gives
<1>8. disk' = disk
  BY <1>2 DEF database
<1>9. CASE RecoveredFor(q, "open")
  <2>1. pc'[q] = "idle" /\ UNCHANGED <<base, next, allowed>>
    BY <1>1, <1>9 DEF RecoveredFor, Moves, ghosts
  <2>2. JournalsRecover' /\ HotIsSafe'
    BY <1>3, <1>5, <1>7, <1>8, <2>1 DEF JournalsRecover, HotIsSafe
  <2>. QED
    BY <1>6, <2>1, <2>2, QuietPager, AloneStep
<1>10. CASE RecoveredFor(q, "begin")
  <2>1. pc'[q] = "read" /\ Resolve
    BY <1>1, <1>10 DEF RecoveredFor, Moves
  <2>2. \A r \in Pagers \ {q} : lock[r] # "exclusive"
    BY <1>6
  <2>. QED
    BY <1>2, <1>4, <2>1, <2>2, ResolveStep
<1>11. CASE RecoveredFor(q, "rollback")
  <2>1. pc'[q] = "unlocked" /\ allowed' = {base} /\ UNCHANGED <<base, next>>
        /\ from[q] = "rollback"
    BY <1>1, <1>11 DEF RecoveredFor, Moves
  <2>2. AllGive(jdisk, disk, base) /\ Plain(disk, base)
    <3>1. Gives(jrn, disk, base) /\ AllGive(jdisk, disk, base)
      BY <1>1, <1>3, <2>1 DEF AllGive
    <3>. QED
      BY <1>3, <3>1 DEF Gives
  <2>3. Gives(Gone, disk, base)
    BY <1>7, <2>2 DEF Gives
  <2>4. JournalsRecover'
    BY <1>3, <1>5, <1>7, <1>8, <2>1, <2>2, <2>3 DEF JournalsRecover, AllGive
  <2>5. HotIsSafe'
    BY <1>3, <1>5, <1>7, <1>8, <2>1 DEF HotIsSafe
  <2>. QED
    BY <1>6, <2>1, <2>4, <2>5, QuietPager, AloneStep
<1>. QED
  BY <1>2, <1>9, <1>10, <1>11

\* A recovery that fails leaves its journal to the next one.
LEMMA ReplayFailsGInv ==
    ASSUME LocalInv, FileInv, GInv, NEW q \in Pagers, LocalStep(q), ReplayFails(q)
    PROVE  GInv'
<1>1. /\ pc[q] \in ReplaySteps /\ from[q] \in {"open", "begin", "rollback"} /\ jrn \in jdisk
      /\ UNCHANGED <<wset, database, journal, base, next, allowed>>
      /\ pc'[q] \in {"closed", "idle"} \/ (pc'[q] = "failed" /\ from[q] = "rollback")
  BY DEF ReplayFails, Goto, LocalInv, LocalTypes, FileInv, FilesOK, ghosts
<1>2. /\ jrn.exists
      /\ from[q] = "rollback" => wset[q] = {} /\ AllGive(jdisk, disk, base)
  BY <1>1 DEF GInv, PagerOK, ReplayOK
<1>3. PagerOK(q)'
  <2>1. CASE pc'[q] \in {"closed", "idle"}
    BY <2>1, QuietPager
  <2>2. CASE pc'[q] = "failed" /\ from[q] = "rollback"
    <3>1. jrn.hot => Undo(jrn, disk, base)
      BY <1>1, <1>2, <2>2 DEF AllGive, Gives
    <3>. QED
      BY <1>1, <1>2, <2>2, <3>1
         DEF PagerOK, ReadOK, CommitOK, StepsOK, ReplayOK, CommitSteps, ReplaySteps, database,
             journal
  <2>. QED
    BY <1>1, <2>1, <2>2
<1>. QED
  BY <1>1, <1>3, FrameStep

-----------------------------------------------------------------------------
(* Recovery: ROLLBACK, crashes, power losses *)

LEMMA RollbackGInv ==
    ASSUME LocalInv, FileInv, GInv, NEW q \in Pagers, LocalStep(q),
           RollbackFailed(q) \/ Rollback(q) \/ DropTransaction(q)
    PROVE  GInv'
<1>1. CASE RollbackFailed(q)
  <2>1. /\ jrn.exists /\ StartReplay(q, "rollback") /\ wset'[q] = {}
        /\ pc[q] = "failed" /\ pending[q]
        /\ UNCHANGED <<database, journal, base, next, allowed>>
    BY <1>1 DEF RollbackFailed, LocalInv, LocalTypes, ghosts
  <2>2. AllGive(jdisk, disk, base)
    BY <2>1 DEF GInv, PagerOK, CommitOK
  <2>. QED
    BY <2>1, <2>2, ReplayStarts
<1>2. CASE Rollback(q) \/ DropTransaction(q)
  <2>1. /\ pc'[q] \in {"unlocked", "idle"}
        /\ UNCHANGED <<database, journal, base, next, allowed>>
    BY <1>2 DEF Rollback, DropTransaction, Goto, LocalInv, LocalTypes, ghosts
  <2>. QED
    BY <2>1, QuietPager, FrameStep
<1>. QED
  BY <1>1, <1>2

\* A journal deleted without a lock, while the file does not need it.
LEMMA LateDeleteGInv ==
    ASSUME LocalInv, FileInv, GhostInv, GInv, NEW q \in Pagers, LocalStep(q), LateDelete(q), guarded'
    PROVE  GInv'
<1>1. /\ pc'[q] = "idle" /\ UNCHANGED <<database, base, next, allowed>>
      /\ \/ UNCHANGED journal
         \/ /\ DeleteJournal
            /\ ~jrn.exists \/ (Settled /\ \A r \in Pagers : lock[r] # "exclusive")
  BY DEF LateDelete, Goto, LocalInv, LocalTypes
<1>2. CASE UNCHANGED journal
  BY <1>1, <1>2, QuietPager, FrameStep
<1>3. CASE DeleteJournal /\ ~jrn.exists
  <2>1. UNCHANGED journal
    BY <1>3 DEF DeleteJournal, journal, FileInv, FilesOK, Sane
  <2>. QED
    BY <1>2, <2>1
<1>4. CASE DeleteJournal /\ Settled /\ \A r \in Pagers : lock[r] # "exclusive"
  <2>1. /\ jrn' = Gone /\ jdisk' = {Gone} /\ disk' = disk /\ base \in allowed
        /\ ~jrn'.hot /\ Gone.img = <<>> /\ ~Gone.hot
    BY <1>1, <1>4, Fields DEF DeleteJournal, database, GInv, JournalsRecover
  <2>2. Plain(disk, base)
    BY <1>4, SettledPlain
  <2>3. JournalsRecover' /\ HotIsSafe'
    BY <1>1, <2>1, <2>2 DEF JournalsRecover, HotIsSafe, Gives
  <2>4. ASSUME NEW r \in Pagers
        PROVE  PagerOK(r)'
    <3>1. CASE r = q
      BY <1>1, <3>1, QuietPager
    <3>2. CASE r # q
      <4>1. lock[r] # "exclusive" /\ Fits(pc[r], lock[r]) /\ pc'[r] = pc[r] /\ pc[r] \in Steps
        BY <1>4, <3>2, OthersKeep DEF LocalInv, LocalTypes
      <4>2. pc'[r] \in {"closed", "idle", "hot", "unlocked"} \/ pc'[r] \in {"read", "write"}
        BY <4>1 DEF Fits, Steps
      <4>3. CASE pc'[r] \in {"read", "write"}
        BY <1>1, <2>1, <2>2, <4>3
           DEF PagerOK, ReadOK, CommitOK, StepsOK, ReplayOK, CommitSteps, ReplaySteps
      <4>. QED
        BY <4>2, <4>3, QuietPager
    <3>. QED
      BY <3>1, <3>2
  <2>. QED
    BY <2>3, <2>4 DEF GInv
<1>. QED
  BY <1>1, <1>2, <1>3, <1>4

LEMMA CrashGInv ==
    ASSUME OneProcess = FALSE, LocalInv, GInv, NEW q \in Pagers, Crash(q)
    PROVE  GInv'
<1>1. Down({q}) /\ UNCHANGED <<database, journal>>
  BY DEF Crash
<1>2. UNCHANGED <<from, base, next, allowed>> /\ pc'[q] = "closed"
  BY <1>1 DEF Down, ghosts
<1>3. /\ pc' = [pc EXCEPT ![q] = "closed"] /\ lock' = [lock EXCEPT ![q] = "none"]
      /\ wset' = [wset EXCEPT ![q] = {}] /\ todo' = [todo EXCEPT ![q] = {}]
      /\ handle' = [handle EXCEPT ![q] = Gone]
  BY <1>1 DEF Down, LocalInv, LocalTypes
<1>4. pending' = [pending EXCEPT ![q] = FALSE]
  <2>1. pending' = [r \in Pagers |-> pending[r] /\ r \notin {q}]
    BY <1>1 DEF Down
  <2>. QED
    BY <2>1 DEF LocalInv, LocalTypes
<1>5. LocalStep(q)
  BY <1>2, <1>3, <1>4, Fields
     DEF LocalStep, LocalInv, LocalTypes, Fits, Steps, Levels, CommitSteps, ReplaySteps
<1>. QED
  BY <1>1, <1>2, <1>5, QuietPager, FrameStep

LEMMA PowerLossGInv ==
    ASSUME FileInv, GInv, PowerLoss
    PROVE  GInv'
<1>1. /\ jrn' \in jdisk /\ jdisk' = {jrn'} /\ \A p \in Pages : disk'[p] \subseteq disk[p]
      /\ jdisk \subseteq Journals
  BY PowerLossFiles DEF FileInv, FileTypes
<1>2. /\ \A q \in Pagers : pc'[q] = "closed"
      /\ UNCHANGED <<base, allowed>>
  BY DEF PowerLoss, Down, ghosts
<1>3. JournalsRecover' /\ HotIsSafe'
  BY <1>1, <1>2, Shrink DEF GInv, JournalsRecover, HotIsSafe
<1>. QED
  BY <1>2, <1>3, QuietPager DEF GInv

-----------------------------------------------------------------------------
(* The theorems *)

LEMMA InitGInv == Init => GInv
<1>. SUFFICES ASSUME Init PROVE GInv
  OBVIOUS
<1>1. Plain(disk, base)
  BY AbsentIsNoVersion DEF Init, Plain, Matches
<1>2. JournalsRecover /\ HotIsSafe
  BY <1>1, Fields DEF Init, JournalsRecover, HotIsSafe, Gives
<1>3. \A q \in Pagers : PagerOK(q)
  BY DEF Init, PagerOK, ReadOK, CommitOK, StepsOK, ReplayOK, CommitSteps, ReplaySteps
<1>. QED
  BY <1>2, <1>3 DEF GInv

\* A journal lost is lost for good.
LEMMA GuardedStays ==
    ASSUME LocalInv, [Next]_vars, guarded'
    PROVE  guarded
<1>1. ASSUME NEW q \in Pagers, PagerStep(q)
      PROVE  guarded
  <2>1. CASE guarded' = guarded
    BY <2>1
  <2>2. CASE Open(q) \/ OpenHot(q) \/ BeginHot(q) \/ BeginRecovery(q) \/ BeginBusy(q)
             \/ EnsureWriter(q) \/ EndRead(q) \/ Retry(q) \/ WriteRecord(q) \/ SyncRecords(q)
             \/ WritePage(q) \/ SyncDatabase(q) \/ Invalidate(q) \/ InvalidateFails(q)
             \/ CommitFails(q) \/ WriteBack(q) \/ SyncRestored(q) \/ CutDatabase(q)
             \/ RetireJournal(q) \/ ReplayFails(q) \/ RollbackFailed(q) \/ Rollback(q)
             \/ DropTransaction(q)
    <3>1. UNCHANGED ghosts
      BY <2>2
         DEF Open, OpenHot, BeginHot, BeginRecovery, BeginBusy, EnsureWriter, EndRead, Retry,
             WriteRecord, SyncRecords, WritePage, SyncDatabase, Invalidate, InvalidateFails,
             CommitFails, WriteBack, SyncRestored, CutDatabase, RetireJournal, ReplayFails,
             RollbackFailed, Rollback, DropTransaction
    <3>. QED
      BY <2>1, <3>1 DEF ghosts
  <2>3. CASE Begin(q) \/ BeginVanished(q) \/ StartCommit(q) \/ Committed(q)
    BY <2>1, <2>3 DEF Begin, BeginVanished, StartCommit, Committed, Resolve, ghosts
  <2>4. CASE WriteHeader(q)
    BY <2>4, Zenon DEF WriteHeader
  <2>5. CASE NothingToReplay(q)
    BY <2>1, <2>5, Zenon DEF NothingToReplay, ghosts
  <2>6. CASE LateDelete(q)
    BY <2>1, <2>6, Zenon DEF LateDelete
  <2>7. CASE Recovered(q)
    <3>1. from[q] \in {"open", "begin", "rollback"}
      BY DEF LocalInv, LocalTypes
    <3>2. PICK caller \in {"open", "begin", "rollback"} : RecoveredFor(q, caller)
      BY <2>7, <3>1, RecoveredCases
    <3>. QED
      BY <2>1, <3>2 DEF RecoveredFor, Resolve, ghosts
  <2>. QED
    BY <1>1, <2>2, <2>3, <2>4, <2>5, <2>6, <2>7 DEF PagerStep
<1>2. CASE PowerLoss \/ \E q \in Pagers : Crash(q)
  BY <1>2 DEF PowerLoss, Crash, Down, ghosts
<1>3. CASE UNCHANGED vars
  BY <1>3 DEF vars, ghosts
<1>. QED
  BY <1>1, <1>2, <1>3, NextSplit

LEMMA NextGInv ==
    ASSUME OneProcess = FALSE, BInv, LocksExclude, GInv, [Next]_vars, guarded'
    PROVE  GInv'
<1>1. LocalInv /\ FileInv /\ GhostInv
  BY TypeParts
<1>2. GhostInv'
  <2>1. BInv'
    BY NextBInv
  <2>2. BInv' <=> LocalInv' /\ FileInv' /\ GhostInv'
    BY TypeParts, PTL
  <2>. QED
    BY <2>1, <2>2
<1>3. ASSUME NEW q \in Pagers, PagerStep(q)
      PROVE  GInv'
  <2>1. LocalStep(q)
    BY <1>1, <1>3, LocalSteps
  <2>2. CASE \/ Open(q) \/ OpenHot(q) \/ Begin(q) \/ BeginHot(q) \/ BeginRecovery(q)
             \/ BeginVanished(q) \/ BeginBusy(q) \/ EnsureWriter(q) \/ EndRead(q)
    BY <1>1, <2>1, <2>2, BeginGInv
  <2>3. CASE StartCommit(q)
    BY <1>1, <1>2, <2>1, <2>3, StartCommitGInv
  <2>4. CASE Retry(q) \/ WriteHeader(q) \/ WriteRecord(q) \/ SyncRecords(q)
    BY <1>1, <2>1, <2>4, RetryGInv, WriteHeaderGInv, WriteRecordGInv, SyncRecordsGInv
  <2>5. CASE WritePage(q) \/ SyncDatabase(q) \/ Invalidate(q) \/ InvalidateFails(q)
    BY <1>1, <2>1, <2>5, WritePageGInv, SyncDatabaseGInv, InvalidateGInv
  <2>6. CASE Committed(q) \/ CommitFails(q)
    BY <1>1, <2>1, <2>6, CommittedGInv, CommitFailsGInv
  <2>7. CASE WriteBack(q) \/ SyncRestored(q) \/ CutDatabase(q) \/ RetireJournal(q)
    BY <1>1, <2>1, <2>7, WriteBackGInv, SyncRestoredGInv, CutDatabaseGInv, RetireJournalGInv
  <2>8. CASE NothingToReplay(q) \/ Recovered(q) \/ ReplayFails(q)
    BY <1>1, <2>1, <2>8, NothingToReplayGInv, RecoveredGInv, ReplayFailsGInv
  <2>9. CASE RollbackFailed(q) \/ Rollback(q) \/ LateDelete(q) \/ DropTransaction(q)
    BY <1>1, <2>1, <2>9, RollbackGInv, LateDeleteGInv
  <2>. QED
    BY <1>3, <2>2, <2>3, <2>4, <2>5, <2>6, <2>7, <2>8, <2>9 DEF PagerStep
<1>4. CASE UNCHANGED vars
  <2>1. UNCHANGED <<pc, pending, wset, todo, from, handle, cache, disk, jrn, jdisk, base, next,
                    allowed>>
    BY <1>4 DEF vars, locals, database, journal, ghosts
  <2>2. JournalsRecover' /\ HotIsSafe'
    BY <2>1 DEF GInv, JournalsRecover, HotIsSafe
  <2>3. ASSUME NEW r \in Pagers
        PROVE  PagerOK(r)'
    <3>1. PagerOK(r)
      BY DEF GInv
    <3>2. ReadOK(r)' /\ CommitOK(r)'
      BY <2>1, <3>1 DEF PagerOK, ReadOK, CommitOK, NextOK
    <3>3. StepsOK(r)' /\ ReplayOK(r)'
      BY <2>1, <3>1 DEF PagerOK, StepsOK, ReplayOK
    <3>. QED
      BY <3>2, <3>3 DEF PagerOK
  <2>. QED
    BY <2>2, <2>3 DEF GInv
<1>. QED
  BY <1>1, <1>3, <1>4, CrashGInv, PowerLossGInv, NextSplit

\* Every variable keeps its type, and each step its lock.
THEOREM TypeCorrect == Spec => []TypeOK
<1>1. BInv => TypeOK
  BY DEF BInv
<1>. QED
  BY <1>1, InitBInv, NextBInv, PTL DEF Spec

\* With pagers in processes of their own the file locks exclude, and as long
\* as no journal is lost every journal that may be found gives a commit.
THEOREM Invariance ==
    ASSUME OneProcess = FALSE
    PROVE  Spec => []IInv
<1>1. Init => IInv
  BY InitBInv, InitGInv DEF Init, IInv, LocksExclude
<1>2. IInv /\ [Next]_vars => IInv'
  <2>. SUFFICES ASSUME IInv, [Next]_vars PROVE IInv'
    OBVIOUS
  <2>1. BInv' /\ LocksExclude'
    BY NextBInv, NextLocks, TypeParts DEF IInv
  <2>2. guarded' => GInv'
    BY GuardedStays, NextGInv, TypeParts DEF IInv
  <2>. QED
    BY <2>1, <2>2 DEF IInv
<1>. QED
  BY <1>1, <1>2, PTL DEF Spec

\* Atomicity and durability: after a power loss at any moment, recovery gives
\* the last commit that returned, or all of one in doubt.
THEOREM RecoveryGivesCommitted ==
    ASSUME OneProcess = FALSE
    PROVE  Spec => []RecoversToCommitted
<1>1. IInv => RecoversToCommitted
  <2>. SUFFICES ASSUME FileInv, JournalsRecover, NEW o \in Outcomes
                PROVE  \E b \in allowed : StandsFor(o, b)
    BY TypeParts DEF IInv, GInv, RecoversToCommitted
  <2>1. PICK j \in jdisk, i \in DiskImages : o = Image(j, i)
    BY DEF Outcomes, Image
  <2>2. j \in Journals /\ \A p \in Pages : i[p] \in disk[p]
    BY DEF FileInv, FileTypes, DiskImages
  <2>3. PICK b \in allowed : Gives(j, disk, b)
    BY DEF JournalsRecover
  <2>. QED
    BY <2>1, <2>2, <2>3, ImageStands
<1>. QED
  BY <1>1, Invariance, PTL

\* Isolation: inside a transaction the file holds the last commit, and never a
\* page of one that is being written or taken back.
THEOREM ReadersIsolated ==
    ASSUME OneProcess = FALSE
    PROVE  Spec => []ReadersSeeCommitted
<1>1. IInv => ReadersSeeCommitted
  <2>. SUFFICES ASSUME FileInv, GInv, NEW q \in Pagers, pc[q] \in {"read", "write"}
                PROVE  StandsFor(cache, base)
    BY TypeParts DEF IInv, ReadersSeeCommitted
  <2>1. Plain(disk, base)
    BY DEF GInv, PagerOK, ReadOK
  <2>. QED
    BY <2>1, CacheIsImage DEF Plain, StandsFor, Matches
<1>. QED
  BY <1>1, Invariance, PTL

=============================================================================
