------------------------ MODULE ConcurrentSsiProofs ------------------------
(***************************************************************************)
(* Proofs about ConcurrentSsi for any number of transactions and pages and *)
(* any limits: types, page locks, first committer wins, the completeness   *)
(* of the conflict history, and the implementation of the abstract store.  *)
(*                                                                         *)
(* First committer wins is a statement about positions in the log and the  *)
(* view each transaction reads; the code decides it with commit sequences, *)
(* the snapshot's high and the commit index.  The inductive invariant says *)
(* how the two are related.                                                *)
(***************************************************************************)
EXTENDS ConcurrentSsi, SequenceTheorems, TLAPS

-----------------------------------------------------------------------------
(* The inductive invariant *)

\* What is in the log was committed under a sequence already handed out.
LogSequenced ==
    \A i \in DOMAIN wal :
        /\ phase[wal[i]] = "committed"
        /\ seqOf[wal[i]] < nextSeq

\* A session's high is a sequence already handed out, and the commits it
\* covers are within the view its pages are read from.
SnapshotCovers ==
    \A t \in Txns :
        phase[t] = "active" =>
            /\ high[t] < nextSeq
            /\ \A i \in DOMAIN wal : seqOf[wal[i]] <= high[t] => i <= view[t]

\* The commit index is not behind any commit of the page.
IndexCovers ==
    \A i \in DOMAIN wal : \A p \in writes[wal[i]] : seqOf[wal[i]] <= index[p]

\* A transaction that has not begun has written nothing.
IdleIsClean == \A t \in Txns : phase[t] = "idle" => writes[t] = {}

IInv ==
    /\ TypeOK
    /\ LogSequenced
    /\ SnapshotCovers
    /\ IndexCovers
    /\ IdleIsClean
    /\ LocksMatchSessions
    /\ NoLostUpdate

-----------------------------------------------------------------------------
(* Lemmas about the operators *)

\* A session is a transaction in phase "active": the library specification
\* has no commits under way.
LEMMA SessionsAreActive ==
    ASSUME TypeOK
    PROVE  Sessions = {t \in Txns : phase[t] = "active"}
BY DEF TypeOK, Sessions, Registered

\* release_set leaves a well-formed lock table.
LEMMA UnlockType ==
    ASSUME TypeOK, NEW t \in Txns
    PROVE  Unlock(t) \in [Pages -> Txns \cup {NoTxn}]
BY DEF TypeOK, Unlock

\* Pruning only removes history entries.
LEMMA RetainedSubset ==
    ASSUME NEW hist, NEW live
    PROVE  Retained(hist, live) \subseteq hist
BY DEF Retained

\* A history entry pushed by a commit is one.
LEMMA NewEntryType ==
    ASSUME TypeOK, NEW t \in Txns, NEW seq \in Nat, NEW in, NEW out
    PROVE  /\ NewReader(t, seq, in) \subseteq Entry
           /\ NewWriter(t, seq, out) \subseteq Entry
<1>1. pushes + 1 \in Nat
  BY DEF TypeOK
<1>2. (in # {}) \in BOOLEAN /\ (out # {}) \in BOOLEAN
  OBVIOUS
<1>3. \A b \in BOOLEAN, n \in Nat :
        [txn |-> t, seq |-> seq, rw |-> b, ord |-> n] \in Entry
  BY DEF Entry
<1>4. [txn |-> t, seq |-> seq, rw |-> in # {}, ord |-> pushes + 1] \in Entry
  BY <1>1, <1>2, <1>3, Zenon
<1>5. [txn |-> t, seq |-> seq, rw |-> out # {}, ord |-> pushes + 1] \in Entry
  BY <1>1, <1>2, <1>3, Zenon
<1>. QED
  BY <1>4, <1>5, Zenon DEF NewReader, NewWriter

\* Finalizing a commit keeps the types of everything it touches, stores its
\* sequence in the commit index and releases its locks.
LEMMA PublishType ==
    ASSUME TypeOK, NEW t \in Txns, NEW seq \in Nat, NEW in, NEW out,
           Publish(t, seq, in, out)
    PROVE  /\ hasIn' \in [Txns -> BOOLEAN]
           /\ hasOut' \in [Txns -> BOOLEAN]
           /\ marked' \in [Txns -> BOOLEAN]
           /\ index' = PublishIndex(t, seq)
           /\ index' \in [Pages -> Nat]
           /\ lock' = Unlock(t)
           /\ lock' \in [Pages -> Txns \cup {NoTxn}]
           /\ readers' \subseteq Entry
           /\ writers' \subseteq Entry
           /\ pushes' \in Nat
<1>. DEFINE mk(doom) == [u \in Txns |-> marked[u] \/ (doom /\ u \in Pivots(t, in, out))]
            live(doom) == Unmarked(mk(doom)) \ {t}
            R == readers \cup NewReader(t, seq, in)
            W == writers \cup NewWriter(t, seq, out)
            Effect(doom, D) ==
              /\ hasIn' = [u \in Txns |-> u # t /\ HasInAfter(t, out, u)]
              /\ hasOut' = [u \in Txns |-> u # t /\ HasOutAfter(t, in, u)]
              /\ marked' = [u \in Txns |-> u # t /\ (mk(doom)[u] \/ u \in D)]
              /\ index' = PublishIndex(t, seq)
              /\ lock' = Unlock(t)
              /\ readers' = Retained(R, live(doom) \ D)
              /\ writers' = Retained(W, live(doom) \ D)
              /\ pushes' = pushes + 1
<1>1. PICK doom \in BOOLEAN : \E D \in Doomable(R, W, live(doom)) : Effect(doom, D)
  BY Zenon DEF Publish
<1>2. PICK D \in Doomable(R, W, live(doom)) : Effect(doom, D)
  BY <1>1
<1>3. hasIn' \in [Txns -> BOOLEAN] /\ hasOut' \in [Txns -> BOOLEAN]
  BY <1>2, Zenon
<1>4. marked' \in [Txns -> BOOLEAN]
  BY <1>2, Zenon
<1>5. index' = PublishIndex(t, seq) /\ index' \in [Pages -> Nat]
  BY <1>2 DEF PublishIndex, TypeOK
<1>6. lock' = Unlock(t) /\ lock' \in [Pages -> Txns \cup {NoTxn}]
  BY <1>2, UnlockType
<1>7. readers' \subseteq Entry /\ writers' \subseteq Entry
  <2>1. /\ readers' \subseteq readers \cup NewReader(t, seq, in)
        /\ writers' \subseteq writers \cup NewWriter(t, seq, out)
    BY <1>2, RetainedSubset, Zenon
  <2>. QED
    BY <2>1, NewEntryType, Zenon DEF TypeOK
<1>8. pushes' \in Nat
  BY <1>2 DEF TypeOK
<1>. QED
  BY <1>3, <1>4, <1>5, <1>6, <1>7, <1>8

-----------------------------------------------------------------------------
(* The invariant is inductive *)

LEMMA InitIInv == Init => IInv
<1>. SUFFICES ASSUME Init PROVE IInv
  OBVIOUS
<1>1. TypeOK
  BY DEF Init, TypeOK
<1>2. DOMAIN wal = {}
  BY DEF Init
<1>3. LogSequenced /\ SnapshotCovers /\ IndexCovers /\ NoLostUpdate
  BY <1>2 DEF Init, LogSequenced, SnapshotCovers, IndexCovers, NoLostUpdate
<1>4. IdleIsClean /\ LocksMatchSessions
  BY NoTxnAssumption DEF Init, IdleIsClean, LocksMatchSessions, Sessions, Registered
<1>. QED
  BY <1>1, <1>3, <1>4 DEF IInv

\* begin_concurrent: the snapshot covers the whole log.
LEMMA BeginIInv ==
    ASSUME IInv, NEW t \in Txns, BeginConcurrent(t)
    PROVE  IInv'
<1>. USE DEF IInv, BeginConcurrent, historyVars
<1>1. TypeOK'
  BY DEF TypeOK, SnapshotHigh
<1>2. \A i \in DOMAIN wal : wal[i] \in Txns /\ wal[i] # t /\ i \in Nat /\ i <= Len(wal)
  BY DEF TypeOK, LogSequenced
<1>3. LogSequenced'
  BY <1>2 DEF TypeOK, LogSequenced
<1>4. SnapshotCovers'
  BY <1>2 DEF TypeOK, SnapshotCovers, LogSequenced, SnapshotHigh
<1>5. IndexCovers' /\ NoLostUpdate'
  BY <1>2 DEF TypeOK, IndexCovers, NoLostUpdate, Overlap
<1>6. IdleIsClean'
  BY DEF TypeOK, IdleIsClean
<1>7. LocksMatchSessions'
  BY DEF TypeOK, IdleIsClean, LocksMatchSessions, Sessions, Registered
<1>. QED
  BY <1>1, <1>3, <1>4, <1>5, <1>6, <1>7

\* record_read: nothing the invariant speaks of changes.
LEMMA ReadIInv ==
    ASSUME IInv, NEW t \in Txns, NEW p \in Pages, RecordRead(t, p)
    PROVE  IInv'
<1>. USE DEF IInv, RecordRead, historyVars
<1>1. TypeOK'
  BY DEF TypeOK
<1>2. LogSequenced' /\ SnapshotCovers' /\ IndexCovers' /\ NoLostUpdate'
  BY DEF LogSequenced, SnapshotCovers, IndexCovers, NoLostUpdate, Overlap
<1>3. IdleIsClean' /\ LocksMatchSessions'
  BY DEF IdleIsClean, LocksMatchSessions, Sessions
<1>. QED
  BY <1>1, <1>2, <1>3

\* concurrent_write_page: the written set of a session grows by a locked page.
LEMMA WriteIInv ==
    ASSUME IInv, NEW t \in Txns, NEW p \in Pages, ConcurrentWritePage(t, p)
    PROVE  IInv'
<1>. USE DEF IInv, ConcurrentWritePage, historyVars
<1>1. TypeOK'
  BY DEF TypeOK
<1>2. \A i \in DOMAIN wal : wal[i] \in Txns /\ writes'[wal[i]] = writes[wal[i]]
  BY DEF TypeOK, LogSequenced
<1>3. LogSequenced' /\ SnapshotCovers'
  BY DEF LogSequenced, SnapshotCovers
<1>4. IndexCovers' /\ NoLostUpdate'
  BY <1>2 DEF IndexCovers, NoLostUpdate, Overlap
<1>5. IdleIsClean'
  BY DEF TypeOK, IdleIsClean
<1>6. LocksMatchSessions'
  BY NoTxnAssumption
     DEF TypeOK, LocksMatchSessions, Sessions, Registered, Lockable
<1>. QED
  BY <1>1, <1>3, <1>4, <1>5, <1>6

\* concurrent_abort: the session's sets and locks go together.
LEMMA DiscardIInv ==
    ASSUME IInv, NEW t \in Txns, phase[t] = "active", Discard(t)
    PROVE  IInv'
<1>. USE DEF IInv, Discard, historyVars
<1>1. TypeOK'
  BY UnlockType DEF TypeOK
<1>2. \A i \in DOMAIN wal : wal[i] \in Txns /\ wal[i] # t
  BY DEF TypeOK, LogSequenced
<1>3. LogSequenced' /\ SnapshotCovers'
  BY <1>2 DEF TypeOK, LogSequenced, SnapshotCovers
<1>4. IndexCovers' /\ NoLostUpdate'
  BY <1>2 DEF TypeOK, IndexCovers, NoLostUpdate, Overlap
<1>5. IdleIsClean'
  BY DEF TypeOK, IdleIsClean
<1>6. LocksMatchSessions'
  BY NoTxnAssumption
     DEF TypeOK, LocksMatchSessions, Sessions, Registered, Unlock
<1>. QED
  BY <1>1, <1>3, <1>4, <1>5, <1>6

\* What commit-time validation against the commit index establishes: every
\* commit of a page that t writes is within t's view.
LEMMA ValidatedIsFirst ==
    ASSUME IInv, NEW t \in Txns, phase[t] = "active", ~BaseDrift(t)
    PROVE  \A i \in DOMAIN wal :
               Overlap(writes[wal[i]], writes[t]) => i <= view[t]
<1>. SUFFICES ASSUME NEW i \in DOMAIN wal, NEW p \in writes[wal[i]] \cap writes[t]
              PROVE  i <= view[t]
  BY DEF Overlap
<1>1. index[p] <= high[t]
  BY DEF IInv, TypeOK, BaseDrift
<1>2. seqOf[wal[i]] <= index[p]
  BY DEF IInv, IndexCovers
<1>3. seqOf[wal[i]] <= high[t]
  BY <1>1, <1>2 DEF IInv, TypeOK
<1>. QED
  BY <1>3 DEF IInv, SnapshotCovers

\* The log after t's commit: the old one, and t behind it if it wrote.
LEMMA CommitLog ==
    ASSUME IInv, NEW t \in Txns, CommitWithSsi(t)
    PROVE  /\ wal' \in Seq(Txns)
           /\ \A i \in DOMAIN wal' :
                 \/ /\ i \in DOMAIN wal /\ wal'[i] = wal[i]
                    /\ wal[i] \in Txns /\ wal[i] # t
                 \/ /\ i \notin DOMAIN wal /\ i = Len(wal) + 1
                    /\ wal'[i] = t /\ writes[t] # {}
           /\ \A i \in DOMAIN wal : i \in Nat /\ i <= Len(wal)
<1>. USE DEF IInv, TypeOK, CommitWithSsi
<1>1. \A i \in DOMAIN wal : wal[i] \in Txns /\ wal[i] # t
  BY DEF LogSequenced
<1>2. CASE writes[t] = {}
  BY <1>1, <1>2
<1>3. CASE writes[t] # {}
  <2>1. wal' = Append(wal, t)
    BY <1>3
  <2>2. wal' \in Seq(Txns)
    BY <2>1
  <2>3. DOMAIN wal = 1 .. Len(wal) /\ DOMAIN wal' = 1 .. (Len(wal) + 1)
    BY <2>1
  <2>4. \A i \in DOMAIN wal : wal'[i] = wal[i]
    BY <2>1
  <2>5. wal'[Len(wal) + 1] = t
    BY <2>1
  <2>6. Len(wal) \in Nat
    OBVIOUS
  <2>. QED
    BY <1>1, <1>3, <2>2, <2>3, <2>4, <2>5, <2>6
<1>. QED
  BY <1>2, <1>3

\* concurrent_commit_with_ssi, accepted: the new sequence is above every index
\* entry and every snapshot, and validation has put t's conflicts in its view.
LEMMA CommitIInv ==
    ASSUME IInv, NEW t \in Txns, CommitWithSsi(t)
    PROVE  IInv'
<1>. DEFINE in == PlannedIn(t, nextSeq) \cup Incoming(t, nextSeq)
            out == PlannedOut(t, nextSeq) \cup Outgoing(t, nextSeq)
<1>1. /\ phase[t] = "active"
      /\ phase' = [phase EXCEPT ![t] = "committed"]
      /\ seqOf' = [seqOf EXCEPT ![t] = nextSeq]
      /\ nextSeq' = nextSeq + 1
      /\ UNCHANGED <<view, high, reads, writes>>
      /\ Publish(t, nextSeq, in, out)
      /\ ~BaseDrift(t)
  BY DEF CommitWithSsi, Refuses
<1>. HIDE DEF in, out
<1>2. TypeOK /\ nextSeq \in Nat
  BY DEF IInv, TypeOK
<1>3. /\ index' = PublishIndex(t, nextSeq)
      /\ lock' = Unlock(t)
  BY <1>1, <1>2, PublishType
<1>4. /\ wal' \in Seq(Txns)
      /\ \A i \in DOMAIN wal' :
            \/ /\ i \in DOMAIN wal /\ wal'[i] = wal[i]
               /\ wal[i] \in Txns /\ wal[i] # t
            \/ /\ i \notin DOMAIN wal /\ i = Len(wal) + 1
               /\ wal'[i] = t /\ writes[t] # {}
      /\ \A i \in DOMAIN wal : i \in Nat /\ i <= Len(wal)
  BY CommitLog
<1>5. TypeOK'
  <2>1. /\ hasIn' \in [Txns -> BOOLEAN]
        /\ hasOut' \in [Txns -> BOOLEAN]
        /\ marked' \in [Txns -> BOOLEAN]
        /\ index' \in [Pages -> Nat]
        /\ lock' \in [Pages -> Txns \cup {NoTxn}]
        /\ readers' \subseteq Entry
        /\ writers' \subseteq Entry
        /\ pushes' \in Nat
    BY <1>1, <1>2, PublishType
  <2>2. wal' \in Seq(Txns)
    BY <1>4
  <2>3. /\ phase' \in [Txns -> {"idle", "active", "committed", "aborted"}]
        /\ seqOf' \in [Txns -> Nat]
        /\ nextSeq' \in Nat \ {0}
    BY <1>1, <1>2 DEF TypeOK
  <2>. QED
    BY <1>1, <1>2, <2>1, <2>2, <2>3, Zenon DEF TypeOK
<1>6. LogSequenced'
  BY <1>1, <1>2, <1>4, SMTT(30) DEF IInv, TypeOK, LogSequenced
<1>7. SnapshotCovers'
  <2>. SUFFICES ASSUME NEW u \in Txns, phase'[u] = "active"
                PROVE  /\ high[u] < nextSeq'
                       /\ \A i \in DOMAIN wal' : seqOf'[wal'[i]] <= high[u] => i <= view[u]
    BY <1>1 DEF SnapshotCovers
  <2>1. /\ high[u] \in Nat /\ high[u] < nextSeq
        /\ \A i \in DOMAIN wal : seqOf[wal[i]] <= high[u] => i <= view[u]
    BY <1>1, <1>2 DEF IInv, TypeOK, SnapshotCovers
  <2>2. ASSUME NEW i \in DOMAIN wal', seqOf'[wal'[i]] <= high[u]
        PROVE  i <= view[u]
    <3>1. CASE i \in DOMAIN wal
      BY <1>1, <1>2, <1>4, <2>1, <2>2, <3>1 DEF TypeOK
    <3>2. CASE i \notin DOMAIN wal
      BY <1>1, <1>2, <1>4, <2>1, <2>2, <3>2 DEF TypeOK
    <3>. QED
      BY <3>1, <3>2
  <2>. QED
    BY <1>1, <1>2, <2>1, <2>2
<1>8. IndexCovers'
  <2>. SUFFICES ASSUME NEW i \in DOMAIN wal', NEW p \in writes[wal'[i]]
                PROVE  seqOf'[wal'[i]] <= index'[p]
    BY <1>1 DEF IndexCovers
  <2>1. p \in Pages
    BY <1>2, <1>4 DEF TypeOK
  <2>2. index'[p] = IF p \in writes[t] THEN nextSeq ELSE index[p]
    BY <1>3, <2>1 DEF PublishIndex
  <2>3. CASE i \in DOMAIN wal
    <3>1. /\ wal'[i] = wal[i] /\ seqOf'[wal[i]] = seqOf[wal[i]]
          /\ seqOf[wal[i]] \in Nat
      BY <1>1, <1>2, <1>4, <2>3 DEF TypeOK
    <3>2. seqOf[wal[i]] < nextSeq /\ seqOf[wal[i]] <= index[p]
      BY <2>3, <3>1 DEF IInv, LogSequenced, IndexCovers
    <3>. QED
      BY <1>2, <2>2, <3>1, <3>2
  <2>4. CASE i \notin DOMAIN wal
    BY <1>1, <1>2, <1>4, <2>2, <2>4 DEF TypeOK
  <2>. QED
    BY <2>3, <2>4
<1>9. NoLostUpdate'
  <2>. SUFFICES ASSUME NEW i \in DOMAIN wal', NEW j \in DOMAIN wal', i < j,
                       Overlap(writes[wal'[i]], writes[wal'[j]])
                PROVE  i <= view[wal'[j]]
    BY <1>1 DEF NoLostUpdate, Overlap
  <2>1. i \in DOMAIN wal /\ wal'[i] = wal[i]
    BY <1>4
  <2>2. CASE j \in DOMAIN wal
    BY <2>1, <2>2, <1>4 DEF IInv, NoLostUpdate
  <2>3. CASE j \notin DOMAIN wal
    BY <1>1, <2>1, <2>3, <1>4, ValidatedIsFirst
  <2>. QED
    BY <2>2, <2>3
<1>10. IdleIsClean'
  BY <1>1 DEF IInv, TypeOK, IdleIsClean
<1>11. LocksMatchSessions'
  BY <1>1, <1>3, NoTxnAssumption
     DEF IInv, TypeOK, LocksMatchSessions, Sessions, Registered, Unlock
<1>. QED
  BY <1>5, <1>6, <1>7, <1>8, <1>9, <1>10, <1>11 DEF IInv

\* Every step of the library API keeps the invariant.
LEMMA NextIInv == IInv /\ [Next]_ssiVars => IInv'
<1>. SUFFICES ASSUME IInv, [Next]_ssiVars PROVE IInv'
  OBVIOUS
<1>1. CASE Next
  <2>1. PICK t \in Txns :
          \/ BeginConcurrent(t)
          \/ \E p \in Pages : RecordRead(t, p)
          \/ \E p \in Pages : ConcurrentWritePage(t, p)
          \/ CommitWithSsi(t)
          \/ RefuseWithSsi(t)
          \/ ConcurrentAbort(t)
    BY <1>1 DEF Next
  <2>2. CASE BeginConcurrent(t)
    BY <2>2, BeginIInv
  <2>3. CASE \E p \in Pages : RecordRead(t, p)
    BY <2>3, ReadIInv
  <2>4. CASE \E p \in Pages : ConcurrentWritePage(t, p)
    BY <2>4, WriteIInv
  <2>5. CASE CommitWithSsi(t)
    BY <2>5, CommitIInv
  <2>6. CASE RefuseWithSsi(t)
    BY <2>6, DiscardIInv DEF RefuseWithSsi
  <2>7. CASE ConcurrentAbort(t)
    BY <2>7, DiscardIInv DEF ConcurrentAbort
  <2>. QED
    BY <2>1, <2>2, <2>3, <2>4, <2>5, <2>6, <2>7
<1>2. CASE UNCHANGED ssiVars
  BY <1>2 DEF IInv, ssiVars, handleVars, historyVars, TypeOK, LogSequenced,
       SnapshotCovers, IndexCovers, IdleIsClean, LocksMatchSessions, Sessions,
       NoLostUpdate, Overlap
<1>. QED
  BY <1>1, <1>2

-----------------------------------------------------------------------------
(* Theorems *)

\* The conjunction of types, log, snapshot, index, locks and first committer
\* wins holds in every reachable state of the library specification.
THEOREM Invariance == Spec => []IInv
BY InitIInv, NextIInv, PTL DEF Spec

\* Every variable keeps its type through every call of the library API.
THEOREM TypeCorrect == Spec => []TypeOK
<1>1. IInv => TypeOK
  BY DEF IInv
<1>. QED
  BY <1>1, Invariance, PTL

\* The lock table holds exactly the pages written by registered sessions:
\* concurrent_write_page, commit, refusal and abort neither leak nor lose one.
THEOREM LocksCorrect == Spec => []LocksMatchSessions
<1>1. IInv => LocksMatchSessions
  BY DEF IInv
<1>. QED
  BY <1>1, Invariance, PTL

\* First committer wins: validating the commit index against the snapshot's
\* high never lets a commit overwrite a page it has not seen.
THEOREM FirstCommitterWins == Spec => []NoLostUpdate
<1>1. IInv => NoLostUpdate
  BY DEF IInv
<1>. QED
  BY <1>1, Invariance, PTL

-----------------------------------------------------------------------------
(* Coverage of the committed-conflict history *)

\* Entry e of a history stands for transaction u with its sequence.
Stands(e, u) == e.txn = u /\ e.seq = seqOf[u]

\* No sequence is above the clock, and what a session that may still commit
\* would look for is in the history under its own sequence, by which pruning
\* decides.
HInv ==
    /\ \A t \in Txns : seqOf[t] < nextSeq
    /\ \A u \in Txns, t \in Unmarked(marked) :
          (phase[u] = "committed" /\ seqOf[u] > high[t]) =>
              /\ reads[u] # {} => \E r \in readers : Stands(r, u)
              /\ writes[u] # {} => \E w \in writers : Stands(w, u)

\* The history after t's publication: of the old entries and the new one, what
\* is newer than the snapshot of a session in kept, which are unmarked sessions
\* and all that remain so.
Prunes(t, seq, in, out, kept) ==
    /\ kept \subseteq Unmarked(marked) \ {t}
    /\ readers' = Retained(readers \cup NewReader(t, seq, in), kept)
    /\ writers' = Retained(writers \cup NewWriter(t, seq, out), kept)
    /\ \A u \in Sessions \ {t} : ~marked'[u] => u \in kept

\* Publication prunes the history so.
LEMMA PublishHistory ==
    ASSUME NEW t \in Txns, NEW seq, NEW in, NEW out, Publish(t, seq, in, out)
    PROVE  \E kept : Prunes(t, seq, in, out, kept)
<1>. DEFINE mk(doom) == [u \in Txns |-> marked[u] \/ (doom /\ u \in Pivots(t, in, out))]
            live(doom) == Unmarked(mk(doom)) \ {t}
            R == readers \cup NewReader(t, seq, in)
            W == writers \cup NewWriter(t, seq, out)
            Effect(doom, D) ==
              /\ marked' = [u \in Txns |-> u # t /\ (mk(doom)[u] \/ u \in D)]
              /\ readers' = Retained(R, live(doom) \ D)
              /\ writers' = Retained(W, live(doom) \ D)
<1>1. PICK doom \in BOOLEAN : \E D \in Doomable(R, W, live(doom)) : Effect(doom, D)
  BY Zenon DEF Publish
<1>2. PICK D : Effect(doom, D)
  BY <1>1, Zenon
<1>3. live(doom) \ D \subseteq Unmarked(marked) \ {t}
  BY Zenon DEF Unmarked, Sessions
<1>4. \A u \in Sessions \ {t} : ~marked'[u] => u \in live(doom) \ D
  BY <1>2, Zenon DEF Unmarked, Sessions
<1>5. Prunes(t, seq, in, out, live(doom) \ D)
  BY <1>2, <1>3, <1>4, Zenon DEF Prunes
<1>. QED
  BY <1>5, Zenon

LEMMA InitHInv == Init => HInv
BY DEF Init, HInv, Unmarked, Sessions, Registered

\* A step after which no session is unmarked that was not, under the same
\* snapshot, and that touches neither the history nor what it stands for.
LEMMA KeepsHInv ==
    ASSUME HInv, UNCHANGED <<readers, writers, nextSeq, seqOf>>,
           \A u \in Unmarked(marked)' : u \in Unmarked(marked) /\ high'[u] = high[u],
           \A u \in Txns : phase'[u] = "committed" =>
               phase[u] = "committed" /\ reads'[u] = reads[u] /\ writes'[u] = writes[u]
    PROVE  HInv'
<1>1. \A e, u : Stands(e, u)' <=> Stands(e, u)
  BY DEF Stands
<1>. QED
  BY <1>1 DEF HInv

LEMMA NextHInv == IInv /\ HInv /\ [Next]_ssiVars => HInv'
<1>. SUFFICES ASSUME IInv, HInv, [Next]_ssiVars PROVE HInv'
  OBVIOUS
<1>. USE DEF historyVars
<1>1. ASSUME NEW t \in Txns, BeginConcurrent(t) PROVE HInv'
  <2>1. /\ high'[t] = nextSeq - 1 /\ phase'[t] = "active"
        /\ \A u \in Txns \ {t} : phase'[u] = phase[u] /\ high'[u] = high[u]
        /\ UNCHANGED <<reads, writes, marked, readers, writers, nextSeq, seqOf>>
        /\ nextSeq \in Nat /\ \A u \in Txns : seqOf[u] \in Nat
    BY <1>1 DEF BeginConcurrent, SnapshotHigh, IInv, TypeOK
  <2>2. \A e, u : Stands(e, u)' <=> Stands(e, u)
    BY <2>1 DEF Stands
  <2>3. \A u \in Txns : seqOf[u] < nextSeq /\ ~(seqOf[u] > nextSeq - 1)
    BY <2>1 DEF HInv
  <2>4. \A u \in Unmarked(marked)' : u = t \/ (u \in Unmarked(marked) /\ high'[u] = high[u])
    BY <2>1 DEF Unmarked, Sessions
  <2>5. \A u \in Txns : phase'[u] = "committed" => phase[u] = "committed"
    BY <2>1
  <2>. QED
    BY <2>1, <2>2, <2>3, <2>4, <2>5 DEF HInv
<1>2. ASSUME NEW t \in Txns, NEW p \in Pages, RecordRead(t, p) \/ ConcurrentWritePage(t, p)
      PROVE  HInv'
  <2>1. /\ UNCHANGED <<readers, writers, nextSeq, seqOf, phase, marked, high>>
        /\ phase[t] = "active"
        /\ \A u \in Txns \ {t} : reads'[u] = reads[u] /\ writes'[u] = writes[u]
    BY <1>2 DEF RecordRead, ConcurrentWritePage, IInv, TypeOK
  <2>2. Unmarked(marked)' = Unmarked(marked)
    BY <2>1 DEF Unmarked, Sessions
  <2>. QED
    BY <2>1, <2>2, KeepsHInv
<1>3. ASSUME NEW t \in Txns, phase[t] = "active", Discard(t) PROVE HInv'
  <2>1. /\ UNCHANGED <<readers, writers, nextSeq, seqOf>>
        /\ phase'[t] = "aborted"
        /\ \A u \in Txns \ {t} : /\ phase'[u] = phase[u] /\ high'[u] = high[u]
                                 /\ reads'[u] = reads[u] /\ writes'[u] = writes[u]
    BY <1>3 DEF Discard, IInv, TypeOK
  <2>2. \A u \in Txns \ {t} : marked'[u] <=> marked[u]
    BY <1>3 DEF Discard, IInv, TypeOK
  <2>3. \A u \in Unmarked(marked)' : u \in Unmarked(marked) /\ u # t
    BY <2>1, <2>2 DEF Unmarked, Sessions, Registered
  <2>4. \A u \in Unmarked(marked)' : u \in Txns
    BY DEF Unmarked, Sessions
  <2>. QED
    BY <2>1, <2>3, <2>4, KeepsHInv
<1>4. ASSUME NEW t \in Txns, CommitWithSsi(t) PROVE HInv'
  <2>. DEFINE in == PlannedIn(t, nextSeq) \cup Incoming(t, nextSeq)
              out == PlannedOut(t, nextSeq) \cup Outgoing(t, nextSeq)
  <2>1. /\ phase[t] = "active" /\ Publish(t, nextSeq, in, out)
        /\ phase' = [phase EXCEPT ![t] = "committed"]
        /\ seqOf' = [seqOf EXCEPT ![t] = nextSeq] /\ nextSeq' = nextSeq + 1
        /\ UNCHANGED <<high, reads, writes>>
    BY <1>4 DEF CommitWithSsi
  <2>. HIDE DEF in, out
  <2>2. PICK kept : Prunes(t, nextSeq, in, out, kept)
    BY <2>1, PublishHistory, Zenon
  <2>3. /\ phase'[t] = "committed" /\ seqOf'[t] = nextSeq /\ nextSeq \in Nat
        /\ \A u \in Txns \ {t} : phase'[u] = phase[u] /\ seqOf'[u] = seqOf[u]
        /\ \A u \in Txns : seqOf[u] \in Nat /\ high[u] \in Nat
    BY <2>1 DEF IInv, TypeOK
  <2>4. \A u \in Txns : seqOf'[u] < nextSeq'
    BY <2>1, <2>3 DEF HInv
  <2>5. ASSUME NEW s \in Unmarked(marked)'
        PROVE  s \in kept /\ s \in Unmarked(marked) /\ s \in Txns /\ high[s] < nextSeq
    <3>1. s \in Sessions \ {t} /\ ~marked'[s] /\ s \in Txns
      BY <2>1, <2>3 DEF Unmarked, Sessions, Registered
    <3>2. s \in kept
      BY <2>2, <3>1 DEF Prunes
    <3>3. phase[s] = "active"
      BY <3>1 DEF Sessions, Registered, IInv, TypeOK
    <3>. QED
      BY <2>2, <3>1, <3>2, <3>3 DEF Prunes, IInv, SnapshotCovers
  <2>6. ASSUME NEW u \in Txns, NEW s \in Unmarked(marked)', phase'[u] = "committed",
               seqOf'[u] > high[s]
        PROVE  /\ reads[u] # {} => \E r \in readers' : Stands(r, u)'
               /\ writes[u] # {} => \E w \in writers' : Stands(w, u)'
    <3>1. CASE u = t
      <4>1. ASSUME reads[t] # {}
            PROVE  \E r \in readers' : Stands(r, t)'
        <5>1. PICK r : r \in NewReader(t, nextSeq, in) /\ r.txn = t /\ r.seq = nextSeq
          <6>1. PICK b \in BOOLEAN : b = (in # {})
            BY Zenon
          <6>2. [txn |-> t, seq |-> nextSeq, rw |-> b, ord |-> pushes + 1] \in NewReader(t, nextSeq, in)
            BY <4>1, <6>1, Zenon DEF NewReader
          <6>. QED
            BY <6>2
        <5>2. r \in readers'
          BY <2>2, <2>5, <5>1 DEF Prunes, Retained
        <5>. QED
          BY <2>3, <5>1, <5>2 DEF Stands
      <4>2. ASSUME writes[t] # {}
            PROVE  \E w \in writers' : Stands(w, t)'
        <5>1. PICK w : w \in NewWriter(t, nextSeq, out) /\ w.txn = t /\ w.seq = nextSeq
          <6>1. PICK b \in BOOLEAN : b = (out # {})
            BY Zenon
          <6>2. [txn |-> t, seq |-> nextSeq, rw |-> b, ord |-> pushes + 1] \in NewWriter(t, nextSeq, out)
            BY <4>2, <6>1, Zenon DEF NewWriter
          <6>. QED
            BY <6>2
        <5>2. w \in writers'
          BY <2>2, <2>5, <5>1 DEF Prunes, Retained
        <5>. QED
          BY <2>3, <5>1, <5>2 DEF Stands
      <4>. QED
        BY <3>1, <4>1, <4>2
    <3>2. CASE u # t
      <4>1. phase[u] = "committed" /\ seqOf[u] > high[s] /\ seqOf'[u] = seqOf[u]
        BY <2>3, <2>6, <3>2
      <4>2. /\ reads[u] # {} => \E r \in readers : Stands(r, u)
            /\ writes[u] # {} => \E w \in writers : Stands(w, u)
        BY <2>5, <4>1 DEF HInv
      <4>3. \A e : Stands(e, u) => Stands(e, u)' /\ high[s] < e.seq
        BY <4>1 DEF Stands
      <4>4. \A r \in readers : Stands(r, u) => r \in readers'
        BY <2>2, <2>5, <4>3 DEF Prunes, Retained
      <4>5. \A w \in writers : Stands(w, u) => w \in writers'
        BY <2>2, <2>5, <4>3 DEF Prunes, Retained
      <4>. QED
        BY <4>2, <4>3, <4>4, <4>5
    <3>. QED
      BY <3>1, <3>2
  <2>. QED
    BY <2>1, <2>4, <2>6 DEF HInv
<1>5. CASE UNCHANGED ssiVars
  <2>1. UNCHANGED <<readers, writers, nextSeq, seqOf, phase, marked, high, reads, writes>>
    BY <1>5 DEF ssiVars, handleVars
  <2>2. Unmarked(marked)' = Unmarked(marked)
    BY <2>1 DEF Unmarked, Sessions
  <2>. QED
    BY <2>1, <2>2, KeepsHInv
<1>. QED
  BY <1>1, <1>2, <1>3, <1>4, <1>5 DEF Next, RefuseWithSsi, ConcurrentAbort

\* The history never loses a reader or a writer that the validation of a session
\* which may still commit would look for, whatever commits are published and
\* however often the size bound prunes it.
THEOREM HistoryCoverage == Spec => []HistoryCoversActive
<1>1. HInv => HistoryCoversActive
  BY DEF HInv, HistoryCoversActive, Stands
<1>2. Spec => []HInv
  BY InitHInv, NextHInv, Invariance, PTL DEF Spec
<1>. QED
  BY <1>1, <1>2, PTL

-----------------------------------------------------------------------------
(* Implementation of the abstract store *)

\* The store's log has the page sets of the transactions in the WAL, one each.
LEMMA LogImage ==
    ASSUME NEW w \in Seq(Txns), NEW f \in [Txns -> SUBSET Pages]
    PROVE  /\ [i \in DOMAIN w |-> f[w[i]]] \in Seq(SUBSET Pages)
           /\ Len([i \in DOMAIN w |-> f[w[i]]]) = Len(w)
           /\ DOMAIN [i \in DOMAIN w |-> f[w[i]]] = 1 .. Len(w)
<1>1. Len(w) \in Nat /\ DOMAIN w = 1 .. Len(w) /\ \A i \in 1 .. Len(w) : w[i] \in Txns
  OBVIOUS
<1>. DEFINE L == [i \in 1 .. Len(w) |-> f[w[i]]]
<1>2. \A i \in 1 .. Len(w) : f[w[i]] \in SUBSET Pages
  BY <1>1
<1>3. L \in Seq(SUBSET Pages) /\ Len(L) = Len(w)
  BY <1>1, <1>2
<1>. QED
  BY <1>1, <1>3

\* Appending a transaction appends its page set.
LEMMA LogImageAppend ==
    ASSUME NEW w \in Seq(Txns), NEW t \in Txns, NEW f \in [Txns -> SUBSET Pages],
           NEW g \in [Txns -> SUBSET Pages], \A i \in DOMAIN w : g[w[i]] = f[w[i]]
    PROVE  [i \in DOMAIN Append(w, t) |-> g[Append(w, t)[i]]]
             = Append([i \in DOMAIN w |-> f[w[i]]], g[t])
<1>. DEFINE L == [i \in DOMAIN w |-> f[w[i]]]
            M == [i \in DOMAIN Append(w, t) |-> g[Append(w, t)[i]]]
<1>1. L \in Seq(SUBSET Pages) /\ Len(L) = Len(w) /\ Len(w) \in Nat
  BY LogImage
<1>2. /\ Append(w, t) \in Seq(Txns) /\ Len(Append(w, t)) = Len(w) + 1
      /\ DOMAIN Append(w, t) = 1 .. (Len(w) + 1) /\ DOMAIN w = 1 .. Len(w)
      /\ Append(w, t)[Len(w) + 1] = t
      /\ \A i \in 1 .. Len(w) : Append(w, t)[i] = w[i]
  OBVIOUS
<1>3. M \in Seq(SUBSET Pages) /\ Len(M) = Len(w) + 1
  BY <1>2, LogImage
<1>4. /\ Append(L, g[t]) \in Seq(SUBSET Pages) /\ Len(Append(L, g[t])) = Len(w) + 1
      /\ Append(L, g[t])[Len(w) + 1] = g[t]
      /\ \A i \in 1 .. Len(w) : Append(L, g[t])[i] = L[i]
  <2>. HIDE DEF L
  <2>. QED
    BY <1>1
<1>5. \A i \in 1 .. (Len(w) + 1) : M[i] = Append(L, g[t])[i]
  <2>. SUFFICES ASSUME NEW i \in 1 .. (Len(w) + 1) PROVE M[i] = Append(L, g[t])[i]
    OBVIOUS
  <2>1. M[i] = g[Append(w, t)[i]]
    BY <1>2
  <2>2. CASE i = Len(w) + 1
    BY <1>2, <1>4, <2>1, <2>2
  <2>3. CASE i \in 1 .. Len(w)
    <3>1. Append(L, g[t])[i] = L[i] /\ L[i] = f[w[i]] /\ Append(w, t)[i] = w[i]
      BY <1>2, <1>4, <2>3
    <3>2. g[w[i]] = f[w[i]]
      BY <1>2, <2>3
    <3>. QED
      BY <2>1, <3>1, <3>2
  <2>. QED
    BY <1>1, <2>2, <2>3
<1>. QED
  <2>. HIDE DEF L, M
  <2>1. M = Append(L, g[t])
    BY <1>3, <1>4, <1>5, SeqEqual
  <2>. QED
    BY <2>1 DEF L, M

\* The initial states of the registry are initial states of the store.
LEMMA InitStore == Init => Store!StoreInit
<1>. SUFFICES ASSUME Init PROVE Store!StoreInit
  OBVIOUS
<1>1. [i \in DOMAIN wal |-> writes[wal[i]]] = << >>
  BY DEF Init
<1>. QED
  BY <1>1 DEF Init, Store!StoreInit

\* Every step of the registry is a step of the store or leaves it unchanged.
LEMMA NextStore == IInv /\ [Next]_ssiVars => [Store!StoreNext]_(Store!storeVars)
<1>. SUFFICES ASSUME IInv, [Next]_ssiVars
              PROVE  [Store!StoreNext]_(Store!storeVars)
  OBVIOUS
<1>. DEFINE L == [i \in DOMAIN wal |-> writes[wal[i]]]
<1>0. /\ wal \in Seq(Txns) /\ writes \in [Txns -> SUBSET Pages]
      /\ Len(L) = Len(wal) /\ DOMAIN L = DOMAIN wal /\ DOMAIN wal \subseteq Nat
      /\ \A i \in DOMAIN wal : wal[i] \in Txns
  BY LogImage DEF IInv, TypeOK
<1>1. ASSUME NEW t \in Txns, BeginConcurrent(t)
      PROVE  Store!Open(t)
  BY <1>0, <1>1 DEF IInv, TypeOK, BeginConcurrent, Store!Open
<1>2. ASSUME NEW t \in Txns, NEW p \in Pages, RecordRead(t, p)
      PROVE  UNCHANGED Store!storeVars
  BY <1>2 DEF RecordRead, Store!storeVars
<1>a. ASSUME NEW t \in Txns, phase[t] = "active", UNCHANGED wal,
             \A u \in Txns \ {t} : writes'[u] = writes[u]
      PROVE  [i \in DOMAIN wal' |-> writes'[wal'[i]]] = L
  <2>1. \A i \in DOMAIN wal : wal[i] # t
    BY <1>a DEF IInv, LogSequenced
  <2>2. \A i \in DOMAIN wal : writes'[wal[i]] = writes[wal[i]]
    BY <1>0, <1>a, <2>1
  <2>. QED
    BY <1>a, <2>2
<1>3. ASSUME NEW t \in Txns, NEW p \in Pages, ConcurrentWritePage(t, p)
      PROVE  Store!Touch(t, p)
  <2>1. \A u \in Txns \ {t} : ~(phase[u] = "active" /\ p \in writes[u])
    BY <1>3, NoTxnAssumption
       DEF IInv, TypeOK, LocksMatchSessions, Sessions, Registered,
           ConcurrentWritePage, Lockable
  <2>2. \A u \in Txns : phase[u] # "open"
    BY DEF IInv, TypeOK
  <2>3. [i \in DOMAIN wal' |-> writes'[wal'[i]]] = L
    BY <1>0, <1>3, <1>a DEF ConcurrentWritePage
  <2>. QED
    BY <1>3, <2>1, <2>2, <2>3 DEF ConcurrentWritePage, Store!Touch
<1>4. ASSUME NEW t \in Txns, phase[t] = "active", Discard(t)
      PROVE  Store!AbortStore(t)
  <2>1. [i \in DOMAIN wal' |-> writes'[wal'[i]]] = L
    BY <1>0, <1>4, <1>a DEF Discard
  <2>. QED
    BY <1>4, <2>1 DEF IInv, TypeOK, Discard, Store!AbortStore
<1>5. ASSUME NEW t \in Txns, CommitWithSsi(t)
      PROVE  Store!CommitStore(t)
  <2>1. phase[t] = "active" /\ ~BaseDrift(t)
    BY <1>5 DEF CommitWithSsi, Refuses
  <2>2. \A i \in DOMAIN wal : Overlap(writes[wal[i]], writes[t]) => i <= view[t]
    BY <2>1, ValidatedIsFirst
  <2>3. view[t] \in Nat
    BY DEF IInv, TypeOK
  <2>4. Store!FirstCommitter(t)
    BY <1>0, <2>2, <2>3 DEF Overlap, Store!FirstCommitter
  <2>5. [i \in DOMAIN wal' |-> writes'[wal'[i]]]
          = IF writes[t] = {} THEN L ELSE Append(L, writes[t])
    <3>1. writes' = writes /\ wal' = IF writes[t] = {} THEN wal ELSE Append(wal, t)
      BY <1>5 DEF CommitWithSsi
    <3>2. [i \in DOMAIN Append(wal, t) |-> writes[Append(wal, t)[i]]] = Append(L, writes[t])
      BY <1>0, LogImageAppend
    <3>. QED
      BY <3>1, <3>2
  <2>. QED
    BY <1>5, <2>1, <2>4, <2>5 DEF IInv, TypeOK, CommitWithSsi, Store!CommitStore
<1>6. CASE Next
  BY <1>1, <1>2, <1>3, <1>4, <1>5, <1>6
     DEF Next, RefuseWithSsi, ConcurrentAbort, Store!StoreNext
<1>7. CASE UNCHANGED ssiVars
  BY <1>7 DEF ssiVars, handleVars, Store!storeVars
<1>. QED
  BY <1>6, <1>7

\* Sequences, commit index and SSI implement the abstract first-committer-wins
\* store, for any number of transactions and pages.
THEOREM Refinement == Spec => ImplementsStore
BY InitStore, NextStore, Invariance, PTL DEF Spec, ImplementsStore, Store!StoreSpec

=============================================================================
