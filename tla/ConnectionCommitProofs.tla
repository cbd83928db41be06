----------------------- MODULE ConnectionCommitProofs -----------------------
(***************************************************************************)
(* Proofs about ConnectionCommit for any number of connections and pages:  *)
(* page locks, first committer wins, the order of commit sequences, the    *)
(* coherence of the commit index, the implementation of the abstract       *)
(* store, the freshness of planned commits and what is never taken back of *)
(* the commit history, under every interleaving of begin and commit steps. *)
(*                                                                         *)
(* The argument rests on one fact: a page lock is held from the first      *)
(* touch until the commit is published or the session discarded, so of two *)
(* logged transactions that wrote one page the first was published, or     *)
(* rolled back after a commit that failed with its frames in the WAL,      *)
(* before the second became durable.                                       *)
(***************************************************************************)
EXTENDS ConnectionCommit, ConcurrentSsiProofs, WellFoundedInduction, TLAPS

-----------------------------------------------------------------------------
(* The inductive invariant *)

\* The types the argument needs.
CoreTypes ==
    /\ phase \in [Txns -> Phases]
    /\ view \in [Txns -> Nat]
    /\ writes \in [Txns -> SUBSET Pages]
    /\ want \in [Txns -> SUBSET Pages]
    /\ frames \in [Txns -> SUBSET Pages]
    /\ lock \in [Pages -> Txns \cup {NoTxn}]
    /\ index \in [Pages -> Nat]
    /\ nextSeq \in Nat \ {0}
    /\ lift \in [Txns -> Nat]
    /\ seqOf \in [Txns -> Nat]
    /\ wal \in Seq(Txns)

Beginning == {"idle", "bound", "opened", "aligned", "refreshed"}
Durable == {"durable", "sequenced", "published", "committed"}
Published == {"published", "committed"}

\* Nothing is written before a session is registered or after it is discarded;
\* what is planned or on its way to publication has writes.
WritesFitPhase ==
    \A t \in Txns :
        /\ phase[t] \in Beginning \cup {"aborted"} => writes[t] = {}
        /\ phase[t] \in {"prepared", "durable", "sequenced", "published"}
               => writes[t] # {}

\* Frames are of pages that the transaction has written: all of them once it is
\* durable, some while it is registered after a commit that failed.
FramesFitPhase ==
    \A t \in Txns :
        /\ phase[t] \in Beginning => frames[t] = {}
        /\ phase[t] \in Registered => frames[t] \subseteq writes[t]
        /\ phase[t] \in Durable => frames[t] = writes[t]

\* A sequence is drawn in one place and is below the clock.
SeqFitsPhase ==
    \A t \in Txns :
        /\ seqOf[t] < nextSeq
        /\ phase[t] \notin {"sequenced", "published", "committed"} => seqOf[t] = 0
        /\ phase[t] \in {"sequenced", "published", "committed"} /\ writes[t] # {}
               => seqOf[t] > 0

\* The log has the transactions with frames, each once; one whose commit failed
\* with its frames logged has them beyond its own view.
LogFitsPhase ==
    /\ \A i \in DOMAIN wal : frames[wal[i]] # {}
    /\ \A i, j \in DOMAIN wal : wal[i] = wal[j] => i = j
    /\ \A t \in Txns : frames[t] # {} => \E i \in DOMAIN wal : wal[i] = t
    /\ \A i \in DOMAIN wal :
           phase[wal[i]] \in {"active", "prepared"} => view[wal[i]] < i
    /\ \A t \in Txns : view[t] <= Len(wal)

\* Of two logged transactions with frames of one page, the first is published or
\* was rolled back, in the second's view, and ahead of it in sequence.
LogOrder ==
    \A i, j \in DOMAIN wal :
        i < j /\ Overlap(frames[wal[i]], frames[wal[j]]) =>
            /\ phase[wal[i]] \in Published \cup {"aborted"}
            /\ phase[wal[j]] # "aborted" => i <= view[wal[j]]
            /\ seqOf[wal[j]] = 0 \/ seqOf[wal[i]] < seqOf[wal[j]]

\* An index entry is the sequence of a published commit of its page ...
IndexSource ==
    \A p \in Pages :
        \/ index[p] = 0
        \/ \E i \in DOMAIN wal : /\ p \in frames[wal[i]]
                                 /\ phase[wal[i]] \in Published
                                 /\ index[p] = seqOf[wal[i]]

\* ... and not older than any published commit of it.
IndexCurrent ==
    \A t \in Txns, p \in Pages :
        phase[t] \in Published /\ p \in frames[t] => seqOf[t] <= index[p]

CInv ==
    /\ CoreTypes
    /\ LocksMatchSessions
    /\ WritesFitPhase
    /\ FramesFitPhase
    /\ SeqFitsPhase
    /\ LogFitsPhase
    /\ LogOrder
    /\ IndexSource
    /\ IndexCurrent

-----------------------------------------------------------------------------

LEMMA InitCInv == ConnInit => CInv
<1>. SUFFICES ASSUME ConnInit PROVE CInv
  OBVIOUS
<1>1. CoreTypes
  BY DEF ConnInit, Init, CoreTypes, Phases, Registered
<1>2. DOMAIN wal = {} /\ Len(wal) = 0
  BY DEF ConnInit, Init
<1>3. LocksMatchSessions /\ WritesFitPhase /\ FramesFitPhase /\ SeqFitsPhase
  BY NoTxnAssumption
     DEF ConnInit, Init, LocksMatchSessions, Registered, WritesFitPhase, FramesFitPhase,
         SeqFitsPhase, Durable
<1>4. LogFitsPhase /\ LogOrder /\ IndexSource /\ IndexCurrent
  BY <1>2 DEF ConnInit, Init, LogFitsPhase, LogOrder, IndexSource, IndexCurrent,
              Published
<1>. QED
  BY <1>1, <1>3, <1>4 DEF CInv

\* The steps that move a transaction between phases and touch no page: the five
\* of BEGIN, planning, a failed pager commit, a read-only commit, and finishing.
Moves ==
    {<<"idle", "bound">>, <<"bound", "opened">>, <<"opened", "aligned">>,
     <<"aligned", "refreshed">>, <<"refreshed", "active">>, <<"active", "prepared">>,
     <<"prepared", "active">>, <<"active", "committed">>, <<"published", "committed">>}

PhaseStep(t, q) ==
    /\ <<phase[t], q>> \in Moves
    /\ phase' = [phase EXCEPT ![t] = q]
    /\ UNCHANGED <<writes, want, frames, lock, index, seqOf, wal>>
    /\ \A u \in Txns \ {t} : view'[u] = view[u]
    /\ view' \in [Txns -> Nat]
    /\ view'[t] = view[t] \/ (phase[t] = "bound" /\ view'[t] = Len(wal))
    /\ nextSeq' \in Nat /\ nextSeq' >= nextSeq
    /\ lift' \in [Txns -> Nat]
    /\ phase[t] = "active" => (writes[t] # {} <=> q = "prepared")

\* Moving between phases keeps the invariant.
LEMMA PhaseStepCInv ==
    ASSUME CInv, NEW t \in Txns, NEW q, PhaseStep(t, q)
    PROVE  CInv'
<1>1. /\ q \in Phases
      /\ writes[t] # {} => (phase[t] \in Registered <=> q \in Registered)
      /\ writes[t] # {} => (phase[t] \in Published <=> q \in Published)
      /\ writes[t] # {} => q \notin Beginning \cup {"aborted"}
      /\ q \in {"prepared", "durable", "sequenced", "published"} => writes[t] # {}
  BY DEF CInv, PhaseStep, Moves, WritesFitPhase, Phases, Registered, Published, Beginning
<1>2. /\ q \notin {"sequenced", "published", "committed"}
             => phase[t] \notin {"sequenced", "published", "committed"}
      /\ q \in {"sequenced", "published", "committed"} /\ writes[t] # {}
             => phase[t] \in {"sequenced", "published", "committed"}
  BY DEF CInv, PhaseStep, Moves, WritesFitPhase
<1>3. /\ phase'[t] = q
      /\ \A u \in Txns \ {t} : phase'[u] = phase[u]
      /\ UNCHANGED <<writes, want, frames, lock, index, seqOf, wal>>
  BY DEF CInv, CoreTypes, PhaseStep
<1>4. CoreTypes'
  <2>1. phase' \in [Txns -> Phases]
    BY <1>1 DEF CInv, CoreTypes, PhaseStep
  <2>2. nextSeq' \in Nat \ {0}
    BY DEF CInv, CoreTypes, PhaseStep
  <2>. QED
    BY <1>3, <2>1, <2>2 DEF CInv, CoreTypes, PhaseStep
<1>5. LocksMatchSessions' /\ WritesFitPhase'
  BY <1>1, <1>3 DEF CInv, LocksMatchSessions, WritesFitPhase
<1>6. SeqFitsPhase'
  <2>. SUFFICES ASSUME NEW u \in Txns
                PROVE  /\ seqOf[u] < nextSeq'
                       /\ phase'[u] \notin {"sequenced", "published", "committed"}
                              => seqOf[u] = 0
                       /\ phase'[u] \in {"sequenced", "published", "committed"}
                             /\ writes[u] # {} => seqOf[u] > 0
    BY <1>3 DEF SeqFitsPhase
  <2>1. seqOf[u] < nextSeq'
    BY DEF CInv, CoreTypes, SeqFitsPhase, PhaseStep
  <2>. QED
    BY <1>2, <1>3, <2>1 DEF CInv, SeqFitsPhase
<1>7. FramesFitPhase'
  <2>1. /\ q \in Beginning => frames[t] = {}
        /\ q \in Registered => frames[t] \subseteq writes[t]
        /\ q \in Durable => frames[t] = writes[t]
    BY DEF CInv, PhaseStep, Moves, FramesFitPhase, WritesFitPhase, Beginning, Registered,
           Durable
  <2>. QED
    BY <1>3, <2>1 DEF CInv, FramesFitPhase
<1>8. frames[t] # {} =>
        /\ writes[t] # {} /\ phase[t] # "aborted"
        /\ view'[t] = view[t]
        /\ q \in {"active", "prepared"} => phase[t] \in {"active", "prepared"}
  BY DEF CInv, PhaseStep, Moves, FramesFitPhase, Beginning, Registered, Durable
<1>9. \A i \in DOMAIN wal :
        /\ wal[i] \in Txns
        /\ phase[wal[i]] \in Published => phase'[wal[i]] \in Published
        /\ phase[wal[i]] = "aborted" => phase'[wal[i]] = "aborted"
        /\ phase'[wal[i]] = "aborted" => phase[wal[i]] = "aborted"
        /\ phase'[wal[i]] \in {"active", "prepared"} => phase[wal[i]] \in {"active", "prepared"}
        /\ view'[wal[i]] = view[wal[i]]
  <2>. SUFFICES ASSUME NEW i \in DOMAIN wal
                PROVE  /\ wal[i] \in Txns
                       /\ phase[wal[i]] \in Published => phase'[wal[i]] \in Published
                       /\ phase[wal[i]] = "aborted" => phase'[wal[i]] = "aborted"
                       /\ phase'[wal[i]] = "aborted" => phase[wal[i]] = "aborted"
                       /\ phase'[wal[i]] \in {"active", "prepared"}
                              => phase[wal[i]] \in {"active", "prepared"}
                       /\ view'[wal[i]] = view[wal[i]]
    OBVIOUS
  <2>1. wal[i] \in Txns /\ frames[wal[i]] # {}
    BY DEF CInv, CoreTypes, LogFitsPhase
  <2>2. CASE wal[i] = t
    BY <1>1, <1>3, <1>8, <2>1, <2>2
  <2>3. CASE wal[i] # t
    BY <1>3, <2>1, <2>3 DEF PhaseStep
  <2>. QED
    BY <2>2, <2>3
<1>10. LogFitsPhase'
  <2>1. \A i \in DOMAIN wal : phase'[wal[i]] \in {"active", "prepared"} => view'[wal[i]] < i
    BY <1>9 DEF CInv, LogFitsPhase
  <2>2. \A u \in Txns : view'[u] <= Len(wal)
    <3>1. Len(wal) \in Nat
      BY DEF CInv, CoreTypes
    <3>. QED
      BY <3>1 DEF CInv, LogFitsPhase, PhaseStep
  <2>3. /\ \A i \in DOMAIN wal : frames[wal[i]] # {}
        /\ \A i, j \in DOMAIN wal : wal[i] = wal[j] => i = j
        /\ \A u \in Txns : frames[u] # {} => \E i \in DOMAIN wal : wal[i] = u
    BY DEF CInv, LogFitsPhase
  <2>. QED
    BY <1>3, <2>1, <2>2, <2>3, Zenon DEF LogFitsPhase
<1>11. LogOrder'
  <2>1. \A i, j \in DOMAIN wal :
          i < j /\ Overlap(frames[wal[i]], frames[wal[j]]) =>
            /\ phase'[wal[i]] \in Published \cup {"aborted"}
            /\ phase'[wal[j]] # "aborted" => i <= view'[wal[j]]
            /\ seqOf[wal[j]] = 0 \/ seqOf[wal[i]] < seqOf[wal[j]]
    BY <1>9 DEF CInv, LogOrder
  <2>. QED
    BY <1>3, <2>1, Zenon DEF LogOrder, Overlap
<1>12. IndexSource'
  <2>1. \A p \in Pages :
          \/ index[p] = 0
          \/ \E i \in DOMAIN wal : /\ p \in frames[wal[i]]
                                   /\ phase'[wal[i]] \in Published
                                   /\ index[p] = seqOf[wal[i]]
    BY <1>9 DEF CInv, IndexSource
  <2>. QED
    BY <1>3, <2>1, Zenon DEF IndexSource
<1>13. IndexCurrent'
  BY <1>1, <1>3, <1>8 DEF CInv, IndexCurrent
<1>. QED
  BY <1>4, <1>5, <1>6, <1>7, <1>10, <1>11, <1>12, <1>13 DEF CInv

\* Steps that leave phases, views, frames and sequences leave the log's facts alone.
LEMMA LogFrame ==
    ASSUME CInv, UNCHANGED <<phase, view, frames, index, seqOf, wal>>
    PROVE  LogFitsPhase' /\ LogOrder' /\ IndexSource' /\ IndexCurrent'
BY Zenon DEF CInv, LogFitsPhase, LogOrder, Overlap, IndexSource, IndexCurrent

\* Steps that only read, or only lift the clock or change what the invariant does
\* not mention.
LEMMA FrameCInv ==
    ASSUME CInv, want' \in [Txns -> SUBSET Pages], nextSeq' \in Nat, nextSeq' >= nextSeq,
           lift' \in [Txns -> Nat],
           UNCHANGED <<phase, view, writes, frames, lock, index, seqOf, wal>>
    PROVE  CInv'
<1>1. CoreTypes'
  BY DEF CInv, CoreTypes
<1>2. LocksMatchSessions' /\ WritesFitPhase' /\ FramesFitPhase'
  BY DEF CInv, LocksMatchSessions, WritesFitPhase, FramesFitPhase
<1>3. SeqFitsPhase'
  <2>1. \A u \in Txns : seqOf[u] \in Nat /\ seqOf[u] < nextSeq'
    BY DEF CInv, CoreTypes, SeqFitsPhase
  <2>. QED
    BY <2>1 DEF CInv, SeqFitsPhase
<1>. QED
  BY <1>1, <1>2, <1>3, LogFrame DEF CInv

\* A first touch takes the lock of a free page.
LEMMA AcquireCInv ==
    ASSUME CInv, NEW t \in Txns, AcquirePage(t)
    PROVE  CInv'
<1>1. PICK p \in want[t] : /\ ConcurrentWritePage(t, p)
                           /\ want' = [want EXCEPT ![t] = {}]
                           /\ UNCHANGED <<frames, lift>>
  BY DEF AcquirePage
<1>2. p \in Pages
  BY DEF CInv, CoreTypes
<1>3. CoreTypes'
  BY <1>1, <1>2 DEF CInv, CoreTypes, ConcurrentWritePage
<1>4. LocksMatchSessions'
  BY <1>1, <1>2, NoTxnAssumption
     DEF CInv, CoreTypes, ConcurrentWritePage, Lockable, LocksMatchSessions, Registered
<1>5. WritesFitPhase' /\ SeqFitsPhase'
  BY <1>1, <1>2
     DEF CInv, CoreTypes, ConcurrentWritePage, WritesFitPhase, SeqFitsPhase, Beginning
<1>6. FramesFitPhase'
  BY <1>1, <1>2
     DEF CInv, CoreTypes, ConcurrentWritePage, FramesFitPhase, Beginning, Durable
<1>7. LogFitsPhase' /\ LogOrder' /\ IndexSource' /\ IndexCurrent'
  BY <1>1, LogFrame DEF ConcurrentWritePage
<1>. QED
  BY <1>3, <1>4, <1>5, <1>6, <1>7 DEF CInv

\* A discarded session leaves no writes and no locks; frames it may have in the
\* log stay there.
LEMMA DiscardCInv ==
    ASSUME CInv, NEW t \in Txns, phase[t] \in {"refreshed", "active"}, Discard(t),
           UNCHANGED <<want, frames, lift>>
    PROVE  CInv'
<1>1. CoreTypes'
  BY DEF CInv, CoreTypes, Discard, Unlock, Phases, Registered
<1>2. LocksMatchSessions'
  BY NoTxnAssumption
     DEF CInv, CoreTypes, Discard, Unlock, LocksMatchSessions, Registered
<1>3. WritesFitPhase' /\ SeqFitsPhase'
  BY DEF CInv, CoreTypes, Discard, WritesFitPhase, SeqFitsPhase
<1>4. FramesFitPhase'
  BY DEF CInv, CoreTypes, Discard, FramesFitPhase, Beginning, Registered, Durable
<1>5. /\ phase'[t] = "aborted" /\ view'[t] = 0 /\ UNCHANGED <<frames, index, seqOf, wal>>
      /\ \A u \in Txns \ {t} : phase'[u] = phase[u] /\ view'[u] = view[u]
      /\ \A i \in DOMAIN wal : wal[i] \in Txns
  BY DEF CInv, CoreTypes, Discard
<1>6. LogFitsPhase'
  <2>1. \A i \in DOMAIN wal : phase'[wal[i]] \in {"active", "prepared"} => view'[wal[i]] < i
    BY <1>5 DEF CInv, LogFitsPhase
  <2>2. \A u \in Txns : view'[u] <= Len(wal)
    <3>1. Len(wal) \in Nat
      BY DEF CInv, CoreTypes
    <3>. QED
      BY <1>5, <3>1 DEF CInv, LogFitsPhase
  <2>3. /\ \A i \in DOMAIN wal : frames[wal[i]] # {}
        /\ \A i, j \in DOMAIN wal : wal[i] = wal[j] => i = j
        /\ \A u \in Txns : frames[u] # {} => \E i \in DOMAIN wal : wal[i] = u
    BY DEF CInv, LogFitsPhase
  <2>. QED
    BY <1>5, <2>1, <2>2, <2>3, Zenon DEF LogFitsPhase
<1>7. LogOrder'
  <2>1. \A i, j \in DOMAIN wal :
          i < j /\ Overlap(frames[wal[i]], frames[wal[j]]) =>
            /\ phase'[wal[i]] \in Published \cup {"aborted"}
            /\ phase'[wal[j]] # "aborted" => i <= view'[wal[j]]
            /\ seqOf[wal[j]] = 0 \/ seqOf[wal[i]] < seqOf[wal[j]]
    BY <1>5 DEF CInv, LogOrder
  <2>. QED
    BY <1>5, <2>1, Zenon DEF LogOrder, Overlap
<1>8. IndexSource'
  <2>1. \A p \in Pages :
          \/ index[p] = 0
          \/ \E i \in DOMAIN wal : /\ p \in frames[wal[i]]
                                   /\ phase'[wal[i]] \in Published
                                   /\ index[p] = seqOf[wal[i]]
    BY <1>5 DEF CInv, IndexSource, Published
  <2>. QED
    BY <1>5, <2>1, Zenon DEF IndexSource
<1>9. IndexCurrent'
  BY <1>5 DEF CInv, IndexCurrent, Published
<1>. QED
  BY <1>1, <1>2, <1>3, <1>4, <1>6, <1>7, <1>8, <1>9 DEF CInv

\* Registered sessions have no page in common.
LEMMA SessionsDisjoint ==
    ASSUME CInv, NEW t \in Txns, NEW u \in Txns, t # u,
           phase[t] \in Registered, phase[u] \in Registered
    PROVE  ~Overlap(writes[t], writes[u])
BY DEF CInv, CoreTypes, LocksMatchSessions, Overlap

\* Whoever has a frame of a page of t's, and is not t, no longer holds its lock.
LEMMA OtherFrames ==
    ASSUME CInv, NEW t \in Txns, NEW u \in Txns, t # u, phase[t] \in Registered,
           Overlap(frames[u], writes[t])
    PROVE  phase[u] \in Published \cup {"aborted"}
<1>1. phase[u] \notin Registered
  BY SessionsDisjoint DEF CInv, FramesFitPhase, Overlap
<1>2. phase[u] \notin Beginning
  BY DEF CInv, FramesFitPhase, Overlap
<1>3. phase[u] \in Phases
  BY DEF CInv, CoreTypes
<1>. QED
  BY <1>1, <1>2, <1>3 DEF Phases, Registered, Beginning, Published

\* The pager commit appends t, whether it then reports success or an error:
\* whoever in the log has a page of t's has given up its lock, so it is published
\* or rolled back, and the WAL's check has put it in t's view.  t's own frames of
\* a commit that failed earlier would have been found by that check.
LEMMA AppendCInv ==
    ASSUME CInv, NEW t \in Txns, phase[t] = "prepared", AppendFrames(t),
           NEW q \in {"durable", "active"}, phase' = [phase EXCEPT ![t] = q],
           UNCHANGED <<view, writes, want, lock, index, nextSeq, lift, seqOf>>
    PROVE  CInv'
<1>1. /\ ~WalConflict(t)
      /\ wal' = Append(wal, t)
      /\ frames' = [frames EXCEPT ![t] = writes[t]]
  BY DEF AppendFrames
<1>2. /\ phase'[t] = q /\ writes[t] # {} /\ seqOf[t] = 0
      /\ frames'[t] = writes[t]
      /\ \A u \in Txns \ {t} : phase'[u] = phase[u] /\ frames'[u] = frames[u]
  BY <1>1 DEF CInv, CoreTypes, WritesFitPhase, SeqFitsPhase
<1>3. /\ Len(wal) \in Nat
      /\ DOMAIN wal = 1 .. Len(wal)
      /\ DOMAIN wal' = 1 .. (Len(wal) + 1)
      /\ Len(wal') = Len(wal) + 1
      /\ wal'[Len(wal) + 1] = t
      /\ \A i \in DOMAIN wal : wal'[i] = wal[i]
      /\ \A u \in Txns : view[u] \in Nat
  BY <1>1 DEF CInv, CoreTypes
<1>4. \A i \in DOMAIN wal : wal[i] \in Txns /\ wal[i] # t
  <2>. SUFFICES ASSUME NEW i \in DOMAIN wal, wal[i] = t PROVE FALSE
    BY DEF CInv, CoreTypes
  <2>1. view[t] < i
    BY DEF CInv, LogFitsPhase
  <2>2. i \in (view[t] + 1) .. Len(wal)
    BY <1>3, <2>1
  <2>3. Overlap(frames[wal[i]], writes[t])
    BY DEF CInv, LogFitsPhase, FramesFitPhase, Registered, Overlap
  <2>. QED
    BY <1>1, <2>2, <2>3 DEF WalConflict
<1>5. CoreTypes'
  <2>1. wal' \in Seq(Txns)
    BY <1>1 DEF CInv, CoreTypes
  <2>2. phase' \in [Txns -> Phases] /\ frames' \in [Txns -> SUBSET Pages]
    BY <1>1 DEF CInv, CoreTypes, Phases, Registered
  <2>. QED
    BY <1>1, <2>1, <2>2, Zenon DEF CInv, CoreTypes
<1>6. LocksMatchSessions' /\ WritesFitPhase'
  BY <1>1, <1>2 DEF CInv, LocksMatchSessions, WritesFitPhase, Registered, Beginning
<1>7. SeqFitsPhase'
  BY <1>1, <1>2 DEF CInv, SeqFitsPhase
<1>8. FramesFitPhase'
  BY <1>2 DEF CInv, FramesFitPhase, Beginning, Registered
<1>9. LogFitsPhase'
  <2>1. \A i \in DOMAIN wal' : frames'[wal'[i]] # {}
    BY <1>2, <1>3, <1>4 DEF CInv, LogFitsPhase
  <2>2. \A i, j \in DOMAIN wal' : wal'[i] = wal'[j] => i = j
    BY <1>3, <1>4 DEF CInv, LogFitsPhase
  <2>3. ASSUME NEW u \in Txns, frames'[u] # {}
        PROVE  \E i \in DOMAIN wal' : wal'[i] = u
    <3>1. CASE u = t
      BY <1>3, <3>1
    <3>2. CASE u # t
      <4>1. PICK i \in DOMAIN wal : wal[i] = u
        BY <1>2, <2>3, <3>2 DEF CInv, LogFitsPhase
      <4>. QED
        BY <1>3, <4>1
    <3>. QED
      BY <3>1, <3>2
  <2>4. ASSUME NEW i \in DOMAIN wal', phase'[wal'[i]] \in {"active", "prepared"}
        PROVE  view[wal'[i]] < i
    <3>1. CASE i \in DOMAIN wal
      BY <1>2, <1>3, <1>4, <2>4, <3>1 DEF CInv, LogFitsPhase
    <3>2. CASE i = Len(wal) + 1
      BY <1>3, <3>2 DEF CInv, LogFitsPhase
    <3>. QED
      BY <1>3, <3>1, <3>2
  <2>5. \A u \in Txns : view[u] <= Len(wal')
    BY <1>3 DEF CInv, LogFitsPhase
  <2>. QED
    BY <2>1, <2>2, <2>3, <2>4, <2>5, Zenon DEF LogFitsPhase
<1>10. LogOrder'
  <2>. SUFFICES ASSUME NEW i \in DOMAIN wal', NEW j \in DOMAIN wal', i < j,
                       Overlap(frames'[wal'[i]], frames'[wal'[j]])
                PROVE  /\ phase'[wal'[i]] \in Published \cup {"aborted"}
                       /\ phase'[wal'[j]] # "aborted" => i <= view[wal'[j]]
                       /\ seqOf[wal'[j]] = 0 \/ seqOf[wal'[i]] < seqOf[wal'[j]]
    BY <1>1 DEF LogOrder, Overlap
  <2>1. /\ i \in DOMAIN wal /\ wal'[i] = wal[i] /\ wal[i] \in Txns /\ wal[i] # t
        /\ phase'[wal[i]] = phase[wal[i]] /\ frames'[wal[i]] = frames[wal[i]]
    BY <1>2, <1>3, <1>4
  <2>2. CASE j \in DOMAIN wal
    <3>1. /\ wal'[j] = wal[j] /\ phase'[wal[j]] = phase[wal[j]]
          /\ frames'[wal[j]] = frames[wal[j]]
      BY <1>2, <1>3, <1>4, <2>2
    <3>. QED
      BY <2>1, <2>2, <3>1 DEF CInv, LogOrder
  <2>3. CASE j \notin DOMAIN wal
    <3>1. wal'[j] = t
      BY <1>3, <2>3
    <3>2. Overlap(frames[wal[i]], writes[t])
      BY <1>2, <2>1, <3>1
    <3>3. phase[wal[i]] \in Published \cup {"aborted"}
      BY <2>1, <3>2, OtherFrames DEF Registered
    <3>4. i <= view[t]
      <4>1. view[t] \in Nat /\ i \in 1 .. Len(wal)
        BY <1>3, <2>1
      <4>2. i \notin (view[t] + 1) .. Len(wal)
        BY <1>1, <3>2 DEF WalConflict
      <4>. QED
        BY <1>3, <4>1, <4>2
    <3>. QED
      BY <1>2, <2>1, <3>1, <3>3, <3>4
  <2>. QED
    BY <2>2, <2>3
<1>11. IndexSource'
  <2>. SUFFICES ASSUME NEW p \in Pages, index[p] # 0
                PROVE  \E i \in DOMAIN wal' : /\ p \in frames'[wal'[i]]
                                              /\ phase'[wal'[i]] \in Published
                                              /\ index[p] = seqOf[wal'[i]]
    BY <1>1 DEF IndexSource
  <2>1. PICK i \in DOMAIN wal : /\ p \in frames[wal[i]]
                                /\ phase[wal[i]] \in Published
                                /\ index[p] = seqOf[wal[i]]
    BY DEF CInv, IndexSource
  <2>2. /\ i \in DOMAIN wal' /\ wal'[i] = wal[i] /\ phase'[wal[i]] = phase[wal[i]]
        /\ frames'[wal[i]] = frames[wal[i]]
    BY <1>2, <1>3, <1>4
  <2>. QED
    BY <2>1, <2>2
<1>12. IndexCurrent'
  BY <1>1, <1>2 DEF CInv, IndexCurrent, Published
<1>. QED
  BY <1>5, <1>6, <1>7, <1>8, <1>9, <1>10, <1>11, <1>12 DEF CInv

\* The sequence drawn for a durable transaction is above all drawn before.
LEMMA AdvanceCInv ==
    ASSUME CInv, NEW t \in Txns, AdvanceCommitClock(t)
    PROVE  CInv'
<1>1. /\ phase[t] = "durable"
      /\ phase' = [phase EXCEPT ![t] = "sequenced"]
      /\ seqOf' = [seqOf EXCEPT ![t] = nextSeq]
      /\ nextSeq' = nextSeq + 1
      /\ UNCHANGED <<view, writes, want, frames, lock, index, lift, wal>>
  BY DEF AdvanceCommitClock, handleVars
<1>2. /\ phase'[t] = "sequenced" /\ seqOf'[t] = nextSeq
      /\ \A u \in Txns \ {t} : phase'[u] = phase[u] /\ seqOf'[u] = seqOf[u]
      /\ \A u \in Txns : seqOf[u] \in Nat
      /\ nextSeq \in Nat /\ nextSeq > 0
      /\ \A i \in DOMAIN wal : wal[i] \in Txns
  BY <1>1 DEF CInv, CoreTypes
<1>3. CoreTypes'
  BY <1>1, <1>2 DEF CInv, CoreTypes, Phases, Registered
<1>4. LocksMatchSessions' /\ WritesFitPhase'
  BY <1>1, <1>2 DEF CInv, LocksMatchSessions, WritesFitPhase, Registered, Beginning
<1>5. SeqFitsPhase'
  BY <1>1, <1>2 DEF CInv, SeqFitsPhase
<1>a. FramesFitPhase'
  BY <1>1, <1>2 DEF CInv, FramesFitPhase, Beginning, Registered, Durable
<1>6. LogFitsPhase'
  <2>1. \A i \in DOMAIN wal : phase'[wal[i]] \in {"active", "prepared"} => view[wal[i]] < i
    BY <1>1, <1>2 DEF CInv, LogFitsPhase
  <2>. QED
    BY <1>1, <2>1, Zenon DEF CInv, LogFitsPhase
<1>7. \A i \in DOMAIN wal :
        phase[wal[i]] \in Published \cup {"aborted"} =>
            /\ phase'[wal[i]] = phase[wal[i]]
            /\ seqOf'[wal[i]] = seqOf[wal[i]]
  BY <1>1, <1>2 DEF CInv, CoreTypes, Published
<1>8. LogOrder'
  <2>. SUFFICES ASSUME NEW i \in DOMAIN wal, NEW j \in DOMAIN wal, i < j,
                       Overlap(frames[wal[i]], frames[wal[j]])
                PROVE  /\ phase'[wal[i]] \in Published \cup {"aborted"}
                       /\ phase'[wal[j]] # "aborted" => i <= view[wal[j]]
                       /\ seqOf'[wal[j]] = 0 \/ seqOf'[wal[i]] < seqOf'[wal[j]]
    BY <1>1 DEF LogOrder, Overlap
  <2>1. /\ phase[wal[i]] \in Published \cup {"aborted"}
        /\ phase[wal[j]] # "aborted" => i <= view[wal[j]]
        /\ seqOf[wal[j]] = 0 \/ seqOf[wal[i]] < seqOf[wal[j]]
    BY DEF CInv, LogOrder
  <2>2. seqOf[wal[i]] < nextSeq
    BY <1>2 DEF CInv, SeqFitsPhase
  <2>3. CASE wal[j] = t
    BY <1>1, <1>2, <1>7, <2>1, <2>2, <2>3
  <2>4. CASE wal[j] # t
    BY <1>2, <1>7, <2>1, <2>4
  <2>. QED
    BY <2>3, <2>4
<1>9. IndexSource'
  <2>1. \A p \in Pages :
          \/ index[p] = 0
          \/ \E i \in DOMAIN wal : /\ p \in frames[wal[i]]
                                   /\ phase'[wal[i]] \in Published
                                   /\ index[p] = seqOf'[wal[i]]
    BY <1>7 DEF CInv, IndexSource
  <2>. QED
    BY <1>1, <2>1, Zenon DEF IndexSource
<1>10. IndexCurrent'
  BY <1>1, <1>2 DEF CInv, IndexCurrent, Published
<1>. QED
  BY <1>3, <1>4, <1>5, <1>a, <1>6, <1>8, <1>9, <1>10 DEF CInv

\* What publication does to the shared structures.
LEMMA PublishEffect ==
    ASSUME NEW t, NEW seq, NEW in, NEW out, Publish(t, seq, in, out)
    PROVE  index' = PublishIndex(t, seq) /\ lock' = Unlock(t)
BY Zenon DEF Publish

\* Publication never lowers an index entry: whoever set it earlier is ahead of t
\* in the log, since nobody behind t is published while t holds the page.
LEMMA FinalizeRaisesIndex ==
    ASSUME CInv, NEW t \in Txns, FinalizeCommit(t)
    PROVE  \A p \in Pages : /\ index'[p] >= index[p]
                            /\ index'[p] \in Nat
                            /\ index'[p] = IF p \in writes[t] THEN seqOf[t] ELSE index[p]
<1>1. /\ phase[t] = "sequenced" /\ index' = PublishIndex(t, seqOf[t])
      /\ frames[t] = writes[t]
  BY PublishEffect DEF FinalizeCommit, CInv, FramesFitPhase, Durable
<1>. SUFFICES ASSUME NEW p \in Pages
              PROVE  /\ index'[p] >= index[p]
                     /\ index'[p] \in Nat
                     /\ index'[p] = IF p \in writes[t] THEN seqOf[t] ELSE index[p]
  OBVIOUS
<1>2. index'[p] = IF p \in writes[t] THEN seqOf[t] ELSE index[p]
  BY <1>1 DEF PublishIndex
<1>3. index[p] \in Nat /\ seqOf[t] \in Nat
  BY DEF CInv, CoreTypes
<1>4. ASSUME p \in writes[t], index[p] # 0
      PROVE  seqOf[t] > index[p]
  <2>1. PICK i \in DOMAIN wal : /\ p \in frames[wal[i]]
                                /\ phase[wal[i]] \in Published
                                /\ index[p] = seqOf[wal[i]]
    BY <1>4 DEF CInv, IndexSource
  <2>2. PICK j \in DOMAIN wal : wal[j] = t
    BY <1>1, <1>4 DEF CInv, LogFitsPhase
  <2>3. Overlap(frames[wal[i]], frames[wal[j]]) /\ Overlap(frames[wal[j]], frames[wal[i]])
    BY <1>1, <1>4, <2>1, <2>2 DEF Overlap
  <2>4. phase[wal[j]] \notin Published \cup {"aborted"}
    BY <1>1, <2>2 DEF Published
  <2>5. i \in Nat /\ j \in Nat /\ i # j
    <3>1. i \in Nat /\ j \in Nat
      <4>1. wal \in Seq(Txns)
        BY DEF CInv, CoreTypes
      <4>2. DOMAIN wal = 1 .. Len(wal) /\ Len(wal) \in Nat
        BY <4>1
      <4>. QED
        BY <4>2
    <3>2. i # j
      BY <2>1, <2>4 DEF Published
    <3>. QED
      BY <3>1, <3>2
  <2>6. ~(j < i)
    BY <2>3, <2>4 DEF CInv, LogOrder
  <2>7. seqOf[t] > 0
    BY <1>1, <1>4 DEF CInv, SeqFitsPhase
  <2>8. seqOf[wal[i]] < seqOf[wal[j]]
    BY <2>2, <2>3, <2>5, <2>6, <2>7 DEF CInv, LogOrder
  <2>. QED
    BY <2>1, <2>2, <2>8, <1>3
<1>. QED
  BY <1>2, <1>3, <1>4

\* finalize_concurrent_commit keeps the invariant.
LEMMA FinalizeCInv ==
    ASSUME CInv, NEW t \in Txns, FinalizeCommit(t)
    PROVE  CInv'
<1>1. /\ phase[t] = "sequenced"
      /\ phase' = [phase EXCEPT ![t] = "published"]
      /\ lock' = Unlock(t) /\ index' = PublishIndex(t, seqOf[t])
      /\ UNCHANGED <<view, writes, want, frames, nextSeq, lift, seqOf, wal>>
  BY PublishEffect DEF FinalizeCommit, clockVars
<1>2. /\ phase'[t] = "published" /\ writes[t] # {} /\ seqOf[t] > 0
      /\ frames[t] = writes[t]
      /\ \A u \in Txns \ {t} : phase'[u] = phase[u]
      /\ \A i \in DOMAIN wal : wal[i] \in Txns
  BY <1>1 DEF CInv, CoreTypes, WritesFitPhase, FramesFitPhase, SeqFitsPhase, Durable
<1>3. \A p \in Pages : /\ index'[p] >= index[p] /\ index'[p] \in Nat
                       /\ index'[p] = IF p \in writes[t] THEN seqOf[t] ELSE index[p]
  BY FinalizeRaisesIndex
<1>4. CoreTypes'
  <2>1. phase' \in [Txns -> Phases]
    BY <1>1 DEF CInv, CoreTypes, Phases
  <2>2. lock' \in [Pages -> Txns \cup {NoTxn}]
    BY <1>1 DEF CInv, CoreTypes, Unlock
  <2>3. index' \in [Pages -> Nat]
    BY <1>1, <1>3 DEF PublishIndex
  <2>. QED
    BY <1>1, <2>1, <2>2, <2>3, Zenon DEF CInv, CoreTypes
<1>5. LocksMatchSessions'
  BY <1>1, <1>2, NoTxnAssumption
     DEF CInv, CoreTypes, Unlock, LocksMatchSessions, Registered
<1>6. WritesFitPhase' /\ FramesFitPhase' /\ SeqFitsPhase'
  BY <1>1, <1>2
     DEF CInv, WritesFitPhase, FramesFitPhase, SeqFitsPhase, Beginning, Registered
<1>7. \A i \in DOMAIN wal :
        /\ phase[wal[i]] \in Published => phase'[wal[i]] \in Published
        /\ phase[wal[i]] = "aborted" <=> phase'[wal[i]] = "aborted"
        /\ phase'[wal[i]] \in {"active", "prepared"} => phase[wal[i]] = phase'[wal[i]]
  BY <1>1, <1>2 DEF Published
<1>8. LogFitsPhase'
  <2>1. \A i \in DOMAIN wal : phase'[wal[i]] \in {"active", "prepared"} => view[wal[i]] < i
    BY <1>7 DEF CInv, LogFitsPhase
  <2>. QED
    BY <1>1, <2>1, Zenon DEF CInv, LogFitsPhase
<1>9. LogOrder'
  <2>1. \A i, j \in DOMAIN wal :
          i < j /\ Overlap(frames[wal[i]], frames[wal[j]]) =>
            /\ phase'[wal[i]] \in Published \cup {"aborted"}
            /\ phase'[wal[j]] # "aborted" => i <= view[wal[j]]
            /\ seqOf[wal[j]] = 0 \/ seqOf[wal[i]] < seqOf[wal[j]]
    BY <1>7 DEF CInv, LogOrder
  <2>. QED
    BY <1>1, <2>1, Zenon DEF LogOrder, Overlap
<1>10. IndexSource'
  <2>. SUFFICES ASSUME NEW p \in Pages, index'[p] # 0
                PROVE  \E i \in DOMAIN wal : /\ p \in frames[wal[i]]
                                             /\ phase'[wal[i]] \in Published
                                             /\ index'[p] = seqOf[wal[i]]
    BY <1>1 DEF IndexSource
  <2>1. CASE p \in writes[t]
    <3>1. PICK j \in DOMAIN wal : wal[j] = t
      BY <1>2 DEF CInv, LogFitsPhase
    <3>. QED
      BY <1>2, <1>3, <2>1, <3>1 DEF Published
  <2>2. CASE p \notin writes[t]
    BY <1>3, <1>7, <2>2 DEF CInv, IndexSource
  <2>. QED
    BY <2>1, <2>2
<1>11. IndexCurrent'
  <2>. SUFFICES ASSUME NEW u \in Txns, NEW p \in Pages,
                       phase'[u] \in Published, p \in frames[u]
                PROVE  seqOf[u] <= index'[p]
    BY <1>1 DEF IndexCurrent
  <2>1. CASE u = t
    BY <1>2, <1>3, <2>1 DEF CInv, CoreTypes
  <2>2. CASE u # t
    BY <1>2, <1>3, <2>2 DEF CInv, CoreTypes, IndexCurrent
  <2>. QED
    BY <2>1, <2>2
<1>. QED
  BY <1>4, <1>5, <1>6, <1>8, <1>9, <1>10, <1>11 DEF CInv

\* Every step of every connection keeps the invariant.
LEMMA NextCInv == CInv /\ [ConnNext]_vars => CInv'
<1>. SUFFICES ASSUME CInv, [ConnNext]_vars PROVE CInv'
  OBVIOUS
<1>1. ASSUME NEW t \in Txns, Begin(t) PROVE CInv'
  <2>. USE DEF handleVars, historyVars, clockVars, AlignClockFloor, LiftTo, Larger
  <2>1. CASE BindPublication(t)
    <3>1. PhaseStep(t, "bound")
      BY <2>1 DEF BindPublication, PhaseStep, Moves, CInv, CoreTypes
    <3>. QED
      BY <3>1, PhaseStepCInv
  <2>2. CASE OpenPager(t)
    <3>1. PhaseStep(t, "opened")
      BY <2>2 DEF OpenPager, PhaseStep, Moves, CInv, CoreTypes
    <3>. QED
      BY <3>1, PhaseStepCInv
  <2>a. CASE AlignToView(t)
    <3>1. PhaseStep(t, "aligned")
      BY <2>a DEF AlignToView, PhaseStep, Moves, CInv, CoreTypes
    <3>. QED
      BY <3>1, PhaseStepCInv
  <2>3. CASE RefreshSnapshot(t)
    <3>1. PhaseStep(t, "refreshed")
      BY <2>3 DEF RefreshSnapshot, PhaseStep, Moves, CInv, CoreTypes
    <3>. QED
      BY <3>1, PhaseStepCInv
  <2>4. CASE RegisterSession(t)
    <3>1. PhaseStep(t, "active")
      BY <2>4 DEF RegisterSession, PhaseStep, Moves, CInv, CoreTypes
    <3>. QED
      BY <3>1, PhaseStepCInv
  <2>5. CASE RegistryFull(t)
    BY <2>5, DiscardCInv DEF RegistryFull, connVars
  <2>. QED
    BY <1>1, <2>1, <2>2, <2>a, <2>3, <2>4, <2>5 DEF Begin
<1>2. ASSUME NEW t \in Txns, Statement(t) PROVE CInv'
  <2>1. CASE \E p \in Pages : Read(t, p)
    BY <2>1, FrameCInv DEF Read, RecordRead, CInv, CoreTypes, connVars
  <2>2. CASE \E p \in Pages : CheckPage(t, p)
    <3>1. /\ want' \in [Txns -> SUBSET Pages]
          /\ UNCHANGED <<phase, view, writes, frames, lock, index, seqOf, wal>>
          /\ nextSeq' \in Nat /\ nextSeq' >= nextSeq /\ lift' \in [Txns -> Nat]
      BY <2>2 DEF CheckPage, ssiVars, handleVars, CInv, CoreTypes
    <3>. QED
      BY <3>1, FrameCInv
  <2>3. CASE AcquirePage(t)
    BY <2>3, AcquireCInv
  <2>4. CASE PageBusy(t)
    <3>1. /\ want' \in [Txns -> SUBSET Pages]
          /\ UNCHANGED <<phase, view, writes, frames, lock, index, seqOf, wal>>
          /\ nextSeq' \in Nat /\ nextSeq' >= nextSeq /\ lift' \in [Txns -> Nat]
      BY <2>4 DEF PageBusy, ssiVars, handleVars, CInv, CoreTypes
    <3>. QED
      BY <3>1, FrameCInv
  <2>5. CASE Rollback(t)
    BY <2>5, DiscardCInv DEF Rollback, ConcurrentAbort, connVars
  <2>. QED
    BY <1>2, <2>1, <2>2, <2>3, <2>4, <2>5 DEF Statement
<1>3. ASSUME NEW t \in Txns, Commit(t) PROVE CInv'
  <2>. USE DEF handleVars, historyVars, clockVars, AlignClockFloor, LiftTo, Larger
  <2>1. CASE PlanCommit(t)
    <3>1. PhaseStep(t, "prepared")
      BY <2>1 DEF PlanCommit, Ready, PhaseStep, Moves, CInv, CoreTypes
    <3>. QED
      BY <3>1, PhaseStepCInv
  <2>2. CASE RefuseCommit(t)
    BY <2>2, DiscardCInv DEF RefuseCommit, RefuseWithSsi, connVars
  <2>3. CASE PagerCommit(t)
    BY <2>3, AppendCInv DEF PagerCommit
  <2>4. CASE PagerFail(t)
    <3>1. PhaseStep(t, "active")
      BY <2>4 DEF PagerFail, PhaseStep, Moves, CInv, CoreTypes
    <3>. QED
      BY <3>1, PhaseStepCInv
  <2>a. CASE PagerFailLogged(t)
    BY <2>a, AppendCInv DEF PagerFailLogged
  <2>5. CASE AdvanceCommitClock(t)
    BY <2>5, AdvanceCInv
  <2>6. CASE FinalizeCommit(t)
    BY <2>6, FinalizeCInv
  <2>7. CASE FinishCommitClock(t)
    <3>1. PhaseStep(t, "committed")
      BY <2>7 DEF FinishCommitClock, PhaseStep, Moves, CInv, CoreTypes
    <3>. QED
      BY <3>1, PhaseStepCInv
  <2>8. CASE CommitReadOnly(t)
    <3>1. PhaseStep(t, "committed")
      BY <2>8 DEF CommitReadOnly, Ready, PhaseStep, Moves, CInv, CoreTypes
    <3>. QED
      BY <3>1, PhaseStepCInv
  <2>. QED
    BY <1>3, <2>1, <2>2, <2>3, <2>4, <2>a, <2>5, <2>6, <2>7, <2>8 DEF Commit
<1>4. CASE UNCHANGED vars
  <2>1. /\ want' \in [Txns -> SUBSET Pages]
        /\ UNCHANGED <<phase, view, writes, frames, lock, index, seqOf, wal>>
        /\ nextSeq' \in Nat /\ nextSeq' >= nextSeq /\ lift' \in [Txns -> Nat]
    BY <1>4 DEF vars, connVars, ssiVars, handleVars, CInv, CoreTypes
  <2>. QED
    BY <2>1, FrameCInv
<1>5. ASSUME NEW t \in Txns, LiftClock(t) PROVE CInv'
  <2>1. /\ want' \in [Txns -> SUBSET Pages]
        /\ UNCHANGED <<phase, view, writes, frames, lock, index, seqOf, wal>>
    BY <1>5 DEF LiftClock, handleVars, CInv, CoreTypes
  <2>2. nextSeq' \in Nat /\ nextSeq' >= nextSeq /\ lift' \in [Txns -> Nat]
    BY <1>5 DEF LiftClock, Larger, CInv, CoreTypes
  <2>. QED
    BY <2>1, <2>2, FrameCInv
<1>. QED
  BY <1>1, <1>2, <1>3, <1>4, <1>5 DEF ConnNext

\* A step that is no publication leaves the commit index alone.
LEMMA IndexStep ==
    ASSUME CInv, [ConnNext]_vars
    PROVE  \A p \in Pages : index'[p] >= index[p]
<1>. DEFINE Goal == \A p \in Pages : index'[p] >= index[p]
<1>1. \A p \in Pages : index[p] \in Nat
  BY DEF CInv, CoreTypes
<1>2. ASSUME UNCHANGED index PROVE Goal
  BY <1>1, <1>2
<1>3. ASSUME NEW t \in Txns, FinalizeCommit(t) PROVE Goal
  BY <1>3, FinalizeRaisesIndex
<1>4. ASSUME NEW t \in Txns, Begin(t) PROVE UNCHANGED index
  BY <1>4 DEF Begin, BindPublication, OpenPager, AlignToView, RefreshSnapshot,
              RegisterSession, RegistryFull, Discard
<1>5. ASSUME NEW t \in Txns, Statement(t) PROVE UNCHANGED index
  BY <1>5 DEF Statement, Read, RecordRead, CheckPage, AcquirePage, PageBusy, Rollback,
              ConcurrentWritePage, ConcurrentAbort, Discard, ssiVars
<1>6. ASSUME NEW t \in Txns, Commit(t), ~FinalizeCommit(t) PROVE UNCHANGED index
  BY <1>6 DEF Commit, PlanCommit, RefuseCommit, RefuseWithSsi, PagerCommit, PagerFail,
              PagerFailLogged, AdvanceCommitClock, FinishCommitClock, CommitReadOnly,
              Discard
<1>9. ASSUME NEW t \in Txns, LiftClock(t) PROVE UNCHANGED index
  BY <1>9 DEF LiftClock
<1>7. CASE UNCHANGED vars
  BY <1>2, <1>7 DEF vars, ssiVars
<1>8. CASE ConnNext
  BY <1>2, <1>3, <1>4, <1>5, <1>6, <1>8, <1>9 DEF ConnNext
<1>. QED
  BY <1>7, <1>8

-----------------------------------------------------------------------------
(* Plans, the commit clock and the committed-conflict history *)

PlanSet == [in : SUBSET Txns, out : SUBSET Txns]

\* The types of what the argument so far did not need.
MoreTypes ==
    /\ high \in [Txns -> Nat]
    /\ reads \in [Txns -> SUBSET Pages]
    /\ plan \in [Txns -> PlanSet]
    /\ readers \subseteq Entry
    /\ writers \subseteq Entry
    /\ pushes \in Nat
    /\ activeSeqs \subseteq 1 .. (nextSeq - 1)
    /\ stable \in Nat

\* The watermark is below the clock or below what a thread is about to lift the
\* clock to; only a thread between its two fetch_max has that before it.
ClockOrder ==
    /\ stable < nextSeq \/ \E t \in Txns : stable < lift[t]
    /\ \A t \in Txns : lift[t] # 0 => phase[t] \in {"bound", "aligned", "committed"}

\* The pages of a planned transaction pass first-committer-wins until it is
\* durable: nobody publishes a page that it holds.
PlannedCurrent ==
    \A t \in Txns : phase[t] = "prepared" => \A p \in writes[t] : index[p] <= high[t]

\* A history entry stands for a published transaction, under its sequence.
EntriesStand ==
    \A e \in readers \cup writers : Stands(e, e.txn) /\ phase[e.txn] \in Published

DInv == MoreTypes /\ ClockOrder /\ PlannedCurrent /\ EntriesStand

\* A nonempty set of numbers has a least element.
LEMMA LeastExists ==
    ASSUME NEW S \in SUBSET Nat, S # {}
    PROVE  \E x \in S : \A y \in S : x <= y
<1>. DEFINE R == OpToRel(<, Nat)
<1>1. \A x, y \in Nat : <<x, y>> \in R <=> x < y
  BY DEF OpToRel
<1>2. IsWellFoundedOn(R, Nat)
  BY NatLessThanWellFounded, Zenon
<1>. HIDE DEF R
<1>3. PICK x \in S : \A y \in S : ~(<<y, x>> \in R)
  BY <1>2, WFMin
<1>4. ASSUME NEW y \in S
      PROVE  x <= y
  <2>1. x \in Nat /\ y \in Nat /\ ~(y < x)
    BY <1>1, <1>3
  <2>. QED
    BY <2>1
<1>. QED
  BY <1>4

\* CommitIndex::latest_seq is a sequence: the index is bounded by the clock.
LEMMA LatestSeqType ==
    ASSUME CInv
    PROVE  LatestSeq \in Nat
<1>1. CASE \A p \in Pages : index[p] = 0
  BY <1>1 DEF LatestSeq
<1>2. CASE ~\A p \in Pages : index[p] = 0
  <2>. DEFINE S == {index[p] : p \in Pages}
              T == {k \in Nat : nextSeq - k \in S}
  <2>1. \A p \in Pages : index[p] \in Nat /\ index[p] <= nextSeq
    <3>. SUFFICES ASSUME NEW p \in Pages PROVE index[p] \in Nat /\ index[p] <= nextSeq
      OBVIOUS
    <3>1. index[p] \in Nat /\ nextSeq \in Nat
      BY DEF CInv, CoreTypes
    <3>2. CASE index[p] = 0
      BY <3>1, <3>2
    <3>3. CASE index[p] # 0
      <4>1. PICK i \in DOMAIN wal : index[p] = seqOf[wal[i]]
        BY <3>3 DEF CInv, IndexSource
      <4>2. wal[i] \in Txns
        BY DEF CInv, CoreTypes
      <4>3. seqOf[wal[i]] < nextSeq
        BY <4>2 DEF CInv, SeqFitsPhase
      <4>. QED
        BY <3>1, <4>1, <4>3
    <3>. QED
      BY <3>2, <3>3
  <2>2. nextSeq \in Nat /\ \A s \in S : s \in Nat /\ nextSeq - s \in Nat /\ nextSeq - (nextSeq - s) = s
    BY <2>1 DEF CInv, CoreTypes
  <2>3. T # {} /\ T \in SUBSET Nat
    <3>1. PICK p \in Pages : TRUE
      BY <1>2
    <3>2. nextSeq - index[p] \in T
      BY <2>2
    <3>. QED
      BY <3>2
  <2>4. PICK k \in T : \A y \in T : k <= y
    <3>. HIDE DEF T
    <3>. QED
      BY <2>3, LeastExists
  <2>5. ASSUME NEW s \in S
        PROVE  s <= nextSeq - k
    <3>1. k <= nextSeq - s /\ k \in Nat
      BY <2>2, <2>4
    <3>. QED
      BY <2>2, <3>1
  <2>6. \E s \in S : \A p \in Pages : index[p] <= s
    <3>1. nextSeq - k \in S
      BY <2>4
    <3>. QED
      BY <2>5, <3>1
  <2>7. LatestSeq = CHOOSE s \in S : \A p \in Pages : index[p] <= s
    BY <1>2 DEF LatestSeq
  <2>8. LatestSeq \in S
    <3>. HIDE DEF S
    <3>. QED
      BY <2>6, <2>7
  <2>. QED
    BY <2>2, <2>8
<1>. QED
  BY <1>1, <1>2

\* The stable candidate is below the clock.
LEMMA StableCandidateType ==
    ASSUME CInv, NEW active \in SUBSET (1 .. (nextSeq - 1))
    PROVE  StableCandidate(active) \in Nat /\ StableCandidate(active) < nextSeq
<1>1. nextSeq \in Nat \ {0} /\ active \in SUBSET Nat
  BY DEF CInv, CoreTypes
<1>2. CASE active = {}
  BY <1>1, <1>2 DEF StableCandidate
<1>3. CASE active # {}
  <2>1. \E s \in active : \A r \in active : s <= r
    BY <1>1, <1>3, LeastExists
  <2>2. PICK m \in active : StableCandidate(active) = m - 1
    BY <1>3, <2>1 DEF StableCandidate
  <2>. QED
    BY <1>1, <2>2
<1>. QED
  BY <1>2, <1>3

\* The transactions a plan names are transactions.
LEMMA PlanType ==
    ASSUME DInv, NEW t \in Txns, NEW end
    PROVE  [in |-> PlannedIn(t, end), out |-> PlannedOut(t, end)] \in PlanSet
<1>1. \A e \in readers \cup writers : e.txn \in Txns
  BY DEF DInv, MoreTypes, Entry
<1>2. Incoming(t, end) \subseteq Txns /\ Outgoing(t, end) \subseteq Txns
  BY <1>1 DEF Incoming, Outgoing, CommittedReaderEdges, CommittedWriterEdges, Sessions
<1>3. PlannedIn(t, end) \subseteq Txns /\ PlannedOut(t, end) \subseteq Txns
  BY <1>2 DEF PlannedIn, PlannedOut
<1>. QED
  BY <1>3 DEF PlanSet

\* A step of transaction s that publishes nothing and writes no history.
Quiet(s) ==
    /\ UNCHANGED <<readers, writers, pushes>>
    /\ \A u \in Txns \ {s} : /\ phase'[u] = phase[u] /\ high'[u] = high[u]
                             /\ reads'[u] = reads[u] /\ seqOf'[u] = seqOf[u]
    /\ phase[s] \in Registered /\ phase'[s] \in Registered => high'[s] = high[s]
    /\ phase[s] \in Published =>
          phase'[s] \in Published /\ seqOf'[s] = seqOf[s] /\ reads'[s] = reads[s]
    /\ phase'[s] \in Published => phase[s] \in Published \/ seqOf'[s] = 0

\* Quiet steps leave what the entries stand for alone ...
LEMMA QuietEntries ==
    ASSUME DInv, NEW s \in Txns, Quiet(s)
    PROVE  EntriesStand' /\ readers' \subseteq Entry /\ writers' \subseteq Entry /\ pushes' \in Nat
<1>1. UNCHANGED <<readers, writers, pushes>>
  BY DEF Quiet
<1>2. \A e \in readers \cup writers : e.txn \in Txns
  BY DEF DInv, MoreTypes, Entry
<1>3. \A u \in Txns : phase[u] \in Published => phase'[u] \in Published /\ seqOf'[u] = seqOf[u]
  BY DEF Quiet
<1>4. EntriesStand'
  BY <1>1, <1>2, <1>3 DEF DInv, EntriesStand, Stands
<1>. QED
  BY <1>1, <1>4 DEF DInv, MoreTypes

\* ... and lose nothing that a session needs.
LEMMA QuietCovered ==
    ASSUME CInv, DInv, NEW s \in Txns, Quiet(s), NEW t \in Txns, phase[t] \in Registered,
           phase'[t] \in Registered, Covered(t)
    PROVE  Covered(t)'
<1>1. readers' = readers /\ writers' = writers /\ high'[t] = high[t] /\ high[t] \in Nat
  BY DEF Quiet, DInv, MoreTypes
<1>2. ASSUME NEW u \in Txns, phase'[u] \in Published, seqOf'[u] > high[t]
      PROVE  phase[u] \in Published /\ seqOf'[u] = seqOf[u] /\ reads'[u] = reads[u]
  BY <1>1, <1>2 DEF Quiet
<1>. QED
  BY <1>1, <1>2 DEF Covered, Published

\* Sequences below the clock stay below a clock that is lifted.
LEMMA StaysBelow ==
    ASSUME NEW a \in Nat, NEW b \in Nat, a <= b, NEW S, S \subseteq 1 .. (a - 1)
    PROVE  S \subseteq 1 .. (b - 1)
<1>. SUFFICES ASSUME NEW x \in S PROVE x \in 1 .. (b - 1)
  OBVIOUS
<1>1. x \in 1 .. (a - 1)
  OBVIOUS
<1>2. x \in Nat /\ 1 <= x /\ x <= a - 1
  BY <1>1
<1>3. x <= b - 1
  BY <1>2
<1>. QED
  BY <1>2, <1>3

\* Raising the watermark, to something below the clock or to what t will lift the
\* clock past, keeps the order.
LEMMA RaisedWatermark ==
    ASSUME CInv, DInv, NEW t \in Txns, NEW v \in Nat, NEW k \in Nat, k < nextSeq,
           stable' = Larger(Larger(stable, k), v), lift' = LiftTo(t, v), UNCHANGED nextSeq,
           lift[t] = 0, phase'[t] \in {"bound", "aligned", "committed"},
           \A u \in Txns \ {t} : phase'[u] = phase[u]
    PROVE  stable' \in Nat /\ ClockOrder'
<1>1. /\ nextSeq \in Nat /\ stable \in Nat /\ lift \in [Txns -> Nat]
      /\ stable < nextSeq \/ \E u \in Txns \ {t} : stable < lift[u]
  BY DEF CInv, CoreTypes, DInv, MoreTypes, ClockOrder
<1>2. /\ lift'[t] = IF nextSeq <= v THEN v + 1 ELSE 0
      /\ \A u \in Txns \ {t} : lift'[u] = lift[u]
      /\ stable' \in Nat
      /\ stable' = v \/ stable' < nextSeq \/ stable' = stable
  BY <1>1 DEF LiftTo, Larger
<1>3. stable' < nextSeq' \/ \E u \in Txns : stable' < lift'[u]
  <2>1. CASE stable' = v
    BY <1>1, <1>2, <2>1
  <2>2. CASE stable' = stable
    BY <1>1, <1>2, <2>2
  <2>. QED
    BY <1>2, <2>1, <2>2
<1>4. \A u \in Txns : lift'[u] # 0 => phase'[u] \in {"bound", "aligned", "committed"}
  BY <1>2 DEF DInv, ClockOrder
<1>. QED
  BY <1>2, <1>3, <1>4 DEF ClockOrder

\* align_commit_clock_floor is such a step.
LEMMA AlignedClock ==
    ASSUME CInv, DInv, NEW t \in Txns, NEW v \in Nat, AlignClockFloor(t, v), lift[t] = 0,
           phase'[t] \in {"bound", "aligned", "committed"},
           \A u \in Txns \ {t} : phase'[u] = phase[u]
    PROVE  stable' \in Nat /\ ClockOrder'
<1>1. 0 < nextSeq /\ 0 \in Nat /\ stable \in Nat
  BY DEF CInv, CoreTypes, DInv, MoreTypes
<1>2. /\ stable' = Larger(Larger(stable, 0), v) /\ lift' = LiftTo(t, v)
      /\ UNCHANGED nextSeq
  BY <1>1 DEF AlignClockFloor, Larger
<1>. QED
  BY <1>1, <1>2, RaisedWatermark

\* The clock, the watermark and the lifts are left alone by a step into or out of
\* another phase than those in which a thread is between its two fetch_max.
LEMMA ClockFrame ==
    ASSUME DInv, UNCHANGED <<nextSeq, stable, lift>>,
           \A u \in Txns : lift[u] = 0 \/ phase'[u] = phase[u]
    PROVE  ClockOrder'
BY DEF DInv, ClockOrder

\* A step that plans nothing and leaves the index and the planned alone.
LEMMA PlannedFrame ==
    ASSUME DInv, UNCHANGED index,
           \A u \in Txns : phase'[u] = "prepared" =>
               phase[u] = "prepared" /\ writes'[u] = writes[u] /\ high'[u] = high[u]
    PROVE  PlannedCurrent'
BY DEF DInv, PlannedCurrent

\* Discarding a session is quiet.
LEMMA DiscardDInv ==
    ASSUME CInv, DInv, NEW t \in Txns, phase[t] \in {"refreshed", "active"}, Discard(t),
           UNCHANGED <<plan, activeSeqs, stable, lift>>
    PROVE  DInv' /\ Quiet(t)
<1>1. /\ phase' = [phase EXCEPT ![t] = "aborted"] /\ high' = [high EXCEPT ![t] = 0]
      /\ reads' = [reads EXCEPT ![t] = {}] /\ writes' = [writes EXCEPT ![t] = {}]
      /\ UNCHANGED <<index, readers, writers, pushes, nextSeq, seqOf>>
  BY DEF Discard, historyVars
<1>2. /\ phase'[t] = "aborted"
      /\ \A u \in Txns \ {t} : /\ phase'[u] = phase[u] /\ high'[u] = high[u]
                               /\ reads'[u] = reads[u] /\ writes'[u] = writes[u]
  BY <1>1 DEF CInv, CoreTypes, DInv, MoreTypes
<1>3. Quiet(t)
  BY <1>1, <1>2 DEF Quiet, Registered, Published
<1>4. PlannedCurrent'
  BY <1>1, <1>2, PlannedFrame
<1>5. high' \in [Txns -> Nat] /\ reads' \in [Txns -> SUBSET Pages]
  BY <1>1 DEF DInv, MoreTypes
<1>6. ClockOrder'
  BY <1>1, <1>2, ClockFrame DEF DInv, ClockOrder
<1>. QED
  BY <1>1, <1>3, <1>4, <1>5, <1>6, QuietEntries DEF DInv, MoreTypes

LEMMA BeginDInv ==
    ASSUME CInv, DInv, NEW t \in Txns, Begin(t)
    PROVE  DInv' /\ Quiet(t)
<1>. USE DEF handleVars, historyVars, clockVars
<1>1. Len(wal) \in Nat /\ view[t] \in Nat /\ phase \in [Txns -> Phases]
  BY DEF CInv, CoreTypes
<1>2. CASE BindPublication(t)
  <2>1. /\ phase[t] = "idle" /\ phase' = [phase EXCEPT ![t] = "bound"]
        /\ high' = [high EXCEPT ![t] = Len(wal)] /\ AlignClockFloor(t, Len(wal))
        /\ UNCHANGED <<reads, writes, index, readers, writers, pushes, seqOf, plan, activeSeqs>>
    BY <1>2 DEF BindPublication
  <2>2. Quiet(t)
    BY <1>1, <2>1 DEF Quiet, DInv, MoreTypes, Registered, Published
  <2>3. PlannedCurrent'
    BY <1>1, <2>1, PlannedFrame DEF DInv, MoreTypes
  <2>4. stable' \in Nat /\ ClockOrder' /\ activeSeqs' \subseteq 1 .. (nextSeq' - 1)
    <3>1. lift[t] = 0
      BY <2>1 DEF DInv, ClockOrder
    <3>2. stable' \in Nat /\ ClockOrder'
      BY <1>1, <2>1, <3>1, AlignedClock
    <3>. QED
      BY <2>1, <3>2 DEF AlignClockFloor, DInv, MoreTypes
  <2>5. high' \in [Txns -> Nat]
    BY <1>1, <2>1 DEF DInv, MoreTypes
  <2>. QED
    BY <2>1, <2>2, <2>3, <2>4, <2>5, QuietEntries DEF DInv, MoreTypes
<1>3. CASE OpenPager(t)
  <2>1. /\ phase[t] = "bound" /\ lift[t] = 0 /\ phase' = [phase EXCEPT ![t] = "opened"]
        /\ UNCHANGED <<high, reads, writes, index, readers, writers, pushes, seqOf, plan,
                       nextSeq, activeSeqs, stable, lift>>
    BY <1>3 DEF OpenPager
  <2>2. Quiet(t)
    BY <1>1, <2>1 DEF Quiet, Registered, Published
  <2>3. PlannedCurrent'
    BY <1>1, <2>1, PlannedFrame
  <2>c. ClockOrder'
    BY <1>1, <2>1, ClockFrame DEF DInv, ClockOrder
  <2>. QED
    BY <2>c, <2>1, <2>2, <2>3, QuietEntries DEF DInv, MoreTypes
<1>a. CASE AlignToView(t)
  <2>1. /\ phase[t] = "opened" /\ phase' = [phase EXCEPT ![t] = "aligned"]
        /\ AlignClockFloor(t, view[t])
        /\ UNCHANGED <<high, reads, writes, index, readers, writers, pushes, seqOf, plan,
                       activeSeqs>>
    BY <1>a DEF AlignToView
  <2>2. Quiet(t)
    BY <1>1, <2>1 DEF Quiet, Registered, Published
  <2>3. PlannedCurrent'
    BY <1>1, <2>1, PlannedFrame
  <2>4. stable' \in Nat /\ ClockOrder' /\ activeSeqs' \subseteq 1 .. (nextSeq' - 1)
    <3>1. lift[t] = 0
      BY <2>1 DEF DInv, ClockOrder
    <3>2. stable' \in Nat /\ ClockOrder'
      BY <1>1, <2>1, <3>1, AlignedClock
    <3>. QED
      BY <2>1, <3>2 DEF AlignClockFloor, DInv, MoreTypes
  <2>. QED
    BY <2>1, <2>2, <2>3, <2>4, QuietEntries DEF DInv, MoreTypes
<1>4. CASE RefreshSnapshot(t)
  <2>1. /\ phase[t] = "aligned" /\ lift[t] = 0 /\ phase' = [phase EXCEPT ![t] = "refreshed"]
        /\ high' = [high EXCEPT ![t] = Larger(@, Larger(view[t], LatestSeq))]
        /\ UNCHANGED <<reads, writes, index, readers, writers, pushes, seqOf, plan,
                       nextSeq, activeSeqs, stable, lift>>
    BY <1>4 DEF RefreshSnapshot
  <2>2. Quiet(t)
    BY <1>1, <2>1 DEF Quiet, DInv, MoreTypes, Registered, Published
  <2>3. PlannedCurrent'
    BY <1>1, <2>1, PlannedFrame DEF DInv, MoreTypes
  <2>4. ClockOrder'
    BY <1>1, <2>1, ClockFrame
  <2>5. high' \in [Txns -> Nat]
    <3>1. PICK l \in Nat : l = LatestSeq
      BY LatestSeqType
    <3>2. high[t] \in Nat
      BY DEF DInv, MoreTypes
    <3>3. Larger(high[t], Larger(view[t], LatestSeq)) \in Nat
      BY <1>1, <3>1, <3>2 DEF Larger
    <3>. QED
      BY <2>1, <3>3 DEF DInv, MoreTypes
  <2>. QED
    BY <2>1, <2>2, <2>3, <2>4, <2>5, QuietEntries DEF DInv, MoreTypes
<1>5. CASE RegisterSession(t)
  <2>1. /\ phase[t] = "refreshed" /\ phase' = [phase EXCEPT ![t] = "active"]
        /\ UNCHANGED <<high, reads, writes, index, readers, writers, pushes, seqOf, plan,
                       nextSeq, activeSeqs, stable, lift>>
    BY <1>5 DEF RegisterSession
  <2>2. Quiet(t)
    BY <1>1, <2>1 DEF Quiet, Registered, Published
  <2>3. PlannedCurrent'
    BY <1>1, <2>1, PlannedFrame
  <2>c. ClockOrder'
    BY <1>1, <2>1, ClockFrame DEF DInv, ClockOrder
  <2>. QED
    BY <2>c, <2>1, <2>2, <2>3, QuietEntries DEF DInv, MoreTypes
<1>6. CASE RegistryFull(t)
  <2>1. phase[t] = "refreshed" /\ Discard(t) /\ UNCHANGED <<plan, activeSeqs, stable, lift>>
    BY <1>6 DEF RegistryFull, connVars
  <2>. QED
    BY <2>1, DiscardDInv
<1>. QED
  BY <1>2, <1>3, <1>a, <1>4, <1>5, <1>6 DEF Begin

LEMMA StatementDInv ==
    ASSUME CInv, DInv, NEW t \in Txns, Statement(t)
    PROVE  DInv' /\ Quiet(t)
<1>. USE DEF handleVars, historyVars, clockVars
<1>1. phase \in [Txns -> Phases] /\ writes \in [Txns -> SUBSET Pages]
  BY DEF CInv, CoreTypes
<1>2. ASSUME NEW p \in Pages, Read(t, p)
      PROVE  DInv' /\ Quiet(t)
  <2>1. /\ phase[t] = "active" /\ reads' = [reads EXCEPT ![t] = @ \cup {p}]
        /\ UNCHANGED <<phase, high, writes, index, readers, writers, pushes, seqOf, plan,
                       nextSeq, activeSeqs, stable, lift>>
    BY <1>2 DEF Read, RecordRead, connVars
  <2>2. Quiet(t)
    BY <2>1 DEF Quiet, Registered, Published, DInv, MoreTypes
  <2>3. PlannedCurrent'
    BY <2>1, PlannedFrame
  <2>4. reads' \in [Txns -> SUBSET Pages]
    BY <2>1 DEF DInv, MoreTypes
  <2>c. ClockOrder'
    BY <1>1, <2>1, ClockFrame DEF DInv, ClockOrder
  <2>. QED
    BY <2>c, <2>1, <2>2, <2>3, <2>4, QuietEntries DEF DInv, MoreTypes
<1>3. ASSUME UNCHANGED <<ssiVars, plan, activeSeqs, stable, lift>>
      PROVE  DInv' /\ Quiet(t)
  <2>1. UNCHANGED <<phase, high, reads, writes, index, readers, writers, pushes, seqOf, plan,
                    nextSeq, activeSeqs, stable, lift>>
    BY <1>3 DEF ssiVars
  <2>2. Quiet(t)
    BY <2>1 DEF Quiet
  <2>3. PlannedCurrent'
    BY <2>1, PlannedFrame
  <2>c. ClockOrder'
    BY <1>1, <2>1, ClockFrame DEF DInv, ClockOrder
  <2>. QED
    BY <2>c, <2>1, <2>2, <2>3, QuietEntries DEF DInv, MoreTypes
<1>4. ASSUME NEW p \in Pages, CheckPage(t, p)
      PROVE  DInv' /\ Quiet(t)
  BY <1>3, <1>4 DEF CheckPage
<1>5. CASE AcquirePage(t)
  <2>1. PICK p \in want[t] : ConcurrentWritePage(t, p) /\ UNCHANGED <<plan, activeSeqs, stable, lift>>
    BY <1>5 DEF AcquirePage
  <2>2. /\ phase[t] = "active" /\ writes' = [writes EXCEPT ![t] = @ \cup {p}]
        /\ UNCHANGED <<phase, high, reads, index, readers, writers, pushes, seqOf, plan,
                       nextSeq, activeSeqs, stable, lift>>
    BY <2>1 DEF ConcurrentWritePage
  <2>3. Quiet(t)
    BY <2>2 DEF Quiet
  <2>4. PlannedCurrent'
    BY <1>1, <2>2, PlannedFrame
  <2>c. ClockOrder'
    BY <1>1, <2>2, ClockFrame DEF DInv, ClockOrder
  <2>. QED
    BY <2>c, <2>2, <2>3, <2>4, QuietEntries DEF DInv, MoreTypes
<1>6. CASE PageBusy(t)
  BY <1>3, <1>6 DEF PageBusy
<1>7. CASE Rollback(t)
  <2>1. phase[t] = "active" /\ Discard(t) /\ UNCHANGED <<plan, activeSeqs, stable, lift>>
    BY <1>7 DEF Rollback, ConcurrentAbort, connVars
  <2>. QED
    BY <2>1, DiscardDInv
<1>. QED
  BY <1>2, <1>4, <1>5, <1>6, <1>7 DEF Statement

LEMMA CommitDInv ==
    ASSUME CInv, DInv, NEW t \in Txns, Commit(t), ~FinalizeCommit(t)
    PROVE  DInv' /\ Quiet(t)
<1>. USE DEF handleVars, historyVars, clockVars
<1>1. phase \in [Txns -> Phases] /\ nextSeq \in Nat \ {0} /\ view[t] \in Nat
  BY DEF CInv, CoreTypes
<1>2. CASE PlanCommit(t)
  <2>. DEFINE pl == [in |-> PlannedIn(t, nextSeq), out |-> PlannedOut(t, nextSeq)]
  <2>1. /\ phase[t] = "active" /\ ~BaseDrift(t) /\ phase' = [phase EXCEPT ![t] = "prepared"]
        /\ plan' = [plan EXCEPT ![t] = pl]
        /\ UNCHANGED <<high, reads, writes, index, readers, writers, pushes, seqOf,
                       nextSeq, activeSeqs, stable, lift>>
    BY <1>2 DEF PlanCommit, Ready, Refuses
  <2>2. pl \in PlanSet
    BY PlanType
  <2>. HIDE DEF pl
  <2>3. Quiet(t)
    BY <1>1, <2>1 DEF Quiet, Registered, Published
  <2>4. PlannedCurrent'
    <3>1. \A p \in writes[t] : index[p] <= high[t]
      <4>1. \A p \in writes[t] : p \in Pages /\ index[p] \in Nat
        BY DEF CInv, CoreTypes
      <4>2. high[t] \in Nat
        BY DEF DInv, MoreTypes
      <4>. QED
        BY <2>1, <4>1, <4>2 DEF BaseDrift
    <3>2. \A u \in Txns \ {t} : phase'[u] = phase[u]
      BY <1>1, <2>1
    <3>. QED
      BY <2>1, <3>1, <3>2 DEF DInv, PlannedCurrent
  <2>5. plan' \in [Txns -> PlanSet]
    BY <2>1, <2>2 DEF DInv, MoreTypes
  <2>c. ClockOrder'
    BY <1>1, <2>1, ClockFrame DEF DInv, ClockOrder
  <2>. QED
    BY <2>c, <2>1, <2>3, <2>4, <2>5, QuietEntries DEF DInv, MoreTypes
<1>3. CASE RefuseCommit(t)
  <2>1. phase[t] = "active" /\ Discard(t) /\ UNCHANGED <<plan, activeSeqs, stable, lift>>
    BY <1>3 DEF RefuseCommit, RefuseWithSsi, connVars
  <2>. QED
    BY <2>1, DiscardDInv
<1>4. CASE PagerCommit(t)
  <2>1. /\ phase[t] = "prepared" /\ phase' = [phase EXCEPT ![t] = "durable"]
        /\ UNCHANGED <<high, reads, writes, index, readers, writers, pushes, seqOf, plan,
                       nextSeq, activeSeqs, stable, lift>>
    BY <1>4 DEF PagerCommit
  <2>2. Quiet(t)
    BY <1>1, <2>1 DEF Quiet, Registered, Published
  <2>3. PlannedCurrent'
    BY <1>1, <2>1, PlannedFrame
  <2>c. ClockOrder'
    BY <1>1, <2>1, ClockFrame DEF DInv, ClockOrder
  <2>. QED
    BY <2>c, <2>1, <2>2, <2>3, QuietEntries DEF DInv, MoreTypes
<1>5. CASE PagerFail(t) \/ PagerFailLogged(t)
  <2>1. /\ phase[t] = "prepared" /\ phase' = [phase EXCEPT ![t] = "active"]
        /\ plan' = [plan EXCEPT ![t] = NoPlan]
        /\ UNCHANGED <<high, reads, writes, index, readers, writers, pushes, seqOf,
                       nextSeq, activeSeqs, stable, lift>>
    BY <1>5 DEF PagerFail, PagerFailLogged
  <2>2. Quiet(t)
    BY <1>1, <2>1 DEF Quiet, Registered, Published
  <2>3. PlannedCurrent'
    BY <1>1, <2>1, PlannedFrame
  <2>4. plan' \in [Txns -> PlanSet]
    BY <2>1 DEF DInv, MoreTypes, NoPlan, PlanSet
  <2>c. ClockOrder'
    BY <1>1, <2>1, ClockFrame DEF DInv, ClockOrder
  <2>. QED
    BY <2>c, <2>1, <2>2, <2>3, <2>4, QuietEntries DEF DInv, MoreTypes
<1>6. CASE AdvanceCommitClock(t)
  <2>1. /\ phase[t] = "durable" /\ phase' = [phase EXCEPT ![t] = "sequenced"]
        /\ seqOf' = [seqOf EXCEPT ![t] = nextSeq]
        /\ activeSeqs' = activeSeqs \cup {nextSeq} /\ nextSeq' = nextSeq + 1
        /\ UNCHANGED <<high, reads, writes, index, readers, writers, pushes, plan, stable,
                       lift>>
    BY <1>6 DEF AdvanceCommitClock
  <2>2. Quiet(t)
    BY <1>1, <2>1 DEF Quiet, Registered, Published, CInv, CoreTypes
  <2>3. PlannedCurrent'
    BY <1>1, <2>1, PlannedFrame
  <2>4. activeSeqs' \subseteq 1 .. (nextSeq' - 1) /\ (stable < nextSeq => stable < nextSeq')
    BY <1>1, <2>1 DEF DInv, MoreTypes
  <2>5. ClockOrder'
    BY <1>1, <2>1, <2>4 DEF DInv, ClockOrder
  <2>. QED
    BY <2>1, <2>2, <2>3, <2>4, <2>5, QuietEntries DEF DInv, MoreTypes
<1>7. CASE FinishCommitClock(t)
  <2>1. /\ phase[t] = "published" /\ phase' = [phase EXCEPT ![t] = "committed"]
        /\ activeSeqs' = Unfinished(t)
        /\ stable' = Larger(Larger(stable, StableCandidate(activeSeqs')), view[t] + 1)
        /\ lift' = LiftTo(t, view[t] + 1)
        /\ UNCHANGED <<high, reads, writes, index, readers, writers, pushes, nextSeq, seqOf,
                       plan>>
    BY <1>7 DEF FinishCommitClock
  <2>2. Quiet(t)
    BY <1>1, <2>1 DEF Quiet, Registered, Published
  <2>3. PlannedCurrent'
    BY <1>1, <2>1, PlannedFrame
  <2>4. activeSeqs' \in SUBSET (1 .. (nextSeq - 1))
    BY <2>1 DEF DInv, MoreTypes, Unfinished
  <2>5. PICK k \in Nat : k = StableCandidate(activeSeqs') /\ k < nextSeq
    BY <2>4, StableCandidateType
  <2>6. stable' \in Nat /\ ClockOrder'
    <3>1. lift[t] = 0 /\ view[t] + 1 \in Nat
      BY <1>1, <2>1 DEF DInv, ClockOrder
    <3>2. stable' = Larger(Larger(stable, k), view[t] + 1)
      BY <2>1, <2>5
    <3>. QED
      BY <1>1, <2>1, <2>5, <3>1, <3>2, RaisedWatermark
  <2>. QED
    BY <2>1, <2>2, <2>3, <2>4, <2>6, QuietEntries DEF DInv, MoreTypes
<1>8. CASE CommitReadOnly(t)
  <2>1. /\ phase[t] = "active" /\ phase' = [phase EXCEPT ![t] = "committed"]
        /\ UNCHANGED <<high, reads, writes, index, readers, writers, pushes, seqOf, plan,
                       nextSeq, activeSeqs, stable, lift>>
    BY <1>8 DEF CommitReadOnly, Ready
  <2>2. seqOf[t] = 0
    BY <2>1 DEF CInv, SeqFitsPhase
  <2>3. Quiet(t)
    BY <1>1, <2>1, <2>2 DEF Quiet, Registered, Published
  <2>4. PlannedCurrent'
    BY <1>1, <2>1, PlannedFrame
  <2>c. ClockOrder'
    BY <1>1, <2>1, ClockFrame DEF DInv, ClockOrder
  <2>. QED
    BY <2>c, <2>1, <2>3, <2>4, QuietEntries DEF DInv, MoreTypes
<1>. QED
  BY <1>2, <1>3, <1>4, <1>5, <1>6, <1>7, <1>8 DEF Commit

\* The second fetch_max lifts the clock past the watermark that the first raised.
LEMMA LiftDInv ==
    ASSUME CInv, DInv, NEW t \in Txns, LiftClock(t)
    PROVE  DInv' /\ Quiet(t)
<1>1. /\ lift[t] # 0 /\ nextSeq' = Larger(nextSeq, lift[t]) /\ lift' = [lift EXCEPT ![t] = 0]
      /\ UNCHANGED <<phase, high, reads, writes, index, readers, writers, pushes, seqOf, plan,
                     activeSeqs, stable>>
  BY DEF LiftClock, handleVars, historyVars
<1>2. Quiet(t)
  BY <1>1 DEF Quiet
<1>3. PlannedCurrent'
  BY <1>1, PlannedFrame
<1>4. /\ nextSeq \in Nat /\ lift \in [Txns -> Nat] /\ stable \in Nat
      /\ activeSeqs \subseteq 1 .. (nextSeq - 1)
  BY DEF CInv, CoreTypes, DInv, MoreTypes
<1>5. PICK a \in Nat, b \in Nat : a = nextSeq /\ b = nextSeq' /\ a <= b /\ lift[t] <= b
  BY <1>1, <1>4 DEF Larger
<1>6. activeSeqs' \subseteq 1 .. (nextSeq' - 1)
  BY <1>1, <1>4, <1>5, StaysBelow
<1>7. ClockOrder'
  <2>1. stable < nextSeq' \/ \E u \in Txns : stable < lift'[u]
    <3>1. CASE stable < nextSeq
      BY <1>4, <1>5, <3>1
    <3>2. CASE \E u \in Txns : stable < lift[u]
      <4>1. PICK u \in Txns : stable < lift[u]
        BY <3>2
      <4>2. CASE u = t
        BY <1>4, <1>5, <4>1, <4>2
      <4>3. CASE u # t
        BY <1>1, <1>4, <4>1, <4>3
      <4>. QED
        BY <4>2, <4>3
    <3>. QED
      BY <3>1, <3>2 DEF DInv, ClockOrder
  <2>. QED
    BY <1>1, <1>4, <2>1 DEF DInv, ClockOrder
<1>. QED
  BY <1>1, <1>2, <1>3, <1>6, <1>7, QuietEntries DEF DInv, MoreTypes

\* Publication: the index moves only on pages that no planned transaction holds,
\* and the new entries stand for the published transaction.
LEMMA FinalizeHistory ==
    ASSUME CInv, DInv, NEW t \in Txns, FinalizeCommit(t)
    PROVE  /\ \E kept : Prunes(t, seqOf[t], plan[t].in \cup Incoming(t, seqOf[t]),
                               plan[t].out \cup Outgoing(t, seqOf[t]), kept)
           /\ pushes' = pushes + 1
<1>. DEFINE in == plan[t].in \cup Incoming(t, seqOf[t])
            out == plan[t].out \cup Outgoing(t, seqOf[t])
<1>1. Publish(t, seqOf[t], in, out)
  BY DEF FinalizeCommit
<1>. HIDE DEF in, out
<1>2. pushes' = pushes + 1
  BY <1>1, Zenon DEF Publish
<1>3. \E kept : Prunes(t, seqOf[t], in, out, kept)
  BY <1>1, PublishHistory, Zenon
<1>. QED
  BY <1>2, <1>3 DEF in, out

\* The entries that publication adds: one each for what it read and wrote.
AddsEntries(t, seq, in, out) ==
    /\ \A e \in NewReader(t, seq, in) \cup NewWriter(t, seq, out) :
           e \in Entry /\ e.txn = t /\ e.seq = seq
    /\ reads[t] # {} => NewReader(t, seq, in) # {}
    /\ writes[t] # {} => NewWriter(t, seq, out) # {}

LEMMA NewEntries ==
    ASSUME NEW t \in Txns, NEW seq \in Nat, NEW in, NEW out, pushes \in Nat
    PROVE  AddsEntries(t, seq, in, out)
<1>1. PICK i \in BOOLEAN, o \in BOOLEAN : i = (in # {}) /\ o = (out # {})
  BY Zenon
<1>2. /\ NewReader(t, seq, in) = IF reads[t] = {} THEN {}
             ELSE {[txn |-> t, seq |-> seq, rw |-> i, ord |-> pushes + 1]}
      /\ NewWriter(t, seq, out) = IF writes[t] = {} THEN {}
             ELSE {[txn |-> t, seq |-> seq, rw |-> o, ord |-> pushes + 1]}
  BY <1>1, Zenon DEF NewReader, NewWriter
<1>3. pushes + 1 \in Nat
  OBVIOUS
<1>4. ASSUME NEW b \in BOOLEAN
      PROVE  LET e == [txn |-> t, seq |-> seq, rw |-> b, ord |-> pushes + 1]
             IN  e \in Entry /\ e.txn = t /\ e.seq = seq
  BY <1>3 DEF Entry
<1>5. /\ \A e \in NewReader(t, seq, in) :
             e = [txn |-> t, seq |-> seq, rw |-> i, ord |-> pushes + 1]
      /\ \A e \in NewWriter(t, seq, out) :
             e = [txn |-> t, seq |-> seq, rw |-> o, ord |-> pushes + 1]
      /\ reads[t] # {} => NewReader(t, seq, in) # {}
      /\ writes[t] # {} => NewWriter(t, seq, out) # {}
  BY <1>2, Zenon
<1>6. \A e \in NewReader(t, seq, in) : e \in Entry /\ e.txn = t /\ e.seq = seq
  BY <1>4, <1>5, Zenon
<1>7. \A e \in NewWriter(t, seq, out) : e \in Entry /\ e.txn = t /\ e.seq = seq
  BY <1>4, <1>5, Zenon
<1>. QED
  BY <1>5, <1>6, <1>7 DEF AddsEntries

LEMMA FinalizeDInv ==
    ASSUME CInv, DInv, NEW t \in Txns, FinalizeCommit(t)
    PROVE  DInv'
<1>1. /\ phase[t] = "sequenced" /\ phase' = [phase EXCEPT ![t] = "published"]
      /\ plan' = [plan EXCEPT ![t] = NoPlan]
      /\ UNCHANGED <<high, reads, writes, seqOf, nextSeq, activeSeqs, stable, lift>>
  BY DEF FinalizeCommit, clockVars
<1>2. /\ phase'[t] = "published" /\ \A u \in Txns \ {t} : phase'[u] = phase[u]
      /\ seqOf[t] \in Nat
  BY <1>1 DEF CInv, CoreTypes
<1>3. PICK in, out, kept : Prunes(t, seqOf[t], in, out, kept)
  BY FinalizeHistory, Zenon
<1>4. pushes' = pushes + 1 /\ pushes \in Nat
  BY FinalizeHistory DEF DInv, MoreTypes
<1>5. /\ readers' \subseteq readers \cup NewReader(t, seqOf[t], in)
      /\ writers' \subseteq writers \cup NewWriter(t, seqOf[t], out)
  BY <1>3 DEF Prunes, Retained
<1>6. \A e \in NewReader(t, seqOf[t], in) \cup NewWriter(t, seqOf[t], out) :
          e \in Entry /\ e.txn = t /\ e.seq = seqOf[t]
  <2>1. AddsEntries(t, seqOf[t], in, out)
    BY <1>2, <1>4, NewEntries
  <2>. QED
    BY <2>1 DEF AddsEntries
<1>7. readers' \subseteq Entry /\ writers' \subseteq Entry
  BY <1>5, <1>6 DEF DInv, MoreTypes
<1>8. EntriesStand'
  <2>1. \A e \in readers \cup writers : e.txn \in Txns
    BY DEF DInv, MoreTypes, Entry
  <2>2. \A e \in readers \cup writers : e.seq = seqOf[e.txn] /\ phase'[e.txn] \in Published
    BY <1>1, <1>2, <2>1 DEF DInv, EntriesStand, Stands, Published
  <2>3. ASSUME NEW e \in readers' \cup writers'
        PROVE  e.seq = seqOf[e.txn] /\ phase'[e.txn] \in Published
    <3>1. CASE e \in readers \cup writers
      BY <2>2, <3>1
    <3>2. CASE e \in NewReader(t, seqOf[t], in) \cup NewWriter(t, seqOf[t], out)
      BY <1>2, <1>6, <3>2 DEF Published
    <3>. QED
      BY <1>5, <3>1, <3>2
  <2>. QED
    BY <1>1, <2>3 DEF EntriesStand, Stands
<1>9. PlannedCurrent'
  <2>. SUFFICES ASSUME NEW u \in Txns, phase'[u] = "prepared", NEW p \in writes[u]
                PROVE  index'[p] <= high[u]
    BY <1>1 DEF PlannedCurrent
  <2>1. u # t /\ phase[u] = "prepared" /\ p \in Pages
    BY <1>2 DEF CInv, CoreTypes
  <2>2. p \notin writes[t]
    BY <1>1, <2>1, SessionsDisjoint DEF Registered, Overlap
  <2>3. index'[p] = index[p]
    BY <2>1, <2>2, FinalizeRaisesIndex
  <2>. QED
    BY <2>1, <2>3 DEF DInv, PlannedCurrent
<1>10. plan' \in [Txns -> PlanSet] /\ pushes' \in Nat
  BY <1>1, <1>4 DEF DInv, MoreTypes, NoPlan, PlanSet
<1>11. ClockOrder'
  BY <1>1, <1>2, ClockFrame DEF DInv, ClockOrder
<1>. QED
  BY <1>1, <1>7, <1>8, <1>9, <1>10, <1>11 DEF DInv, MoreTypes

\* Publication keeps the history of every session that stays unmarked.
LEMMA FinalizeCovered ==
    ASSUME CInv, DInv, NEW t \in Txns, FinalizeCommit(t), NEW s \in Unmarked(marked),
           s \in Unmarked(marked)', Covered(s)
    PROVE  Covered(s)'
<1>1. /\ phase[t] = "sequenced" /\ phase' = [phase EXCEPT ![t] = "published"]
      /\ UNCHANGED <<high, reads, writes, seqOf>>
  BY DEF FinalizeCommit
<1>2. /\ phase'[t] = "published" /\ \A u \in Txns \ {t} : phase'[u] = phase[u]
      /\ seqOf[t] \in Nat /\ writes[t] # {} /\ pushes \in Nat
  BY <1>1 DEF CInv, CoreTypes, WritesFitPhase, DInv, MoreTypes
<1>3. PICK in, out, kept : Prunes(t, seqOf[t], in, out, kept)
  BY FinalizeHistory, Zenon
<1>4. s \in Sessions \ {t} /\ s \in kept
  <2>1. s \in Sessions /\ s # t /\ ~marked'[s]
    BY <1>2 DEF Unmarked, Sessions, Registered
  <2>. QED
    BY <1>3, <2>1 DEF Prunes
<1>5. /\ \A e \in readers \cup NewReader(t, seqOf[t], in) : high[s] < e.seq => e \in readers'
      /\ \A e \in writers \cup NewWriter(t, seqOf[t], out) : high[s] < e.seq => e \in writers'
  BY <1>3, <1>4 DEF Prunes, Retained
<1>6. ASSUME NEW u \in Txns, phase'[u] \in {"published", "committed"}, seqOf[u] > high[s]
      PROVE  /\ reads[u] # {} => \E r \in readers' : r.txn = u
             /\ \E w \in writers' : w.txn = u
  <2>0. high[s] \in Nat /\ seqOf[u] \in Nat
    BY <1>4 DEF Sessions, DInv, MoreTypes, CInv, CoreTypes
  <2>1. CASE u = t
    <3>1. /\ \A e \in NewReader(t, seqOf[t], in) \cup NewWriter(t, seqOf[t], out) :
                e.txn = t /\ e.seq = seqOf[t]
          /\ reads[t] # {} => NewReader(t, seqOf[t], in) # {}
          /\ NewWriter(t, seqOf[t], out) # {}
      <4>1. AddsEntries(t, seqOf[t], in, out)
        BY <1>2, NewEntries
      <4>. QED
        BY <1>2, <4>1 DEF AddsEntries
    <3>. QED
      BY <1>5, <1>6, <2>0, <2>1, <3>1
  <2>2. CASE u # t
    <3>1. phase[u] \in {"published", "committed"}
      BY <1>2, <1>6, <2>2
    <3>2. /\ reads[u] # {} => \E r \in readers : r.txn = u
          /\ \E w \in writers : w.txn = u
      BY <1>6, <3>1 DEF Covered
    <3>3. \A e \in readers \cup writers : e.txn = u => high[s] < e.seq
      BY <1>6, <2>0 DEF DInv, EntriesStand, Stands
    <3>. QED
      BY <1>5, <3>2, <3>3
  <2>. QED
    BY <2>1, <2>2
<1>. QED
  BY <1>1, <1>6 DEF Covered

\* Every step keeps plans, clock and history in order ...
LEMMA NextDInv == CInv /\ DInv /\ [ConnNext]_vars => DInv'
<1>. SUFFICES ASSUME CInv, DInv, [ConnNext]_vars PROVE DInv'
  OBVIOUS
<1>1. ASSUME NEW t \in Txns, Begin(t) \/ LiftClock(t) \/ Statement(t) \/ Commit(t)
      PROVE  DInv'
  BY <1>1, BeginDInv, LiftDInv, StatementDInv, CommitDInv, FinalizeDInv
<1>2. CASE UNCHANGED vars
  <2>1. UNCHANGED <<phase, high, reads, writes, index, readers, writers, pushes, seqOf, plan,
                    nextSeq, activeSeqs, stable, lift>>
    BY <1>2 DEF vars, connVars, ssiVars, handleVars, historyVars
  <2>2. PlannedCurrent'
    BY <2>1, PlannedFrame
  <2>3. EntriesStand'
    BY <2>1 DEF DInv, EntriesStand, Stands
  <2>4. ClockOrder'
    BY <2>1, ClockFrame
  <2>. QED
    BY <2>1, <2>2, <2>3, <2>4 DEF DInv, MoreTypes
<1>. QED
  BY <1>1, <1>2 DEF ConnNext

\* ... and the history that an unmarked session needs.
LEMMA CoveredStep ==
    ASSUME CInv, DInv, ConnNext, NEW t \in Txns, t \in Unmarked(marked), Covered(t),
           t \in Unmarked(marked)'
    PROVE  Covered(t)'
<1>1. phase[t] \in Registered /\ phase'[t] \in Registered
  BY DEF Unmarked, Sessions
<1>2. PICK s \in Txns : Begin(s) \/ LiftClock(s) \/ Statement(s) \/ Commit(s)
  BY DEF ConnNext
<1>3. CASE Quiet(s)
  BY <1>1, <1>3, QuietCovered
<1>4. CASE FinalizeCommit(s)
  BY <1>4, FinalizeCovered
<1>. QED
  BY <1>2, <1>3, <1>4, BeginDInv, LiftDInv, StatementDInv, CommitDInv

LEMMA InitDInv == ConnInit => DInv
<1>. SUFFICES ASSUME ConnInit PROVE DInv
  OBVIOUS
<1>1. MoreTypes
  BY DEF ConnInit, Init, MoreTypes, NoPlan, PlanSet
<1>. QED
  BY <1>1 DEF ConnInit, Init, DInv, ClockOrder, PlannedCurrent, EntriesStand

-----------------------------------------------------------------------------
(* Theorems *)

\* The inductive invariant holds in every reachable state, whatever the
\* interleaving of the connections' begin, statement and commit steps.
THEOREM ConnInvariance == ConnSpec => []CInv
BY InitCInv, NextCInv, PTL DEF ConnSpec

\* A page lock is held exactly for the pages that a registered session has
\* written, also while its commit is between plan and publication.
THEOREM ConnLocks == ConnSpec => []LocksMatchSessions
<1>1. CInv => LocksMatchSessions
  BY DEF CInv
<1>. QED
  BY <1>1, ConnInvariance, PTL

\* Nobody appends a page without every earlier frame of it in the view its pages
\* were read from, although snapshot and view are taken in different steps and a
\* COMMIT that returned an error may have left frames behind.
THEOREM ConnFirstCommitterWins == ConnSpec => []NoLostFrames
<1>1. CInv => NoLostFrames
  BY DEF CInv, LogOrder, NoLostFrames
<1>. QED
  BY <1>1, ConnInvariance, PTL

\* Commits of one page draw their sequences in the order in which they became
\* durable.
THEOREM ConnSequenceOrder == ConnSpec => []SeqOrderMatchesWal
<1>1. CInv => SeqOrderMatchesWal
  <2>. SUFFICES ASSUME CInv, NEW i \in DOMAIN wal, NEW j \in DOMAIN wal, i < j,
                       0 < seqOf[wal[i]], 0 < seqOf[wal[j]],
                       Overlap(writes[wal[i]], writes[wal[j]])
                PROVE  seqOf[wal[i]] < seqOf[wal[j]]
    BY DEF SeqOrderMatchesWal
  <2>1. wal[i] \in Txns /\ wal[j] \in Txns
    BY DEF CInv, CoreTypes
  <2>2. ASSUME NEW u \in Txns, 0 < seqOf[u] PROVE frames[u] = writes[u]
    BY <2>2 DEF CInv, SeqFitsPhase, FramesFitPhase, Durable
  <2>3. Overlap(frames[wal[i]], frames[wal[j]])
    BY <2>1, <2>2
  <2>. QED
    BY <2>3 DEF CInv, LogOrder
<1>. QED
  BY <1>1, ConnInvariance, PTL

\* The commit index of an unlocked page is not behind any transaction that has
\* committed it, so the first-touch check cannot miss a commit.
THEOREM ConnUnlockedIndex == ConnSpec => []UnlockedIndexIsCurrent
<1>1. CInv => UnlockedIndexIsCurrent
  <2>. SUFFICES ASSUME CInv, NEW p \in Pages, NEW u \in Txns, lock[p] = NoTxn,
                       phase[u] \in Durable, p \in writes[u]
                PROVE  index[p] >= seqOf[u] /\ seqOf[u] > 0
    BY DEF UnlockedIndexIsCurrent, Updates, Finished, Durable
  <2>1. phase[u] \notin Registered
    BY NoTxnAssumption DEF CInv, LocksMatchSessions
  <2>2. phase[u] \in Published /\ frames[u] = writes[u]
    BY <2>1 DEF Registered, Durable, Published, CInv, FramesFitPhase
  <2>3. seqOf[u] > 0
    BY <2>2 DEF CInv, SeqFitsPhase, Published
  <2>4. seqOf[u] <= index[p] /\ seqOf[u] \in Nat /\ index[p] \in Nat
    BY <2>2 DEF CInv, CoreTypes, IndexCurrent
  <2>. QED
    BY <2>3, <2>4
<1>. QED
  BY <1>1, ConnInvariance, PTL

\* The commit index never goes back, although publication overwrites entries
\* and commits are published in any order.
THEOREM ConnIndexMonotone == ConnSpec => CommitIndexMonotone
<1>1. CInv /\ [ConnNext]_vars => [\A p \in Pages : index'[p] >= index[p]]_vars
  BY IndexStep
<1>. QED
  BY <1>1, ConnInvariance, PTL DEF ConnSpec, CommitIndexMonotone

\* Plans, clock and history stay in order as well.
THEOREM ConnDInvariance == ConnSpec => []DInv
BY InitDInv, NextDInv, ConnInvariance, PTL DEF ConnSpec

\* Every variable of the connections keeps its type; the unfinished sequences are
\* below the clock, and so is the watermark unless a thread is between the two
\* fetch_max that raise the one and then the other.
THEOREM ConnTypes == ConnSpec => []ConnTypeOK
<1>1. CInv /\ DInv => ConnTypeOK
  BY DEF CInv, CoreTypes, DInv, MoreTypes, ClockOrder, PlanSet, ConnTypeOK
<1>. QED
  BY <1>1, ConnInvariance, ConnDInvariance, PTL

\* Between plan and pager commit nobody makes a page of the plan stale: with a
\* sound snapshot the WAL's own conflict check finds nothing but the frames of a
\* COMMIT that returned an error.
THEOREM ConnPlannedIsFresh == ConnSpec => []PlannedIsFresh
<1>1. CInv /\ DInv => PlannedIsFresh
  <2>. SUFFICES ASSUME CInv, DInv, NEW t \in Txns, phase[t] = "prepared", SnapshotSound(t),
                       NEW i \in (view[t] + 1) .. Len(wal), NEW p \in frames[wal[i]],
                       p \in writes[t], wal[i] # t, phase[wal[i]] # "aborted"
                PROVE  FALSE
    BY DEF PlannedIsFresh, Overlap
  <2>1. view[t] \in Nat /\ Len(wal) \in Nat /\ wal \in Seq(Txns)
    BY DEF CInv, CoreTypes
  <2>2. i \in DOMAIN wal /\ i \in Nat /\ i > view[t]
    BY <2>1
  <2>3. wal[i] \in Txns
    BY <2>1, <2>2
  <2>4. phase[wal[i]] \in Published /\ p \in Pages
    <3>1. Overlap(frames[wal[i]], writes[t])
      BY DEF Overlap
    <3>2. phase[wal[i]] \in Published \cup {"aborted"}
      BY <2>3, <3>1, OtherFrames DEF Registered
    <3>. QED
      BY <2>3, <3>2 DEF CInv, CoreTypes
  <2>7. seqOf[wal[i]] > 0 /\ seqOf[wal[i]] \in Nat
    BY <2>3, <2>4 DEF CInv, CoreTypes, FramesFitPhase, SeqFitsPhase, Published, Durable
  <2>8. seqOf[wal[i]] <= index[p] /\ index[p] \in Nat
    BY <2>3, <2>4 DEF CInv, CoreTypes, IndexCurrent
  <2>9. index[p] <= high[t] /\ high[t] \in Nat
    BY DEF DInv, MoreTypes, PlannedCurrent
  <2>10. 0 < seqOf[wal[i]] /\ seqOf[wal[i]] <= high[t]
    BY <2>7, <2>8, <2>9
  <2>. QED
    BY <2>1, <2>2, <2>10 DEF SnapshotSound
<1>. QED
  BY <1>1, ConnInvariance, ConnDInvariance, PTL

\* A session that may still commit never loses history that it needs, whoever
\* publishes, prunes or ends meanwhile.
THEOREM ConnHistoryIsKept == ConnSpec => HistoryIsKept
<1>1. CInv /\ DInv /\ [ConnNext]_vars =>
        [\A t \in Txns : t \in Unmarked(marked) /\ Covered(t) /\ t \in Unmarked(marked)'
             => Covered(t)']_vars
  BY CoveredStep
<1>. QED
  BY <1>1, ConnInvariance, ConnDInvariance, PTL DEF ConnSpec, HistoryIsKept

-----------------------------------------------------------------------------
(* Implementation of the abstract store *)

LEMMA InitConnStore == ConnInit => ConnStore!StoreInit
<1>. SUFFICES ASSUME ConnInit PROVE ConnStore!StoreInit
  OBVIOUS
<1>1. [i \in DOMAIN wal |-> frames[wal[i]]] = << >>
  BY DEF ConnInit, Init
<1>. QED
  BY <1>1 DEF ConnInit, Init, ConnStore!StoreInit, StoreStatus, Phases, Registered

\* The value of the refinement mapping at each phase.
LEMMA StatusValues ==
    /\ \A q \in {"idle", "bound"} : StoreStatus[q] = "idle"
    /\ \A q \in {"opened", "aligned", "refreshed", "active", "prepared"} :
           StoreStatus[q] = "open"
    /\ \A q \in Durable : StoreStatus[q] = "committed"
    /\ StoreStatus["aborted"] = "aborted"
BY DEF StoreStatus, Phases, Registered, Durable

\* A step of one transaction's phase through the refinement mapping.
LEMMA StatusStep ==
    ASSUME CInv, NEW t \in Txns, NEW q \in Phases, phase' = [phase EXCEPT ![t] = q]
    PROVE  [u \in Txns |-> StoreStatus[phase'[u]]]
             = [[u \in Txns |-> StoreStatus[phase[u]]] EXCEPT ![t] = StoreStatus[q]]
BY DEF CInv, CoreTypes

\* Steps within one abstract status are invisible in the store.
LEMMA InvisibleStep ==
    ASSUME CInv, NEW t \in Txns, NEW q \in Phases, phase' = [phase EXCEPT ![t] = q],
           StoreStatus[q] = StoreStatus[phase[t]],
           UNCHANGED <<view, writes, frames, wal>>
    PROVE  UNCHANGED ConnStore!storeVars
BY StatusStep DEF ConnStore!storeVars, CInv, CoreTypes

\* Discarding a session aborts it in the store; what it logged stays logged.
LEMMA DiscardStep ==
    ASSUME CInv, NEW t \in Txns, phase[t] \in {"refreshed", "active"}, Discard(t),
           UNCHANGED frames
    PROVE  ConnStore!AbortStore(t)
<1>1. "aborted" \in Phases
  BY DEF Phases
<1>2. [u \in Txns |-> StoreStatus[phase'[u]]]
        = [[u \in Txns |-> StoreStatus[phase[u]]] EXCEPT ![t] = "aborted"]
  BY <1>1, StatusStep, StatusValues DEF Discard
<1>. QED
  BY <1>2, StatusValues DEF Discard, ConnStore!AbortStore

\* A first touch is exclusive: other writers of the page are registered and hold
\* its lock, and nothing is written before registration.
LEMMA TouchStep ==
    ASSUME CInv, NEW t \in Txns, AcquirePage(t)
    PROVE  \E p \in Pages : ConnStore!Touch(t, p)
<1>1. PICK p \in want[t] : ConcurrentWritePage(t, p) /\ UNCHANGED frames
  BY DEF AcquirePage
<1>2. p \in Pages
  BY DEF CInv, CoreTypes
<1>3. \A u \in Txns \ {t} : phase[u] \in Registered => p \notin writes[u]
  BY <1>1, <1>2, NoTxnAssumption
     DEF ConcurrentWritePage, Lockable, CInv, CoreTypes, LocksMatchSessions
<1>4. \A u \in Txns \ {t} : ~(StoreStatus[phase[u]] = "open" /\ p \in writes[u])
  <2>. SUFFICES ASSUME NEW u \in Txns \ {t}, p \in writes[u]
                PROVE  StoreStatus[phase[u]] # "open"
    OBVIOUS
  <2>1. phase[u] \in Published
    BY <1>3 DEF CInv, CoreTypes, WritesFitPhase, Phases, Registered, Published, Beginning
  <2>. QED
    BY <2>1, StatusValues DEF Published, Durable
<1>5. ConnStore!Touch(t, p)
  BY <1>1, <1>4, StatusValues DEF ConcurrentWritePage, ConnStore!Touch
<1>. QED
  BY <1>2, <1>5

\* What appending frames is to the store.
LEMMA AppendStep ==
    ASSUME CInv, NEW t \in Txns, phase[t] = "prepared", AppendFrames(t), UNCHANGED writes
    PROVE  /\ writes[t] # {}
           /\ ConnStore!FirstCommitter(t)
           /\ [i \in DOMAIN wal' |-> frames'[wal'[i]]]
                = Append([i \in DOMAIN wal |-> frames[wal[i]]], writes[t])
<1>1. /\ ~WalConflict(t) /\ wal' = Append(wal, t)
      /\ frames' = [frames EXCEPT ![t] = writes[t]]
  BY DEF AppendFrames
<1>2. /\ writes[t] # {} /\ writes[t] \in SUBSET Pages
      /\ view[t] \in Nat /\ Len(wal) \in Nat /\ DOMAIN wal = 1 .. Len(wal)
      /\ wal \in Seq(Txns) /\ \A i \in DOMAIN wal : wal[i] \in Txns
      /\ frames \in [Txns -> SUBSET Pages] /\ frames' \in [Txns -> SUBSET Pages]
      /\ frames'[t] = writes[t]
  BY <1>1 DEF CInv, CoreTypes, WritesFitPhase
<1>3. ASSUME NEW i \in DOMAIN wal, i > view[t]
      PROVE  frames[wal[i]] \cap writes[t] = {}
  <2>1. i \in (view[t] + 1) .. Len(wal)
    BY <1>2, <1>3
  <2>. QED
    BY <1>1, <2>1 DEF WalConflict, Overlap
<1>4. ConnStore!FirstCommitter(t)
  BY <1>2, <1>3 DEF ConnStore!FirstCommitter
<1>5. ASSUME NEW i \in DOMAIN wal PROVE frames'[wal[i]] = frames[wal[i]]
  <2>1. wal[i] # t
    <3>. SUFFICES ASSUME wal[i] = t PROVE FALSE
      OBVIOUS
    <3>1. view[t] < i /\ frames[t] # {} /\ frames[t] \subseteq writes[t]
      BY DEF CInv, LogFitsPhase, FramesFitPhase, Registered
    <3>. QED
      BY <1>3, <3>1
  <2>. QED
    BY <1>1, <1>2, <2>1
<1>6. [i \in DOMAIN wal' |-> frames'[wal'[i]]]
        = Append([i \in DOMAIN wal |-> frames[wal[i]]], frames'[t])
  BY <1>1, <1>2, <1>5, LogImageAppend
<1>. QED
  BY <1>2, <1>4, <1>6

\* The pager commit is the store's commit.
LEMMA CommitStep ==
    ASSUME CInv, NEW t \in Txns, PagerCommit(t)
    PROVE  ConnStore!CommitStore(t)
<1>1. /\ phase[t] = "prepared" /\ AppendFrames(t)
      /\ phase' = [phase EXCEPT ![t] = "durable"]
      /\ UNCHANGED <<view, writes>>
  BY DEF PagerCommit, handleVars
<1>2. "durable" \in Phases
  BY DEF Phases, Registered
<1>3. [u \in Txns |-> StoreStatus[phase'[u]]]
        = [[u \in Txns |-> StoreStatus[phase[u]]] EXCEPT ![t] = "committed"]
  BY <1>1, <1>2, StatusStep, StatusValues DEF Durable
<1>4. /\ writes[t] # {} /\ ConnStore!FirstCommitter(t)
      /\ [i \in DOMAIN wal' |-> frames'[wal'[i]]]
           = Append([i \in DOMAIN wal |-> frames[wal[i]]], writes[t])
  BY <1>1, AppendStep
<1>. QED
  BY <1>1, <1>3, <1>4, StatusValues DEF ConnStore!CommitStore

\* A pager commit that fails with its frames in the WAL is the store's failed
\* commit.
LEMMA FailStep ==
    ASSUME CInv, NEW t \in Txns, PagerFailLogged(t)
    PROVE  ConnStore!FailLogged(t)
<1>1. /\ phase[t] = "prepared" /\ AppendFrames(t)
      /\ phase' = [phase EXCEPT ![t] = "active"]
      /\ UNCHANGED <<view, writes>>
  BY DEF PagerFailLogged, handleVars
<1>2. "active" \in Phases
  BY DEF Phases, Registered
<1>3. [u \in Txns |-> StoreStatus[phase'[u]]] = [u \in Txns |-> StoreStatus[phase[u]]]
  BY <1>1, <1>2, StatusStep, StatusValues
<1>4. /\ writes[t] # {} /\ ConnStore!FirstCommitter(t)
      /\ [i \in DOMAIN wal' |-> frames'[wal'[i]]]
           = Append([i \in DOMAIN wal |-> frames[wal[i]]], writes[t])
  BY <1>1, AppendStep
<1>. QED
  BY <1>1, <1>3, <1>4, StatusValues DEF ConnStore!FailLogged

\* A read-only commit is a commit of the store that adds nothing to the log.
LEMMA ReadOnlyStep ==
    ASSUME CInv, NEW t \in Txns, CommitReadOnly(t)
    PROVE  ConnStore!CommitStore(t)
<1>1. /\ phase[t] = "active" /\ writes[t] = {}
      /\ phase' = [phase EXCEPT ![t] = "committed"]
      /\ UNCHANGED <<view, writes, frames, wal>>
  BY DEF CommitReadOnly, Ready
<1>2. "committed" \in Phases
  BY DEF Phases
<1>3. [u \in Txns |-> StoreStatus[phase'[u]]]
        = [[u \in Txns |-> StoreStatus[phase[u]]] EXCEPT ![t] = "committed"]
  BY <1>1, <1>2, StatusStep, StatusValues DEF Durable
<1>4. ConnStore!FirstCommitter(t)
  BY <1>1 DEF ConnStore!FirstCommitter
<1>. QED
  BY <1>1, <1>3, <1>4, StatusValues DEF ConnStore!CommitStore

\* pager.begin is the store's open.
LEMMA OpenStep ==
    ASSUME CInv, NEW t \in Txns, OpenPager(t)
    PROVE  ConnStore!Open(t)
<1>1. "opened" \in Phases
  BY DEF Phases
<1>2. [u \in Txns |-> StoreStatus[phase'[u]]]
        = [[u \in Txns |-> StoreStatus[phase[u]]] EXCEPT ![t] = "open"]
  BY <1>1, StatusStep, StatusValues DEF OpenPager
<1>3. Len([i \in DOMAIN wal |-> frames[wal[i]]]) = Len(wal)
  BY LogImage DEF CInv, CoreTypes
<1>. QED
  BY <1>2, <1>3, StatusValues DEF OpenPager, ConnStore!Open

\* Every step of a connection is a step of the store or leaves it unchanged.
LEMMA NextConnStore ==
    CInv /\ [ConnNext]_vars => [ConnStore!StoreNext]_(ConnStore!storeVars)
<1>. SUFFICES ASSUME CInv, [ConnNext]_vars
              PROVE  [ConnStore!StoreNext]_(ConnStore!storeVars)
  OBVIOUS
<1>1. ASSUME NEW t \in Txns,
             \/ OpenPager(t) \/ AcquirePage(t) \/ PagerCommit(t) \/ CommitReadOnly(t)
             \/ PagerFailLogged(t) \/ RegistryFull(t) \/ Rollback(t) \/ RefuseCommit(t)
      PROVE  ConnStore!StoreNext
  BY <1>1, OpenStep, TouchStep, CommitStep, FailStep, ReadOnlyStep, DiscardStep
     DEF ConnStore!StoreNext, RegistryFull, Rollback, ConcurrentAbort, RefuseCommit,
         RefuseWithSsi, connVars
<1>2. ASSUME NEW t \in Txns,
             \/ BindPublication(t) \/ AlignToView(t) \/ RefreshSnapshot(t)
             \/ RegisterSession(t) \/ PlanCommit(t) \/ PagerFail(t)
             \/ AdvanceCommitClock(t) \/ FinalizeCommit(t) \/ FinishCommitClock(t)
      PROVE  UNCHANGED ConnStore!storeVars
  <2>1. PICK q \in Phases : /\ phase' = [phase EXCEPT ![t] = q]
                            /\ StoreStatus[q] = StoreStatus[phase[t]]
    BY <1>2, StatusValues
       DEF BindPublication, AlignToView, RefreshSnapshot, RegisterSession, PlanCommit,
           Ready, PagerFail, AdvanceCommitClock, FinalizeCommit, FinishCommitClock,
           Phases, Registered, Durable
  <2>2. UNCHANGED <<view, writes, frames, wal>>
    BY <1>2
       DEF BindPublication, AlignToView, RefreshSnapshot, RegisterSession, PlanCommit,
           PagerFail, AdvanceCommitClock, FinalizeCommit, FinishCommitClock, handleVars
  <2>. QED
    BY <2>1, <2>2, InvisibleStep
<1>3. ASSUME NEW t \in Txns, NEW p \in Pages,
             Read(t, p) \/ CheckPage(t, p)
      PROVE  UNCHANGED ConnStore!storeVars
  BY <1>3 DEF Read, RecordRead, CheckPage, ssiVars, handleVars, connVars,
              ConnStore!storeVars
<1>4. ASSUME NEW t \in Txns, PageBusy(t) \/ LiftClock(t)
      PROVE  UNCHANGED ConnStore!storeVars
  BY <1>4 DEF PageBusy, LiftClock, ssiVars, handleVars, ConnStore!storeVars
<1>5. CASE UNCHANGED vars
  BY <1>5 DEF vars, connVars, ssiVars, handleVars, ConnStore!storeVars
<1>6. CASE ConnNext
  BY <1>1, <1>2, <1>3, <1>4, <1>6 DEF ConnNext, Begin, Statement, Commit
<1>. QED
  BY <1>5, <1>6

\* Under every interleaving, BEGIN CONCURRENT ... COMMIT as the connections run
\* it implements the abstract first-committer-wins store.
THEOREM ConnRefinement == ConnSpec => ConnImplementsStore
BY InitConnStore, NextConnStore, ConnInvariance, PTL
   DEF ConnSpec, ConnImplementsStore, ConnStore!StoreSpec

=============================================================================
